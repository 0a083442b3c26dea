--------------------------- MODULE OTPLoginProofs ---------------------------
(***************************************************************************)
(* What OTPLogin guarantees for any clients, processes and faults: the     *)
(* locks make the window a client checked still unspent, to the knowledge  *)
(* of its process and of the store, when its code is at the server,        *)
(* nothing is remembered that was not accepted, and until something fails  *)
(* no code that was accepted from a client it shares with is submitted.    *)
(* The store misses no more answered windows than there were faults.       *)
(***************************************************************************)
EXTENDS OTPLogin, FiniteSetTheorems, TLAPS

(* Between acquireOTPAccount and its release. *)
Critical == {"check", "waitAccepted", "password", "otp", "sent", "nextWindow",
             "persist", "impersonate", "sleep"}

Types ==
    /\ TypeOK
    /\ step \in 1 .. MaxStep
    /\ memory \in [Processes -> 0 .. MaxStep]
    /\ disk \in 0 .. MaxStep
    /\ \A c \in Clients :
        /\ client[c].used \in 0 .. MaxStep
        /\ client[c].pc \in {"sent", "persist"} => client[c].used # 0

(* A client in login() has the mutex of its process, and the lock file when it
   uses the store. *)
LockInv ==
    \A c \in Clients :
        /\ client[c].pc \in Critical => mutex[P(c)] = c
        /\ c \in StoredClients /\ client[c].pc \in Critical \cup {"mutex", "unlock"} =>
                flock = c
        /\ c \notin StoredClients => client[c].pc \notin {"flock", "unlock", "persist"}

(* Is w later than everything c's process and store know? *)
Later(c, w) == w > memory[P(c)] /\ (c \in StoredClients => w > disk)

(* What a client checked stays true while it has the locks. *)
Fresh(c) ==
    /\ client[c].pc \in {"password", "otp"} => Later(c, step)
    /\ client[c].pc = "waitAccepted" =>
        /\ client[c].used >= memory[P(c)]
        /\ c \in StoredClients => client[c].used >= disk
    /\ client[c].pc \in {"sent", "nextWindow"} => Later(c, client[c].used)

FreshInv == \A c \in Clients : Fresh(c)

SpentInv ==
    /\ StepsAreSpent
    /\ \A c \in Clients : client[c].pc = "persist" => Spent(client[c].used)

RememberInv == \A c \in Clients : memory[P(c)] >= answered[c]

IInv == Types /\ LockInv /\ FreshInv /\ SpentInv /\ RememberInv

(* The server forgets nothing. *)
SpentGrows ==
    /\ spent' \in [1 .. MaxStep -> Clients \cup {NoClient}]
    /\ \A w \in 1 .. MaxStep : Spent(w) => spent'[w] # NoClient

----------------------------------------------------------------------------
LEMMA Spending ==
    ASSUME Types, NEW c \in Clients, client[c].pc = "sent", Spends(c)
    PROVE  SpentGrows /\ spent'[client[c].used] = c /\ client[c].used \in 1 .. MaxStep
<1>1. client[c].used \in 1 .. MaxStep
  BY OTPLoginAssumption DEF Types
<1>2. spent \in [1 .. MaxStep -> Clients \cup {NoClient}]
  BY DEF Types, TypeOK
<1> QED BY <1>1, <1>2 DEF Spends, CodeGood, SpentGrows, Spent

LEMMA NotSpending ==
    ASSUME Types, spent' = spent
    PROVE  SpentGrows
BY DEF Types, TypeOK, SpentGrows, Spent

LEMMA MaySpendGrows ==
    ASSUME Types, NEW c \in Clients, MaySpend(c)
    PROVE  SpentGrows
BY Spending, NotSpending DEF MaySpend

(* What is remembered stays spent. *)
LEMMA StillSpent ==
    ASSUME Types, SpentGrows, NEW w \in 0 .. MaxStep, w # 0 => Spent(w)
    PROVE  w # 0 => spent'[w] # NoClient
<1>1. CASE w = 0
  BY <1>1
<1>2. CASE w # 0
  <2>1. w \in 1 .. MaxStep
    BY <1>2, OTPLoginAssumption
  <2> QED BY <1>2, <2>1 DEF SpentGrows
<1> QED BY <1>1, <1>2

(* While the memories stay, or the store learns a spent window, so does what
   is known of them; persisting clients are no new ones. *)
LEMMA SpentStays ==
    ASSUME Types, SpentInv, SpentGrows, memory' = memory,
           disk' = disk \/ (disk' \in 0 .. MaxStep /\ Spent(disk')),
           \A d \in Clients : client'[d].pc = "persist" => client'[d] = client[d]
    PROVE  SpentInv'
<1>1. StepsAreSpent'
  <2>1. ASSUME NEW p \in Processes PROVE memory[p] # 0 => spent'[memory[p]] # NoClient
    <3>1. memory[p] \in 0 .. MaxStep
      BY DEF Types
    <3>2. memory[p] # 0 => Spent(memory[p])
      BY DEF SpentInv, StepsAreSpent
    <3> QED BY <3>1, <3>2, StillSpent
  <2>2. disk' # 0 => spent'[disk'] # NoClient
    <3>1. disk' \in 0 .. MaxStep
      BY DEF Types
    <3>2. disk' # 0 => Spent(disk')
      BY DEF SpentInv, StepsAreSpent
    <3> QED BY <3>1, <3>2, StillSpent
  <2> QED BY <2>1, <2>2 DEF StepsAreSpent, Spent
<1>2. ASSUME NEW d \in Clients, client'[d].pc = "persist"
      PROVE  spent'[client'[d].used] # NoClient
  <2>1. client'[d] = client[d]
    BY <1>2
  <2>2. client[d].used \in 0 .. MaxStep /\ client[d].used # 0 /\ Spent(client[d].used)
    BY <1>2, <2>1 DEF Types, SpentInv
  <2> QED BY <2>1, <2>2, StillSpent
<1> QED BY <1>1, <1>2 DEF SpentInv, Spent

(* Two clients of one process, or two of the store, are not both in login. *)
LEMMA Exclusion ==
    ASSUME LockInv, NEW c \in Clients, NEW d \in Clients, c # d,
           client[c].pc \in Critical, client[d].pc \in Critical
    PROVE  P(c) # P(d) /\ ~(c \in StoredClients /\ d \in StoredClients)
BY DEF LockInv

(* A client moves within or into login, or out of a wait for a lock, and
   nothing that is shared changes. *)
LEMMA MoveStep ==
    ASSUME IInv, NEW c \in Clients,
           NEW new \in [pc : PCs, attempt : 0 .. MaxAttempts - 1,
                        used : 0 .. MaxStep, second : BOOLEAN],
           client' = [client EXCEPT ![c] = new],
           UNCHANGED <<step, memory, disk, mutex, flock, answered>>, SpentGrows,
           disturbed' \in 0 .. MaxDisturbances,
           new.pc \in {"sent", "persist"} => new.used # 0,
           new.pc \in Critical => mutex[P(c)] = c,
           c \in StoredClients /\ new.pc \in Critical \cup {"mutex", "unlock"} => flock = c,
           c \notin StoredClients => new.pc \notin {"flock", "unlock"},
           new.pc \in {"password", "otp"} => Later(c, step),
           new.pc \in {"sent", "nextWindow"} => Later(c, new.used),
           new.pc \notin {"waitAccepted", "persist"}
    PROVE  IInv'
<1> USE OTPLoginAssumption
<1>0. Types /\ LockInv /\ FreshInv /\ SpentInv /\ RememberInv /\ TypeOK
  BY DEF IInv, Types
<1>1. \A d \in Clients : client'[d] = IF d = c THEN new ELSE client[d]
  BY <1>0 DEF TypeOK
<1>2. TypeOK'
  BY <1>0, <1>1 DEF TypeOK, SpentGrows
<1>3. Types'
  BY <1>0, <1>1, <1>2 DEF Types
<1>4. LockInv'
  BY <1>0, <1>1 DEF LockInv, P
<1>5. FreshInv'
  BY <1>0, <1>1 DEF FreshInv, Fresh, Later, P
<1>6. SpentInv'
  BY <1>0, <1>1, SpentStays
<1>7. RememberInv'
  BY <1>0 DEF RememberInv, P
<1> QED BY <1>3, <1>4, <1>5, <1>6, <1>7 DEF IInv

(* What the store holds after c's write, whether or not it reached it. *)
MayWrite(c) ==
    disk' = disk \/ (client[c].pc = "persist" /\ disk' = client[c].used)

(* login() returns. *)
LEMMA ReturnStep ==
    ASSUME IInv, NEW c \in Clients, client[c].pc \in Critical, Returns(c),
           UNCHANGED <<step, memory, flock, answered>>, SpentGrows, MayWrite(c),
           disturbed' \in 0 .. MaxDisturbances
    PROVE  IInv'
<1> USE OTPLoginAssumption
<1>0. Types /\ LockInv /\ FreshInv /\ SpentInv /\ RememberInv /\ TypeOK
  BY DEF IInv, Types
<1> DEFINE new == [NoLogin EXCEPT !.pc = IF c \in StoredClients THEN "unlock" ELSE "idle"]
<1>1. \A d \in Clients : client'[d] = IF d = c THEN new ELSE client[d]
  BY <1>0 DEF TypeOK, Returns
<1>2. /\ new \in [pc : PCs, attempt : 0 .. MaxAttempts - 1, used : Nat,
                   second : BOOLEAN]
      /\ new.used = 0 /\ new.pc = IF c \in StoredClients THEN "unlock" ELSE "idle"
  <2>1. 0 \in 0 .. MaxAttempts - 1
    OBVIOUS
  <2>2. CASE c \in StoredClients
    BY <2>1, <2>2 DEF NoLogin, PCs
  <2>3. CASE c \notin StoredClients
    BY <2>1, <2>3 DEF NoLogin, PCs
  <2> QED BY <2>2, <2>3
<1>3. client' \in [Clients -> [pc : PCs, attempt : 0 .. MaxAttempts - 1,
                               used : Nat, second : BOOLEAN]]
  BY <1>0, <1>2 DEF TypeOK, Returns
<1>m. mutex' = [mutex EXCEPT ![P(c)] = NoClient]
  BY DEF Returns
<1>w. /\ disk' \in 0 .. MaxStep /\ disk' \in Nat
      /\ disk' = disk \/ (c \in StoredClients /\ Spent(disk'))
  BY <1>0 DEF MayWrite, Types, SpentInv, LockInv
<1> HIDE DEF new
<1>4. TypeOK'
  BY <1>0, <1>3, <1>m, <1>w DEF TypeOK, SpentGrows, P
<1>5. Types'
  BY <1>0, <1>1, <1>2, <1>4, <1>w DEF Types
<1>6. ASSUME NEW d \in Clients, d # c, client[d].pc \in Critical
      PROVE  mutex'[P(d)] = d
  <2>1. P(d) # P(c)
    BY <1>0, <1>6, Exclusion
  <2> QED BY <1>0, <1>6, <1>m, <2>1 DEF LockInv, TypeOK, P
<1>7. LockInv'
  BY <1>0, <1>1, <1>2, <1>6 DEF LockInv, Critical, P
<1>8. FreshInv'
  <2>1. ASSUME NEW d \in Clients PROVE Fresh(d)'
    <3>1. CASE d # c /\ client[d].pc \in Critical
      <4>1. d \notin StoredClients \/ disk' = disk
        BY <1>0, <1>w, <3>1, Exclusion
      <4> QED BY <1>0, <1>1, <3>1, <4>1 DEF FreshInv, Fresh, Later, P
    <3>2. CASE d = c \/ client[d].pc \notin Critical
      BY <1>1, <1>2, <3>2 DEF Fresh, Critical
    <3> QED BY <3>1, <3>2
  <2> QED BY <2>1 DEF FreshInv
<1>9. SpentInv'
  <2>1. \A d \in Clients : client'[d].pc = "persist" => client'[d] = client[d]
    BY <1>1, <1>2
  <2> QED BY <1>0, <1>w, <2>1, SpentStays
<1>10. RememberInv'
  BY <1>0 DEF RememberInv, P
<1> QED BY <1>5, <1>7, <1>8, <1>9, <1>10 DEF IInv

LEMMA InitOK == Init => IInv
<1> SUFFICES ASSUME Init PROVE IInv
  OBVIOUS
<1> USE OTPLoginAssumption
<1>1. client \in [Clients -> [pc : PCs, attempt : 0 .. MaxAttempts - 1,
                              used : Nat, second : BOOLEAN]]
  BY DEF Init, NoLogin, PCs
<1>2. \A c \in Clients : client[c].pc = "idle" /\ client[c].used = 0
  BY DEF Init, NoLogin
<1>3. TypeOK
  BY <1>1 DEF Init, TypeOK
<1>4. Types
  BY <1>2, <1>3 DEF Init, Types
<1>5. LockInv /\ FreshInv
  BY <1>2 DEF LockInv, FreshInv, Fresh, Critical
<1>6. SpentInv /\ RememberInv
  BY <1>2 DEF Init, SpentInv, StepsAreSpent, RememberInv, P
<1> QED BY <1>4, <1>5, <1>6 DEF IInv

LEMMA Disturbing ==
    ASSUME Types, NEW kind, Disturbs(kind) \/ UNCHANGED disturbed
    PROVE  disturbed' \in 0 .. MaxDisturbances
BY OTPLoginAssumption DEF Types, TypeOK, Disturbs

(* Where a client that has the mutex goes next inside login, the window it
   checked or submitted is still later than all it knows. *)
LEMMA Staying ==
    ASSUME IInv, NEW c \in Clients, client[c].pc \in Critical
    PROVE  /\ mutex[P(c)] = c
           /\ c \in StoredClients => flock = c
BY DEF IInv, LockInv

(* A client sets out for its first lock. *)
LEMMA StartOK ==
    ASSUME IInv, NEW c \in Clients, Start(c)
    PROVE  IInv'
<1> USE OTPLoginAssumption
<1>0. Types /\ TypeOK /\ LockInv /\ FreshInv /\ SpentInv /\ RememberInv
  BY DEF IInv, Types
<1>1. /\ client[c] \in [pc : PCs, attempt : 0 .. MaxAttempts - 1, used : Nat,
                        second : BOOLEAN]
      /\ client[c].used \in 0 .. MaxStep
      /\ step \in 1 .. MaxStep /\ step \in 0 .. MaxStep
  BY <1>0 DEF TypeOK, Types
<1>a. 0 \in 0 .. MaxAttempts - 1 /\ 0 \in 0 .. MaxStep
  OBVIOUS
<1> DEFINE new == [client[c] EXCEPT !.pc = IF c \in StoredClients THEN "flock" ELSE "mutex"]
<1>2. client' = [client EXCEPT ![c] = new]
  BY <1>0 DEF Start, GoesTo, TypeOK
<1>3. /\ new \in [pc : PCs, attempt : 0 .. MaxAttempts - 1, used : 0 .. MaxStep,
                       second : BOOLEAN]
      /\ new.pc = IF c \in StoredClients THEN "flock" ELSE "mutex"
  <2>1. CASE c \in StoredClients
    BY <1>1, <1>a, <2>1 DEF Start, PCs
  <2>2. CASE c \notin StoredClients
    BY <1>1, <1>a, <2>2 DEF Start, PCs
  <2> QED BY <2>1, <2>2 DEF Start
<1> HIDE DEF new
<1>4. SpentGrows
  BY <1>0, NotSpending DEF Start
<1>5. disturbed' \in 0 .. MaxDisturbances
  BY <1>0 DEF Start, TypeOK
<1>6. /\ new.pc \in Critical => mutex[P(c)] = c
      /\ c \in StoredClients /\ new.pc \in Critical \cup {"mutex", "unlock"} => flock = c
      /\ c \notin StoredClients => new.pc \notin {"flock", "unlock"}
  BY <1>0, <1>3 DEF Start, LockInv, Critical, TypeOK
<1>7. /\ new.pc \in {"password", "otp"} => Later(c, step)
      /\ new.pc \in {"sent", "nextWindow"} => Later(c, new.used)
      /\ new.pc \in {"sent", "persist"} => new.used # 0
  BY <1>0, <1>1, <1>3 DEF Start, FreshInv, Fresh, Later, Types, P
<1> QED BY <1>2, <1>3, <1>4, <1>5, <1>6, <1>7, MoveStep DEF Start

(* It stops waiting for a lock. *)
LEMMA GivesUpLockOK ==
    ASSUME IInv, NEW c \in Clients, GivesUpLock(c)
    PROVE  IInv'
<1> USE OTPLoginAssumption
<1>0. Types /\ TypeOK /\ LockInv /\ FreshInv /\ SpentInv /\ RememberInv
  BY DEF IInv, Types
<1>1. /\ client[c] \in [pc : PCs, attempt : 0 .. MaxAttempts - 1, used : Nat,
                        second : BOOLEAN]
      /\ client[c].used \in 0 .. MaxStep
      /\ step \in 1 .. MaxStep /\ step \in 0 .. MaxStep
  BY <1>0 DEF TypeOK, Types
<1>a. 0 \in 0 .. MaxAttempts - 1 /\ 0 \in 0 .. MaxStep
  OBVIOUS
<1> DEFINE new == [NoLogin EXCEPT !.pc = IF flock = c THEN "unlock" ELSE "idle"]
<1>2. client' = [client EXCEPT ![c] = new]
  BY <1>0 DEF GivesUpLock, GoesTo, TypeOK
<1>3. /\ new \in [pc : PCs, attempt : 0 .. MaxAttempts - 1, used : 0 .. MaxStep,
                       second : BOOLEAN]
      /\ new.pc = IF flock = c THEN "unlock" ELSE "idle"
  <2>1. CASE flock = c
    BY <1>1, <1>a, <2>1 DEF GivesUpLock, PCs, NoLogin
  <2>2. CASE flock # c
    BY <1>1, <1>a, <2>2 DEF GivesUpLock, PCs, NoLogin
  <2> QED BY <2>1, <2>2 DEF GivesUpLock
<1> HIDE DEF new
<1>4. SpentGrows
  BY <1>0, NotSpending DEF GivesUpLock
<1>5. disturbed' \in 0 .. MaxDisturbances
  BY <1>0 DEF GivesUpLock, TypeOK
<1>6. /\ new.pc \in Critical => mutex[P(c)] = c
      /\ c \in StoredClients /\ new.pc \in Critical \cup {"mutex", "unlock"} => flock = c
      /\ c \notin StoredClients => new.pc \notin {"flock", "unlock"}
  BY <1>0, <1>3 DEF GivesUpLock, LockInv, Critical, TypeOK
<1>7. /\ new.pc \in {"password", "otp"} => Later(c, step)
      /\ new.pc \in {"sent", "nextWindow"} => Later(c, new.used)
      /\ new.pc \in {"sent", "persist"} => new.used # 0
  BY <1>0, <1>1, <1>3 DEF GivesUpLock, FreshInv, Fresh, Later, Types, P
<1> QED BY <1>2, <1>3, <1>4, <1>5, <1>6, <1>7, MoveStep DEF GivesUpLock

(* The clock is past the window it waited for. *)
LEMMA NextWindowOK ==
    ASSUME IInv, NEW c \in Clients, NextWindow(c)
    PROVE  IInv'
<1> USE OTPLoginAssumption
<1>0. Types /\ TypeOK /\ LockInv /\ FreshInv /\ SpentInv /\ RememberInv
  BY DEF IInv, Types
<1>1. /\ client[c] \in [pc : PCs, attempt : 0 .. MaxAttempts - 1, used : Nat,
                        second : BOOLEAN]
      /\ client[c].used \in 0 .. MaxStep
      /\ step \in 1 .. MaxStep /\ step \in 0 .. MaxStep
  BY <1>0 DEF TypeOK, Types
<1>a. 0 \in 0 .. MaxAttempts - 1 /\ 0 \in 0 .. MaxStep
  OBVIOUS
<1> DEFINE new == [client[c] EXCEPT !.pc = IF @ = "nextWindow" THEN "otp" ELSE "password"]
<1>2. client' = [client EXCEPT ![c] = new]
  BY <1>0 DEF NextWindow, GoesTo, TypeOK
<1>3. /\ new \in [pc : PCs, attempt : 0 .. MaxAttempts - 1, used : 0 .. MaxStep,
                       second : BOOLEAN]
      /\ new.pc \in {"otp", "password"}
  <2>1. CASE client[c].pc = "nextWindow"
    BY <1>1, <1>a, <2>1 DEF NextWindow, PCs
  <2>2. CASE client[c].pc # "nextWindow"
    BY <1>1, <1>a, <2>2 DEF NextWindow, PCs
  <2> QED BY <2>1, <2>2 DEF NextWindow
<1> HIDE DEF new
<1>4. SpentGrows
  BY <1>0, NotSpending DEF NextWindow
<1>5. disturbed' \in 0 .. MaxDisturbances
  BY <1>0 DEF NextWindow, TypeOK
<1>6. /\ new.pc \in Critical => mutex[P(c)] = c
      /\ c \in StoredClients /\ new.pc \in Critical \cup {"mutex", "unlock"} => flock = c
      /\ c \notin StoredClients => new.pc \notin {"flock", "unlock"}
  BY <1>0, <1>3 DEF NextWindow, LockInv, Critical, TypeOK
<1>7. /\ new.pc \in {"password", "otp"} => Later(c, step)
      /\ new.pc \in {"sent", "nextWindow"} => Later(c, new.used)
      /\ new.pc \in {"sent", "persist"} => new.used # 0
  BY <1>0, <1>1, <1>3 DEF NextWindow, FreshInv, Fresh, Later, Types, P
<1> QED BY <1>2, <1>3, <1>4, <1>5, <1>6, <1>7, MoveStep DEF NextWindow

(* The password is right. *)
LEMMA PasswordStep ==
    ASSUME IInv, NEW c \in Clients, PasswordOK(c)
    PROVE  IInv'
<1> USE OTPLoginAssumption
<1>0. Types /\ TypeOK /\ LockInv /\ FreshInv /\ SpentInv /\ RememberInv
  BY DEF IInv, Types
<1>1. /\ client[c] \in [pc : PCs, attempt : 0 .. MaxAttempts - 1, used : Nat,
                        second : BOOLEAN]
      /\ client[c].used \in 0 .. MaxStep
      /\ step \in 1 .. MaxStep /\ step \in 0 .. MaxStep
  BY <1>0 DEF TypeOK, Types
<1>a. 0 \in 0 .. MaxAttempts - 1 /\ 0 \in 0 .. MaxStep
  OBVIOUS
<1> DEFINE new == [client[c] EXCEPT !.pc = "otp"]
<1>2. client' = [client EXCEPT ![c] = new]
  BY <1>0 DEF PasswordOK, GoesTo, TypeOK
<1>3. /\ new \in [pc : PCs, attempt : 0 .. MaxAttempts - 1, used : 0 .. MaxStep,
                       second : BOOLEAN]
      /\ new.pc = "otp"
  BY <1>1 DEF PasswordOK, PCs
<1> HIDE DEF new
<1>4. SpentGrows
  BY <1>0, NotSpending DEF PasswordOK
<1>5. disturbed' \in 0 .. MaxDisturbances
  BY <1>0 DEF PasswordOK, TypeOK
<1>6. /\ new.pc \in Critical => mutex[P(c)] = c
      /\ c \in StoredClients /\ new.pc \in Critical \cup {"mutex", "unlock"} => flock = c
      /\ c \notin StoredClients => new.pc \notin {"flock", "unlock"}
  BY <1>0, <1>3 DEF PasswordOK, LockInv, Critical, TypeOK
<1>7. /\ new.pc \in {"password", "otp"} => Later(c, step)
      /\ new.pc \in {"sent", "nextWindow"} => Later(c, new.used)
      /\ new.pc \in {"sent", "persist"} => new.used # 0
  BY <1>0, <1>1, <1>3 DEF PasswordOK, FreshInv, Fresh, Later, Types, P
<1> QED BY <1>2, <1>3, <1>4, <1>5, <1>6, <1>7, MoveStep DEF PasswordOK

(* The code of this window is on its way. *)
LEMMA SubmitOTPOK ==
    ASSUME IInv, NEW c \in Clients, SubmitOTP(c)
    PROVE  IInv'
<1> USE OTPLoginAssumption
<1>0. Types /\ TypeOK /\ LockInv /\ FreshInv /\ SpentInv /\ RememberInv
  BY DEF IInv, Types
<1>1. /\ client[c] \in [pc : PCs, attempt : 0 .. MaxAttempts - 1, used : Nat,
                        second : BOOLEAN]
      /\ client[c].used \in 0 .. MaxStep
      /\ step \in 1 .. MaxStep /\ step \in 0 .. MaxStep
  BY <1>0 DEF TypeOK, Types
<1>a. 0 \in 0 .. MaxAttempts - 1 /\ 0 \in 0 .. MaxStep
  OBVIOUS
<1> DEFINE new == [client[c] EXCEPT !.pc = "sent", !.used = step]
<1>2. client' = [client EXCEPT ![c] = new]
  BY <1>0 DEF SubmitOTP, GoesTo, TypeOK
<1>3. /\ new \in [pc : PCs, attempt : 0 .. MaxAttempts - 1, used : 0 .. MaxStep,
                       second : BOOLEAN]
      /\ new.pc = "sent" /\ new.used = step
  BY <1>1 DEF SubmitOTP, PCs
<1> HIDE DEF new
<1>4. SpentGrows
  BY <1>0, NotSpending DEF SubmitOTP
<1>5. disturbed' \in 0 .. MaxDisturbances
  BY <1>0 DEF SubmitOTP, TypeOK
<1>6. /\ new.pc \in Critical => mutex[P(c)] = c
      /\ c \in StoredClients /\ new.pc \in Critical \cup {"mutex", "unlock"} => flock = c
      /\ c \notin StoredClients => new.pc \notin {"flock", "unlock"}
  BY <1>0, <1>3 DEF SubmitOTP, LockInv, Critical, TypeOK
<1>7. /\ new.pc \in {"password", "otp"} => Later(c, step)
      /\ new.pc \in {"sent", "nextWindow"} => Later(c, new.used)
      /\ new.pc \in {"sent", "persist"} => new.used # 0
  BY <1>0, <1>1, <1>3 DEF SubmitOTP, FreshInv, Fresh, Later, Types, P
<1> QED BY <1>2, <1>3, <1>4, <1>5, <1>6, <1>7, MoveStep DEF SubmitOTP

(* The first code was refused. *)
LEMMA OTPRejectedOK ==
    ASSUME IInv, NEW c \in Clients, OTPRejected(c)
    PROVE  IInv'
<1> USE OTPLoginAssumption
<1>0. Types /\ TypeOK /\ LockInv /\ FreshInv /\ SpentInv /\ RememberInv
  BY DEF IInv, Types
<1>1. /\ client[c] \in [pc : PCs, attempt : 0 .. MaxAttempts - 1, used : Nat,
                        second : BOOLEAN]
      /\ client[c].used \in 0 .. MaxStep
      /\ step \in 1 .. MaxStep /\ step \in 0 .. MaxStep
  BY <1>0 DEF TypeOK, Types
<1>a. 0 \in 0 .. MaxAttempts - 1 /\ 0 \in 0 .. MaxStep
  OBVIOUS
<1> DEFINE new == [client[c] EXCEPT !.pc = "nextWindow", !.second = TRUE]
<1>2. client' = [client EXCEPT ![c] = new]
  BY <1>0 DEF OTPRejected, GoesTo, TypeOK
<1>3. /\ new \in [pc : PCs, attempt : 0 .. MaxAttempts - 1, used : 0 .. MaxStep,
                       second : BOOLEAN]
      /\ new.pc = "nextWindow" /\ new.used = client[c].used
  BY <1>1 DEF OTPRejected, PCs
<1> HIDE DEF new
<1>4. SpentGrows
  BY <1>0, NotSpending DEF OTPRejected
<1>5. disturbed' \in 0 .. MaxDisturbances
  BY <1>0 DEF OTPRejected, TypeOK
<1>6. /\ new.pc \in Critical => mutex[P(c)] = c
      /\ c \in StoredClients /\ new.pc \in Critical \cup {"mutex", "unlock"} => flock = c
      /\ c \notin StoredClients => new.pc \notin {"flock", "unlock"}
  BY <1>0, <1>3 DEF OTPRejected, LockInv, Critical, TypeOK
<1>7. /\ new.pc \in {"password", "otp"} => Later(c, step)
      /\ new.pc \in {"sent", "nextWindow"} => Later(c, new.used)
      /\ new.pc \in {"sent", "persist"} => new.used # 0
  BY <1>0, <1>1, <1>3 DEF OTPRejected, FreshInv, Fresh, Later, Types, P
<1> QED BY <1>2, <1>3, <1>4, <1>5, <1>6, <1>7, MoveStep DEF OTPRejected

(* A rate-limit sleep ends. *)
LEMMA SleepReturnsOK ==
    ASSUME IInv, NEW c \in Clients, SleepReturns(c)
    PROVE  IInv'
<1> USE OTPLoginAssumption
<1>0. Types /\ TypeOK /\ LockInv /\ FreshInv /\ SpentInv /\ RememberInv
  BY DEF IInv, Types
<1>1. /\ client[c] \in [pc : PCs, attempt : 0 .. MaxAttempts - 1, used : Nat,
                        second : BOOLEAN]
      /\ client[c].used \in 0 .. MaxStep
      /\ step \in 1 .. MaxStep /\ step \in 0 .. MaxStep
  BY <1>0 DEF TypeOK, Types
<1>a. 0 \in 0 .. MaxAttempts - 1 /\ 0 \in 0 .. MaxStep
  OBVIOUS
<1> DEFINE new == [client[c] EXCEPT !.pc = "check"]
<1>2. client' = [client EXCEPT ![c] = new]
  BY <1>0 DEF SleepReturns, GoesTo, TypeOK
<1>3. /\ new \in [pc : PCs, attempt : 0 .. MaxAttempts - 1, used : 0 .. MaxStep,
                       second : BOOLEAN]
      /\ new.pc = "check"
  BY <1>1 DEF SleepReturns, PCs
<1> HIDE DEF new
<1>4. SpentGrows
  BY <1>0, NotSpending DEF SleepReturns
<1>5. disturbed' \in 0 .. MaxDisturbances
  BY <1>0 DEF SleepReturns, TypeOK
<1>6. /\ new.pc \in Critical => mutex[P(c)] = c
      /\ c \in StoredClients /\ new.pc \in Critical \cup {"mutex", "unlock"} => flock = c
      /\ c \notin StoredClients => new.pc \notin {"flock", "unlock"}
  BY <1>0, <1>3 DEF SleepReturns, LockInv, Critical, TypeOK
<1>7. /\ new.pc \in {"password", "otp"} => Later(c, step)
      /\ new.pc \in {"sent", "nextWindow"} => Later(c, new.used)
      /\ new.pc \in {"sent", "persist"} => new.used # 0
  BY <1>0, <1>1, <1>3 DEF SleepReturns, FreshInv, Fresh, Later, Types, P
<1> QED BY <1>2, <1>3, <1>4, <1>5, <1>6, <1>7, MoveStep DEF SleepReturns

(* login() returns in several ways. *)
LEMMA Returning ==
    ASSUME IInv, NEW c \in Clients,
           OTPUnreadable(c) \/ OTPRejectedAgain(c) \/ StorageFails(c)
            \/ HandshakeDone(c) \/ ExchangeFails(c) \/ LoginCanceled(c)
    PROVE  IInv'
<1>0. Types
  BY DEF IInv
<1>1. client[c].pc \in Critical /\ Returns(c)
  BY DEF OTPUnreadable, OTPRejectedAgain, StorageFails, HandshakeDone,
         ExchangeFails, LoginCanceled, Critical, Exchanging, Waiting
<1>2. SpentGrows
  BY <1>0, Spending, NotSpending, MaySpendGrows
     DEF OTPUnreadable, OTPRejectedAgain, StorageFails, HandshakeDone,
         ExchangeFails, LoginCanceled
<1>3. disturbed' \in 0 .. MaxDisturbances
  BY <1>0, Disturbing
     DEF OTPUnreadable, OTPRejectedAgain, StorageFails, HandshakeDone,
         ExchangeFails, LoginCanceled
<1>4. UNCHANGED <<step, memory, flock, answered>>
  BY DEF OTPUnreadable, OTPRejectedAgain, StorageFails, HandshakeDone,
         ExchangeFails, LoginCanceled
<1>5. MayWrite(c)
  BY DEF MayWrite, Persisted, MaxOf, OTPUnreadable, OTPRejectedAgain,
         StorageFails, HandshakeDone, ExchangeFails, LoginCanceled
<1> QED BY <1>1, <1>2, <1>3, <1>4, <1>5, ReturnStep

(* 429: another attempt, or the last one. *)
LEMMA ExchangeLimitedOK ==
    ASSUME IInv, NEW c \in Clients, ExchangeLimited(c)
    PROVE  IInv'
<1> USE OTPLoginAssumption
<1>0. Types /\ TypeOK /\ LockInv /\ FreshInv /\ SpentInv /\ RememberInv
  BY DEF IInv, Types
<1>1. /\ client[c] \in [pc : PCs, attempt : 0 .. MaxAttempts - 1, used : Nat,
                        second : BOOLEAN]
      /\ client[c].used \in 0 .. MaxStep
      /\ step \in 1 .. MaxStep /\ step \in 0 .. MaxStep
  BY <1>0 DEF TypeOK, Types
<1>a. 0 \in 0 .. MaxAttempts - 1 /\ 0 \in 0 .. MaxStep
  OBVIOUS
<1>2. SpentGrows
  BY <1>0, MaySpendGrows DEF ExchangeLimited
<1>3. disturbed' \in 0 .. MaxDisturbances
  BY <1>0, Disturbing DEF ExchangeLimited
<1>4. client[c].pc \in Critical /\ UNCHANGED <<step, memory, disk, flock, answered>>
  BY DEF ExchangeLimited, Critical, Exchanging
<1>5. CASE client[c].attempt < MaxAttempts - 1
  <2> DEFINE new == [client[c] EXCEPT !.pc = "sleep", !.attempt = @ + 1]
  <2>1. client' = [client EXCEPT ![c] = new] /\ UNCHANGED mutex
    BY <1>5, <1>0 DEF ExchangeLimited, Retries, TypeOK
  <2>2. client[c].attempt + 1 \in 0 .. MaxAttempts - 1
    BY <1>1, <1>5
  <2>3. new \in [pc : PCs, attempt : 0 .. MaxAttempts - 1, used : 0 .. MaxStep,
                 second : BOOLEAN] /\ new.pc = "sleep"
    BY <1>1, <2>2 DEF PCs
  <2> HIDE DEF new
  <2>4. mutex[P(c)] = c /\ (c \in StoredClients => flock = c)
    BY <1>4, Staying
  <2> QED BY <1>2, <1>3, <1>4, <2>1, <2>3, <2>4, MoveStep
<1>6. CASE ~(client[c].attempt < MaxAttempts - 1)
  BY <1>2, <1>3, <1>4, <1>6, ReturnStep
     DEF ExchangeLimited, Retries, MayWrite
<1> QED BY <1>5, <1>6

(* A client gets the lock file. *)
LEMMA LockAccountOK ==
    ASSUME IInv, NEW c \in Clients, LockAccount(c)
    PROVE  IInv'
<1> USE OTPLoginAssumption
<1>0. Types /\ TypeOK /\ LockInv /\ FreshInv /\ SpentInv /\ RememberInv
  BY DEF IInv, Types
<1>1. /\ client[c] \in [pc : PCs, attempt : 0 .. MaxAttempts - 1, used : Nat,
                        second : BOOLEAN]
      /\ client[c].used \in 0 .. MaxStep
      /\ step \in 1 .. MaxStep /\ step \in 0 .. MaxStep
  BY <1>0 DEF TypeOK, Types
<1>a. 0 \in 0 .. MaxAttempts - 1 /\ 0 \in 0 .. MaxStep
  OBVIOUS
<1>2. flock = NoClient /\ flock' = c /\ c \in StoredClients
      /\ UNCHANGED <<step, memory, disk, mutex, spent, answered, disturbed>>
  BY <1>0 DEF LockAccount, FlockFree, LockInv
<1>3. \A d \in Clients : client'[d] = IF d = c THEN [client[c] EXCEPT !.pc = "mutex"]
                                      ELSE client[d]
  BY <1>0 DEF LockAccount, GoesTo, TypeOK
<1>4. TypeOK'
  BY <1>0, <1>1, <1>2, <1>3 DEF LockAccount, GoesTo, TypeOK, PCs
<1>5. Types'
  BY <1>0, <1>1, <1>2, <1>3, <1>4 DEF Types
<1>6. LockInv'
  BY <1>0, <1>1, <1>2, <1>3 DEF LockInv, Critical, P
<1>7. FreshInv'
  BY <1>0, <1>1, <1>2, <1>3 DEF FreshInv, Fresh, Later, P
<1>8. SpentInv'
  BY <1>0, <1>1, <1>2, <1>3, SpentStays, NotSpending
<1>9. RememberInv'
  BY <1>0, <1>2 DEF RememberInv, P
<1> QED BY <1>5, <1>6, <1>7, <1>8, <1>9 DEF IInv

(* A client gets the mutex of its process. *)
LEMMA AcquireOTPAccountOK ==
    ASSUME IInv, NEW c \in Clients, AcquireOTPAccount(c)
    PROVE  IInv'
<1> USE OTPLoginAssumption
<1>0. Types /\ TypeOK /\ LockInv /\ FreshInv /\ SpentInv /\ RememberInv
  BY DEF IInv, Types
<1>1. /\ client[c] \in [pc : PCs, attempt : 0 .. MaxAttempts - 1, used : Nat,
                        second : BOOLEAN]
      /\ client[c].used \in 0 .. MaxStep
      /\ step \in 1 .. MaxStep /\ step \in 0 .. MaxStep
  BY <1>0 DEF TypeOK, Types
<1>a. 0 \in 0 .. MaxAttempts - 1 /\ 0 \in 0 .. MaxStep
  OBVIOUS
<1>2. mutex[P(c)] = NoClient /\ client[c].pc = "mutex"
      /\ mutex' = [mutex EXCEPT ![P(c)] = c]
      /\ UNCHANGED <<step, memory, disk, flock, spent, answered, disturbed>>
  BY DEF AcquireOTPAccount, MutexFree
<1>3. \A d \in Clients : client'[d] = IF d = c THEN [client[c] EXCEPT !.pc = "check"]
                                      ELSE client[d]
  BY <1>0 DEF AcquireOTPAccount, GoesTo, TypeOK
<1>4. TypeOK'
  <2>1. client' \in [Clients -> [pc : PCs, attempt : 0 .. MaxAttempts - 1,
                                 used : Nat, second : BOOLEAN]]
    BY <1>0, <1>1 DEF AcquireOTPAccount, GoesTo, TypeOK, PCs
  <2>2. mutex' \in [Processes -> Clients \cup {NoClient}]
    BY <1>0, <1>2 DEF TypeOK
  <2> QED BY <1>0, <1>2, <2>1, <2>2 DEF TypeOK
<1>5. Types'
  BY <1>0, <1>1, <1>2, <1>3, <1>4 DEF Types
<1>p. P(c) \in Processes
  BY DEF P
<1>6. LockInv'
  <2>1. ASSUME NEW d \in Clients, d # c, client[d].pc \in Critical
        PROVE  mutex'[P(d)] = d
    <3>1. mutex[P(d)] = d /\ P(d) \in Processes
      BY <1>0, <2>1 DEF LockInv, P
    <3>2. P(d) # P(c)
      BY <1>2, <3>1
    <3> QED BY <1>0, <1>2, <3>1, <3>2 DEF TypeOK
  <2>2. mutex'[P(c)] = c
    BY <1>0, <1>2, <1>p DEF TypeOK
  <2>3. client'[c].pc = "check" /\ (c \in StoredClients => flock = c)
    BY <1>0, <1>1, <1>2, <1>3 DEF LockInv
  <2>4. \A d \in Clients : d # c => client'[d] = client[d]
    BY <1>3
  <2> QED BY <1>0, <1>2, <2>1, <2>2, <2>3, <2>4 DEF LockInv, Critical
<1>7. FreshInv'
  BY <1>0, <1>1, <1>2, <1>3 DEF FreshInv, Fresh, Later, P
<1>8. SpentInv'
  BY <1>0, <1>1, <1>2, <1>3, SpentStays, NotSpending
<1>9. RememberInv'
  BY <1>0, <1>2 DEF RememberInv, P
<1> QED BY <1>5, <1>6, <1>7, <1>8, <1>9 DEF IInv

(* A client closes the lock file. *)
LEMMA CloseLockOK ==
    ASSUME IInv, NEW c \in Clients, CloseLock(c)
    PROVE  IInv'
<1> USE OTPLoginAssumption
<1>0. Types /\ TypeOK /\ LockInv /\ FreshInv /\ SpentInv /\ RememberInv
  BY DEF IInv, Types
<1>1. /\ client[c] \in [pc : PCs, attempt : 0 .. MaxAttempts - 1, used : Nat,
                        second : BOOLEAN]
      /\ client[c].used \in 0 .. MaxStep
      /\ step \in 1 .. MaxStep /\ step \in 0 .. MaxStep
  BY <1>0 DEF TypeOK, Types
<1>a. 0 \in 0 .. MaxAttempts - 1 /\ 0 \in 0 .. MaxStep
  OBVIOUS
<1>2. flock' = NoClient /\ c \in StoredClients /\ flock = c
      /\ UNCHANGED <<step, memory, disk, mutex, spent, answered, disturbed>>
  BY <1>0 DEF CloseLock, LockInv
<1>3. \A d \in Clients : client'[d] = IF d = c THEN [client[c] EXCEPT !.pc = "idle"]
                                      ELSE client[d]
  BY <1>0 DEF CloseLock, GoesTo, TypeOK
<1>4. TypeOK'
  BY <1>0, <1>1, <1>2, <1>3 DEF CloseLock, GoesTo, TypeOK, PCs
<1>5. Types'
  BY <1>0, <1>1, <1>2, <1>3, <1>4 DEF Types
<1>6. LockInv'
  BY <1>0, <1>1, <1>2, <1>3 DEF LockInv, Critical, P
<1>7. FreshInv'
  BY <1>0, <1>1, <1>2, <1>3 DEF FreshInv, Fresh, Later, P
<1>8. SpentInv'
  BY <1>0, <1>1, <1>2, <1>3, SpentStays, NotSpending
<1>9. RememberInv'
  BY <1>0, <1>2 DEF RememberInv, P
<1> QED BY <1>5, <1>6, <1>7, <1>8, <1>9 DEF IInv

(* A client checks the window. *)
LEMMA BeforeHandshakeOK ==
    ASSUME IInv, NEW c \in Clients, BeforeHandshake(c)
    PROVE  IInv'
<1> USE OTPLoginAssumption
<1>0. Types /\ TypeOK /\ LockInv /\ FreshInv /\ SpentInv /\ RememberInv
  BY DEF IInv, Types
<1>1. /\ client[c] \in [pc : PCs, attempt : 0 .. MaxAttempts - 1, used : Nat,
                        second : BOOLEAN]
      /\ client[c].used \in 0 .. MaxStep
      /\ step \in 1 .. MaxStep /\ step \in 0 .. MaxStep
  BY <1>0 DEF TypeOK, Types
<1>a. 0 \in 0 .. MaxAttempts - 1 /\ 0 \in 0 .. MaxStep
  OBVIOUS
<1> DEFINE a == Accepted(c)
           new == [client[c] EXCEPT
                    !.pc = IF WindowSpent(c) THEN "waitAccepted" ELSE "password",
                    !.used = a, !.second = FALSE]
<1>p. P(c) \in Processes
  BY DEF P
<1>2. /\ a \in 0 .. MaxStep /\ a >= memory[P(c)]
      /\ c \in StoredClients => a >= disk
      /\ a = memory[P(c)] \/ a = disk
  BY <1>0, <1>p DEF Types, Accepted, MaxOf
<1>3. /\ client[c].pc = "check" /\ memory' = [memory EXCEPT ![P(c)] = a]
      /\ UNCHANGED <<step, disk, mutex, flock, spent, answered, disturbed>>
      /\ client' = [client EXCEPT ![c] = new]
  BY <1>0 DEF BeforeHandshake, TypeOK
<1>4. /\ new \in [pc : PCs, attempt : 0 .. MaxAttempts - 1, used : Nat,
                   second : BOOLEAN]
      /\ new.pc \in {"waitAccepted", "password"} /\ new.used = a
      /\ new.pc = "password" => step > a
  <2> a \in Nat
    BY <1>2
  <2>1. CASE WindowSpent(c)
    <3>1. new = [client[c] EXCEPT !.pc = "waitAccepted", !.used = a, !.second = FALSE]
      BY <2>1
    <3> HIDE DEF a, new
    <3> QED BY <1>1, <3>1 DEF PCs
  <2>2. CASE ~WindowSpent(c)
    <3>1. new = [client[c] EXCEPT !.pc = "password", !.used = a, !.second = FALSE]
      BY <2>2
    <3>2. step > a
      BY <1>1, <1>2, <2>2 DEF WindowSpent
    <3> HIDE DEF a, new
    <3> QED BY <1>1, <3>1, <3>2 DEF PCs
  <2> QED BY <2>1, <2>2
<1>5. mutex[P(c)] = c /\ (c \in StoredClients => flock = c)
  BY <1>3, Staying DEF Critical
<1> HIDE DEF a, new
<1>6. \A d \in Clients : client'[d] = IF d = c THEN new ELSE client[d]
  BY <1>0, <1>3 DEF TypeOK
<1>7. \A q \in Processes : memory'[q] = IF q = P(c) THEN a ELSE memory[q]
  BY <1>0, <1>3 DEF TypeOK
<1>8. TypeOK'
  BY <1>0, <1>2, <1>3, <1>4 DEF TypeOK
<1>9. Types'
  <2>1. memory' \in [Processes -> 0 .. MaxStep]
    BY <1>0, <1>2, <1>3 DEF Types
  <2>2. \A d \in Clients : /\ client'[d].used \in 0 .. MaxStep
                           /\ client'[d].pc \in {"sent", "persist"} => client'[d].used # 0
    BY <1>0, <1>2, <1>4, <1>6 DEF Types
  <2> QED BY <1>0, <1>3, <1>8, <2>1, <2>2 DEF Types
<1>10. LockInv'
  BY <1>0, <1>3, <1>4, <1>5, <1>6 DEF LockInv, Critical, P
<1>11. FreshInv'
  <2>1. ASSUME NEW d \in Clients, d # c PROVE Fresh(d)'
    <3>1. CASE client[d].pc \in Critical
      <4>1. P(d) # P(c) /\ P(d) \in Processes
        BY <1>0, <1>3, <2>1, <3>1, Exclusion DEF Critical, P
      <4>2. memory'[P(d)] = memory[P(d)]
        BY <1>7, <4>1
      <4> QED BY <1>0, <1>3, <1>6, <2>1, <4>2 DEF FreshInv, Fresh, Later, P
    <3>2. CASE client[d].pc \notin Critical
      BY <1>6, <2>1, <3>2 DEF Fresh, Critical
    <3> QED BY <3>1, <3>2
  <2>2. Fresh(c)'
    <3>1. client'[c] = new /\ memory'[P(c)] = a /\ disk' = disk /\ step' = step
      BY <1>3, <1>6, <1>7, <1>p
    <3>2. a \in Nat /\ disk \in Nat /\ step \in Nat
      BY <1>0, <1>2 DEF TypeOK
    <3>3. new.pc = "password" => step > a /\ (c \in StoredClients => step > disk)
      BY <1>2, <1>4, <3>2
    <3> QED BY <1>2, <1>4, <3>1, <3>2, <3>3 DEF Fresh, Later, P
  <2> QED BY <2>1, <2>2 DEF FreshInv
<1>12. SpentInv'
  <2>1. a # 0 => Spent(a)
    BY <1>0, <1>2, <1>p DEF SpentInv, StepsAreSpent
  <2> QED BY <1>0, <1>3, <1>4, <1>6, <1>7, <2>1 DEF SpentInv, StepsAreSpent, Spent
<1>13. RememberInv'
  <2>1. ASSUME NEW d \in Clients PROVE memory'[P(d)] >= answered[d]
    <3>1. P(d) \in Processes /\ memory[P(d)] \in Nat /\ answered[d] \in Nat
          /\ memory[P(d)] >= answered[d]
      BY <1>0 DEF TypeOK, RememberInv, P
    <3>2. memory'[P(d)] >= memory[P(d)] /\ memory'[P(d)] \in Nat
      BY <1>2, <1>7, <3>1
    <3> QED BY <3>1, <3>2
  <2> QED BY <1>3, <2>1 DEF RememberInv, P
<1> QED BY <1>9, <1>10, <1>11, <1>12, <1>13 DEF IInv

(* A code is answered 2xx. *)
LEMMA OTPAcceptedOK ==
    ASSUME IInv, NEW c \in Clients, OTPAccepted(c)
    PROVE  IInv'
<1> USE OTPLoginAssumption
<1>0. Types /\ TypeOK /\ LockInv /\ FreshInv /\ SpentInv /\ RememberInv
  BY DEF IInv, Types
<1>1. /\ client[c] \in [pc : PCs, attempt : 0 .. MaxAttempts - 1, used : Nat,
                        second : BOOLEAN]
      /\ client[c].used \in 0 .. MaxStep
      /\ step \in 1 .. MaxStep /\ step \in 0 .. MaxStep
  BY <1>0 DEF TypeOK, Types
<1>a. 0 \in 0 .. MaxAttempts - 1 /\ 0 \in 0 .. MaxStep
  OBVIOUS
<1> DEFINE u == client[c].used
           m == MaxOf(memory[P(c)], u)
           new == [client[c] EXCEPT
                    !.pc = IF c \in StoredClients THEN "persist" ELSE "impersonate"]
<1>p. P(c) \in Processes
  BY DEF P
<1>2. /\ SpentGrows /\ spent'[u] = c /\ u \in 1 .. MaxStep
  BY <1>0, Spending DEF OTPAccepted
<1>3. /\ m \in 0 .. MaxStep /\ m >= memory[P(c)] /\ m >= u
      /\ m = memory[P(c)] \/ m = u
  BY <1>0, <1>1, <1>p DEF Types, MaxOf
<1>4. /\ client[c].pc = "sent" /\ memory' = [memory EXCEPT ![P(c)] = m]
      /\ answered' = [answered EXCEPT ![c] = u]
      /\ UNCHANGED <<step, disk, mutex, flock, disturbed>>
      /\ client' = [client EXCEPT ![c] = new]
  BY <1>0 DEF OTPAccepted, Remembers, GoesTo, TypeOK
<1>5. /\ new \in [pc : PCs, attempt : 0 .. MaxAttempts - 1, used : Nat,
                   second : BOOLEAN]
      /\ new.pc = IF c \in StoredClients THEN "persist" ELSE "impersonate"
      /\ new.used = u
  <2>1. CASE c \in StoredClients
    BY <1>1, <2>1 DEF PCs
  <2>2. CASE c \notin StoredClients
    BY <1>1, <2>2 DEF PCs
  <2> QED BY <2>1, <2>2
<1>6. mutex[P(c)] = c /\ (c \in StoredClients => flock = c)
  BY <1>4, Staying DEF Critical
<1>u. u = client[c].used
  OBVIOUS
<1> HIDE DEF u, m, new
<1>7. \A d \in Clients : client'[d] = IF d = c THEN new ELSE client[d]
  BY <1>0, <1>4 DEF TypeOK
<1>8. \A q \in Processes : memory'[q] = IF q = P(c) THEN m ELSE memory[q]
  BY <1>0, <1>4 DEF TypeOK
<1>9. \A d \in Clients : answered'[d] = IF d = c THEN u ELSE answered[d]
  BY <1>0, <1>4 DEF TypeOK
<1>10. TypeOK'
  BY <1>0, <1>2, <1>3, <1>4, <1>5 DEF TypeOK, SpentGrows
<1>11. Types'
  <2>1. memory' \in [Processes -> 0 .. MaxStep]
    BY <1>0, <1>3, <1>4 DEF Types
  <2>2. \A d \in Clients : /\ client'[d].used \in 0 .. MaxStep
                           /\ client'[d].pc \in {"sent", "persist"} => client'[d].used # 0
    BY <1>0, <1>2, <1>5, <1>7 DEF Types
  <2> QED BY <1>0, <1>4, <1>10, <2>1, <2>2 DEF Types
<1>12. LockInv'
  BY <1>0, <1>4, <1>5, <1>6, <1>7 DEF LockInv, Critical, P
<1>13. FreshInv'
  <2>1. ASSUME NEW d \in Clients, d # c PROVE Fresh(d)'
    <3>1. CASE client[d].pc \in Critical
      <4>1. P(d) # P(c) /\ P(d) \in Processes
        BY <1>0, <1>4, <2>1, <3>1, Exclusion DEF Critical, P
      <4>2. memory'[P(d)] = memory[P(d)]
        BY <1>8, <4>1
      <4> QED BY <1>0, <1>4, <1>7, <2>1, <4>2 DEF FreshInv, Fresh, Later, P
    <3>2. CASE client[d].pc \notin Critical
      BY <1>7, <2>1, <3>2 DEF Fresh, Critical
    <3> QED BY <3>1, <3>2
  <2>2. Fresh(c)'
    BY <1>5, <1>7 DEF Fresh
  <2> QED BY <2>1, <2>2 DEF FreshInv
<1>14. SpentInv'
  <2>2. spent'[u] # NoClient
    BY <1>2, OTPLoginAssumption
  <2>3. StepsAreSpent'
    <3>1. ASSUME NEW q \in Processes PROVE memory'[q] # 0 => spent'[memory'[q]] # NoClient
      <4>1. memory[q] \in 0 .. MaxStep /\ (memory[q] # 0 => Spent(memory[q]))
        BY <1>0 DEF Types, SpentInv, StepsAreSpent
      <4>2. memory[q] # 0 => spent'[memory[q]] # NoClient
        BY <1>0, <1>2, <4>1, StillSpent
      <4> QED BY <1>3, <1>8, <2>2, <4>2
    <3>2. disk # 0 => spent'[disk] # NoClient
      <4>1. disk \in 0 .. MaxStep /\ (disk # 0 => Spent(disk))
        BY <1>0 DEF Types, SpentInv, StepsAreSpent
      <4> QED BY <1>0, <1>2, <4>1, StillSpent
    <3> QED BY <1>4, <3>1, <3>2 DEF StepsAreSpent, Spent
  <2>4. ASSUME NEW d \in Clients, client'[d].pc = "persist"
        PROVE  spent'[client'[d].used] # NoClient
    <3>1. CASE d = c
      BY <1>5, <1>7, <2>2, <3>1
    <3>2. CASE d # c
      <4>1. client'[d] = client[d]
        BY <1>7, <3>2
      <4>2. /\ client[d].used \in 0 .. MaxStep /\ client[d].used # 0
            /\ Spent(client[d].used)
        BY <1>0, <2>4, <4>1 DEF Types, SpentInv
      <4> QED BY <1>0, <1>2, <4>1, <4>2, StillSpent
    <3> QED BY <3>1, <3>2
  <2> QED BY <2>3, <2>4 DEF SpentInv, Spent
<1>15. RememberInv'
  <2>1. ASSUME NEW d \in Clients PROVE memory'[P(d)] >= answered'[d]
    <3>1. P(d) \in Processes /\ memory[P(d)] \in Nat /\ answered[d] \in Nat
          /\ memory[P(d)] >= answered[d]
      BY <1>0 DEF TypeOK, RememberInv, P
    <3>2. memory'[P(d)] >= memory[P(d)] /\ memory'[P(d)] \in Nat
      BY <1>3, <1>8, <3>1
    <3>3. CASE d = c
      BY <1>3, <1>8, <1>9, <1>p, <3>3
    <3>4. CASE d # c
      BY <1>9, <3>1, <3>2, <3>4
    <3> QED BY <3>3, <3>4
  <2> QED BY <2>1 DEF RememberInv, P
<1> QED BY <1>11, <1>12, <1>13, <1>14, <1>15 DEF IInv

(* The accepted window is written. *)
LEMMA PersistStepOK ==
    ASSUME IInv, NEW c \in Clients, PersistStep(c)
    PROVE  IInv'
<1> USE OTPLoginAssumption
<1>0. Types /\ TypeOK /\ LockInv /\ FreshInv /\ SpentInv /\ RememberInv
  BY DEF IInv, Types
<1>1. /\ client[c] \in [pc : PCs, attempt : 0 .. MaxAttempts - 1, used : Nat,
                        second : BOOLEAN]
      /\ client[c].used \in 0 .. MaxStep
      /\ step \in 1 .. MaxStep /\ step \in 0 .. MaxStep
  BY <1>0 DEF TypeOK, Types
<1>a. 0 \in 0 .. MaxAttempts - 1 /\ 0 \in 0 .. MaxStep
  OBVIOUS
<1>2. /\ disk' \in 0 .. MaxStep /\ (disk' = disk \/ disk' = client[c].used)
      /\ UNCHANGED <<step, memory, mutex, flock, spent, answered, disturbed>>
      /\ client[c].pc = "persist"
  BY <1>0, <1>1 DEF PersistStep, Persisted, MaxOf, Types
<1>3. \A d \in Clients : client'[d] = IF d = c THEN [client[c] EXCEPT !.pc = "impersonate"]
                                      ELSE client[d]
  BY <1>0 DEF PersistStep, GoesTo, TypeOK
<1>4. c \in StoredClients /\ flock = c /\ mutex[P(c)] = c
  BY <1>0, <1>2 DEF LockInv, Critical
<1>5. TypeOK'
  BY <1>0, <1>1, <1>2, <1>3 DEF PersistStep, GoesTo, TypeOK, PCs
<1>6. Types'
  BY <1>0, <1>1, <1>2, <1>3, <1>5 DEF Types
<1>7. LockInv'
  BY <1>0, <1>1, <1>2, <1>3, <1>4 DEF LockInv, Critical, P
<1>8. FreshInv'
  <2>1. ASSUME NEW d \in Clients, d # c PROVE Fresh(d)'
    <3>1. CASE client[d].pc \in Critical
      <4>1. d \notin StoredClients
        BY <1>0, <1>2, <1>4, <2>1, <3>1, Exclusion DEF Critical
      <4> QED BY <1>0, <1>2, <1>3, <2>1, <4>1 DEF FreshInv, Fresh, Later, P
    <3>2. CASE client[d].pc \notin Critical
      BY <1>3, <2>1, <3>2 DEF Fresh, Critical
    <3> QED BY <3>1, <3>2
  <2>2. Fresh(c)'
    BY <1>1, <1>3 DEF Fresh
  <2> QED BY <2>1, <2>2 DEF FreshInv
<1>9. SpentInv'
  BY <1>0, <1>1, <1>2, <1>3 DEF SpentInv, StepsAreSpent, Spent
<1>10. RememberInv'
  BY <1>0, <1>2 DEF RememberInv, P
<1> QED BY <1>6, <1>7, <1>8, <1>9, <1>10 DEF IInv

(* The clock. *)
LEMMA TickOK ==
    ASSUME IInv, Tick
    PROVE  IInv'
<1> USE OTPLoginAssumption
<1>0. Types /\ TypeOK /\ LockInv /\ FreshInv /\ SpentInv /\ RememberInv
  BY DEF IInv, Types
<1>1. /\ step' = step + 1 /\ step' \in 1 .. MaxStep
      /\ UNCHANGED <<memory, disk, mutex, flock, client, spent, answered, disturbed>>
  BY <1>0 DEF Tick, Types
<1>2. Types'
  BY <1>0, <1>1 DEF Types, TypeOK
<1>3. LockInv' /\ SpentInv' /\ RememberInv'
  BY <1>0, <1>1 DEF LockInv, SpentInv, StepsAreSpent, Spent, RememberInv, P
<1>4. FreshInv'
  <2>1. ASSUME NEW d \in Clients PROVE Fresh(d)'
    <3>1. memory[P(d)] \in Nat /\ disk \in Nat /\ step \in Nat
      BY <1>0 DEF TypeOK, P
    <3> QED BY <1>0, <1>1, <3>1 DEF FreshInv, Fresh, Later, P
  <2> QED BY <2>1 DEF FreshInv
<1> QED BY <1>2, <1>3, <1>4 DEF IInv

(* A process dies. *)
LEMMA CrashOK ==
    ASSUME IInv, NEW p \in Processes, Crash(p)
    PROVE  IInv'
<1> USE OTPLoginAssumption
<1>0. Types /\ TypeOK /\ LockInv /\ FreshInv /\ SpentInv /\ RememberInv
  BY DEF IInv, Types
<1>1. SpentGrows
  BY <1>0, Spending, NotSpending DEF Crash
<1>2. disturbed' \in 0 .. MaxDisturbances
  BY <1>0, Disturbing DEF Crash
<1>3. \A d \in Clients : client'[d] = IF P(d) = p THEN NoLogin ELSE client[d]
  BY DEF Crash
<1>4. \A q \in Processes : /\ memory'[q] = IF q = p THEN 0 ELSE memory[q]
                           /\ mutex'[q] = IF q = p THEN NoClient ELSE mutex[q]
  BY <1>0 DEF Crash, TypeOK
<1>5. \A d \in Clients : answered'[d] = IF P(d) = p THEN 0 ELSE answered[d]
  BY DEF Crash
<1>6. UNCHANGED <<step, disk>>
  BY DEF Crash
<1>7. /\ NoLogin \in [pc : PCs, attempt : 0 .. MaxAttempts - 1, used : Nat,
                      second : BOOLEAN]
      /\ NoLogin.used = 0 /\ NoLogin.pc = "idle"
  BY DEF NoLogin, PCs
<1>8. client' \in [Clients -> [pc : PCs, attempt : 0 .. MaxAttempts - 1,
                               used : Nat, second : BOOLEAN]]
  BY <1>0, <1>7 DEF Crash, TypeOK
<1>9. flock' \in StoredClients \cup {NoClient}
  BY <1>0 DEF Crash, TypeOK
<1>10. TypeOK'
  BY <1>0, <1>1, <1>2, <1>6, <1>8, <1>9 DEF Crash, TypeOK, SpentGrows
<1>11. Types'
  <2>1. memory' \in [Processes -> 0 .. MaxStep]
    BY <1>0 DEF Crash, Types
  <2>2. \A d \in Clients : /\ client'[d].used \in 0 .. MaxStep
                           /\ client'[d].pc \in {"sent", "persist"} => client'[d].used # 0
    BY <1>0, <1>3, <1>7 DEF Types
  <2> QED BY <1>0, <1>6, <1>10, <2>1, <2>2 DEF Types
<1>12. LockInv'
  <2>1. ASSUME NEW d \in Clients, P(d) # p, flock = d PROVE flock' = d
    BY <2>1 DEF Crash
  <2>2. \A d \in Clients : P(d) \in Processes
    BY DEF P
  <2> QED BY <1>0, <1>3, <1>4, <1>7, <2>1, <2>2 DEF LockInv, Critical, P
<1>13. FreshInv'
  <2>1. ASSUME NEW d \in Clients PROVE Fresh(d)'
    <3>1. CASE P(d) = p
      BY <1>3, <1>7, <3>1 DEF Fresh
    <3>2. CASE P(d) # p
      <4>1. memory'[P(d)] = memory[P(d)]
        BY <1>4, <3>2 DEF P
      <4> QED BY <1>0, <1>3, <1>6, <3>2, <4>1 DEF FreshInv, Fresh, Later, P
    <3> QED BY <3>1, <3>2
  <2> QED BY <2>1 DEF FreshInv
<1>14. SpentInv'
  <2>1. ASSUME NEW q \in Processes PROVE memory'[q] # 0 => spent'[memory'[q]] # NoClient
    <3>1. memory[q] \in 0 .. MaxStep /\ (memory[q] # 0 => Spent(memory[q]))
      BY <1>0 DEF Types, SpentInv, StepsAreSpent
    <3>2. memory[q] # 0 => spent'[memory[q]] # NoClient
      BY <1>0, <1>1, <3>1, StillSpent
    <3> QED BY <1>4, <3>2
  <2>2. disk # 0 => spent'[disk] # NoClient
    BY <1>0, <1>1, StillSpent DEF Types, SpentInv, StepsAreSpent
  <2>3. ASSUME NEW d \in Clients, client'[d].pc = "persist"
        PROVE  spent'[client'[d].used] # NoClient
    <3>1. client'[d] = client[d]
      BY <1>3, <1>7, <2>3
    <3>2. /\ client[d].used \in 0 .. MaxStep /\ client[d].used # 0
          /\ Spent(client[d].used)
      BY <1>0, <2>3, <3>1 DEF Types, SpentInv
    <3> QED BY <1>0, <1>1, <3>1, <3>2, StillSpent
  <2> QED BY <1>6, <2>1, <2>2, <2>3 DEF SpentInv, StepsAreSpent, Spent
<1>15. RememberInv'
  BY <1>0, <1>4, <1>5 DEF RememberInv, P
<1> QED BY <1>11, <1>12, <1>13, <1>14, <1>15 DEF IInv

(* Each step keeps the invariant. *)
LEMMA NextOK == IInv /\ [Next]_vars => IInv'
<1> SUFFICES ASSUME IInv, [Next]_vars PROVE IInv'
  OBVIOUS
<1>1. ASSUME NEW c \in Clients, Start(c) PROVE IInv'
  BY <1>1, StartOK
<1>2. ASSUME NEW c \in Clients, LockSteps(c) PROVE IInv'
  BY <1>2, LockAccountOK, AcquireOTPAccountOK, GivesUpLockOK, CloseLockOK
     DEF LockSteps
<1>3. ASSUME NEW c \in Clients, HandshakeSteps(c) PROVE IInv'
  <2>1. CASE BeforeHandshake(c) \/ NextWindow(c) \/ PasswordOK(c) \/ SubmitOTP(c)
    BY <2>1, BeforeHandshakeOK, NextWindowOK, PasswordStep, SubmitOTPOK
  <2>2. CASE \/ OTPUnreadable(c) \/ OTPRejectedAgain(c) \/ StorageFails(c)
             \/ HandshakeDone(c) \/ ExchangeFails(c) \/ LoginCanceled(c)
    BY <2>2, Returning
  <2>3. CASE OTPAccepted(c) \/ OTPRejected(c) \/ PersistStep(c)
    BY <2>3, OTPAcceptedOK, OTPRejectedOK, PersistStepOK
  <2>4. CASE ExchangeLimited(c) \/ SleepReturns(c)
    BY <2>4, ExchangeLimitedOK, SleepReturnsOK
  <2> QED BY <1>3, <2>1, <2>2, <2>3, <2>4 DEF HandshakeSteps
<1>4. CASE Tick
  BY <1>4, TickOK
<1>5. ASSUME NEW p \in Processes, Crash(p) PROVE IInv'
  BY <1>5, CrashOK
<1>6. CASE UNCHANGED vars
  BY <1>6 DEF vars, IInv, Types, TypeOK, LockInv, FreshInv, Fresh, Later,
              SpentInv, StepsAreSpent, Spent, RememberInv, P
<1> QED BY <1>1, <1>2, <1>3, <1>4, <1>5, <1>6 DEF Next

----------------------------------------------------------------------------
(* Before the first fault, whatever the server accepted from a client is known
   to its process, and to the store once it is written. *)
Known(d, w) ==
    /\ memory[P(d)] >= w
    /\ d \in StoredClients => \/ disk >= w
                              \/ client[d].pc = "persist" /\ client[d].used = w

KnownInv ==
    disturbed = 0 =>
        \A d \in Clients : \A w \in 1 .. MaxStep : spent[w] = d => Known(d, w)

LEMMA KnownStays ==
    ASSUME IInv, IInv', KnownInv, UNCHANGED <<spent, disk>>, disturbed' = 0 => disturbed = 0,
           \A q \in Processes : memory'[q] >= memory[q],
           \A d \in Clients : client[d].pc = "persist" => client'[d] = client[d]
    PROVE  KnownInv'
<1> SUFFICES ASSUME disturbed' = 0, NEW d \in Clients, NEW w \in 1 .. MaxStep,
                    spent'[w] = d
             PROVE  Known(d, w)'
  BY DEF KnownInv
<1>1. Known(d, w)
  BY DEF KnownInv
<1>2. P(d) \in Processes
  BY OTPLoginAssumption DEF P
<1>3. memory[P(d)] \in Nat /\ memory'[P(d)] \in Nat /\ w \in Nat
  BY <1>2, OTPLoginAssumption DEF IInv, Types, TypeOK
<1>4. memory'[P(d)] >= w
  BY <1>1, <1>2, <1>3 DEF Known
<1> QED BY <1>1, <1>4 DEF Known, P

(* Each step that is no fault keeps it. *)
LEMMA KnownNext == IInv /\ IInv' /\ KnownInv /\ [Next]_vars => KnownInv'
<1> SUFFICES ASSUME IInv, IInv', KnownInv, [Next]_vars PROVE KnownInv'
  OBVIOUS
<1> USE OTPLoginAssumption
<1>0. Types /\ TypeOK /\ LockInv
  BY DEF IInv, Types
<1>1. ASSUME NEW kind, Disturbs(kind) PROVE KnownInv'
  BY <1>0, <1>1 DEF Disturbs, TypeOK, KnownInv
<1>2. \A q \in Processes : memory[q] \in Nat
  BY <1>0 DEF TypeOK
<1>3. ASSUME NEW c \in Clients, client[c].pc # "persist",
             \A d \in Clients : d # c => client'[d] = client[d],
             UNCHANGED <<spent, disk, memory, disturbed>>
      PROVE  KnownInv'
  <2>1. \A q \in Processes : memory'[q] >= memory[q]
    BY <1>2, <1>3
  <2>2. \A d \in Clients : client[d].pc = "persist" => client'[d] = client[d]
    BY <1>3
  <2> QED BY <1>3, <2>1, <2>2, KnownStays
<1>4. ASSUME NEW c \in Clients, Start(c) \/ LockSteps(c) PROVE KnownInv'
  <2>1. client[c].pc # "persist" /\ UNCHANGED <<spent, disk, memory, disturbed>>
    BY <1>4 DEF Start, LockSteps, LockAccount, AcquireOTPAccount, GivesUpLock, CloseLock
  <2>2. \A d \in Clients : d # c => client'[d] = client[d]
    BY <1>0, <1>4 DEF Start, LockSteps, LockAccount, AcquireOTPAccount, GivesUpLock,
                      CloseLock, GoesTo, TypeOK
  <2> QED BY <1>3, <2>1, <2>2
<1>5. ASSUME NEW c \in Clients,
             NextWindow(c) \/ PasswordOK(c) \/ SubmitOTP(c) \/ OTPRejected(c)
              \/ OTPRejectedAgain(c) \/ HandshakeDone(c) \/ SleepReturns(c)
      PROVE  KnownInv'
  <2>1. client[c].pc # "persist" /\ UNCHANGED <<spent, disk, memory, disturbed>>
    BY <1>5 DEF NextWindow, PasswordOK, SubmitOTP, OTPRejected, OTPRejectedAgain,
                HandshakeDone, SleepReturns
  <2>2. \A d \in Clients : d # c => client'[d] = client[d]
    BY <1>0, <1>5 DEF NextWindow, PasswordOK, SubmitOTP, OTPRejected, OTPRejectedAgain,
                HandshakeDone, SleepReturns, Returns, GoesTo, TypeOK
  <2> QED BY <1>3, <2>1, <2>2
<1>6. ASSUME NEW c \in Clients, LoginCanceled(c) PROVE KnownInv'
  <2>1. CASE client[c].pc \in Waiting /\ UNCHANGED disturbed
    <3>1. client[c].pc # "persist" /\ UNCHANGED <<spent, disk, memory, disturbed>>
      BY <1>6, <2>1 DEF LoginCanceled, Waiting
    <3>2. \A d \in Clients : d # c => client'[d] = client[d]
      BY <1>0, <1>6 DEF LoginCanceled, Returns, TypeOK
    <3> QED BY <1>3, <3>1, <3>2
  <2> QED BY <1>1, <1>6, <2>1 DEF LoginCanceled
<1>7. ASSUME NEW c \in Clients, BeforeHandshake(c) PROVE KnownInv'
  <2>1. \A q \in Processes : memory'[q] >= memory[q]
    BY <1>0, <1>2, <1>7 DEF BeforeHandshake, Accepted, MaxOf, TypeOK
  <2>2. \A d \in Clients : client[d].pc = "persist" => client'[d] = client[d]
    BY <1>0, <1>7 DEF BeforeHandshake, TypeOK
  <2> QED BY <1>7, <2>1, <2>2, KnownStays DEF BeforeHandshake
<1>8. ASSUME NEW c \in Clients, OTPAccepted(c) PROVE KnownInv'
  <2> SUFFICES ASSUME disturbed' = 0, NEW d \in Clients, NEW w \in 1 .. MaxStep,
                      spent'[w] = d
               PROVE  Known(d, w)'
    BY DEF KnownInv
  <2>1. P(c) \in Processes /\ P(d) \in Processes
    BY DEF P
  <2>2. /\ memory' = [memory EXCEPT ![P(c)] = MaxOf(@, client[c].used)]
        /\ client' = [client EXCEPT ![c].pc =
                        IF c \in StoredClients THEN "persist" ELSE "impersonate"]
        /\ spent' = [spent EXCEPT ![client[c].used] = c]
        /\ client[c].pc = "sent" /\ UNCHANGED <<disk, disturbed>>
    BY <1>8 DEF OTPAccepted, Remembers, Spends, GoesTo
  <2>3. memory[P(d)] \in Nat /\ memory'[P(d)] \in Nat /\ w \in Nat
    BY <1>2, <2>1 DEF IInv, Types, TypeOK
  <2>4. client[c].used \in 1 .. MaxStep
    BY <1>0, <1>8, Spending DEF OTPAccepted
  <2>5. memory'[P(d)] >= memory[P(d)]
    <3>1. DOMAIN memory = Processes
      BY <1>0 DEF TypeOK
    <3>2. CASE P(d) = P(c)
      <4>1. memory'[P(c)] = MaxOf(memory[P(c)], client[c].used)
        BY <2>1, <2>2, <3>1
      <4>2. memory[P(c)] \in Nat /\ client[c].used \in Nat
        BY <1>2, <2>1, <2>4
      <4> QED BY <3>2, <4>1, <4>2 DEF MaxOf
    <3>3. CASE P(d) # P(c)
      <4>1. memory'[P(d)] = memory[P(d)]
        BY <2>1, <2>2, <3>1, <3>3
      <4> QED BY <2>3, <4>1
    <3> QED BY <3>2, <3>3
  <2>6. CASE w = client[c].used
    <3>1. d = c
      BY <1>0, <2>2, <2>4, <2>6 DEF TypeOK
    <3>2. memory'[P(c)] >= w
      <4>1. memory'[P(c)] = MaxOf(memory[P(c)], client[c].used)
        <5>1. DOMAIN memory = Processes
          BY <1>0 DEF TypeOK
        <5> QED BY <2>1, <2>2, <5>1
      <4>2. memory[P(c)] \in Nat
        BY <1>2, <2>1
      <4> QED BY <2>3, <2>6, <4>1, <4>2 DEF MaxOf
    <3>3. /\ c \in StoredClients => client'[c].pc = "persist"
          /\ client'[c].used = w
      BY <1>0, <2>2, <2>6 DEF TypeOK
    <3> QED BY <3>1, <3>2, <3>3 DEF Known, P
  <2>7. CASE w # client[c].used
    <3>1. spent[w] = d
      BY <1>0, <2>2, <2>4, <2>7 DEF TypeOK
    <3>2. Known(d, w)
      BY <2>2, <3>1 DEF KnownInv
    <3>3. memory'[P(d)] >= w
      BY <2>3, <2>5, <3>2 DEF Known
    <3>4. client[d].pc = "persist" => client'[d] = client[d]
      BY <1>0, <2>2 DEF TypeOK
    <3> QED BY <2>2, <3>2, <3>3, <3>4 DEF Known, P
  <2> QED BY <2>6, <2>7
<1>9. ASSUME NEW c \in Clients, PersistStep(c) PROVE KnownInv'
  <2> SUFFICES ASSUME disturbed' = 0, NEW d \in Clients, NEW w \in 1 .. MaxStep,
                      spent'[w] = d
               PROVE  Known(d, w)'
    BY DEF KnownInv
  <2>1. /\ disk' = MaxOf(disk, client[c].used)
        /\ client[c].pc = "persist"
        /\ UNCHANGED <<memory, spent, disturbed>>
    BY <1>9 DEF PersistStep, Persisted
  <2>2. Known(d, w)
    BY <2>1 DEF KnownInv
  <2>3. disk \in Nat /\ client[c].used \in Nat /\ w \in Nat
    BY <1>0 DEF TypeOK
  <2>4. disk' >= disk /\ disk' >= client[c].used /\ disk' \in Nat
    BY <2>1, <2>3 DEF MaxOf
  <2>5. d # c => client'[d] = client[d]
    BY <1>0, <1>9 DEF PersistStep, GoesTo, TypeOK
  <2> QED BY <2>1, <2>2, <2>3, <2>4, <2>5 DEF Known, P
<1>10. CASE Tick
  BY <1>2, <1>10, KnownStays DEF Tick
<1>11. CASE UNCHANGED vars
  BY <1>2, <1>11, KnownStays DEF vars
<1>12. ASSUME NEW c \in Clients, HandshakeSteps(c) PROVE KnownInv'
  BY <1>1, <1>5, <1>6, <1>7, <1>8, <1>9, <1>12
     DEF HandshakeSteps, OTPUnreadable, StorageFails, ExchangeFails, ExchangeLimited
<1>13. ASSUME NEW p \in Processes, Crash(p) PROVE KnownInv'
  BY <1>1, <1>13 DEF Crash
<1> QED BY <1>4, <1>10, <1>11, <1>12, <1>13 DEF Next

(* A submission uses the window it is now, later than all that is known, and
   whoever else the store knows of is not about to write. *)
LEMMA SubmitsFresh ==
    ASSUME IInv, KnownInv, [Next]_vars, NEW c \in Clients, disturbed = 0, Submits(c),
           NEW d \in Clients, spent[client'[c].used] = d
    PROVE  ~Shares(c, d)
<1> USE OTPLoginAssumption
<1>0. Types /\ TypeOK /\ LockInv /\ FreshInv
  BY DEF IInv, Types
<1>1. SubmitOTP(c)
  <2>0. \A b \in Clients : client[b] \in [pc : PCs, attempt : 0 .. MaxAttempts - 1,
                                          used : Nat, second : BOOLEAN]
    BY <1>0 DEF TypeOK
  <2>a. ASSUME NEW b \in Clients, NEW x, x.pc # "sent",
               client' = [client EXCEPT ![b] = x]
        PROVE  FALSE
    BY <1>0, <2>a DEF Submits, TypeOK
  <2>b. ASSUME NEW b \in Clients, NEW pc, pc # "sent", GoesTo(b, pc)
        PROVE  FALSE
    BY <1>0, <2>0, <2>b DEF Submits, GoesTo, TypeOK
  <2>c. ASSUME NEW b \in Clients, Returns(b) PROVE FALSE
    <3>1. [NoLogin EXCEPT !.pc = IF b \in StoredClients THEN "unlock" ELSE "idle"].pc # "sent"
      BY DEF NoLogin
    <3> QED BY <2>a, <2>c, <3>1 DEF Returns
  <2>1. ASSUME NEW b \in Clients, Start(b) \/ LockSteps(b) PROVE FALSE
    <3>1. CASE GivesUpLock(b)
      <4>1. [NoLogin EXCEPT !.pc = IF flock = b THEN "unlock" ELSE "idle"].pc # "sent"
        BY DEF NoLogin
      <4> QED BY <2>a, <3>1, <4>1 DEF GivesUpLock
    <3>2. CASE Start(b)
      BY <2>b, <3>2 DEF Start
    <3>3. CASE LockAccount(b) \/ AcquireOTPAccount(b) \/ CloseLock(b)
      BY <2>b, <3>3 DEF LockAccount, AcquireOTPAccount, CloseLock
    <3> QED BY <2>1, <3>1, <3>2, <3>3 DEF LockSteps
  <2>2. ASSUME NEW b \in Clients, BeforeHandshake(b) \/ NextWindow(b) \/ PasswordOK(b)
                \/ OTPAccepted(b) \/ OTPRejected(b) \/ PersistStep(b) \/ SleepReturns(b)
        PROVE  FALSE
    <3>1. CASE PasswordOK(b) \/ OTPAccepted(b) \/ PersistStep(b) \/ SleepReturns(b)
      BY <2>b, <3>1 DEF PasswordOK, OTPAccepted, PersistStep, SleepReturns
    <3>2. CASE BeforeHandshake(b)
      BY <1>0, <2>0, <3>2 DEF Submits, BeforeHandshake, TypeOK
    <3>3. CASE NextWindow(b)
      BY <1>0, <2>0, <3>3 DEF Submits, NextWindow, TypeOK
    <3>4. CASE OTPRejected(b)
      BY <1>0, <2>0, <3>4 DEF Submits, OTPRejected, TypeOK
    <3> QED BY <2>2, <3>1, <3>2, <3>3, <3>4
  <2>4. ASSUME NEW b \in Clients, ExchangeLimited(b) PROVE FALSE
    <3>1. CASE client[b].attempt < MaxAttempts - 1
      <4>1. client' = [client EXCEPT ![b].pc = "sleep", ![b].attempt = @ + 1]
        BY <2>4, <3>1 DEF ExchangeLimited, Retries
      <4> QED BY <1>0, <2>0, <4>1 DEF Submits, TypeOK
    <3>2. CASE ~(client[b].attempt < MaxAttempts - 1)
      BY <2>c, <2>4, <3>2 DEF ExchangeLimited, Retries
    <3> QED BY <3>1, <3>2
  <2>5. ASSUME NEW b \in Clients, SubmitOTP(b) PROVE b = c
    BY <1>0, <2>0, <2>5 DEF Submits, SubmitOTP, TypeOK
  <2>6. ASSUME NEW p \in Processes, Crash(p) PROVE FALSE
    BY <2>6 DEF Submits, Crash, NoLogin
  <2>7. CASE Tick \/ UNCHANGED vars
    BY <2>7 DEF Submits, Tick, vars
  <2>8. ASSUME NEW b \in Clients, HandshakeSteps(b) PROVE SubmitOTP(c)
    BY <2>2, <2>c, <2>4, <2>5, <2>8 DEF HandshakeSteps, OTPUnreadable, OTPRejectedAgain,
          StorageFails, HandshakeDone, ExchangeFails, LoginCanceled
  <2> QED BY <2>1, <2>6, <2>7, <2>8 DEF Next
<1>2. client[c].pc = "otp" /\ client'[c].used = step /\ step \in 1 .. MaxStep
  BY <1>0, <1>1 DEF SubmitOTP, TypeOK, Types
<1>3. Known(d, step)
  BY <1>2 DEF KnownInv
<1>4. Later(c, step)
  BY <1>0, <1>2 DEF FreshInv, Fresh
<1>5. memory[P(c)] \in Nat /\ disk \in Nat
  BY <1>0 DEF TypeOK, P
<1>6. P(c) # P(d)
  BY <1>2, <1>3, <1>4, <1>5 DEF Known, Later
<1>7. ASSUME c \in StoredClients, d \in StoredClients PROVE FALSE
  <2>1. ~(disk >= step)
    BY <1>2, <1>4, <1>5, <1>7 DEF Later
  <2>2. client[d].pc = "persist"
    BY <1>3, <1>7, <2>1 DEF Known
  <2> QED BY <1>0, <1>2, <1>6, <1>7, <2>2 DEF LockInv, Critical
<1> QED BY <1>6, <1>7 DEF Shares

----------------------------------------------------------------------------
(* The windows a stored client has read a 2xx for and the store does not know,
   but for the one that is about to be written. *)
Missed(w) == disk < w /\ \E c \in StoredClients : answered[c] = w

Writing(w) == \E c \in StoredClients : client[c].pc = "persist" /\ client[c].used = w

Unwritten == {w \in 1 .. MaxStep : Missed(w) /\ ~Writing(w)}

(* Each of them was left behind by a fault. *)
PersistInv == Cardinality(Unwritten) <= disturbed

(* Sets of windows have a size, which grows with them and one by one. *)
LEMMA Windows ==
    ASSUME NEW S \in SUBSET (1 .. MaxStep), NEW T \in SUBSET (1 .. MaxStep)
    PROVE  /\ Cardinality(S) \in Nat
           /\ S \subseteq T => Cardinality(S) <= Cardinality(T)
           /\ \A x : S \subseteq T \cup {x} => Cardinality(S) <= Cardinality(T) + 1
<1>1. IsFiniteSet(1 .. MaxStep)
  <2>1. 1 \in Int /\ MaxStep \in Int
    BY OTPLoginAssumption
  <2> QED BY <2>1, FS_Interval
<1>2. IsFiniteSet(S) /\ IsFiniteSet(T)
  BY <1>1, FS_Subset
<1>3. Cardinality(S) \in Nat /\ Cardinality(T) \in Nat
  BY <1>2, FS_CardinalityType
<1>4. S \subseteq T => Cardinality(S) <= Cardinality(T)
  BY <1>2, FS_Subset
<1>5. ASSUME NEW x, S \subseteq T \cup {x}
      PROVE  Cardinality(S) <= Cardinality(T) + 1
  <2>1. /\ IsFiniteSet(T \cup {x})
        /\ Cardinality(T \cup {x}) = IF x \in T THEN Cardinality(T) ELSE Cardinality(T) + 1
    BY <1>2, FS_AddElement
  <2>2. Cardinality(S) <= Cardinality(T \cup {x})
    BY <1>5, <2>1, FS_Subset
  <2> QED BY <1>3, <2>1, <2>2
<1> QED BY <1>3, <1>4, <1>5

(* Steps that leave no window behind. *)
LEMMA PersistStays ==
    ASSUME TypeOK, PersistInv, disturbed' = disturbed, Unwritten' \subseteq Unwritten
    PROVE  PersistInv'
<1>1. Unwritten \in SUBSET (1 .. MaxStep) /\ Unwritten' \in SUBSET (1 .. MaxStep)
  BY DEF Unwritten
<1>2. Cardinality(Unwritten') <= Cardinality(Unwritten)
  BY <1>1, Windows
<1>3. Cardinality(Unwritten) \in Nat /\ Cardinality(Unwritten') \in Nat
  BY <1>1, Windows
<1>4. disturbed \in Nat
  BY DEF TypeOK
<1> QED BY <1>2, <1>3, <1>4 DEF PersistInv

(* A step that answers nothing and writes nothing. *)
LEMMA QuietPersist ==
    ASSUME TypeOK, PersistInv, UNCHANGED <<disk, answered, disturbed>>,
           \A c \in StoredClients : client[c].pc = "persist" => client'[c] = client[c]
    PROVE  PersistInv'
<1>1. \A w : Missed(w)' => Missed(w)
  BY DEF Missed
<1>2. \A w : Writing(w) => Writing(w)'
  BY DEF Writing
<1>3. Unwritten' \subseteq Unwritten
  BY <1>1, <1>2 DEF Unwritten
<1> QED BY <1>3, PersistStays

(* A fault: at most the window of the client that has the lock file is left. *)
LEMMA DisturbedPersist ==
    ASSUME TypeOK, LockInv, PersistInv, NEW kind, Disturbs(kind),
           disk' \in Nat, disk' >= disk,
           \A c \in Clients : answered'[c] = answered[c] \/ answered'[c] = 0
    PROVE  PersistInv'
<1>1. \A w \in 1 .. MaxStep : Missed(w)' => Missed(w)
  <2>1. disk \in Nat
    BY DEF TypeOK
  <2> QED BY <2>1, OTPLoginAssumption DEF Missed
<1>2. \A w : Writing(w) => w = client[flock].used
  BY OTPLoginAssumption DEF Writing, LockInv, Critical
<1>3. Unwritten' \subseteq Unwritten \cup {client[flock].used}
  BY <1>1, <1>2 DEF Unwritten
<1>4. Unwritten \in SUBSET (1 .. MaxStep) /\ Unwritten' \in SUBSET (1 .. MaxStep)
  BY DEF Unwritten
<1>5. Cardinality(Unwritten') <= Cardinality(Unwritten) + 1
  BY <1>3, <1>4, Windows
<1>6. Cardinality(Unwritten) \in Nat /\ Cardinality(Unwritten') \in Nat
  BY <1>4, Windows
<1>7. disturbed' = disturbed + 1 /\ disturbed \in Nat
  BY DEF Disturbs, TypeOK
<1> QED BY <1>5, <1>6, <1>7 DEF PersistInv

(* Every step keeps the count: a 2xx is followed by the write of its window,
   unless a fault comes between. *)
LEMMA PersistNext == IInv /\ PersistInv /\ [Next]_vars => PersistInv'
<1> SUFFICES ASSUME IInv, PersistInv, [Next]_vars PROVE PersistInv'
  OBVIOUS
<1> USE OTPLoginAssumption
<1>0. Types /\ TypeOK /\ LockInv
  BY DEF IInv, Types
<1>1. ASSUME NEW kind, Disturbs(kind), UNCHANGED answered,
             disk' \in Nat, disk' >= disk
      PROVE  PersistInv'
  BY <1>0, <1>1, DisturbedPersist
<1>d. disk \in Nat
  BY <1>0 DEF TypeOK
<1>2. ASSUME NEW c \in Clients, client[c].pc # "persist",
             \A d \in Clients : d # c => client'[d] = client[d],
             UNCHANGED <<disk, answered, disturbed>>
      PROVE  PersistInv'
  <2>1. \A d \in StoredClients : client[d].pc = "persist" => client'[d] = client[d]
    BY <1>2
  <2> QED BY <1>0, <1>2, <2>1, QuietPersist
<1>3. ASSUME NEW c \in Clients, Start(c) \/ LockSteps(c) PROVE PersistInv'
  <2>1. client[c].pc # "persist" /\ UNCHANGED <<disk, answered, disturbed>>
    BY <1>3 DEF Start, LockSteps, LockAccount, AcquireOTPAccount, GivesUpLock, CloseLock
  <2>2. \A d \in Clients : d # c => client'[d] = client[d]
    BY <1>0, <1>3 DEF Start, LockSteps, LockAccount, AcquireOTPAccount, GivesUpLock,
                      CloseLock, GoesTo, TypeOK
  <2> QED BY <1>2, <2>1, <2>2
<1>4. ASSUME NEW c \in Clients,
             BeforeHandshake(c) \/ NextWindow(c) \/ PasswordOK(c) \/ SubmitOTP(c)
              \/ OTPRejected(c) \/ OTPRejectedAgain(c) \/ HandshakeDone(c)
              \/ SleepReturns(c)
      PROVE  PersistInv'
  <2>1. client[c].pc # "persist" /\ UNCHANGED <<disk, answered, disturbed>>
    BY <1>4 DEF BeforeHandshake, NextWindow, PasswordOK, SubmitOTP, OTPRejected,
                OTPRejectedAgain, HandshakeDone, SleepReturns
  <2>2. \A d \in Clients : d # c => client'[d] = client[d]
    BY <1>0, <1>4 DEF BeforeHandshake, NextWindow, PasswordOK, SubmitOTP, OTPRejected,
                OTPRejectedAgain, HandshakeDone, SleepReturns, Returns, GoesTo, TypeOK
  <2> QED BY <1>2, <2>1, <2>2
<1>5. ASSUME NEW c \in Clients, LoginCanceled(c) PROVE PersistInv'
  <2>1. CASE client[c].pc \in Waiting /\ UNCHANGED disturbed
    <3>1. client[c].pc # "persist" /\ UNCHANGED <<disk, answered, disturbed>>
      BY <1>5, <2>1 DEF LoginCanceled, Waiting
    <3>2. \A d \in Clients : d # c => client'[d] = client[d]
      BY <1>0, <1>5 DEF LoginCanceled, Returns, TypeOK
    <3> QED BY <1>2, <3>1, <3>2
  <2>2. CASE Disturbs("lateCancel")
    BY <1>1, <1>d, <1>5, <2>2 DEF LoginCanceled
  <2> QED BY <1>5, <2>1, <2>2 DEF LoginCanceled
<1>6. ASSUME NEW c \in Clients, OTPAccepted(c) PROVE PersistInv'
  <2>1. /\ client[c].pc = "sent" /\ UNCHANGED <<disk, disturbed>>
        /\ \A d \in Clients : answered'[d] = IF d = c THEN client[c].used ELSE answered[d]
    BY <1>0, <1>6 DEF OTPAccepted, TypeOK
  <2>2. client' = [client EXCEPT ![c].pc =
                     IF c \in StoredClients THEN "persist" ELSE "impersonate"]
    BY <1>6 DEF OTPAccepted, GoesTo
  <2>3. \A d \in Clients : d # c => client'[d] = client[d]
    BY <1>0, <2>2 DEF TypeOK
  <2>4. c \in StoredClients => client'[c].pc = "persist" /\ client'[c].used = client[c].used
    BY <1>0, <2>2 DEF TypeOK
  <2>5. \A w : Writing(w) => Writing(w)'
    <3>1. \A d \in StoredClients : client[d].pc = "persist" => client'[d] = client[d]
      BY <2>1, <2>3
    <3> QED BY <3>1 DEF Writing
  <2>6. ASSUME NEW w \in 1 .. MaxStep, Missed(w)', ~Writing(w)' PROVE Missed(w)
    <3>1. PICK d \in StoredClients : answered'[d] = w /\ disk < w
      BY <2>1, <2>6 DEF Missed
    <3>2. d # c
      BY <2>1, <2>4, <2>6, <3>1 DEF Writing
    <3> QED BY <2>1, <3>1, <3>2 DEF Missed
  <2>7. Unwritten' \subseteq Unwritten
    BY <2>5, <2>6 DEF Unwritten
  <2> QED BY <1>0, <2>1, <2>7, PersistStays
<1>7. ASSUME NEW c \in Clients, PersistStep(c) PROVE PersistInv'
  <2>1. /\ disk' = MaxOf(disk, client[c].used) /\ client[c].pc = "persist"
        /\ UNCHANGED <<answered, disturbed>>
    BY <1>7 DEF PersistStep, Persisted
  <2>2. disk \in Nat /\ client[c].used \in Nat
    BY <1>0 DEF TypeOK
  <2>3. disk' \in Nat /\ disk' >= disk /\ disk' >= client[c].used
    BY <2>1, <2>2 DEF MaxOf
  <2>4. c \in StoredClients /\ \A d \in StoredClients : client[d].pc = "persist" => d = c
    BY <1>0, <2>1 DEF LockInv, Critical
  <2>5. ASSUME NEW w \in 1 .. MaxStep, Missed(w)' PROVE Missed(w) /\ ~Writing(w)
    <3>1. disk < w /\ client[c].used < w
      BY <2>2, <2>3, <2>5 DEF Missed
    <3>2. Missed(w)
      BY <2>1, <2>5, <3>1 DEF Missed
    <3>3. ~Writing(w)
      BY <2>2, <2>4, <3>1 DEF Writing
    <3> QED BY <3>2, <3>3
  <2>6. Unwritten' \subseteq Unwritten
    BY <2>5 DEF Unwritten
  <2> QED BY <1>0, <2>1, <2>6, PersistStays
<1>8. ASSUME NEW c \in Clients, HandshakeSteps(c) PROVE PersistInv'
  <2>1. CASE OTPUnreadable(c) \/ ExchangeFails(c) \/ ExchangeLimited(c)
    BY <1>1, <1>d, <2>1 DEF OTPUnreadable, ExchangeFails, ExchangeLimited
  <2>2. CASE StorageFails(c)
    <3>1. client[c].used \in Nat
      BY <1>0 DEF TypeOK
    <3>2. disk' \in Nat /\ disk' >= disk
      BY <1>d, <2>2, <3>1 DEF StorageFails, Persisted, MaxOf
    <3> QED BY <1>1, <2>2, <3>2 DEF StorageFails
  <2> QED BY <1>4, <1>5, <1>6, <1>7, <1>8, <2>1, <2>2 DEF HandshakeSteps
<1>9. ASSUME NEW p \in Processes, Crash(p) PROVE PersistInv'
  <2>1. Disturbs("crash") /\ disk' \in Nat /\ disk' >= disk
    BY <1>d, <1>9 DEF Crash
  <2>2. \A c \in Clients : answered'[c] = answered[c] \/ answered'[c] = 0
    BY <1>9 DEF Crash
  <2> QED BY <1>0, <2>1, <2>2, DisturbedPersist
<1>10. CASE Tick \/ UNCHANGED vars
  BY <1>0, <1>10, QuietPersist DEF Tick, vars
<1> QED BY <1>3, <1>8, <1>9, <1>10 DEF Next

----------------------------------------------------------------------------
(* The inductive invariant: the locks exclude, and what a client checked
   before its handshake stays true while it has them. *)
THEOREM Invariance == Spec => []IInv
BY InitOK, NextOK, PTL DEF Spec

(* Types, for any clients, processes, attempts, windows and faults. *)
THEOREM TypeCorrectness == Spec => []TypeOK
<1>1. IInv => TypeOK
  BY DEF IInv, Types
<1> QED BY <1>1, Invariance, PTL

(* A code at the server is of a later window than any its process, or the
   shared store, knows accepted: beforeHandshake's check is not stale when
   verify() uses it. *)
THEOREM NoKnownReplayTheorem == Spec => []NoKnownReplay
<1>1. IInv => NoKnownReplay
  BY DEF IInv, FreshInv, Fresh, Later, NoKnownReplay
<1> QED BY <1>1, Invariance, PTL

(* Every window acceptOTPStep remembers or saveAcceptedOTPStep writes was
   accepted by the server. *)
THEOREM StepsAreSpentTheorem == Spec => []StepsAreSpent
<1>1. IInv => StepsAreSpent
  BY DEF IInv, SpentInv
<1> QED BY <1>1, Invariance, PTL

(* acceptOTPStep comes before everything that can fail after the 2xx: a
   process remembers each window it read the answer for. *)
THEOREM RememberedTheorem == Spec => []AcceptedStepRemembered
<1>1. IInv => AcceptedStepRemembered
  BY DEF IInv, RememberInv, AcceptedStepRemembered
<1> QED BY <1>1, Invariance, PTL

(* Before the first fault nobody submits a code that was accepted from a client
   of the same process or store: no login costs a 401 and a window. *)
THEOREM NoSpentStepTheorem == Spec => NoSpentStepSubmitted
<1>1. Init => KnownInv
  BY OTPLoginAssumption DEF Init, KnownInv
<1>2. IInv /\ KnownInv /\ [Next]_vars =>
        [\A c \in Clients : disturbed = 0 /\ Submits(c) =>
            \A d \in Clients : spent[client'[c].used] = d => ~Shares(c, d)]_vars
  BY SubmitsFresh
<1> QED BY <1>1, <1>2, Invariance, KnownNext, PTL DEF Spec, NoSpentStepSubmitted

(* saveAcceptedOTPStep follows every 2xx, under the lock file: while no stored
   client logs in, each answered window the store does not know cost a fault. *)
THEOREM PersistedTheorem == Spec => []AcceptedStepPersisted
<1>1. Init => PersistInv
  <2> SUFFICES ASSUME Init PROVE PersistInv
    OBVIOUS
  <2>1. Unwritten = {}
    BY OTPLoginAssumption DEF Init, Unwritten, Missed
  <2>2. Cardinality(Unwritten) = 0
    BY <2>1, FS_EmptySet
  <2> QED BY <2>2 DEF Init, PersistInv
<1>2. IInv /\ PersistInv => AcceptedStepPersisted
  <2> SUFFICES ASSUME LockInv, PersistInv, flock = NoClient
               PROVE  Cardinality({w \in 1 .. MaxStep : \E c \in StoredClients :
                            answered[c] = w /\ disk < w}) <= disturbed
    BY DEF IInv, AcceptedStepPersisted
  <2>1. \A w : ~Writing(w)
    BY OTPLoginAssumption DEF Writing, LockInv, Critical
  <2>2. Unwritten = {w \in 1 .. MaxStep : \E c \in StoredClients :
                        answered[c] = w /\ disk < w}
    BY <2>1 DEF Unwritten, Missed
  <2> QED BY <2>2 DEF PersistInv
<1> QED BY <1>1, <1>2, Invariance, PersistNext, PTL DEF Spec

=============================================================================
