------------------------ MODULE OTPAccountLockProofs ------------------------
(***************************************************************************)
(* Proofs about OTPAccountLock, for any finite set of callers and any      *)
(* accounts and lock objects.                                              *)
(***************************************************************************)
EXTENDS OTPAccountLock, FiniteSetTheorems, TLAPS

(* users counts the callers that refer to the lock. *)
CountInv == \A l \in Locks : users[l] = Cardinality(Users(l))

(* A caller inside a call refers to the lock the table has for its account,
   an idle caller to none; an entry of the table has a user, and no two
   accounts share one. *)
TableInv ==
    /\ \A c \in Callers :
        \/ caller[c] = Idle
        \/ /\ caller[c].pc # "idle"
           /\ caller[c].account \in Accounts /\ caller[c].lock \in Locks
           /\ locks[caller[c].account] = caller[c].lock
    /\ \A a \in Accounts : locks[a] # NoLock => Users(locks[a]) # {}
    /\ \A a, b \in Accounts : locks[a] # NoLock /\ locks[a] = locks[b] => a = b

(* A token is in one place. *)
TokenInv ==
    /\ \A c, d \in Callers :
        HasToken(c) /\ HasToken(d) /\ caller[c].lock = caller[d].lock => c = d
    /\ \A l \in Locks, c \in Callers :
        HasToken(c) /\ caller[c].lock = l => ~token[l]
    /\ \A l \in Locks : Users(l) # {} /\ ~token[l] =>
        \E c \in Users(l) : HasToken(c)

IInv == TypeOK /\ CountInv /\ TableInv /\ TokenInv

USE DEF Users, Idle, HasToken, PCs

(* Initially nobody refers to any lock. *)
LEMMA InitInv == Init => IInv
<1> SUFFICES ASSUME Init PROVE IInv
    OBVIOUS
<1> USE OTPAccountLockAssumption DEF Init
<1>1. TypeOK
    BY DEF TypeOK
<1>2. CountInv
    <2> SUFFICES ASSUME NEW l \in Locks PROVE users[l] = Cardinality(Users(l))
        BY DEF CountInv
    <2>1. Users(l) = {}
        OBVIOUS
    <2> QED
        BY <2>1, FS_EmptySet
<1>3. TableInv
    BY DEF TableInv
<1>4. TokenInv
    BY DEF TokenInv
<1> QED
    BY <1>1, <1>2, <1>3, <1>4 DEF IInv

(* A caller that refers to a lock is counted, so users is not zero. *)
LEMMA UsersFinite ==
    ASSUME NEW l \in Locks
    PROVE  /\ IsFiniteSet(Users(l)) /\ Cardinality(Users(l)) \in Nat
           /\ \A c \in Users(l) : Cardinality(Users(l)) = 1 => Users(l) = {c}
<1>1. IsFiniteSet(Users(l))
    BY FS_Subset, OTPAccountLockAssumption
<1>2. Cardinality(Users(l)) \in Nat
    BY <1>1, FS_CardinalityType
<1>3. ASSUME NEW c \in Users(l), Cardinality(Users(l)) = 1
      PROVE  Users(l) = {c}
    <2>1. \E x : Users(l) = {x}
        BY <1>1, <1>3, FS_Singleton
    <2> QED
        BY <1>3, <2>1
<1> QED
    BY <1>1, <1>2, <1>3

(* Entering a call on lock k adds one user to it. *)
LEMMA EnterCount ==
    ASSUME IInv, NEW c \in Callers, NEW a, NEW k \in Locks, caller[c] = Idle,
           Enters(c, a, k),
           \A l \in Locks : users'[l] = IF l = k THEN users[l] + 1 ELSE users[l]
    PROVE  CountInv'
<1> SUFFICES ASSUME NEW l \in Locks
             PROVE  users'[l] = Cardinality(Users(l)')
    BY DEF CountInv
<1>1. users[l] = Cardinality(Users(l)) /\ IsFiniteSet(Users(l))
    BY UsersFinite DEF IInv, CountInv
<1>2. CASE l = k
    <2>1. Users(l)' = Users(l) \cup {c} /\ c \notin Users(l)
        BY <1>2, OTPAccountLockAssumption DEF IInv, TypeOK, Enters
    <2> QED
        BY <1>1, <1>2, <2>1, FS_AddElement
<1>3. CASE l # k
    <2>1. Users(l)' = Users(l)
        BY <1>3, OTPAccountLockAssumption DEF IInv, TypeOK, Enters
    <2> QED
        BY <1>1, <1>3, <2>1
<1> QED
    BY <1>2, <1>3

(* Joining the lock of the table keeps the invariant. *)
LEMMA JoinStep ==
    ASSUME IInv, NEW c \in Callers, NEW a \in Accounts, JoinLock(c, a)
    PROVE  IInv'
<1> USE OTPAccountLockAssumption DEF JoinLock, Enters
<1>0. TypeOK /\ locks[a] \in Locks
    BY DEF IInv, TypeOK
<1>1. TypeOK'
    BY <1>0 DEF TypeOK
<1>2. CountInv'
    <2>1. \A l \in Locks :
            users'[l] = IF l = locks[a] THEN users[l] + 1 ELSE users[l]
        BY <1>0 DEF TypeOK
    <2> QED
        BY <1>0, <2>1, EnterCount
<1>3. TableInv'
    BY <1>0 DEF IInv, TypeOK, TableInv
<1>4. TokenInv'
    BY <1>0 DEF IInv, TypeOK, TokenInv, TableInv
<1> QED
    BY <1>1, <1>2, <1>3, <1>4 DEF IInv

(* Making a lock keeps the invariant: it has no user, so no token is out. *)
LEMMA MakeStep ==
    ASSUME IInv, NEW c \in Callers, NEW a \in Accounts, NEW k \in Locks,
           MakeLock(c, a, k)
    PROVE  IInv'
<1> USE OTPAccountLockAssumption DEF MakeLock, Enters, Unused
<1>0. TypeOK
    BY DEF IInv
<1>1. TypeOK'
    BY <1>0 DEF TypeOK
<1>2. CountInv'
    <2>1. Users(k) = {}
        OBVIOUS
    <2>2. users[k] = 0
        BY <2>1, FS_EmptySet DEF IInv, CountInv
    <2>3. \A l \in Locks : users'[l] = IF l = k THEN users[l] + 1 ELSE users[l]
        BY <1>0, <2>2 DEF TypeOK
    <2> QED
        BY <2>3, EnterCount
<1>3. TableInv'
    BY <1>0 DEF IInv, TypeOK, TableInv
<1>4. TokenInv'
    BY <1>0 DEF IInv, TypeOK, TokenInv, TableInv
<1> QED
    BY <1>1, <1>2, <1>3, <1>4 DEF IInv

(* Steps that leave the table and the counts alone. *)
LEMMA TokenStep ==
    ASSUME IInv, NEW c \in Callers,
           TakeToken(c) \/ StopWaiting(c) \/ Own(c) \/ GiveBack(c) \/ Cancel(c)
    PROVE  IInv'
<1> USE OTPAccountLockAssumption
        DEF TakeToken, StopWaiting, Own, GiveBack, Cancel, GoesTo, MayGiveBack
<1> DEFINE k == caller[c].lock
<1>0. TypeOK /\ TableInv
    BY DEF IInv
<1>a. caller[c] # Idle => k \in Locks
    BY <1>0 DEF TableInv
<1>1. TypeOK'
    <2>1. caller' \in [Callers -> [pc : PCs, account : Accounts \cup {NoAccount},
                                   lock : Locks \cup {NoLock}]]
        BY <1>0 DEF TypeOK
    <2>2. token' \in [Locks -> BOOLEAN] /\ canceled' \in [Callers -> BOOLEAN]
        BY <1>0 DEF TypeOK
    <2> QED
        BY <1>0, <2>1, <2>2 DEF TypeOK
<1>2. /\ UNCHANGED <<locks, users>>
      /\ \A d \in Callers : /\ caller'[d].lock = caller[d].lock
                            /\ caller'[d].account = caller[d].account
                            /\ d # c => caller'[d] = caller[d]
    BY <1>0 DEF TypeOK
<1>3. \A l \in Locks \cup {NoLock} : Users(l)' = Users(l)
    BY <1>2
<1>4. CountInv'
    BY <1>2, <1>3 DEF IInv, CountInv
<1>5. TableInv'
    BY <1>0, <1>2, <1>3 DEF TypeOK, TableInv
<1>6. TokenInv'
    <2>1. CASE TakeToken(c)
        <3>1. k \in Locks /\ token[k]
            BY <1>0, <1>a, <2>1
        <3>2. \A d \in Callers : HasToken(d)' <=> HasToken(d) \/ d = c
            BY <1>0, <2>1 DEF TypeOK
        <3>3. \A l \in Locks : (token'[l] <=> token[l] /\ l # k)
            BY <1>0, <2>1, <3>1 DEF TypeOK
        <3>4. \A d \in Callers : caller[d].lock = k => ~HasToken(d)
            BY <3>1 DEF IInv, TokenInv
        <3>5. \A d, e \in Callers : HasToken(d)' /\ HasToken(e)'
                    /\ caller'[d].lock = caller'[e].lock => d = e
            BY <1>2, <3>2, <3>4 DEF IInv, TokenInv
        <3>6. \A l \in Locks, d \in Callers :
                HasToken(d)' /\ caller'[d].lock = l => ~token'[l]
            BY <1>2, <3>2, <3>3, <3>4 DEF IInv, TokenInv
        <3>7. \A l \in Locks : Users(l)' # {} /\ ~token'[l] =>
                \E d \in Users(l)' : HasToken(d)'
            BY <1>2, <1>3, <3>2, <3>3 DEF IInv, TokenInv
        <3> QED
            BY <3>5, <3>6, <3>7 DEF TokenInv
    <2>2. CASE StopWaiting(c)
        BY <1>0, <2>2 DEF IInv, TypeOK, TableInv, TokenInv
    <2>3. CASE Own(c)
        <3>1. token' = token
            BY <2>3
        <3>2. \A d \in Callers : HasToken(d)' <=> HasToken(d)
            BY <1>0, <2>3 DEF TypeOK
        <3>3. /\ \A d, e \in Callers : HasToken(d)' /\ HasToken(e)'
                    /\ caller'[d].lock = caller'[e].lock => d = e
              /\ \A l \in Locks, d \in Callers :
                    HasToken(d)' /\ caller'[d].lock = l => ~token'[l]
            BY <1>2, <3>1, <3>2 DEF IInv, TokenInv
        <3>4. \A l \in Locks : Users(l)' # {} /\ ~token'[l] =>
                \E d \in Users(l)' : HasToken(d)'
            BY <1>2, <1>3, <3>1, <3>2 DEF IInv, TokenInv
        <3> QED
            BY <3>3, <3>4 DEF TokenInv
    <2>4. CASE GiveBack(c)
        <3>1. k \in Locks /\ HasToken(c)
            BY <1>0, <1>a, <2>4
        <3>2. \A d \in Callers : HasToken(d)' <=> HasToken(d) /\ d # c
            BY <1>0, <2>4 DEF TypeOK
        <3>3. \A l \in Locks : (token'[l] <=> token[l] \/ l = k)
            BY <1>0, <2>4, <3>1 DEF TypeOK
        <3>4. \A d \in Callers : caller[d].lock = k /\ HasToken(d) => d = c
            BY <3>1 DEF IInv, TokenInv
        <3>5. \A d, e \in Callers : HasToken(d)' /\ HasToken(e)'
                    /\ caller'[d].lock = caller'[e].lock => d = e
            BY <1>2, <3>2, <3>4 DEF IInv, TokenInv
        <3>6. \A l \in Locks, d \in Callers :
                HasToken(d)' /\ caller'[d].lock = l => ~token'[l]
            BY <1>2, <3>2, <3>3, <3>4 DEF IInv, TokenInv
        <3>7. \A l \in Locks : Users(l)' # {} /\ ~token'[l] =>
                \E d \in Users(l)' : HasToken(d)'
            BY <1>2, <1>3, <3>2, <3>3 DEF IInv, TokenInv
        <3> QED
            BY <3>5, <3>6, <3>7 DEF TokenInv
    <2>5. CASE Cancel(c)
        BY <1>0, <2>5 DEF IInv, TypeOK, TableInv, TokenInv
    <2> QED
        BY <2>1, <2>2, <2>3, <2>4, <2>5
<1> QED
    BY <1>1, <1>4, <1>5, <1>6 DEF IInv

(* Leaving keeps the invariant: the entry goes with the last user, and only
   with it. *)
LEMMA LeaveStep == ASSUME IInv, NEW c \in Callers, Leave(c) PROVE IInv'
<1> USE OTPAccountLockAssumption
<1> DEFINE k == caller[c].lock
           a == caller[c].account
<1>0. TypeOK /\ TableInv /\ CountInv
    BY DEF IInv
<1>1. k \in Locks /\ a \in Accounts /\ locks[a] = k /\ ~HasToken(c)
    BY <1>0 DEF TableInv, Leave
<1>2. \A d \in Callers : caller'[d] = IF d = c THEN Idle ELSE caller[d]
    BY <1>0 DEF Leave, TypeOK
<1>3. \A l \in Locks : Users(l)' = Users(l) \ {c}
    BY <1>2
<1>4. Users(k) \ {c} = {} <=> users[k] = 1
    <2>1. Cardinality(Users(k)) = 1 => Users(k) = {c}
        BY <1>1, UsersFinite
    <2>2. Users(k) = {c} => Cardinality(Users(k)) = 1
        BY FS_Singleton
    <2>3. c \in Users(k)
        OBVIOUS
    <2> QED
        BY <1>0, <1>1, <2>1, <2>2, <2>3 DEF CountInv
<1>5. CountInv'
    <2> SUFFICES ASSUME NEW l \in Locks
                 PROVE  users'[l] = Cardinality(Users(l)')
        BY DEF CountInv
    <2>1. users[l] = Cardinality(Users(l)) /\ IsFiniteSet(Users(l))
        BY <1>0, UsersFinite DEF CountInv
    <2>2. users'[l] = IF l = k THEN users[l] - 1 ELSE users[l]
        BY <1>0, <1>1 DEF Leave, TypeOK
    <2>3. c \in Users(l) <=> l = k
        BY <1>1
    <2>4. CASE l = k
        BY <1>3, <2>1, <2>2, <2>3, <2>4, FS_RemoveElement
    <2>5. CASE l # k
        <3>1. Users(l) \ {c} = Users(l)
            BY <2>3, <2>5
        <3> QED
            BY <1>3, <2>1, <2>2, <2>5, <3>1
    <2> QED
        BY <2>4, <2>5
<1>6. TypeOK'
    <2>1. users' \in [Locks -> Nat]
        <3>1. c \in Users(k) /\ users[k] \in Nat /\ users[k] # 0
            <4>1. c \in Users(k)
                OBVIOUS
            <4>2. IsFiniteSet(Users(k)) /\ users[k] = Cardinality(Users(k))
                BY <1>0, <1>1, UsersFinite DEF CountInv
            <4>3. users[k] # 0
                BY <4>1, <4>2, FS_EmptySet
            <4> QED
                BY <1>0, <1>1, <4>1, <4>3 DEF TypeOK
        <3>2. users[k] - 1 \in Nat
            BY <3>1
        <3> QED
            BY <1>0, <1>1, <3>2 DEF Leave, TypeOK
    <2>2. locks' \in [Accounts -> Locks \cup {NoLock}]
        BY <1>0, <1>1 DEF Leave, TypeOK
    <2> QED
        BY <1>0, <2>1, <2>2 DEF Leave, TypeOK
<1>7. TableInv'
    <2>1. \A b \in Accounts :
            locks'[b] = IF b = a /\ users[k] = 1 THEN NoLock ELSE locks[b]
        BY <1>0, <1>1 DEF Leave, LastUser, TypeOK
    <2>2. \A d \in Callers : d # c /\ caller[d] # Idle /\ caller[d].account = a
            => users[k] # 1
        BY <1>0, <1>1, <1>4 DEF TableInv
    <2>3. \A d \in Callers :
        \/ caller'[d] = Idle
        \/ /\ caller'[d].pc # "idle"
           /\ caller'[d].account \in Accounts /\ caller'[d].lock \in Locks
           /\ locks'[caller'[d].account] = caller'[d].lock
        BY <1>0, <1>2, <2>1, <2>2 DEF TableInv
    <2>4. \A b \in Accounts : locks'[b] # NoLock => Users(locks[b])' # {}
        <3> SUFFICES ASSUME NEW b \in Accounts, locks'[b] # NoLock
                     PROVE  Users(locks[b]) \ {c} # {} /\ locks'[b] = locks[b]
            BY <1>2
        <3>1. locks'[b] = locks[b] /\ locks[b] \in Locks
            BY <1>0, <2>1 DEF TypeOK
        <3>2. CASE b = a
            BY <1>1, <1>4, <2>1, <3>1, <3>2
        <3>3. CASE b # a
            <4>1. Users(locks[b]) # {} /\ locks[b] # k
                BY <1>0, <1>1, <3>1, <3>3 DEF TableInv
            <4> QED
                BY <3>1, <4>1
        <3> QED
            BY <3>2, <3>3
    <2>5. \A b, e \in Accounts : locks'[b] # NoLock /\ locks'[b] = locks'[e]
            => b = e
        BY <1>0, <2>1 DEF TableInv
    <2> QED
        BY <2>3, <2>4, <2>5 DEF TableInv
<1>8. TokenInv'
    <2>1. token' = token
        BY DEF Leave
    <2>2. \A d \in Callers :
            HasToken(d)' <=> HasToken(d)
        BY <1>1, <1>2
    <2>3. \A d \in Callers : HasToken(d) => caller'[d].lock = caller[d].lock
        BY <1>1, <1>2
    <2>4. \A d, e \in Callers : HasToken(d)' /\ HasToken(e)'
            /\ caller'[d].lock = caller'[e].lock => d = e
        BY <2>2, <2>3 DEF IInv, TokenInv
    <2>5. \A l \in Locks, d \in Callers :
            HasToken(d)' /\ caller'[d].lock = l => ~token'[l]
        BY <2>1, <2>2, <2>3 DEF IInv, TokenInv
    <2>6. \A l \in Locks : Users(l)' # {} /\ ~token'[l] =>
            \E d \in Users(l)' : HasToken(d)'
        BY <1>1, <1>3, <2>1, <2>2 DEF IInv, TokenInv
    <2> QED
        BY <2>4, <2>5, <2>6 DEF TokenInv
<1> QED
    BY <1>5, <1>6, <1>7, <1>8 DEF IInv

(* The inductive invariant holds in every reachable state. *)
THEOREM Invariance == Spec => []IInv
<1>1. Init => IInv
    BY InitInv
<1>2. IInv /\ [Next]_vars => IInv'
    <2> SUFFICES ASSUME IInv, [Next]_vars PROVE IInv'
        OBVIOUS
    <2>1. CASE UNCHANGED vars
        BY <2>1 DEF vars, IInv, TypeOK, CountInv, TableInv, TokenInv
    <2>2. CASE Next
        BY <2>2, JoinStep, MakeStep, TokenStep, LeaveStep DEF Next, Steps
    <2> QED
        BY <2>1, <2>2
<1> QED
    BY <1>1, <1>2, PTL DEF Spec

(* Two callers never own the same account at once, however many calls,
   cancellations and lock objects came before. *)
THEOREM MutualExclusionTheorem == Spec => []MutualExclusion
<1>1. IInv => MutualExclusion
    BY DEF IInv, TypeOK, TableInv, TokenInv, MutualExclusion
<1> QED
    BY <1>1, Invariance, PTL

(* Giving the token back never blocks, and no waiter waits for a token that
   nobody will give back. *)
THEOREM TokenTheorem == Spec => []TokenIsSomewhere
<1>1. IInv => TokenIsSomewhere
    BY DEF IInv, TokenInv, TokenIsSomewhere
<1> QED
    BY <1>1, Invariance, PTL

(* The table leaks no lock and loses none that is in use. *)
THEOREM TableTheorem == Spec => []TableIsExact
<1>1. IInv => TableIsExact
    BY DEF IInv, TableInv, TableIsExact
<1> QED
    BY <1>1, Invariance, PTL

----------------------------------------------------------------------------
(* Refinement. *)

claim == [c \in Callers |-> Claim(c)]

(* A step of one caller changes only what that caller claims. *)
LEMMA ClaimChange ==
    ASSUME NEW c \in Callers,
           \A d \in Callers : d # c => caller'[d] = caller[d]
    PROVE  claim' = [claim EXCEPT ![c] = Claim(c)']
BY DEF claim, Claim

(* Every step of the lock is a step of the mutex or leaves its claims alone. *)
LEMMA RefinementStep ==
    ASSUME IInv, NEW c \in Callers,
           \/ \E a \in Accounts : JoinLock(c, a) \/ \E l \in Locks : MakeLock(c, a, l)
           \/ Steps(c) \/ Cancel(c)
    PROVE  Mutex!Next \/ claim' = claim
<1> USE DEF IInv, TypeOK
<1>0. claim' = [claim EXCEPT ![c] = Claim(c)']
    <2>1. \A d \in Callers : d # c => caller'[d] = caller[d]
        BY DEF JoinLock, MakeLock, Enters, Steps, TakeToken, StopWaiting, Own,
            GiveBack, Leave, Cancel, GoesTo
    <2> QED
        BY <2>1, ClaimChange
<1>1. claim[c] = Claim(c)
    BY DEF claim
<1>2. Claim(c)' = Claim(c) => claim' = claim
    BY <1>0, <1>1 DEF claim
<1>3. ASSUME NEW a \in Accounts,
             JoinLock(c, a) \/ \E l \in Locks : MakeLock(c, a, l)
      PROVE  Mutex!Ask(c, a)
    <2>1. Claim(c) = Mutex!NoClaim
        BY <1>3 DEF JoinLock, MakeLock, Claim, Mutex!NoClaim
    <2>2. Claim(c)' = [phase |-> "waiting", account |-> a]
        BY <1>3 DEF JoinLock, MakeLock, Enters, Claim
    <2> QED
        BY <1>0, <1>1, <2>1, <2>2 DEF Mutex!Ask, claim
<1>4. CASE TakeToken(c)
    <2> DEFINE a == caller[c].account
    <2>1. a \in Accounts /\ caller[c].lock \in Locks
        BY <1>4 DEF TakeToken, TableInv
    <2>2. Claim(c) = [phase |-> "waiting", account |-> a]
        BY <1>4 DEF TakeToken, Claim
    <2>3. Claim(c)' = [phase |-> "holding", account |-> a]
        BY <1>4 DEF TakeToken, GoesTo, Claim
    <2>4. ~Mutex!Held(a)
        <3> SUFFICES ASSUME NEW d \in Callers,
                            Claim(d) = [phase |-> "holding", account |-> a]
                     PROVE  FALSE
            BY DEF Mutex!Held
        <3>1. HasToken(d) /\ caller[d].account = a
            BY DEF Claim
        <3>2. caller[d].lock = caller[c].lock
            BY <1>4, <2>1, <3>1 DEF TableInv, TakeToken
        <3> QED
            BY <1>4, <2>1, <3>1, <3>2 DEF TokenInv, TakeToken
    <2>5. Mutex!Grant(c, a)
        BY <1>0, <1>1, <2>2, <2>3, <2>4 DEF Mutex!Grant, claim
    <2> QED
        BY <2>1, <2>5 DEF Mutex!Next
<1>5. CASE StopWaiting(c) \/ GiveBack(c)
    <2>1. Claim(c)' = Mutex!NoClaim
        BY <1>5 DEF StopWaiting, GiveBack, GoesTo, Claim, Mutex!NoClaim
    <2>2. Claim(c) # Mutex!NoClaim
        BY <1>5 DEF StopWaiting, GiveBack, MayGiveBack, Claim, Mutex!NoClaim
    <2> QED
        BY <1>0, <1>1, <2>1, <2>2 DEF Mutex!Next, Mutex!Quit, claim
<1>6. CASE Own(c) \/ Leave(c) \/ Cancel(c)
    <2>1. Claim(c)' = Claim(c)
        BY <1>6 DEF Own, Leave, Cancel, GoesTo, Claim
    <2> QED
        BY <1>2, <2>1
<1> QED
    BY <1>3, <1>4, <1>5, <1>6 DEF Steps, Mutex!Next

(* The reference-counted lock implements the mutex: what logins need of an
   account lock, they get. *)
THEOREM Refinement == Spec => ImplementsMutex
<1>1. Init => Mutex!Init
    BY DEF Init, Mutex!Init, Mutex!NoClaim, Claim
<1>2. IInv /\ [Next]_vars => [Mutex!Next]_claim
    <2> SUFFICES ASSUME IInv, [Next]_vars PROVE Mutex!Next \/ claim' = claim
        OBVIOUS
    <2>1. CASE UNCHANGED vars
        BY <2>1 DEF vars, claim, Claim
    <2>2. CASE Next
        BY <2>2, RefinementStep DEF Next
    <2> QED
        BY <2>1, <2>2
<1> QED
    BY <1>1, <1>2, Invariance, PTL
        DEF Spec, ImplementsMutex, Mutex!Spec, claim

=============================================================================
