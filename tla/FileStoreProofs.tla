--------------------------- MODULE FileStoreProofs ---------------------------
(***************************************************************************)
(* Proofs about FileStore, for any users, any deadlines and any number of  *)
(* crashes and power failures.                                             *)
(***************************************************************************)
EXTENDS FileStore, FiniteSetTheorems, TLAPS

UserTypes == [pc : PCs, deadline : Deadlines \cup {0},
              tmp : {"none", "empty", "written", "synced"}]

(* The holder of the lock file is the one user inside the lock. *)
LockInv ==
    \A u \in Users : holder = u <=> user[u].pc \in Saving \cup {"close"}

(* Whatever file the name may refer to is whole, no newer than what processes
   see, and no older than what was reported. *)
FileInv ==
    /\ entry \in onDisk
    /\ \A file \in onDisk :
        /\ file.synced /\ file.deadline # Corrupt
        /\ reported <= file.deadline /\ file.deadline <= entry.deadline

(* What a user holds in its temporary file, against the entry. *)
UserInv ==
    \A u \in Users :
        /\ user[u].tmp # "none" => user[u].pc \in {"write", "sync", "rename"}
        /\ user[u].pc = "rename" => user[u].tmp = "synced"
        /\ user[u].pc \in {"create", "write", "sync", "rename"} =>
                entry.deadline <= user[u].deadline
        /\ user[u].pc = "syncdir" => user[u].deadline = entry.deadline

IInv == TypeOK /\ LockInv /\ FileInv /\ UserInv /\ left <= failures

(* The steps that change nothing but their user's variables and the lock. *)
QuietSteps(u) ==
    \/ \E d \in Deadlines : Call(u, d)
    \/ LockSteps(u) \/ Close(u)
    \/ Load(u) \/ CreateTemp(u) \/ Write(u) \/ Sync(u) \/ SaveFails(u)

(* Deadlines are numbers, and so is whatever a readable file holds. *)
LEMMA Numbers ==
    ASSUME NEW d \in Deadlines \cup {0} PROVE d \in Nat
    BY FileStoreAssumption

LEMMA FileNumbers ==
    ASSUME NEW file \in Files, file.deadline # Corrupt
    PROVE  file.deadline \in Deadlines \cup {0} /\ file.deadline \in Nat
<1>1. file.deadline \in Deadlines \cup {0, Corrupt}
    BY DEF Files
<1>2. file.deadline \in Deadlines \cup {0}
    BY <1>1
<1> QED
    BY <1>2, Numbers

(* An empty store satisfies the invariant. *)
LEMMA InitInv == Init => IInv
<1> SUFFICES ASSUME Init PROVE IInv
    OBVIOUS
<1>1. TypeOK
    BY DEF Init, TypeOK, NoFile, Files, Idle, PCs
<1>2. LockInv
    BY FileStoreAssumption DEF Init, LockInv, Idle, Saving
<1>3. FileInv
    BY DEF Init, FileInv, NoFile, Corrupt
<1>4. UserInv
    BY DEF Init, UserInv, Idle
<1>5. left <= failures
    BY DEF Init
<1> QED
    BY <1>1, <1>2, <1>3, <1>4, <1>5 DEF IInv

(* The steps of Next, sorted by what they write. *)
LEMMA StepCases ==
    ASSUME [Next]_vars
    PROVE  \/ UNCHANGED vars
           \/ \E u \in Users : QuietSteps(u) \/ Rename(u) \/ SyncDirectory(u)
                                \/ Crash(u)
           \/ PowerFailure
    BY DEF Next, QuietSteps, HolderSteps

(* What a quiet step does to its user. *)
QuietEffect(u, v) ==
    /\ v \in UserTypes
    /\ v.tmp # "none" => v.pc \in {"write", "sync", "rename"}
    /\ v.pc = "rename" => v.tmp = "synced"
    /\ v.pc \in {"create", "write", "sync", "rename"} =>
            entry.deadline <= v.deadline
    /\ v.pc # "syncdir"
    /\ user' = [user EXCEPT ![u] = v]
    /\ \/ /\ v.pc \in Saving \cup {"close"}
          /\ holder = u /\ holder' = u
       \/ /\ v.pc \in Saving \cup {"close"}
          /\ holder = NoUser /\ holder' = u
       \/ /\ v.pc \notin Saving \cup {"close"}
          /\ holder' = IF holder = u THEN NoUser ELSE holder
    /\ UNCHANGED <<entry, onDisk, left, failures, reported>>


(* Every quiet step has such an effect. *)
LEMMA QuietStepEffect ==
    ASSUME IInv, NEW u \in Users, QuietSteps(u)
    PROVE  \E v \in UserTypes : QuietEffect(u, v)
<1> DEFINE With(v) == v \in UserTypes /\ QuietEffect(u, v)
<1> SUFFICES \E v : With(v)
    OBVIOUS
<1>1. /\ user \in [Users -> UserTypes] /\ user[u] \in UserTypes
      /\ entry \in Files /\ entry.deadline # Corrupt
      /\ entry.deadline \in Deadlines \cup {0} /\ entry.deadline \in Nat
      /\ user[u].deadline \in Deadlines \cup {0} /\ user[u].deadline \in Nat
    <2>1. user \in [Users -> UserTypes] /\ user[u] \in UserTypes /\ entry \in Files
        BY DEF IInv, TypeOK, UserTypes
    <2>2. entry.deadline # Corrupt
        BY DEF IInv, FileInv
    <2>3. user[u].deadline \in Deadlines \cup {0}
        BY <2>1 DEF UserTypes
    <2> QED
        BY <2>1, <2>2, <2>3, FileNumbers, Numbers
<1>2. /\ holder = u <=> user[u].pc \in Saving \cup {"close"}
      /\ user[u].tmp # "none" => user[u].pc \in {"write", "sync", "rename"}
      /\ user[u].pc \in {"create", "write", "sync", "rename"} =>
              entry.deadline <= user[u].deadline
    BY DEF IInv, LockInv, UserInv
<1>a. NoUser # u
    BY FileStoreAssumption
<1>3. ASSUME NEW d \in Deadlines, Call(u, d) PROVE \E v : With(v)
    <2>1. With([Idle EXCEPT !.pc = "try", !.deadline = d])
        BY <1>1, <1>2, <1>3 DEF Call, Idle, QuietEffect, UserTypes, PCs, Saving
    <2> QED
        BY <2>1
<1>4. CASE TryLock(u)
    <2>1. With([user[u] EXCEPT !.pc = "load"])
        BY <1>1, <1>2, <1>4 DEF TryLock, LockFree, GoesTo, QuietEffect, UserTypes,
            PCs, Saving
    <2> QED
        BY <2>1
<1>5. CASE LockBusy(u)
    <2>1. With([user[u] EXCEPT !.pc = "poll"])
        BY <1>1, <1>2, <1>5 DEF LockBusy, GoesTo, QuietEffect, UserTypes,
            PCs, Saving
    <2> QED
        BY <2>1
<1>6. CASE PollAgain(u)
    <2>1. With([user[u] EXCEPT !.pc = "try"])
        BY <1>1, <1>2, <1>6 DEF PollAgain, GoesTo, QuietEffect, UserTypes,
            PCs, Saving
    <2> QED
        BY <2>1
<1>7. CASE LockFails(u) \/ Close(u)
    <2>1. With(Idle)
        BY <1>1, <1>2, <1>7 DEF LockFails, Close, Idle, QuietEffect, UserTypes,
            PCs, Saving
    <2> QED
        BY <2>1
<1>8. CASE Load(u)
    <2>1. /\ Later(u) \in Deadlines \cup {0}
          /\ entry.deadline <= Later(u)
        BY <1>1 DEF Later, MaxOf
    <2>2. With([user[u] EXCEPT !.pc = "create", !.deadline = Later(u)])
        BY <1>1, <1>2, <1>8, <2>1 DEF Load, QuietEffect, UserTypes, PCs, Saving
    <2> QED
        BY <2>2
<1>9. CASE CreateTemp(u)
    <2>1. With([user[u] EXCEPT !.pc = "write", !.tmp = "empty"])
        BY <1>1, <1>2, <1>9 DEF CreateTemp, QuietEffect, UserTypes, PCs, Saving
    <2> QED
        BY <2>1
<1>10. CASE Write(u)
    <2>1. With([user[u] EXCEPT !.pc = "sync", !.tmp = "written"])
        BY <1>1, <1>2, <1>10 DEF Write, QuietEffect, UserTypes, PCs, Saving
    <2> QED
        BY <2>1
<1>11. CASE Sync(u)
    <2>1. With([user[u] EXCEPT !.pc = "rename", !.tmp = "synced"])
        BY <1>1, <1>2, <1>11 DEF Sync, QuietEffect, UserTypes, PCs, Saving
    <2> QED
        BY <2>1
<1>12. CASE SaveFails(u)
    <2>1. With([user[u] EXCEPT !.pc = "close", !.tmp = "none"])
        BY <1>1, <1>2, <1>12 DEF SaveFails, QuietEffect, UserTypes, PCs, Saving
    <2> QED
        BY <2>1
<1> QED
    BY <1>3, <1>4, <1>5, <1>6, <1>7, <1>8, <1>9, <1>10, <1>11, <1>12
        DEF QuietSteps, LockSteps

(* The invariant, without the files: what the steps that leave the entry alone
   have to show. *)
LEMMA QuietStep ==
    ASSUME IInv, NEW u \in Users, QuietSteps(u)
    PROVE  IInv' /\ UNCHANGED <<entry, reported>>
<1>1. PICK v \in UserTypes : QuietEffect(u, v)
    BY QuietStepEffect
<1>2. /\ user \in [Users -> UserTypes] /\ holder \in Users \cup {NoUser}
      /\ \A w \in Users : user'[w] = IF w = u THEN v ELSE user[w]
      /\ user' \in [Users -> UserTypes]
      /\ UNCHANGED <<entry, onDisk, left, failures, reported>>
    BY <1>1 DEF IInv, TypeOK, UserTypes, QuietEffect
<1>3. TypeOK'
    <2>1. holder' \in Users \cup {NoUser}
        BY <1>1, <1>2 DEF QuietEffect
    <2> QED
        BY <1>2, <2>1 DEF IInv, TypeOK, UserTypes
<1>4. LockInv'
    <2> SUFFICES ASSUME NEW w \in Users
                 PROVE  holder' = w <=> user'[w].pc \in Saving \cup {"close"}
        BY DEF LockInv
    <2>1. /\ holder = w <=> user[w].pc \in Saving \cup {"close"}
          /\ w # NoUser /\ u # NoUser
        BY FileStoreAssumption DEF IInv, LockInv
    <2> QED
        BY <1>1, <1>2, <2>1 DEF QuietEffect
<1>5. FileInv'
    BY <1>2 DEF IInv, FileInv
<1>6. UserInv'
    <2> SUFFICES ASSUME NEW w \in Users
                 PROVE  /\ user'[w].tmp # "none" =>
                              user'[w].pc \in {"write", "sync", "rename"}
                        /\ user'[w].pc = "rename" => user'[w].tmp = "synced"
                        /\ user'[w].pc \in {"create", "write", "sync", "rename"} =>
                              entry.deadline <= user'[w].deadline
                        /\ user'[w].pc = "syncdir" =>
                              user'[w].deadline = entry.deadline
        BY <1>2 DEF UserInv
    <2>1. CASE w = u
        BY <1>1, <1>2, <2>1 DEF QuietEffect
    <2>2. CASE w # u
        BY <1>2, <2>2 DEF IInv, UserInv
    <2> QED
        BY <2>1, <2>2
<1> QED
    BY <1>2, <1>3, <1>4, <1>5, <1>6 DEF IInv

(* The numbers of a state that satisfies the invariant. *)
LEMMA InvNumbers ==
    ASSUME IInv
    PROVE  /\ \A file \in onDisk : file \in Files /\ file.deadline \in Deadlines \cup {0}
                                   /\ file.deadline \in Nat
           /\ entry \in Files /\ entry.deadline \in Deadlines \cup {0}
           /\ entry.deadline \in Nat /\ reported \in Nat
           /\ \A u \in Users : /\ user[u].deadline \in Deadlines \cup {0}
                               /\ user[u].deadline \in Nat
<1>1. \A file \in onDisk : file \in Files /\ file.deadline # Corrupt
    BY DEF IInv, TypeOK, FileInv
<1>2. entry \in onDisk /\ reported \in Deadlines \cup {0}
    BY DEF IInv, TypeOK, FileInv
<1>3. \A u \in Users : user[u].deadline \in Deadlines \cup {0}
    BY DEF IInv, TypeOK
<1>4. \A file \in onDisk : /\ file \in Files /\ file.deadline \in Deadlines \cup {0}
                          /\ file.deadline \in Nat
    BY <1>1, FileNumbers
<1> QED
    BY <1>2, <1>3, <1>4, Numbers

(* The new entry is whole and no older than the one it replaces. *)
LEMMA RenameStep ==
    ASSUME IInv, NEW u \in Users, Rename(u)
    PROVE  /\ IInv' /\ UNCHANGED reported
           /\ entry.deadline \in Nat /\ entry'.deadline \in Nat
           /\ entry.deadline <= entry'.deadline
<1> DEFINE new == [deadline |-> user[u].deadline, synced |-> TRUE]
           v == [user[u] EXCEPT !.pc = "syncdir", !.tmp = "none"]
<1>1. /\ user[u].pc = "rename" /\ user[u].tmp = "synced"
      /\ entry.deadline <= user[u].deadline
    BY DEF Rename, IInv, UserInv
<1>2. /\ entry' = new /\ onDisk' = onDisk \cup {new}
      /\ user' = [user EXCEPT ![u] = v]
      /\ UNCHANGED <<holder, left, failures, reported>>
    BY <1>1 DEF Rename, IInv, TypeOK
<1>3. /\ user \in [Users -> UserTypes] /\ user[u] \in UserTypes
      /\ new \in Files /\ new.deadline \in Nat /\ new.synced
      /\ new.deadline = user[u].deadline /\ new.deadline # Corrupt
    BY InvNumbers DEF IInv, TypeOK, UserTypes, Files, Corrupt
<1>4. /\ v \in UserTypes /\ v.pc = "syncdir" /\ v.tmp = "none"
      /\ v.deadline = user[u].deadline
    BY <1>3 DEF UserTypes, PCs, Saving
<1>5. \A w \in Users : user'[w] = IF w = u THEN v ELSE user[w]
    BY <1>2, <1>3
<1>6. TypeOK'
    <2>1. user' \in [Users -> UserTypes]
        BY <1>2, <1>3, <1>4
    <2>2. entry' \in Files /\ onDisk' \subseteq Files
        BY <1>2, <1>3 DEF IInv, TypeOK
    <2> QED
        BY <1>2, <2>1, <2>2 DEF IInv, TypeOK, UserTypes
<1>7. LockInv'
    <2>1. "rename" \in Saving /\ "syncdir" \in Saving
        BY DEF Saving
    <2> QED
        BY <1>1, <1>2, <1>4, <1>5, <2>1 DEF IInv, LockInv
<1>8. FileInv'
    <2>1. reported <= entry.deadline /\ \A file \in onDisk :
              /\ file.synced /\ file.deadline # Corrupt /\ file.deadline \in Nat
              /\ reported <= file.deadline /\ file.deadline <= entry.deadline
        BY InvNumbers DEF IInv, FileInv
    <2>2. entry.deadline \in Nat /\ reported \in Nat
        BY InvNumbers
    <2>3. \A file \in onDisk' :
              /\ file.synced /\ file.deadline # Corrupt
              /\ reported <= file.deadline /\ file.deadline <= new.deadline
        <3> SUFFICES ASSUME NEW file \in onDisk'
                     PROVE  /\ file.synced /\ file.deadline # Corrupt
                            /\ reported <= file.deadline
                            /\ file.deadline <= new.deadline
            OBVIOUS
        <3>1. CASE file \in onDisk
            BY <1>1, <1>3, <2>1, <2>2, <3>1
        <3>2. CASE file = new
            BY <1>1, <1>3, <2>1, <2>2, <3>2
        <3> QED
            BY <1>2, <3>1, <3>2
    <2> QED
        BY <1>2, <2>3 DEF FileInv
<1>9. UserInv'
    <2> SUFFICES ASSUME NEW w \in Users
                 PROVE  /\ user'[w].tmp # "none" =>
                              user'[w].pc \in {"write", "sync", "rename"}
                        /\ user'[w].pc = "rename" => user'[w].tmp = "synced"
                        /\ user'[w].pc \in {"create", "write", "sync", "rename"} =>
                              entry'.deadline <= user'[w].deadline
                        /\ user'[w].pc = "syncdir" =>
                              user'[w].deadline = entry'.deadline
        BY DEF UserInv
    <2>1. CASE w = u
        BY <1>2, <1>3, <1>4, <1>5, <2>1
    <2>2. CASE w # u
        <3>1. user'[w] = user[w]
            BY <1>5, <2>2
        <3>2. holder = u
            BY <1>1 DEF IInv, LockInv, Saving
        <3>3. user[w].pc \notin Saving
            BY <2>2, <3>2 DEF IInv, LockInv
        <3> QED
            BY <3>1, <3>3 DEF IInv, UserInv, Saving
    <2> QED
        BY <2>1, <2>2
<1> QED
    BY <1>1, <1>2, <1>3, <1>6, <1>7, <1>8, <1>9, InvNumbers DEF IInv

(* Once the directory is synced, its entry is the only one it can have. *)
LEMMA SyncDirectoryStep ==
    ASSUME IInv, NEW u \in Users, SyncDirectory(u)
    PROVE  /\ IInv' /\ UNCHANGED entry
           /\ entry.deadline \in Nat /\ reported \in Nat /\ reported' \in Nat
           /\ reported <= reported' /\ reported' <= entry.deadline
<1> DEFINE v == [user[u] EXCEPT !.pc = "close"]
<1>1. /\ user[u].pc = "syncdir" /\ user[u].deadline = entry.deadline
      /\ onDisk' = {entry} /\ reported' = MaxOf(reported, entry.deadline)
      /\ user' = [user EXCEPT ![u] = v]
      /\ UNCHANGED <<entry, holder, left, failures>>
    <2>1. user[u].deadline = entry.deadline
        BY DEF SyncDirectory, IInv, UserInv
    <2>2. user' = [user EXCEPT ![u] = v]
        BY DEF SyncDirectory, GoesTo, IInv, TypeOK
    <2> QED
        BY <2>1, <2>2 DEF SyncDirectory
<1>2. /\ user \in [Users -> UserTypes] /\ user[u] \in UserTypes
      /\ entry.deadline \in Nat /\ reported \in Nat
      /\ reported <= entry.deadline
      /\ entry.synced /\ entry.deadline # Corrupt
    BY InvNumbers DEF IInv, TypeOK, UserTypes, FileInv
<1>3. reported' = entry.deadline
    BY <1>1, <1>2 DEF MaxOf
<1>4. v \in UserTypes /\ v.pc = "close" /\ v.tmp = user[u].tmp
    BY <1>2 DEF UserTypes, PCs
<1>5. \A w \in Users : user'[w] = IF w = u THEN v ELSE user[w]
    BY <1>1, <1>2
<1>6. TypeOK'
    <2>1. user' \in [Users -> UserTypes]
        BY <1>1, <1>2, <1>4
    <2>2. reported' \in Deadlines \cup {0}
        BY <1>3, InvNumbers
    <2> QED
        BY <1>1, <2>1, <2>2 DEF IInv, TypeOK, UserTypes
<1>7. LockInv'
    BY <1>1, <1>4, <1>5 DEF IInv, LockInv, Saving
<1>8. FileInv'
    BY <1>1, <1>2, <1>3 DEF FileInv
<1>9. UserInv'
    BY <1>1, <1>4, <1>5 DEF IInv, UserInv
<1> QED
    BY <1>1, <1>2, <1>3, <1>6, <1>7, <1>8, <1>9 DEF IInv

(* A process that dies leaves the entry alone and at most one file behind. *)
LEMMA CrashStep ==
    ASSUME IInv, NEW u \in Users, Crash(u)
    PROVE  IInv' /\ UNCHANGED <<entry, reported>>
<1>1. /\ user' = [user EXCEPT ![u] = Idle] /\ failures' = failures + 1
      /\ holder' = IF holder = u THEN NoUser ELSE holder
      /\ left' = left \/ left' = left + 1
      /\ UNCHANGED <<entry, onDisk, reported>>
    <2>1. left \in Nat
        BY DEF IInv, TypeOK
    <2> QED
        BY <2>1 DEF Crash
<1>2. /\ user \in [Users -> UserTypes] /\ left \in Nat /\ failures \in Nat
      /\ left <= failures
    BY DEF IInv, TypeOK, UserTypes
<1>3. Idle \in UserTypes /\ Idle.pc = "idle" /\ Idle.tmp = "none"
    BY DEF Idle, UserTypes, PCs
<1>4. \A w \in Users : user'[w] = IF w = u THEN Idle ELSE user[w]
    BY <1>1, <1>2
<1>5. TypeOK'
    <2>1. user' \in [Users -> UserTypes]
        BY <1>1, <1>2, <1>3
    <2>2. left' \in Nat /\ failures' \in Nat
        BY <1>1, <1>2
    <2> QED
        BY <1>1, <2>1, <2>2 DEF IInv, TypeOK, UserTypes
<1>6. LockInv'
    BY <1>1, <1>3, <1>4, FileStoreAssumption DEF IInv, LockInv, Saving
<1>7. FileInv'
    BY <1>1 DEF IInv, FileInv
<1>8. UserInv'
    BY <1>1, <1>3, <1>4 DEF IInv, UserInv
<1>9. left' <= failures'
    BY <1>1, <1>2
<1> QED
    BY <1>1, <1>5, <1>6, <1>7, <1>8, <1>9 DEF IInv

(* A power failure brings back a whole entry, not older than reported. *)
LEMMA PowerFailureStep ==
    ASSUME IInv, PowerFailure
    PROVE  /\ IInv' /\ UNCHANGED reported
           /\ entry.deadline \in Nat /\ entry'.deadline \in Nat /\ reported \in Nat
           /\ reported <= entry'.deadline /\ entry'.deadline <= entry.deadline
<1>1. PICK file \in onDisk : entry' = AfterPowerFailure(file)
    BY DEF PowerFailure
<1>2. /\ file.synced /\ file.deadline # Corrupt /\ file.deadline \in Nat
      /\ file.deadline \in Deadlines \cup {0}
      /\ reported <= file.deadline /\ file.deadline <= entry.deadline
      /\ entry.deadline \in Nat /\ reported \in Nat
    BY InvNumbers DEF IInv, FileInv
<1>3. entry' = [deadline |-> file.deadline, synced |-> TRUE]
    BY <1>1, <1>2 DEF AfterPowerFailure
<1>4. /\ onDisk' = {entry'} /\ holder' = NoUser /\ failures' = failures + 1
      /\ user' = [w \in Users |-> Idle] /\ UNCHANGED reported
      /\ left' = left \/ left' = left + 1
    <2>1. left \in Nat
        BY DEF IInv, TypeOK
    <2> QED
        BY <2>1 DEF PowerFailure
<1>5. left \in Nat /\ failures \in Nat /\ left <= failures
    BY DEF IInv, TypeOK
<1>6. Idle \in UserTypes /\ Idle.pc = "idle" /\ Idle.tmp = "none"
    BY DEF Idle, UserTypes, PCs
<1>7. TypeOK'
    <2>1. entry' \in Files
        BY <1>2, <1>3 DEF Files
    <2>2. left' \in Nat /\ failures' \in Nat
        BY <1>4, <1>5
    <2>3. user' \in [Users -> UserTypes]
        BY <1>4, <1>6
    <2> QED
        BY <1>4, <2>1, <2>2, <2>3 DEF IInv, TypeOK, UserTypes
<1>8. LockInv'
    BY <1>4, <1>6, FileStoreAssumption DEF LockInv, Saving
<1>9. FileInv'
    BY <1>2, <1>3, <1>4 DEF FileInv
<1>10. UserInv'
    BY <1>4, <1>6 DEF UserInv
<1>11. left' <= failures'
    BY <1>4, <1>5
<1> QED
    BY <1>2, <1>3, <1>4, <1>7, <1>8, <1>9, <1>10, <1>11 DEF IInv

(* Every step preserves the invariant and is a step of the abstract marker. *)
LEMMA NextInv ==
    ASSUME IInv, [Next]_vars
    PROVE  IInv' /\ [Marker!Next]_<<entry.deadline, reported>>
<1>1. CASE UNCHANGED vars
    BY <1>1 DEF vars, IInv, TypeOK, LockInv, FileInv, UserInv
<1>2. ASSUME NEW u \in Users, QuietSteps(u)
      PROVE  IInv' /\ [Marker!Next]_<<entry.deadline, reported>>
    BY <1>2, QuietStep
<1>3. ASSUME NEW u \in Users, Rename(u)
      PROVE  IInv' /\ [Marker!Next]_<<entry.deadline, reported>>
    <2>1. entry'.deadline > entry.deadline \/ entry'.deadline = entry.deadline
        BY <1>3, RenameStep
    <2> QED
        BY <1>3, <2>1, RenameStep DEF Marker!Next, Marker!Raise
<1>4. ASSUME NEW u \in Users, SyncDirectory(u)
      PROVE  IInv' /\ [Marker!Next]_<<entry.deadline, reported>>
    <2>1. reported' > reported \/ reported' = reported
        BY <1>4, SyncDirectoryStep
    <2> QED
        BY <1>4, <2>1, SyncDirectoryStep DEF Marker!Next, Marker!Report
<1>5. ASSUME NEW u \in Users, Crash(u)
      PROVE  IInv' /\ [Marker!Next]_<<entry.deadline, reported>>
    BY <1>5, CrashStep
<1>6. CASE PowerFailure
    <2>1. entry'.deadline < entry.deadline \/ entry'.deadline = entry.deadline
        BY <1>6, PowerFailureStep
    <2> QED
        BY <1>6, <2>1, PowerFailureStep DEF Marker!Next, Marker!Forget
<1> QED
    BY <1>1, <1>2, <1>3, <1>4, <1>5, <1>6, StepCases

(* The invariant holds throughout, so every value keeps its type. *)
THEOREM Invariance == Spec => []IInv
<1>1. Init => IInv
    BY InitInv
<1>2. IInv /\ [Next]_vars => IInv'
    BY NextInv
<1> QED
    BY <1>1, <1>2, PTL DEF Spec

(* The entry can be read at any time, also after any failure. *)
THEOREM EntryReadableTheorem == Spec => []EntryReadable
<1>1. IInv => EntryReadable
    BY DEF IInv, FileInv, EntryReadable, AfterPowerFailure
<1> QED
    BY <1>1, Invariance, PTL

(* Only the holder of the lock has a temporary file, failures leave one each. *)
THEOREM TemporariesTheorem == Spec => []TemporariesBounded
<1> DEFINE temps == {u \in Users : user[u].tmp # "none"}
<1>1. IInv => TemporariesBounded
    <2> SUFFICES ASSUME IInv
                 PROVE  left + Cardinality(temps)
                            <= failures + IF holder = NoUser THEN 0 ELSE 1
        BY DEF TemporariesBounded
    <2>1. /\ left \in Nat /\ failures \in Nat /\ left <= failures
          /\ holder \in Users \cup {NoUser}
        BY DEF IInv, TypeOK
    <2>2. \A u \in temps : u = holder
        BY DEF IInv, UserInv, LockInv, Saving
    <2>3. CASE holder = NoUser
        <3>1. temps = {}
            BY <2>2, <2>3, FileStoreAssumption
        <3>2. Cardinality(temps) = 0
            BY <3>1, FS_EmptySet
        <3> QED
            BY <2>1, <2>3, <3>2
    <2>4. CASE holder # NoUser
        <3>1. temps \subseteq {holder}
            BY <2>2
        <3>2. IsFiniteSet({holder}) /\ Cardinality({holder}) = 1
            BY FS_Singleton
        <3>3. Cardinality(temps) \in Nat /\ Cardinality(temps) <= 1
            BY <3>1, <3>2, FS_Subset, FS_CardinalityType
        <3> QED
            BY <2>1, <2>4, <3>3
    <2> QED
        BY <2>3, <2>4
<1> QED
    BY <1>1, Invariance, PTL

(* The store implements the abstract marker: a deadline only moves later, and
   one that was reported saved survives every failure. *)
THEOREM Refinement == Spec => ImplementsMarker
<1>1. Init => Marker!Init
    BY DEF Init, Marker!Init, NoFile
<1>2. IInv /\ [Next]_vars => [Marker!Next]_<<entry.deadline, reported>>
    BY NextInv
<1> QED
    BY <1>1, <1>2, Invariance, PTL DEF Spec, ImplementsMarker, Marker!Spec

=============================================================================
