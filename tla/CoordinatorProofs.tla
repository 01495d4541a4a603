-------------------------- MODULE CoordinatorProofs --------------------------
(* Theorems about Coordinator, for all accounts, modes, stores and numbers of *)
(* disturbances: the user's login is looked at before it is overwritten, an   *)
(* account is injected only under its lease, and its live credential survives *)
(* being injected anew.                                                       *)
EXTENDS Coordinator, FiniteSetTheorems, TLAPS

\* Where the goroutine works on an account that it has not leased yet, that
\* it has leased, and that is in Claude Code's store.
Targeting == {"push", "pushed", "lease", "acquire", "compare", "snapshot",
              "write", "record", "save", "sidecar"}
Leased == {"compare", "snapshot", "write", "record"}

JobTypes ==
    /\ job \in [account : Accounts \cup {None}, token : Token \cup {None},
                active : BOOLEAN]
    /\ pc \in Targeting => job.account \in Accounts /\ job.token \in Token

DataTypes ==
    /\ current \in Accounts \cup {None}
    /\ keychain \in Token \cup {None}
    /\ backup \in Token \cup {None, NoBackup}
    /\ stateFile \in [account : Accounts \cup {None}, token : Token \cup {None}]
    /\ row \in [Accounts -> Token]
    /\ live \in [Logins -> 0 .. MaxGen]
    /\ eligible \subseteq Accounts
    /\ busy \in BOOLEAN

Types == JobTypes /\ DataTypes

\* The types that no other part of the state depends on, and what the order of
\* use and the leases of other devices are.
OtherTypes ==
    /\ pc \in {"off", "wait", "boot", "push", "pushed", "gate", "choose", "pick",
              "lease", "acquire", "compare", "snapshot", "write", "record",
              "save", "sidecar"}
    /\ quit \in {"no", "restore", "release", "clear", "exit", "done"}
    /\ booting \in BOOLEAN /\ sidecar \in BOOLEAN /\ auto \in BOOLEAN
    /\ {lease, mine, pin} \subseteq Accounts \cup {None}
    /\ injected \in Token \cup {None}
    /\ fresh \subseteq Accounts /\ foreign \subseteq Accounts /\ mine \notin foreign
    /\ lru \in Orders /\ left \in 0 .. MaxDisturbances
    /\ happened \subseteq Disturbances

\* Until there is a backup nothing was injected: the store holds no credential
\* of the pool, no account is in hand or on disk, and no row was overwritten,
\* so that a credential found in a row is not the user's.
BackupInv ==
    Without({"disk"}) /\ backup = NoBackup =>
        /\ keychain # None => keychain.of \notin Accounts
        /\ current = None /\ stateFile.account = None
        /\ pc \notin {"push", "pushed", "write", "record", "save", "sidecar"}
        /\ \A a \in Accounts : row[a].of = a

\* The lease in hand is that of the target between the acquire and the record,
\* and that of the account in hand otherwise.
LeaseInv ==
    /\ quit # "no" => "quit" \in happened
    /\ pc = "off" => lease = None
    /\ Without({"disk"}) =>
         /\ pc \in Leased => lease \in {job.account, None}
         /\ pc \notin Leased =>
              lease = None \/ current = None \/ lease = current
    /\ Without({"disk", "lapse", "quit"}) /\ pc \in Leased \ {"record"}
         => mine = job.account

\* Before the first stop and without a login of the user, the credential in the
\* store was issued to the account in hand, or to the target once it is written.
RowsInv ==
    Without({"crash", "quit", "login"}) =>
        /\ quit = "no"
        /\ pc = "off" => stateFile.account = None
        /\ pc \in Targeting => job.token.of = job.account
        /\ keychain # None =>
             IF pc = "record" THEN keychain.of = job.account
                              ELSE current = None \/ keychain.of = current
        /\ RowsKeepIdentity

\* Until tokens are rotated, a credential of the pool in the store is in a row,
\* where isFoxyOwned finds it.
OwnedInv ==
    Without({"rotate", "refresh", "network"}) =>
        /\ backup \in Token => backup.of = Native
        /\ keychain # None /\ keychain.of # Native => Owned
        /\ pc \in {"lease", "acquire", "compare", "snapshot", "write"}
             => row[job.account] = job.token
        /\ pc = "push" =>
             keychain \in {job.token, None} \/ keychain.of = Native

\* With auto-switch off and no pins, the target is the account in hand or one
\* that was never used.
ManualInv ==
    /\ pc = "off" => current = None
    /\ ~ auto /\ Without({"mode", "settings", "pin", "anypin"}) =>
         /\ pin = None /\ fresh \subseteq NeverUsed /\ pc # "pick"
         /\ pc \in Targeting =>
              current \in {None, job.account} \/ job.account \in NeverUsed

\* A login accepts no generation older than one that was handed out.
NotAhead(t) == t # None => t.gen <= live[t.of]

\* What the goroutine is about to inject is the live credential only if it is
\* the row's, and so is what is in the store while an account is chosen.
TurnInv ==
    /\ pc \in {"pushed", "lease", "acquire", "compare", "snapshot", "write",
               "record", "save"} /\ job.token = Current(job.account)
         => row[job.account] = job.token
    /\ pc \in {"pushed", "lease", "acquire", "compare", "snapshot", "write",
               "record"} /\ keychain = Current(job.account)
         => row[job.account] = job.token
    /\ pc \in {"snapshot", "write"} /\ current = job.account
         => keychain # Current(current)

\* A live credential in the store that the row does not have is one that was
\* injected before and rotated since: reverseSync pushes it, and nothing else
\* in memory stands for it.
MemoryInv ==
    /\ pc \in {"push", "pushed"} => current = job.account /\ keychain # None
    /\ pc = "push" /\ keychain = stateFile.token => job.token = keychain
    /\ pc = "boot" => current = stateFile.account /\ injected = stateFile.token
    /\ pc \notin {"off", "boot", "push", "pushed", "record"}
         /\ current # None /\ keychain = Current(current)
         => row[current] = injected

\* The same of injected.json, which the next start reads: while a push is under
\* way, or was cut short, the store may have moved on from it.
FileInv ==
    /\ stateFile.account # None /\ stateFile.token = Current(stateFile.account)
    /\ pc \in {"off", "boot", "push", "pushed"}
         => keychain \in {None, stateFile.token}
    => row[stateFile.account] = stateFile.token

Rotations ==
    /\ quit = "no"
    /\ NotAhead(keychain) /\ NotAhead(stateFile.token)
    /\ NotAhead(job.token) /\ \A a \in Accounts : NotAhead(row[a])
    /\ TurnInv /\ MemoryInv /\ FileInv

RotationInv == Without({"network", "quit"}) => Rotations

-----------------------------------------------------------------------------
\* Names of accounts, of the user's login and of nothing are told apart.
LEMMA Names ==
    /\ None \notin Accounts /\ Native \notin Accounts /\ None \notin Token
    /\ NoBackup \notin Token /\ NoBackup # None
    /\ MaxGen \in Nat
  BY CoordinatorAssumption DEF Logins

\* A tick that returns leaves typed locals.
LEMMA ReturnTypes ==
    ASSUME Return PROVE JobTypes'
  BY DEF Return, NoJob, JobTypes, Targeting

\* A tick that goes on to choose leaves typed locals.
LEMMA ChooseTypes ==
    ASSUME NEW x \in BOOLEAN, pc' = "choose",
           job' = [NoJob EXCEPT !.active = x]
    PROVE  JobTypes'
  BY DEF NoJob, JobTypes, Targeting

\* Aiming at an account keeps the registers of the turn typed.
LEMMA TargetTypes ==
    ASSUME Types, NEW a \in Accounts, Target(a)
    PROVE  JobTypes'
<1>1. row[a] \in Token
  BY DEF Types, DataTypes
<1>. QED
  BY <1>1 DEF Target, Types, JobTypes

\* The end of a sync pass, written or failed, keeps every type.
LEMMA EndSyncTypes ==
    ASSUME EndSync PROVE JobTypes'
  BY DEF EndSync, NoJob, JobTypes, Targeting

\* The initial state is typed.
LEMMA InitTypes == Init => Types
  BY Names DEF Init, Types, JobTypes, DataTypes, Token, Logins, NoJob,
     NoState, Targeting

\* Every step keeps the types.
LEMMA StepTypes == Types /\ [Next]_vars => Types'
<1>. SUFFICES ASSUME Types, [Next]_vars PROVE Types'
  OBVIOUS
<1>. USE Names DEF vars, process, host, pool, leasing, outside, chaos
<1>1. CASE Boot
  BY <1>1 DEF Boot, Types, JobTypes, DataTypes, Targeting
<1>2. CASE SyncRead
  BY <1>2 DEF SyncRead, Foreign, NoJob, Types, JobTypes, DataTypes
<1>3. CASE Gate
  <2>1. DataTypes'
    BY <1>3 DEF Gate, Types, DataTypes
  <2>2. PICK x \in Activity :
          \/ x /\ pc' = "choose" /\ job' = [NoJob EXCEPT !.active = x]
          \/ /\ lease # None /\ pc' = "choose"
             /\ job' = [NoJob EXCEPT !.active = x]
          \/ pc' = "choose" /\ job' = [NoJob EXCEPT !.active = TRUE]
          \/ Return
    BY <1>3 DEF Gate
  <2>3. x \in BOOLEAN
    BY DEF Activity, Types, DataTypes
  <2>4. JobTypes'
    BY <2>2, <2>3, ReturnTypes, ChooseTypes
  <2>. QED
    BY <2>1, <2>4 DEF Types
<1>4. CASE BootSynced
  BY <1>4 DEF BootSynced, Types, JobTypes, DataTypes, Targeting
<1>5. CASE Push
  <2>1. job.account \in Accounts /\ job.token \in Token
    BY <1>5 DEF Push, Types, JobTypes, Targeting
  <2>2. DataTypes'
    BY <1>5, <2>1 DEF Push, Types, DataTypes
  <2>3. JobTypes'
    BY <1>5, <2>1, EndSyncTypes DEF Push, Types, JobTypes
  <2>. QED
    BY <2>2, <2>3 DEF Types
<1>6. CASE Pushed
  BY <1>6 DEF Pushed, EndSync, NoJob, Types, JobTypes, DataTypes, Targeting
<1>7. CASE ChooseAuto
  <2>1. DataTypes'
    BY <1>7 DEF ChooseAuto, Types, DataTypes
  <2>2. CASE ToPick
    BY <2>1, <2>2 DEF ToPick, Types, JobTypes, Targeting
  <2>3. CASE \E a \in eligible : Target(a)
    BY <2>1, <2>3, TargetTypes DEF Types, DataTypes
  <2>. QED
    BY <1>7, <2>2, <2>3 DEF ChooseAuto, StayOrPick, Stays
<1>8. CASE ChooseManual
  <2>1. DataTypes'
    BY <1>8 DEF ChooseManual, Types, DataTypes
  <2>2. \/ \E a \in eligible : Target(a)
        \/ Return
    BY <1>8 DEF ChooseManual
  <2>3. JobTypes'
    BY <2>2, TargetTypes, ReturnTypes DEF Types, DataTypes
  <2>. QED
    BY <2>1, <2>3 DEF Types
<1>9. CASE Pick
  <2>1. DataTypes'
    BY <1>9 DEF Pick, Types, DataTypes
  <2>2. \/ \E a \in eligible : Target(a)
        \/ Return
    BY <1>9 DEF Pick, Firsts
  <2>3. JobTypes'
    BY <2>2, TargetTypes, ReturnTypes DEF Types, DataTypes
  <2>. QED
    BY <2>1, <2>3 DEF Types
<1>10. CASE RenewLease
  <2>1. DataTypes'
    BY <1>10 DEF RenewLease, Types, DataTypes
  <2>2. JobTypes'
    BY <1>10, ReturnTypes DEF RenewLease, Types, JobTypes, Targeting
  <2>. QED
    BY <2>1, <2>2 DEF Types
<1>11. CASE NoLease
  <2>1. DataTypes'
    BY <1>11 DEF NoLease, Types, DataTypes
  <2>2. JobTypes'
    BY <1>11, ReturnTypes DEF NoLease, Types, JobTypes, Targeting
  <2>. QED
    BY <2>1, <2>2 DEF Types
<1>12. CASE AcquireLease
  <2>1. DataTypes'
    BY <1>12 DEF AcquireLease, LockedOut, Types, DataTypes
  <2>2. JobTypes'
    BY <1>12, ReturnTypes DEF AcquireLease, Types, JobTypes, Targeting
  <2>. QED
    BY <2>1, <2>2 DEF Types
<1>13. CASE Compare
  <2>1. DataTypes'
    BY <1>13 DEF Compare, Types, DataTypes
  <2>2. JobTypes'
    BY <1>13, ReturnTypes DEF Compare, Types, JobTypes, Targeting
  <2>. QED
    BY <2>1, <2>2 DEF Types
<1>14. CASE Snapshot
  BY <1>14 DEF Snapshot, Types, JobTypes, DataTypes, Targeting
<1>15. CASE WriteOAuthBlob
  <2>1. DataTypes'
    BY <1>15 DEF WriteOAuthBlob, Types, JobTypes, DataTypes
  <2>2. JobTypes'
    BY <1>15, ReturnTypes DEF WriteOAuthBlob, Types, JobTypes, Targeting
  <2>. QED
    BY <2>1, <2>2 DEF Types
<1>16. CASE Record
  BY <1>16 DEF Record, MarkUsed, Types, JobTypes, DataTypes, Targeting
<1>17. CASE WriteState
  BY <1>17 DEF WriteState, Types, JobTypes, DataTypes, Targeting
<1>18. CASE RecordSidecar
  BY <1>18 DEF RecordSidecar, Return, NoJob, Types, JobTypes, DataTypes,
     Targeting
<1>19. CASE Restore
  BY <1>19 DEF Restore, Types, JobTypes, DataTypes
<1>20. CASE ReleaseLease
  BY <1>20 DEF ReleaseLease, Types, JobTypes, DataTypes
<1>21. CASE ClearState
  BY <1>21 DEF ClearState, NoState, Types, JobTypes, DataTypes
<1>22. CASE Exit
  BY <1>22 DEF Exit, Stopped, NoJob, Types, JobTypes, DataTypes, Targeting
<1>23. CASE Quit
  BY <1>23 DEF Quit, Types, JobTypes, DataTypes
<1>24. CASE Crash
  BY <1>24 DEF Crash, Stopped, NoJob, Types, JobTypes, DataTypes, Targeting
<1>25. CASE Rotate
  BY <1>25 DEF Rotate, Current, Token, Types, JobTypes, DataTypes
<1>26. CASE Login
  BY <1>26 DEF Login, Token, Logins, Types, JobTypes, DataTypes
<1>27. CASE Wipe
  BY <1>27 DEF Wipe, Types, JobTypes, DataTypes
<1>28. CASE LoseLease
  BY <1>28 DEF LoseLease, Types, JobTypes, DataTypes
<1>29. CASE Activate
  BY <1>29 DEF Activate, Types, JobTypes, DataTypes
<1>30. CASE SetMode
  BY <1>30 DEF SetMode, Types, JobTypes, DataTypes
<1>31. ASSUME NEW a \in Accounts, Refresh(a)
      PROVE  Types'
  BY <1>31 DEF Refresh, Current, Token, Types, JobTypes, DataTypes
<1>32. ASSUME NEW a \in Accounts, PoolChange(a)
      PROVE  Types'
  BY <1>32 DEF PoolChange, Types, JobTypes, DataTypes
<1>33. ASSUME NEW a \in Accounts, UseNow(a)
      PROVE  Types'
  BY <1>33 DEF UseNow, Types, JobTypes, DataTypes
<1>34. ASSUME NEW a \in Accounts, UseNowAnywhere(a)
      PROVE  Types'
  BY <1>34 DEF UseNowAnywhere, Types, JobTypes, DataTypes
<1>35. ASSUME NEW a \in Accounts, Take(a)
      PROVE  Types'
  BY <1>35 DEF Take, MarkUsed, Types, JobTypes, DataTypes
<1>36. ASSUME NEW a \in Accounts, Give(a)
      PROVE  Types'
  BY <1>36 DEF Give, Types, JobTypes, DataTypes
<1>37. CASE UNCHANGED vars
  BY <1>37 DEF Types, JobTypes, DataTypes
<1>. QED
  BY <1>1, <1>2, <1>3, <1>4, <1>5, <1>6, <1>7, <1>8, <1>9, <1>10, <1>11,
     <1>12, <1>13, <1>14, <1>15, <1>16, <1>17, <1>18, <1>19, <1>20, <1>21,
     <1>22, <1>23, <1>24, <1>25, <1>26, <1>27, <1>28, <1>29, <1>30, <1>31,
     <1>32, <1>33, <1>34, <1>35, <1>36, <1>37
  DEF Next, TickStep, QuitStep, Elsewhere

\* The account used last takes the last place, and no two share one.
LEMMA MarkUsedOrder ==
    ASSUME lru \in Orders, NEW a \in Accounts, MarkUsed(a)
    PROVE  lru' \in Orders
<1>. DEFINE N == Cardinality(Accounts)
<1>1. N \in Nat
  BY FS_CardinalityType, CoordinatorAssumption
<1>2. lru \in [Accounts -> 1 .. N] /\ \A x, y \in Accounts : lru[x] = lru[y] => x = y
  BY DEF Orders
<1>3. lru' = [b \in Accounts |-> IF b = a THEN N ELSE IF lru[b] > lru[a] THEN lru[b] - 1 ELSE lru[b]]
  BY DEF MarkUsed, N
<1>. HIDE DEF N
<1>4. ASSUME NEW b \in Accounts
      PROVE  lru'[b] \in 1 .. N /\ (b # a => lru'[b] # N)
  <2>1. lru[b] \in 1 .. N /\ lru[a] \in 1 .. N /\ (lru[b] = lru[a] => b = a)
    BY <1>2
  <2>2. lru'[b] = IF b = a THEN N ELSE IF lru[b] > lru[a] THEN lru[b] - 1 ELSE lru[b]
    BY <1>3
  <2>. QED
    BY <1>1, <2>1, <2>2
<1>5. ASSUME NEW b \in Accounts, NEW c \in Accounts, lru'[b] = lru'[c] PROVE b = c
  <2>1. CASE b = a \/ c = a
    <3>1. lru'[a] = N
      BY <1>3
    <3>. QED
      BY <1>4, <1>5, <2>1, <3>1
  <2>2. CASE b # a /\ c # a
    <3>. DEFINE p == lru[a]  q == lru[b]  r == lru[c]
    <3>1. p \in 1 .. N /\ q \in 1 .. N /\ r \in 1 .. N /\ q # p /\ r # p
      BY <1>2, <2>2
    <3>2. (IF q > p THEN q - 1 ELSE q) = (IF r > p THEN r - 1 ELSE r)
      BY <1>3, <1>5, <2>2
    <3>3. q = r => b = c
      BY <1>2
    <3>. HIDE DEF p, q, r
    <3>4. q = r
      BY <1>1, <3>1, <3>2
    <3>. QED
      BY <3>3, <3>4
  <2>. QED
    BY <2>1, <2>2
<1>6. lru' \in [Accounts -> 1 .. N]
  BY <1>3, <1>4
<1>. QED
  BY <1>5, <1>6 DEF Orders, N

\* The rest of the state is typed at first.
LEMMA InitOthers == Init => OtherTypes
<1>. SUFFICES ASSUME Init PROVE OtherTypes
  OBVIOUS
<1>1. auto \in BOOLEAN /\ fresh \subseteq Accounts /\ left \in 0 .. MaxDisturbances
  BY CoordinatorAssumption DEF Init
<1>2. mine \notin foreign /\ lru \in Orders /\ {lease, mine, pin} \subseteq Accounts \cup {None}
  BY DEF Init
<1>. QED
  BY <1>1, <1>2 DEF Init, OtherTypes

\* Every step keeps the rest typed.  AcquireLease and Take are the steps that
\* could give an account to this device and to another one.
LEMMA StepOthers == Types /\ OtherTypes /\ [Next]_vars => OtherTypes'
<1>. SUFFICES ASSUME Types, OtherTypes, [Next]_vars PROVE OtherTypes'
  OBVIOUS
<1>. USE Names DEF vars, process, host, pool, leasing, outside, chaos
<1>0. MaxDisturbances \in Nat
  BY CoordinatorAssumption
<1>1a. ASSUME NEW kind, Disturb(kind)
       PROVE  left' \in 0 .. MaxDisturbances /\ happened' \subseteq Disturbances
  BY <1>0, <1>1a DEF Disturb, OtherTypes
<1>1. CASE Boot
  BY <1>1 DEF Boot, OtherTypes, Types, JobTypes, DataTypes, Targeting
<1>2. CASE SyncRead
  BY <1>2 DEF SyncRead, OtherTypes, Types, JobTypes, DataTypes, Targeting
<1>3. CASE Gate
  BY <1>3, <1>1a
     DEF Gate, Return, CallWorks, CallFails, OtherTypes, Types, JobTypes,
         DataTypes, Targeting
<1>4. CASE BootSynced
  BY <1>4 DEF BootSynced, OtherTypes, Types, JobTypes, DataTypes, Targeting
<1>5. CASE Push
  BY <1>5, <1>1a
     DEF Push, EndSync, CallWorks, CallFails, OtherTypes, Types, JobTypes,
         DataTypes, Targeting
<1>6. CASE Pushed
  BY <1>6 DEF Pushed, EndSync, OtherTypes, Types, JobTypes, DataTypes, Targeting
<1>7. CASE ChooseAuto
  BY <1>7, <1>1a
     DEF ChooseAuto, StayOrPick, Target, ToPick, CallWorks, CallFails, OtherTypes,
         Types, JobTypes, DataTypes, Targeting
<1>8. CASE ChooseManual
  BY <1>8, <1>1a
     DEF ChooseManual, Target, Return, CallWorks, CallFails, OtherTypes, Types,
         JobTypes, DataTypes, Targeting
<1>9. CASE Pick
  BY <1>9, <1>1a
     DEF Pick, Target, Return, CallWorks, CallFails, OtherTypes, Types, JobTypes,
         DataTypes, Targeting
<1>10. CASE RenewLease
  BY <1>10, <1>1a
     DEF RenewLease, Return, CallWorks, CallFails, OtherTypes, Types, JobTypes,
         DataTypes, Targeting
<1>11. CASE NoLease
  BY <1>11 DEF NoLease, Return, OtherTypes, Types, JobTypes, DataTypes, Targeting
<1>12. CASE AcquireLease
  BY <1>12, <1>1a
     DEF AcquireLease, LockedOut, Return, CallWorks, CallFails, OtherTypes, Types,
         JobTypes, DataTypes, Targeting
<1>13. CASE Compare
  BY <1>13 DEF Compare, Return, OtherTypes, Types, JobTypes, DataTypes, Targeting
<1>14. CASE Snapshot
  BY <1>14, <1>1a DEF Snapshot, OtherTypes, Types, JobTypes, DataTypes, Targeting
<1>15. CASE WriteOAuthBlob
  BY <1>15, <1>1a
     DEF WriteOAuthBlob, Return, OtherTypes, Types, JobTypes, DataTypes, Targeting
<1>16. CASE Record
  BY <1>16, MarkUsedOrder, <1>1a
     DEF Record, MarkUsed, CallWorks, CallFails, OtherTypes, Types, JobTypes,
         DataTypes, Targeting
<1>17. CASE WriteState
  BY <1>17, <1>1a
     DEF WriteState, OtherTypes, Types, JobTypes, DataTypes, Targeting
<1>18. CASE RecordSidecar
  BY <1>18
     DEF RecordSidecar, Return, OtherTypes, Types, JobTypes, DataTypes, Targeting
<1>19. CASE Restore
  BY <1>19, <1>1a DEF Restore, OtherTypes, Types, JobTypes, DataTypes, Targeting
<1>20. CASE ReleaseLease
  BY <1>20, <1>1a
     DEF ReleaseLease, OtherTypes, Types, JobTypes, DataTypes, Targeting
<1>21. CASE ClearState
  BY <1>21 DEF ClearState, OtherTypes, Types, JobTypes, DataTypes, Targeting
<1>22. CASE Exit
  BY <1>22 DEF Exit, Stopped, OtherTypes, Types, JobTypes, DataTypes, Targeting
<1>23. CASE Quit
  BY <1>23, <1>1a DEF Quit, OtherTypes, Types, JobTypes, DataTypes, Targeting
<1>24. CASE Crash
  BY <1>24, <1>1a
     DEF Crash, Stopped, OtherTypes, Types, JobTypes, DataTypes, Targeting
<1>25. CASE Rotate
  BY <1>25, <1>1a DEF Rotate, OtherTypes, Types, JobTypes, DataTypes, Targeting
<1>26. CASE Login
  BY <1>26, <1>1a DEF Login, OtherTypes, Types, JobTypes, DataTypes, Targeting
<1>27. CASE Wipe
  BY <1>27, <1>1a DEF Wipe, OtherTypes, Types, JobTypes, DataTypes, Targeting
<1>28. CASE LoseLease
  BY <1>28, <1>1a DEF LoseLease, OtherTypes, Types, JobTypes, DataTypes, Targeting
<1>29. CASE Activate
  BY <1>29, <1>1a DEF Activate, OtherTypes, Types, JobTypes, DataTypes, Targeting
<1>30. CASE SetMode
  BY <1>30, <1>1a DEF SetMode, OtherTypes, Types, JobTypes, DataTypes, Targeting
<1>31. ASSUME NEW a \in Accounts, Refresh(a)
      PROVE  OtherTypes'
  BY <1>31, <1>1a DEF Refresh, OtherTypes, Types, JobTypes, DataTypes, Targeting
<1>32. ASSUME NEW a \in Accounts, PoolChange(a)
      PROVE  OtherTypes'
  BY <1>32, <1>1a
     DEF PoolChange, OtherTypes, Types, JobTypes, DataTypes, Targeting
<1>33. ASSUME NEW a \in Accounts, UseNow(a)
      PROVE  OtherTypes'
  BY <1>33, <1>1a DEF UseNow, OtherTypes, Types, JobTypes, DataTypes, Targeting
<1>34. ASSUME NEW a \in Accounts, UseNowAnywhere(a)
      PROVE  OtherTypes'
  BY <1>34, <1>1a
     DEF UseNowAnywhere, OtherTypes, Types, JobTypes, DataTypes, Targeting
<1>35. ASSUME NEW a \in Accounts, Take(a)
      PROVE  OtherTypes'
  BY <1>35, MarkUsedOrder, <1>1a
     DEF Take, MarkUsed, OtherTypes, Types, JobTypes, DataTypes, Targeting
<1>36. ASSUME NEW a \in Accounts, Give(a)
      PROVE  OtherTypes'
  BY <1>36, <1>1a DEF Give, OtherTypes, Types, JobTypes, DataTypes, Targeting
<1>37. CASE UNCHANGED vars
  BY <1>37 DEF OtherTypes, Types, JobTypes, DataTypes, Targeting
<1>. QED
  BY <1>1, <1>2, <1>3, <1>4, <1>5, <1>6, <1>7, <1>8, <1>9, <1>10, <1>11, <1>12,
     <1>13, <1>14, <1>15, <1>16, <1>17, <1>18, <1>19, <1>20, <1>21, <1>22, <1>23,
     <1>24, <1>25, <1>26, <1>27, <1>28, <1>29, <1>30, <1>31, <1>32, <1>33, <1>34,
     <1>35, <1>36, <1>37
  DEF Next, TickStep, QuitStep, Elsewhere

\* Every variable keeps its type, no two accounts share a place in the order of
\* use, and no account is leased to this device and to another one.
THEOREM CoordinatorTypes == Spec => []TypeOK
<1>1. Init => Types /\ OtherTypes
  BY InitTypes, InitOthers
<1>2. Types /\ OtherTypes /\ [Next]_vars => (Types /\ OtherTypes)'
  BY StepTypes, StepOthers
<1>3. Types /\ OtherTypes => TypeOK
  BY DEF Types, JobTypes, DataTypes, OtherTypes, TypeOK
<1>. QED
  BY <1>1, <1>2, <1>3, PTL DEF Spec

-----------------------------------------------------------------------------
\* What has happened stays so, and what was captured as native is kept.
LEMMA Monotone ==
    ASSUME Types, [Next]_vars
    PROVE  /\ happened \subseteq happened'
           /\ backup' = NoBackup => backup = NoBackup
<1>. USE Names DEF vars, process, host, pool, leasing, outside, chaos,
                   Disturb, CallWorks, CallFails
<1>1. Boot \/ SyncRead \/ Gate
        => happened \subseteq happened' /\ backup' = backup
  BY DEF Boot, SyncRead, Gate
<1>2. TickStep => happened \subseteq happened'
  BY DEF TickStep, BootSynced, Push, Pushed, ChooseAuto, ChooseManual, Pick,
         RenewLease, NoLease, AcquireLease, Compare, Snapshot,
         WriteOAuthBlob, Record, WriteState, RecordSidecar
<1>3. TickStep /\ backup' = NoBackup => backup = NoBackup
  BY DEF TickStep, BootSynced, Push, Pushed, ChooseAuto, ChooseManual, Pick,
         RenewLease, NoLease, AcquireLease, Compare, Snapshot,
         WriteOAuthBlob, Record, WriteState, RecordSidecar, Types, DataTypes
<1>4. QuitStep => happened \subseteq happened' /\ backup' = backup
  BY DEF QuitStep, Restore, ReleaseLease, ClearState, Exit, Stopped
<1>5. Elsewhere => happened \subseteq happened' /\ backup' = backup
  BY DEF Elsewhere, Quit, Crash, Stopped, Rotate, Login, Wipe, LoseLease,
     Activate, SetMode, Refresh, PoolChange, UseNow, UseNowAnywhere, Take,
     Give
<1>. QED
  BY <1>1, <1>2, <1>3, <1>4, <1>5 DEF Next

-----------------------------------------------------------------------------
\* The question is unanswered at first, and the store holds nothing of the pool.
LEMMA InitBackup == Init => BackupInv
  BY Names DEF Init, BackupInv, NoState

\* Every step keeps BackupInv.  The step that matters is Snapshot: a credential
\* it finds in a row would be one of the pool, which is not there yet.
LEMMA StepBackup == Types /\ BackupInv /\ [Next]_vars => BackupInv'
<1>. DEFINE Blank ==
              /\ keychain # None => keychain.of \notin Accounts
              /\ current = None /\ stateFile.account = None
              /\ pc \notin {"push", "pushed", "write", "record", "save",
                            "sidecar"}
              /\ \A a \in Accounts : row[a].of = a
<1>. SUFFICES ASSUME Types, BackupInv, [Next]_vars,
                     "disk" \notin happened', backup' = NoBackup
              PROVE  Blank'
  BY DEF BackupInv, Without
<1>. USE Names DEF vars, process, host, pool, leasing, outside, chaos
<1>1. "disk" \notin happened /\ backup = NoBackup
  BY Monotone
<1>2. Blank
  BY <1>1 DEF BackupInv, Without
<1>3. CASE Boot
  BY <1>1, <1>2, <1>3 DEF Boot
<1>4. CASE SyncRead
  BY <1>1, <1>2, <1>4 DEF SyncRead, Foreign
<1>5. CASE Gate
  BY <1>1, <1>2, <1>5 DEF Gate, Return
<1>6. CASE BootSynced
  BY <1>1, <1>2, <1>6 DEF BootSynced
<1>7. CASE Push
  BY <1>1, <1>2, <1>7 DEF Push
<1>8. CASE Pushed
  BY <1>1, <1>2, <1>8 DEF Pushed
<1>9. CASE ChooseAuto
  BY <1>1, <1>2, <1>9 DEF ChooseAuto, StayOrPick, Target, ToPick
<1>10. CASE ChooseManual
  BY <1>1, <1>2, <1>10 DEF ChooseManual, Target, Return
<1>11. CASE Pick
  BY <1>1, <1>2, <1>11 DEF Pick, Target, Return
<1>12. CASE RenewLease
  BY <1>1, <1>2, <1>12 DEF RenewLease, Return
<1>13. CASE NoLease
  BY <1>1, <1>2, <1>13 DEF NoLease, Return
<1>14. CASE AcquireLease
  BY <1>1, <1>2, <1>14 DEF AcquireLease, LockedOut, Return
<1>15. CASE Compare
  BY <1>1, <1>2, <1>15 DEF Compare, Return
<1>16. CASE Snapshot
  <2>1. ~ Owned
    BY <1>2 DEF Owned, Types, DataTypes
  <2>. QED
    BY <1>1, <1>2, <1>16, <2>1 DEF Snapshot, Disturb, Types, DataTypes
<1>17. CASE WriteOAuthBlob
  BY <1>1, <1>2, <1>17 DEF WriteOAuthBlob
<1>18. CASE Record
  BY <1>1, <1>2, <1>18 DEF Record
<1>19. CASE WriteState
  BY <1>1, <1>2, <1>19 DEF WriteState
<1>20. CASE RecordSidecar
  BY <1>1, <1>2, <1>20 DEF RecordSidecar
<1>21. CASE Restore
  BY <1>1, <1>2, <1>21 DEF Restore
<1>22. CASE ReleaseLease
  BY <1>1, <1>2, <1>22 DEF ReleaseLease
<1>23. CASE ClearState
  BY <1>1, <1>2, <1>23 DEF ClearState, NoState
<1>24. CASE Exit
  BY <1>1, <1>2, <1>24 DEF Exit, Stopped
<1>25. CASE Quit
  BY <1>1, <1>2, <1>25 DEF Quit
<1>26. CASE Crash
  BY <1>1, <1>2, <1>26 DEF Crash, Stopped
<1>27. CASE Rotate
  BY <1>1, <1>2, <1>27 DEF Rotate
<1>28. CASE Login
  BY <1>1, <1>2, <1>28 DEF Login
<1>29. CASE Wipe
  BY <1>1, <1>2, <1>29 DEF Wipe
<1>30. CASE LoseLease
  BY <1>1, <1>2, <1>30 DEF LoseLease
<1>31. CASE Activate
  BY <1>1, <1>2, <1>31 DEF Activate
<1>32. CASE SetMode
  BY <1>1, <1>2, <1>32 DEF SetMode
<1>33. ASSUME NEW a \in Accounts, Refresh(a)
      PROVE  Blank'
  BY <1>1, <1>2, <1>33 DEF Refresh
<1>34. ASSUME NEW a \in Accounts, PoolChange(a)
      PROVE  Blank'
  BY <1>1, <1>2, <1>34 DEF PoolChange
<1>35. ASSUME NEW a \in Accounts, UseNow(a)
      PROVE  Blank'
  BY <1>1, <1>2, <1>35 DEF UseNow
<1>36. ASSUME NEW a \in Accounts, UseNowAnywhere(a)
      PROVE  Blank'
  BY <1>1, <1>2, <1>36 DEF UseNowAnywhere
<1>37. ASSUME NEW a \in Accounts, Take(a)
      PROVE  Blank'
  BY <1>1, <1>2, <1>37 DEF Take, MarkUsed
<1>38. ASSUME NEW a \in Accounts, Give(a)
      PROVE  Blank'
  BY <1>1, <1>2, <1>38 DEF Give
<1>39. CASE UNCHANGED vars
  BY <1>1, <1>2, <1>39
<1>. QED
  BY <1>3, <1>4, <1>5, <1>6, <1>7, <1>8, <1>9, <1>10, <1>11, <1>12, <1>13,
     <1>14, <1>15, <1>16, <1>17, <1>18, <1>19, <1>20, <1>21, <1>22, <1>23,
     <1>24, <1>25, <1>26, <1>27, <1>28, <1>29, <1>30, <1>31, <1>32, <1>33,
     <1>34, <1>35, <1>36, <1>37, <1>38, <1>39
  DEF Next, TickStep, QuitStep, Elsewhere

\* The invariant is checked, and answers the question for the store.
LEMMA BackupInvariant == Spec => [](Types /\ BackupInv)
<1>1. Init => Types /\ BackupInv
  BY InitTypes, InitBackup
<1>2. Types /\ BackupInv /\ [Next]_vars => (Types /\ BackupInv)'
  BY StepTypes, StepBackup
<1>. QED
  BY <1>1, <1>2, PTL DEF Spec

\* No credential of the pool is in Claude Code's store before the question what
\* was there first has been answered (maybeSnapshotNative before
\* WriteOAuthBlob), as long as no write fails: whatever crashes, quits, logins
\* and rotations come in between.
THEOREM BackupBeforeInjection == Spec => []NeverWithoutBackup
<1>1. BackupInv => NeverWithoutBackup
  BY DEF BackupInv, NeverWithoutBackup
<1>. QED
  BY <1>1, BackupInvariant, PTL

-----------------------------------------------------------------------------
\* There is no lease at first.
LEMMA InitLease == Init => LeaseInv
  BY DEF Init, LeaseInv, Leased

\* Every step keeps LeaseInv.  RenewLease is the step it is needed for: what it
\* renews is the lease of the target, since that is the account in hand.
LEMMA StepLease == Types /\ LeaseInv /\ [Next]_vars => LeaseInv'
<1>. SUFFICES ASSUME Types, LeaseInv, [Next]_vars PROVE LeaseInv'
  OBVIOUS
<1>. USE Names DEF vars, process, host, pool, leasing, outside, chaos
<1>1. CASE Boot
  BY <1>1 DEF Boot, LeaseInv, Leased
<1>2. CASE SyncRead
  BY <1>2 DEF SyncRead, LeaseInv, Leased, Without
<1>3. CASE Gate
  BY <1>3 DEF Gate, Return, CallWorks, CallFails, LeaseInv, Leased, Without
<1>4. CASE BootSynced
  BY <1>4 DEF BootSynced, LeaseInv, Leased, Without
<1>5. CASE Push
  BY <1>5 DEF Push, EndSync, CallWorks, CallFails, Disturb, LeaseInv, Leased,
     Without
<1>6. CASE Pushed
  BY <1>6 DEF Pushed, EndSync, LeaseInv, Leased, Without
<1>7. CASE ChooseAuto
  BY <1>7 DEF ChooseAuto, StayOrPick, Target, ToPick, CallWorks, CallFails,
     Disturb, LeaseInv, Leased, Without
<1>8. CASE ChooseManual
  BY <1>8 DEF ChooseManual, Target, Return, CallWorks, CallFails, Disturb,
     LeaseInv, Leased, Without
<1>9. CASE Pick
  BY <1>9 DEF Pick, Target, Return, CallWorks, CallFails, Disturb, LeaseInv,
     Leased, Without
<1>10. CASE RenewLease
  BY <1>10 DEF RenewLease, Holds, Return, CallWorks, CallFails, Disturb,
     LeaseInv, Leased, Types, JobTypes, Targeting, Without
<1>11. CASE NoLease
  BY <1>11 DEF NoLease, Return, LeaseInv, Leased, Without
<1>12. CASE AcquireLease
  BY <1>12 DEF AcquireLease, LockedOut, Return, CallWorks, CallFails,
     Disturb, LeaseInv, Leased, Without
<1>13. CASE Compare
  BY <1>13 DEF Compare, Unchanged, Return, LeaseInv, Leased, Without
<1>14. CASE Snapshot
  BY <1>14 DEF Snapshot, Disturb, LeaseInv, Leased, Without
<1>15. CASE WriteOAuthBlob
  BY <1>15 DEF WriteOAuthBlob, Return, Disturb, LeaseInv, Leased, Without
<1>16. CASE Record
  BY <1>16 DEF Record, CallWorks, CallFails, Disturb, LeaseInv, Leased,
     Without
<1>17. CASE WriteState
  BY <1>17 DEF WriteState, Disturb, LeaseInv, Leased, Without
<1>18. CASE RecordSidecar
  BY <1>18 DEF RecordSidecar, Return, LeaseInv, Leased, Without
<1>19. CASE Restore
  BY <1>19 DEF Restore, Disturb, LeaseInv, Without
<1>20. CASE ReleaseLease
  BY <1>20 DEF ReleaseLease, Disturb, LeaseInv, Without
<1>21. CASE ClearState
  BY <1>21 DEF ClearState, LeaseInv, Without
<1>22. CASE Exit
  BY <1>22 DEF Exit, Stopped, LeaseInv, Leased
<1>23. CASE Quit
  BY <1>23 DEF Quit, Disturb, LeaseInv, Without
<1>24. CASE Crash
  BY <1>24 DEF Crash, Stopped, LeaseInv, Leased
<1>25. CASE Rotate
  BY <1>25 DEF Rotate, Disturb, LeaseInv, Without
<1>26. CASE Login
  BY <1>26 DEF Login, Disturb, LeaseInv, Without
<1>27. CASE Wipe
  BY <1>27 DEF Wipe, Disturb, LeaseInv, Without
<1>28. CASE LoseLease
  BY <1>28 DEF LoseLease, Disturb, LeaseInv, Without
<1>29. CASE Activate
  BY <1>29 DEF Activate, Disturb, LeaseInv, Without
<1>30. CASE SetMode
  BY <1>30 DEF SetMode, Disturb, LeaseInv, Without
<1>31. ASSUME NEW a \in Accounts, Refresh(a)
      PROVE  LeaseInv'
  BY <1>31 DEF Refresh, Disturb, LeaseInv, Without
<1>32. ASSUME NEW a \in Accounts, PoolChange(a)
      PROVE  LeaseInv'
  BY <1>32 DEF PoolChange, Disturb, LeaseInv, Without
<1>33. ASSUME NEW a \in Accounts, UseNow(a)
      PROVE  LeaseInv'
  BY <1>33 DEF UseNow, Disturb, LeaseInv, Without
<1>34. ASSUME NEW a \in Accounts, UseNowAnywhere(a)
      PROVE  LeaseInv'
  BY <1>34 DEF UseNowAnywhere, Disturb, LeaseInv, Without
<1>35. ASSUME NEW a \in Accounts, Take(a)
      PROVE  LeaseInv'
  BY <1>35 DEF Take, Disturb, LeaseInv, Without
<1>36. ASSUME NEW a \in Accounts, Give(a)
      PROVE  LeaseInv'
  BY <1>36 DEF Give, Disturb, LeaseInv, Without
<1>37. CASE UNCHANGED vars
  BY <1>37 DEF LeaseInv, Without
<1>. QED
  BY <1>1, <1>2, <1>3, <1>4, <1>5, <1>6, <1>7, <1>8, <1>9, <1>10, <1>11,
     <1>12, <1>13, <1>14, <1>15, <1>16, <1>17, <1>18, <1>19, <1>20, <1>21,
     <1>22, <1>23, <1>24, <1>25, <1>26, <1>27, <1>28, <1>29, <1>30, <1>31,
     <1>32, <1>33, <1>34, <1>35, <1>36, <1>37
  DEF Next, TickStep, QuitStep, Elsewhere

\* The typed state and the lease strengthening hold in every behaviour.
LEMMA LeaseInvariant == Spec => [](Types /\ LeaseInv)
<1>1. Init => Types /\ LeaseInv
  BY InitTypes, InitLease
<1>2. Types /\ LeaseInv /\ [Next]_vars => (Types /\ LeaseInv)'
  BY StepTypes, StepLease
<1>. QED
  BY <1>1, <1>2, PTL DEF Spec

\* Between ticks a lease in hand is the lease of the account in hand
\* (refreshLease and the writes after it), as long as no write fails.
THEOREM LeaseSpeaksForInjected == Spec => []LeaseIsOfInjected
<1>1. LeaseInv => LeaseIsOfInjected
  BY DEF LeaseInv, LeaseIsOfInjected, Leased
<1>. QED
  BY <1>1, LeaseInvariant, PTL

\* An account is written into Claude Code's store only under this device's
\* lease (refreshLease before WriteOAuthBlob), whatever answers are lost, as
\* long as no write fails and the lease does not end in between.
THEOREM InjectionUnderLease == Spec => InjectsUnderLeaseOrLate
<1>1. LeaseInv /\ [Next]_vars =>
        [Injects /\ Without({"disk", "lapse", "quit"})
           => mine = job.account]_vars
  BY DEF LeaseInv, Injects, Leased
<1>. QED
  BY <1>1, LeaseInvariant, PTL DEF Spec, InjectsUnderLeaseOrLate

-----------------------------------------------------------------------------
\* Every row holds a credential of its account at first.
LEMMA InitRows == Init => RowsInv
  BY Names DEF Init, RowsInv, RowsKeepIdentity, NoState, Targeting

\* Targeting an account keeps the invariant: what is copied is its row.
LEMMA RowsTarget ==
    ASSUME Types, RowsInv, NEW a \in eligible, Target(a),
           pc \in {"choose", "pick"}, happened \subseteq happened',
           UNCHANGED <<current, quit, keychain, backup, stateFile, row>>
    PROVE  RowsInv'
<1>1. a \in Accounts /\ row[a] \in Token
  BY DEF Types, DataTypes
<1>. QED
  BY <1>1 DEF Target, RowsInv, RowsKeepIdentity, Without

\* Every step keeps RowsInv.
LEMMA StepRows == Types /\ RowsInv /\ [Next]_vars => RowsInv'
<1>. SUFFICES ASSUME Types, RowsInv, [Next]_vars PROVE RowsInv'
  OBVIOUS
<1>. USE Names DEF vars, process, host, pool, leasing, outside, chaos
<1>1. CASE Boot
  BY <1>1 DEF Boot, RowsInv, RowsKeepIdentity, Targeting, Without
<1>2. CASE SyncRead
  BY <1>2 DEF SyncRead, Foreign, RowsInv, RowsKeepIdentity, Without
<1>3. CASE Gate
  BY <1>3 DEF Gate, Return, CallWorks, CallFails, Disturb, RowsInv,
     RowsKeepIdentity, Targeting, Without
<1>4. CASE BootSynced
  BY <1>4 DEF BootSynced, RowsInv, RowsKeepIdentity, Targeting, Without
<1>5. CASE Push
  BY <1>5 DEF Push, EndSync, CallWorks, CallFails, Disturb, RowsInv,
     RowsKeepIdentity, Targeting, Types, DataTypes, Without
<1>6. CASE Pushed
  BY <1>6 DEF Pushed, EndSync, RowsInv, RowsKeepIdentity, Targeting, Without
<1>7. CASE ChooseAuto
  <2>1. /\ pc \in {"choose", "pick"} /\ happened \subseteq happened'
        /\ UNCHANGED <<current, quit, keychain, backup, stateFile, row>>
    BY <1>7 DEF ChooseAuto, CallWorks, CallFails, Disturb
  <2>2. CASE \E a \in eligible : Target(a)
    BY <2>1, <2>2, RowsTarget
  <2>3. CASE ToPick
    BY <2>1, <2>3 DEF ToPick, RowsInv, RowsKeepIdentity, Targeting, Without
  <2>. QED
    BY <1>7, <2>2, <2>3 DEF ChooseAuto, StayOrPick, Stays
<1>8. CASE ChooseManual
  <2>1. /\ pc \in {"choose", "pick"} /\ happened \subseteq happened'
        /\ UNCHANGED <<current, quit, keychain, backup, stateFile, row>>
    BY <1>8 DEF ChooseManual, CallWorks, CallFails, Disturb
  <2>2. CASE \E a \in eligible : Target(a)
    BY <2>1, <2>2, RowsTarget
  <2>3. CASE Return
    BY <2>1, <2>3 DEF Return, RowsInv, RowsKeepIdentity, Targeting, Without
  <2>. QED
    BY <1>8, <2>2, <2>3 DEF ChooseManual
<1>9. CASE Pick
  <2>1. /\ pc \in {"choose", "pick"} /\ happened \subseteq happened'
        /\ UNCHANGED <<current, quit, keychain, backup, stateFile, row>>
    BY <1>9 DEF Pick, CallWorks, CallFails, Disturb
  <2>2. CASE \E a \in eligible : Target(a)
    BY <2>1, <2>2, RowsTarget
  <2>3. CASE Return
    BY <2>1, <2>3 DEF Return, RowsInv, RowsKeepIdentity, Targeting, Without
  <2>. QED
    BY <1>9, <2>2, <2>3 DEF Pick, Firsts
<1>10. CASE RenewLease
  BY <1>10 DEF RenewLease, Return, CallWorks, CallFails, Disturb, RowsInv,
     RowsKeepIdentity, Targeting, Without
<1>11. CASE NoLease
  BY <1>11 DEF NoLease, Return, RowsInv, RowsKeepIdentity, Targeting, Without
<1>12. CASE AcquireLease
  BY <1>12 DEF AcquireLease, LockedOut, Return, CallWorks, CallFails,
     Disturb, RowsInv, RowsKeepIdentity, Targeting, Without
<1>13. CASE Compare
  BY <1>13 DEF Compare, Return, RowsInv, RowsKeepIdentity, Targeting, Without
<1>14. CASE Snapshot
  BY <1>14 DEF Snapshot, Disturb, RowsInv, RowsKeepIdentity, Targeting,
     Without
<1>15. CASE WriteOAuthBlob
  BY <1>15 DEF WriteOAuthBlob, Return, Disturb, RowsInv, RowsKeepIdentity,
     Targeting, Without
<1>16. CASE Record
  BY <1>16 DEF Record, CallWorks, CallFails, Disturb, MarkUsed, RowsInv,
     RowsKeepIdentity, Targeting, Without
<1>17. CASE WriteState
  BY <1>17 DEF WriteState, Disturb, RowsInv, RowsKeepIdentity, Targeting,
     Without
<1>18. CASE RecordSidecar
  BY <1>18 DEF RecordSidecar, Return, RowsInv, RowsKeepIdentity, Targeting,
     Without
<1>19. CASE Restore
  BY <1>19 DEF Restore, Disturb, RowsInv, Without
<1>20. CASE ReleaseLease
  BY <1>20 DEF ReleaseLease, Disturb, RowsInv, Without
<1>21. CASE ClearState
  BY <1>21 DEF ClearState, RowsInv, Without
<1>22. CASE Exit
  BY <1>22 DEF Exit, RowsInv, Without
<1>23. CASE Quit
  BY <1>23 DEF Quit, Disturb, RowsInv, Without
<1>24. CASE Crash
  BY <1>24 DEF Crash, Disturb, RowsInv, Without
<1>25. CASE Rotate
  BY <1>25 DEF Rotate, Disturb, RowsInv, RowsKeepIdentity, Without
<1>26. CASE Login
  BY <1>26 DEF Login, Disturb, RowsInv, Without
<1>27. CASE Wipe
  BY <1>27 DEF Wipe, Disturb, RowsInv, RowsKeepIdentity, Without
<1>28. CASE LoseLease
  BY <1>28 DEF LoseLease, Disturb, RowsInv, RowsKeepIdentity, Without
<1>29. CASE Activate
  BY <1>29 DEF Activate, Disturb, RowsInv, RowsKeepIdentity, Without
<1>30. CASE SetMode
  BY <1>30 DEF SetMode, Disturb, RowsInv, RowsKeepIdentity, Without
<1>31. ASSUME NEW a \in Accounts, Refresh(a)
      PROVE  RowsInv'
  BY <1>31 DEF Refresh, Disturb, RowsInv, RowsKeepIdentity, Without
<1>32. ASSUME NEW a \in Accounts, PoolChange(a)
      PROVE  RowsInv'
  BY <1>32 DEF PoolChange, Disturb, RowsInv, RowsKeepIdentity, Without
<1>33. ASSUME NEW a \in Accounts, UseNow(a)
      PROVE  RowsInv'
  BY <1>33 DEF UseNow, Disturb, RowsInv, RowsKeepIdentity, Without
<1>34. ASSUME NEW a \in Accounts, UseNowAnywhere(a)
      PROVE  RowsInv'
  BY <1>34 DEF UseNowAnywhere, Disturb, RowsInv, RowsKeepIdentity, Without
<1>35. ASSUME NEW a \in Accounts, Take(a)
      PROVE  RowsInv'
  BY <1>35 DEF Take, Disturb, MarkUsed, RowsInv, RowsKeepIdentity, Without
<1>36. ASSUME NEW a \in Accounts, Give(a)
      PROVE  RowsInv'
  BY <1>36 DEF Give, Disturb, RowsInv, RowsKeepIdentity, Without
<1>37. CASE UNCHANGED vars
  BY <1>37 DEF RowsInv, RowsKeepIdentity, Without
<1>. QED
  BY <1>1, <1>2, <1>3, <1>4, <1>5, <1>6, <1>7, <1>8, <1>9, <1>10, <1>11,
     <1>12, <1>13, <1>14, <1>15, <1>16, <1>17, <1>18, <1>19, <1>20, <1>21,
     <1>22, <1>23, <1>24, <1>25, <1>26, <1>27, <1>28, <1>29, <1>30, <1>31,
     <1>32, <1>33, <1>34, <1>35, <1>36, <1>37
  DEF Next, TickStep, QuitStep, Elsewhere

\* The typed state and the row strengthening hold in every behaviour.
LEMMA RowsInvariant == Spec => [](Types /\ RowsInv)
<1>1. Init => Types /\ RowsInv
  BY InitTypes, InitRows
<1>2. Types /\ RowsInv /\ [Next]_vars => (Types /\ RowsInv)'
  BY StepTypes, StepRows
<1>. QED
  BY <1>1, <1>2, PTL DEF Spec

\* reverseSync files each token under the account that issued it, as long as
\* the process is not stopped and the user does not log in by hand.
THEOREM RowsAreNotMixed == Spec => []RowsKeepIdentityWhileRunning
<1>1. RowsInv => RowsKeepIdentityWhileRunning
  BY DEF RowsInv, RowsKeepIdentityWhileRunning
<1>. QED
  BY <1>1, RowsInvariant, PTL

-----------------------------------------------------------------------------
\* Only the user's login may be in the store at first.
LEMMA InitOwned == Init => OwnedInv
  BY Names DEF Init, OwnedInv

\* Targeting an account keeps the invariant: what is copied is its row.
LEMMA OwnedTarget ==
    ASSUME Types, OwnedInv, NEW a \in eligible, Target(a),
           pc \in {"choose", "pick"}, happened \subseteq happened',
           UNCHANGED <<current, quit, keychain, backup, stateFile, row>>
    PROVE  OwnedInv'
<1>1. a \in Accounts /\ row[a] \in Token
  BY DEF Types, DataTypes
<1>. QED
  BY <1>1 DEF Target, OwnedInv, Owned, Without

\* Every step keeps OwnedInv.
LEMMA StepOwned == Types /\ OwnedInv /\ [Next]_vars => OwnedInv'
<1>. SUFFICES ASSUME Types, OwnedInv, [Next]_vars PROVE OwnedInv'
  OBVIOUS
<1>. USE Names DEF vars, process, host, pool, leasing, outside, chaos
<1>1. CASE Boot
  BY <1>1 DEF Boot, OwnedInv, Owned, Without
<1>2. CASE SyncRead
  BY <1>2 DEF SyncRead, OwnedInv, Owned, Without
<1>3. CASE Gate
  BY <1>3 DEF Gate, Return, CallWorks, CallFails, Disturb, OwnedInv, Owned,
     Without
<1>4. CASE BootSynced
  BY <1>4 DEF BootSynced, OwnedInv, Owned, Without
<1>5. CASE Push
  BY <1>5 DEF Push, EndSync, CallWorks, CallFails, Disturb, OwnedInv, Owned,
     Types, DataTypes, Without
<1>6. CASE Pushed
  BY <1>6 DEF Pushed, EndSync, OwnedInv, Owned, Without
<1>7. CASE ChooseAuto
  <2>1. /\ pc \in {"choose", "pick"} /\ happened \subseteq happened'
        /\ UNCHANGED <<current, quit, keychain, backup, stateFile, row>>
    BY <1>7 DEF ChooseAuto, CallWorks, CallFails, Disturb
  <2>2. CASE \E a \in eligible : Target(a)
    BY <2>1, <2>2, OwnedTarget
  <2>3. CASE ToPick
    BY <2>1, <2>3 DEF ToPick, OwnedInv, Owned, Without
  <2>. QED
    BY <1>7, <2>2, <2>3 DEF ChooseAuto, StayOrPick, Stays
<1>8. CASE ChooseManual
  <2>1. /\ pc \in {"choose", "pick"} /\ happened \subseteq happened'
        /\ UNCHANGED <<current, quit, keychain, backup, stateFile, row>>
    BY <1>8 DEF ChooseManual, CallWorks, CallFails, Disturb
  <2>2. CASE \E a \in eligible : Target(a)
    BY <2>1, <2>2, OwnedTarget
  <2>3. CASE Return
    BY <2>1, <2>3 DEF Return, OwnedInv, Owned, Without
  <2>. QED
    BY <1>8, <2>2, <2>3 DEF ChooseManual
<1>9. CASE Pick
  <2>1. /\ pc \in {"choose", "pick"} /\ happened \subseteq happened'
        /\ UNCHANGED <<current, quit, keychain, backup, stateFile, row>>
    BY <1>9 DEF Pick, CallWorks, CallFails, Disturb
  <2>2. CASE \E a \in eligible : Target(a)
    BY <2>1, <2>2, OwnedTarget
  <2>3. CASE Return
    BY <2>1, <2>3 DEF Return, OwnedInv, Owned, Without
  <2>. QED
    BY <1>9, <2>2, <2>3 DEF Pick, Firsts
<1>10. CASE RenewLease
  BY <1>10 DEF RenewLease, Return, CallWorks, CallFails, Disturb, OwnedInv,
     Owned, Without
<1>11. CASE NoLease
  BY <1>11 DEF NoLease, Return, OwnedInv, Owned, Without
<1>12. CASE AcquireLease
  BY <1>12 DEF AcquireLease, Return, CallWorks, CallFails, Disturb, OwnedInv,
     Owned, Without
<1>13. CASE Compare
  BY <1>13 DEF Compare, Return, OwnedInv, Owned, Without
<1>14. CASE Snapshot
  BY <1>14 DEF Snapshot, Disturb, OwnedInv, Owned, Without
<1>15. CASE WriteOAuthBlob
  BY <1>15 DEF WriteOAuthBlob, Return, Disturb, OwnedInv, Owned, Types,
     JobTypes, Targeting, Without
<1>16. CASE Record
  BY <1>16 DEF Record, CallWorks, CallFails, Disturb, MarkUsed, OwnedInv,
     Owned, Without
<1>17. CASE WriteState
  BY <1>17 DEF WriteState, Disturb, OwnedInv, Owned, Without
<1>18. CASE RecordSidecar
  BY <1>18 DEF RecordSidecar, Return, OwnedInv, Owned, Without
<1>19. CASE Restore
  BY <1>19 DEF Restore, Disturb, OwnedInv, Owned, Types, DataTypes, Without
<1>20. CASE ReleaseLease
  BY <1>20 DEF ReleaseLease, Disturb, OwnedInv, Owned, Without
<1>21. CASE ClearState
  BY <1>21 DEF ClearState, OwnedInv, Owned, Without
<1>22. CASE Exit
  BY <1>22 DEF Exit, Stopped, OwnedInv, Owned, Without
<1>23. CASE Quit
  BY <1>23 DEF Quit, Disturb, OwnedInv, Owned, Without
<1>24. CASE Crash
  BY <1>24 DEF Crash, Stopped, Disturb, OwnedInv, Owned, Without
<1>25. CASE Rotate
  BY <1>25 DEF Rotate, Disturb, OwnedInv, Without
<1>26. CASE Login
  BY <1>26 DEF Login, Disturb, OwnedInv, Without
<1>27. CASE Wipe
  BY <1>27 DEF Wipe, Disturb, OwnedInv, Without
<1>28. CASE LoseLease
  BY <1>28 DEF LoseLease, Disturb, OwnedInv, Owned, Without
<1>29. CASE Activate
  BY <1>29 DEF Activate, Disturb, OwnedInv, Owned, Without
<1>30. CASE SetMode
  BY <1>30 DEF SetMode, Disturb, OwnedInv, Owned, Without
<1>31. ASSUME NEW a \in Accounts, Refresh(a)
      PROVE  OwnedInv'
  BY <1>31 DEF Refresh, Disturb, OwnedInv, Without
<1>32. ASSUME NEW a \in Accounts, PoolChange(a)
      PROVE  OwnedInv'
  BY <1>32 DEF PoolChange, Disturb, OwnedInv, Owned, Without
<1>33. ASSUME NEW a \in Accounts, UseNow(a)
      PROVE  OwnedInv'
  BY <1>33 DEF UseNow, Disturb, OwnedInv, Owned, Without
<1>34. ASSUME NEW a \in Accounts, UseNowAnywhere(a)
      PROVE  OwnedInv'
  BY <1>34 DEF UseNowAnywhere, Disturb, OwnedInv, Owned, Without
<1>35. ASSUME NEW a \in Accounts, Take(a)
      PROVE  OwnedInv'
  BY <1>35 DEF Take, Disturb, MarkUsed, OwnedInv, Owned, Without
<1>36. ASSUME NEW a \in Accounts, Give(a)
      PROVE  OwnedInv'
  BY <1>36 DEF Give, Disturb, OwnedInv, Owned, Without
<1>37. CASE UNCHANGED vars
  BY <1>37 DEF OwnedInv, Owned, Without
<1>. QED
  BY <1>1, <1>2, <1>3, <1>4, <1>5, <1>6, <1>7, <1>8, <1>9, <1>10, <1>11,
     <1>12, <1>13, <1>14, <1>15, <1>16, <1>17, <1>18, <1>19, <1>20, <1>21,
     <1>22, <1>23, <1>24, <1>25, <1>26, <1>27, <1>28, <1>29, <1>30, <1>31,
     <1>32, <1>33, <1>34, <1>35, <1>36, <1>37
  DEF Next, TickStep, QuitStep, Elsewhere

\* The typed state and the strengthening about backups hold in every behaviour.
LEMMA OwnedInvariant == Spec => [](Types /\ OwnedInv)
<1>1. Init => Types /\ OwnedInv
  BY InitTypes, InitOwned
<1>2. Types /\ OwnedInv /\ [Next]_vars => (Types /\ OwnedInv)'
  BY StepTypes, StepOwned
<1>. QED
  BY <1>1, <1>2, PTL DEF Spec

\* maybeSnapshotNative never takes an injection for the user's login, whatever
\* write fails, as long as tokens are not rotated and the list can be read.
THEOREM BackupOfNative == Spec => []BackupIsNative
<1>1. OwnedInv => BackupIsNative
  BY DEF OwnedInv, BackupIsNative
<1>. QED
  BY <1>1, OwnedInvariant, PTL

-----------------------------------------------------------------------------
\* No account is pinned at first, and the fresh ones were never used.
LEMMA InitManual == Init => ManualInv
  BY DEF Init, ManualInv

\* Every step keeps ManualInv.
LEMMA StepManual == Types /\ ManualInv /\ [Next]_vars => ManualInv'
<1>. SUFFICES ASSUME Types, ManualInv, [Next]_vars PROVE ManualInv'
  OBVIOUS
<1>. USE Names DEF vars, process, host, pool, leasing, outside, chaos
<1>1. CASE Boot
  BY <1>1 DEF Boot, ManualInv, Targeting, Without
<1>2. CASE SyncRead
  BY <1>2 DEF SyncRead, ManualInv, Without
<1>3. CASE Gate
  BY <1>3 DEF Gate, Return, CallWorks, CallFails, Disturb, ManualInv,
     Targeting, Without
<1>4. CASE BootSynced
  BY <1>4 DEF BootSynced, ManualInv, Targeting, Without
<1>5. CASE Push
  BY <1>5 DEF Push, EndSync, CallWorks, CallFails, Disturb, ManualInv,
     Targeting, Without
<1>6. CASE Pushed
  BY <1>6 DEF Pushed, EndSync, ManualInv, Targeting, Without
<1>7. CASE ChooseAuto
  BY <1>7 DEF ChooseAuto, StayOrPick, Target, ToPick, Disturb, ManualInv,
     Without
<1>8. CASE ChooseManual
  <2>1. /\ happened \subseteq happened'
        /\ UNCHANGED <<current, pin, fresh, auto>>
        /\ pc' \notin {"off", "pick"}
    BY <1>8 DEF ChooseManual, CallWorks, CallFails, Disturb, Target, Return
  <2>2. CASE \E a \in eligible : PinnedForMe(a) /\ Target(a)
    <3>1. PICK a \in eligible : PinnedForMe(a) /\ Target(a)
      BY <2>2
    <3>2. job'.account = a /\ a # None
      BY <3>1 DEF Target, Types, DataTypes
    <3>3. pin = None /\ fresh \subseteq NeverUsed => a \in NeverUsed
      BY <3>1, <3>2 DEF PinnedForMe
    <3>. QED
      BY <2>1, <3>2, <3>3 DEF ManualInv, Without
  <2>3. CASE Target(current)
    <3>1. job'.account = current
      BY <2>3 DEF Target
    <3>. QED
      BY <2>1, <3>1 DEF ManualInv, Without
  <2>4. CASE Return
    BY <2>1, <2>4 DEF Return, ManualInv, Targeting, Without
  <2>. QED
    BY <1>8, <2>2, <2>3, <2>4 DEF ChooseManual
<1>9. CASE Pick
  BY <1>9 DEF Pick, Target, Return, CallWorks, CallFails, Disturb, ManualInv,
     Without
<1>10. CASE RenewLease
  BY <1>10 DEF RenewLease, Return, CallWorks, CallFails, Disturb, ManualInv,
     Targeting, Without
<1>11. CASE NoLease
  BY <1>11 DEF NoLease, Return, ManualInv, Targeting, Without
<1>12. CASE AcquireLease
  BY <1>12 DEF AcquireLease, Return, CallWorks, CallFails, Disturb,
     ManualInv, Targeting, Without
<1>13. CASE Compare
  BY <1>13 DEF Compare, Return, ManualInv, Targeting, Without
<1>14. CASE Snapshot
  BY <1>14 DEF Snapshot, Disturb, ManualInv, Targeting, Without
<1>15. CASE WriteOAuthBlob
  BY <1>15 DEF WriteOAuthBlob, Return, Disturb, ManualInv, Targeting, Without
<1>16. CASE Record
  BY <1>16 DEF Record, CallWorks, CallFails, Disturb, MarkUsed, ManualInv,
     Without
<1>17. CASE WriteState
  BY <1>17 DEF WriteState, Disturb, ManualInv, Targeting, Without
<1>18. CASE RecordSidecar
  BY <1>18 DEF RecordSidecar, Return, ManualInv, Targeting, Without
<1>19. CASE Restore
  BY <1>19 DEF Restore, Disturb, ManualInv, Without
<1>20. CASE ReleaseLease
  BY <1>20 DEF ReleaseLease, Disturb, ManualInv, Without
<1>21. CASE ClearState
  BY <1>21 DEF ClearState, ManualInv, Without
<1>22. CASE Exit
  BY <1>22 DEF Exit, Stopped, ManualInv, Without
<1>23. CASE Quit
  BY <1>23 DEF Quit, Disturb, ManualInv, Without
<1>24. CASE Crash
  BY <1>24 DEF Crash, Stopped, Disturb, ManualInv, Without
<1>25. CASE Rotate
  BY <1>25 DEF Rotate, Disturb, ManualInv, Without
<1>26. CASE Login
  BY <1>26 DEF Login, Disturb, ManualInv, Without
<1>27. CASE Wipe
  BY <1>27 DEF Wipe, Disturb, ManualInv, Without
<1>28. CASE LoseLease
  BY <1>28 DEF LoseLease, Disturb, ManualInv, Without
<1>29. CASE Activate
  BY <1>29 DEF Activate, Disturb, ManualInv, Without
<1>30. CASE SetMode
  BY <1>30 DEF SetMode, Disturb, ManualInv, Without
<1>31. ASSUME NEW a \in Accounts, Refresh(a)
      PROVE  ManualInv'
  BY <1>31 DEF Refresh, Disturb, ManualInv, Without
<1>32. ASSUME NEW a \in Accounts, PoolChange(a)
      PROVE  ManualInv'
  BY <1>32 DEF PoolChange, Disturb, ManualInv, Without
<1>33. ASSUME NEW a \in Accounts, UseNow(a)
      PROVE  ManualInv'
  BY <1>33 DEF UseNow, Disturb, ManualInv, Without
<1>34. ASSUME NEW a \in Accounts, UseNowAnywhere(a)
      PROVE  ManualInv'
  BY <1>34 DEF UseNowAnywhere, Disturb, ManualInv, Without
<1>35. ASSUME NEW a \in Accounts, Take(a)
      PROVE  ManualInv'
  BY <1>35 DEF Take, Disturb, MarkUsed, ManualInv, Without
<1>36. ASSUME NEW a \in Accounts, Give(a)
      PROVE  ManualInv'
  BY <1>36 DEF Give, Disturb, ManualInv, Without
<1>37. CASE UNCHANGED vars
  BY <1>37 DEF ManualInv, Without
<1>. QED
  BY <1>1, <1>2, <1>3, <1>4, <1>5, <1>6, <1>7, <1>8, <1>9, <1>10, <1>11,
     <1>12, <1>13, <1>14, <1>15, <1>16, <1>17, <1>18, <1>19, <1>20, <1>21,
     <1>22, <1>23, <1>24, <1>25, <1>26, <1>27, <1>28, <1>29, <1>30, <1>31,
     <1>32, <1>33, <1>34, <1>35, <1>36, <1>37
  DEF Next, TickStep, QuitStep, Elsewhere

\* The typed state and the strengthening about the mode hold in every behaviour.
LEMMA ManualInvariant == Spec => [](Types /\ ManualInv)
<1>1. Init => Types /\ ManualInv
  BY InitTypes, InitManual
<1>2. Types /\ ManualInv /\ [Next]_vars => (Types /\ ManualInv)'
  BY StepTypes, StepManual
<1>. QED
  BY <1>1, <1>2, PTL DEF Spec

\* With auto-switch off, chooseManual never exchanges the account in use for
\* one that was in use before and that nobody pinned.
THEOREM ManualIsSticky == Spec => ManualKeepsAccount
<1>1. Types /\ ManualInv /\ [Next]_vars =>
        [~ auto /\ Without({"mode", "settings", "pin", "anypin"})
           /\ current # None /\ current' # None
           => current' = current \/ current' \in NeverUsed]_vars
  <2>. USE DEF vars, process, host, pool, leasing, outside, chaos
  <2>1. CASE Record
    BY <2>1 DEF Record, ManualInv, Targeting
  <2>2. CASE Boot
    BY <2>2 DEF Boot, ManualInv
  <2>3. CASE AcquireLease
    BY <2>3 DEF AcquireLease, LockedOut
  <2>4. CASE Exit \/ Crash
    BY <2>4 DEF Exit, Crash, Stopped
  <2>5. SyncRead \/ Gate => current' = current
    BY DEF SyncRead, Gate
  <2>6. TickStep => Record \/ AcquireLease \/ current' = current
    BY DEF TickStep, BootSynced, Push, Pushed, ChooseAuto, ChooseManual, Pick,
           RenewLease, NoLease, Compare, Snapshot, WriteOAuthBlob, WriteState,
           RecordSidecar
  <2>7. QuitStep => Exit \/ current' = current
    BY DEF QuitStep, Restore, ReleaseLease, ClearState
  <2>8. Elsewhere => Crash \/ current' = current
    BY DEF Elsewhere, Quit, Rotate, Login, Wipe, LoseLease, Activate,
       SetMode, Refresh, PoolChange, UseNow, UseNowAnywhere, Take, Give
  <2>. QED
    BY <2>1, <2>2, <2>3, <2>4, <2>5, <2>6, <2>7, <2>8 DEF Next
<1>. QED
  BY <1>1, ManualInvariant, PTL DEF Spec, ManualKeepsAccount

-----------------------------------------------------------------------------
\* What a choice leaves alone.
Kept == UNCHANGED <<quit, current, injected, keychain, stateFile, row, live>>

\* Aiming at an account takes the credential of its row.
LEMMA TargetRotation ==
    ASSUME Types, Rotations, pc \in {"choose", "pick"}, Kept,
           NEW a \in Accounts, Target(a)
    PROVE  Rotations'
<1>1. /\ pc' = "lease" /\ job'.account = a /\ job'.token = row[a]
      /\ UNCHANGED <<quit, current, injected, keychain, stateFile, row, live>>
  BY DEF Target, Kept, Types, JobTypes
<1>2. TurnInv' /\ MemoryInv' /\ FileInv'
  BY <1>1 DEF Rotations, TurnInv, MemoryInv, FileInv, Current
<1>. QED
  BY <1>1, <1>2 DEF Rotations, NotAhead

\* A turn that goes on choosing, or ends, has no credential in hand.
LEMMA ChoiceRotation ==
    ASSUME Types, Rotations, pc \in {"choose", "pick", "compare"}, Kept,
           pc' \in {"wait", "pick"}, job'.token \in {job.token, None}
    PROVE  Rotations'
<1>1. TurnInv' /\ MemoryInv' /\ FileInv'
  BY DEF Kept, Rotations, TurnInv, MemoryInv, FileInv, Current
<1>. QED
  BY <1>1 DEF Kept, Rotations, NotAhead

\* No credential is newer than its login at first.
LEMMA InitRotation == Init => RotationInv
<1>. SUFFICES ASSUME Init PROVE Rotations
  BY DEF RotationInv
<1>1. /\ quit = "no" /\ pc = "off" /\ stateFile = NoState /\ job = NoJob
      /\ live = [l \in Logins |-> 0]
      /\ row = [a \in Accounts |-> [of |-> a, gen |-> 0]]
      /\ keychain \in {None, [of |-> Native, gen |-> 0]}
  BY DEF Init
<1>2. NotAhead(keychain) /\ NotAhead(stateFile.token) /\ NotAhead(job.token)
  BY <1>1 DEF NotAhead, NoState, NoJob, Logins
<1>3. \A a \in Accounts : NotAhead(row[a])
  BY <1>1 DEF NotAhead, Logins
<1>. QED
  BY <1>1, <1>2, <1>3 DEF Rotations, TurnInv, MemoryInv, FileInv, NoState

\* Every step keeps RotationInv.
LEMMA StepRotation == Types /\ RotationInv /\ [Next]_vars => RotationInv'
<1>. SUFFICES ASSUME Types, Rotations, [Next]_vars,
                     happened' \cap {"network", "quit"} = {}
              PROVE  Rotations'
  BY Monotone DEF RotationInv, Without
<1>. USE Names DEF vars, process, host, pool, leasing, outside, chaos
<1>1. CASE Boot
  BY <1>1
     DEF Boot, Rotations, NotAhead, TurnInv, MemoryInv, FileInv, Current, Types,
         JobTypes, DataTypes, Token, Targeting
<1>2. CASE SyncRead
  BY <1>2
     DEF SyncRead, Foreign, NoJob, Rotations, NotAhead, TurnInv, MemoryInv,
         FileInv, Current, Types, JobTypes, DataTypes, Token, Targeting
<1>3. CASE Gate
  BY <1>3
     DEF Gate, Return, NoJob, CallWorks, CallFails, Disturb, Rotations, NotAhead,
         TurnInv, MemoryInv, FileInv, Current, Types, JobTypes, DataTypes, Token,
         Targeting
<1>4. CASE BootSynced
  <2>1. /\ pc = "boot" /\ pc' = "gate"
        /\ UNCHANGED <<job, quit, current, injected, keychain, stateFile, row, live>>
    BY <1>4 DEF BootSynced
  <2>2. current = None \/ keychain \in {None, injected}
    BY <1>4 DEF BootSynced, Foreign
  <2>3. current = stateFile.account /\ injected = stateFile.token
    BY <2>1 DEF Rotations, MemoryInv
  <2>4. current # None /\ stateFile.token = Current(current) => row[current] = injected
    BY <2>1, <2>2, <2>3 DEF Rotations, FileInv
  <2>5. current # None /\ keychain = Current(current) => row[current] = injected
    <3>1. Current(current) # None \/ current = None
      BY DEF Current, Types, DataTypes, Token, Logins
    <3>. QED
      BY <2>2, <2>3, <2>4, <3>1
  <2>6. TurnInv' /\ MemoryInv'
    BY <2>1, <2>3, <2>5 DEF TurnInv, MemoryInv, Current
  <2>7. FileInv'
    BY <2>1, <2>3, <2>4 DEF FileInv, Current
  <2>. QED
    BY <2>1, <2>6, <2>7 DEF Rotations, NotAhead
<1>5. CASE Push
  <2>1. /\ pc = "push" /\ pc' = "pushed"
        /\ row' = [row EXCEPT ![job.account] = job.token]
        /\ UNCHANGED <<job, current, injected, quit, keychain, stateFile, live>>
    BY <1>5 DEF Push, CallWorks, CallFails, Disturb, Rotations
  <2>. QED
    BY <2>1
       DEF Rotations, NotAhead, TurnInv, MemoryInv, FileInv, Current, Types,
           JobTypes, DataTypes, Token, Targeting
<1>6. CASE Pushed
  BY <1>6
     DEF Pushed, EndSync, NoJob, Rotations, NotAhead, TurnInv, MemoryInv, FileInv,
         Current, Types, JobTypes, DataTypes, Token, Targeting
<1>7. CASE ChooseAuto
  <2>1. pc = "choose" /\ Kept
    BY <1>7 DEF ChooseAuto, Kept
  <2>2. CASE \E a \in eligible : Target(a)
    BY <2>1, <2>2, TargetRotation DEF Types, DataTypes
  <2>3. CASE ToPick
    BY <2>1, <2>3, ChoiceRotation DEF ToPick
  <2>. QED
    BY <1>7, <2>2, <2>3 DEF ChooseAuto, StayOrPick, Stays
<1>8. CASE ChooseManual
  <2>1. pc = "choose" /\ Kept
    BY <1>8 DEF ChooseManual, Kept
  <2>2. CASE \E a \in eligible : Target(a)
    BY <2>1, <2>2, TargetRotation DEF Types, DataTypes
  <2>3. CASE Return
    BY <2>1, <2>3, ChoiceRotation DEF Return, NoJob
  <2>. QED
    BY <1>8, <2>2, <2>3 DEF ChooseManual
<1>9. CASE Pick
  <2>1. pc = "pick" /\ Kept
    BY <1>9 DEF Pick, Kept
  <2>2. CASE \E a \in eligible : Target(a)
    BY <2>1, <2>2, TargetRotation DEF Types, DataTypes
  <2>3. CASE Return
    BY <2>1, <2>3, ChoiceRotation DEF Return, NoJob
  <2>. QED
    BY <1>9, <2>2, <2>3 DEF Pick, Firsts
<1>10. CASE RenewLease
  BY <1>10
     DEF RenewLease, Return, NoJob, CallWorks, CallFails, Disturb, Rotations,
         NotAhead, TurnInv, MemoryInv, FileInv, Current, Types, JobTypes,
         DataTypes, Token, Targeting
<1>11. CASE NoLease
  BY <1>11
     DEF NoLease, Return, NoJob, Rotations, NotAhead, TurnInv, MemoryInv, FileInv,
         Current, Types, JobTypes, DataTypes, Token, Targeting
<1>12. CASE AcquireLease
  BY <1>12
     DEF AcquireLease, LockedOut, Return, NoJob, CallWorks, CallFails, Disturb,
         Rotations, NotAhead, TurnInv, MemoryInv, FileInv, Current, Types,
         JobTypes, DataTypes, Token, Targeting
<1>13. CASE Compare
  <2>1. /\ pc = "compare"
        /\ UNCHANGED <<quit, current, injected, keychain, stateFile, row, live>>
    BY <1>13 DEF Compare
  <2>2. CASE Return
    BY <2>1, <2>2, ChoiceRotation DEF Return, NoJob, Kept
  <2>3. CASE pc' = "snapshot" /\ job' = job /\ ~ (Unchanged /\ ~ Vanished)
    <3>1. current = job.account => keychain # Current(current)
      <4>. SUFFICES ASSUME current = job.account, keychain = Current(current)
                    PROVE  FALSE
        OBVIOUS
      <4>1. current # None /\ keychain # None
        <5>1. current \in Accounts /\ live[current] \in 0 .. MaxGen
          BY <2>1 DEF Types, JobTypes, Targeting, DataTypes, Logins
        <5>2. [of |-> current, gen |-> live[current]] \in Token
          BY <5>1 DEF Token, Logins
        <5>. QED
          BY <5>1, <5>2 DEF Current
      <4>2. row[current] = job.token /\ row[current] = injected
        BY <2>1, <4>1 DEF Rotations, TurnInv, MemoryInv
      <4>. QED
        BY <2>3, <4>1, <4>2 DEF Unchanged, Vanished
    <3>2. TurnInv'
      BY <2>1, <2>3, <3>1 DEF Rotations, TurnInv, Current
    <3>3. MemoryInv' /\ FileInv'
      BY <2>1, <2>3 DEF Rotations, MemoryInv, FileInv, Current
    <3>. QED
      BY <2>1, <2>3, <3>2, <3>3 DEF Rotations, NotAhead
  <2>. QED
    BY <1>13, <2>2, <2>3 DEF Compare
<1>14. CASE Snapshot
  BY <1>14
     DEF Snapshot, Disturb, Rotations, NotAhead, TurnInv, MemoryInv, FileInv,
         Current, Types, JobTypes, DataTypes, Token, Targeting
<1>15. CASE WriteOAuthBlob
  BY <1>15
     DEF WriteOAuthBlob, Return, NoJob, Disturb, Rotations, NotAhead, TurnInv,
         MemoryInv, FileInv, Current, Types, JobTypes, DataTypes, Token, Targeting
<1>16. CASE Record
  BY <1>16
     DEF Record, MarkUsed, CallWorks, CallFails, Disturb, Rotations, NotAhead,
         TurnInv, MemoryInv, FileInv, Current, Types, JobTypes, DataTypes, Token,
         Targeting
<1>17. CASE WriteState
  BY <1>17
     DEF WriteState, Disturb, Rotations, NotAhead, TurnInv, MemoryInv, FileInv,
         Current, Types, JobTypes, DataTypes, Token, Targeting
<1>18. CASE RecordSidecar
  BY <1>18
     DEF RecordSidecar, Return, NoJob, Rotations, NotAhead, TurnInv, MemoryInv,
         FileInv, Current, Types, JobTypes, DataTypes, Token, Targeting
<1>19. CASE Restore
  BY <1>19
     DEF Restore, Disturb, Rotations, NotAhead, TurnInv, MemoryInv, FileInv,
         Current, Types, JobTypes, DataTypes, Token, Targeting
<1>20. CASE ReleaseLease
  BY <1>20
     DEF ReleaseLease, Disturb, Rotations, NotAhead, TurnInv, MemoryInv, FileInv,
         Current, Types, JobTypes, DataTypes, Token, Targeting
<1>21. CASE ClearState
  BY <1>21
     DEF ClearState, Rotations, NotAhead, TurnInv, MemoryInv, FileInv, Current,
         Types, JobTypes, DataTypes, Token, Targeting
<1>22. CASE Exit
  BY <1>22
     DEF Exit, Stopped, Rotations, NotAhead, TurnInv, MemoryInv, FileInv, Current,
         Types, JobTypes, DataTypes, Token, Targeting
<1>23. CASE Quit
  BY <1>23
     DEF Quit, Disturb, Rotations, NotAhead, TurnInv, MemoryInv, FileInv, Current,
         Types, JobTypes, DataTypes, Token, Targeting
<1>24. CASE Crash
  BY <1>24
     DEF Crash, Stopped, Disturb, NoJob, Rotations, NotAhead, TurnInv, MemoryInv,
         FileInv, Current, Types, JobTypes, DataTypes, Token, Targeting
<1>25. CASE Rotate
  BY <1>25
     DEF Rotate, Disturb, Rotations, NotAhead, TurnInv, MemoryInv, FileInv,
         Current, Types, JobTypes, DataTypes, Token, Targeting
<1>26. CASE Login
  <2>1. /\ live' = [live EXCEPT ![Native] = @ + 1]
        /\ keychain' = [of |-> Native, gen |-> live[Native] + 1]
        /\ UNCHANGED <<pc, job, quit, current, injected, stateFile, row>>
    BY <1>26 DEF Login
  <2>2. \A a \in Accounts : Current(a)' = Current(a) /\ keychain' # Current(a)
    BY <2>1 DEF Current, Types, DataTypes, Logins
  <2>3. \A t \in Token \cup {None} : NotAhead(t) => NotAhead(t)'
    BY <2>1 DEF NotAhead, Types, DataTypes, Token
  <2>4. keychain' # stateFile.token /\ keychain' # None
    <3>1. live[Native] \in Nat
      BY DEF Types, DataTypes, Logins
    <3>2. keychain'.of = Native /\ keychain'.gen = live[Native] + 1
      BY <2>1
    <3>3. keychain' \in Token
      BY <1>26, <3>1 DEF Login, Logins, Token
    <3>4. keychain' # stateFile.token
      <4>. SUFFICES ASSUME keychain' = stateFile.token PROVE FALSE
        OBVIOUS
      <4>1. stateFile.token.gen <= live[stateFile.token.of]
        BY <3>3 DEF Rotations, NotAhead
      <4>. QED
        BY <3>1, <3>2, <4>1
    <3>. QED
      BY <3>3, <3>4
  <2>5. NotAhead(keychain)'
    BY <2>1 DEF NotAhead, Types, DataTypes, Logins
  <2>6. /\ NotAhead(stateFile.token)' /\ NotAhead(job.token)'
        /\ \A a \in Accounts : NotAhead(row[a])'
    BY <2>1, <2>3 DEF Rotations, Types, JobTypes, DataTypes
  <2>7. TurnInv' /\ MemoryInv' /\ FileInv'
    BY <2>1, <2>2, <2>4
       DEF Rotations, TurnInv, MemoryInv, FileInv, Types, JobTypes, DataTypes,
           Targeting
  <2>. QED
    BY <2>1, <2>5, <2>6, <2>7 DEF Rotations
<1>27. CASE Wipe
  <2>1. /\ pc = "wait" /\ keychain' = None
        /\ UNCHANGED <<pc, job, quit, current, injected, stateFile, row, live>>
    BY <1>27 DEF Wipe
  <2>2. \A a \in Accounts : Current(a)' = Current(a) /\ Current(a) # None
    BY <2>1 DEF Current, Types, DataTypes, Token, Logins
  <2>3. TurnInv' /\ MemoryInv' /\ FileInv'
    BY <2>1, <2>2 DEF Rotations, TurnInv, MemoryInv, FileInv, Types, DataTypes
  <2>. QED
    BY <2>1, <2>3 DEF Rotations, NotAhead
<1>28. CASE LoseLease
  BY <1>28
     DEF LoseLease, Disturb, Rotations, NotAhead, TurnInv, MemoryInv, FileInv,
         Current, Types, JobTypes, DataTypes, Token, Targeting
<1>29. CASE Activate
  BY <1>29
     DEF Activate, Disturb, Rotations, NotAhead, TurnInv, MemoryInv, FileInv,
         Current, Types, JobTypes, DataTypes, Token, Targeting
<1>30. CASE SetMode
  BY <1>30
     DEF SetMode, Disturb, Rotations, NotAhead, TurnInv, MemoryInv, FileInv,
         Current, Types, JobTypes, DataTypes, Token, Targeting
<1>31. ASSUME NEW a \in Accounts, Refresh(a)
      PROVE  Rotations'
  BY <1>31
     DEF Refresh, Disturb, Rotations, NotAhead, TurnInv, MemoryInv, FileInv,
         Current, Types, JobTypes, DataTypes, Token, Targeting
<1>32. ASSUME NEW a \in Accounts, PoolChange(a)
      PROVE  Rotations'
  BY <1>32
     DEF PoolChange, Disturb, Rotations, NotAhead, TurnInv, MemoryInv, FileInv,
         Current, Types, JobTypes, DataTypes, Token, Targeting
<1>33. ASSUME NEW a \in Accounts, UseNow(a)
      PROVE  Rotations'
  BY <1>33
     DEF UseNow, Disturb, Rotations, NotAhead, TurnInv, MemoryInv, FileInv,
         Current, Types, JobTypes, DataTypes, Token, Targeting
<1>34. ASSUME NEW a \in Accounts, UseNowAnywhere(a)
      PROVE  Rotations'
  BY <1>34
     DEF UseNowAnywhere, Disturb, Rotations, NotAhead, TurnInv, MemoryInv,
         FileInv, Current, Types, JobTypes, DataTypes, Token, Targeting
<1>35. ASSUME NEW a \in Accounts, Take(a)
      PROVE  Rotations'
  BY <1>35
     DEF Take, Disturb, MarkUsed, Rotations, NotAhead, TurnInv, MemoryInv,
         FileInv, Current, Types, JobTypes, DataTypes, Token, Targeting
<1>36. ASSUME NEW a \in Accounts, Give(a)
      PROVE  Rotations'
  BY <1>36
     DEF Give, Disturb, Rotations, NotAhead, TurnInv, MemoryInv, FileInv, Current,
         Types, JobTypes, DataTypes, Token, Targeting
<1>37. CASE UNCHANGED vars
  BY <1>37
     DEF Rotations, NotAhead, TurnInv, MemoryInv, FileInv, Current, Types,
         JobTypes, DataTypes, Token, Targeting
<1>. QED
  BY <1>1, <1>2, <1>3, <1>4, <1>5, <1>6, <1>7, <1>8, <1>9, <1>10, <1>11, <1>12,
     <1>13, <1>14, <1>15, <1>16, <1>17, <1>18, <1>19, <1>20, <1>21, <1>22, <1>23,
     <1>24, <1>25, <1>26, <1>27, <1>28, <1>29, <1>30, <1>31, <1>32, <1>33, <1>34,
     <1>35, <1>36, <1>37
  DEF Next, TickStep, QuitStep, Elsewhere

\* The rotation strengthening holds in every behaviour.
LEMMA RotationInvariant == Spec => [](Types /\ RotationInv)
<1>1. Init => Types /\ RotationInv
  BY InitTypes, InitRotation
<1>2. Types /\ RotationInv /\ [Next]_vars => (Types /\ RotationInv)'
  BY StepTypes, StepRotation
<1>. QED
  BY <1>1, <1>2, PTL DEF Spec

\* An account is injected anew (reconcileWithIdle's compare and write) without
\* destroying the token Claude Code rotated it to: with the answers of the vault
\* received and no shutdown hook run, the live credential is the row's whenever
\* the write is reached.
THEOREM RotationIsKept == Spec => ReinjectionKeepsRotation
<1>1. Types /\ RotationInv /\ [Next]_vars =>
        [Injects /\ current = job.account /\ Known(current) /\ Without({"network", "quit"})
           => Known(current)']_vars
  <2>. SUFFICES ASSUME Types, RotationInv, Next, Injects, current = job.account,
                       Known(current), Without({"network", "quit"})
                PROVE  Known(current)'
    OBVIOUS
  <2>1. WriteOAuthBlob
    <3>. USE DEF Injects
    <3>1. ~ (Boot \/ SyncRead \/ Gate)
      BY DEF Boot, SyncRead, Gate
    <3>2. TickStep => WriteOAuthBlob
      BY DEF TickStep, BootSynced, Push, Pushed, ChooseAuto, ChooseManual, Pick,
             RenewLease, NoLease, AcquireLease, Compare, Snapshot, Record,
             WriteState, RecordSidecar
    <3>3. ~ QuitStep
      BY DEF QuitStep, Restore, ReleaseLease, ClearState, Exit, Stopped
    <3>4. ~ Elsewhere
      BY DEF Elsewhere, Quit, Crash, Stopped, Rotate, Login, Wipe, LoseLease,
             Activate, SetMode, Refresh, PoolChange, UseNow, UseNowAnywhere,
             Take, Give, process
    <3>. QED
      BY <3>1, <3>2, <3>3, <3>4 DEF Next
  <2>2. keychain # Current(current)
    BY DEF RotationInv, Rotations, TurnInv, Injects
  <2>3. row[current] = Current(current)
    BY <2>2 DEF Known
  <2>. QED
    BY <2>1, <2>3 DEF WriteOAuthBlob, Known, Current, pool, outside
<1>. QED
  BY <1>1, RotationInvariant, PTL DEF Spec, ReinjectionKeepsRotation

=============================================================================
