----------------------------- MODULE Coordinator -----------------------------
(***************************************************************************)
(* The agent's Claude coordinator (credinject): one goroutine that picks   *)
(* an account at the vault, leases it, writes its credential into Claude   *)
(* Code's store and pulls rotated tokens back, and the shutdown hook that  *)
(* puts the user's own login back.                                         *)
(*                                                                         *)
(* One device is modelled in full: its process, which may crash between    *)
(* any two steps, the files that outlive it, and Claude Code's credential. *)
(* The vault is reduced to the rows and the lease this device sees; other  *)
(* devices, the user, Claude Code, the refresh scheduler and the network   *)
(* are disturbances that may strike between any two steps.                 *)
(*                                                                         *)
(* A credential is the account that issued it and a generation: refresh    *)
(* tokens are one-time, so a rotation makes the generation before it dead. *)
(* The managed API key and ~/.claude.json travel with the credential and   *)
(* are left out, and so are the activity bus and the log.                  *)
(***************************************************************************)
EXTENDS Naturals, FiniteSets

CONSTANTS
    Accounts,         \* Claude accounts of the pool
    Native,           \* the user's own login
    None,             \* an absent account or credential
    NoBackup,         \* no native-cred-backup.json
    FileBackend,      \* .credentials.json (TRUE) or the macOS Keychain (FALSE)
    AutoSwitch,       \* the values auto_switch.enabled may start with
    Util,             \* selector rank of each account: degraded tier, 7-day use
    NeverUsed,        \* accounts that start with last_used_at = 0
    MaxGen,           \* bound: rotations of one login
    Disturbances,     \* bound: the kinds of disturbance that happen
    MaxDisturbances   \* bound: how many of them

Logins == Accounts \cup {Native}
Token == [of : Logins, gen : 0 .. MaxGen]

ASSUME CoordinatorAssumption ==
    /\ FileBackend \in BOOLEAN /\ AutoSwitch \subseteq BOOLEAN
    /\ Util \in [Accounts -> Nat]
    /\ IsFiniteSet(Accounts) /\ NeverUsed \subseteq Accounts
    /\ MaxGen \in Nat /\ MaxDisturbances \in Nat
    /\ Native \notin Accounts
    /\ None \notin Logins \cup Token
    /\ NoBackup \notin Token \cup {None}

VARIABLES
    pc, booting,            \* where the goroutine is; TRUE until bootstrap ends
    current, injected,      \* currentAccountID, lastAccessHash
    lease,                  \* account of currentLeaseID
    job,                    \* locals of the tick: target account, token, active
    quit,                   \* the shutdown hook
    keychain,               \* what Claude Code's credential store holds
    backup, stateFile,      \* native-cred-backup.json, injected.json
    sidecar,                \* marker-last-write.json exists
    row, eligible,          \* token of each account's row; selector.IsEligible
    lru, fresh, pin,        \* places in order of last_used_at, those at 0, our device pin
    mine, foreign,          \* live leases of this device and of other devices
    live,                   \* the generation each login's provider accepts
    busy,                   \* local activity is younger than idleThreshold
    auto,                   \* auto_switch.enabled
    left, happened          \* disturbances still to come; kinds that came

process == <<pc, booting, current, injected, lease, job, quit>>
host    == <<keychain, backup, stateFile, sidecar>>
pool    == <<row, eligible, lru, fresh, pin>>
leasing == <<mine, foreign>>
outside == <<live, busy, auto>>
chaos   == <<left, happened>>
vars    == <<process, host, pool, leasing, outside, chaos>>

-----------------------------------------------------------------------------
NoJob == [account |-> None, token |-> None, active |-> FALSE]
NoState == [account |-> None, token |-> None]
Current(a) == [of |-> a, gen |-> live[a]]

Disturb(kind) ==
    /\ kind \in Disturbances /\ left > 0
    /\ left' = left - 1 /\ happened' = happened \cup {kind}

\* A call to the vault: shutdown cancels the context of every later call.
CallWorks == quit = "no" /\ UNCHANGED chaos
CallFails == \/ quit # "no" /\ UNCHANGED chaos
             \/ quit = "no" /\ Disturb("network")

Return == pc' = "wait" /\ job' = NoJob

\* The places of the accounts in the order of last_used_at.
Orders == {order \in [Accounts -> 1 .. Cardinality(Accounts)] :
             \A a, b \in Accounts : order[a] = order[b] => a = b}

\* store.MarkUsed: the account takes the last place, those behind it move up.
\* (mutant: nobody moves up)
MarkUsedTwice(a) ==
    /\ lru' = [lru EXCEPT ![a] = Cardinality(Accounts)]
    /\ fresh' = fresh \ {a}
    /\ pin' = IF pin = a THEN None ELSE pin
    /\ UNCHANGED <<row, eligible>>
MarkUsed(a) ==
    /\ lru' = [b \in Accounts |-> IF b = a THEN Cardinality(Accounts)
                                  ELSE IF lru[b] > lru[a] THEN lru[b] - 1 ELSE lru[b]]
    /\ fresh' = fresh \ {a}
    /\ pin' = IF pin = a THEN None ELSE pin
    /\ UNCHANGED <<row, eligible>>

\* The selector's order: our pin, then rank, then least recently used.
UsedAt(a) == IF a \in fresh THEN 0 ELSE lru[a]
Before(a, b) ==
    \/ pin = a
    \/ pin # b /\ Util[a] < Util[b]
    \/ pin # b /\ Util[a] = Util[b] /\ UsedAt(a) <= UsedAt(b)
Firsts(S) == {a \in S : \A b \in S \ {a} : Before(a, b)}

\* The coordinator's own reading of pins: any never-used account counts.
PinnedForMe(a) == pin = a \/ (pin # a /\ a \in fresh)
PinnedToMe == pin \in eligible

-----------------------------------------------------------------------------
Init ==
    /\ pc = "off" /\ booting = FALSE
    /\ current = None /\ injected = None /\ lease = None /\ job = NoJob
    /\ quit = "no"
    /\ keychain \in {None, [of |-> Native, gen |-> 0]}
    /\ backup = NoBackup /\ stateFile = NoState /\ sidecar = FALSE
    /\ row = [a \in Accounts |-> [of |-> a, gen |-> 0]]
    /\ eligible = Accounts
    /\ lru \in Orders
    /\ fresh = NeverUsed /\ pin = None
    /\ mine = None /\ foreign = {}
    /\ live = [l \in Logins |-> 0] /\ busy \in BOOLEAN
    /\ auto \in AutoSwitch
    /\ left = MaxDisturbances /\ happened = {}

-----------------------------------------------------------------------------
(* bootstrap and reverseSync. *)

\* loadState
Boot ==
    /\ pc = "off"
    /\ pc' = "boot" /\ booting' = TRUE /\ quit' = "no"
    /\ current' = stateFile.account /\ injected' = stateFile.token
    /\ UNCHANGED <<lease, job, host, pool, leasing, outside, chaos>>

\* reverseSync finds a credential that is not the one last injected.
Foreign == current # None /\ keychain \notin {None, injected}

SyncRead ==
    /\ pc \in {"wait", "boot"} /\ Foreign
    /\ pc' = "push"
    /\ job' = [NoJob EXCEPT !.account = current, !.token = keychain]
    /\ UNCHANGED <<booting, current, injected, lease, quit,
                   host, pool, leasing, outside, chaos>>

BootSynced ==
    /\ pc = "boot" /\ ~ Foreign
    /\ pc' = "gate"
    /\ UNCHANGED <<booting, current, injected, lease, job, quit,
                   host, pool, leasing, outside, chaos>>

EndSync == pc' = (IF booting THEN "gate" ELSE "wait") /\ job' = NoJob

\* svc.UpdateTokens, whose answer may be lost after the row was written.
Push ==
    /\ pc = "push"
    /\ \/ CallWorks /\ pc' = "pushed" /\ job' = job
          /\ row' = [row EXCEPT ![job.account] = job.token]
       \/ CallFails /\ EndSync /\ row' \in
            {row, IF quit = "no" THEN [row EXCEPT ![job.account] = job.token]
                                 ELSE row}
    /\ UNCHANGED <<booting, current, injected, lease, quit, host,
                   eligible, lru, fresh, pin, leasing, outside>>

Pushed ==
    /\ pc = "pushed"
    /\ injected' = job.token
    /\ stateFile' = [account |-> job.account, token |-> job.token]
    /\ EndSync
    /\ UNCHANGED <<booting, current, lease, quit, keychain, backup, sidecar,
                   pool, leasing, outside, chaos>>

-----------------------------------------------------------------------------
(* reconcileWithIdle, down to the lease. *)

\* The first reconcile counts as active when bootstrapNeedsCredential says so:
\* always without a credential, possibly with one that may have expired.
Activity ==
    IF ~ booting THEN {busy} ELSE IF keychain = None THEN {TRUE} ELSE {busy, TRUE}

Gate ==
    /\ pc \in {"wait", "gate"}
    /\ booting' = FALSE
    /\ \E active \in Activity :
         \/ /\ active \/ lease # None
            /\ pc' = "choose" /\ job' = [NoJob EXCEPT !.active = active]
            /\ UNCHANGED chaos
         \/ /\ ~ active /\ lease = None /\ PinnedToMe /\ CallWorks
            /\ pc' = "choose" /\ job' = [NoJob EXCEPT !.active = TRUE]
         \/ /\ ~ active /\ lease = None
            /\ \/ ~ PinnedToMe /\ CallWorks
               \/ CallFails
            /\ Return
    /\ UNCHANGED <<current, injected, lease, quit, host, pool, leasing, outside>>

Target(a) ==
    pc' = "lease" /\ job' = [job EXCEPT !.account = a, !.token = row[a]]

\* choose, automatic mode: stay, unless another account is pinned.  A setting
\* that cannot be read counts as automatic.
\* (mutant: the choice does not stick)
StaysNever == FALSE
Stays == /\ current \in eligible
         /\ ~ \E a \in eligible \ {current} : PinnedForMe(a)
ToPick == pc' = "pick" /\ job' = job
StayOrPick == IF Stays THEN Target(current) ELSE ToPick

ChooseAuto ==
    /\ pc = "choose"
    /\ \/ auto /\ CallWorks /\ StayOrPick
       \/ auto /\ CallFails /\ ToPick
       \/ Disturb("settings") /\ StayOrPick
    /\ UNCHANGED <<booting, current, injected, lease, quit,
                   host, pool, leasing, outside>>

\* chooseManual: a pinned account, else the current one, else nothing.
\* (mutant: without a choice of the user, any account will do)
ChooseManualOrPick ==
    LET pinned == {a \in eligible : PinnedForMe(a)}
    IN  /\ pc = "choose" /\ ~ auto
        /\ \/ CallWorks /\ \E a \in pinned : Target(a)
           \/ CallWorks /\ pinned = {} /\ current \in eligible /\ Target(current)
           \/ CallWorks /\ pinned = {} /\ current \notin eligible /\ ToPick
           \/ CallFails /\ Return
        /\ UNCHANGED <<booting, current, injected, lease, quit,
                       host, pool, leasing, outside>>

ChooseManual ==
    LET pinned == {a \in eligible : PinnedForMe(a)}
    IN  /\ pc = "choose" /\ ~ auto
        /\ \/ CallWorks /\ \E a \in pinned : Target(a)
           \/ CallWorks /\ pinned = {} /\ current \in eligible /\ Target(current)
           \/ CallWorks /\ pinned = {} /\ current \notin eligible /\ Return
           \/ CallFails /\ Return
        /\ UNCHANGED <<booting, current, injected, lease, quit,
                       host, pool, leasing, outside>>

\* PickForDevice.  An exhausted pool may yield an account whose holder idles.
Pick ==
    LET free == eligible \ foreign
    IN  /\ pc = "pick"
        /\ \/ CallWorks /\ \E a \in Firsts(free) : Target(a) /\ UNCHANGED foreign
           \/ /\ CallWorks /\ free = {}
              /\ \E a \in eligible : Target(a) /\ foreign' = foreign \ {a}
           \/ CallWorks /\ free = {} /\ Return /\ UNCHANGED foreign
           \/ CallFails /\ Return /\ UNCHANGED foreign
        /\ UNCHANGED <<booting, current, injected, lease, quit,
                       host, pool, mine, outside>>

\* refreshLease renews only the lease it holds for the target account.
\* (mutant: it renews whatever it holds)
HoldsAny == lease # None
Holds == lease # None /\ current = job.account

RenewLease ==
    /\ pc = "lease" /\ Holds
    /\ \/ /\ CallWorks /\ mine = lease
          /\ pc' = "compare" /\ UNCHANGED <<job, lease>>
       \/ /\ (CallWorks /\ mine # lease) \/ CallFails
          /\ IF job.active THEN pc' = "acquire" /\ UNCHANGED <<job, lease>>
                           ELSE Return /\ lease' = None
    /\ UNCHANGED <<booting, current, injected, quit,
                   host, pool, leasing, outside>>

NoLease ==
    /\ pc = "lease" /\ ~ Holds
    /\ IF job.active THEN pc' = "acquire" /\ UNCHANGED job ELSE Return
    /\ UNCHANGED <<booting, current, injected, lease, quit,
                   host, pool, leasing, outside, chaos>>

\* Another device has the account.
\* (mutant: the current account sticks)
LockedOutSticky == lease' = None /\ UNCHANGED current
LockedOut == lease' = None /\ current' = None

\* A grant ends the device's other Claude lease at the vault; the release of
\* oldLeaseID that follows finds it gone.
AcquireLease ==
    /\ pc = "acquire"
    /\ \/ /\ CallWorks /\ job.account \notin foreign
          /\ mine' = job.account /\ lease' = job.account
          /\ pc' = "compare" /\ UNCHANGED <<current, job>>
       \/ /\ CallWorks /\ job.account \in foreign
          /\ LockedOut
          /\ Return /\ UNCHANGED mine
       \/ /\ CallFails /\ Return /\ UNCHANGED <<current, lease>>
          /\ mine' \in {mine, IF quit = "no" /\ job.account \notin foreign
                              THEN job.account ELSE mine}
    /\ UNCHANGED <<booting, injected, quit, host, pool, foreign, outside>>

-----------------------------------------------------------------------------
(* reconcileWithIdle, the injection. *)

Unchanged == current = job.account /\ injected = job.token
\* credentialsVanished: only a missing file counts, not an overwritten one.
\* (mutants: an overwritten file counts too; nothing counts)
VanishedOrOverwritten == FileBackend /\ sidecar /\ keychain # injected
VanishedNever == FALSE
Vanished == FileBackend /\ sidecar /\ keychain = None

Compare ==
    /\ pc = "compare"
    /\ IF Unchanged /\ ~ Vanished THEN Return
                                  ELSE pc' = "snapshot" /\ job' = job
    /\ UNCHANGED <<booting, current, injected, lease, quit,
                   host, pool, leasing, outside, chaos>>

\* maybeSnapshotNative; isFoxyOwned compares with the tokens of the rows, and
\* takes the credential for a native one when the list cannot be read.
\* (mutants: it knows no credential as foxy's; it takes every one for foxy's)
OwnedNever == FALSE
OwnedAlways == keychain # None
Owned == \E a \in Accounts : row[a] = keychain

Snapshot ==
    /\ pc = "snapshot" /\ pc' = "write"
    /\ \/ backup = NoBackup /\ ~ Owned /\ backup' = keychain /\ UNCHANGED chaos
       \/ backup = NoBackup /\ Owned /\ Disturb("network") /\ backup' = keychain
       \/ (backup # NoBackup \/ Owned) /\ UNCHANGED <<backup, chaos>>
       \/ Disturb("disk") /\ UNCHANGED backup
    /\ UNCHANGED <<booting, current, injected, lease, job, quit,
                   keychain, stateFile, sidecar, pool, leasing, outside>>

WriteOAuthBlob ==
    /\ pc = "write"
    /\ \/ keychain' = job.token /\ pc' = "record" /\ UNCHANGED <<job, chaos>>
       \/ Disturb("disk") /\ Return /\ UNCHANGED keychain
    /\ UNCHANGED <<booting, current, injected, lease, quit,
                   backup, stateFile, sidecar, pool, leasing, outside>>

\* (mutant: a failed MarkUsed ends the tick before the memory is updated)
RecordOrReturn ==
    /\ pc = "record"
    /\ \/ /\ pc' = "save" /\ job' = job
          /\ current' = job.account /\ injected' = job.token
          /\ \/ current = job.account /\ UNCHANGED <<pool, chaos>>
             \/ current # job.account /\ CallWorks /\ MarkUsed(job.account)
       \/ /\ current # job.account /\ CallFails /\ Return
          /\ UNCHANGED <<current, injected, pool>>
    /\ UNCHANGED <<booting, lease, quit, host, leasing, outside>>

Record ==
    /\ pc = "record" /\ pc' = "save"
    /\ current' = job.account /\ injected' = job.token
    /\ \/ current = job.account /\ UNCHANGED <<pool, chaos>>
       \/ current # job.account /\ CallWorks /\ MarkUsed(job.account)
       \/ current # job.account /\ CallFails /\ UNCHANGED pool
    /\ UNCHANGED <<booting, lease, job, quit, host, leasing, outside>>

WriteState ==
    /\ pc = "save" /\ pc' = "sidecar"
    /\ \/ /\ stateFile' = [account |-> job.account, token |-> job.token]
          /\ UNCHANGED chaos
       \/ Disturb("disk") /\ UNCHANGED stateFile
    /\ UNCHANGED <<booting, current, injected, lease, job, quit,
                   keychain, backup, sidecar, pool, leasing, outside>>

\* recordMarkerSidecar needs the file it just wrote to be there.
RecordSidecar ==
    /\ pc = "sidecar"
    /\ sidecar' = (sidecar \/ (FileBackend /\ keychain # None))
    /\ Return
    /\ UNCHANGED <<booting, current, injected, lease, quit,
                   keychain, backup, stateFile, pool, leasing, outside, chaos>>

-----------------------------------------------------------------------------
(* RestoreOnShutdown: it does not wait for the goroutine. *)

Quit ==
    /\ pc # "off" /\ quit = "no" /\ Disturb("quit")
    /\ quit' = "restore"
    /\ UNCHANGED <<pc, booting, current, injected, lease, job,
                   host, pool, leasing, outside>>

\* restoreLocked.  Without a backup its errors are ignored; with one, a failure
\* to put back the credential or what goes with it ends the hook.
Restore ==
    LET native == IF backup = NoBackup THEN None ELSE backup
    IN  /\ quit = "restore"
        /\ sidecar' = FALSE
        /\ \/ keychain' = native /\ quit' = "release" /\ UNCHANGED chaos
           \/ /\ Disturb("disk") /\ keychain' \in {keychain, native}
              /\ quit' = IF backup = NoBackup THEN "release" ELSE "exit"
        /\ UNCHANGED <<pc, booting, current, injected, lease, job,
                       backup, stateFile, pool, leasing, outside>>

ReleaseLease ==
    /\ quit = "release" /\ quit' = "clear"
    /\ lease' = None
    /\ \/ mine' = (IF mine = lease THEN None ELSE mine) /\ UNCHANGED chaos
       \/ lease # None /\ Disturb("network") /\ UNCHANGED mine
    /\ UNCHANGED <<pc, booting, current, injected, job,
                   host, pool, foreign, outside>>

ClearState ==
    /\ quit = "clear" /\ quit' = "exit"
    /\ stateFile' = NoState
    /\ UNCHANGED <<pc, booting, current, injected, lease, job,
                   keychain, backup, sidecar, pool, leasing, outside, chaos>>

Stopped ==
    /\ pc' = "off" /\ booting' = FALSE
    /\ current' = None /\ injected' = None /\ lease' = None /\ job' = NoJob
    /\ UNCHANGED <<host, pool, leasing, outside>>

Exit  == quit = "exit" /\ quit' = "done" /\ Stopped /\ UNCHANGED chaos
Crash == pc # "off" /\ Disturb("crash") /\ quit' = "no" /\ Stopped

-----------------------------------------------------------------------------
(* Everybody else. *)

\* Claude Code spends the refresh token of the credential it finds.
Rotate ==
    /\ Disturb("rotate")
    /\ keychain # None /\ keychain = Current(keychain.of)
    /\ keychain.gen < MaxGen
    /\ live' = [live EXCEPT ![keychain.of] = @ + 1]
    /\ keychain' = [keychain EXCEPT !.gen = @ + 1]
    /\ UNCHANGED <<process, backup, stateFile, sidecar, pool, leasing, busy, auto>>

\* `claude /login` with the user's own account.
Login ==
    /\ Disturb("login") /\ live[Native] < MaxGen
    /\ live' = [live EXCEPT ![Native] = @ + 1]
    /\ keychain' = [of |-> Native, gen |-> live[Native] + 1]
    /\ UNCHANGED <<process, backup, stateFile, sidecar, pool, leasing, busy, auto>>

\* A logout or a wiped home directory, between two ticks.
Wipe ==
    /\ pc = "wait" /\ Disturb("wipe")
    /\ keychain # None /\ keychain' = None
    /\ UNCHANGED <<process, backup, stateFile, sidecar, pool, leasing, outside>>

\* The vault's scheduler, or the device that holds the account, rotates it.
Refresh(a) ==
    /\ Disturb("refresh") /\ mine # a
    /\ row[a] = Current(a) /\ live[a] < MaxGen
    /\ live' = [live EXCEPT ![a] = @ + 1]
    /\ row' = [row EXCEPT ![a].gen = @ + 1]
    /\ UNCHANGED <<process, host, eligible, lru, fresh, pin, leasing, busy, auto>>

\* Usage, pauses and expiry move an account in and out of eligibility.
PoolChange(a) ==
    /\ Disturb("pool")
    /\ eligible' = IF a \in eligible THEN eligible \ {a} ELSE eligible \cup {a}
    /\ UNCHANGED <<process, host, row, lru, fresh, pin, leasing, outside>>

\* "Use now" on this device: store.MarkForNextPick
UseNow(a) ==
    /\ Disturb("pin") /\ a \in eligible
    /\ pin' = a
    /\ UNCHANGED <<process, host, row, eligible, lru, fresh, leasing, outside>>

\* "Use now" of a web admin, whom no device pin can name: last_used_at = 0
UseNowAnywhere(a) ==
    /\ Disturb("anypin") /\ a \in eligible
    /\ fresh' = fresh \cup {a}
    /\ UNCHANGED <<process, host, row, eligible, lru, pin, leasing, outside>>

\* Another device leases and injects an account, or lets it go.
Take(a) ==
    /\ Disturb("take") /\ a \notin foreign /\ mine # a
    /\ foreign' = foreign \cup {a} /\ MarkUsed(a)
    /\ UNCHANGED <<process, host, mine, outside>>
Give(a) ==
    /\ Disturb("take") /\ a \in foreign
    /\ foreign' = foreign \ {a}
    /\ UNCHANGED <<process, host, pool, mine, outside>>

\* This device's lease lapses, is reclaimed, or is released by an admin.
LoseLease ==
    /\ Disturb("lapse") /\ mine # None
    /\ mine' = None
    /\ UNCHANGED <<process, host, pool, foreign, outside>>

Activate ==
    /\ Disturb("idle") /\ busy' = ~ busy
    /\ UNCHANGED <<process, host, pool, leasing, live, auto>>

\* The user switches rotation on or off.
SetMode ==
    /\ Disturb("mode") /\ auto' = ~ auto
    /\ UNCHANGED <<process, host, pool, leasing, live, busy>>

-----------------------------------------------------------------------------
TickStep ==
    \/ BootSynced \/ Push \/ Pushed
    \/ ChooseAuto \/ ChooseManual \/ Pick \/ RenewLease \/ NoLease \/ AcquireLease
    \/ Compare \/ Snapshot \/ WriteOAuthBlob \/ Record \/ WriteState
    \/ RecordSidecar

QuitStep == Restore \/ ReleaseLease \/ ClearState \/ Exit

Elsewhere ==
    \/ Quit \/ Crash \/ Rotate \/ Login \/ Wipe \/ LoseLease \/ Activate
    \/ SetMode
    \/ \E a \in Accounts : \/ Refresh(a) \/ PoolChange(a) \/ UseNow(a)
                           \/ UseNowAnywhere(a) \/ Take(a) \/ Give(a)

Next == Boot \/ SyncRead \/ Gate \/ TickStep \/ QuitStep \/ Elsewhere

Spec == Init /\ [][Next]_vars

\* The goroutine runs, and so does the shutdown hook once started; the app is
\* started again when it stopped.  Run's select picks a ready ticker at random,
\* so neither ticker starves the other.
Fairness == /\ WF_vars(Boot) /\ WF_vars(TickStep) /\ WF_vars(QuitStep)
            /\ SF_vars(Gate) /\ SF_vars(SyncRead)

FairSpec == Spec /\ Fairness

-----------------------------------------------------------------------------
(* Properties. *)

TypeOK ==
    /\ pc \in {"off", "wait", "boot", "push", "pushed", "gate", "choose", "pick",
              "lease", "acquire", "compare", "snapshot", "write", "record",
              "save", "sidecar"}
    /\ quit \in {"no", "restore", "release", "clear", "exit", "done"}
    /\ booting \in BOOLEAN /\ sidecar \in BOOLEAN /\ busy \in BOOLEAN
    /\ auto \in BOOLEAN
    /\ {current, lease, mine, pin} \subseteq Accounts \cup {None}
    /\ {injected, keychain} \subseteq Token \cup {None}
    /\ job \in [account : Accounts \cup {None}, token : Token \cup {None},
               active : BOOLEAN]
    /\ backup \in Token \cup {None, NoBackup}
    /\ stateFile \in [account : Accounts \cup {None}, token : Token \cup {None}]
    /\ row \in [Accounts -> Token] /\ live \in [Logins -> 0 .. MaxGen]
    /\ eligible \subseteq Accounts /\ fresh \subseteq Accounts
    /\ foreign \subseteq Accounts /\ mine \notin foreign
    /\ lru \in Orders /\ left \in 0 .. MaxDisturbances
    /\ happened \subseteq Disturbances

\* Most of what follows holds only as long as certain things have not happened.
Without(kinds) == happened \cap kinds = {}

\* The vault's row of an account holds a credential of that account: what
\* reverseSync pulls back was issued to the account it is filed under.
RowsKeepIdentity == \A a \in Accounts : row[a].of = a

\* Rows are mixed up by nothing but a start that reads a stale injected.json
\* or a login of the user that reverseSync takes for a rotation.
RowsKeepIdentityWhileRunning ==
    Without({"crash", "quit", "login"}) => RowsKeepIdentity

\* Between ticks a lease in hand is the lease of the account in hand, so that
\* the next renewal speaks for the credential Claude Code uses.
LeaseIsOfInjected ==
    Without({"disk"}) /\ pc = "wait" /\ lease # None /\ current # None
        => lease = current

\* What is captured as the user's login is not one of foxy's own injections,
\* unless it was rotated, or the list of accounts could not be read, before a
\* first backup that failed was tried again.
BackupIsNative ==
    Without({"rotate", "refresh", "network"}) /\ backup \in Token
        => backup.of = Native

\* No credential of the pool is in Claude Code's store before the question what
\* was there first has been answered.
NeverWithoutBackup ==
    Without({"disk"}) /\ keychain # None /\ keychain.of \in Accounts
        => backup # NoBackup

\* An account is written into Claude Code's store only while this device has
\* its lease at the vault.
Injects == pc = "write" /\ pc' = "record"
InjectsUnderLease == [][Injects => mine = job.account]_vars

\* Lost answers, crashes, pins and other devices do not break that: only a
\* lease that ends between the acquire and the write, or a failed write, does.
InjectsUnderLeaseOrLate ==
    [][Injects /\ Without({"disk", "lapse", "quit"}) => mine = job.account]_vars

\* The one credential the provider still accepts is in the vault or in use.
Known(a) == Current(a) \in {row[a], keychain}

\* Injecting an account anew never destroys the token Claude Code rotated it
\* to, if no answer of the vault was lost and no shutdown hook has put an old
\* credential back into the store.
ReinjectionKeepsRotation ==
    [][Injects /\ current = job.account /\ Known(current) /\ Without({"network", "quit"})
         => Known(current)']_vars

\* A native login that is about to be overwritten is the one in the backup.
NativeIsKept ==
    [][Injects /\ keychain # None /\ keychain.of = Native
        => backup = keychain]_vars

\* After the shutdown hook ran, no credential of the pool is left behind.
ShutdownRestores ==
    quit = "done" => keychain = None \/ keychain.of = Native

\* With auto-switch off, the account in use is not exchanged for another one
\* that nobody asked for.  An account never used before counts as asked for.
ManualKeepsAccount ==
    [][~ auto /\ Without({"mode", "settings", "pin", "anypin"})
         /\ current # None /\ current' # None
         => current' = current \/ current' \in NeverUsed]_vars

\* No pin asks for an account that another device holds.
PinCanBeServed == pin \notin eligible \cap foreign

\* While the user works, an account is free and no pin stands in the way, this
\* device comes to lease an account and to hold its credential.
Converges ==
    <>[](busy /\ eligible \ foreign # {} /\ PinCanBeServed)
        => <>[](mine # None /\ keychain # None /\ keychain.of = mine)

\* The device does not ask forever for an account another device keeps.
NotLooping ==
    \A a \in Accounts :
        ~ (<>[](a \in foreign) /\ []<>(pc = "acquire" /\ job.account = a))

\* The account in use does not change forever.
Settles == <>[][current' = current]_current

\* It settles at least where no pin stands in the way.
SettlesUnlessPinned == <>[]PinCanBeServed => Settles

\* The device stops trying: it neither asks for ever for an account it cannot
\* have, nor exchanges for ever the one it has.
NoThrash == NotLooping /\ SettlesUnlessPinned

=============================================================================
