---------------------------- MODULE CodexManager ----------------------------
(***************************************************************************)
(* The Codex credential of one machine.  The agent (RemoteManager) leases  *)
(* an account at the vault, backs up the login the user had, puts the      *)
(* account's credential where the Codex CLI looks for it, pushes back what *)
(* the CLI rotates, and puts the user's login back when it quits or the    *)
(* pool is dry.  In combined mode (Manager) there are no leases.           *)
(*                                                                         *)
(* The CLI looks in a file, in the keyring, or ("auto") in the keyring     *)
(* first and then in the file.  A credential is an account and the         *)
(* generation of its token: the CLI and the vault rotate it, and only the  *)
(* newest generation can be rotated again.  Account 0 is the user's login. *)
(***************************************************************************)
EXTENDS Naturals, FiniteSets, FiniteSetsExt

CONSTANTS
    CxAccounts,   \* ids of Codex accounts (positive naturals)
    CxModes,      \* subset of {"remote", "local"}
    CxStorages,   \* subset of {"file", "keyring", "auto"}
    CxEvents,     \* what may happen around the manager, by name
    CxMaxEvents,  \* bound: how much of it
    None

ASSUME CxAssumption ==
    /\ CxAccounts \subseteq Nat \ {0} /\ IsFiniteSet(CxAccounts)
    /\ CxModes \subseteq {"remote", "local"}
    /\ CxStorages \subseteq {"file", "keyring", "auto"}
    /\ CxMaxEvents \in Nat
    /\ None \notin [acc : Nat, gen : Nat] \cup [was : [acc : Nat, gen : Nat] \cup {None}]

VARIABLES
    mode, place,   \* remote or local; where the CLI keeps its login
    row,           \* the vault's rows: generation, usable, pin
    auto,          \* automatic switching
    holder,        \* who leases an account: "none", "me" or "other"
    issued,        \* the newest generation of an account's token
    lapsed,        \* generations up to this one have expired
    ring, file,    \* the two places of the CLI's login
    ringUp,        \* the keyring answers
    backup,        \* the backup file: None, or the login there was (None: there was none)
    up,            \* the agent: "run", "quit" (shutting down) or "off"
    pc,            \* where its reconcile stands
    cur, lease,    \* currentAccountID; currentLeaseID: "none", "live" or "gone"
    got,           \* locals of the reconcile
    idle,          \* no Codex activity for the idle threshold
    events,
    login,         \* history: generation of the user's own login
    excused        \* history: the keyring failed; the user logged in over a managed login

vault == <<row, auto, holder>>
tokens == <<issued, lapsed>>
disk == <<ring, file, backup>>
mem == <<cur, lease, got>>
fixed == <<mode, place>>
vars == <<fixed, vault, tokens, disk, ringUp, up, pc, mem, idle, events, login, excused>>

Cred(a, g) == [acc |-> a, gen |-> g]
NoGot == [raw |-> None, seen |-> 0, want |-> None, lease |-> "none", failed |-> FALSE]

Init ==
    /\ mode \in CxModes /\ place \in CxStorages
    /\ row = [a \in CxAccounts |-> [gen |-> 1, ok |-> TRUE, pin |-> "none"]]
    /\ auto = TRUE
    /\ holder = [a \in CxAccounts |-> "none"]
    /\ issued = [a \in CxAccounts |-> 1] /\ lapsed = [a \in CxAccounts |-> 0]
    /\ ring = (IF place = "file" THEN None ELSE Cred(0, 1))
    /\ file = (IF place = "file" THEN Cred(0, 1) ELSE None)
    /\ ringUp = TRUE /\ backup = None
    /\ up = "run" /\ pc = "idle" /\ cur = 0 /\ lease = "none" /\ got = NoGot
    /\ idle = FALSE /\ events = 0 /\ login = 1 /\ excused = {}

-----------------------------------------------------------------------------
(* CredentialStorage. *)

\* Where Load finds the login: in auto mode an error of the keyring is no error.
FoundIn ==
    CASE place = "keyring" -> "ring"
      [] place = "file" -> "file"
      [] OTHER -> IF ringUp /\ ring # None THEN "ring" ELSE "file"

\* Only the keyring mode depends on the keyring.
Readable == place # "keyring" \/ ringUp
Stored == IF FoundIn = "ring" THEN ring ELSE file

\* Save: a keyring that takes the login has the file removed; auto falls back
\* to the file.
Save(c) ==
    \/ place # "file" /\ ringUp /\ ring' = c /\ file' = None
    \/ (place = "auto" => ~ ringUp) /\ place # "keyring" /\ file' = c /\ UNCHANGED ring

\* Delete: auto removes both, and does not mind a keyring that is not there.
Delete ==
    /\ place = "keyring" => ringUp
    /\ ring' = (IF place # "file" /\ ringUp THEN None ELSE ring)
    /\ file' = None

Happens(e) == e \in CxEvents /\ events < CxMaxEvents /\ events' = events + 1
Managed(c) == c # None /\ c.acc # 0

-----------------------------------------------------------------------------
(* Reconcile.  The lock of the manager is held from its first to its last step. *)

Eligible(a) == row[a].ok /\ row[a].gen > lapsed[a]
PinnedForMe(a) == row[a].pin \in {"me", "any"}
LocalCur == IF Readable /\ Managed(Stored) THEN Stored.acc ELSE 0
Current == IF mode = "local" THEN LocalCur ELSE cur

\* An outcome that ends the reconcile; a shutdown that waited goes on from here.
End == pc' = "idle" /\ got' = NoGot

\* reverseSync, what it reads.  A keyring that fails skips the sync.
SyncLoad ==
    /\ up = "run" /\ pc = "idle" /\ pc' = "sync"
    /\ got' = [raw |-> IF Readable THEN Stored ELSE None,
               seen |-> IF Readable /\ Managed(Stored) THEN row[Stored.acc].gen ELSE 0,
               want |-> None, lease |-> "none", failed |-> FALSE]
    /\ UNCHANGED <<fixed, vault, tokens, disk, ringUp, up, cur, lease, idle, events, login, excused>>

\* reverseSyncAllowed
\* (mutant: whatever the device holds is taken)
AllowedAlways == TRUE
Allowed == got.raw.gen > lapsed[got.raw.acc] /\ got.raw.gen >= got.seen

\* reverseSync, what it writes; an error is logged and the reconcile goes on.
SyncWrite ==
    /\ pc = "sync" /\ pc' = "choose"
    /\ IF Managed(got.raw) /\ got.raw.gen # got.seen /\ Allowed
       THEN \/ /\ row' = [row EXCEPT ![got.raw.acc].gen = got.raw.gen]
               /\ UNCHANGED <<got, events>>
            \/ /\ mode = "remote" /\ Happens("link")
               /\ got' = [got EXCEPT !.failed = TRUE] /\ UNCHANGED row
       ELSE UNCHANGED <<row, got, events>>
    /\ UNCHANGED <<fixed, auto, holder, tokens, disk, ringUp, up, cur, lease, idle, login, excused>>

\* chooseStickyCodex: the accounts it may answer; {} leaves it to the picker.
StickyUnpinned ==
    IF Current # 0 /\ Eligible(Current) THEN {Current} ELSE {}
Sticky ==
    LET pinned == {a \in CxAccounts : Eligible(a) /\ PinnedForMe(a)}
    IN  IF pinned # {} /\ Min(pinned) # Current THEN {Min(pinned)} ELSE StickyUnpinned

\* PickProviderForDevice: a free account, or else one whose holder may be idle,
\* which is reclaimed.
HeldByOther(a) == mode = "remote" /\ holder[a] = "other"
Free == {a \in CxAccounts : Eligible(a) /\ ~ HeldByOther(a)}

Take(a) ==
    /\ got' = [got EXCEPT !.want = Cred(a, row[a].gen)]
    /\ pc' = IF mode = "local" THEN "load" ELSE "lease"

NoneLeft == pc' = "restore" /\ UNCHANGED got

\* The idle gate, the choice, the pick.
Parked == mode = "remote" /\ idle /\ lease = "none"
Choose ==
    /\ pc = "choose"
    /\ \/ Parked /\ End /\ UNCHANGED holder
       \/ ~ Parked /\ UNCHANGED holder /\ \E a \in Sticky : Take(a)
       \/ /\ ~ Parked /\ Sticky = {} /\ auto
          /\ UNCHANGED holder /\ \E a \in Free : Take(a)
       \/ /\ ~ Parked /\ Sticky = {} /\ auto /\ Free = {}
          /\ \E a \in CxAccounts :
               Eligible(a) /\ Take(a) /\ holder' = [holder EXCEPT ![a] = "none"]
       \/ /\ ~ Parked /\ Sticky = {} /\ (auto => Free = {})
          /\ NoneLeft /\ UNCHANGED holder
    /\ UNCHANGED <<fixed, row, auto, tokens, disk, ringUp, up, cur, lease, idle, events, login, excused>>

\* ensureLease: renewed, parked, locked or granted.  A grant ends the device's
\* other lease, whose id is remembered until the end of the reconcile.
Renews == lease # "none" /\ cur = got.want.acc
\* (mutant: it keeps what it lost)
LockedKeeps == End /\ UNCHANGED <<cur, lease, holder>>
Locked == End /\ cur' = 0 /\ lease' = "none" /\ UNCHANGED holder
Granted(a) ==
    /\ holder' = [b \in CxAccounts |-> IF b = a THEN "me"
                                       ELSE IF holder[b] = "me" THEN "none" ELSE holder[b]]
    /\ lease' = (IF lease = "live" /\ cur # a THEN "gone" ELSE lease)
    /\ got' = [got EXCEPT !.lease = "live"] /\ pc' = "load" /\ UNCHANGED cur
EnsureLease ==
    /\ pc = "lease"
    /\ LET a == got.want.acc
       IN  \/ /\ Renews /\ lease = "live" /\ UNCHANGED <<cur, lease, holder>>
              /\ got' = [got EXCEPT !.lease = "live"] /\ pc' = "load"
           \/ /\ Renews /\ lease = "gone" /\ idle
              /\ End /\ lease' = "none" /\ UNCHANGED <<cur, holder>>
           \/ /\ Renews => lease = "gone" /\ ~ idle
              /\ IF holder[a] = "other" THEN Locked ELSE Granted(a)
    /\ UNCHANGED <<fixed, row, auto, tokens, disk, ringUp, up, idle, events, login, excused>>

\* What the CLI finds is what it should find, or the login that is there is
\* backed up, unless a backup is there.
\* (mutant: every switch backs up)
BackupAnew == backup' = [was |-> Stored]
Backup == backup' = IF backup = None THEN [was |-> Stored] ELSE backup
Arrive == cur' = got.want.acc /\ lease' = got.lease
Load ==
    /\ pc = "load"
    /\ \/ ~ Readable /\ End /\ UNCHANGED <<backup, cur, lease>>
       \/ Readable /\ Stored = got.want /\ End /\ Arrive /\ UNCHANGED backup
       \/ /\ Readable /\ Stored # got.want
          /\ Backup /\ pc' = "save" /\ UNCHANGED <<got, cur, lease>>
    /\ UNCHANGED <<fixed, vault, tokens, ring, file, ringUp, up, idle, events, login, excused>>

SaveWant ==
    /\ pc = "save"
    /\ \/ Save(got.want) /\ pc' = "mark" /\ UNCHANGED <<got, events>>
       \/ ~ Readable /\ End /\ UNCHANGED <<ring, file, events>>
       \/ Happens("disk") /\ End /\ UNCHANGED <<ring, file>>
    /\ UNCHANGED <<fixed, vault, tokens, backup, ringUp, up, cur, lease, idle, login, excused>>

\* MarkUsed consumes the pin; an error of it leaves the manager where it was.
MarkUsed ==
    /\ pc = "mark" /\ End
    /\ \/ /\ row' = [row EXCEPT ![got.want.acc].pin = "none"]
          /\ Arrive /\ UNCHANGED events
       \/ Happens("link") /\ UNCHANGED <<row, cur, lease>>
    /\ UNCHANGED <<fixed, auto, holder, tokens, disk, ringUp, up, idle, login, excused>>

\* restoreCredentialBackup: write the login back, remove the backup.
PutBack == IF backup.was = None THEN Delete ELSE Save(backup.was)
Off == IF up = "quit" THEN up' = "off" ELSE UNCHANGED up
Restore ==
    /\ pc = "restore"
    /\ \/ backup = None /\ pc' = "release" /\ UNCHANGED <<ring, file, got, up, events>>
       \/ backup # None /\ PutBack /\ pc' = "unback" /\ UNCHANGED <<got, up, events>>
       \/ backup # None /\ ~ Readable /\ End /\ Off /\ UNCHANGED <<ring, file, events>>
       \/ backup # None /\ Happens("disk") /\ End /\ Off /\ UNCHANGED <<ring, file>>
    /\ UNCHANGED <<fixed, vault, tokens, backup, ringUp, cur, lease, idle, login, excused>>
RemoveBackup ==
    /\ pc = "unback" /\ backup' = None /\ pc' = "release"
    /\ UNCHANGED <<fixed, vault, tokens, ring, file, ringUp, up, mem, idle, events, login, excused>>

\* releaseLeaseLocked
Release ==
    /\ pc = "release" /\ End /\ Off
    /\ \/ /\ holder' = [a \in CxAccounts |->
                          IF lease = "live" /\ holder[a] = "me" THEN "none" ELSE holder[a]]
          /\ cur' = 0 /\ lease' = "none" /\ UNCHANGED events
       \/ lease # "none" /\ Happens("link") /\ UNCHANGED <<holder, cur, lease>>
    /\ UNCHANGED <<fixed, row, auto, tokens, disk, ringUp, idle, login, excused>>

\* shutdown: the loop ends between two reconciles.
Quit ==
    /\ up = "run" /\ pc = "idle" /\ Happens("quit") /\ up' = "quit"
    /\ pc' \in {"restore"} \cup (IF mode = "remote" THEN {"release"} ELSE {})
    /\ UNCHANGED <<fixed, vault, tokens, disk, ringUp, mem, idle, login, excused>>
Crash ==
    /\ up # "off" /\ Happens("crash") /\ up' = "off" /\ End
    /\ cur' = 0 /\ lease' = "none"
    /\ UNCHANGED <<fixed, vault, tokens, disk, ringUp, idle, login, excused>>
Start ==
    /\ up = "off" /\ up' = "run" /\ cur' = 0 /\ lease' = "none"
    /\ UNCHANGED <<fixed, vault, tokens, disk, ringUp, pc, got, idle, events, login, excused>>

Manager ==
    \/ SyncLoad \/ SyncWrite \/ Choose \/ EnsureLease \/ Load \/ SaveWant \/ MarkUsed
    \/ Restore \/ RemoveBackup \/ Release

-----------------------------------------------------------------------------
(* What happens around it. *)

\* The CLI rotates the token it finds, where it finds it.
CliRotate ==
    /\ Managed(Stored) /\ Readable /\ Stored.gen = issued[Stored.acc] /\ Happens("cli")
    /\ LET c == Cred(Stored.acc, Stored.gen + 1)
       IN  /\ issued' = [issued EXCEPT ![c.acc] = c.gen]
           /\ IF FoundIn = "ring" THEN ring' = c /\ UNCHANGED file
                                  ELSE file' = c /\ UNCHANGED ring
    /\ UNCHANGED <<fixed, vault, lapsed, backup, ringUp, up, pc, mem, idle, login, excused>>

\* The vault's scheduler: with a spent refresh token it flags the account.
VaultRotate(a) ==
    /\ Happens("refresh")
    /\ IF row[a].gen = issued[a]
       THEN /\ issued' = [issued EXCEPT ![a] = @ + 1]
            /\ row' = [row EXCEPT ![a].gen = issued[a] + 1]
       ELSE row' = [row EXCEPT ![a].ok = FALSE] /\ UNCHANGED issued
    /\ UNCHANGED <<fixed, auto, holder, lapsed, disk, ringUp, up, pc, mem, idle, login, excused>>

\* The admin logs the account in again.
Relogin(a) ==
    /\ Happens("relogin")
    /\ issued' = [issued EXCEPT ![a] = @ + 1]
    /\ row' = [row EXCEPT ![a] = [gen |-> issued[a] + 1, ok |-> TRUE, pin |-> row[a].pin]]
    /\ UNCHANGED <<fixed, auto, holder, lapsed, disk, ringUp, up, pc, mem, idle, login, excused>>

Lapse(a) ==
    /\ lapsed[a] < issued[a] /\ Happens("lapse")
    /\ lapsed' = [lapsed EXCEPT ![a] = issued[a]]
    /\ UNCHANGED <<fixed, vault, issued, disk, ringUp, up, pc, mem, idle, login, excused>>

\* Usage windows, pauses.
Toggle(a) ==
    /\ Happens("toggle") /\ row' = [row EXCEPT ![a].ok = ~ @]
    /\ UNCHANGED <<fixed, auto, holder, tokens, disk, ringUp, up, pc, mem, idle, login, excused>>
ToggleAuto ==
    /\ Happens("auto") /\ auto' = ~ auto
    /\ UNCHANGED <<fixed, row, holder, tokens, disk, ringUp, up, pc, mem, idle, login, excused>>

\* "Use now" on this device counts as activity.  An admin's pin is everyone's.
Select(a) ==
    /\ Eligible(a) /\ Happens("select") /\ idle' = FALSE
    /\ row' = [b \in CxAccounts |->
                 IF b = a THEN [row[b] EXCEPT !.pin = "me"]
                 ELSE IF row[b].pin = "me" THEN [row[b] EXCEPT !.pin = "none"] ELSE row[b]]
    /\ UNCHANGED <<fixed, auto, holder, tokens, disk, ringUp, up, pc, mem, login, excused>>
PinForAll(a) ==
    /\ Eligible(a) /\ row[a].pin = "none" /\ Happens("pin")
    /\ row' = [row EXCEPT ![a].pin = "any"]
    /\ UNCHANGED <<fixed, auto, holder, tokens, disk, ringUp, up, pc, mem, idle, login, excused>>

\* Another device takes a free account, or one of a device that is idle; its
\* MarkUsed consumes the pin.  It gives accounts back.
LeaseEnds(a) ==
    /\ lease' = (IF holder[a] = "me" /\ lease = "live" THEN "gone" ELSE lease)
    /\ got' = (IF holder[a] = "me" /\ got.lease = "live" THEN [got EXCEPT !.lease = "gone"] ELSE got)
OtherTakes(a) ==
    /\ mode = "remote" /\ Eligible(a) /\ Happens("other")
    /\ holder[a] = "none" \/ (holder[a] = "me" /\ idle)
    /\ holder' = [holder EXCEPT ![a] = "other"] /\ LeaseEnds(a)
    /\ row' = [row EXCEPT ![a].pin = "none"]
    /\ UNCHANGED <<fixed, auto, tokens, disk, ringUp, up, pc, cur, idle, login, excused>>
OtherLeaves(a) ==
    /\ holder[a] = "other" /\ Happens("other")
    /\ holder' = [holder EXCEPT ![a] = "none"]
    /\ UNCHANGED <<fixed, row, auto, tokens, disk, ringUp, up, pc, mem, idle, login, excused>>

\* A lease that is not renewed ends; one that is may (the vault was away).
Expire(a) ==
    /\ holder[a] = "me"
    /\ \/ UNCHANGED events /\ (up = "off" \/ lease # "live") /\ got.lease = "none"
       \/ Happens("expire")
    /\ holder' = [holder EXCEPT ![a] = "none"] /\ LeaseEnds(a)
    /\ UNCHANGED <<fixed, row, auto, tokens, disk, ringUp, up, pc, cur, idle, login, excused>>

ActivityTurns ==
    /\ Happens("idle") /\ idle' = ~ idle
    /\ UNCHANGED <<fixed, vault, tokens, disk, ringUp, up, pc, mem, login, excused>>
KeyringTurns ==
    /\ place # "file" /\ Happens("keyring") /\ ringUp' = ~ ringUp
    /\ excused' = excused \cup {"keyring"}
    /\ UNCHANGED <<fixed, vault, tokens, disk, up, pc, mem, idle, login>>

\* The user logs the CLI in.
UserLogin ==
    /\ Readable /\ Happens("login") /\ login' = login + 1
    /\ Save(Cred(0, login + 1))
    /\ excused' = excused \cup (IF backup # None \/ pc # "idle" THEN {"login"} ELSE {})
    /\ UNCHANGED <<fixed, vault, tokens, backup, ringUp, up, pc, mem, idle>>

Around ==
    \/ Quit \/ Crash \/ Start \/ CliRotate \/ ToggleAuto \/ ActivityTurns
    \/ KeyringTurns \/ UserLogin
    \/ \E a \in CxAccounts :
         \/ VaultRotate(a) \/ Relogin(a) \/ Lapse(a) \/ Toggle(a) \/ Select(a)
         \/ PinForAll(a) \/ OtherTakes(a) \/ OtherLeaves(a) \/ Expire(a)
Next == Manager \/ Around
Spec == Init /\ [][Next]_vars

\* The ticker runs, and a lease that nobody renews ends.
FairSpec == Spec /\ WF_vars(Manager) /\ \A a \in CxAccounts : WF_vars(Expire(a))

-----------------------------------------------------------------------------
(* Properties. *)

Logins == {Cred(0, g) : g \in 1..(CxMaxEvents + 1)}
Creds == {Cred(a, g) : a \in CxAccounts, g \in 1..(CxMaxEvents + 1)} \cup Logins \cup {None}
PcStates == {"idle", "sync", "choose", "lease", "load", "save", "mark", "restore", "unback", "release"}
LeaseStates == {"none", "live", "gone"}

\* Types; and a lease id that is good stands for the account in use
\* (ensureLease renews it for that account).
TypeOK ==
    /\ mode \in CxModes /\ place \in CxStorages
    /\ row \in [CxAccounts -> [gen : 1..(CxMaxEvents + 1), ok : BOOLEAN,
                               pin : {"none", "me", "any"}]]
    /\ auto \in BOOLEAN /\ idle \in BOOLEAN /\ ringUp \in BOOLEAN
    /\ holder \in [CxAccounts -> {"none", "me", "other"}]
    /\ issued \in [CxAccounts -> 1..(CxMaxEvents + 1)]
    /\ lapsed \in [CxAccounts -> 0..(CxMaxEvents + 1)]
    /\ ring \in Creds /\ file \in Creds
    /\ backup \in [was : Creds] \cup {None}
    /\ up \in {"run", "quit", "off"} /\ pc \in PcStates
    /\ cur \in CxAccounts \cup {0} /\ lease \in LeaseStates
    /\ got.raw \in Creds /\ got.want \in Creds /\ got.lease \in LeaseStates
    /\ events \in 0..CxMaxEvents
    /\ lease = "live" => cur # 0 /\ holder[cur] = "me"

\* Crashes, failed writes and restarts in any order never lose the login the
\* user had: it is where the CLI looks, or in the backup; and no account of the
\* pool is backed up as if it were the user's.  (Only a keyring that failed on
\* the way, or the user's login over a managed one, can make it so.)
NativeKept ==
    excused = {} =>
        IF backup = None THEN Stored = Cred(0, login)
                         ELSE backup.was = Cred(0, login)

\* The write-back of the device takes the vault's row to an older token only
\* when the row changed between the list and the write (UpdateProviderCredential
\* asks nothing).
RowRegressesOnlyByRace ==
    [][\A a \in CxAccounts : row'[a].gen < row[a].gen =>
          got.raw.acc = a /\ got.seen # row[a].gen]_vars

\* A token that only this device has is overwritten only by a reconcile that
\* could not know it or push it: rotated since it looked, expired, or the push
\* failed.  (A shutdown does not look.)
OnlyHere(c) == Managed(c) /\ c.gen = issued[c.acc] /\ row[c.acc].gen < c.gen
UnsyncedIsRare ==
    [][(up = "run" /\ Readable /\ OnlyHere(Stored) /\ pc \in {"save", "restore"}
          /\ Stored' # Stored /\ issued' = issued /\ login' = login) =>
          \/ got.raw # Stored \/ got.failed \/ Stored.gen <= lapsed[Stored.acc]
          \/ row[Stored.acc].gen # got.seen]_vars

\* Once things stay as they are, a running active device has an account that
\* no other device holds: its row's token where the CLI looks, and its lease.
\* Not so while it is asked for an account that another device holds.
PinnedAway == \E a \in CxAccounts :
    Eligible(a) /\ PinnedForMe(a) /\ HeldByOther(a)
Steady == up = "run" /\ auto /\ ~ idle /\ Readable /\ Free # {}
Settled ==
    /\ Managed(Stored)
    /\ LET a == Stored.acc
       IN  /\ Eligible(a) /\ row[a].gen = Stored.gen
           /\ mode = "remote" => cur = a /\ holder[a] = "me" /\ lease = "live"
SettlesUnlessPinnedAway == <>[](Steady /\ ~ PinnedAway) => <>[]Settled

\* The same, with pins: what the comment in ensureLease says of a lost account.
Settles == <>[]Steady => <>[]Settled

\* While no account of the pool can be had, the user's login is back, and stays.
Dry == up = "run" /\ ~ Parked /\ Readable /\ \A a \in CxAccounts : ~ Eligible(a)
DryRestores == <>[](Dry /\ excused = {}) => <>[](Stored = Cred(0, login) /\ backup = None)

\* What holds of every state: types, a good lease id, and the user's login.
ManagerInv ==
    /\ TypeOK
    /\ NativeKept

\* No token is lost: the row goes back only by a race, and a token that only the
\* device has is overwritten only when it could not be pushed.
TokensKept == RowRegressesOnlyByRace /\ UnsyncedIsRare

\* The device comes to have an account of the pool, or the user's own login.
DeviceFollowsPool == SettlesUnlessPinnedAway /\ DryRestores

=============================================================================
