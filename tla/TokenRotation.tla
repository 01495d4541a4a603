---------------------------- MODULE TokenRotation ----------------------------
(***************************************************************************)
(* One account of the pool and everybody who writes its row: the refresh   *)
(* scheduler and the "refresh now" button (RefreshOne), the usage poller,  *)
(* the user (pause, resume, a new login) and the devices, whose Claude     *)
(* Code spends the refresh token the vault handed out and whose            *)
(* coordinator files what it finds (reverseSync).                          *)
(*                                                                         *)
(* A refresh token can be spent once; the answer brings the next one.  A   *)
(* login opens a grant of its own.  A token is known by its grant and by   *)
(* whether it can still be spent: of each grant there is one that can, and *)
(* all who have that one have the same.                                    *)
(*                                                                         *)
(* Every read and write of the row and every call of the provider is a     *)
(* step; the row may change between a read and the write that rests on it. *)
(* Lifetimes and pauses are counted down by Tick: 0 is over, and what      *)
(* happens within a unit is not told apart.                                *)
(***************************************************************************)
EXTENDS Naturals, FiniteSets

CONSTANTS
    Devices,    \* devices that may lease the account
    Providers,  \* its provider: "claude" or "codex"
    Lifetime,   \* of a token just issued
    Threshold,  \* what remains when the scheduler refreshes
    Fallback,   \* what remains when it does so although a device holds it
    Floor,      \* pause after a successful usage poll of a Claude account
    Pause,      \* pause after a 429
    Strikes,    \* 401s in a row that condemn a Codex account
    MaxLogins,  \* bound: grants
    MaxOps,     \* bound: requests of the user
    MaxTurns,   \* bound: turns of the organization
    MaxFaults,  \* bound: failed calls, lost answers and revocations
    None

\* What the constants are taken to be.
RotationAssumption ==
    /\ {Lifetime, Threshold, Fallback, Floor, Pause, Strikes} \subseteq Nat
    /\ Fallback < Threshold /\ Threshold < Lifetime /\ Strikes > 0
    /\ Providers \subseteq {"claude", "codex"}
    /\ MaxLogins \in Nat \ {0} /\ {MaxOps, MaxTurns, MaxFaults} \subseteq Nat
    /\ Devices \cap {"row", "scheduler", "user", None} = {}
    /\ None \notin [grant : Nat, live : BOOLEAN]

VARIABLES
    provider, \* never changes
    status,   \* the status of the row
    left,     \* what remains of the row's token
    has,      \* the token of the row, of each device and of each refresh
    logins,   \* grants opened so far
    revoked,  \* grants the provider refuses
    org,      \* the organization lets its members in
    lease,    \* the device that holds the account
    changed,  \* devices whose Claude Code rotated the token since it was filed
    behind,   \* devices whose coordinator has another token than the row
    ref,      \* RefreshOne, by caller
    poll,     \* the usage poller: what it read of the row, what it was told
    paused,   \* the poller leaves the account alone for that long
    strikes,  \* 401s in a row
    ops, turns, faults,
    wanted,   \* history: the user's last word: "active" or "paused"
    clashed,  \* history: a token may have died outside the daemon
    blocked   \* history: the organization was closed once

grants  == <<logins, revoked>>
agents  == <<lease, changed, behind>>
workers == <<ref, poll, paused, strikes>>
bounds  == <<ops, turns, faults>>
history == <<wanted, clashed, blocked>>
vars    == <<provider, status, left, has, grants, org, agents, workers, bounds, history>>

-----------------------------------------------------------------------------
(* Tokens. *)

Callers == {"scheduler", "user"}
Holders == {"row"} \cup Devices \cup Callers
Statuses == {"active", "paused", "needs_reauth", "org_disabled"}
Token == [grant : 1 .. MaxLogins, live : BOOLEAN]

Fresh(g) == [grant |-> g, live |-> TRUE]
Dead(t, g) == IF t # None /\ t.grant = g THEN [t EXCEPT !.live = FALSE] ELSE t

Spendable(h) == has[h] # None /\ has[h].live

\* h spends its token: all who have it have a dead one, h has the next.
Spent(h) == [x \in Holders |-> IF x = h THEN Fresh(has[h].grant)
                               ELSE Dead(has[x], has[h].grant)]

\* The token is spent, but the answer does not arrive.
SpentInVain(h) == [x \in Holders |-> IF x = h THEN None
                                     ELSE Dead(has[x], has[h].grant)]

Given(h, t) == [has EXCEPT ![h] = t]

NoPoll == [at |-> "idle", closed |-> FALSE, grant |-> 0, result |-> "none"]

-----------------------------------------------------------------------------
Init ==
    /\ provider \in Providers
    /\ status = "active" /\ left = Lifetime
    /\ has = [h \in Holders |-> IF h = "row" THEN Fresh(1) ELSE None]
    /\ logins = 1 /\ revoked = {} /\ org = TRUE
    /\ lease = None /\ changed = {} /\ behind = {}
    /\ ref = [a \in Callers |-> "idle"]
    /\ poll = NoPoll /\ paused = 0 /\ strikes = 0
    /\ ops = 0 /\ turns = 0 /\ faults = 0
    /\ wanted = "active" /\ clashed = FALSE /\ blocked = FALSE

-----------------------------------------------------------------------------
(* The scheduler, and RefreshOne. *)

RefreshTo(a, s) == ref' = [ref EXCEPT ![a] = s]
RefreshKeeps == UNCHANGED <<provider, grants, org, lease, changed, poll, paused,
                            strikes, ops, turns, wanted, blocked>>
Fault == faults < MaxFaults /\ faults' = faults + 1

\* A tick refreshes an account that is due, if no device is there to do it.
Due == /\ status # "needs_reauth"
       /\ left <= Threshold
       /\ lease # None => left <= Fallback

Schedule ==
    /\ ref["scheduler"] = "idle" /\ Due
    /\ RefreshTo("scheduler", "wait")
    /\ RefreshKeeps /\ UNCHANGED <<status, left, has, behind, faults, clashed>>

\* (mutant: no mutex)
RefreshReadUnlocked(a) ==
    /\ ref[a] = "wait"
    /\ RefreshTo(a, "call")
    /\ has' = Given(a, has["row"])
    /\ RefreshKeeps /\ UNCHANGED <<status, left, behind, faults, clashed>>

\* The account's mutex, and the row as it is by then.
RefreshRead(a) ==
    /\ ref[a] = "wait" /\ \A b \in Callers : ref[b] \in {"idle", "wait"}
    /\ RefreshTo(a, "call")
    /\ has' = Given(a, has["row"])
    /\ RefreshKeeps /\ UNCHANGED <<status, left, behind, faults, clashed>>

\* The token endpoint gives the next token ...
RefreshCall(a) ==
    /\ ref[a] = "call" /\ Spendable(a)
    /\ RefreshTo(a, "store")
    /\ has' = Spent(a)
    /\ RefreshKeeps /\ UNCHANGED <<status, left, behind, faults, clashed>>

\* ... or answers invalid_grant ...
RefreshRejected(a) ==
    /\ ref[a] = "call" /\ ~ Spendable(a)
    /\ RefreshTo(a, "mark")
    /\ has' = Given(a, None)
    /\ RefreshKeeps /\ UNCHANGED <<status, left, behind, faults, clashed>>

\* ... or fails in another way, perhaps after it spent the token.
RefreshFails(a) ==
    /\ ref[a] = "call" /\ Fault
    /\ RefreshTo(a, "idle")
    /\ \/ has' = Given(a, None) /\ UNCHANGED clashed
       \/ Spendable(a) /\ has' = SpentInVain(a) /\ clashed' = TRUE
    /\ RefreshKeeps /\ UNCHANGED <<status, left, behind>>

\* UpdateTokens (UpdateProviderCredential for Codex) and the mutex.
RefreshStore(a) ==
    /\ ref[a] = "store"
    /\ RefreshTo(a, "idle")
    /\ has' = [has EXCEPT !["row"] = has[a], ![a] = None]
    /\ left' = Lifetime
    /\ behind' = Devices
    /\ RefreshKeeps /\ UNCHANGED <<status, faults, clashed>>

\* MarkNeedsReauth.
RefreshMark(a) ==
    /\ ref[a] = "mark"
    /\ RefreshTo(a, "idle")
    /\ status' = "needs_reauth"
    /\ RefreshKeeps /\ UNCHANGED <<left, has, behind, faults, clashed>>

-----------------------------------------------------------------------------
(* The usage poller. *)

PollKeeps == UNCHANGED <<provider, left, has, grants, org, agents, ref, ops, turns,
                         history>>

\* Not with an expired token, not in a pause, not a Codex account that is dead.
Polls == /\ left > 0 /\ paused = 0
         /\ provider = "codex" => status # "needs_reauth"

\* The poller lists the accounts and goes through what it read.
PollList ==
    /\ poll.at = "idle" /\ Polls
    /\ poll' = [at |-> "listed", closed |-> status = "org_disabled",
                grant |-> has["row"].grant, result |-> "none"]
    /\ PollKeeps /\ UNCHANGED <<status, paused, strikes, faults>>

Fetched(r) == poll' = [poll EXCEPT !.at = "fetched", !.grant = 0, !.result = r]

\* FetchUsage: a revoked grant gets a 401, a member of a closed organization a 403.
PollFetch ==
    /\ poll.at = "listed"
    /\ Fetched(IF poll.grant \in revoked THEN "unauthorized"
               ELSE IF provider = "claude" /\ ~ org THEN "disabled" ELSE "ok")
    /\ PollKeeps /\ UNCHANGED <<status, paused, strikes, faults>>

\* A 429, or any other error.
PollFetchFails ==
    /\ poll.at = "listed" /\ Fault
    /\ Fetched("limited") \/ Fetched("failed")
    /\ PollKeeps /\ UNCHANGED <<status, paused, strikes>>

Got(r) == poll.at = "fetched" /\ poll.result = r /\ poll' = NoPoll

\* A closed organization is marked, once ...
PollDisabled ==
    /\ Got("disabled")
    /\ status' = IF poll.closed THEN status ELSE "org_disabled"
    /\ PollKeeps /\ UNCHANGED <<paused, strikes, faults>>

\* ... and a poll that succeeds on a closed account opens it again.
PollOk ==
    /\ Got("ok")
    /\ status' = IF provider = "claude" /\ poll.closed THEN "active" ELSE status
    /\ paused' = IF provider = "claude" THEN Floor ELSE paused
    /\ strikes' = 0
    /\ PollKeeps /\ UNCHANGED faults

PollError ==
    /\ Got("limited") \/ Got("failed")
    /\ paused' = IF provider = "claude" /\ poll.result = "limited" THEN Pause
                 ELSE paused
    /\ strikes' = 0
    /\ PollKeeps /\ UNCHANGED <<status, faults>>

\* So many 401s in a row condemn a Codex account; a Claude account is left to the
\* scheduler.
PollUnauthorized ==
    /\ Got("unauthorized")
    /\ strikes' = IF provider = "claude" \/ strikes + 1 >= Strikes THEN 0
                  ELSE strikes + 1
    /\ status' = IF provider = "codex" /\ strikes + 1 >= Strikes THEN "needs_reauth"
                 ELSE status
    /\ PollKeeps /\ UNCHANGED <<paused, faults>>

-----------------------------------------------------------------------------
(* The user. *)

Asks == ops < MaxOps /\ ops' = ops + 1
UserKeeps == UNCHANGED <<provider, org, lease, changed, poll, paused, strikes, revoked,
                         turns, faults, clashed, blocked>>

\* handlePause and handleResume look at nothing.
SetPaused(s) ==
    /\ Asks /\ status' = s /\ wanted' = s
    /\ UserKeeps /\ UNCHANGED <<left, has, logins, behind, ref>>

\* Upsert of a login: a token of a new grant, status active.
Login ==
    /\ Asks /\ logins < MaxLogins
    /\ logins' = logins + 1
    /\ has' = Given("row", Fresh(logins + 1))
    /\ left' = Lifetime /\ status' = "active" /\ wanted' = "active"
    /\ behind' = Devices
    /\ UserKeeps /\ UNCHANGED ref

RefreshNow ==
    /\ Asks /\ ref["user"] = "idle"
    /\ RefreshTo("user", "wait")
    /\ UserKeeps /\ UNCHANGED <<status, left, has, logins, behind, wanted>>

-----------------------------------------------------------------------------
(* The devices. *)

DeviceKeeps == UNCHANGED <<provider, status, grants, org, workers, bounds, wanted,
                           blocked>>

\* A device takes the account if it is eligible, and lets go of it.
Acquire(d) ==
    /\ lease = None /\ status = "active" /\ left > 0
    /\ lease' = d
    /\ DeviceKeeps /\ UNCHANGED <<left, has, changed, behind, clashed>>

Release(d) ==
    /\ lease = d /\ lease' = None
    /\ DeviceKeeps /\ UNCHANGED <<left, has, changed, behind, clashed>>

\* (mutant: a token is injected when the account is, and not again)
InjectOnce(d) ==
    /\ lease = d /\ d \notin changed
    /\ has[d] = None
    /\ has' = Given(d, has["row"])
    /\ behind' = behind \ {d}
    /\ DeviceKeeps /\ UNCHANGED <<left, lease, changed, clashed>>

\* The coordinator writes what the row has, when Claude Code has changed nothing.
Inject(d) ==
    /\ lease = d /\ d \notin changed
    /\ has[d] = None \/ d \in behind
    /\ has' = Given(d, has["row"])
    /\ behind' = behind \ {d}
    /\ DeviceKeeps /\ UNCHANGED <<left, lease, changed, clashed>>

\* Claude Code rotates the token it finds.
Rotate(d) ==
    /\ Spendable(d)
    /\ has' = Spent(d)
    /\ changed' = changed \cup {d} /\ clashed' = TRUE
    /\ DeviceKeeps /\ UNCHANGED <<left, lease, behind>>

\* reverseSync: UpdateTokens with what Claude Code has now.
Push(d) ==
    /\ d \in changed
    /\ has' = Given("row", has[d]) /\ left' = Lifetime
    /\ changed' = changed \ {d} /\ behind' = Devices \ {d}
    /\ DeviceKeeps /\ UNCHANGED <<lease, clashed>>

\* Without the lease it injects another account, after a last reverseSync.
Leave(d) ==
    /\ lease # d /\ has[d] # None /\ d \notin changed
    /\ has' = Given(d, None) /\ behind' = behind \ {d}
    /\ DeviceKeeps /\ UNCHANGED <<left, lease, changed, clashed>>

-----------------------------------------------------------------------------
(* The provider, and time. *)

OrgTurns ==
    /\ provider = "claude" /\ turns < MaxTurns /\ turns' = turns + 1
    /\ org' = ~ org /\ blocked' = TRUE
    /\ UNCHANGED <<provider, status, left, has, grants, agents, workers, ops, faults,
                   wanted, clashed>>

\* A grant is revoked: a logout somewhere, an admin, the provider.
Revoke ==
    /\ Fault
    /\ \E g \in (1 .. logins) \ revoked :
         /\ revoked' = revoked \cup {g}
         /\ has' = [h \in Holders |-> Dead(has[h], g)]
    /\ clashed' = TRUE
    /\ UNCHANGED <<provider, status, left, logins, org, agents, workers, ops, turns,
                   wanted, blocked>>

Minus(n) == IF n = 0 THEN 0 ELSE n - 1

Tick ==
    /\ left > 0 \/ paused > 0
    /\ left' = Minus(left) /\ paused' = Minus(paused)
    /\ UNCHANGED <<provider, status, has, grants, org, agents, ref, poll, strikes,
                   bounds, history>>

-----------------------------------------------------------------------------
Refresh(a) ==
    \/ RefreshRead(a) \/ RefreshCall(a) \/ RefreshRejected(a)
    \/ RefreshStore(a) \/ RefreshMark(a)
Poller ==
    \/ PollList \/ PollFetch
    \/ PollDisabled \/ PollOk \/ PollError \/ PollUnauthorized
Coordinator(d) == Inject(d) \/ Push(d) \/ Leave(d)

Next ==
    \/ \E a \in Callers : Refresh(a) \/ RefreshFails(a)
    \/ Schedule \/ Poller \/ PollFetchFails
    \/ \E s \in {"active", "paused"} : SetPaused(s)
    \/ Login \/ RefreshNow \/ OrgTurns \/ Revoke \/ Tick
    \/ \E d \in Devices : Acquire(d) \/ Release(d) \/ Rotate(d) \/ Coordinator(d)

Spec == Init /\ [][Next]_vars

\* Time passes, the vault's loops run and the devices tick.  The poller's period is
\* a fraction of a token's lifetime: a token that is good again and again is used.
Fairness ==
    /\ WF_vars(Tick) /\ WF_vars(Schedule) /\ SF_vars(Poller)
    /\ \A a \in Callers : WF_vars(Refresh(a))
    /\ \A d \in Devices : WF_vars(Coordinator(d))

FairSpec == Spec /\ Fairness

-----------------------------------------------------------------------------
(* Properties. *)

TypeOK ==
    /\ provider \in Providers /\ status \in Statuses /\ left \in 0 .. Lifetime
    /\ has \in [Holders -> Token \cup {None}] /\ has["row"] # None
    /\ logins \in 1 .. MaxLogins /\ revoked \subseteq 1 .. logins /\ org \in BOOLEAN
    /\ lease \in Devices \cup {None}
    /\ changed \subseteq Devices /\ behind \subseteq Devices
    /\ ref \in [Callers -> {"idle", "wait", "call", "store", "mark"}]
    /\ poll \in [at : {"idle", "listed", "fetched"}, closed : BOOLEAN,
                 grant : 0 .. MaxLogins,
                 result : {"none", "ok", "limited", "failed", "disabled",
                           "unauthorized"}]
    /\ paused \in Nat /\ strikes \in 0 .. Strikes - 1
    /\ ops \in 0 .. MaxOps /\ turns \in 0 .. MaxTurns /\ faults \in 0 .. MaxFaults
    /\ wanted \in {"active", "paused"} /\ {clashed, blocked} \subseteq BOOLEAN

\* The daemon's own refreshes never spend a token twice ("the loser sees
\* invalid_grant, and we lose the account", package refresh): while no token dies
\* outside, the account never needs a login.
OwnRefreshesNeverClash == ~ clashed => status # "needs_reauth"

\* A paused account stays out of the pool until the user resumes it or logs in
\* again ("pause means do not select for routing").
PausedStaysOut == wanted = "paused" => status # "active"
PausedStaysOutUnlessBlocked == ~ blocked => PausedStaysOut

\* needs_reauth says that the row's refresh token is dead ("the token is dead and
\* only the user re-authenticating can revive it", store.go).
FlaggedIsDead == status = "needs_reauth" => ~ Spendable("row")

\* A dead token comes to be flagged.
DeadIsFlagged == <>[](~ Spendable("row")) => <>[](status = "needs_reauth")

\* An account whose organization is open again comes back.
OrgHeals == <>[]org => <>[](status # "org_disabled")

\* A device that keeps the account comes to have a token that works, if the row
\* has one.
DeviceRecovers ==
    \A d \in Devices :
        <>[](lease = d /\ Spendable("row")) => []<>Spendable(d)

\* What holds of every state: the daemon never kills its own account, nor brings
\* one back that the user paused.
RotationInv ==
    /\ TypeOK
    /\ OwnRefreshesNeverClash
    /\ PausedStaysOutUnlessBlocked

\* The account's status comes to say what is the case, and the devices come to
\* have what the row has.
RotationSettles == DeadIsFlagged /\ OrgHeals /\ DeviceRecovers

=============================================================================
