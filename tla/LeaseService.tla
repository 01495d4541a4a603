---------------------------- MODULE LeaseService ----------------------------
(***************************************************************************)
(* The vault's account leases: the tables `leases` and `lease_events`, the *)
(* transactions of store/leases.go on them, the pick and the allowlist     *)
(* gates of vault/inproc.go, and the HTTP handlers and admin handlers that *)
(* drive them.  One account of the pool is injected by at most one device  *)
(* at a time; `lease_events` keeps one segment per hold, from which usage  *)
(* is later billed to devices.                                             *)
(*                                                                         *)
(* A SQLite transaction is one step.  What runs outside a transaction      *)
(* (authentication, the allowlist check, the two passes of a pick, the     *)
(* three statements of a renewal, an admin's two updates) is one step per  *)
(* statement, so that everything another request can do in between is a    *)
(* behaviour of the model.  A pass of the selector over the pool is one    *)
(* read; which of the candidates it ranks first is left open.              *)
(***************************************************************************)
EXTENDS Naturals, FiniteSets

CONSTANTS
    Accounts,       \* rows of the accounts table (Claude and Codex pools)
    Providers,      \* provider pools
    Devices,        \* paired devices
    Agents,         \* agent processes; two of them may share a device id
    LeaseIds,       \* identifiers vaultauth.NewID can draw
    ProviderOf,     \* [Accounts -> Providers]
    DeviceOf,       \* [Agents -> Devices]
    TTL,            \* lease TTL
    IdleThreshold,  \* DefaultIdleReclaimThreshold
    IdleReports,    \* values of idleFor an agent may report on a renewal
    None,           \* an absent account, lease, provider or device
    MaxNow,         \* bound: the clock stops after MaxNow ticks
    Grants,         \* bound: allowlists an admin may choose for a device
    Administered,   \* bound: devices an admin suspends, resumes, regrants, revokes
    Unsteady        \* bound: accounts that move in and out of eligibility

ASSUME LeaseAssumption ==
    /\ ProviderOf \in [Accounts -> Providers]
    /\ DeviceOf \in [Agents -> Devices]
    /\ TTL \in Nat \ {0}
    /\ IdleThreshold \in Nat \ {0}
    /\ IdleReports \subseteq 0 .. IdleThreshold
    /\ MaxNow \in Nat
    /\ Grants \subseteq SUBSET Providers
    /\ Administered \subseteq Devices
    /\ Unsteady \subseteq Accounts
    /\ None \notin Accounts \cup LeaseIds \cup Providers \cup Devices

VARIABLES
    now,        \* the vault's clock
    pool,       \* accounts the selector finds eligible at this moment
    leases,     \* table leases
    events,     \* table lease_events
    paired,     \* devices with a row in the devices table
    disabled,   \* devices whose disabled_at is set
    allowed,    \* <<device, provider>> pairs of the allowlist columns
    req,        \* the request each agent process has in flight
    admin       \* the admin handler that changes a device

table  == <<leases, events>>
policy == <<paired, disabled, allowed>>
vars   == <<now, pool, leases, events, paired, disabled, allowed, req, admin>>

-----------------------------------------------------------------------------
(* Rows and requests. *)

Open == 0    \* lease_events.ended_at of a segment that is still running

LeaseRow == [id : LeaseIds, account : Accounts, device : Devices,
             acquired : Nat, expires : Nat, lastActive : Nat]

Segment == [lease : LeaseIds, account : Accounts, device : Devices,
            started : Nat, ended : Nat]

PickSteps    == {"pickGate", "pickFirst", "pickSecond"}
AccountSteps == {"reclaim", "acquireGate", "acquire"}
LeaseSteps   == {"renew", "renewRead", "renewEvent", "release"}
Steps        == {"idle"} \cup PickSteps \cup AccountSteps \cup LeaseSteps

\* A request names what its step works on.
Request ==
    {r \in [step : Steps, provider : Providers \cup {None},
            account : Accounts \cup {None}, lease : LeaseIds \cup {None},
            idle : IdleReports \cup {0}] :
        /\ r.step \in PickSteps => r.provider \in Providers
        /\ r.step \in AccountSteps => r.account \in Accounts
        /\ r.step \in LeaseSteps => r.lease \in LeaseIds}

NoRequest == [step |-> "idle", provider |-> None, account |-> None,
              lease |-> None, idle |-> 0]

AdminRequest == [step : {"idle", "release", "done"},
                 device : Devices \cup {None}]

NoAdmin == [step |-> "idle", device |-> None]

Answer(p) == req' = [req EXCEPT ![p] = NoRequest]
GoTo(p, s) == req' = [req EXCEPT ![p].step = s]

\* (mutant: a lease lapses a tick before its deadline)
LiveEarly(l) == l.expires > now + 1
Live(l) == l.expires > now
LiveLeases == {l \in leases : Live(l)}

\* IsAccountLeasedByOther and its variant that ignores idle holders.
HeldByOther(a, d) == \E l \in LiveLeases : l.account = a /\ l.device # d
IdleHolder(l) == l.lastActive + IdleThreshold <= now
HeldByOtherActive(a, d) ==
    \E l \in LiveLeases : l.account = a /\ l.device # d /\ ~ IdleHolder(l)

\* No row stands in the way of a grant.
\* (mutant: an idle holder does not count)
FreeOrIdle(a) == \A l \in LiveLeases : l.account = a => IdleHolder(l)
Free(a) == \A l \in LiveLeases : l.account # a

\* Identifiers already given out: vaultauth.NewID draws 128 random bits, so a
\* new identifier never repeats one that a row or a segment carries.
UsedIds == {l.id : l \in leases} \cup {e.lease : e \in events}

\* UPDATE lease_events SET ended_at = t WHERE lease_id IN ids AND ended_at = 0
\* (mutant: the segments run on)
CloseNoSegments(evs, ids, t) == evs
CloseSegments(evs, ids, t) ==
    {IF e.ended = Open /\ e.lease \in ids THEN [e EXCEPT !.ended = t] ELSE e
       : e \in evs}

\* closeExpiredLeaseEventsTx: a lapsed lease is billed up to its expires_at.
ExpiryOf(i) == (CHOOSE l \in leases : l.id = i).expires
ExpiredIds == {l.id : l \in leases \ LiveLeases}
CloseExpired ==
    {IF e.ended = Open /\ e.lease \in ExpiredIds
     THEN [e EXCEPT !.ended = ExpiryOf(e.lease)] ELSE e : e \in events}

\* The running segments of a lease, and the one its row stands for.
OpenOf(evs, i) == {e \in evs : e.lease = i /\ e.ended = Open}
SegmentFor(l) == [lease |-> l.id, account |-> l.account, device |-> l.device,
                  started |-> l.acquired, ended |-> Open]

\* ensureOpenLeaseEventTx
\* (mutant: no segment is opened)
OpenNothing(evs, l) == evs
EnsureOpen(evs, l) ==
    IF OpenOf(evs, l.id) = {} THEN evs \cup {SegmentFor(l)} ELSE evs

\* releaseOtherDeviceProviderLeasesTx: the device's other leases in the pool
\* of account a.
\* (mutants: none is released; those of every pool are)
OtherOfNone(S, d, a) == {}
OtherOfDevice(S, d, a) == {l \in S : l.device = d /\ l.account # a}
OtherOfProvider(S, d, a) ==
    {l \in S : l.device = d /\ l.account # a
               /\ ProviderOf[l.account] = ProviderOf[a]}

IdsOf(S) == {l.id : l \in S}

\* BearerAuth: a paired device that is not suspended.
Authenticated(d) == d \in paired /\ d \notin disabled
\* DeviceAllowsProvider: a device without a row is not gated.
Allows(d, pr) == d \notin paired \/ <<d, pr>> \in allowed

-----------------------------------------------------------------------------
Init ==
    /\ now = IdleThreshold
    /\ pool = Accounts
    /\ leases = {}
    /\ events = {}
    /\ paired = Devices
    /\ disabled = {}
    /\ allowed = Devices \X Providers
    /\ req = [p \in Agents |-> NoRequest]
    /\ admin = NoAdmin

(***************************************************************************)
(* Requests of the agents.  BearerAuth admits the request; the handler     *)
(* runs on whatever happens to the device meanwhile.                       *)
(***************************************************************************)
Start(p, r) ==
    /\ req[p].step = "idle"
    /\ Authenticated(DeviceOf[p])
    /\ req' = [req EXCEPT ![p] = r]
    /\ UNCHANGED <<now, pool, table, policy, admin>>

StartPick(p, pr) ==
    Start(p, [NoRequest EXCEPT !.step = "pickGate", !.provider = pr])
StartAcquire(p, a) ==
    Start(p, [NoRequest EXCEPT !.step = "acquireGate", !.account = a])
\* An agent renews and releases leases its device was granted.
OwnIds(p) == {e.lease : e \in {f \in events : f.device = DeviceOf[p]}}
StartRenew(p, i, t) ==
    Start(p, [NoRequest EXCEPT !.step = "renew", !.lease = i, !.idle = t])
StartRelease(p, i) ==
    Start(p, [NoRequest EXCEPT !.step = "release", !.lease = i])

\* PickProviderForDevice, allowlist gate.
PickGate(p) ==
    /\ req[p].step = "pickGate"
    /\ IF Allows(DeviceOf[p], req[p].provider) THEN GoTo(p, "pickFirst")
                                               ELSE Answer(p)
    /\ UNCHANGED <<now, pool, table, policy, admin>>

\* First pass: any eligible account no other device holds ends the pick.
PickFirst(p) ==
    /\ req[p].step = "pickFirst"
    /\ IF \E a \in pool : /\ ProviderOf[a] = req[p].provider
                          /\ ~ HeldByOther(a, DeviceOf[p])
       THEN Answer(p) ELSE GoTo(p, "pickSecond")
    /\ UNCHANGED <<now, pool, table, policy, admin>>

\* Second pass, reached only by an exhausted pool: accounts whose foreign
\* holder is idle become candidates too.
PickSecond(p) ==
    LET cands == {a \in pool : /\ ProviderOf[a] = req[p].provider
                               /\ ~ HeldByOtherActive(a, DeviceOf[p])}
    IN  /\ req[p].step = "pickSecond"
        /\ \/ cands = {} /\ Answer(p)
           \/ \E a \in cands :
                 req' = [req EXCEPT ![p].step = "reclaim", ![p].account = a]
        /\ UNCHANGED <<now, pool, table, policy, admin>>

\* ReclaimIdleForeignLease: looks again before it takes the lease away.
\* (mutant: it trusts what the pick saw)
ReclaimUnchecked(p) ==
    LET victims == {l \in LiveLeases : /\ l.account = req[p].account
                                       /\ l.device # DeviceOf[p]}
    IN  /\ req[p].step = "reclaim"
        /\ leases' = leases \ victims
        /\ events' = CloseSegments(events, IdsOf(victims), now)
        /\ Answer(p)
        /\ UNCHANGED <<now, pool, policy, admin>>

Reclaim(p) ==
    LET victims == {l \in LiveLeases : /\ l.account = req[p].account
                                       /\ l.device # DeviceOf[p]
                                       /\ IdleHolder(l)}
    IN  /\ req[p].step = "reclaim"
        /\ leases' = leases \ victims
        /\ events' = CloseSegments(events, IdsOf(victims), now)
        /\ Answer(p)
        /\ UNCHANGED <<now, pool, policy, admin>>

\* InProc.AcquireLease, allowlist gate.
AcquireGate(p) ==
    /\ req[p].step = "acquireGate"
    /\ IF Allows(DeviceOf[p], ProviderOf[req[p].account])
       THEN GoTo(p, "acquire") ELSE Answer(p)
    /\ UNCHANGED <<now, pool, table, policy, admin>>

\* store.AcquireLease, the three outcomes of its transaction.
AcquireLocked(p) ==
    /\ req[p].step = "acquire"
    /\ HeldByOther(req[p].account, DeviceOf[p])
    /\ Answer(p)
    /\ UNCHANGED <<now, pool, table, policy, admin>>

AcquireFree(p, i) ==
    LET a == req[p].account
        d == DeviceOf[p]
        others == OtherOfProvider(LiveLeases, d, a)
        new == [id |-> i, account |-> a, device |-> d, acquired |-> now,
                expires |-> now + TTL, lastActive |-> now]
    IN  /\ req[p].step = "acquire"
        /\ i \notin UsedIds
        /\ Free(a)
        /\ leases' = (LiveLeases \ others) \cup {new}
        /\ events' = EnsureOpen(CloseSegments(CloseExpired, IdsOf(others), now),
                                new)
        /\ Answer(p)
        /\ UNCHANGED <<now, pool, policy, admin>>

AcquireOwn(p) ==
    LET d == DeviceOf[p]
    IN  /\ req[p].step = "acquire"
        /\ \E l \in LiveLeases :
             LET others == OtherOfProvider(LiveLeases, d, l.account)
                 renewed == [l EXCEPT !.expires = now + TTL, !.lastActive = now]
             IN  /\ l.account = req[p].account
                 /\ l.device = d
                 /\ leases' = (LiveLeases \ (others \cup {l})) \cup {renewed}
                 /\ events' = CloseSegments(EnsureOpen(CloseExpired, l),
                                            IdsOf(others), now)
        /\ Answer(p)
        /\ UNCHANGED <<now, pool, policy, admin>>

\* store.RenewLease runs outside a transaction: UPDATE, SELECT, INSERT.
\* (mutant: the UPDATE does not ask for expires_at > now)
RenewUpdateAny(p) ==
    LET mine == {l \in leases : l.id = req[p].lease}
    IN  /\ req[p].step = "renew"
        /\ leases' = (leases \ mine) \cup
                     {[l EXCEPT !.expires = now + TTL,
                                !.lastActive = now - req[p].idle] : l \in mine}
        /\ IF mine = {} THEN Answer(p) ELSE GoTo(p, "renewRead")
        /\ UNCHANGED <<now, pool, events, policy, admin>>

RenewUpdate(p) ==
    LET mine == {l \in LiveLeases : l.id = req[p].lease}
    IN  /\ req[p].step = "renew"
        /\ leases' = (leases \ mine) \cup
                     {[l EXCEPT !.expires = now + TTL,
                                !.lastActive = now - req[p].idle] : l \in mine}
        /\ IF mine = {} THEN Answer(p) ELSE GoTo(p, "renewRead")
        /\ UNCHANGED <<now, pool, events, policy, admin>>

RenewRead(p) ==
    /\ req[p].step = "renewRead"
    /\ IF req[p].lease \in IdsOf(leases) THEN GoTo(p, "renewEvent")
                                         ELSE Answer(p)
    /\ UNCHANGED <<now, pool, table, policy, admin>>

\* The values inserted were read by the SELECT.  They never change while a
\* row exists and every hold opens a segment with the same ones, so the
\* segment the lease was opened with stands for them.
RenewEvent(p) ==
    /\ req[p].step = "renewEvent"
    /\ events' =
         IF OpenOf(events, req[p].lease) # {} THEN events
         ELSE events \cup {[e EXCEPT !.ended = Open] :
                             e \in {f \in events : f.lease = req[p].lease}}
    /\ Answer(p)
    /\ UNCHANGED <<now, pool, leases, policy, admin>>

ReleaseLease(p) ==
    /\ req[p].step = "release"
    /\ leases' = {l \in leases : l.id # req[p].lease}
    /\ events' = CloseSegments(events, {req[p].lease}, now)
    /\ Answer(p)
    /\ UNCHANGED <<now, pool, policy, admin>>

\* The client gives up (timeout, lost connection): r.Context() is cancelled
\* and the handler stops before its next statement.
Abandon(p) ==
    /\ req[p].step # "idle"
    /\ Answer(p)
    /\ UNCHANGED <<now, pool, table, policy, admin>>

-----------------------------------------------------------------------------
(* The admin's device page. *)

\* handleAPIDevicesSuspend and handleAPIDevicesProviders write the device row,
\* then release the device's leases.
Suspend(d) ==
    /\ admin.step # "release"
    /\ d \in paired
    /\ disabled' = disabled \cup {d}
    /\ admin' = [step |-> "release", device |-> d]
    /\ UNCHANGED <<now, pool, table, paired, allowed, req>>

SetProviders(d, granted) ==
    /\ admin.step # "release"
    /\ d \in paired
    /\ allowed' = {x \in allowed : x[1] # d} \cup ({d} \X granted)
    /\ admin' = [step |-> "release", device |-> d]
    /\ UNCHANGED <<now, pool, table, paired, disabled, req>>

\* store.ReleaseDeviceLeases
\* (mutant: the DELETE does not ask for the device)
ReleaseEveryLease ==
    /\ admin.step = "release"
    /\ leases' = {}
    /\ events' = CloseSegments(events, IdsOf(leases), now)
    /\ admin' = [admin EXCEPT !.step = "done"]
    /\ UNCHANGED <<now, pool, policy, req>>

ReleaseDeviceLeases ==
    LET held == {l \in leases : l.device = admin.device}
    IN  /\ admin.step = "release"
        /\ leases' = leases \ held
        /\ events' = CloseSegments(events, IdsOf(held), now)
        /\ admin' = [admin EXCEPT !.step = "done"]
        /\ UNCHANGED <<now, pool, policy, req>>

Resume(d) ==
    /\ admin.step # "release"
    /\ d \in disabled
    /\ disabled' = disabled \ {d}
    /\ admin' = NoAdmin
    /\ UNCHANGED <<now, pool, table, paired, allowed, req>>

\* handleAPIDevicesRevoke drops the device row and leaves its leases alone.
\* (mutant: the suspension outlives the device)
RevokeButSuspension(d) ==
    /\ admin.step # "release"
    /\ d \in paired
    /\ paired' = paired \ {d}
    /\ allowed' = {x \in allowed : x[1] # d}
    /\ admin' = NoAdmin
    /\ UNCHANGED <<now, pool, table, disabled, req>>

Revoke(d) ==
    /\ admin.step # "release"
    /\ d \in paired
    /\ paired' = paired \ {d}
    /\ disabled' = disabled \ {d}
    /\ allowed' = {x \in allowed : x[1] # d}
    /\ admin' = NoAdmin
    /\ UNCHANGED <<now, pool, table, req>>

-----------------------------------------------------------------------------
(* The vault process and its environment. *)

SweepLeases ==
    /\ leases # LiveLeases
    /\ leases' = LiveLeases
    /\ events' = CloseExpired
    /\ UNCHANGED <<now, pool, policy, req, admin>>

\* A crash or an upgrade drops every request.  store.Open closes the segments
\* whose lease row is gone.
\* (mutant: it closes every segment)
RestartClosesAll ==
    /\ req' = [p \in Agents |-> NoRequest]
    /\ admin' = NoAdmin
    /\ events' = CloseSegments(events, {e.lease : e \in events}, now)
    /\ UNCHANGED <<now, pool, leases, policy>>

Restart ==
    /\ req' = [p \in Agents |-> NoRequest]
    /\ admin' = NoAdmin
    /\ events' = CloseSegments(events, {e.lease : e \in events} \ IdsOf(leases),
                               now)
    /\ UNCHANGED <<now, pool, leases, policy>>

\* Usage polls, token refreshes and the accounts page move accounts in and
\* out of eligibility (selector.IsEligible).
PoolChange(a) ==
    /\ pool' = IF a \in pool THEN pool \ {a} ELSE pool \cup {a}
    /\ UNCHANGED <<now, table, policy, req, admin>>

Tick ==
    /\ now < IdleThreshold + MaxNow
    /\ now' = now + 1
    /\ UNCHANGED <<pool, table, policy, req, admin>>

-----------------------------------------------------------------------------
AgentStep(p) ==
    \/ \E pr \in Providers : StartPick(p, pr)
    \/ \E a \in Accounts : StartAcquire(p, a)
    \/ \E i \in OwnIds(p), t \in IdleReports : StartRenew(p, i, t)
    \/ \E i \in OwnIds(p) : StartRelease(p, i)
    \/ PickGate(p) \/ PickFirst(p) \/ PickSecond(p) \/ Reclaim(p)
    \/ AcquireGate(p) \/ AcquireLocked(p) \/ AcquireOwn(p)
    \/ \E i \in LeaseIds : AcquireFree(p, i)
    \/ RenewUpdate(p) \/ RenewRead(p) \/ RenewEvent(p)
    \/ ReleaseLease(p)
    \/ Abandon(p)

AdminStep ==
    \/ \E d \in Administered : \/ Suspend(d) \/ Resume(d) \/ Revoke(d)
                               \/ \E g \in Grants : SetProviders(d, g)
    \/ ReleaseDeviceLeases

VaultStep ==
    \/ SweepLeases \/ Restart \/ Tick
    \/ \E a \in Unsteady : PoolChange(a)

Next == (\E p \in Agents : AgentStep(p)) \/ AdminStep \/ VaultStep

Spec == Init /\ [][Next]_vars

-----------------------------------------------------------------------------
(* Properties. *)

\* Every variable keeps its type: rows carry known accounts and devices, a
\* suspended device still has its row, a request names what its step needs.
TypeOK ==
    /\ now \in IdleThreshold .. (IdleThreshold + MaxNow)
    /\ pool \subseteq Accounts
    /\ leases \subseteq LeaseRow
    /\ events \subseteq Segment
    /\ disabled \subseteq paired /\ paired \subseteq Devices
    /\ allowed \subseteq Devices \X Providers
    /\ req \in [Agents -> Request]
    /\ admin \in AdminRequest

\* No two rows of the lease table are for one account: the unique index is
\* never what stops a second holder, the transactions are.
OneHolder == \A l, k \in leases : l.account = k.account => l = k

\* A device never holds two accounts of one provider, even when two agent
\* processes share its id (the incident releaseOtherDeviceProviderLeasesTx
\* was written for), while its holds in different pools coexist.
OnePerDeviceProvider ==
    \A l, k \in leases :
        (l.device = k.device /\ ProviderOf[l.account] = ProviderOf[k.account])
            => l = k

\* Every hold is billed, once, to its holder: a lease row has exactly one open
\* segment, which names its account, its device and the time it was acquired.
HeldIsBilled == \A l \in leases : OpenOf(events, l.id) = {SegmentFor(l)}

\* The primary key of the lease table, and the inductive invariant.
UniqueIds == \A l, k \in leases : l.id = k.id => l = k
LeaseInv == /\ TypeOK /\ UniqueIds /\ OneHolder
            /\ OnePerDeviceProvider /\ HeldIsBilled

\* When two segments bill the same instant of an account to two holds, a
\* renewal overtook a release: one of the two leases has a second segment.
EndOf(e) == IF e.ended = Open THEN now ELSE e.ended
DoubleBillingOnlyByRenewal ==
    \A e, f \in events :
        (/\ e.account = f.account /\ e.lease # f.lease
         /\ e.started <= f.started /\ f.started < EndOf(e)
         /\ f.started < EndOf(f))
            => \E g \in events : g.lease \in {e.lease, f.lease} /\ g \notin {e, f}

\* A live lease disappears only by an agent of its own device, by an admin's
\* action on its device, or because its holder reported IdleThreshold without
\* activity: no device takes an account another one is using.
NoTheft ==
    [][\A l \in LiveLeases :
         l.id \notin IdsOf(leases') =>
            \/ \E p \in Agents : DeviceOf[p] = l.device /\ req'[p] # req[p]
            \/ admin.step = "release" /\ admin.device = l.device
            \/ IdleHolder(l)]_vars

\* Acquiring in one pool leaves every live hold in the other pools alone, the
\* caller's own included: a device may run Claude and Codex side by side.
PoolsAreSeparate ==
    [][\A p \in Agents :
         (req[p].step = "acquire" /\ req'[p] # req[p]) =>
            {l \in LiveLeases :
               ProviderOf[l.account] # ProviderOf[req[p].account]}
                 \subseteq leases']_vars

\* A lease that lapsed is never brought back: the row an expired lease had is
\* gone or still expired after any step.
LapsedStaysLapsed ==
    [][\A l \in leases \ LiveLeases : \A k \in leases' :
         k.id = l.id => k.expires <= now']_vars

\* The vault implements exclusive leasing: the holder of an account is the
\* device its lease row names, lapsed or not, until the row goes.
RowOf(a) == CHOOSE l \in leases : l.account = a
IsHeld(a) == \E l \in leases : l.account = a
Contract == INSTANCE ExclusiveLease WITH
    clock  <- now,
    holder <- [a \in Accounts |-> IF IsHeld(a) THEN RowOf(a).device ELSE None],
    until  <- [a \in Accounts |-> IF IsHeld(a) THEN RowOf(a).expires ELSE 0]

ImplementsExclusiveLease == Contract!Spec

Quiet == \A p \in Agents : req[p].step = "idle"

\* leases.go: a release "Closes the lease's open attribution segment at the
\* release instant so per-device usage replay stops counting it".  With no
\* request in flight, only segments of existing leases are open.
ReleasedIsNotBilled ==
    Quiet => \A e \in events : e.ended = Open => e.lease \in IdsOf(leases)

\* api.go: a suspension "releases any leases the device holds so the accounts
\* return to the pool immediately".
SuspendedHoldsNothing ==
    (Quiet /\ admin.step = "done" /\ admin.device \in disabled) =>
        \A l \in LiveLeases : l.device # admin.device

=============================================================================
