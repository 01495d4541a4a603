--------------------------- MODULE OpenRouterKeys ---------------------------
(***************************************************************************)
(* The runtime keys of the OpenRouter pool.  The vault mints one key per   *)
(* device and account at OpenRouter, keeps its hash in the table           *)
(* device_openrouter_keys (the hash is all that can ever revoke it), and   *)
(* kills it when the device is suspended, revoked or loses the provider,   *)
(* or when the account's policy or management key changes.  A key does not *)
(* pass through the vault when it is used, so what matters is what lives   *)
(* at OpenRouter, not what the tables say.                                 *)
(*                                                                         *)
(* A statement on the database and a call to OpenRouter are one step each; *)
(* handlers of agents and admins interleave between them, calls fail,      *)
(* answers get lost and the vault restarts.  Which accounts are usable     *)
(* (active, with models, a key on file and credit) changes by itself here; *)
(* KeyBalances is about that.                                              *)
(***************************************************************************)
EXTENDS Naturals, FiniteSets

CONSTANTS
    Devices,       \* paired devices
    Agents,        \* agent processes
    DeviceOf,      \* the device each one is paired as
    Accounts,      \* OpenRouter accounts, numbers: the order of pickAccount
    Admins,        \* admin sessions
    MgmtKeys,      \* API keys an account may have
    Provisioning,  \* those that can mint
    MaxKeys,       \* bound: keys minted
    Policies,      \* policies an account may have
    MaxOps,        \* bound: admin requests
    MaxFaults,     \* bound: failed calls, lost answers and restarts
    None

ASSUME KeysAssumption ==
    /\ Accounts \subseteq Nat \ {0} /\ MgmtKeys \subseteq Nat \ {0}
    /\ Provisioning \subseteq MgmtKeys
    /\ DeviceOf \in [Agents -> Devices] /\ None \notin Devices
    /\ MgmtKeys # {} /\ Policies # {} /\ Policies \subseteq Nat \ {0}
    /\ {MaxKeys, MaxOps, MaxFaults} \subseteq Nat

VARIABLES
    device,   \* table devices: row, allow_openrouter, disabled
    usable,   \* accounts the pool offers
    policy,   \* the account's credential_json
    mgmt,     \* table openrouter_credentials: the account's key
    rows,     \* table device_openrouter_keys
    keys,     \* keys OpenRouter made, by hash
    live,     \* hashes OpenRouter accepts
    ens,      \* EnsureDeviceKey in flight, by agent
    adm,      \* admin request in flight, by session
    held,     \* the runtime key each agent serves to codex
    ops, faults, \* requests and faults so far
    lost,     \* history: keys whose hash the vault lost by a fault
    missed    \* history: keys whose EnsureDeviceKey overlapped a request of an
              \* admin (field late), or that a fault made such a request miss

tables   == <<usable, policy, mgmt, rows>>
upstream == <<keys, live>>
bounds   == <<ops, faults>>
history  == <<lost, missed>>
vars     == <<device, tables, upstream, ens, adm, held, bounds, history>>

-----------------------------------------------------------------------------
(* Rows and requests. *)

Hashes == 1 .. MaxKeys

Row(d, a, h) == [device |-> d, account |-> a, hash |-> h]

KeyRows == [device : Devices, account : Accounts, hash : Hashes]

RowsOf(d) == {r \in rows : r.device = d}
RowsFrom(a) == {r \in rows : r.account = a}

NoEnsure == [at |-> "idle", account |-> 0, policy |-> 0, mgmt |-> 0, hash |-> 0,
             late |-> FALSE]

NoTask == [op |-> "none", at |-> "none", device |-> None, account |-> 0,
           todo |-> {}, mgmt |-> 0, failed |-> FALSE, newPolicy |-> 0,
           newKey |-> 0]

DeviceRow == [row |-> TRUE, allow |-> TRUE, disabled |-> FALSE]

\* authenticateRequest: a row that is not disabled.
Authenticated(d) == device[d].row /\ ~ device[d].disabled

\* DeviceAllowsProvider: an id without a row is not gated.
Allows(d) == device[d].row => device[d].allow

\* pickAccount: the lowest id that is usable.
Picked == CHOOSE a \in usable : \A b \in usable : a <= b

\* A DELETE at OpenRouter with management key m: a key of another owner is not
\* found, and "not found" counts as revoked (DeleteKey).
AfterDelete(m, h) == IF keys[h].by = m THEN live \ {h} ELSE live

\* DeleteDeviceOpenRouterKey goes by device and account.
WithoutRow(d, a) == {r \in rows : ~ (r.device = d /\ r.account = a)}

-----------------------------------------------------------------------------
Init ==
    /\ device = [d \in Devices |-> DeviceRow]
    /\ usable = Accounts
    /\ policy = [a \in Accounts |-> CHOOSE c \in Policies : TRUE]
    /\ mgmt = [a \in Accounts |-> CHOOSE m \in MgmtKeys : TRUE]
    /\ rows = {}
    /\ keys = [h \in Hashes |->
                 [device |-> None, account |-> 0, policy |-> 0, by |-> 0]]
    /\ live = {}
    /\ ens = [p \in Agents |-> NoEnsure]
    /\ adm = [b \in Admins |-> NoTask]
    /\ held = [p \in Agents |-> None]
    /\ ops = 0 /\ faults = 0 /\ lost = {} /\ missed = {}

-----------------------------------------------------------------------------
(* The agent fetches its grant (openRouterWriter.Sync). *)

Ensure(p, e) == ens' = [ens EXCEPT ![p] = e]

AtStep(p, s) == ens[p].at = s

\* A request of an admin under way that is about the keys of p's device.
Concerns(b, p) == adm[b].device \in {None, DeviceOf[p]}

EnsureKeeps == UNCHANGED <<device, usable, policy, mgmt, adm, bounds>>

\* Sync asks; a device that is not authenticated gets an error, and the agent
\* keeps what it has.
Ask(p) ==
    /\ AtStep(p, "idle")
    /\ Authenticated(DeviceOf[p])
    /\ Ensure(p, [NoEnsure EXCEPT !.at = "gate",
                    !.late = \E b \in Admins : adm[b].op # "none" /\ Concerns(b, p)])
    /\ EnsureKeeps /\ UNCHANGED <<rows, upstream, held, history>>

\* (mutant: the key is kept.)
TeardownKeeps(p) == Ensure(p, NoEnsure) /\ UNCHANGED held

\* The answer "nothing for this device": Teardown forgets the key.
Teardown(p) == Ensure(p, NoEnsure) /\ held' = [held EXCEPT ![p] = None]

\* The answer is a key: it is served from now on.
Serve(p, k) == Ensure(p, NoEnsure) /\ held' = [held EXCEPT ![p] = k]

\* EnsureDeviceKey reads the allowlist.
Gate(p) ==
    /\ AtStep(p, "gate")
    /\ \/ Allows(DeviceOf[p]) /\ Ensure(p, [ens[p] EXCEPT !.at = "pick"])
                             /\ UNCHANGED held
       \/ ~ Allows(DeviceOf[p]) /\ Teardown(p)
    /\ EnsureKeeps /\ UNCHANGED <<rows, upstream, history>>

\* pickAccount; an ordinary key is handed out as it is.
PickAccount(p) ==
    /\ AtStep(p, "pick")
    /\ \/ usable = {} /\ Teardown(p)
       \/ /\ usable # {} /\ mgmt[Picked] \notin Provisioning
          /\ Serve(p, [shared |-> mgmt[Picked]])
       \/ /\ usable # {} /\ mgmt[Picked] \in Provisioning
          /\ Ensure(p, [ens[p] EXCEPT !.at = "lookup", !.account = Picked,
                          !.policy = policy[Picked], !.mgmt = mgmt[Picked]])
          /\ UNCHANGED held
    /\ EnsureKeeps /\ UNCHANGED <<rows, upstream, history>>

\* DeviceOpenRouterKeyFor: the key of the row is reused, whatever became of it.
\* (No expiry is ever asked for, so a row does not expire.)
Lookup(p) ==
    /\ AtStep(p, "lookup")
    /\ LET own == {r \in RowsOf(DeviceOf[p]) : r.account = ens[p].account} IN
         \/ \E r \in own : Serve(p, [hash |-> r.hash])
         \/ own = {} /\ Ensure(p, [ens[p] EXCEPT !.at = "mint"]) /\ UNCHANGED held
    /\ EnsureKeeps /\ UNCHANGED <<rows, upstream, history>>

NextHash == Cardinality({h \in Hashes : keys[h].by # 0}) + 1

Minted(p, h) ==
    /\ h \in Hashes
    /\ keys' = [keys EXCEPT ![h] = [device |-> DeviceOf[p],
                  account |-> ens[p].account, policy |-> ens[p].policy,
                  by |-> ens[p].mgmt]]
    /\ live' = live \cup {h}

\* DeriveDeviceKey with what pickAccount read.
Mint(p) ==
    /\ AtStep(p, "mint")
    /\ Minted(p, NextHash)
    /\ Ensure(p, [ens[p] EXCEPT !.at = "put", !.hash = NextHash])
    /\ EnsureKeeps /\ UNCHANGED <<rows, held, history>>

\* PutDeviceOpenRouterKey replaces the row of the device and the account.
Put(p) ==
    /\ AtStep(p, "put")
    /\ rows' = WithoutRow(DeviceOf[p], ens[p].account)
                 \cup {Row(DeviceOf[p], ens[p].account, ens[p].hash)}
    /\ Serve(p, [hash |-> ens[p].hash])
    /\ missed' = IF ens[p].late THEN missed \cup {ens[p].hash} ELSE missed
    /\ EnsureKeeps /\ UNCHANGED <<upstream, lost>>

\* The row cannot be written: the key is revoked again, unless that fails too.
PutFails(p) ==
    /\ AtStep(p, "put") /\ faults < MaxFaults
    /\ faults' = faults + 1
    /\ \/ live' = AfterDelete(ens[p].mgmt, ens[p].hash) /\ UNCHANGED lost
       \/ lost' = lost \cup {ens[p].hash} /\ UNCHANGED live
    /\ Ensure(p, NoEnsure)
    /\ UNCHANGED <<device, tables, keys, adm, held, ops, missed>>

\* OpenRouter fails, or makes the key and the answer is lost.
MintFails(p) ==
    /\ AtStep(p, "mint") /\ faults < MaxFaults
    /\ faults' = faults + 1
    /\ \/ UNCHANGED <<upstream, lost>>
       \/ Minted(p, NextHash) /\ lost' = lost \cup {NextHash}
    /\ Ensure(p, NoEnsure)
    /\ UNCHANGED <<device, tables, adm, held, ops, missed>>

-----------------------------------------------------------------------------
(* The admin's requests. *)

Task(b, t) == adm' = [adm EXCEPT ![b] = t]

AdminKeeps == UNCHANGED <<ens, held, faults>>

Begin(b) == adm[b].op = "none" /\ ops < MaxOps /\ ops' = ops + 1

\* RevokeDeviceKeys and RevokeAccountKeys begin with the list of the rows.
Listing(op, d, a) ==
    [NoTask EXCEPT !.op = op, !.at = "list", !.device = d, !.account = a]

\* (mutant: the keys are not touched.)
SuspendOnly(b, d) ==
    /\ Begin(b) /\ device[d].row
    /\ device' = [device EXCEPT ![d].disabled = TRUE]
    /\ AdminKeeps /\ UNCHANGED <<tables, upstream, adm, history>>

\* Suspension and a withdrawn provider take effect first, then the keys go.
Suspend(b, d) ==
    /\ Begin(b) /\ device[d].row
    /\ device' = [device EXCEPT ![d].disabled = TRUE]
    /\ Task(b, Listing("device", d, 0))
    /\ AdminKeeps /\ UNCHANGED <<tables, upstream, history>>

Withdraw(b, d) ==
    /\ Begin(b) /\ device[d].row
    /\ device' = [device EXCEPT ![d].allow = FALSE]
    /\ Task(b, Listing("device", d, 0))
    /\ AdminKeeps /\ UNCHANGED <<tables, upstream, history>>

\* Resume and a new grant need no keys to go.
Restore(b, d) ==
    /\ Begin(b) /\ device[d].row
    /\ \/ device' = [device EXCEPT ![d].disabled = FALSE]
       \/ device' = [device EXCEPT ![d].allow = TRUE]
    /\ AdminKeeps /\ UNCHANGED <<tables, upstream, adm, history>>

\* A revocation starts with the keys; the row of the device goes last.
Revoke(b, d) ==
    /\ Begin(b) /\ device[d].row
    /\ Task(b, Listing("revoke", d, 0))
    /\ AdminKeeps /\ UNCHANGED <<device, tables, upstream, history>>

\* An edit of the account, with its policy and perhaps another API key; it needs
\* the keys to go if either changes (policyChanged, rotatingKey).
Update(b, a) ==
    /\ Begin(b)
    /\ \E np \in Policies, nk \in MgmtKeys \cup {0} :
         Task(b, [Listing("account", None, a) EXCEPT
                    !.at = IF np # policy[a] \/ nk # 0 THEN "list" ELSE "next",
                    !.newPolicy = np, !.newKey = nk])
    /\ AdminKeeps /\ UNCHANGED <<device, tables, upstream, history>>

List(b) ==
    /\ adm[b].at = "list"
    /\ Task(b, [adm[b] EXCEPT !.at = "next",
                  !.todo = IF adm[b].device # None THEN RowsOf(adm[b].device)
                           ELSE RowsFrom(adm[b].account)])
    /\ ens' = [p \in Agents |-> IF ens[p].at # "idle" /\ Concerns(b, p)
                                THEN [ens[p] EXCEPT !.late = TRUE] ELSE ens[p]]
    /\ UNCHANGED <<device, tables, upstream, held, bounds, history>>

\* The rows come newest first (ORDER BY created_at DESC).
Front(b) == CHOOSE r \in adm[b].todo : \A s \in adm[b].todo : r.hash >= s.hash

\* revokeOne reads the account's key of that moment ...
ReadCredential(b) ==
    /\ adm[b].at = "next" /\ adm[b].todo # {}
    /\ Task(b, [adm[b] EXCEPT !.at = "delete", !.mgmt = mgmt[Front(b).account]])
    /\ AdminKeeps /\ UNCHANGED <<device, tables, upstream, ops, history>>

\* ... deletes upstream ...
DeleteKey(b) ==
    /\ adm[b].at = "delete"
    /\ live' = AfterDelete(adm[b].mgmt, Front(b).hash)
    /\ Task(b, [adm[b] EXCEPT !.at = "row"])
    /\ AdminKeeps /\ UNCHANGED <<device, tables, keys, ops, history>>

\* ... and then the row.
DeleteRow(b) ==
    /\ adm[b].at = "row"
    /\ rows' = WithoutRow(Front(b).device, Front(b).account)
    /\ Task(b, [adm[b] EXCEPT !.at = "next", !.todo = @ \ {Front(b)}])
    /\ AdminKeeps
    /\ UNCHANGED <<device, usable, policy, mgmt, upstream, ops, history>>

\* OpenRouter refuses or does not answer: the row stays, the loop goes on.
DeleteFails(b) ==
    /\ adm[b].at = "delete" /\ faults < MaxFaults
    /\ faults' = faults + 1
    /\ \/ UNCHANGED live
       \/ live' = AfterDelete(adm[b].mgmt, Front(b).hash)
    /\ Task(b, [adm[b] EXCEPT !.at = "next", !.todo = @ \ {Front(b)},
                              !.failed = TRUE])
    /\ missed' = missed \cup {Front(b).hash}
    /\ UNCHANGED <<device, tables, keys, ens, held, ops, lost>>

Finished(b, op) == adm[b].op = op /\ adm[b].at = "next" /\ adm[b].todo = {}

\* All keys were tried: a suspension or withdrawal answers.
EndWithdrawal(b) ==
    /\ Finished(b, "device")
    /\ Task(b, NoTask)
    /\ AdminKeeps /\ UNCHANGED <<device, tables, upstream, ops, history>>

\* A revocation removes the device only if every key is gone.
EndRevoke(b) ==
    /\ Finished(b, "revoke")
    /\ device' = IF adm[b].failed THEN device
                 ELSE [device EXCEPT ![adm[b].device].row = FALSE]
    /\ Task(b, NoTask)
    /\ AdminKeeps /\ UNCHANGED <<tables, upstream, ops, history>>

\* An edit is abandoned when a key could not be revoked; else its policy is
\* stored, and then the new key.
StorePolicy(b) ==
    /\ Finished(b, "account")
    /\ policy' = IF adm[b].failed THEN policy
                 ELSE [policy EXCEPT ![adm[b].account] = adm[b].newPolicy]
    /\ Task(b, IF adm[b].failed \/ adm[b].newKey = 0 THEN NoTask
               ELSE [adm[b] EXCEPT !.at = "store"])
    /\ AdminKeeps /\ UNCHANGED <<device, usable, mgmt, rows, upstream, ops, history>>

StoreKey(b) ==
    /\ adm[b].at = "store"
    /\ mgmt' = [mgmt EXCEPT ![adm[b].account] = adm[b].newKey]
    /\ Task(b, NoTask)
    /\ AdminKeeps
    /\ UNCHANGED <<device, usable, policy, rows, upstream, ops, history>>

\* detectOpenRouterKeyKind cannot reach OpenRouter: the policy is stored by now,
\* the key is not.
StoreKeyFails(b) ==
    /\ adm[b].at = "store" /\ faults < MaxFaults
    /\ faults' = faults + 1
    /\ Task(b, NoTask)
    /\ UNCHANGED <<device, tables, upstream, ens, held, ops, history>>

-----------------------------------------------------------------------------
(* The rest of the world. *)

\* Credit, status or models of an account change.
PoolChange ==
    /\ ops < MaxOps /\ ops' = ops + 1
    /\ \E a \in Accounts : usable' = (usable \ {a}) \cup ({a} \ usable)
    /\ UNCHANGED <<device, policy, mgmt, rows, upstream, ens, adm, held, faults,
                   history>>

\* The vault restarts: requests are gone, and with them a key without its row.
Restart ==
    /\ faults < MaxFaults
    /\ \/ \E p \in Agents : ens[p] # NoEnsure
       \/ \E b \in Admins : adm[b] # NoTask
    /\ faults' = faults + 1
    /\ lost' = lost \cup {ens[p].hash : p \in {q \in Agents : AtStep(q, "put")}}
    /\ missed' = IF \E b \in Admins : adm[b] # NoTask
                 THEN missed \cup {r.hash : r \in rows} ELSE missed
    /\ ens' = [p \in Agents |-> NoEnsure]
    /\ adm' = [b \in Admins |-> NoTask]
    /\ UNCHANGED <<device, tables, upstream, held, ops>>

-----------------------------------------------------------------------------
AgentStep(p) == Ask(p) \/ Gate(p) \/ PickAccount(p) \/ Lookup(p) \/ Mint(p) \/ Put(p)

AdminWorks(b) ==
    \/ List(b) \/ ReadCredential(b) \/ DeleteKey(b) \/ DeleteRow(b)
    \/ EndWithdrawal(b) \/ EndRevoke(b) \/ StorePolicy(b) \/ StoreKey(b)

AdminAsks(b) ==
    \/ \E d \in Devices : Suspend(b, d) \/ Withdraw(b, d) \/ Restore(b, d)
                          \/ Revoke(b, d)
    \/ \E a \in Accounts : Update(b, a)

Fault ==
    \/ \E p \in Agents : MintFails(p) \/ PutFails(p)
    \/ \E b \in Admins : DeleteFails(b) \/ StoreKeyFails(b)
    \/ Restart

Next ==
    \/ \E p \in Agents : AgentStep(p)
    \/ \E b \in Admins : AdminWorks(b) \/ AdminAsks(b)
    \/ PoolChange \/ Fault

Spec == Init /\ [][Next]_vars

\* The agents sync for ever and the vault finishes what it began.
Fairness ==
    /\ \A p \in Agents : WF_vars(AgentStep(p))
    /\ \A b \in Admins : WF_vars(AdminWorks(b))

FairSpec == Spec /\ Fairness

-----------------------------------------------------------------------------
(* Properties. *)

DeviceRows == [row : BOOLEAN, allow : BOOLEAN, disabled : BOOLEAN]
KeyRecords ==
    [device : Devices \cup {None}, policy : Policies \cup {0},
     account : Accounts \cup {0}, by : MgmtKeys \cup {0}]
Ensures ==
    [at : {"idle", "gate", "pick", "lookup", "mint", "put"},
     account : Accounts \cup {0}, policy : Policies \cup {0},
     mgmt : MgmtKeys \cup {0}, hash : Hashes \cup {0}, late : BOOLEAN]
Tasks ==
    [op : {"none", "device", "revoke", "account"},
     at : {"none", "list", "next", "delete", "row", "store"},
     device : Devices \cup {None}, account : Accounts \cup {0},
     todo : SUBSET KeyRows, mgmt : MgmtKeys \cup {0}, failed : BOOLEAN,
     newPolicy : Policies \cup {0}, newKey : MgmtKeys \cup {0}]
Served == {None} \cup [hash : Hashes] \cup [shared : MgmtKeys]

TypeOK ==
    /\ device \in [Devices -> DeviceRows]
    /\ usable \subseteq Accounts
    /\ policy \in [Accounts -> Policies] /\ mgmt \in [Accounts -> MgmtKeys]
    /\ rows \subseteq KeyRows
    /\ keys \in [Hashes -> KeyRecords] /\ live \subseteq Hashes
    /\ ens \in [Agents -> Ensures] /\ adm \in [Admins -> Tasks]
    /\ held \in [Agents -> Served]
    /\ ops \in 0 .. MaxOps /\ faults \in 0 .. MaxFaults
    /\ lost \subseteq Hashes /\ missed \subseteq Hashes

\* Someone in the vault can still revoke key h: its row, or the handler that is
\* about to write the row.
Known(h) ==
    \/ \E r \in rows : r.hash = h
    \/ \E p \in Agents : AtStep(p, "put") /\ ens[p].hash = h

\* No key that OpenRouter accepts is forgotten ("losing it would leak a live key
\* we can no longer kill", store/openrouter.go).
NoOrphan == \A h \in live : Known(h) \/ h \in lost

\* With one agent for each device that is so, but for a key that overlapped an
\* edit: a new API key cannot kill what the old one made.
NoOrphanButOverlap == \A h \in live : Known(h) \/ h \in lost \/ h \in missed

Idle == \A b \in Admins : adm[b] = NoTask

\* When no request of an admin is under way, every key on file that works has the
\* account's current policy ("a surviving row is by definition current",
\* EnsureDeviceKey), and its device may have it ("without this call suspended
\* would leave a fully working credential on the machine", RevokeDeviceKeys).
Current(r) == keys[r.hash].policy = policy[r.account]
Rightful(r) == Authenticated(r.device) /\ Allows(r.device)

SurvivingRowIsCurrent == Idle => \A r \in rows : r.hash \in live => Current(r)
StoppedDeviceIsOut == Idle => \A r \in rows : r.hash \in live => Rightful(r)

\* Only a key whose mint overlapped the request, or whose deletion failed,
\* escapes.
EscapesOnlyByOverlap ==
    Idle => \A r \in rows :
        r.hash \in live => (Current(r) /\ Rightful(r)) \/ r.hash \in missed

\* An agent whose provider stays withdrawn comes to serve no key (Sync tears
\* down); one whose grant stays comes to serve a key that works, unless a
\* fault left the row of a dead key.
Works(p) ==
    \/ \E h \in live : held[p] = [hash |-> h]
    \/ \E a \in Accounts : held[p] = [shared |-> mgmt[a]]

Granted(d) == Authenticated(d) /\ device[d].allow /\ usable # {}

WithdrawnForgets ==
    \A p \in Agents :
        <>[](Authenticated(DeviceOf[p]) /\ ~ Allows(DeviceOf[p]))
            => <>[](held[p] = None)

GrantedIsServed ==
    \A p \in Agents :
        <>[](Granted(DeviceOf[p]) /\ faults = 0) => <>[]Works(p)

\* A suspended agent comes to forget its key ("losing the grant (revoked,
\* suspended, provider withdrawn) tears the config down", Sync).
SuspendedForgets ==
    \A p \in Agents :
        <>[]~ Authenticated(DeviceOf[p]) => <>[](held[p] = None)

\* What holds of every state: no working key is forgotten, or outlives its policy
\* and its device's grant, but for the overlaps that are named.
KeysInv ==
    /\ TypeOK
    /\ NoOrphanButOverlap
    /\ EscapesOnlyByOverlap

\* An agent ends with what its device may have.
AgentFollowsGrant == WithdrawnForgets /\ GrantedIsServed

=============================================================================
