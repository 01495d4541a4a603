------------------------ MODULE OpenRouterKeysProofs ------------------------
(***************************************************************************)
(* For every number of devices, accounts, admins, keys, requests and       *)
(* faults: no key that OpenRouter accepts is forgotten, or outlives the    *)
(* policy of its account and the grant of its device, but for the overlaps *)
(* that KeysInv names; one agent speaks for each device.  And the keys of  *)
(* the accounts (KeyBalances): nobody but the admin gives a DeepSeek       *)
(* account a key.                                                          *)
(***************************************************************************)
EXTENDS MCOpenRouterKeys, FiniteSetTheorems, WellFoundedInduction, TLAPS

-----------------------------------------------------------------------------
(* Numbers: the account that is picked, the row that is revoked next. *)

\* A set of numbers has a least one.
LEMMA LeastNumber ==
    ASSUME NEW S \in SUBSET Nat, S # {}
    PROVE  \E m \in S : \A n \in S : m <= n
<1>1. PICK m \in S : \A n \in S : ~ (<<n, m>> \in OpToRel(<, Nat))
  BY NatLessThanWellFounded, WFMin
<1>2. \A n \in S : ~ (n < m)
  BY <1>1 DEF OpToRel
<1> QED BY <1>2

\* A bounded set of numbers has a greatest one.
LEMMA GreatestNumber ==
    ASSUME NEW N \in Nat, NEW S \in SUBSET (1 .. N), S # {}
    PROVE  \E m \in S : \A n \in S : n <= m
<1> DEFINE T == {N - n : n \in S}
<1>1. T \in SUBSET Nat
  <2> SUFFICES ASSUME NEW n \in S PROVE N - n \in Nat
    OBVIOUS
  <2> QED OBVIOUS
<1>2. T # {} /\ \A n \in S : N - n \in T
  OBVIOUS
<1>3. \A t \in T : \E n \in S : t = N - n
  OBVIOUS
<1> HIDE DEF T
<1>4. PICK t \in T : \A u \in T : t <= u
  BY <1>1, <1>2, LeastNumber
<1>5. PICK m \in S : t = N - m
  BY <1>3
<1>6. \A n \in S : n <= m
  BY <1>2, <1>4, <1>5
<1> QED BY <1>5, <1>6

\* pickAccount answers with an account the pool offers.
LEMMA PickedIsUsable ==
    ASSUME TypeOK, usable # {}
    PROVE  Picked \in usable /\ Picked \in Accounts
<1>1. usable \in SUBSET Nat
  BY KeysAssumption DEF TypeOK
<1>2. \E a \in usable : \A b \in usable : a <= b
  BY <1>1, LeastNumber
<1> QED BY <1>2 DEF Picked, TypeOK

\* revokeOne takes a row that is on the list.
LEMMA FrontIsToDo ==
    ASSUME TypeOK, NEW b \in Admins, adm[b].todo # {}
    PROVE  Front(b) \in adm[b].todo /\ Front(b) \in KeyRows
<1>1. adm[b].todo \in SUBSET KeyRows
  BY DEF TypeOK, Tasks
<1> DEFINE H == {r.hash : r \in adm[b].todo}
<1>2. MaxKeys \in Nat /\ H \in SUBSET (1 .. MaxKeys) /\ H # {}
  BY <1>1, KeysAssumption DEF KeyRows, Hashes
<1>3. /\ \A r \in adm[b].todo : r.hash \in H
      /\ \A n \in H : \E r \in adm[b].todo : r.hash = n
  OBVIOUS
<1> HIDE DEF H
<1>4. PICK m \in H : \A n \in H : n <= m
  BY <1>2, GreatestNumber
<1>5. PICK r \in adm[b].todo : r.hash = m
  BY <1>3
<1>6. \A s \in adm[b].todo : r.hash >= s.hash
  BY <1>2, <1>3, <1>4, <1>5
<1>7. Front(b) \in adm[b].todo
  BY <1>5, <1>6 DEF Front
<1> QED BY <1>1, <1>7

-----------------------------------------------------------------------------
(* Types. *)

\* What a request to EnsureDeviceKey has read is there when it is used.
EnsuresTyped ==
    \A p \in Agents :
      /\ ens[p].at \in {"lookup", "mint", "put"} =>
           /\ ens[p].account \in Accounts /\ ens[p].policy \in Policies
           /\ ens[p].mgmt \in MgmtKeys
      /\ ens[p].at = "put" => ens[p].hash \in Hashes

\* The rows a request of an admin is about.
InScope(b, r) ==
    IF adm[b].device # None THEN r.device = adm[b].device
                            ELSE r.account = adm[b].account

\* A request of an admin is about a device or an account, and has rows to revoke
\* while it revokes: its own, one of each device and account.
TaskOK(t) ==
    /\ t.op = "none" => t = NoTask
    /\ t.op \in {"device", "revoke"} =>
         t.device \in Devices /\ t.at \in {"list", "next", "delete", "row"}
    /\ t.op = "account" =>
         /\ t.device = None /\ t.account \in Accounts /\ t.newPolicy \in Policies
         /\ t.at # "none"
    /\ t.at \in {"delete", "row"} => t.todo # {}
    /\ t.at \in {"list", "store"} => t.todo = {}
    /\ t.at = "store" => t.op = "account" /\ t.newKey \in MgmtKeys
    /\ \A r \in t.todo : IF t.device # None THEN r.device = t.device
                                             ELSE r.account = t.account
    /\ \A r, s \in t.todo : r.device = s.device /\ r.account = s.account => r = s

OneRowEach == \A r, s \in rows : r.device = s.device /\ r.account = s.account => r = s

Types ==
    /\ TypeOK /\ EnsuresTyped /\ OneRowEach
    /\ \A b \in Admins : TaskOK(adm[b])

LEMMA NullRecords == NoEnsure \in Ensures /\ NoTask \in Tasks
BY DEF NoEnsure, NoTask, Ensures, Tasks

\* The first state has the types.
LEMMA InitType == Init => Types
<1> SUFFICES ASSUME Init PROVE Types
  OBVIOUS
<1>1. (CHOOSE c \in Policies : TRUE) \in Policies /\ (CHOOSE m \in MgmtKeys : TRUE) \in MgmtKeys
  BY KeysAssumption
<1>2. policy \in [Accounts -> Policies] /\ mgmt \in [Accounts -> MgmtKeys]
  BY <1>1 DEF Init
<1>3. device \in [Devices -> DeviceRows]
  BY DEF Init, DeviceRow, DeviceRows
<1>4. keys \in [Hashes -> KeyRecords]
  BY DEF Init, KeyRecords
<1>5. ens \in [Agents -> Ensures] /\ adm \in [Admins -> Tasks]
  BY NullRecords DEF Init
<1>6. held \in [Agents -> Served]
  BY DEF Init, Served
<1>7. ops \in 0 .. MaxOps /\ faults \in 0 .. MaxFaults
  BY KeysAssumption DEF Init
<1>8. EnsuresTyped /\ OneRowEach
  BY DEF Init, EnsuresTyped, OneRowEach, NoEnsure
<1>9. TaskOK(NoTask)
  BY DEF TaskOK, NoTask
<1> QED BY <1>2, <1>3, <1>4, <1>5, <1>6, <1>7, <1>8, <1>9 DEF Init, TypeOK, Types

\* A key that is minted has the type of one.
LEMMA MintedType ==
    ASSUME TypeOK, NEW p \in Agents, NEW h, Minted(p, h)
    PROVE  /\ h \in Hashes
           /\ keys' \in [Hashes -> KeyRecords] /\ live' \subseteq Hashes
           /\ keys'[h].by = ens[p].mgmt /\ keys'[h].policy = ens[p].policy
           /\ \A g \in Hashes \ {h} : keys'[g] = keys[g]
           /\ live' = live \cup {h}
<1>1. ens[p] \in Ensures /\ DeviceOf[p] \in Devices
  BY KeysAssumption DEF TypeOK
<1>2. [device |-> DeviceOf[p], account |-> ens[p].account,
       policy |-> ens[p].policy, by |-> ens[p].mgmt] \in KeyRecords
  BY <1>1 DEF KeyRecords, Ensures
<1> QED BY <1>2 DEF Minted, TypeOK

\* One request of an agent moves on.
LEMMA EnsureMoves ==
    ASSUME Types, NEW p \in Agents, NEW e \in Ensures, Ensure(p, e),
           e.at \in {"lookup", "mint", "put"} =>
             e.account \in Accounts /\ e.policy \in Policies /\ e.mgmt \in MgmtKeys,
           e.at = "put" => e.hash \in Hashes
    PROVE  ens' \in [Agents -> Ensures] /\ EnsuresTyped'
BY DEF Types, TypeOK, Ensure, EnsuresTyped

\* A row is put in the place of the one there was.
LEMMA PutRows ==
    ASSUME Types, NEW d \in Devices, NEW a \in Accounts, NEW h \in Hashes,
           rows' = WithoutRow(d, a) \cup {Row(d, a, h)}
    PROVE  rows' \subseteq KeyRows /\ OneRowEach'
BY DEF Types, TypeOK, WithoutRow, Row, KeyRows, OneRowEach

\* A step of an agent's request keeps the types.
LEMMA AgentTypes ==
    ASSUME Types, NEW p \in Agents, AgentStep(p) \/ MintFails(p) \/ PutFails(p)
    PROVE  Types'
<1>0. /\ ens[p] \in Ensures /\ DeviceOf[p] \in Devices
      /\ held \in [Agents -> Served] /\ TypeOK /\ OneRowEach /\ EnsuresTyped
      /\ \A b \in Admins : TaskOK(adm[b])
  BY KeysAssumption DEF Types, TypeOK
<1>n. NoEnsure \in Ensures /\ NoEnsure.at = "idle"
  BY NullRecords DEF NoEnsure
<1> USE DEF EnsureKeeps, tables, upstream, history, bounds
<1>1. CASE Ask(p)
  <2>1. PICK l \in BOOLEAN : ens' = [ens EXCEPT ![p] = [NoEnsure EXCEPT !.at = "gate", !.late = l]]
    BY <1>1 DEF Ask, Ensure
  <2>2. [NoEnsure EXCEPT !.at = "gate", !.late = l] \in Ensures
    BY DEF NoEnsure, Ensures
  <2>3. ens' \in [Agents -> Ensures] /\ EnsuresTyped'
    BY <2>1, <2>2, EnsureMoves DEF Ensure, NoEnsure
  <2> QED BY <1>0, <1>1, <2>3 DEF Ask, Types, TypeOK, OneRowEach
<1>2. CASE Gate(p)
  <2>1. [ens[p] EXCEPT !.at = "pick"] \in Ensures /\ [ens[p] EXCEPT !.at = "pick"].at = "pick"
    BY <1>0 DEF Ensures
  <2>2. ens' \in [Agents -> Ensures] /\ EnsuresTyped'
    BY <1>2, <1>n, <2>1, EnsureMoves DEF Gate, Teardown
  <2>3. held' \in [Agents -> Served]
    BY <1>0, <1>2 DEF Gate, Teardown, Served
  <2> QED BY <1>0, <1>2, <2>2, <2>3 DEF Gate, Types, TypeOK, OneRowEach
<1>3. CASE PickAccount(p)
  <2>1. usable # {} => /\ Picked \in Accounts /\ mgmt[Picked] \in MgmtKeys
                       /\ policy[Picked] \in Policies
    BY <1>0, PickedIsUsable DEF TypeOK
  <2> DEFINE e == [ens[p] EXCEPT !.at = "lookup", !.account = Picked,
                                 !.policy = policy[Picked], !.mgmt = mgmt[Picked]]
  <2>2. usable # {} => /\ e \in Ensures /\ e.at = "lookup" /\ e.account = Picked
                       /\ e.policy = policy[Picked] /\ e.mgmt = mgmt[Picked]
    BY <1>0, <2>1 DEF Ensures
  <2>3. Ensure(p, NoEnsure) \/ (usable # {} /\ Ensure(p, e))
    BY <1>3 DEF PickAccount, Teardown, Serve
  <2> HIDE DEF e
  <2>4. ens' \in [Agents -> Ensures] /\ EnsuresTyped'
    BY <1>n, <2>1, <2>2, <2>3, EnsureMoves
  <2>5. held' \in [Agents -> Served]
    BY <1>0, <1>3, <2>1 DEF PickAccount, Teardown, Serve, Served
  <2> QED BY <1>0, <1>3, <2>4, <2>5 DEF PickAccount, Types, TypeOK, OneRowEach
<1>4. CASE Lookup(p)
  <2> DEFINE e == [ens[p] EXCEPT !.at = "mint"]
  <2>1. /\ e \in Ensures /\ e.at = "mint" /\ e.account = ens[p].account
        /\ e.policy = ens[p].policy /\ e.mgmt = ens[p].mgmt
    BY <1>0 DEF Ensures
  <2>2. Ensure(p, NoEnsure) \/ Ensure(p, e)
    BY <1>4 DEF Lookup, Serve
  <2>3. ens[p].account \in Accounts /\ ens[p].policy \in Policies /\ ens[p].mgmt \in MgmtKeys
    BY <1>0, <1>4 DEF Lookup, AtStep, EnsuresTyped
  <2> HIDE DEF e
  <2>4. ens' \in [Agents -> Ensures] /\ EnsuresTyped'
    BY <1>n, <2>1, <2>2, <2>3, EnsureMoves
  <2>5. held' \in [Agents -> Served]
    BY <1>0, <1>4 DEF Lookup, Serve, Served, RowsOf, KeyRows, TypeOK
  <2> QED BY <1>0, <1>4, <2>4, <2>5 DEF Lookup, Types, TypeOK, OneRowEach
<1>5. CASE Mint(p)
  <2> DEFINE e == [ens[p] EXCEPT !.at = "put", !.hash = NextHash]
  <2>1. /\ NextHash \in Hashes
        /\ keys' \in [Hashes -> KeyRecords] /\ live' \subseteq Hashes
    BY <1>0, <1>5, MintedType DEF Mint
  <2>2. /\ e \in Ensures /\ e.at = "put" /\ e.account = ens[p].account
        /\ e.policy = ens[p].policy /\ e.mgmt = ens[p].mgmt /\ e.hash = NextHash
    BY <1>0, <2>1 DEF Ensures
  <2>3. Ensure(p, e)
    BY <1>5 DEF Mint
  <2>4. ens[p].account \in Accounts /\ ens[p].policy \in Policies /\ ens[p].mgmt \in MgmtKeys
    BY <1>0, <1>5 DEF Mint, AtStep, EnsuresTyped
  <2> HIDE DEF e
  <2>5. ens' \in [Agents -> Ensures] /\ EnsuresTyped'
    BY <2>1, <2>2, <2>3, <2>4, EnsureMoves
  <2> QED BY <1>0, <1>5, <2>1, <2>5 DEF Mint, Types, TypeOK, OneRowEach
<1>6. CASE Put(p)
  <2>1. ens[p].account \in Accounts /\ ens[p].hash \in Hashes
    BY <1>0, <1>6 DEF Put, AtStep, EnsuresTyped
  <2>2. rows' \subseteq KeyRows /\ OneRowEach'
    BY <1>0, <1>6, <2>1, PutRows DEF Put
  <2>3. ens' \in [Agents -> Ensures] /\ EnsuresTyped'
    BY <1>6, <1>n, EnsureMoves DEF Put, Serve
  <2>4. held' \in [Agents -> Served]
    BY <1>0, <1>6, <2>1 DEF Put, Serve, Served
  <2> QED BY <1>0, <1>6, <2>1, <2>2, <2>3, <2>4 DEF Put, Types, TypeOK
<1>7. CASE MintFails(p)
  <2>1. keys' \in [Hashes -> KeyRecords] /\ live' \subseteq Hashes /\ lost' \subseteq Hashes
    BY <1>0, <1>7, MintedType DEF MintFails, TypeOK
  <2>2. ens' \in [Agents -> Ensures] /\ EnsuresTyped'
    BY <1>7, <1>n, EnsureMoves DEF MintFails
  <2> QED BY <1>0, <1>7, <2>1, <2>2, KeysAssumption DEF MintFails, Types, TypeOK, OneRowEach
<1>8. CASE PutFails(p)
  <2>1. live' \subseteq Hashes /\ lost' \subseteq Hashes
    BY <1>0, <1>8 DEF PutFails, AfterDelete, TypeOK, AtStep, EnsuresTyped
  <2>2. ens' \in [Agents -> Ensures] /\ EnsuresTyped'
    BY <1>8, <1>n, EnsureMoves DEF PutFails
  <2> QED BY <1>0, <1>8, <2>1, <2>2, KeysAssumption DEF PutFails, Types, TypeOK, OneRowEach
<1> QED BY <1>1, <1>2, <1>3, <1>4, <1>5, <1>6, <1>7, <1>8 DEF AgentStep

\* One request of an admin moves on.
LEMMA TaskMoves ==
    ASSUME Types, NEW b \in Admins, NEW t \in Tasks, TaskOK(t), Task(b, t)
    PROVE  /\ adm' \in [Admins -> Tasks] /\ \A c \in Admins : TaskOK(adm'[c])
           /\ adm'[b] = t /\ \A c \in Admins \ {b} : adm'[c] = adm[c]
BY DEF Types, TypeOK, Task

\* A request that has listed its rows is about them, and goes on.
LEMMA TaskGoesOn ==
    ASSUME Types, NEW b \in Admins
    PROVE  /\ adm[b] \in Tasks /\ TaskOK(adm[b])
           /\ NoTask \in Tasks /\ TaskOK(NoTask)
BY NullRecords DEF Types, TypeOK, TaskOK, NoTask

\* A new request.
LEMMA NewTask ==
    ASSUME Types, NEW op \in {"device", "revoke"}, NEW d \in Devices
    PROVE  Listing(op, d, 0) \in Tasks /\ TaskOK(Listing(op, d, 0))
BY KeysAssumption DEF Listing, NoTask, Tasks, TaskOK

\* What an admin asks for keeps the types.
LEMMA AskTypes ==
    ASSUME Types, NEW b \in Admins, AdminAsks(b)
    PROVE  Types'
<1>0. /\ device \in [Devices -> DeviceRows] /\ TypeOK /\ OneRowEach /\ EnsuresTyped
      /\ \A c \in Admins : TaskOK(adm[c])
  BY DEF Types, TypeOK
<1> USE DEF AdminKeeps, tables, upstream, history
<1>2. Begin(b) => ops' \in 0 .. MaxOps
  BY <1>0, KeysAssumption DEF Begin, TypeOK
<1>3. ASSUME NEW d \in Devices, Suspend(b, d) \/ Withdraw(b, d) \/ Revoke(b, d)
      PROVE  Types'
  <2>1. \E op \in {"device", "revoke"} : Task(b, Listing(op, d, 0))
    BY <1>3 DEF Suspend, Withdraw, Revoke
  <2>2. adm' \in [Admins -> Tasks] /\ \A c \in Admins : TaskOK(adm'[c])
    BY <2>1, NewTask, TaskMoves
  <2>3. device' \in [Devices -> DeviceRows] /\ ops' \in 0 .. MaxOps
    BY <1>0, <1>2, <1>3 DEF Suspend, Withdraw, Revoke, DeviceRows
  <2> QED BY <1>0, <1>3, <2>2, <2>3 DEF Suspend, Withdraw, Revoke, Types, TypeOK, OneRowEach, EnsuresTyped
<1>4. ASSUME NEW d \in Devices, Restore(b, d)
      PROVE  Types'
  <2>1. device' \in [Devices -> DeviceRows] /\ ops' \in 0 .. MaxOps
    BY <1>0, <1>2, <1>4 DEF Restore, DeviceRows
  <2> QED BY <1>0, <1>4, <2>1 DEF Restore, Types, TypeOK, OneRowEach, EnsuresTyped
<1>5. ASSUME NEW a \in Accounts, Update(b, a)
      PROVE  Types'
  <2>1. PICK np \in Policies, nk \in MgmtKeys \cup {0} :
           Task(b, [Listing("account", None, a) EXCEPT
                      !.at = IF np # policy[a] \/ nk # 0 THEN "list" ELSE "next",
                      !.newPolicy = np, !.newKey = nk])
    BY <1>5 DEF Update
  <2>2. ASSUME NEW s \in {"list", "next"}
        PROVE  /\ [Listing("account", None, a) EXCEPT !.at = s,
                      !.newPolicy = np, !.newKey = nk] \in Tasks
               /\ TaskOK([Listing("account", None, a) EXCEPT !.at = s,
                      !.newPolicy = np, !.newKey = nk])
    BY KeysAssumption DEF Listing, NoTask, Tasks, TaskOK
  <2>3. adm' \in [Admins -> Tasks] /\ \A c \in Admins : TaskOK(adm'[c])
    BY <2>1, <2>2, TaskMoves
  <2> QED BY <1>0, <1>2, <1>5, <2>3 DEF Update, Types, TypeOK, OneRowEach, EnsuresTyped
<1> QED BY <1>3, <1>4, <1>5 DEF AdminAsks

\* The work on what an admin asked for keeps the types.
LEMMA WorkTypes ==
    ASSUME Types, NEW b \in Admins,
           AdminWorks(b) \/ DeleteFails(b) \/ StoreKeyFails(b)
    PROVE  Types'
<1>0. /\ adm[b] \in Tasks /\ TaskOK(adm[b]) /\ NoTask \in Tasks /\ TaskOK(NoTask)
      /\ TypeOK /\ OneRowEach /\ EnsuresTyped
      /\ rows \subseteq KeyRows /\ ens \in [Agents -> Ensures]
      /\ MaxFaults \in Nat
  BY TaskGoesOn, KeysAssumption DEF Types, TypeOK
<1>f. adm[b].todo # {} => Front(b) \in adm[b].todo /\ Front(b) \in KeyRows
  BY <1>0, FrontIsToDo
<1> USE DEF AdminKeeps, tables, upstream, history, bounds
<1> DEFINE t == adm'[b]
           AdmOK == adm' \in [Admins -> Tasks] /\ \A c \in Admins : TaskOK(adm'[c])
<1>1. CASE List(b)
  <2> DEFINE todo == IF adm[b].device # None THEN RowsOf(adm[b].device)
                     ELSE RowsFrom(adm[b].account)
             e == [adm[b] EXCEPT !.at = "next", !.todo = todo]
  <2>1. /\ todo \subseteq rows
        /\ \A r \in todo : IF adm[b].device # None THEN r.device = adm[b].device
                                                    ELSE r.account = adm[b].account
    BY DEF RowsOf, RowsFrom
  <2>2. adm[b].at = "list" /\ Task(b, e)
    BY <1>1 DEF List
  <2> HIDE DEF todo
  <2>3. e \in Tasks
    BY <1>0, <2>1 DEF Tasks
  <2>4. TaskOK(e)
    BY <1>0, <2>1, <2>2 DEF TaskOK, Tasks, OneRowEach, NoTask
  <2> HIDE DEF e
  <2>5. AdmOK
    BY <2>2, <2>3, <2>4, TaskMoves
  <2>6. ens' \in [Agents -> Ensures]
    BY <1>0, <1>1 DEF List, Ensures
  <2>7. \A p \in Agents : /\ ens'[p].at = ens[p].at /\ ens'[p].account = ens[p].account
                           /\ ens'[p].policy = ens[p].policy /\ ens'[p].mgmt = ens[p].mgmt
                           /\ ens'[p].hash = ens[p].hash
    BY <1>0, <1>1 DEF List, Ensures
  <2>8. EnsuresTyped'
    BY <1>0, <2>7 DEF EnsuresTyped
  <2> QED BY <1>0, <1>1, <2>5, <2>6, <2>8 DEF List, Types, TypeOK, OneRowEach
<1>2. CASE ReadCredential(b)
  <2> DEFINE e == [adm[b] EXCEPT !.at = "delete", !.mgmt = mgmt[Front(b).account]]
  <2>1. adm[b].todo # {} /\ adm[b].at = "next" /\ Task(b, e)
    BY <1>2 DEF ReadCredential
  <2>2. mgmt[Front(b).account] \in MgmtKeys
    BY <1>0, <1>f, <2>1 DEF KeyRows, TypeOK
  <2>3. e \in Tasks /\ TaskOK(e)
    BY <1>0, <2>1, <2>2 DEF Tasks, TaskOK, NoTask
  <2> HIDE DEF e
  <2>4. AdmOK
    BY <2>1, <2>3, TaskMoves
  <2> QED BY <1>0, <1>2, <2>4 DEF ReadCredential, Types, TypeOK, OneRowEach, EnsuresTyped
<1>3. CASE DeleteKey(b)
  <2>1. [adm[b] EXCEPT !.at = "row"] \in Tasks /\ TaskOK([adm[b] EXCEPT !.at = "row"])
    BY <1>0, <1>3 DEF DeleteKey, Tasks, TaskOK, NoTask
  <2>2. AdmOK
    BY <1>3, <2>1, TaskMoves DEF DeleteKey
  <2>3. live' \subseteq Hashes
    BY <1>0, <1>3 DEF DeleteKey, AfterDelete, TypeOK
  <2> QED BY <1>0, <1>3, <2>2, <2>3 DEF DeleteKey, Types, TypeOK, OneRowEach, EnsuresTyped
<1>4. CASE DeleteRow(b)
  <2> DEFINE e == [adm[b] EXCEPT !.at = "next", !.todo = @ \ {Front(b)}]
  <2>1. adm[b].at = "row" /\ Task(b, e)
    BY <1>4 DEF DeleteRow
  <2>2. e \in Tasks
    BY <1>0 DEF Tasks
  <2>3. TaskOK(e)
    BY <1>0, <2>1 DEF Tasks, TaskOK, NoTask
  <2> HIDE DEF e
  <2>4. AdmOK
    BY <2>1, <2>2, <2>3, TaskMoves
  <2>5. rows' \subseteq rows
    BY <1>4 DEF DeleteRow, WithoutRow
  <2> QED BY <1>0, <1>4, <2>4, <2>5 DEF DeleteRow, Types, TypeOK, OneRowEach, EnsuresTyped
<1>5. CASE DeleteFails(b)
  <2> DEFINE e == [adm[b] EXCEPT !.at = "next", !.todo = @ \ {Front(b)}, !.failed = TRUE]
  <2>1. adm[b].at = "delete" /\ adm[b].todo # {} /\ Task(b, e)
    BY <1>0, <1>5 DEF DeleteFails, TaskOK
  <2>2. e \in Tasks
    BY <1>0 DEF Tasks
  <2>3. TaskOK(e)
    BY <1>0, <2>1 DEF Tasks, TaskOK, NoTask
  <2> HIDE DEF e
  <2>4. AdmOK
    BY <2>1, <2>2, <2>3, TaskMoves
  <2>5. live' \subseteq Hashes /\ missed' \subseteq Hashes
    BY <1>0, <1>5, <1>f, <2>1 DEF DeleteFails, AfterDelete, TypeOK, KeyRows
  <2> QED BY <1>0, <1>5, <2>4, <2>5 DEF DeleteFails, Types, TypeOK, OneRowEach, EnsuresTyped
<1>6. CASE EndWithdrawal(b)
  <2>1. AdmOK
    BY <1>0, <1>6, TaskMoves DEF EndWithdrawal
  <2> QED BY <1>0, <1>6, <2>1 DEF EndWithdrawal, Types, TypeOK, OneRowEach, EnsuresTyped
<1>7. CASE EndRevoke(b)
  <2>1. AdmOK
    BY <1>0, <1>7, TaskMoves DEF EndRevoke
  <2>2. device' \in [Devices -> DeviceRows]
    BY <1>0, <1>7 DEF EndRevoke, TypeOK, DeviceRows
  <2> QED BY <1>0, <1>7, <2>1, <2>2 DEF EndRevoke, Types, TypeOK, OneRowEach, EnsuresTyped
<1>8. CASE StorePolicy(b)
  <2>1. adm[b].op = "account" /\ adm[b].at = "next" /\ adm[b].todo = {}
    BY <1>8 DEF StorePolicy, Finished
  <2>2. adm[b].newKey # 0 => /\ [adm[b] EXCEPT !.at = "store"] \in Tasks
                             /\ TaskOK([adm[b] EXCEPT !.at = "store"])
    BY <1>0, <2>1 DEF Tasks, TaskOK, NoTask
  <2>3. AdmOK
    BY <1>0, <1>8, <2>2, TaskMoves DEF StorePolicy
  <2>4. policy' \in [Accounts -> Policies]
    BY <1>0, <1>8, <2>1 DEF StorePolicy, TypeOK, TaskOK
  <2> QED BY <1>0, <1>8, <2>3, <2>4 DEF StorePolicy, Types, TypeOK, OneRowEach, EnsuresTyped
<1>9. CASE StoreKey(b)
  <2>1. AdmOK
    BY <1>0, <1>9, TaskMoves DEF StoreKey
  <2>2. mgmt' \in [Accounts -> MgmtKeys]
    BY <1>0, <1>9 DEF StoreKey, TypeOK, TaskOK
  <2> QED BY <1>0, <1>9, <2>1, <2>2 DEF StoreKey, Types, TypeOK, OneRowEach, EnsuresTyped
<1>10. CASE StoreKeyFails(b)
  <2>1. AdmOK
    BY <1>0, <1>10, TaskMoves DEF StoreKeyFails
  <2> QED BY <1>0, <1>10, <2>1 DEF StoreKeyFails, Types, TypeOK, OneRowEach, EnsuresTyped
<1> QED BY <1>1, <1>2, <1>3, <1>4, <1>5, <1>6, <1>7, <1>8, <1>9, <1>10 DEF AdminWorks

\* Every step keeps the types.
LEMMA NextTypes == Types /\ [Next]_vars => Types'
<1> SUFFICES ASSUME Types, [Next]_vars PROVE Types'
  OBVIOUS
<1>0. /\ TypeOK /\ OneRowEach /\ EnsuresTyped /\ \A c \in Admins : TaskOK(adm[c])
      /\ MaxFaults \in Nat /\ MaxOps \in Nat
  BY KeysAssumption DEF Types
<1> USE DEF tables, upstream, history, bounds
<1>1. CASE \E p \in Agents : AgentStep(p) \/ MintFails(p) \/ PutFails(p)
  BY <1>1, AgentTypes
<1>2. CASE \E b \in Admins : AdminWorks(b) \/ DeleteFails(b) \/ StoreKeyFails(b)
  BY <1>2, WorkTypes
<1>3. CASE \E b \in Admins : AdminAsks(b)
  BY <1>3, AskTypes
<1>4. CASE PoolChange
  BY <1>0, <1>4 DEF PoolChange, Types, TypeOK, OneRowEach, EnsuresTyped
<1>5. CASE Restart
  <2>1. ens' \in [Agents -> Ensures] /\ EnsuresTyped'
    BY <1>5, NullRecords DEF Restart, EnsuresTyped, NoEnsure
  <2>2. adm' \in [Admins -> Tasks] /\ \A b \in Admins : TaskOK(adm'[b])
    BY <1>5, NullRecords DEF Restart, TaskOK, NoTask
  <2>3. lost' \subseteq Hashes /\ missed' \subseteq Hashes
    BY <1>0, <1>5 DEF Restart, AtStep, EnsuresTyped, TypeOK, KeyRows
  <2> QED BY <1>0, <1>5, <2>1, <2>2, <2>3 DEF Restart, Types, TypeOK, OneRowEach
<1>6. CASE UNCHANGED vars
  BY <1>0, <1>6 DEF vars, Types, TypeOK, OneRowEach, EnsuresTyped
<1> QED BY <1>1, <1>2, <1>3, <1>4, <1>5, <1>6 DEF Next, Fault

-----------------------------------------------------------------------------
(* The invariant. *)

Made == {h \in Hashes : keys[h].by # 0}

\* Hashes are made in order, and nobody has one that was not made.
HashesInOrder ==
    /\ \E n \in 0 .. MaxKeys : Made = 1 .. n
    /\ live \subseteq Made
    /\ \A r \in rows : r.hash \in Made
    /\ \A b \in Admins : \A r \in adm[b].todo : r.hash \in Made
    /\ \A p \in Agents : AtStep(p, "put") => ens[p].hash \in Made

\* A key that works and escaped nobody.
Strict(r) == r.hash \in live /\ r.hash \notin missed

\* A request that has listed its rows, or skipped that: an edit that changes
\* nothing.
Listed(b) == adm[b].at \in {"next", "delete", "row", "store"}
Unchanging(b) ==
    /\ adm[b].op = "account" /\ adm[b].at = "next" /\ adm[b].todo = {}
    /\ adm[b].newKey = 0 /\ adm[b].newPolicy = policy[adm[b].account]

\* A request that takes the device's grant away.
Withdraws(b, d) == adm[b].op \in {"device", "revoke"} /\ adm[b].device = d

\* A request to EnsureDeviceKey that no listing has missed so far: whoever would
\* have to revoke its key has still to list, what it read is current, and its
\* device has the grant or is about to lose it.
InTime(p) == ens[p].at # "idle" /\ ~ ens[p].late

Unlisted(p) ==
    \A b \in Admins :
        adm[b].op # "none" /\ Concerns(b, p) => adm[b].at = "list" \/ Unchanging(b)

Entitled(p) ==
    \/ Authenticated(DeviceOf[p]) /\ (ens[p].at # "gate" => Allows(DeviceOf[p]))
    \/ \E b \in Admins : Withdraws(b, DeviceOf[p]) /\ adm[b].at = "list"

ReadIsCurrent(p) ==
    ens[p].at \in {"lookup", "mint", "put"} =>
        ens[p].policy = policy[ens[p].account] /\ ens[p].mgmt = mgmt[ens[p].account]

\* It mints where there is no row, and has the hash of what it minted.
MintsOnce(p) ==
    /\ ens[p].at \in {"mint", "put"} =>
         \A r \in rows : ~ (r.device = DeviceOf[p] /\ r.account = ens[p].account)
    /\ ens[p].at = "put" =>
         /\ keys[ens[p].hash].by = ens[p].mgmt
         /\ keys[ens[p].hash].policy = ens[p].policy

EnsuresOK ==
    \A p \in Agents :
        /\ MintsOnce(p)
        /\ InTime(p) => Unlisted(p) /\ Entitled(p) /\ ReadIsCurrent(p)

\* A row whose key works and escaped nobody: the key is current and the
\* account's, the device may have it or is losing it, and whoever has listed its
\* rows has it on the list.
Pending(b, r) == Withdraws(b, r.device) /\ (adm[b].at = "list" \/ r \in adm[b].todo)

RowOK(r) ==
    /\ Current(r) /\ keys[r.hash].by = mgmt[r.account]
    /\ Rightful(r) \/ \E b \in Admins : Pending(b, r)
    /\ \A b \in Admins : Listed(b) /\ InScope(b, r) => r \in adm[b].todo \/ Unchanging(b)

RowsOK == \A r \in rows : Strict(r) => RowOK(r)

\* A key on a list is gone or on file still; the one being deleted is deleted with
\* the key that made it.
TodoOK ==
    \A b \in Admins :
        /\ \A r \in adm[b].todo : Strict(r) => r \in rows
        /\ adm[b].at = "delete" /\ Strict(Front(b)) => keys[Front(b).hash].by = adm[b].mgmt
        /\ adm[b].at = "row" => ~ Strict(Front(b))

IInv ==
    Types /\ HashesInOrder /\ EnsuresOK /\ RowsOK /\ TodoOK /\ NoOrphanButOverlap

\* No two agents speak for one device.
OneAgentPerDevice == \A p, q \in Agents : DeviceOf[p] = DeviceOf[q] => p = q

\* The invariant is stronger than the property.
LEMMA InvariantSuffices == IInv => KeysInv
<1> SUFFICES ASSUME IInv PROVE KeysInv
  OBVIOUS
<1>1. ASSUME Idle, NEW r \in rows, Strict(r)
      PROVE  Current(r) /\ Rightful(r)
  <2>1. RowOK(r)
    BY <1>1 DEF IInv, RowsOK
  <2>2. \A b \in Admins : ~ Pending(b, r)
    BY <1>1 DEF Idle, Pending, Withdraws, NoTask
  <2> QED BY <2>1, <2>2 DEF RowOK
<1>2. EscapesOnlyByOverlap
  BY <1>1 DEF EscapesOnlyByOverlap, Strict
<1> QED BY <1>2 DEF IInv, Types, KeysInv

\* The first state satisfies it.
LEMMA InitInvariant == Init => IInv
<1> SUFFICES ASSUME Init PROVE IInv
  OBVIOUS
<1>1. Types
  BY InitType
<1>2. HashesInOrder
  <2>1. Made = 1 .. 0 /\ 0 \in 0 .. MaxKeys
    BY KeysAssumption DEF Init, Made
  <2> QED BY <2>1 DEF Init, HashesInOrder, NoTask, NoEnsure, AtStep
<1>3. EnsuresOK
  BY DEF Init, EnsuresOK, MintsOnce, InTime, NoEnsure
<1>4. RowsOK /\ TodoOK /\ NoOrphanButOverlap
  BY DEF Init, RowsOK, TodoOK, NoOrphanButOverlap, NoTask
<1> QED BY <1>1, <1>2, <1>3, <1>4 DEF IInv

\* The next hash is new, and the hashes stay in order.
LEMMA FreshHash ==
    ASSUME HashesInOrder, Types, NEW p \in Agents, Minted(p, NextHash), ens[p].mgmt \in MgmtKeys
    PROVE  /\ NextHash \in Hashes /\ NextHash \notin Made
           /\ Made' = Made \cup {NextHash}
           /\ \E n \in 0 .. MaxKeys : Made' = 1 .. n
<1>1. PICK n \in 0 .. MaxKeys : Made = 1 .. n
  BY DEF HashesInOrder
<1>2. n \in Nat /\ MaxKeys \in Nat
  BY KeysAssumption
<1>3. NextHash = n + 1
  <2>1. Cardinality(1 .. n) = n
    BY <1>2, FS_Interval
  <2> QED BY <1>1, <2>1 DEF NextHash, Made
<1>4. NextHash \in Hashes /\ n + 1 \in 0 .. MaxKeys
  BY <1>2, <1>3 DEF Minted, Hashes
<1>5. Made' = Made \cup {NextHash}
  <2>1. keys'[NextHash].by = ens[p].mgmt /\ \A g \in Hashes \ {NextHash} : keys'[g] = keys[g]
    BY MintedType DEF Types
  <2>2. ens[p].mgmt # 0
    BY KeysAssumption
  <2> QED BY <1>4, <2>1, <2>2 DEF Made, Hashes
<1>6. Made' = 1 .. (n + 1)
  BY <1>1, <1>2, <1>3, <1>5
<1> QED BY <1>1, <1>2, <1>3, <1>4, <1>5, <1>6

-----------------------------------------------------------------------------
(* The steps of an agent's request. *)

\* What is kept when nothing but the request of one agent moves.
LEMMA LocalStep ==
    ASSUME IInv, Types', NEW p \in Agents, NEW e \in Ensures, Ensure(p, e),
           ens[p].at # "put", e.at # "put",
           UNCHANGED <<device, policy, mgmt, adm, keys, live, rows, lost, missed>>,
           MintsOnce(p)', (InTime(p) => Unlisted(p) /\ Entitled(p) /\ ReadIsCurrent(p))'
    PROVE  IInv'
<1>0. /\ HashesInOrder /\ EnsuresOK /\ RowsOK /\ TodoOK /\ NoOrphanButOverlap
      /\ ens \in [Agents -> Ensures]
  BY DEF IInv, Types, TypeOK
<1>1. ens'[p] = e /\ \A q \in Agents \ {p} : ens'[q] = ens[q]
  BY <1>0 DEF Ensure
<1>2. HashesInOrder'
  BY <1>0, <1>1 DEF HashesInOrder, Made, AtStep
<1>3. EnsuresOK'
  <2> SUFFICES ASSUME NEW q \in Agents, q # p
               PROVE  (MintsOnce(q) /\ (InTime(q) => Unlisted(q) /\ Entitled(q) /\ ReadIsCurrent(q)))'
    BY DEF EnsuresOK
  <2> QED BY <1>0, <1>1 DEF EnsuresOK, MintsOnce, InTime, Unlisted, Entitled, ReadIsCurrent,
                           Concerns, Unchanging, Withdraws, Authenticated, Allows
<1>4. RowsOK'
  BY <1>0 DEF RowsOK, Strict, RowOK, Current, Rightful, Pending, Listed, InScope,
              Unchanging, Withdraws, Authenticated, Allows
<1>5. TodoOK'
  <2>1. \A r : Strict(r)' <=> Strict(r)
    BY DEF Strict
  <2> QED BY <1>0, <2>1 DEF TodoOK, Front
<1>6. NoOrphanButOverlap'
  BY <1>0, <1>1 DEF NoOrphanButOverlap, Known, AtStep
<1> QED BY <1>2, <1>3, <1>4, <1>5, <1>6 DEF IInv

\* Sync asks; the allowlist, the pool and the table are read.
LEMMA ReadStep ==
    ASSUME IInv, Types', NEW p \in Agents, Ask(p) \/ Gate(p) \/ PickAccount(p) \/ Lookup(p)
    PROVE  IInv'
<1>0. /\ EnsuresOK /\ TypeOK /\ ens[p] \in Ensures /\ DeviceOf[p] \in Devices
      /\ NoEnsure \in Ensures /\ NoEnsure.at = "idle"
  BY KeysAssumption, NullRecords DEF IInv, Types, TypeOK, NoEnsure
<1>n. ASSUME Ensure(p, NoEnsure)
      PROVE  MintsOnce(p)' /\ ~ InTime(p)'
  BY <1>0, <1>n DEF Ensure, MintsOnce, InTime, TypeOK
<1> USE DEF EnsureKeeps, tables, upstream, history, bounds
<1>1. CASE Ask(p)
  <2> DEFINE l == \E b \in Admins : adm[b].op # "none" /\ Concerns(b, p)
             e == [NoEnsure EXCEPT !.at = "gate", !.late = l]
  <2>1. Ensure(p, e) /\ Authenticated(DeviceOf[p]) /\ ens[p].at = "idle"
    BY <1>1 DEF Ask, AtStep
  <2>2. e \in Ensures /\ e.at = "gate" /\ e.late = l
    BY <1>0 DEF NoEnsure, Ensures
  <2>3. UNCHANGED <<device, policy, mgmt, adm, keys, live, rows, lost, missed>>
    BY <1>1 DEF Ask
  <2>4. ens'[p] = e
    BY <1>0, <2>1 DEF Ensure, TypeOK
  <2>5. MintsOnce(p)'
    BY <2>2, <2>4 DEF MintsOnce
  <2>6. ASSUME ~ l PROVE Unlisted(p)' /\ Entitled(p)' /\ ReadIsCurrent(p)'
    BY <2>1, <2>2, <2>3, <2>4, <2>6 DEF Unlisted, Entitled, ReadIsCurrent, Authenticated, Concerns
  <2>7. (InTime(p) => Unlisted(p) /\ Entitled(p) /\ ReadIsCurrent(p))'
    BY <2>2, <2>4, <2>6 DEF InTime
  <2> HIDE DEF e
  <2> QED BY <2>1, <2>2, <2>3, <2>5, <2>7, LocalStep
<1>2. CASE Gate(p)
  <2> DEFINE e == [ens[p] EXCEPT !.at = "pick"]
  <2>1. ens[p].at = "gate" /\ UNCHANGED <<device, policy, mgmt, adm, keys, live, rows, lost, missed>>
    BY <1>2 DEF Gate, AtStep
  <2>2. CASE Ensure(p, NoEnsure)
    BY <1>0, <1>n, <2>1, <2>2, LocalStep
  <2>3. CASE Allows(DeviceOf[p]) /\ Ensure(p, e)
    <3>1. e \in Ensures /\ e.at = "pick" /\ e.late = ens[p].late
      BY <1>0 DEF Ensures
    <3>2. ens'[p] = e
      BY <1>0, <2>3 DEF Ensure, TypeOK
    <3>3. MintsOnce(p)'
      BY <3>1, <3>2 DEF MintsOnce
    <3>4. (InTime(p) => Unlisted(p) /\ Entitled(p) /\ ReadIsCurrent(p))'
      BY <1>0, <2>1, <2>3, <3>1, <3>2
         DEF EnsuresOK, InTime, Unlisted, Entitled, ReadIsCurrent, Authenticated,
             Allows, Concerns, Unchanging, Withdraws
    <3> HIDE DEF e
    <3> QED BY <2>1, <2>3, <3>1, <3>3, <3>4, LocalStep
  <2> QED BY <1>2, <2>2, <2>3 DEF Gate, Teardown
<1>3. CASE PickAccount(p)
  <2> DEFINE e == [ens[p] EXCEPT !.at = "lookup", !.account = Picked,
                                 !.policy = policy[Picked], !.mgmt = mgmt[Picked]]
  <2>1. ens[p].at = "pick" /\ UNCHANGED <<device, policy, mgmt, adm, keys, live, rows, lost, missed>>
    BY <1>3 DEF PickAccount, AtStep
  <2>2. CASE Ensure(p, NoEnsure)
    BY <1>0, <1>n, <2>1, <2>2, LocalStep
  <2>3. CASE usable # {} /\ Ensure(p, e)
    <3>0. Picked \in Accounts /\ policy[Picked] \in Policies /\ mgmt[Picked] \in MgmtKeys
      BY <1>0, <2>3, PickedIsUsable DEF TypeOK
    <3>1. /\ e \in Ensures /\ e.at = "lookup" /\ e.late = ens[p].late
          /\ e.account = Picked /\ e.policy = policy[Picked] /\ e.mgmt = mgmt[Picked]
      BY <1>0, <3>0 DEF Ensures
    <3>2. ens'[p] = e
      BY <1>0, <2>3 DEF Ensure, TypeOK
    <3>3. MintsOnce(p)'
      BY <3>1, <3>2 DEF MintsOnce
    <3>4. (InTime(p) => Unlisted(p) /\ Entitled(p) /\ ReadIsCurrent(p))'
      BY <1>0, <2>1, <2>3, <3>1, <3>2
         DEF EnsuresOK, InTime, Unlisted, Entitled, ReadIsCurrent, Authenticated,
             Allows, Concerns, Unchanging, Withdraws
    <3> HIDE DEF e
    <3> QED BY <2>1, <2>3, <3>1, <3>3, <3>4, LocalStep
  <2> QED BY <1>3, <2>2, <2>3 DEF PickAccount, Teardown, Serve
<1>4. CASE Lookup(p)
  <2> DEFINE e == [ens[p] EXCEPT !.at = "mint"]
  <2>1. ens[p].at = "lookup" /\ UNCHANGED <<device, policy, mgmt, adm, keys, live, rows, lost, missed>>
    BY <1>4 DEF Lookup, AtStep
  <2>2. CASE Ensure(p, NoEnsure)
    BY <1>0, <1>n, <2>1, <2>2, LocalStep
  <2>3. CASE {r \in RowsOf(DeviceOf[p]) : r.account = ens[p].account} = {} /\ Ensure(p, e)
    <3>1. /\ e \in Ensures /\ e.at = "mint" /\ e.late = ens[p].late
          /\ e.account = ens[p].account /\ e.policy = ens[p].policy /\ e.mgmt = ens[p].mgmt
      BY <1>0 DEF Ensures
    <3>2. ens'[p] = e
      BY <1>0, <2>3 DEF Ensure, TypeOK
    <3>3. MintsOnce(p)'
      BY <2>1, <2>3, <3>1, <3>2 DEF MintsOnce, RowsOf
    <3>4. (InTime(p) => Unlisted(p) /\ Entitled(p) /\ ReadIsCurrent(p))'
      BY <1>0, <2>1, <2>3, <3>1, <3>2
         DEF EnsuresOK, InTime, Unlisted, Entitled, ReadIsCurrent, Authenticated,
             Allows, Concerns, Unchanging, Withdraws
    <3> HIDE DEF e
    <3> QED BY <2>1, <2>3, <3>1, <3>3, <3>4, LocalStep
  <2> QED BY <1>4, <2>2, <2>3 DEF Lookup, Serve
<1> QED BY <1>1, <1>2, <1>3, <1>4

\* A key is made, and the answer arrives or is lost.
LEMMA MintStep ==
    ASSUME IInv, Types', NEW p \in Agents, Mint(p) \/ MintFails(p)
    PROVE  IInv'
<1>0. /\ HashesInOrder /\ EnsuresOK /\ RowsOK /\ TodoOK /\ NoOrphanButOverlap
      /\ Types /\ ens \in [Agents -> Ensures] /\ ens[p] \in Ensures
      /\ NoEnsure \in Ensures /\ NoEnsure.at = "idle"
      /\ ens[p].at = "mint" /\ ens[p].mgmt \in MgmtKeys
      /\ rows \subseteq KeyRows /\ live \subseteq Hashes
  BY NullRecords DEF IInv, Types, TypeOK, EnsuresTyped, AtStep, Mint, MintFails, NoEnsure
<1>s. UNCHANGED <<device, policy, mgmt, adm, rows, missed>>
  BY DEF Mint, MintFails, EnsureKeeps, tables, history
<1>1. CASE Ensure(p, NoEnsure) /\ UNCHANGED <<keys, live, lost>>
  <2>1. MintsOnce(p)' /\ ~ InTime(p)'
    BY <1>0, <1>1 DEF Ensure, MintsOnce, InTime
  <2> QED BY <1>0, <1>s, <1>1, <2>1, LocalStep
<1>2. CASE /\ Minted(p, NextHash)
           /\ \/ Ensure(p, [ens[p] EXCEPT !.at = "put", !.hash = NextHash]) /\ UNCHANGED lost
              \/ Ensure(p, NoEnsure) /\ lost' = lost \cup {NextHash}
  <2> DEFINE h == NextHash
  <2>1. /\ h \in Hashes /\ h \notin Made /\ Made' = Made \cup {h}
        /\ \E n \in 0 .. MaxKeys : Made' = 1 .. n
    BY <1>0, <1>2, FreshHash
  <2>2. /\ keys'[h].by = ens[p].mgmt /\ keys'[h].policy = ens[p].policy
        /\ \A g \in Hashes \ {h} : keys'[g] = keys[g]
        /\ live' = live \cup {h}
    BY <1>0, <1>2, MintedType DEF Types
  <2>3. /\ \A q \in Agents \ {p} : ens'[q] = ens[q]
        /\ \/ /\ ens'[p].at = "put" /\ ens'[p].hash = h /\ ens'[p].late = ens[p].late
              /\ ens'[p].account = ens[p].account /\ ens'[p].policy = ens[p].policy
              /\ ens'[p].mgmt = ens[p].mgmt /\ lost' = lost
           \/ ens'[p].at = "idle" /\ lost' = lost \cup {h}
    <3> DEFINE e == [ens[p] EXCEPT !.at = "put", !.hash = h]
    <3>1. /\ e.at = "put" /\ e.hash = h /\ e.late = ens[p].late
          /\ e.account = ens[p].account /\ e.policy = ens[p].policy /\ e.mgmt = ens[p].mgmt
      BY <1>0 DEF Ensures
    <3>2. (Ensure(p, e) /\ UNCHANGED lost) \/ (Ensure(p, NoEnsure) /\ lost' = lost \cup {h})
      BY <1>2
    <3> HIDE DEF e, h
    <3> QED BY <1>0, <3>1, <3>2 DEF Ensure
  <2> HIDE DEF h
  <2>4. \A r \in rows : r.hash # h /\ keys'[r.hash] = keys[r.hash] /\ (Strict(r)' <=> Strict(r))
    BY <1>0, <1>s, <2>1, <2>2 DEF HashesInOrder, Strict, KeyRows
  <2>5. \A b \in Admins : \A r \in adm[b].todo :
          r.hash # h /\ keys'[r.hash] = keys[r.hash] /\ (Strict(r)' <=> Strict(r))
    <3>1. \A b \in Admins : adm[b].todo \subseteq KeyRows
      BY <1>0 DEF Types, TypeOK, Tasks
    <3> QED BY <1>0, <1>s, <2>1, <2>2, <3>1 DEF HashesInOrder, Strict, KeyRows
  <2>6. HashesInOrder'
    BY <1>0, <1>s, <2>1, <2>2, <2>3 DEF HashesInOrder, AtStep
  <2>7. EnsuresOK'
    <3>1. ASSUME NEW q \in Agents PROVE MintsOnce(q)'
      <4>1. CASE q = p
        BY <1>0, <1>s, <2>2, <2>3, <4>1 DEF EnsuresOK, MintsOnce
      <4>2. CASE q # p
        <5>1. ens[q].at = "put" => ens[q].hash \in Hashes \ {h}
          BY <1>0, <2>1 DEF HashesInOrder, AtStep, Made
        <5> QED BY <1>0, <1>s, <2>2, <2>3, <4>2, <5>1 DEF EnsuresOK, MintsOnce
      <4> QED BY <4>1, <4>2
    <3>2. ASSUME NEW q \in Agents, InTime(q)'
          PROVE  (Unlisted(q) /\ Entitled(q) /\ ReadIsCurrent(q))'
      <4>1. /\ InTime(q) /\ ens'[q].account = ens[q].account /\ ens'[q].policy = ens[q].policy
            /\ ens'[q].mgmt = ens[q].mgmt
            /\ ens'[q].at \in {"lookup", "mint", "put"} => ens[q].at \in {"lookup", "mint", "put"}
            /\ ens'[q].at # "gate" => ens[q].at # "gate"
        BY <1>0, <2>3, <3>2 DEF InTime
      <4> QED BY <1>0, <1>s, <4>1 DEF EnsuresOK, Unlisted, Entitled, ReadIsCurrent,
                  Concerns, Unchanging, Withdraws, Authenticated, Allows
    <3> QED BY <3>1, <3>2 DEF EnsuresOK
  <2>8. RowsOK'
    BY <1>0, <1>s, <2>4 DEF RowsOK, RowOK, Current, Rightful, Pending, Listed, InScope,
                            Unchanging, Withdraws, Authenticated, Allows
  <2>9. TodoOK'
    <3> SUFFICES ASSUME NEW b \in Admins, NEW f, f = Front(b)
                 PROVE  /\ \A r \in adm[b].todo : Strict(r)' => r \in rows
                        /\ adm[b].at = "delete" /\ Strict(f)' => keys'[f.hash].by = adm[b].mgmt
                        /\ adm[b].at = "row" => ~ Strict(f)'
      <4>1. \A b \in Admins : Front(b)' = Front(b)
        BY <1>s DEF Front
      <4> QED BY <1>s, <4>1 DEF TodoOK
    <3>1. adm[b].at \in {"delete", "row"} => Front(b) \in adm[b].todo
      <4>1. TypeOK /\ TaskOK(adm[b])
        BY <1>0 DEF Types
      <4>2. adm[b].at \in {"delete", "row"} => adm[b].todo # {}
        BY <4>1 DEF TaskOK
      <4> QED BY <4>1, <4>2, FrontIsToDo
    <3> QED BY <1>0, <2>5, <3>1 DEF TodoOK
  <2>10. NoOrphanButOverlap'
    BY <1>0, <1>s, <2>2, <2>3 DEF NoOrphanButOverlap, Known, AtStep
  <2> QED BY <2>6, <2>7, <2>8, <2>9, <2>10 DEF IInv
<1> QED BY <1>1, <1>2 DEF Mint, MintFails, EnsureKeeps, history, upstream

\* The row is written.
LEMMA PutStep ==
    ASSUME IInv, Types', OneAgentPerDevice, NEW p \in Agents, Put(p)
    PROVE  IInv'
<1>0. /\ HashesInOrder /\ EnsuresOK /\ RowsOK /\ TodoOK /\ NoOrphanButOverlap
      /\ Types /\ ens \in [Agents -> Ensures] /\ ens[p] \in Ensures
      /\ NoEnsure.at = "idle" /\ ens[p].at = "put"
      /\ DeviceOf[p] \in Devices /\ None \notin Devices
      /\ \A b \in Admins : TaskOK(adm[b])
  BY KeysAssumption DEF IInv, Types, TypeOK, AtStep, Put, NoEnsure
<1> DEFINE new == Row(DeviceOf[p], ens[p].account, ens[p].hash)
<1>1. /\ UNCHANGED <<device, policy, mgmt, adm, keys, live, lost>>
      /\ missed' = IF ens[p].late THEN missed \cup {ens[p].hash} ELSE missed
  BY DEF Put, EnsureKeeps, upstream
<1>2. rows' = rows \cup {new}
  BY <1>0 DEF Put, EnsuresOK, MintsOnce, WithoutRow
<1>3. ens'[p].at = "idle" /\ \A q \in Agents \ {p} : ens'[q] = ens[q]
  BY <1>0 DEF Put, Serve, Ensure
<1>4. new.device = DeviceOf[p] /\ new.account = ens[p].account /\ new.hash = ens[p].hash
  BY DEF Row
<1> HIDE DEF new
<1>5. \A r : Strict(r)' => Strict(r)
  BY <1>1 DEF Strict
<1>6. HashesInOrder'
  BY <1>0, <1>1, <1>2, <1>3, <1>4 DEF HashesInOrder, Made, AtStep
<1>7. EnsuresOK'
  <2>1. ASSUME NEW q \in Agents PROVE MintsOnce(q)'
    <3>1. CASE q = p
      BY <1>3, <3>1 DEF MintsOnce
    <3>2. CASE q # p
      BY <1>0, <1>1, <1>2, <1>3, <1>4, <3>2 DEF EnsuresOK, MintsOnce, OneAgentPerDevice
    <3> QED BY <3>1, <3>2
  <2>2. ASSUME NEW q \in Agents, InTime(q)'
        PROVE  (Unlisted(q) /\ Entitled(q) /\ ReadIsCurrent(q))'
    <3>1. q # p /\ InTime(q) /\ ens'[q] = ens[q]
      BY <1>3, <2>2 DEF InTime
    <3> QED BY <1>0, <1>1, <3>1 DEF EnsuresOK, Unlisted, Entitled, ReadIsCurrent,
                Concerns, Unchanging, Withdraws, Authenticated, Allows
  <2> QED BY <2>1, <2>2 DEF EnsuresOK
<1>8. RowsOK'
  <2> SUFFICES ASSUME NEW r \in rows \cup {new}, Strict(r)', Strict(r)
               PROVE  RowOK(r)'
    BY <1>2, <1>5 DEF RowsOK
  <2>1. CASE r \in rows
    BY <1>0, <1>1, <2>1 DEF RowsOK, RowOK, Current, Rightful, Pending, Listed, InScope,
                            Unchanging, Withdraws, Authenticated, Allows
  <2>2. CASE r = new
    <3>1. InTime(p)
      BY <1>0, <1>1, <1>4, <2>2 DEF InTime, Strict
    <3>2. MintsOnce(p) /\ Unlisted(p) /\ Entitled(p) /\ ReadIsCurrent(p)
      BY <1>0, <3>1 DEF EnsuresOK
    <3>3. Current(r)' /\ keys'[r.hash].by = mgmt'[r.account]
      BY <1>0, <1>1, <1>4, <2>2, <3>2 DEF MintsOnce, ReadIsCurrent, Current
    <3>4. Rightful(r)' \/ \E b \in Admins : Pending(b, r)'
      BY <1>0, <1>1, <1>4, <2>2, <3>2 DEF Entitled, Rightful, Pending, Withdraws, Authenticated, Allows
    <3>5. ASSUME NEW b \in Admins, Listed(b), InScope(b, r)
          PROVE  Unchanging(b)
      <4>1. Concerns(b, p)
        BY <1>4, <2>2, <3>5 DEF InScope, Concerns
      <4>2. adm[b].op # "none" /\ adm[b].at # "list"
        BY <1>0, <3>5 DEF Listed, TaskOK, NoTask
      <4> QED BY <3>2, <4>1, <4>2 DEF Unlisted
    <3>6. \A b \in Admins : (Listed(b) /\ InScope(b, r) => r \in adm[b].todo \/ Unchanging(b))'
      BY <1>1, <3>5 DEF Listed, InScope, Unchanging
    <3> QED BY <3>3, <3>4, <3>6 DEF RowOK
  <2> QED BY <2>1, <2>2
<1>9. TodoOK'
  BY <1>0, <1>1, <1>2, <1>5 DEF TodoOK, Front
<1>10. NoOrphanButOverlap'
  BY <1>0, <1>1, <1>2, <1>3, <1>4 DEF NoOrphanButOverlap, Known, AtStep
<1> QED BY <1>6, <1>7, <1>8, <1>9, <1>10 DEF IInv

\* The row cannot be written.
LEMMA PutFailsStep ==
    ASSUME IInv, Types', NEW p \in Agents, PutFails(p)
    PROVE  IInv'
<1>0. /\ HashesInOrder /\ EnsuresOK /\ RowsOK /\ TodoOK /\ NoOrphanButOverlap
      /\ Types /\ ens \in [Agents -> Ensures]
      /\ NoEnsure.at = "idle" /\ ens[p].at = "put"
  BY DEF IInv, Types, TypeOK, AtStep, PutFails, NoEnsure
<1>1. /\ UNCHANGED <<device, policy, mgmt, rows, adm, keys, missed>>
      /\ live' \subseteq live /\ lost \subseteq lost'
      /\ ens[p].hash \notin live' \/ ens[p].hash \in lost'
  BY <1>0 DEF PutFails, AfterDelete, tables, EnsuresOK, MintsOnce
<1>3. ens'[p].at = "idle" /\ \A q \in Agents \ {p} : ens'[q] = ens[q]
  BY <1>0 DEF PutFails, Ensure
<1>5. \A r : Strict(r)' => Strict(r)
  BY <1>1 DEF Strict
<1>6. HashesInOrder'
  BY <1>0, <1>1, <1>3 DEF HashesInOrder, Made, AtStep
<1>7. EnsuresOK'
  <2>1. ASSUME NEW q \in Agents PROVE MintsOnce(q)'
    BY <1>0, <1>1, <1>3 DEF EnsuresOK, MintsOnce
  <2>2. ASSUME NEW q \in Agents, InTime(q)'
        PROVE  (Unlisted(q) /\ Entitled(q) /\ ReadIsCurrent(q))'
    <3>1. q # p /\ InTime(q) /\ ens'[q] = ens[q]
      BY <1>3, <2>2 DEF InTime
    <3> QED BY <1>0, <1>1, <3>1 DEF EnsuresOK, Unlisted, Entitled, ReadIsCurrent,
                Concerns, Unchanging, Withdraws, Authenticated, Allows
  <2> QED BY <2>1, <2>2 DEF EnsuresOK
<1>8. RowsOK'
  BY <1>0, <1>1, <1>5 DEF RowsOK, RowOK, Current, Rightful, Pending, Listed, InScope,
                          Unchanging, Withdraws, Authenticated, Allows
<1>9. TodoOK'
  BY <1>0, <1>1, <1>5 DEF TodoOK, Front
<1>10. NoOrphanButOverlap'
  BY <1>0, <1>1, <1>3 DEF NoOrphanButOverlap, Known, AtStep
<1> QED BY <1>6, <1>7, <1>8, <1>9, <1>10 DEF IInv

-----------------------------------------------------------------------------
(* The requests of admins. *)

\* What the steps of a request rest on.
LEMMA Parts ==
    ASSUME IInv, NEW b \in Admins
    PROVE  /\ HashesInOrder /\ EnsuresOK /\ RowsOK /\ TodoOK /\ NoOrphanButOverlap
           /\ Types /\ TypeOK /\ adm \in [Admins -> Tasks] /\ ens \in [Agents -> Ensures]
           /\ rows \subseteq KeyRows /\ adm[b].todo \subseteq KeyRows
           /\ device \in [Devices -> DeviceRows]
           /\ \A c \in Admins : TaskOK(adm[c])
           /\ None \notin Devices
           /\ adm[b].todo # {} => Front(b) \in adm[b].todo
           /\ adm[b].op = "none" => adm[b] = NoTask
<1>1. /\ TypeOK /\ \A c \in Admins : TaskOK(adm[c])
  BY DEF IInv, Types
<1>2. adm \in [Admins -> Tasks] /\ adm[b] \in Tasks
  BY <1>1 DEF TypeOK
<1>3. adm[b].todo # {} => Front(b) \in adm[b].todo
  BY <1>1, FrontIsToDo
<1>4. adm[b].op = "none" => adm[b] = NoTask
  BY <1>1 DEF TaskOK
<1>5. adm[b].todo \subseteq KeyRows
  BY <1>2 DEF Tasks
<1> QED BY <1>1, <1>2, <1>3, <1>4, <1>5, KeysAssumption DEF IInv, TypeOK

\* A suspension, a withdrawn provider or a revocation begins: what loses the grant
\* is about to be listed.
LEMMA WithdrawalBegins ==
    ASSUME IInv, Types', NEW b \in Admins, NEW d \in Devices,
           Suspend(b, d) \/ Withdraw(b, d) \/ Revoke(b, d)
    PROVE  IInv'
<1>0. /\ HashesInOrder /\ EnsuresOK /\ RowsOK /\ TodoOK /\ NoOrphanButOverlap
      /\ adm \in [Admins -> Tasks] /\ device \in [Devices -> DeviceRows]
      /\ rows \subseteq KeyRows /\ adm[b] = NoTask
  BY Parts DEF Suspend, Withdraw, Revoke, Begin
<1>1. /\ UNCHANGED <<policy, mgmt, rows, keys, live, ens, lost, missed>>
      /\ \A x \in Devices \ {d} : device'[x] = device[x]
      /\ \A c \in Admins \ {b} : adm'[c] = adm[c]
      /\ Withdraws(b, d)' /\ adm'[b].at = "list" /\ adm'[b].todo = {}
  <2>1. PICK op \in {"device", "revoke"} : adm' = [adm EXCEPT ![b] = Listing(op, d, 0)]
    BY DEF Suspend, Withdraw, Revoke, Task
  <2>2. /\ Listing(op, d, 0).op = op /\ Listing(op, d, 0).device = d
        /\ Listing(op, d, 0).at = "list" /\ Listing(op, d, 0).todo = {}
    BY DEF Listing, NoTask
  <2>3. /\ UNCHANGED <<policy, mgmt, rows, keys, live, ens, lost, missed>>
        /\ \A x \in Devices \ {d} : device'[x] = device[x]
    BY <1>0 DEF Suspend, Withdraw, Revoke, AdminKeeps, tables, upstream, history
  <2> QED BY <1>0, <2>1, <2>2, <2>3 DEF Withdraws
<1>2. adm[b].op = "none" /\ adm[b].at = "none" /\ adm[b].todo = {}
  BY <1>0 DEF NoTask
<1>3. \A r : Strict(r)' <=> Strict(r)
  BY <1>1 DEF Strict
<1>4. HashesInOrder'
  BY <1>0, <1>1 DEF HashesInOrder, Made, AtStep
<1>5. EnsuresOK'
  <2> SUFFICES ASSUME NEW q \in Agents
               PROVE  /\ MintsOnce(q)'
                      /\ InTime(q)' => (Unlisted(q) /\ Entitled(q) /\ ReadIsCurrent(q))'
    BY DEF EnsuresOK
  <2>1. MintsOnce(q)' /\ (InTime(q)' => InTime(q) /\ ReadIsCurrent(q)')
    BY <1>0, <1>1 DEF EnsuresOK, MintsOnce, InTime, ReadIsCurrent
  <2>2. InTime(q) => Unlisted(q)'
    BY <1>0, <1>1 DEF EnsuresOK, Unlisted, Concerns, Unchanging
  <2>3. InTime(q) => Entitled(q)'
    <3>1. CASE DeviceOf[q] = d
      BY <1>1, <3>1 DEF Entitled
    <3>2. CASE DeviceOf[q] # d
      BY <1>0, <1>1, <1>2, <3>2, KeysAssumption
         DEF EnsuresOK, Entitled, Withdraws, Authenticated, Allows
    <3> QED BY <3>1, <3>2
  <2> QED BY <2>1, <2>2, <2>3
<1>6. RowsOK'
  <2> SUFFICES ASSUME NEW r \in rows, RowOK(r) PROVE RowOK(r)'
    BY <1>0, <1>1, <1>3 DEF RowsOK
  <2>1. Current(r)' /\ keys'[r.hash].by = mgmt'[r.account]
    BY <1>1 DEF RowOK, Current
  <2>2. Rightful(r)' \/ \E c \in Admins : Pending(c, r)'
    <3>1. CASE r.device = d
      BY <1>1, <3>1 DEF Pending
    <3>2. CASE r.device # d
      BY <1>0, <1>1, <1>2, <3>2 DEF RowOK, Pending, Withdraws, Rightful, Authenticated, Allows, KeyRows
    <3> QED BY <3>1, <3>2
  <2>3. \A c \in Admins : (Listed(c) /\ InScope(c, r) => r \in adm[c].todo \/ Unchanging(c))'
    BY <1>1 DEF RowOK, Listed, InScope, Unchanging
  <2> QED BY <2>1, <2>2, <2>3 DEF RowOK
<1>7. TodoOK'
  BY <1>0, <1>1, <1>3 DEF TodoOK, Front
<1>8. NoOrphanButOverlap'
  BY <1>0, <1>1 DEF NoOrphanButOverlap, Known, AtStep
<1> QED BY <1>4, <1>5, <1>6, <1>7, <1>8 DEF IInv

\* An edit begins: its rows are about to be listed, or it changes nothing.
LEMMA EditBegins ==
    ASSUME IInv, Types', NEW b \in Admins, NEW a \in Accounts, Update(b, a)
    PROVE  IInv'
<1>0. /\ HashesInOrder /\ EnsuresOK /\ RowsOK /\ TodoOK /\ NoOrphanButOverlap
      /\ adm \in [Admins -> Tasks] /\ adm[b] = NoTask
  BY Parts DEF Update, Begin
<1>1. UNCHANGED <<device, policy, mgmt, rows, keys, live, ens, lost, missed>>
  BY DEF Update, AdminKeeps, tables, upstream, history
<1>2. /\ \A c \in Admins \ {b} : adm'[c] = adm[c]
      /\ adm'[b].op = "account" /\ adm'[b].todo = {}
      /\ adm'[b].at = "list" \/ Unchanging(b)'
  BY <1>0, <1>1 DEF Update, Task, Listing, NoTask, Unchanging
<1>3. adm[b].op = "none" /\ adm[b].at = "none" /\ adm[b].todo = {}
  BY <1>0 DEF NoTask
<1>4. adm'[b].at \in {"list", "next"}
  BY <1>2 DEF Unchanging
<1>5. \A r : Strict(r)' <=> Strict(r)
  BY <1>1 DEF Strict
<1>6. HashesInOrder'
  BY <1>0, <1>1, <1>2 DEF HashesInOrder, Made, AtStep
<1>7. EnsuresOK'
  <2> SUFFICES ASSUME NEW q \in Agents
               PROVE  /\ MintsOnce(q)'
                      /\ InTime(q)' => (Unlisted(q) /\ Entitled(q) /\ ReadIsCurrent(q))'
    BY DEF EnsuresOK
  <2>1. MintsOnce(q)' /\ (InTime(q)' => InTime(q) /\ ReadIsCurrent(q)')
    BY <1>0, <1>1 DEF EnsuresOK, MintsOnce, InTime, ReadIsCurrent
  <2>2. InTime(q) => Unlisted(q)'
    <3> SUFFICES ASSUME InTime(q), NEW c \in Admins, (adm[c].op # "none" /\ Concerns(c, q))'
                 PROVE  adm'[c].at = "list" \/ Unchanging(c)'
      BY DEF Unlisted
    <3>1. CASE c = b
      BY <1>2, <3>1
    <3>2. CASE c # b
      BY <1>0, <1>1, <1>2, <3>2 DEF EnsuresOK, Unlisted, Concerns, Unchanging
    <3> QED BY <3>1, <3>2
  <2>3. InTime(q) => Entitled(q)'
    BY <1>0, <1>1, <1>2, <1>3 DEF EnsuresOK, Entitled, Withdraws, Authenticated, Allows
  <2> QED BY <2>1, <2>2, <2>3
<1>8. RowsOK'
  <2> SUFFICES ASSUME NEW r \in rows, RowOK(r) PROVE RowOK(r)'
    BY <1>0, <1>1, <1>5 DEF RowsOK
  <2>1. Current(r)' /\ keys'[r.hash].by = mgmt'[r.account]
    BY <1>1 DEF RowOK, Current
  <2>2. Rightful(r)' \/ \E c \in Admins : Pending(c, r)'
    BY <1>1, <1>2, <1>3 DEF RowOK, Pending, Withdraws, Rightful, Authenticated, Allows
  <2>3. ASSUME NEW c \in Admins, (Listed(c) /\ InScope(c, r))'
        PROVE  (r \in adm[c].todo \/ Unchanging(c))'
    <3>1. CASE c = b
      BY <1>2, <2>3, <3>1 DEF Listed
    <3>2. CASE c # b
      BY <1>1, <1>2, <2>3, <3>2 DEF RowOK, Listed, InScope, Unchanging
    <3> QED BY <3>1, <3>2
  <2> QED BY <2>1, <2>2, <2>3 DEF RowOK
<1>9. TodoOK'
  BY <1>0, <1>1, <1>2, <1>4, <1>5 DEF TodoOK, Front
<1>10. NoOrphanButOverlap'
  BY <1>0, <1>1 DEF NoOrphanButOverlap, Known, AtStep
<1> QED BY <1>6, <1>7, <1>8, <1>9, <1>10 DEF IInv

\* A device gets back what it had lost.
LEMMA RestoreStep ==
    ASSUME IInv, Types', NEW b \in Admins, NEW d \in Devices, Restore(b, d)
    PROVE  IInv'
<1>0. /\ HashesInOrder /\ EnsuresOK /\ RowsOK /\ TodoOK /\ NoOrphanButOverlap
      /\ device \in [Devices -> DeviceRows] /\ rows \subseteq KeyRows
  BY Parts
<1>1. UNCHANGED <<policy, mgmt, rows, keys, live, ens, adm, lost, missed>>
  BY DEF Restore, AdminKeeps, tables, upstream, history
<1>2. \A x \in Devices : /\ Authenticated(x) => Authenticated(x)'
                         /\ Allows(x) => Allows(x)'
  BY <1>0 DEF Restore, Authenticated, Allows, DeviceRows
<1>3. \A r : Strict(r)' <=> Strict(r)
  BY <1>1 DEF Strict
<1>4. HashesInOrder'
  BY <1>0, <1>1 DEF HashesInOrder, Made, AtStep
<1>5. EnsuresOK'
  BY <1>0, <1>1, <1>2, KeysAssumption
     DEF EnsuresOK, MintsOnce, InTime, Unlisted, Entitled, ReadIsCurrent, Concerns,
         Unchanging, Withdraws
<1>6. RowsOK'
  <2> SUFFICES ASSUME NEW r \in rows, RowOK(r) PROVE RowOK(r)'
    BY <1>0, <1>1, <1>3 DEF RowsOK
  <2>1. r.device \in Devices
    BY <1>0 DEF KeyRows
  <2> QED BY <1>1, <1>2, <2>1 DEF RowOK, Current, Rightful, Pending, Withdraws, Listed,
                                 InScope, Unchanging
<1>7. TodoOK'
  BY <1>0, <1>1, <1>3 DEF TodoOK, Front
<1>8. NoOrphanButOverlap'
  BY <1>0, <1>1 DEF NoOrphanButOverlap, Known, AtStep
<1> QED BY <1>4, <1>5, <1>6, <1>7, <1>8 DEF IInv

\* The rows are listed: what is in flight is late from here on.
LEMMA ListStep ==
    ASSUME IInv, Types', NEW b \in Admins, List(b)
    PROVE  IInv'
<1>0. /\ HashesInOrder /\ EnsuresOK /\ RowsOK /\ TodoOK /\ NoOrphanButOverlap
      /\ adm \in [Admins -> Tasks] /\ ens \in [Agents -> Ensures]
      /\ adm[b].at = "list" /\ TaskOK(adm[b]) /\ None \notin Devices
  BY Parts DEF List
<1>1. UNCHANGED <<device, policy, mgmt, rows, keys, live, lost, missed>>
  BY DEF List, tables, upstream, history
<1>2. /\ \A c \in Admins \ {b} : adm'[c] = adm[c]
      /\ adm'[b].op = adm[b].op /\ adm'[b].device = adm[b].device
      /\ adm'[b].account = adm[b].account /\ adm'[b].at = "next"
      /\ adm'[b].todo = {r \in rows : InScope(b, r)}
  <2> DEFINE todo == IF adm[b].device # None THEN RowsOf(adm[b].device)
                     ELSE RowsFrom(adm[b].account)
             e == [adm[b] EXCEPT !.at = "next", !.todo = todo]
  <2>1. todo = {r \in rows : InScope(b, r)}
    BY DEF RowsOf, RowsFrom, InScope
  <2>2. adm' = [adm EXCEPT ![b] = e]
    BY DEF List, Task
  <2> HIDE DEF todo
  <2>3. /\ e.op = adm[b].op /\ e.device = adm[b].device /\ e.account = adm[b].account
        /\ e.at = "next" /\ e.todo = todo
    BY <1>0 DEF Tasks
  <2> HIDE DEF e
  <2> QED BY <1>0, <2>1, <2>2, <2>3
<1>3. \A q \in Agents :
        /\ ens'[q].at = ens[q].at /\ ens'[q].account = ens[q].account
        /\ ens'[q].policy = ens[q].policy /\ ens'[q].mgmt = ens[q].mgmt
        /\ ens'[q].hash = ens[q].hash
        /\ InTime(q)' => InTime(q) /\ ~ Concerns(b, q)
  BY <1>0 DEF List, Ensures, InTime
<1>4. \A r : Strict(r)' <=> Strict(r)
  BY <1>1 DEF Strict
<1>5. HashesInOrder'
  BY <1>0, <1>1, <1>2, <1>3 DEF HashesInOrder, Made, AtStep
<1>6. EnsuresOK'
  <2> SUFFICES ASSUME NEW q \in Agents
               PROVE  /\ MintsOnce(q)'
                      /\ InTime(q)' => (Unlisted(q) /\ Entitled(q) /\ ReadIsCurrent(q))'
    BY DEF EnsuresOK
  <2>1. MintsOnce(q)'
    BY <1>0, <1>1, <1>3 DEF EnsuresOK, MintsOnce
  <2>2. InTime(q)' => ReadIsCurrent(q)'
    BY <1>0, <1>1, <1>3 DEF EnsuresOK, ReadIsCurrent
  <2>3. InTime(q)' => Unlisted(q)'
    BY <1>0, <1>1, <1>2, <1>3 DEF EnsuresOK, Unlisted, Concerns, Unchanging
  <2>4. InTime(q)' => Entitled(q)'
    BY <1>0, <1>1, <1>2, <1>3 DEF EnsuresOK, Entitled, Withdraws, Concerns, Authenticated, Allows
  <2> QED BY <2>1, <2>2, <2>3, <2>4
<1>7. RowsOK'
  <2> SUFFICES ASSUME NEW r \in rows, RowOK(r) PROVE RowOK(r)'
    BY <1>0, <1>1, <1>4 DEF RowsOK
  <2>1. Current(r)' /\ keys'[r.hash].by = mgmt'[r.account]
    BY <1>1 DEF RowOK, Current
  <2>2. ASSUME NEW c \in Admins, Pending(c, r) PROVE Pending(c, r)'
    BY <1>0, <1>1, <1>2, <2>2 DEF Pending, Withdraws, InScope, TaskOK
  <2>3. \A c \in Admins : (Listed(c) /\ InScope(c, r) => r \in adm[c].todo \/ Unchanging(c))'
    BY <1>0, <1>1, <1>2 DEF RowOK, Listed, InScope, Unchanging
  <2> QED BY <1>1, <2>1, <2>2, <2>3 DEF RowOK, Rightful, Authenticated, Allows
<1>8. TodoOK'
  BY <1>0, <1>1, <1>2, <1>4 DEF TodoOK, Front
<1>9. NoOrphanButOverlap'
  BY <1>0, <1>1, <1>3 DEF NoOrphanButOverlap, Known, AtStep
<1> QED BY <1>5, <1>6, <1>7, <1>8, <1>9 DEF IInv

-----------------------------------------------------------------------------
(* Keys are revoked one by one. *)

\* Whoever has listed its rows is about no request in time, and no row that works
\* and is not on its list, unless it is an edit that changes nothing.
LEMMA ListedHasAll ==
    ASSUME IInv, NEW b \in Admins, Listed(b), ~ Unchanging(b)
    PROVE  /\ \A q \in Agents : InTime(q) => ~ Concerns(b, q)
           /\ \A r \in rows : Strict(r) /\ InScope(b, r) => r \in adm[b].todo
<1>1. EnsuresOK /\ RowsOK /\ TaskOK(adm[b])
  BY DEF IInv, Types
<1>2. adm[b].op # "none" /\ adm[b].at # "list"
  BY <1>1 DEF Listed, TaskOK, NoTask
<1> QED BY <1>1, <1>2 DEF EnsuresOK, Unlisted, RowsOK, RowOK

\* What is kept when the task of one admin moves on: b revokes or ends, and is in
\* nobody's way, and no row that works is removed.
LEMMA TaskStep ==
    ASSUME IInv, Types', NEW b \in Admins,
           UNCHANGED <<device, policy, mgmt, keys, ens, lost>>,
           live' \subseteq live, missed \subseteq missed', rows' \subseteq rows,
           \A r \in rows \ rows' : ~ Strict(r),
           Listed(b), ~ Unchanging(b),
           \A c \in Admins \ {b} : adm'[c] = adm[c],
           adm'[b].todo \subseteq adm[b].todo, adm'[b].at # "list",
           \/ adm'[b].op = "none" /\ ~ Listed(b)'
           \/ /\ adm'[b].op = adm[b].op /\ adm'[b].device = adm[b].device
              /\ adm'[b].account = adm[b].account,
           \A r \in adm[b].todo : Strict(r)' => r \in adm'[b].todo,
           adm'[b].at = "delete" /\ Strict(Front(b))' => keys'[Front(b)'.hash].by = adm'[b].mgmt,
           adm'[b].at = "row" => ~ Strict(Front(b))'
    PROVE  IInv'
<1>0. /\ HashesInOrder /\ EnsuresOK /\ RowsOK /\ TodoOK /\ NoOrphanButOverlap
      /\ TaskOK(adm[b]) /\ adm[b].at # "list" /\ adm[b].op # "none"
  BY DEF IInv, Types, Listed, TaskOK, NoTask
<1>1. \A r : Strict(r)' => Strict(r)
  BY DEF Strict
<1>2. \A q \in Agents : InTime(q) => ~ Concerns(b, q)
  BY ListedHasAll
<1>3. HashesInOrder'
  <2>1. \A c \in Admins : adm'[c].todo \subseteq adm[c].todo
    OBVIOUS
  <2> QED BY <1>0, <2>1 DEF HashesInOrder, Made, AtStep
<1>4. EnsuresOK'
  <2> SUFFICES ASSUME NEW q \in Agents
               PROVE  /\ MintsOnce(q)'
                      /\ InTime(q)' => (Unlisted(q) /\ Entitled(q) /\ ReadIsCurrent(q))'
    BY DEF EnsuresOK
  <2>1. MintsOnce(q)' /\ (InTime(q)' => InTime(q) /\ ReadIsCurrent(q)')
    BY <1>0 DEF EnsuresOK, MintsOnce, InTime, ReadIsCurrent
  <2>2. InTime(q) => Unlisted(q)'
    BY <1>0, <1>2 DEF EnsuresOK, Unlisted, Concerns, Unchanging
  <2>3. InTime(q) => Entitled(q)'
    BY <1>0 DEF EnsuresOK, Entitled, Withdraws, Authenticated, Allows
  <2> QED BY <2>1, <2>2, <2>3
<1>5. RowsOK'
  <2> SUFFICES ASSUME NEW r \in rows, Strict(r), Strict(r)', RowOK(r) PROVE RowOK(r)'
    BY <1>0, <1>1 DEF RowsOK
  <2>1. Current(r)' /\ keys'[r.hash].by = mgmt'[r.account]
    BY DEF RowOK, Current
  <2>2. ASSUME NEW c \in Admins, Pending(c, r) PROVE Pending(c, r)'
    <3>1. CASE c = b
      <4>1. r \in adm[b].todo /\ Withdraws(b, r.device)
        BY <1>0, <2>2, <3>1 DEF Pending
      <4>2. r \in adm'[b].todo
        BY <4>1
      <4>3. adm'[b].op # "none"
        <5>1. TaskOK(adm'[b])
          BY DEF Types
        <5> QED BY <4>2, <5>1 DEF TaskOK, NoTask
      <4> QED BY <3>1, <4>1, <4>2, <4>3 DEF Pending, Withdraws
    <3>2. CASE c # b
      BY <2>2, <3>2 DEF Pending, Withdraws
    <3> QED BY <3>1, <3>2
  <2>3. ASSUME NEW c \in Admins, (Listed(c) /\ InScope(c, r))'
        PROVE  (r \in adm[c].todo \/ Unchanging(c))'
    <3>1. CASE c = b
      <4>1. InScope(b, r)
        BY <2>3, <3>1 DEF InScope
      <4>2. r \in adm[b].todo
        BY <4>1, ListedHasAll
      <4> QED BY <3>1, <4>2
    <3>2. CASE c # b
      BY <2>3, <3>2 DEF RowOK, Listed, InScope, Unchanging
    <3> QED BY <3>1, <3>2
  <2> QED BY <2>1, <2>2, <2>3 DEF RowOK, Rightful, Authenticated, Allows
<1>6. TodoOK'
  <2> SUFFICES ASSUME NEW c \in Admins
               PROVE  (/\ \A r \in adm[c].todo : Strict(r) => r \in rows
                       /\ adm[c].at = "delete" /\ Strict(Front(c)) => keys[Front(c).hash].by = adm[c].mgmt
                       /\ adm[c].at = "row" => ~ Strict(Front(c)))'
    BY DEF TodoOK
  <2>1. \A r \in adm'[c].todo : Strict(r)' => r \in rows'
    BY <1>0, <1>1 DEF TodoOK
  <2>2. CASE c = b
    BY <2>1, <2>2
  <2>3. CASE c # b
    <3>1. Front(c)' = Front(c)
      BY <2>3 DEF Front
    <3> QED BY <1>0, <1>1, <2>1, <2>3, <3>1 DEF TodoOK
  <2> QED BY <2>2, <2>3
<1>7. NoOrphanButOverlap'
  BY <1>0 DEF NoOrphanButOverlap, Known, AtStep, Strict
<1> QED BY <1>3, <1>4, <1>5, <1>6, <1>7 DEF IInv

\* The key of the account is read, the key deleted, its row deleted; or that fails.
LEMMA RevokeStep ==
    ASSUME IInv, Types', NEW b \in Admins,
           ReadCredential(b) \/ DeleteKey(b) \/ DeleteRow(b) \/ DeleteFails(b)
    PROVE  IInv'
<1>0. /\ RowsOK /\ TodoOK /\ TaskOK(adm[b]) /\ adm \in [Admins -> Tasks] /\ adm[b] \in Tasks
      /\ adm[b].todo # {} => Front(b) \in adm[b].todo
      /\ rows \subseteq KeyRows /\ adm[b].todo \subseteq KeyRows
  BY Parts
<1>1. adm[b].at \in {"next", "delete", "row"} /\ adm[b].todo # {}
  BY <1>0 DEF ReadCredential, DeleteKey, DeleteRow, DeleteFails, TaskOK
<1>2. Listed(b) /\ ~ Unchanging(b)
  BY <1>1 DEF Listed, Unchanging
<1>3. PICK f \in adm[b].todo : f = Front(b) /\ f \in KeyRows
  BY <1>0, <1>1
<1>4. UNCHANGED <<device, policy, mgmt, keys, ens, lost>>
  BY DEF ReadCredential, DeleteKey, DeleteRow, DeleteFails, AdminKeeps, tables, upstream, history
<1>5. CASE ReadCredential(b)
  <2> DEFINE e == [adm[b] EXCEPT !.at = "delete", !.mgmt = mgmt[Front(b).account]]
  <2>1. /\ adm' = [adm EXCEPT ![b] = e] /\ UNCHANGED <<rows, live, missed>>
    BY <1>3, <1>5 DEF ReadCredential, Task, tables, upstream, history
  <2>2. /\ e.op = adm[b].op /\ e.device = adm[b].device /\ e.account = adm[b].account
        /\ e.at = "delete" /\ e.todo = adm[b].todo /\ e.mgmt = mgmt[f.account]
    BY <1>0, <1>3 DEF Tasks
  <2> HIDE DEF e
  <2>3. adm'[b] = e /\ \A c \in Admins \ {b} : adm'[c] = adm[c]
    BY <1>0, <2>1
  <2>4. Front(b)' = f
    BY <1>3, <2>2, <2>3 DEF Front
  <2>5. \A r : Strict(r)' <=> Strict(r)
    BY <2>1 DEF Strict
  <2>6. Strict(f) => keys[f.hash].by = mgmt[f.account]
    BY <1>0, <1>3 DEF TodoOK, RowsOK, RowOK
  <2> QED BY <1>2, <1>3, <1>4, <2>1, <2>2, <2>3, <2>4, <2>5, <2>6, TaskStep
<1>6. CASE DeleteKey(b)
  <2> DEFINE e == [adm[b] EXCEPT !.at = "row"]
  <2>1. /\ adm' = [adm EXCEPT ![b] = e] /\ UNCHANGED <<rows, missed>>
        /\ live' = AfterDelete(adm[b].mgmt, f.hash) /\ adm[b].at = "delete"
    BY <1>3, <1>6 DEF DeleteKey, Task, tables, history
  <2>2. /\ e.op = adm[b].op /\ e.device = adm[b].device /\ e.account = adm[b].account
        /\ e.at = "row" /\ e.todo = adm[b].todo
    BY <1>0, <1>3 DEF Tasks
  <2> HIDE DEF e
  <2>3. adm'[b] = e /\ \A c \in Admins \ {b} : adm'[c] = adm[c]
    BY <1>0, <2>1
  <2>4. Front(b)' = f
    BY <1>3, <2>2, <2>3 DEF Front
  <2>5. live' \subseteq live
    BY <2>1 DEF AfterDelete
  <2>6. ~ Strict(f)'
    BY <1>0, <1>3, <2>1 DEF TodoOK, Strict, AfterDelete
  <2> QED BY <1>2, <1>3, <1>4, <2>1, <2>2, <2>3, <2>4, <2>5, <2>6, TaskStep
<1>7. CASE DeleteRow(b)
  <2> DEFINE e == [adm[b] EXCEPT !.at = "next", !.todo = @ \ {Front(b)}]
  <2>1. /\ adm' = [adm EXCEPT ![b] = e] /\ UNCHANGED <<live, missed>>
        /\ rows' = WithoutRow(f.device, f.account) /\ adm[b].at = "row"
    BY <1>3, <1>7 DEF DeleteRow, Task, upstream, history
  <2>2. /\ e.op = adm[b].op /\ e.device = adm[b].device /\ e.account = adm[b].account
        /\ e.at = "next" /\ e.todo = adm[b].todo \ {f}
    BY <1>0, <1>3 DEF Tasks
  <2> HIDE DEF e
  <2>3. adm'[b] = e /\ \A c \in Admins \ {b} : adm'[c] = adm[c]
    BY <1>0, <2>1
  <2>4. ~ Strict(f)
    BY <1>0, <1>3, <2>1 DEF TodoOK
  <2>5. \A r : Strict(r)' <=> Strict(r)
    BY <2>1 DEF Strict
  <2>6. ASSUME NEW r \in rows \ rows' PROVE ~ Strict(r)
    <3>1. r.device = f.device /\ r.account = f.account
      BY <2>1, <2>6 DEF WithoutRow
    <3>2. InScope(b, r)
      BY <1>0, <1>3, <3>1 DEF InScope, TaskOK
    <3>3. Strict(r) => r = f
      BY <1>0, <1>2, <1>3, <3>1, <3>2, ListedHasAll DEF TaskOK
    <3> QED BY <2>4, <3>3
  <2>7. rows' \subseteq rows
    BY <2>1 DEF WithoutRow
  <2> QED BY <1>2, <1>3, <1>4, <2>1, <2>2, <2>3, <2>4, <2>5, <2>6, <2>7, TaskStep
<1>8. CASE DeleteFails(b)
  <2> DEFINE e == [adm[b] EXCEPT !.at = "next", !.todo = @ \ {Front(b)}, !.failed = TRUE]
  <2>1. /\ adm' = [adm EXCEPT ![b] = e] /\ UNCHANGED rows
        /\ live' \subseteq live /\ missed' = missed \cup {f.hash}
    BY <1>3, <1>8 DEF DeleteFails, Task, tables, AfterDelete
  <2>2. /\ e.op = adm[b].op /\ e.device = adm[b].device /\ e.account = adm[b].account
        /\ e.at = "next" /\ e.todo = adm[b].todo \ {f}
    BY <1>0, <1>3 DEF Tasks
  <2> HIDE DEF e
  <2>3. adm'[b] = e /\ \A c \in Admins \ {b} : adm'[c] = adm[c]
    BY <1>0, <2>1
  <2>4. ~ Strict(f)'
    BY <2>1 DEF Strict
  <2> QED BY <1>2, <1>3, <1>4, <2>1, <2>2, <2>3, <2>4, TaskStep
<1> QED BY <1>5, <1>6, <1>7, <1>8

\* What is kept when a request of an admin that is done with its rows ends, or goes
\* on to store a key: what it changes is nothing that a request in time or a row
\* that works depends on.
LEMMA TaskEnds ==
    ASSUME IInv, Types', NEW b \in Admins,
           UNCHANGED <<rows, keys, live, ens, lost, missed>>,
           Listed(b), adm[b].todo = {}, adm'[b].todo = {}, adm'[b].at \in {"none", "store"},
           \A c \in Admins \ {b} : adm'[c] = adm[c],
           \/ adm'[b].op = "none" /\ adm'[b].at = "none"
           \/ /\ adm'[b].op = adm[b].op /\ adm'[b].device = adm[b].device
              /\ adm'[b].account = adm[b].account /\ ~ Unchanging(b),
           \A q \in Agents : InTime(q) =>
              /\ Authenticated(DeviceOf[q]) => Authenticated(DeviceOf[q])'
              /\ Allows(DeviceOf[q]) => Allows(DeviceOf[q])'
              /\ ens[q].at \in {"lookup", "mint", "put"} =>
                   /\ policy'[ens[q].account] = policy[ens[q].account]
                   /\ mgmt'[ens[q].account] = mgmt[ens[q].account],
           \A r \in rows : Strict(r) =>
              /\ Rightful(r) => Rightful(r)'
              /\ policy'[r.account] = policy[r.account] /\ mgmt'[r.account] = mgmt[r.account],
           \A c \in Admins \ {b} : Unchanging(c) =>
              \/ Unchanging(c)'
              \/ /\ \A q \in Agents : ~ InTime(q)
                 /\ \A r \in rows : Strict(r) => r.account # adm[c].account
    PROVE  IInv'
<1>0. /\ HashesInOrder /\ EnsuresOK /\ RowsOK /\ TodoOK /\ NoOrphanButOverlap
      /\ TaskOK(adm[b]) /\ adm[b].at # "list" /\ adm[b].op # "none"
      /\ \A c \in Admins : TaskOK(adm[c])
  <2>1. /\ HashesInOrder /\ EnsuresOK /\ RowsOK /\ TodoOK /\ NoOrphanButOverlap
        /\ \A c \in Admins : TaskOK(adm[c])
    BY DEF IInv, Types
  <2>2. adm[b].at # "list" /\ adm[b].at # "none"
    BY DEF Listed
  <2>3. adm[b].op # "none"
    BY <2>1, <2>2 DEF TaskOK, NoTask
  <2> QED BY <2>1, <2>2, <2>3
<1>1. \A r : Strict(r)' <=> Strict(r)
  BY DEF Strict
<1>2. HashesInOrder'
  <2>1. \A c \in Admins : adm'[c].todo \subseteq adm[c].todo
    OBVIOUS
  <2> QED BY <1>0, <2>1 DEF HashesInOrder, Made, AtStep
<1>3. EnsuresOK'
  <2> SUFFICES ASSUME NEW q \in Agents
               PROVE  /\ MintsOnce(q)'
                      /\ InTime(q)' => (Unlisted(q) /\ Entitled(q) /\ ReadIsCurrent(q))'
    BY DEF EnsuresOK
  <2>1. MintsOnce(q)' /\ (InTime(q)' => InTime(q))
    BY <1>0 DEF EnsuresOK, MintsOnce, InTime
  <2>2. ASSUME InTime(q), NEW c \in Admins, (adm[c].op # "none" /\ Concerns(c, q))'
        PROVE  adm'[c].at = "list" \/ Unchanging(c)'
    <3>1. CASE c = b
      BY <1>0, <2>2, <3>1, ListedHasAll DEF Concerns
    <3>2. CASE c # b
      BY <1>0, <2>2, <3>2 DEF EnsuresOK, Unlisted, Concerns
    <3> QED BY <3>1, <3>2
  <2>3. InTime(q) => Entitled(q)'
    BY <1>0 DEF EnsuresOK, Entitled, Withdraws
  <2>4. InTime(q) => ReadIsCurrent(q)'
    BY <1>0 DEF EnsuresOK, ReadIsCurrent
  <2> QED BY <2>1, <2>2, <2>3, <2>4 DEF Unlisted
<1>4. RowsOK'
  <2> SUFFICES ASSUME NEW r \in rows, Strict(r), RowOK(r) PROVE RowOK(r)'
    BY <1>0, <1>1 DEF RowsOK
  <2>1. Current(r)' /\ keys'[r.hash].by = mgmt'[r.account]
    BY DEF RowOK, Current
  <2>2. ASSUME NEW c \in Admins, Pending(c, r) PROVE Pending(c, r)'
    <3>1. c # b
      BY <1>0, <2>2 DEF Pending
    <3> QED BY <2>2, <3>1 DEF Pending, Withdraws
  <2>3. ASSUME NEW c \in Admins, (Listed(c) /\ InScope(c, r))'
        PROVE  (r \in adm[c].todo \/ Unchanging(c))'
    <3>1. CASE c = b
      <4>1. ~ Unchanging(b) /\ InScope(b, r)
        BY <2>3, <3>1 DEF Listed, InScope
      <4> QED BY <4>1, ListedHasAll
    <3>2. CASE c # b
      <4>1. r \in adm[c].todo \/ Unchanging(c)
        BY <2>3, <3>2 DEF RowOK, Listed, InScope
      <4>2. Unchanging(c) => r.account = adm[c].account
        BY <1>0, <2>3, <3>2, KeysAssumption DEF Unchanging, TaskOK, InScope
      <4> QED BY <3>2, <4>1, <4>2
    <3> QED BY <3>1, <3>2
  <2> QED BY <2>1, <2>2, <2>3 DEF RowOK
<1>5. TodoOK'
  <2> SUFFICES ASSUME NEW c \in Admins
               PROVE  (/\ \A r \in adm[c].todo : Strict(r) => r \in rows
                       /\ adm[c].at = "delete" /\ Strict(Front(c)) => keys[Front(c).hash].by = adm[c].mgmt
                       /\ adm[c].at = "row" => ~ Strict(Front(c)))'
    BY DEF TodoOK
  <2>1. CASE c = b
    BY <2>1
  <2>2. CASE c # b
    <3>1. adm'[c] = adm[c] /\ rows' = rows /\ keys' = keys /\ Front(c)' = Front(c)
      BY <2>2 DEF Front
    <3>2. /\ \A r \in adm[c].todo : Strict(r) => r \in rows
          /\ adm[c].at = "delete" /\ Strict(Front(c)) => keys[Front(c).hash].by = adm[c].mgmt
          /\ adm[c].at = "row" => ~ Strict(Front(c))
      BY <1>0 DEF TodoOK
    <3>3. Strict(Front(c))' <=> Strict(Front(c))
      BY <3>1 DEF Strict
    <3> QED BY <1>1, <3>1, <3>2, <3>3
  <2> QED BY <2>1, <2>2
<1>6. NoOrphanButOverlap'
  BY <1>0 DEF NoOrphanButOverlap, Known, AtStep
<1> QED BY <1>2, <1>3, <1>4, <1>5, <1>6 DEF IInv

\* A request that is done with its rows: no row it is about works, unless it is an
\* edit that changes nothing.
LEMMA EndStep ==
    ASSUME IInv, Types', NEW b \in Admins,
           EndWithdrawal(b) \/ EndRevoke(b) \/ StorePolicy(b) \/ StoreKey(b) \/ StoreKeyFails(b)
    PROVE  IInv'
<1>0. /\ EnsuresOK /\ RowsOK
      /\ TaskOK(adm[b]) /\ adm \in [Admins -> Tasks] /\ adm[b] \in Tasks
      /\ device \in [Devices -> DeviceRows] /\ rows \subseteq KeyRows
      /\ policy \in [Accounts -> Policies] /\ mgmt \in [Accounts -> MgmtKeys]
      /\ ens \in [Agents -> Ensures] /\ DeviceOf \in [Agents -> Devices]
      /\ EnsuresTyped /\ None \notin Devices
      /\ \A c \in Admins : TaskOK(adm[c])
  BY Parts, KeysAssumption DEF IInv, Types, TypeOK
<1>1. adm[b].todo = {} /\ adm[b].at \in {"next", "store"} /\ Listed(b)
  BY <1>0 DEF EndWithdrawal, EndRevoke, StorePolicy, StoreKey, StoreKeyFails, Finished, TaskOK, Listed
<1>2. UNCHANGED <<rows, keys, live, ens, lost, missed>>
  BY DEF EndWithdrawal, EndRevoke, StorePolicy, StoreKey, StoreKeyFails, AdminKeeps,
         tables, upstream, history
<1>n. NoTask.op = "none" /\ NoTask.at = "none" /\ NoTask.todo = {}
  BY DEF NoTask
<1>3. CASE Unchanging(b)
  <2>1. StorePolicy(b) /\ adm' = [adm EXCEPT ![b] = NoTask]
    BY <1>3, KeysAssumption
       DEF Unchanging, EndWithdrawal, EndRevoke, StorePolicy, StoreKey, StoreKeyFails, Finished, Task
  <2>2. policy' = policy
    BY <1>0, <1>3, <2>1 DEF StorePolicy, Unchanging
  <2>3. device' = device /\ mgmt' = mgmt
    BY <2>1 DEF StorePolicy
  <2>4. adm'[b] = NoTask /\ \A c \in Admins \ {b} : adm'[c] = adm[c]
    BY <1>0, <2>1
  <2>5. \A c \in Admins \ {b} : Unchanging(c) => Unchanging(c)'
    BY <2>2, <2>4 DEF Unchanging
  <2>6. /\ \A d : (Authenticated(d) => Authenticated(d)') /\ (Allows(d) => Allows(d)')
        /\ \A r : Rightful(r) => Rightful(r)'
    BY <2>3 DEF Authenticated, Allows, Rightful
  <2> QED BY <1>1, <1>2, <1>n, <2>2, <2>3, <2>4, <2>5, <2>6, TaskEnds
<1>4. CASE ~ Unchanging(b)
  <2>1. /\ \A q \in Agents : InTime(q) => ~ Concerns(b, q)
        /\ \A r \in rows : Strict(r) => ~ InScope(b, r)
    BY <1>1, <1>4, ListedHasAll
  <2>2. /\ \A c \in Admins \ {b} : adm'[c] = adm[c]
        /\ adm'[b].todo = {} /\ adm'[b].at \in {"none", "store"}
        /\ \/ adm'[b].op = "none" /\ adm'[b].at = "none"
           \/ /\ adm'[b].op = adm[b].op /\ adm'[b].device = adm[b].device
              /\ adm'[b].account = adm[b].account
    <3> DEFINE e == [adm[b] EXCEPT !.at = "store"]
    <3>1. /\ e.op = adm[b].op /\ e.device = adm[b].device /\ e.account = adm[b].account
          /\ e.at = "store" /\ e.todo = {}
      BY <1>0, <1>1 DEF Tasks
    <3>2. adm' = [adm EXCEPT ![b] = NoTask] \/ adm' = [adm EXCEPT ![b] = e]
      BY DEF EndWithdrawal, EndRevoke, StorePolicy, StoreKey, StoreKeyFails, Task
    <3> HIDE DEF e
    <3> QED BY <1>0, <1>n, <3>1, <3>2
  <2>3. /\ adm[b].device \in Devices \cup {None}
        /\ \A x \in Devices : x # adm[b].device => device'[x] = device[x]
        /\ adm[b].device # None => policy' = policy /\ mgmt' = mgmt
        /\ adm[b].device = None =>
             /\ device' = device
             /\ \A a \in Accounts \ {adm[b].account} : policy'[a] = policy[a] /\ mgmt'[a] = mgmt[a]
    BY <1>0 DEF EndWithdrawal, EndRevoke, StorePolicy, StoreKey, StoreKeyFails, Finished, TaskOK,
                Tasks, tables
  <2>4. ASSUME NEW q \in Agents, InTime(q)
        PROVE  /\ device'[DeviceOf[q]] = device[DeviceOf[q]]
               /\ policy' = policy /\ mgmt' = mgmt
    BY <1>0, <2>1, <2>3, <2>4 DEF Concerns
  <2>5. ASSUME NEW r \in rows, Strict(r)
        PROVE  /\ device'[r.device] = device[r.device]
               /\ policy'[r.account] = policy[r.account] /\ mgmt'[r.account] = mgmt[r.account]
    BY <1>0, <2>1, <2>3, <2>5 DEF InScope, KeyRows
  <2>6. ASSUME NEW c \in Admins \ {b}, Unchanging(c), ~ Unchanging(c)'
        PROVE  /\ \A q \in Agents : ~ InTime(q)
               /\ \A r \in rows : Strict(r) => r.account # adm[c].account
    <3>1. policy'[adm[c].account] # policy[adm[c].account] /\ adm[c].account \in Accounts
      BY <1>0, <2>2, <2>6 DEF Unchanging, TaskOK
    <3>2. adm[b].device = None /\ adm[b].account = adm[c].account
      BY <2>3, <3>1
    <3> QED BY <2>1, <3>2 DEF Concerns, InScope
  <2>7. /\ \A q \in Agents : InTime(q) =>
              /\ Authenticated(DeviceOf[q]) => Authenticated(DeviceOf[q])'
              /\ Allows(DeviceOf[q]) => Allows(DeviceOf[q])'
        /\ \A r \in rows : Strict(r) => (Rightful(r) => Rightful(r)')
    BY <2>4, <2>5 DEF Authenticated, Allows, Rightful
  <2> QED BY <1>1, <1>2, <1>4, <2>2, <2>4, <2>5, <2>6, <2>7, TaskEnds
<1> QED BY <1>3, <1>4

-----------------------------------------------------------------------------
(* The rest of the world, and the theorem. *)

\* The pool changes, or nothing does.
LEMMA PoolStep ==
    ASSUME IInv, Types', PoolChange \/ UNCHANGED vars
    PROVE  IInv'
<1>0. /\ HashesInOrder /\ EnsuresOK /\ RowsOK /\ TodoOK /\ NoOrphanButOverlap
  BY DEF IInv
<1>1. UNCHANGED <<device, policy, mgmt, rows, keys, live, ens, adm, lost, missed>>
  BY DEF PoolChange, vars, tables, upstream, history
<1>2. \A r : Strict(r)' <=> Strict(r)
  BY <1>1 DEF Strict
<1>3. HashesInOrder'
  BY <1>0, <1>1 DEF HashesInOrder, Made, AtStep
<1>4. EnsuresOK'
  BY <1>0, <1>1 DEF EnsuresOK, MintsOnce, InTime, Unlisted, Entitled, ReadIsCurrent,
                    Concerns, Unchanging, Withdraws, Authenticated, Allows
<1>5. RowsOK'
  BY <1>0, <1>1, <1>2 DEF RowsOK, RowOK, Current, Rightful, Pending, Listed, InScope,
                          Unchanging, Withdraws, Authenticated, Allows
<1>6. TodoOK'
  BY <1>0, <1>1, <1>2 DEF TodoOK, Front
<1>7. NoOrphanButOverlap'
  BY <1>0, <1>1 DEF NoOrphanButOverlap, Known, AtStep
<1> QED BY <1>3, <1>4, <1>5, <1>6, <1>7 DEF IInv

\* A restart ends every request; what was about to be written is lost, what was to
\* be revoked is missed.
LEMMA RestartStep ==
    ASSUME IInv, Types', Restart
    PROVE  IInv'
<1>0. /\ HashesInOrder /\ EnsuresOK /\ RowsOK /\ TodoOK /\ NoOrphanButOverlap
      /\ ens \in [Agents -> Ensures] /\ adm \in [Admins -> Tasks]
  BY Parts DEF IInv, Types, TypeOK
<1>1. UNCHANGED <<device, policy, mgmt, rows, keys, live>>
  BY DEF Restart, tables, upstream
<1>2. /\ \A p \in Agents : ens'[p] = NoEnsure /\ NoEnsure.at = "idle"
      /\ \A b \in Admins : adm'[b] = NoTask /\ NoTask.op = "none" /\ NoTask.at = "none"
                           /\ NoTask.todo = {}
  BY DEF Restart, NoEnsure, NoTask
<1>3. /\ missed \subseteq missed' /\ lost \subseteq lost'
      /\ \A p \in Agents : AtStep(p, "put") => ens[p].hash \in lost'
      /\ \A b \in Admins, r \in rows : adm[b].op # "none" => r.hash \in missed'
  BY DEF Restart, NoTask
<1>4. HashesInOrder'
  BY <1>0, <1>1, <1>2 DEF HashesInOrder, Made, AtStep
<1>5. EnsuresOK'
  BY <1>2 DEF EnsuresOK, MintsOnce, InTime
<1>6. RowsOK'
  <2> SUFFICES ASSUME NEW r \in rows, Strict(r)' PROVE RowOK(r)'
    BY <1>1 DEF RowsOK
  <2>1. RowOK(r) /\ \A b \in Admins : adm[b].op = "none"
    BY <1>0, <1>1, <1>3 DEF RowsOK, Strict
  <2>2. Rightful(r)
    BY <2>1 DEF RowOK, Pending, Withdraws
  <2> QED BY <1>1, <1>2, <2>1, <2>2 DEF RowOK, Current, Rightful, Listed, Authenticated, Allows
<1>7. TodoOK'
  BY <1>2 DEF TodoOK
<1>8. NoOrphanButOverlap'
  BY <1>0, <1>1, <1>3 DEF NoOrphanButOverlap, Known
<1> QED BY <1>4, <1>5, <1>6, <1>7, <1>8 DEF IInv

\* Every step keeps the invariant, when one agent speaks for each device.
LEMMA NextInvariant ==
    ASSUME OneAgentPerDevice, IInv, [Next]_vars
    PROVE  IInv'
<1>1. Types'
  BY NextTypes DEF IInv
<1>2. CASE \E p \in Agents : AgentStep(p) \/ MintFails(p) \/ PutFails(p)
  BY <1>1, <1>2, ReadStep, MintStep, PutStep, PutFailsStep DEF AgentStep
<1>3. CASE \E b \in Admins : AdminWorks(b) \/ DeleteFails(b) \/ StoreKeyFails(b)
  BY <1>1, <1>3, ListStep, RevokeStep, EndStep DEF AdminWorks
<1>4. CASE \E b \in Admins : AdminAsks(b)
  BY <1>1, <1>4, WithdrawalBegins, EditBegins, RestoreStep DEF AdminAsks
<1>5. CASE PoolChange \/ UNCHANGED vars
  BY <1>1, <1>5, PoolStep
<1>6. CASE Restart
  BY <1>1, <1>6, RestartStep
<1> QED BY <1>2, <1>3, <1>4, <1>5, <1>6 DEF Next, Fault

\* The pool of keys: no key that OpenRouter accepts is forgotten by the vault, or
\* outlives its account's policy and its device's grant, but for the overlaps and
\* the faults that KeysInv names (EnsureDeviceKey, RevokeDeviceKeys,
\* RevokeAccountKeys); one agent speaks for each device.
THEOREM KeysAreSafe == OneAgentPerDevice /\ Spec => []KeysInv
<1>1. OneAgentPerDevice /\ IInv /\ [Next]_vars => IInv'
  BY NextInvariant
<1>2. OneAgentPerDevice => OneAgentPerDevice'
  BY DEF OneAgentPerDevice
<1>3. Init => IInv
  BY InitInvariant
<1>4. IInv => KeysInv
  BY InvariantSuffices
<1> QED BY <1>1, <1>2, <1>3, <1>4, PTL DEF Spec

-----------------------------------------------------------------------------
(* The keys of the accounts, and their balances. *)

\* What a save or a balance check carries while it is under way is of an account
\* and a key; only a key of OpenRouter is found to be of another kind.
CarriesKey(j) ==
    j.at # "idle" => j.acc \in KBAccounts /\ j.key \in KBKeys

BIInv ==
    /\ B!TypeOK /\ B!KeyIsTheAdmins /\ CarriesKey(save)
    /\ \A w \in {"poller", "button"} :
         CarriesKey(worker[w]) /\ (worker[w].at = "flipped" => kind = "openrouter")

\* A balance is kept with the key it finds, and makes no row.
LEMMA BalanceKeepsKey ==
    ASSUME B!TypeOK, NEW a \in KBAccounts, NEW k \in KBKeys, NEW money \in BOOLEAN
    PROVE  /\ B!Balance(a, k, money) \in [KBAccounts -> B!Credential \cup {None}]
           /\ \A x \in KBAccounts :
                /\ B!Balance(a, k, money)[x] = None <=> cred[x] = None
                /\ cred[x] # None => B!Balance(a, k, money)[x].key = cred[x].key
<1>1. cred \in [KBAccounts -> B!Credential \cup {None}] /\ None \notin B!Credential
  BY BalancesAssumption DEF B!TypeOK
<1> DEFINE c == IF cred[a] = None THEN None ELSE [cred[a] EXCEPT !.of = k, !.money = money]
<1>2. /\ c \in B!Credential \cup {None} /\ (c = None <=> cred[a] = None)
      /\ cred[a] # None => c.key = cred[a].key
  <2>1. CASE cred[a] = None
    BY <2>1
  <2>2. CASE cred[a] # None
    <3>1. cred[a] \in B!Credential
      BY <1>1, <2>2
    <3>2. c \in B!Credential /\ c.key = cred[a].key
      BY <2>2, <3>1 DEF B!Credential
    <3> QED BY <1>1, <2>2, <3>2
  <2> QED BY <2>1, <2>2
<1>3. B!Balance(a, k, money) = [cred EXCEPT ![a] = c]
  BY <1>1 DEF B!Balance
<1> HIDE DEF c
<1> QED BY <1>1, <1>2, <1>3

\* A key that was not asked about yet.
LEMMA UnpolledType ==
    ASSUME NEW k \in KBKeys, NEW m \in BOOLEAN
    PROVE  B!Unpolled(k, m) \in B!Credential /\ B!Unpolled(k, m).key = k
                /\ B!Unpolled(k, m) # None
<1>1. B!Unpolled(k, m) \in B!Credential /\ B!Unpolled(k, m).key = k
  BY DEF B!Unpolled, B!Credential
<1> QED BY <1>1, BalancesAssumption

\* Every step of the admin, the poller, the button, a device or the provider keeps
\* the invariant.
LEMMA BalancesStep == BIInv /\ [B!Next]_B!vars => BIInv'
<1> SUFFICES ASSUME BIInv, [B!Next]_B!vars PROVE BIInv'
  OBVIOUS
<1>0. /\ B!TypeOK /\ B!KeyIsTheAdmins /\ CarriesKey(save)
      /\ \A w \in {"poller", "button"} :
           CarriesKey(worker[w]) /\ (worker[w].at = "flipped" => kind = "openrouter")
      /\ save \in B!Work /\ worker \in [{"poller", "button"} -> B!Work]
      /\ cred \in [KBAccounts -> B!Credential \cup {None}]
      /\ saved \in [KBAccounts -> KBKeys \cup {None}]
      /\ None \notin B!Credential /\ KBAccounts \subseteq Nat
      /\ funded \subseteq KBKeys /\ mints \subseteq KBKeys /\ active \subseteq KBAccounts
  BY BalancesAssumption DEF BIInv, B!TypeOK
<1>i. B!Idle \in B!Work /\ CarriesKey(B!Idle) /\ B!Idle.at = "idle"
  BY DEF B!Idle, B!Work, CarriesKey
<1> USE DEF B!upstream
<1>1. ASSUME NEW a \in KBAccounts, NEW k \in KBKeys, B!CheckNewKey(a, k) PROVE BIInv'
  <2>1. save' \in B!Work /\ CarriesKey(save)'
    BY <1>0, <1>1 DEF B!CheckNewKey, B!Work, CarriesKey
  <2> QED BY <1>0, <1>1, <2>1 DEF B!CheckNewKey, BIInv, B!TypeOK, B!KeyIsTheAdmins, CarriesKey
<1>2. CASE B!SetCredential
  <2> DEFINE c == B!Unpolled(save.key, save.mint)
  <2>1. save.acc \in KBAccounts /\ save.key \in KBKeys /\ save.mint \in BOOLEAN
    BY <1>0, <1>2 DEF B!SetCredential, B!Work, CarriesKey
  <2>2. c \in B!Credential /\ c.key = save.key /\ c # None
    BY <2>1, UnpolledType
  <2>3. cred' = [cred EXCEPT ![save.acc] = c] /\ saved' = [saved EXCEPT ![save.acc] = save.key]
    BY <1>2 DEF B!SetCredential
  <2> HIDE DEF c
  <2>4. /\ cred' \in [KBAccounts -> B!Credential \cup {None}]
        /\ saved' \in [KBAccounts -> KBKeys \cup {None}]
    BY <1>0, <2>1, <2>2, <2>3
  <2>5. B!KeyIsTheAdmins'
    BY <1>0, <1>2, <2>1, <2>2, <2>3 DEF B!SetCredential, B!KeyIsTheAdmins
  <2>6. save' \in B!Work /\ CarriesKey(save)'
    <3>1. [save EXCEPT !.at = "stored"] \in B!Work /\ CarriesKey([save EXCEPT !.at = "stored"])
      BY <1>0, <2>1 DEF B!Work, CarriesKey
    <3> QED BY <1>2, <1>i, <3>1 DEF B!SetCredential
  <2> QED BY <1>0, <1>2, <2>4, <2>5, <2>6 DEF B!SetCredential, BIInv, B!TypeOK, CarriesKey
<1>3. CASE B!SaveBalance
  <2>1. save.acc \in KBAccounts /\ save.key \in KBKeys /\ save.money \in BOOLEAN
    BY <1>0, <1>3 DEF B!SaveBalance, B!Work, CarriesKey
  <2>2. /\ cred' \in [KBAccounts -> B!Credential \cup {None}]
        /\ \A x \in KBAccounts : /\ cred'[x] = None <=> cred[x] = None
                                 /\ cred[x] # None => cred'[x].key = cred[x].key
    <3> DEFINE c == B!Balance(save.acc, save.key, save.money)
    <3>1. cred' = c
      BY <1>3 DEF B!SaveBalance
    <3>2. /\ c \in [KBAccounts -> B!Credential \cup {None}]
          /\ \A x \in KBAccounts : /\ c[x] = None <=> cred[x] = None
                                   /\ cred[x] # None => c[x].key = cred[x].key
      <4>1. B!TypeOK
        BY <1>0
      <4> QED BY <2>1, <4>1, BalanceKeepsKey
    <3> HIDE DEF c
    <3> QED BY <3>1, <3>2
  <2> QED BY <1>0, <1>3, <1>i, <2>2 DEF B!SaveBalance, BIInv, B!TypeOK, B!KeyIsTheAdmins, CarriesKey
<1>4. ASSUME NEW a \in KBAccounts, B!DeleteCredential(a) \/ B!Toggle(a) PROVE BIInv'
  <2>1. CASE B!DeleteCredential(a)
    <3>1. /\ cred' \in [KBAccounts -> B!Credential \cup {None}]
          /\ saved' \in [KBAccounts -> KBKeys \cup {None}]
      BY <1>0, <2>1 DEF B!DeleteCredential
    <3>2. B!KeyIsTheAdmins'
      BY <1>0, <2>1 DEF B!DeleteCredential, B!KeyIsTheAdmins
    <3> QED BY <1>0, <2>1, <3>1, <3>2 DEF B!DeleteCredential, BIInv, B!TypeOK, CarriesKey
  <2>2. CASE B!Toggle(a)
    BY <1>0, <2>2 DEF B!Toggle, BIInv, B!TypeOK, B!KeyIsTheAdmins, CarriesKey
  <2> QED BY <1>4, <2>1, <2>2
<1>5. ASSUME NEW w \in {"poller", "button"}, NEW a \in KBAccounts, B!AskBalance(w, a)
      PROVE  BIInv'
  <2>1. cred[a] \in B!Credential
    BY <1>0, <1>5 DEF B!AskBalance
  <2>2. cred[a].key \in KBKeys
    BY <2>1 DEF B!Credential
  <2>3. /\ B!Answer(w, a) \in B!Work /\ CarriesKey(B!Answer(w, a))
        /\ B!Answer(w, a).at = "flipped" => kind = "openrouter"
    BY <2>2 DEF B!Answer, B!Work, CarriesKey
  <2>4. worker' = [worker EXCEPT ![w] = B!Answer(w, a)]
    BY <1>5 DEF B!AskBalance, B!At
  <2>5. UNCHANGED <<kind, active, cred, funded, mints, save, configured, saves, turns, saved>>
    BY <1>5 DEF B!AskBalance, B!WorkKeeps
  <2> QED BY <1>0, <2>3, <2>4, <2>5 DEF BIInv, B!TypeOK, B!KeyIsTheAdmins, CarriesKey
<1>6. ASSUME NEW w \in {"poller", "button"}, B!StoreKind(w) PROVE BIInv'
  <2> DEFINE c == B!Unpolled(worker[w].key, worker[w].mint)
             e == [worker[w] EXCEPT !.at = "answered"]
  <2>1. /\ worker[w].acc \in KBAccounts /\ worker[w].key \in KBKeys /\ worker[w].mint \in BOOLEAN
        /\ kind = "openrouter"
    BY <1>0, <1>6 DEF B!StoreKind, B!Work, CarriesKey
  <2>2. c \in B!Credential
    BY <2>1, UnpolledType
  <2>3. e \in B!Work /\ CarriesKey(e) /\ e.at = "answered"
    BY <1>0, <2>1 DEF B!Work, CarriesKey
  <2>4. cred' = [cred EXCEPT ![worker[w].acc] = c] /\ worker' = [worker EXCEPT ![w] = e]
    BY <1>6 DEF B!StoreKind, B!At
  <2>5. UNCHANGED <<kind, active, funded, mints, save, configured, saves, turns, saved>>
    BY <1>6 DEF B!StoreKind, B!WorkKeeps
  <2> HIDE DEF c, e
  <2>6. cred' \in [KBAccounts -> B!Credential \cup {None}]
    BY <1>0, <2>2, <2>4
  <2> QED BY <1>0, <2>1, <2>3, <2>4, <2>5, <2>6 DEF BIInv, B!TypeOK, B!KeyIsTheAdmins, CarriesKey
<1>7. ASSUME NEW w \in {"poller", "button"}, B!WriteBalance(w) PROVE BIInv'
  <2>1. worker[w].acc \in KBAccounts /\ worker[w].key \in KBKeys /\ worker[w].money \in BOOLEAN
    BY <1>0, <1>7 DEF B!WriteBalance, B!Work, CarriesKey
  <2>2. /\ cred' \in [KBAccounts -> B!Credential \cup {None}]
        /\ \A x \in KBAccounts : /\ cred'[x] = None <=> cred[x] = None
                                 /\ cred[x] # None => cred'[x].key = cred[x].key
    <3> DEFINE c == B!Balance(worker[w].acc, worker[w].key, worker[w].money)
    <3>1. cred' = c
      BY <1>7 DEF B!WriteBalance
    <3>2. /\ c \in [KBAccounts -> B!Credential \cup {None}]
          /\ \A x \in KBAccounts : /\ c[x] = None <=> cred[x] = None
                                   /\ cred[x] # None => c[x].key = cred[x].key
      <4>1. B!TypeOK
        BY <1>0
      <4> QED BY <2>1, <4>1, BalanceKeepsKey
    <3> HIDE DEF c
    <3> QED BY <3>1, <3>2
  <2>3. worker' = [worker EXCEPT ![w] = B!Idle]
    BY <1>7 DEF B!WriteBalance, B!At
  <2>4. UNCHANGED <<kind, active, funded, mints, save, configured, saves, turns, saved>>
    BY <1>7 DEF B!WriteBalance, B!WorkKeeps
  <2> QED BY <1>0, <1>i, <2>2, <2>3, <2>4 DEF BIInv, B!TypeOK, B!KeyIsTheAdmins, CarriesKey
<1>8. ASSUME NEW d \in KBDevices, B!SyncGrant(d) PROVE BIInv'
  <2>1. B!Usable # {} => cred[B!Pick].key \in KBKeys
    <3> SUFFICES ASSUME B!Usable # {} PROVE cred[B!Pick].key \in KBKeys
      OBVIOUS
    <3>1. B!Usable \in SUBSET Nat /\ \A a \in B!Usable : a \in KBAccounts /\ cred[a] # None
      BY <1>0 DEF B!Usable
    <3>2. PICK m \in B!Usable : \A n \in B!Usable : m <= n
      BY <3>1, LeastNumber
    <3>3. B!Pick \in B!Usable
      BY <3>2 DEF B!Pick
    <3>4. cred[B!Pick] \in B!Credential
      BY <1>0, <3>1, <3>3
    <3> QED BY <3>4 DEF B!Credential
  <2>2. configured' \in [KBDevices -> KBKeys \cup {None}]
    BY <1>0, <1>8, <2>1 DEF B!SyncGrant, B!TypeOK
  <2> QED BY <1>0, <1>8, <2>2 DEF B!SyncGrant, BIInv, B!TypeOK, B!KeyIsTheAdmins, CarriesKey
<1>9. CASE B!Turn
  <2>1. funded' \subseteq KBKeys /\ mints' \subseteq KBKeys
    BY <1>0, <1>9 DEF B!Turn
  <2> QED BY <1>0, <1>9, <2>1 DEF B!Turn, BIInv, B!TypeOK, B!KeyIsTheAdmins, CarriesKey
<1>10. CASE UNCHANGED B!vars
  BY <1>0, <1>10 DEF B!vars, BIInv, B!TypeOK, B!KeyIsTheAdmins, CarriesKey
<1> QED BY <1>1, <1>2, <1>3, <1>4, <1>5, <1>6, <1>7, <1>8, <1>9, <1>10 DEF B!Next

\* A DeepSeek account has the key the admin gave it, and none after it was taken out,
\* whatever the poller and the button heard and write late (SetDeepSeekBalance).
THEOREM KeysAreTheAdmins == B!Spec => []BalancesInv
<1>1. B!Init => BIInv
  <2> SUFFICES ASSUME B!Init PROVE BIInv
    OBVIOUS
  <2>1. B!Idle \in B!Work /\ CarriesKey(B!Idle) /\ B!Idle.at = "idle"
    BY DEF B!Idle, B!Work, CarriesKey
  <2> QED BY <2>1, BalancesAssumption DEF B!Init, BIInv, B!TypeOK, B!KeyIsTheAdmins
<1>2. BIInv => BalancesInv
  BY DEF BIInv, BalancesInv, B!BalancesInv
<1> QED BY <1>1, <1>2, BalancesStep, PTL DEF B!Spec

=============================================================================
