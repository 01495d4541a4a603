-------------------------- MODULE MCOpenRouterKeys --------------------------
(***************************************************************************)
(* Instances for TLC of the two modules about pooled API keys: the keys    *)
(* minted per device (OpenRouterKeys) and the balances of the accounts     *)
(* they are minted from (KeyBalances).  The first takes from the second    *)
(* only which accounts are usable, which there changes freely, so that a   *)
(* behaviour moves one of the two and leaves the other where it began.     *)
(***************************************************************************)
EXTENDS OpenRouterKeys, TLC

CONSTANTS d1, p1, b1, k1, k2,
          KBProviders, KBAccounts, KBKeys, KBDevices, KBMaxSaves, KBMaxTurns

VARIABLES part, \* the module that moves
          kind, active, cred, funded, mints, worker, save, configured, saves, turns, saved

B == INSTANCE KeyBalances WITH held <- configured

ASSUME BalancesAssumption ==
    /\ KBAccounts \subseteq Nat /\ KBProviders \subseteq {"deepseek", "openrouter"}
    /\ None \notin B!Credential

balances == <<kind, active, cred, funded, mints, worker, save, configured, saves, turns, saved>>

\* One agent on one device.
SoloDeviceOf == p1 :> d1

PoolInit ==
    /\ part \in {"keys", "balances"}
    /\ Init /\ B!Init
    /\ part = "keys" => kind = "openrouter"

PoolNext ==
    \/ part = "keys" /\ Next /\ UNCHANGED <<part, balances>>
    \/ part = "balances" /\ B!Next /\ UNCHANGED <<part, vars>>

\* Fairness and B!Fairness, of the module that moves.
PoolSpec ==
    /\ PoolInit /\ [][PoolNext]_<<part, vars, balances>>
    /\ \A p \in Agents : WF_vars(part = "keys" /\ AgentStep(p))
    /\ \A b \in Admins : WF_vars(part = "keys" /\ AdminWorks(b))
    /\ WF_balances(part = "balances" /\ B!SetCredential)
    /\ WF_balances(part = "balances" /\ B!SaveBalance)
    /\ \A a \in KBAccounts : SF_balances(part = "balances" /\ B!AskBalance("poller", a))
    /\ \A w \in {"poller", "button"} : WF_balances(part = "balances" /\ (B!StoreKind(w) \/ B!WriteBalance(w)))
    /\ \A d \in KBDevices : WF_balances(part = "balances" /\ B!SyncGrant(d))

BalancesInv == B!BalancesInv

\* In a behaviour that moves the module.
FollowsGrant == part = "keys" => AgentFollowsGrant
BalancesSettle == part = "balances" => B!BalancesSettle
=============================================================================
