----------------------------- MODULE KeyBalances -----------------------------
(***************************************************************************)
(* Accounts that are an API key with money on it (DeepSeek, OpenRouter):   *)
(* the key the admin saves, the balance that the poller and the "check"    *)
(* button read with it, and the account a device is given by it.  One of   *)
(* the two providers per behaviour.                                        *)
(*                                                                         *)
(* Poller and button read the stored key, ask the provider, and write what *)
(* they heard to the account's row: the key may have been replaced or      *)
(* removed in between.  Minting of keys per device is OpenRouterKeys'.     *)
(***************************************************************************)
EXTENDS Naturals, FiniteSets

CONSTANTS
    KBProviders, \* subset of {"deepseek", "openrouter"}
    KBAccounts,  \* ids (naturals)
    KBKeys,      \* keys of the admin, at most one account's each
    KBDevices,   \* paired devices that may have the provider
    KBMaxSaves,  \* bound: saves and removals of a key, pauses
    KBMaxTurns,  \* bound: balances that run out or are filled, keys that change kind
    None

VARIABLES
    kind,    \* the provider; never changes
    active,  \* accounts that are not paused
    cred,    \* the key's row: key, whether it can mint, whether there is money, and
             \* the key that was asked for it (None: not known)
    funded,  \* the provider's side: keys with money
    mints,   \* the provider's side: keys that can mint others
    worker,  \* the poller and the button: what they read, and heard
    save,    \* the save under way: the key was checked, was stored
    held,    \* the key a device is configured with
    saves, turns,
    saved    \* history: the key the admin last gave the account

upstream == <<funded, mints>>
vars == <<kind, active, cred, upstream, worker, save, held, saves, turns, saved>>

Idle == [at |-> "idle", acc |-> 0, key |-> None, mint |-> FALSE, money |-> FALSE]
Unpolled(k, m) == [key |-> k, mint |-> m, of |-> None, money |-> FALSE]

Init ==
    /\ kind \in KBProviders
    /\ active = KBAccounts
    /\ cred = [a \in KBAccounts |-> None] /\ saved = cred
    /\ funded = KBKeys /\ mints = {}
    /\ worker = [w \in {"poller", "button"} |-> Idle] /\ save = Idle
    /\ held = [d \in KBDevices |-> None]
    /\ saves = 0 /\ turns = 0

-----------------------------------------------------------------------------
(* The admin. *)

Asks == saves < KBMaxSaves /\ saves' = saves + 1

\* A key is checked with the provider before it is stored.
CheckNewKey(a, k) ==
    /\ Asks /\ save.at = "idle"
    /\ \A b \in KBAccounts \ {a} : saved[b] # k
    /\ save' = [at |-> "checked", acc |-> a, key |-> k, mint |-> k \in mints,
                money |-> k \in funded]
    /\ UNCHANGED <<kind, active, cred, upstream, worker, held, turns, saved>>

\* A new key's balance is not the old one's.
SetCredential ==
    /\ save.at = "checked"
    /\ cred' = [cred EXCEPT ![save.acc] = Unpolled(save.key, save.mint)]
    /\ saved' = [saved EXCEPT ![save.acc] = save.key]
    /\ save' = IF kind = "deepseek" THEN [save EXCEPT !.at = "stored"] ELSE Idle
    /\ UNCHANGED <<kind, active, upstream, worker, held, saves, turns>>

\* (mutant: a balance brings back the row of its key)
BalanceWithKey(a, k, money) ==
    [cred EXCEPT ![a] = IF @ = None THEN [Unpolled(k, FALSE) EXCEPT !.money = money]
                        ELSE [@ EXCEPT !.of = k, !.money = money]]

\* Balances are updated where there is a row, and no row is made.
Balance(a, k, money) ==
    [cred EXCEPT ![a] = IF @ = None THEN None ELSE [@ EXCEPT !.of = k, !.money = money]]

\* The check of a DeepSeek key told the balance.
SaveBalance ==
    /\ save.at = "stored"
    /\ cred' = Balance(save.acc, save.key, save.money)
    /\ save' = Idle
    /\ UNCHANGED <<kind, active, upstream, worker, held, saves, turns, saved>>

\* A balance that was never read counts as money.
HasBalance(c) == c.of # None => c.money

\* The key is taken out; the account is paused or resumed.
DeleteCredential(a) ==
    /\ Asks /\ cred[a] # None /\ save.at = "idle"
    /\ cred' = [cred EXCEPT ![a] = None] /\ saved' = [saved EXCEPT ![a] = None]
    /\ UNCHANGED <<kind, active, upstream, worker, save, held, turns>>

Toggle(a) ==
    /\ Asks
    /\ active' = IF a \in active THEN active \ {a} ELSE active \cup {a}
    /\ UNCHANGED <<kind, cred, upstream, worker, save, held, turns, saved>>

-----------------------------------------------------------------------------
(* The poller and the button. *)

WorkKeeps == UNCHANGED <<kind, active, upstream, save, held, saves, turns, saved>>
At(w, s) == worker' = [worker EXCEPT ![w] = s]

\* What the provider says of the stored key.  The button finds the kind of an
\* OpenRouter key changed.
Answer(w, a) ==
    LET k == cred[a].key
        flipped == w = "button" /\ kind = "openrouter" /\ (k \in mints) # cred[a].mint
    IN  [at |-> IF flipped THEN "flipped" ELSE "answered", acc |-> a, key |-> k,
         mint |-> k \in mints, money |-> k \in funded]

\* The key is read and the provider answers (when it does not, nothing is written).
AskBalance(w, a) ==
    /\ worker[w].at = "idle" /\ cred[a] # None
    /\ At(w, Answer(w, a))
    /\ WorkKeeps /\ UNCHANGED cred

\* A key of another kind is stored again, as it was read.
StoreKind(w) ==
    /\ worker[w].at = "flipped"
    /\ cred' = [cred EXCEPT ![worker[w].acc] = Unpolled(worker[w].key, worker[w].mint)]
    /\ At(w, [worker[w] EXCEPT !.at = "answered"])
    /\ WorkKeeps

WriteBalance(w) ==
    /\ worker[w].at = "answered"
    /\ cred' = Balance(worker[w].acc, worker[w].key, worker[w].money)
    /\ At(w, Idle)
    /\ WorkKeeps

-----------------------------------------------------------------------------
(* The devices, the provider. *)

\* (mutant: money is not asked for)
UsableUnpaid == {a \in active : cred[a] # None}

Usable == {a \in active : cred[a] # None /\ HasBalance(cred[a])}
Pick == CHOOSE a \in Usable : \A b \in Usable : a <= b

\* The account of the lowest id that has money.
SyncGrant(d) ==
    /\ held' = [held EXCEPT ![d] = IF Usable = {} THEN None ELSE cred[Pick].key]
    /\ UNCHANGED <<kind, active, cred, upstream, worker, save, saves, turns, saved>>

Turn ==
    /\ turns < KBMaxTurns /\ turns' = turns + 1
    /\ \/ /\ \E k \in KBKeys : funded' = IF k \in funded THEN funded \ {k} ELSE funded \cup {k}
          /\ UNCHANGED mints
       \/ /\ kind = "openrouter" /\ UNCHANGED funded
          /\ \E k \in KBKeys : mints' = IF k \in mints THEN mints \ {k} ELSE mints \cup {k}
    /\ UNCHANGED <<kind, active, cred, worker, save, held, saves, saved>>

Next ==
    \/ \E a \in KBAccounts, k \in KBKeys : CheckNewKey(a, k)
    \/ SetCredential \/ SaveBalance
    \/ \E a \in KBAccounts : DeleteCredential(a) \/ Toggle(a)
    \/ \E w \in {"poller", "button"}, a \in KBAccounts : AskBalance(w, a)
    \/ \E w \in {"poller", "button"} : StoreKind(w) \/ WriteBalance(w)
    \/ \E d \in KBDevices : SyncGrant(d)
    \/ Turn

\* Saves end, each round of the poller asks for every account, and devices sync.
Fairness ==
    /\ WF_vars(SetCredential) /\ WF_vars(SaveBalance)
    /\ \A a \in KBAccounts : SF_vars(AskBalance("poller", a))
    /\ \A w \in {"poller", "button"} : WF_vars(StoreKind(w) \/ WriteBalance(w))
    /\ \A d \in KBDevices : WF_vars(SyncGrant(d))

Spec == Init /\ [][Next]_vars
FairSpec == Spec /\ Fairness

-----------------------------------------------------------------------------
(* Properties. *)

Credential == [key : KBKeys, mint : BOOLEAN, of : KBKeys \cup {None}, money : BOOLEAN]
Work == [at : {"idle", "checked", "stored", "answered", "flipped"}, acc : KBAccounts \cup {0},
         key : KBKeys \cup {None}, mint : BOOLEAN, money : BOOLEAN]
TypeOK ==
    /\ kind \in KBProviders /\ active \subseteq KBAccounts
    /\ cred \in [KBAccounts -> Credential \cup {None}]
    /\ funded \subseteq KBKeys /\ mints \subseteq KBKeys
    /\ worker \in [{"poller", "button"} -> Work] /\ save \in Work
    /\ held \in [KBDevices -> KBKeys \cup {None}]
    /\ saved \in [KBAccounts -> KBKeys \cup {None}]

\* Nobody but the admin gives a DeepSeek account a key, or brings back one that was
\* taken out ("the poller must not resurrect a credential row the admin just
\* deleted").
KeyIsTheAdmins ==
    kind = "deepseek" => \A a \in KBAccounts :
        saved[a] = IF cred[a] = None THEN None ELSE cred[a].key

\* The same of either provider.
KeyIsTheAdminsAlways ==
    \A a \in KBAccounts : saved[a] = IF cred[a] = None THEN None ELSE cred[a].key

\* A known balance is of the key ("carrying the old figure over would report someone
\* else's money").
BalanceIsOfKey ==
    \A a \in KBAccounts : cred[a] # None => cred[a].of \in {None, cred[a].key}

\* When saves and balances have come to rest, the known balances are right.
BalanceSettles ==
    <>[](\A a \in KBAccounts : cred[a] # None =>
            cred[a].of # None /\ cred[a].money = (cred[a].key \in funded))

\* A device comes to hold a key with money if an active account has one, and none
\* if none has.
FundedIsServed ==
    LET rich == {a \in active : cred[a] # None /\ cred[a].key \in funded}
    IN  \A d \in KBDevices :
          /\ <>[](rich # {}) => <>[](held[d] \in funded)
          /\ <>[](rich = {}) => <>[](held[d] = None)

\* What holds of every state: a DeepSeek account has the key the admin gave it.
BalancesInv == TypeOK /\ KeyIsTheAdmins

\* Balances come to be right, and devices to have a key with money.
BalancesSettle == BalanceSettles /\ FundedIsServed

=============================================================================
