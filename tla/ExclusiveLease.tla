--------------------------- MODULE ExclusiveLease ---------------------------
(***************************************************************************)
(* What the vault promises its agents about accounts, and nothing of how:  *)
(* an account has one holder at a time, with a deadline.  It goes to a new *)
(* holder when it has none or when the deadline has passed; a deadline     *)
(* that has not passed may be moved ahead for the holder it was granted    *)
(* to; any hold may end.                                                   *)
(***************************************************************************)
EXTENDS Naturals

CONSTANTS Accounts, Devices, None

VARIABLES clock, holder, until

vars == <<clock, holder, until>>

Init ==
    /\ clock \in Nat
    /\ holder = [a \in Accounts |-> None]
    /\ until = [a \in Accounts |-> 0]

Lapsed(a) == until[a] <= clock

Kept(a) == holder'[a] = holder[a] /\ until'[a] = until[a]

Extended(a) ==
    /\ holder[a] # None /\ ~ Lapsed(a)
    /\ holder'[a] = holder[a]
    /\ until'[a] > clock

Granted(a) ==
    /\ holder[a] = None \/ Lapsed(a)
    /\ holder'[a] \in Devices
    /\ until'[a] > clock

Ended(a) == holder'[a] = None /\ until'[a] = 0

\* One step may end several holds: a sweep, a device's leases released at once.
\* At most one account is granted or extended by it.
Serve ==
    /\ clock' = clock
    /\ \A a \in Accounts : Kept(a) \/ Extended(a) \/ Granted(a) \/ Ended(a)
    /\ \A a, b \in Accounts :
         (until'[a] > until[a] /\ until'[b] > until[b]) => a = b

Wait == clock' > clock /\ UNCHANGED <<holder, until>>

Next == Serve \/ Wait

Spec == Init /\ [][Next]_vars
=============================================================================
