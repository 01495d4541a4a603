------------------------------ MODULE MCAccount ------------------------------
(***************************************************************************)
(* Instances for TLC of the two modules about the upkeep of one account of *)
(* the pool: who used it up (UsageAttribution) and how its token is kept   *)
(* alive (TokenRotation).  The vault runs the two side by side and they    *)
(* share nothing but the devices and the clock, which each of them counts  *)
(* in its own way: a behaviour moves one and leaves the other where it     *)
(* began.                                                                  *)
(***************************************************************************)
EXTENDS UsageAttribution, TLC

CONSTANTS Providers, Lifetime, Threshold, Fallback, Floor, Pause, Strikes,
          MaxLogins, MaxOps, MaxTurns, MaxFaults

VARIABLES kind, status, left, has, logins, revoked, org, holder, changed, behind,
          ref, poll, paused, strikes, ops, turns, faults, wanted, clashed, blocked

Row == INSTANCE TokenRotation WITH provider <- kind, lease <- holder

ASSUME TokenAssumption == Row!RotationAssumption

rotation == <<kind, status, left, has, logins, revoked, org, holder, changed, behind,
              ref, poll, paused, strikes, ops, turns, faults, wanted, clashed, blocked>>

AccountInit == Init /\ Row!Init

\* The samples, the leases and the use of the account move.
BillingSpec ==
    AccountInit /\ [][Next /\ UNCHANGED rotation]_<<vars, rotation>>

\* The token, the row and those who write it move.
TokenSpec ==
    AccountInit /\ [][Row!Next /\ UNCHANGED vars]_<<vars, rotation>> /\ Row!Fairness

DeviceSymmetry == Permutations(Devices)

RotationInv == Row!RotationInv
RotationSettles == Row!RotationSettles
=============================================================================
