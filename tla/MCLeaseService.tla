--------------------------- MODULE MCLeaseService ---------------------------
(* Instances of LeaseService for TLC. *)
EXTENDS LeaseService, TLC

CONSTANTS a1, a2, x1, d1, d2, p1, p2, i1, i2

\* Two Claude accounts, one Codex account.
MCProviderOf == a1 :> "claude" @@ a2 :> "claude" @@ x1 :> "codex"
\* Two accounts in one pool.
OnePoolProviderOf == a1 :> "claude" @@ a2 :> "claude"
\* One account.
SoloProviderOf == a1 :> "claude"

\* One agent process on each of two devices.
MCDeviceOf == p1 :> d1 @@ p2 :> d2
\* p1 and p2 share the id of device d1.
PairDeviceOf == p1 :> d1 @@ p2 :> d1

MCIdleReports == {0, IdleThreshold}
NoGrants == {}
Withdrawn == {{"codex"}}
IdSymmetry == Permutations(LeaseIds)
=============================================================================
