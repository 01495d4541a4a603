------------------------- MODULE LeaseServiceProofs -------------------------
(***************************************************************************)
(* For all accounts, devices, agents and clocks: an account has one        *)
(* holder and a device one account of a provider, whatever races; every    *)
(* hold is billed, and an instant to two holds only when one of them was   *)
(* reopened by a renewal that a release overtook; the lease service        *)
(* implements ExclusiveLease, and none of its steps takes an account from  *)
(* a device that uses it, touches another pool, or revives a lapsed lease. *)
(***************************************************************************)
EXTENDS LeaseService, TLAPS

\* The helpers on segments return segments.
LEMMA CloseSegmentsType ==
    ASSUME NEW evs, evs \subseteq Segment, NEW ids, NEW t \in Nat
    PROVE  CloseSegments(evs, ids, t) \subseteq Segment
  BY DEF CloseSegments, Segment

\* Opening the segment of a row adds a segment.
LEMMA EnsureOpenType ==
    ASSUME NEW evs, evs \subseteq Segment, NEW l \in LeaseRow
    PROVE  EnsureOpen(evs, l) \subseteq Segment
  BY DEF EnsureOpen, SegmentFor, Segment, LeaseRow, Open

\* A row with a later deadline and another report of activity is a row.
LEMMA RenewedType ==
    ASSUME NEW l \in LeaseRow, NEW x \in Nat, NEW y \in Nat
    PROVE  [l EXCEPT !.expires = x, !.lastActive = y] \in LeaseRow
  BY DEF LeaseRow

\* Billing lapsed leases up to their deadlines leaves segments.
LEMMA CloseExpiredType ==
    ASSUME TypeOK
    PROVE  CloseExpired \subseteq Segment
<1>1. ASSUME NEW i \in ExpiredIds
      PROVE  ExpiryOf(i) \in Nat
  <2>1. PICK l \in leases : l.id = i
    BY DEF ExpiredIds
  <2>2. (CHOOSE k \in leases : k.id = i) \in leases
    BY <2>1
  <2>. QED
    BY <2>2 DEF ExpiryOf, TypeOK, LeaseRow
<1>2. SUFFICES ASSUME NEW e \in events
               PROVE  (IF e.ended = Open /\ e.lease \in ExpiredIds
                       THEN [e EXCEPT !.ended = ExpiryOf(e.lease)]
                       ELSE e) \in Segment
  BY DEF CloseExpired
<1>3. e \in Segment
  BY DEF TypeOK
<1>4. CASE e.ended = Open /\ e.lease \in ExpiredIds
  <2>1. ExpiryOf(e.lease) \in Nat
    BY <1>1, <1>4
  <2>. QED
    BY <1>3, <1>4, <2>1 DEF Segment
<1>. QED
  BY <1>3, <1>4

-----------------------------------------------------------------------------
\* The initial state is typed: no lease, no request, every device granted all.
LEMMA InitTypeOK == Init => TypeOK
<1>. SUFFICES ASSUME Init PROVE TypeOK
  OBVIOUS
<1>1. now \in IdleThreshold .. (IdleThreshold + MaxNow)
  BY LeaseAssumption DEF Init
<1>2. req \in [Agents -> Request]
  BY DEF Init, Request, NoRequest, Steps,
            PickSteps, AccountSteps, LeaseSteps
<1>3. admin \in AdminRequest
  BY DEF Init, AdminRequest, NoAdmin
<1>. QED
  BY <1>1, <1>2, <1>3 DEF Init, TypeOK

\* An answered request leaves a request; so does one that moves on.
LEMMA AnswerType ==
    ASSUME TypeOK, NEW p \in Agents, Answer(p)
    PROVE  req' \in [Agents -> Request]
  BY DEF TypeOK, Answer, NoRequest, Request, Steps,
         PickSteps, AccountSteps, LeaseSteps

\* A request that moves on still names what its new step works on.
LEMMA GoToType ==
    ASSUME TypeOK, NEW p \in Agents, NEW s, GoTo(p, s),
           \/ s \in PickSteps /\ req[p].step \in PickSteps
           \/ s \in AccountSteps /\ req[p].step \in AccountSteps
           \/ s \in LeaseSteps /\ req[p].step \in LeaseSteps
    PROVE  req' \in [Agents -> Request]
<1>1. [req[p] EXCEPT !.step = s] \in Request
  BY DEF TypeOK, Request, Steps, PickSteps, AccountSteps, LeaseSteps
<1>. QED
  BY <1>1 DEF TypeOK, GoTo

\* The clock never runs behind the idle threshold, so that the time an agent
\* reports as idle can be taken from it.
LEMMA NowType ==
    ASSUME TypeOK
    PROVE  now \in Nat /\ now >= IdleThreshold
  BY LeaseAssumption DEF TypeOK

\* Every step of an agent, of the admin or of the vault keeps the types.
LEMMA StepTypeOK == TypeOK /\ [Next]_vars => TypeOK'
<1>. SUFFICES ASSUME TypeOK, [Next]_vars PROVE TypeOK'
  OBVIOUS
<1>n. now \in Nat /\ now >= IdleThreshold
  BY NowType
<1>t. now + TTL \in Nat
  BY <1>n, LeaseAssumption
<1>1. ASSUME NEW p \in Agents, AgentStep(p)
      PROVE  TypeOK'
  <2>1. ASSUME NEW r \in Request, Start(p, r)
        PROVE  TypeOK'
    BY <2>1 DEF Start, TypeOK, policy, table
  <2>2. CASE \E pr \in Providers : StartPick(p, pr)
    <3>1. PICK pr \in Providers : StartPick(p, pr)
      BY <2>2
    <3>2. [NoRequest EXCEPT !.step = "pickGate", !.provider = pr] \in Request
      BY DEF NoRequest, Request, Steps, PickSteps, AccountSteps, LeaseSteps
    <3>. QED
      BY <2>1, <3>1, <3>2 DEF StartPick
  <2>3. CASE \E a \in Accounts : StartAcquire(p, a)
    <3>1. PICK a \in Accounts : StartAcquire(p, a)
      BY <2>3
    <3>2. [NoRequest EXCEPT !.step = "acquireGate", !.account = a] \in Request
      BY DEF NoRequest, Request, Steps, PickSteps, AccountSteps, LeaseSteps
    <3>. QED
      BY <2>1, <3>1, <3>2 DEF StartAcquire
  <2>o. OwnIds(p) \subseteq LeaseIds
    BY DEF OwnIds, TypeOK, Segment
  <2>4. CASE \E i \in OwnIds(p), t \in IdleReports : StartRenew(p, i, t)
    <3>1. PICK i \in OwnIds(p), t \in IdleReports : StartRenew(p, i, t)
      BY <2>4
    <3>2. [NoRequest EXCEPT !.step = "renew", !.lease = i, !.idle = t] \in Request
      BY <2>o DEF NoRequest, Request, Steps, PickSteps, AccountSteps, LeaseSteps
    <3>. QED
      BY <2>1, <3>1, <3>2 DEF StartRenew
  <2>5. CASE \E i \in OwnIds(p) : StartRelease(p, i)
    <3>1. PICK i \in OwnIds(p) : StartRelease(p, i)
      BY <2>5
    <3>2. [NoRequest EXCEPT !.step = "release", !.lease = i] \in Request
      BY <2>o DEF NoRequest, Request, Steps, PickSteps, AccountSteps, LeaseSteps
    <3>. QED
      BY <2>1, <3>1, <3>2 DEF StartRelease
  <2>6. CASE PickGate(p)
    <3>1. req' \in [Agents -> Request]
      BY <2>6, AnswerType, GoToType DEF PickGate, PickSteps
    <3>. QED
      BY <2>6, <3>1 DEF PickGate, TypeOK, policy, table
  <2>7. CASE PickFirst(p)
    <3>1. req' \in [Agents -> Request]
      BY <2>7, AnswerType, GoToType DEF PickFirst, PickSteps
    <3>. QED
      BY <2>7, <3>1 DEF PickFirst, TypeOK, policy, table
  <2>8. CASE PickSecond(p)
    <3>1. req' \in [Agents -> Request]
      <4>1. CASE Answer(p)
        BY <4>1, AnswerType
      <4>2. ASSUME NEW a \in pool,
                   req' = [req EXCEPT ![p].step = "reclaim", ![p].account = a]
            PROVE  req' \in [Agents -> Request]
        <5>0. req[p] \in Request /\ req[p].step = "pickSecond" /\ a \in Accounts
          BY <2>8 DEF TypeOK, PickSecond
        <5>1. [req[p] EXCEPT !.step = "reclaim", !.account = a] \in Request
          BY <5>0 DEF Request, Steps, PickSteps, AccountSteps, LeaseSteps
        <5>2. req' = [req EXCEPT
                        ![p] = [req[p] EXCEPT !.step = "reclaim", !.account = a]]
          BY <4>2 DEF TypeOK
        <5>. QED
          BY <5>1, <5>2 DEF TypeOK
      <4>. QED
        BY <2>8, <4>1, <4>2 DEF PickSecond
    <3>. QED
      BY <2>8, <3>1 DEF PickSecond, TypeOK, policy, table
  <2>9. CASE Reclaim(p)
    <3>1. req' \in [Agents -> Request]
      BY <2>9, AnswerType DEF Reclaim
    <3>2. events' \subseteq Segment
      BY <2>9, <1>n, CloseSegmentsType DEF Reclaim, TypeOK
    <3>3. leases' \subseteq LeaseRow
      BY <2>9 DEF Reclaim, TypeOK
    <3>. QED
      BY <2>9, <3>1, <3>2, <3>3 DEF Reclaim, TypeOK, policy
  <2>10. CASE AcquireGate(p)
    <3>1. req' \in [Agents -> Request]
      BY <2>10, AnswerType, GoToType DEF AcquireGate, AccountSteps
    <3>. QED
      BY <2>10, <3>1 DEF AcquireGate, TypeOK, policy, table
  <2>11. CASE AcquireLocked(p)
    <3>1. req' \in [Agents -> Request]
      BY <2>11, AnswerType DEF AcquireLocked
    <3>. QED
      BY <2>11, <3>1 DEF AcquireLocked, TypeOK, policy, table
  <2>12. CASE AcquireOwn(p)
    <3>1. req' \in [Agents -> Request]
      BY <2>12, AnswerType DEF AcquireOwn
    <3>2. PICK l \in LiveLeases :
            LET others == OtherOfProvider(LiveLeases, DeviceOf[p], l.account)
                renewed == [l EXCEPT !.expires = now + TTL, !.lastActive = now]
            IN  /\ leases' = (LiveLeases \ (others \cup {l})) \cup {renewed}
                /\ events' = CloseSegments(EnsureOpen(CloseExpired, l),
                                           IdsOf(others), now)
      BY <2>12 DEF AcquireOwn
    <3>3. l \in LeaseRow
      BY DEF TypeOK, LiveLeases
    <3>4. events' \subseteq Segment
      BY <1>n, <3>2, <3>3, CloseExpiredType, EnsureOpenType, CloseSegmentsType
    <3>5. [l EXCEPT !.expires = now + TTL, !.lastActive = now] \in LeaseRow
      BY <1>n, <1>t, <3>3, RenewedType
    <3>6. leases' \subseteq LeaseRow
      BY <3>2, <3>5 DEF TypeOK, LiveLeases
    <3>. QED
      BY <2>12, <3>1, <3>4, <3>6 DEF AcquireOwn, TypeOK, policy
  <2>13. CASE \E i \in LeaseIds : AcquireFree(p, i)
    <3>1. PICK i \in LeaseIds : AcquireFree(p, i)
      BY <2>13
    <3>2. req' \in [Agents -> Request]
      BY <3>1, AnswerType DEF AcquireFree
    <3> DEFINE new == [id |-> i, account |-> req[p].account,
                       device |-> DeviceOf[p], acquired |-> now,
                       expires |-> now + TTL, lastActive |-> now]
    <3>3. new \in LeaseRow
      <4>1. req[p].account \in Accounts
        BY <3>1 DEF AcquireFree, TypeOK, Request, AccountSteps
      <4>. QED
        BY <1>n, <4>1, LeaseAssumption DEF LeaseRow
    <3>4. events' \subseteq Segment
      BY <1>n, <3>1, <3>3, CloseExpiredType, EnsureOpenType, CloseSegmentsType
         DEF AcquireFree
    <3>5. leases' \subseteq LeaseRow
      BY <3>1, <3>3 DEF AcquireFree, TypeOK, LiveLeases
    <3>. QED
      BY <3>1, <3>2, <3>4, <3>5 DEF AcquireFree, TypeOK, policy
  <2>14. CASE RenewUpdate(p)
    <3>1. req' \in [Agents -> Request]
      BY <2>14, AnswerType, GoToType DEF RenewUpdate, LeaseSteps
    <3>2. now - req[p].idle \in Nat
      <4>1. req[p].idle \in 0 .. IdleThreshold
        <5>1. req[p].idle \in IdleReports \cup {0}
          BY DEF TypeOK, Request
        <5>2. CASE req[p].idle = 0
          BY <5>2, LeaseAssumption
        <5>3. CASE req[p].idle \in IdleReports
          BY <5>3, LeaseAssumption
        <5>. QED
          BY <5>1, <5>2, <5>3
      <4>. QED
        BY <1>n, <4>1, LeaseAssumption
    <3>3. ASSUME NEW l \in LeaseRow
          PROVE  [l EXCEPT !.expires = now + TTL,
                           !.lastActive = now - req[p].idle] \in LeaseRow
      BY <1>t, <3>2, RenewedType
    <3>4. leases' \subseteq LeaseRow
      BY <2>14, <3>3 DEF RenewUpdate, TypeOK, LiveLeases
    <3>. QED
      BY <2>14, <3>1, <3>4 DEF RenewUpdate, TypeOK, policy
  <2>15. CASE RenewRead(p)
    <3>1. req' \in [Agents -> Request]
      BY <2>15, AnswerType, GoToType DEF RenewRead, LeaseSteps
    <3>. QED
      BY <2>15, <3>1 DEF RenewRead, TypeOK, policy, table
  <2>16. CASE RenewEvent(p)
    <3>1. req' \in [Agents -> Request]
      BY <2>16, AnswerType DEF RenewEvent
    <3>2. ASSUME NEW e \in Segment
          PROVE  [e EXCEPT !.ended = Open] \in Segment
      BY DEF Segment, Open
    <3>3. events' \subseteq Segment
      BY <2>16, <3>2 DEF RenewEvent, TypeOK
    <3>. QED
      BY <2>16, <3>1, <3>3 DEF RenewEvent, TypeOK, policy
  <2>17. CASE ReleaseLease(p)
    <3>1. req' \in [Agents -> Request]
      BY <2>17, AnswerType DEF ReleaseLease
    <3>2. events' \subseteq Segment
      BY <2>17, <1>n, CloseSegmentsType DEF ReleaseLease, TypeOK
    <3>. QED
      BY <2>17, <3>1, <3>2 DEF ReleaseLease, TypeOK, policy
  <2>18. CASE Abandon(p)
    <3>1. req' \in [Agents -> Request]
      BY <2>18, AnswerType DEF Abandon
    <3>. QED
      BY <2>18, <3>1 DEF Abandon, TypeOK, policy, table
  <2>. QED
    BY <1>1, <2>2, <2>3, <2>4, <2>5, <2>6, <2>7, <2>8, <2>9, <2>10, <2>11,
       <2>12, <2>13, <2>14, <2>15, <2>16, <2>17, <2>18 DEF AgentStep
<1>2. ASSUME AdminStep
      PROVE  TypeOK'
  <2>a. ASSUME NEW d \in Devices, NEW s \in {"idle", "release", "done"}
        PROVE  [step |-> s, device |-> d] \in AdminRequest
    BY DEF AdminRequest
  <2>1. ASSUME NEW d \in Administered, Suspend(d)
        PROVE  TypeOK'
    BY <2>1, <2>a, LeaseAssumption DEF Suspend, TypeOK, table
  <2>2. ASSUME NEW d \in Administered, Resume(d)
        PROVE  TypeOK'
    BY <2>2 DEF Resume, TypeOK, table, NoAdmin, AdminRequest
  <2>3. ASSUME NEW d \in Administered, Revoke(d)
        PROVE  TypeOK'
    BY <2>3 DEF Revoke, TypeOK, table, NoAdmin, AdminRequest
  <2>4. ASSUME NEW d \in Administered, NEW g \in Grants, SetProviders(d, g)
        PROVE  TypeOK'
    <3>1. d \in Devices /\ g \subseteq Providers
      BY LeaseAssumption
    <3>2. allowed' \subseteq Devices \X Providers
      BY <2>4, <3>1 DEF SetProviders, TypeOK
    <3>3. admin' \in AdminRequest
      BY <2>4, <2>a, <3>1 DEF SetProviders
    <3>. QED
      BY <2>4, <3>2, <3>3 DEF SetProviders, TypeOK, table
  <2>5. CASE ReleaseDeviceLeases
    <3>1. events' \subseteq Segment
      BY <2>5, <1>n, CloseSegmentsType DEF ReleaseDeviceLeases, TypeOK
    <3>2. admin' \in AdminRequest
      BY <2>5 DEF ReleaseDeviceLeases, TypeOK, AdminRequest
    <3>. QED
      BY <2>5, <3>1, <3>2 DEF ReleaseDeviceLeases, TypeOK, policy
  <2>. QED
    BY <1>2, <2>1, <2>2, <2>3, <2>4, <2>5 DEF AdminStep
<1>3. ASSUME VaultStep
      PROVE  TypeOK'
  <2>1. CASE SweepLeases
    BY <2>1, CloseExpiredType DEF SweepLeases, TypeOK, policy, LiveLeases
  <2>2. CASE Restart
    <3>1. NoRequest \in Request
      BY DEF NoRequest, Request, Steps, PickSteps, AccountSteps, LeaseSteps
    <3>2. events' \subseteq Segment
      BY <2>2, <1>n, CloseSegmentsType DEF Restart, TypeOK
    <3>. QED
      BY <2>2, <3>1, <3>2 DEF Restart, TypeOK, policy, NoAdmin, AdminRequest
  <2>3. CASE Tick
    BY <2>3, LeaseAssumption DEF Tick, TypeOK, policy, table
  <2>4. ASSUME NEW a \in Unsteady, PoolChange(a)
        PROVE  TypeOK'
    BY <2>4, LeaseAssumption DEF PoolChange, TypeOK, policy, table
  <2>. QED
    BY <1>3, <2>1, <2>2, <2>3, <2>4 DEF VaultStep
<1>4. CASE UNCHANGED vars
  BY <1>4 DEF vars, TypeOK
<1>. QED
  BY <1>1, <1>2, <1>3, <1>4 DEF Next

\* The state keeps its types in every behaviour of the service.
THEOREM TypeCorrect == Spec => []TypeOK
<1>. QED
  BY InitTypeOK, StepTypeOK, PTL DEF Spec

-----------------------------------------------------------------------------
\* Closing the segments of some leases leaves the running segments of every
\* other lease as they were.
LEMMA CloseOthers ==
    ASSUME NEW evs, evs \subseteq Segment, NEW ids, NEW t, NEW i, i \notin ids
    PROVE  OpenOf(CloseSegments(evs, ids, t), i) = OpenOf(evs, i)
<1> DEFINE C(e) == IF e.ended = Open /\ e.lease \in ids
                   THEN [e EXCEPT !.ended = t] ELSE e
<1>1. ASSUME NEW e \in evs
      PROVE  C(e).lease = e.lease /\ (e.lease = i => C(e) = e)
  BY <1>1 DEF Segment
<1>2. CloseSegments(evs, ids, t) = {C(e) : e \in evs}
  BY DEF CloseSegments
<1> HIDE DEF C
<1>. QED
  BY <1>1, <1>2 DEF OpenOf

\* Billing lapsed leases leaves the running segments of live ones alone.
LEMMA CloseExpiredOthers ==
    ASSUME TypeOK, NEW i, i \notin ExpiredIds
    PROVE  OpenOf(CloseExpired, i) = OpenOf(events, i)
<1> DEFINE C(e) == IF e.ended = Open /\ e.lease \in ExpiredIds
                   THEN [e EXCEPT !.ended = ExpiryOf(e.lease)] ELSE e
<1>1. ASSUME NEW e \in events
      PROVE  C(e).lease = e.lease /\ (e.lease = i => C(e) = e)
  BY <1>1 DEF TypeOK, Segment
<1>2. CloseExpired = {C(e) : e \in events}
  BY DEF CloseExpired
<1> HIDE DEF C
<1>. QED
  BY <1>1, <1>2 DEF OpenOf

\* Rows that leave the table disturb nothing about the rows that stay.
LEMMA DropRows ==
    ASSUME LeaseInv, TypeOK', leases' \subseteq leases,
           \A l \in leases' : OpenOf(events', l.id) = OpenOf(events, l.id)
    PROVE  LeaseInv'
<1>1. UniqueIds' /\ OneHolder' /\ OnePerDeviceProvider'
  BY DEF LeaseInv, UniqueIds, OneHolder, OnePerDeviceProvider
<1>2. HeldIsBilled'
  BY DEF LeaseInv, HeldIsBilled, SegmentFor, OpenOf
<1>. QED
  BY <1>1, <1>2 DEF LeaseInv

\* No live lease shares its identifier with a lapsed one.
LEMMA LiveIds ==
    ASSUME LeaseInv, NEW l \in LiveLeases
    PROVE  l.id \notin ExpiredIds
  BY DEF LeaseInv, UniqueIds, ExpiredIds, LiveLeases

\* Every step keeps the inductive invariant: OneHolder alone is not inductive,
\* since a renewal finds its row by identifier, which UniqueIds makes a key,
\* and billing a hold needs the segment to be the one its row stands for.
LEMMA StepLeaseInv == LeaseInv /\ [Next]_vars => LeaseInv'
<1>. SUFFICES ASSUME LeaseInv, [Next]_vars PROVE LeaseInv'
  OBVIOUS
<1>t. TypeOK /\ TypeOK' /\ now \in Nat
  BY StepTypeOK, NowType DEF LeaseInv
<1>u. ASSUME UNCHANGED table
      PROVE  LeaseInv'
  BY <1>t, <1>u, DropRows DEF table
<1>1. ASSUME NEW p \in Agents, Reclaim(p)
      PROVE  LeaseInv'
  <2> DEFINE victims == {l \in LiveLeases : /\ l.account = req[p].account
                                            /\ l.device # DeviceOf[p]
                                            /\ IdleHolder(l)}
  <2>1. leases' = leases \ victims
        /\ events' = CloseSegments(events, IdsOf(victims), now)
    BY <1>1 DEF Reclaim
  <2>2. ASSUME NEW l \in leases \ victims
        PROVE  l.id \notin IdsOf(victims)
    BY DEF IdsOf, LeaseInv, UniqueIds, LiveLeases
  <2> HIDE DEF victims
  <2>3. \A l \in leases' : OpenOf(events', l.id) = OpenOf(events, l.id)
    BY <1>t, <2>1, <2>2, CloseOthers DEF TypeOK
  <2>. QED
    BY <1>t, <2>1, <2>3, DropRows
<1>2. ASSUME NEW p \in Agents, ReleaseLease(p)
      PROVE  LeaseInv'
  <2>1. \A l \in leases' : OpenOf(events', l.id) = OpenOf(events, l.id)
    BY <1>t, <1>2, CloseOthers DEF ReleaseLease, TypeOK
  <2>. QED
    BY <1>t, <1>2, <2>1, DropRows DEF ReleaseLease
<1>3. ASSUME ReleaseDeviceLeases
      PROVE  LeaseInv'
  <2> DEFINE held == {l \in leases : l.device = admin.device}
  <2>1. leases' = leases \ held
        /\ events' = CloseSegments(events, IdsOf(held), now)
    BY <1>3 DEF ReleaseDeviceLeases
  <2>2. ASSUME NEW l \in leases \ held
        PROVE  l.id \notin IdsOf(held)
    BY DEF IdsOf, LeaseInv, UniqueIds
  <2> HIDE DEF held
  <2>3. \A l \in leases' : OpenOf(events', l.id) = OpenOf(events, l.id)
    BY <1>t, <2>1, <2>2, CloseOthers DEF TypeOK
  <2>. QED
    BY <1>t, <2>1, <2>3, DropRows
<1>4. ASSUME SweepLeases
      PROVE  LeaseInv'
  <2>1. \A l \in leases' : OpenOf(events', l.id) = OpenOf(events, l.id)
    BY <1>t, <1>4, LiveIds, CloseExpiredOthers DEF SweepLeases
  <2>. QED
    BY <1>t, <1>4, <2>1, DropRows DEF SweepLeases, LiveLeases
<1>5. ASSUME Restart
      PROVE  LeaseInv'
  <2>1. \A l \in leases' : OpenOf(events', l.id) = OpenOf(events, l.id)
    BY <1>t, <1>5, CloseOthers DEF Restart, TypeOK, IdsOf
  <2>. QED
    BY <1>t, <1>5, <2>1, DropRows DEF Restart
<1>6. ASSUME NEW p \in Agents, RenewEvent(p)
      PROVE  LeaseInv'
  <2>1. CASE OpenOf(events, req[p].lease) # {}
    BY <1>t, <1>6, <2>1, DropRows DEF RenewEvent
  <2>2. CASE OpenOf(events, req[p].lease) = {}
    <3>1. ASSUME NEW l \in leases
          PROVE  l.id # req[p].lease
      BY <2>2 DEF LeaseInv, HeldIsBilled
    <3>2. ASSUME NEW e \in {f \in events : f.lease = req[p].lease}
          PROVE  [e EXCEPT !.ended = Open].lease = req[p].lease
      BY <1>t DEF TypeOK, Segment
    <3>3. \A l \in leases : OpenOf(events', l.id) = OpenOf(events, l.id)
      <4>1. events' = events \cup {[e EXCEPT !.ended = Open] :
                                      e \in {f \in events : f.lease = req[p].lease}}
        BY <1>6, <2>2 DEF RenewEvent
      <4>. QED
        BY <3>1, <3>2, <4>1 DEF OpenOf
    <3>4. leases' = leases
      BY <1>6 DEF RenewEvent
    <3>. QED
      BY <1>t, <3>3, <3>4, DropRows
  <2>. QED
    BY <2>1, <2>2
<1>7. ASSUME NEW p \in Agents, RenewUpdate(p)
      PROVE  LeaseInv'
  <2> DEFINE mine == {l \in LiveLeases : l.id = req[p].lease}
             R(l) == IF l \in mine
                     THEN [l EXCEPT !.expires = now + TTL,
                                    !.lastActive = now - req[p].idle] ELSE l
  <2>1. leases' = {R(l) : l \in leases} /\ events' = events
    BY <1>7 DEF RenewUpdate, LiveLeases
  <2>2. ASSUME NEW l \in leases
        PROVE  /\ R(l).id = l.id /\ R(l).account = l.account
               /\ R(l).device = l.device /\ R(l).acquired = l.acquired
    BY <1>t DEF TypeOK, LeaseRow
  <2> HIDE DEF R
  <2>3. UniqueIds' /\ OneHolder' /\ OnePerDeviceProvider'
    BY <2>1, <2>2 DEF LeaseInv, UniqueIds, OneHolder, OnePerDeviceProvider
  <2>4. HeldIsBilled'
    BY <2>1, <2>2 DEF LeaseInv, HeldIsBilled, SegmentFor, OpenOf
  <2>. QED
    BY <1>t, <2>3, <2>4 DEF LeaseInv
<1>8. ASSUME NEW p \in Agents, AcquireOwn(p)
      PROVE  LeaseInv'
  <2> DEFINE d == DeviceOf[p]
  <2>1. PICK l \in LiveLeases :
          LET others == OtherOfProvider(LiveLeases, d, l.account)
              renewed == [l EXCEPT !.expires = now + TTL, !.lastActive = now]
          IN  /\ l.account = req[p].account
              /\ l.device = d
              /\ leases' = (LiveLeases \ (others \cup {l})) \cup {renewed}
              /\ events' = CloseSegments(EnsureOpen(CloseExpired, l),
                                         IdsOf(others), now)
    BY <1>8 DEF AcquireOwn
  <2> DEFINE others == OtherOfProvider(LiveLeases, d, l.account)
             renewed == [l EXCEPT !.expires = now + TTL, !.lastActive = now]
  <2>2. /\ renewed.id = l.id /\ renewed.account = l.account
        /\ renewed.device = l.device /\ renewed.acquired = l.acquired
    BY <1>t DEF TypeOK, LeaseRow, LiveLeases
  <2>3. l \in leases /\ LiveLeases \subseteq leases
    BY DEF LiveLeases
  <2>4. OpenOf(events, l.id) = {SegmentFor(l)}
    BY <2>3 DEF LeaseInv, HeldIsBilled
  <2>5. EnsureOpen(CloseExpired, l) = CloseExpired
    BY <1>t, <2>4, LiveIds, CloseExpiredOthers DEF EnsureOpen
  <2>6. ASSUME NEW k \in LiveLeases \ others
        PROVE  OpenOf(events', k.id) = {SegmentFor(k)}
    <3>1. k.id \notin IdsOf(others)
      BY <2>3 DEF IdsOf, LeaseInv, UniqueIds, OtherOfProvider
    <3>2. OpenOf(events', k.id) = OpenOf(CloseExpired, k.id)
      BY <1>t, <2>1, <2>5, <3>1, CloseExpiredType, CloseOthers
    <3>3. OpenOf(events', k.id) = OpenOf(events, k.id)
      BY <1>t, <3>2, LiveIds, CloseExpiredOthers
    <3>. QED
      BY <2>3, <3>3 DEF LeaseInv, HeldIsBilled
  <2>7. l \notin others
    BY DEF OtherOfProvider
  <2>8. UniqueIds' /\ OneHolder' /\ OnePerDeviceProvider'
    <3>1. leases' = (LiveLeases \ (others \cup {l})) \cup {renewed}
      BY <2>1
    <3>2. ASSUME NEW k \in LiveLeases \ (others \cup {l})
          PROVE  /\ k.id # l.id /\ k.account # l.account
                 /\ ~ (k.device = l.device
                         /\ ProviderOf[k.account] = ProviderOf[l.account])
      BY <2>3 DEF LeaseInv, UniqueIds, OneHolder, OnePerDeviceProvider
    <3> HIDE DEF renewed, others
    <3>. QED
      BY <2>2, <2>3, <3>1, <3>2
         DEF LeaseInv, UniqueIds, OneHolder, OnePerDeviceProvider
  <2>9. HeldIsBilled'
    <3>1. leases' = (LiveLeases \ (others \cup {l})) \cup {renewed}
      BY <2>1
    <3>2. SegmentFor(renewed) = SegmentFor(l)
      BY <2>2 DEF SegmentFor
    <3>3. ASSUME NEW k \in leases'
          PROVE  OpenOf(events', k.id) = {SegmentFor(k)}
      BY <2>2, <2>6, <2>7, <3>1, <3>2
    <3>. QED
      BY <3>3 DEF HeldIsBilled, OpenOf, SegmentFor
  <2>. QED
    BY <1>t, <2>8, <2>9 DEF LeaseInv
<1>9. ASSUME NEW p \in Agents, NEW i \in LeaseIds, AcquireFree(p, i)
      PROVE  LeaseInv'
  <2> DEFINE a == req[p].account
             d == DeviceOf[p]
             others == OtherOfProvider(LiveLeases, d, a)
             new == [id |-> i, account |-> a, device |-> d, acquired |-> now,
                     expires |-> now + TTL, lastActive |-> now]
  <2>1. /\ i \notin UsedIds
        /\ \A l \in LiveLeases : l.account # a
        /\ leases' = (LiveLeases \ others) \cup {new}
        /\ events' = EnsureOpen(CloseSegments(CloseExpired, IdsOf(others), now),
                                new)
    BY <1>9 DEF AcquireFree, Free
  <2>2. /\ new.id = i /\ new.account = a /\ new.device = d
    OBVIOUS
  <2>3. LiveLeases \subseteq leases
    BY DEF LiveLeases
  <2> DEFINE mid == CloseSegments(CloseExpired, IdsOf(others), now)
  <2>4. ASSUME NEW k \in LiveLeases \ others
        PROVE  OpenOf(mid, k.id) = {SegmentFor(k)}
    <3>1. k.id \notin IdsOf(others)
      BY <2>3 DEF IdsOf, LeaseInv, UniqueIds, OtherOfProvider
    <3>2. OpenOf(mid, k.id) = OpenOf(CloseExpired, k.id)
      BY <1>t, <3>1, CloseExpiredType, CloseOthers
    <3>3. OpenOf(mid, k.id) = OpenOf(events, k.id)
      BY <1>t, <3>2, LiveIds, CloseExpiredOthers
    <3>. QED
      BY <2>3, <3>3 DEF LeaseInv, HeldIsBilled
  <2>5. OpenOf(mid, i) = {}
    <3>1. i \notin IdsOf(others) /\ i \notin ExpiredIds
      BY <2>1 DEF UsedIds, IdsOf, OtherOfProvider, LiveLeases, ExpiredIds
    <3>2. OpenOf(mid, i) = OpenOf(events, i)
      BY <1>t, <3>1, CloseExpiredType, CloseOthers, CloseExpiredOthers
    <3>. QED
      BY <2>1, <3>2 DEF OpenOf, UsedIds
  <2>6. events' = mid \cup {SegmentFor(new)}
    BY <2>1, <2>2, <2>5 DEF EnsureOpen
  <2>7. SegmentFor(new).lease = i /\ SegmentFor(new).ended = Open
    BY <2>2 DEF SegmentFor
  <2>8. ASSUME NEW k \in LiveLeases \ others
        PROVE  k.id # i /\ k.account # a
               /\ ~ (k.device = d /\ ProviderOf[k.account] = ProviderOf[a])
    BY <2>1, <2>3 DEF UsedIds, OtherOfProvider
  <2> HIDE DEF mid, new, others, a, d
  <2>9. HeldIsBilled'
    <3>1. ASSUME NEW k \in leases'
          PROVE  OpenOf(events', k.id) = {SegmentFor(k)}
      <4>1. CASE k = new
        BY <2>2, <2>5, <2>6, <2>7, <4>1 DEF OpenOf
      <4>2. CASE k \in LiveLeases \ others
        BY <2>4, <2>6, <2>7, <2>8, <4>2 DEF OpenOf
      <4>. QED
        BY <2>1, <4>1, <4>2
    <3>. QED
      BY <3>1 DEF HeldIsBilled, OpenOf, SegmentFor
  <2>10. UniqueIds' /\ OneHolder' /\ OnePerDeviceProvider'
    BY <2>1, <2>2, <2>3, <2>8
       DEF LeaseInv, UniqueIds, OneHolder, OnePerDeviceProvider
  <2>. QED
    BY <1>t, <2>9, <2>10 DEF LeaseInv
<1>. QED
  BY <1>u, <1>1, <1>2, <1>3, <1>4, <1>5, <1>6, <1>7, <1>8, <1>9
     DEF Next, AgentStep, AdminStep, VaultStep, Start, StartPick, StartAcquire,
         StartRenew, StartRelease, PickGate, PickFirst, PickSecond, AcquireGate,
         AcquireLocked, RenewRead, Abandon, Suspend, Resume, Revoke,
         SetProviders, Tick, PoolChange, vars, table

\* An empty lease table satisfies the inductive invariant.
LEMMA InitLeaseInv == Init => LeaseInv
  BY InitTypeOK DEF Init, LeaseInv, UniqueIds, OneHolder, OnePerDeviceProvider,
                    HeldIsBilled

\* The inductive invariant holds in every behaviour of the service.
LEMMA LeaseInvHolds == Spec => []LeaseInv
<1>. QED
  BY InitLeaseInv, StepLeaseInv, PTL DEF Spec

\* An account has at most one lease row, whatever requests race.
THEOREM AccountIsExclusive == Spec => []OneHolder
<1>1. LeaseInv => OneHolder
  BY DEF LeaseInv
<1>. QED
  BY <1>1, LeaseInvHolds, PTL

\* A device id holds at most one account of a provider, however many agent
\* processes use the id.
THEOREM DeviceHoldsOnePerProvider == Spec => []OnePerDeviceProvider
<1>1. LeaseInv => OnePerDeviceProvider
  BY DEF LeaseInv
<1>. QED
  BY <1>1, LeaseInvHolds, PTL

\* Every hold has exactly one running segment, its own.
THEOREM EveryHoldIsBilled == Spec => []HeldIsBilled
<1>1. LeaseInv => HeldIsBilled
  BY DEF LeaseInv
<1>. QED
  BY <1>1, LeaseInvHolds, PTL

-----------------------------------------------------------------------------
(* The inductive invariant. *)

\* The segment of a lease that was closed first, or its only one: what the lease
\* was billed before a renewal opened it again.
First(E, e) ==
    \A g \in E : g.lease = e.lease /\ g # e =>
        e.ended # Open /\ (g.ended = Open \/ e.ended <= g.ended)

\* Two segments of an account do not overlap, the earlier one first.
Apart(e, f) ==
    \/ e.ended # Open /\ e.ended <= f.started
    \/ f.ended # Open /\ f.ended <= f.started

\* Segments E, when the leases I have rows, at time t: no segment is of the future;
\* those of a lease are of one hold; a row has one; what has one, running, has a row;
\* and first segments do not overlap.
NotAhead(E, t) == \A e \in E : e.started <= t /\ (e.ended # Open => e.ended <= t)
OneHold(E) ==
    \A e, f \in E : e.lease = f.lease =>
        e.account = f.account /\ e.device = f.device /\ e.started = f.started
OneEach(E, I) == \A e, f \in E : e.lease = f.lease /\ e.lease \in I => e = f
RunningHasRow(E, I) == \A e \in E : First(E, e) /\ e.ended = Open => e.lease \in I
FirstsApart(E) ==
    \A e, f \in E :
        (/\ First(E, e) /\ First(E, f)
         /\ e.account = f.account /\ e.lease # f.lease /\ e.started <= f.started)
            => Apart(e, f)

Billed(E, I, t) ==
    /\ NotAhead(E, t) /\ OneHold(E) /\ OneEach(E, I)
    /\ RunningHasRow(E, I) /\ FirstsApart(E)

\* Zero is no deadline, for it would leave a segment running.
HasDeadline == \A l \in leases : l.expires # Open

BillingInv == LeaseInv /\ HasDeadline /\ Billed(events, IdsOf(leases), now)


-----------------------------------------------------------------------------
(* What a step does to segments. *)

\* The segment g is what becomes of e when the leases X end, no later than t, and a
\* lease that has no row ends at t.
Closed(e, g, X, I, t) ==
    IF e.ended = Open /\ e.lease \in X
    THEN /\ g = [e EXCEPT !.ended = g.ended]
         /\ g.ended # Open /\ g.ended <= t
         /\ e.lease \notin I => g.ended = t
    ELSE g = e

\* Leases end.  A segment that was running in vain takes the same end as the first
\* one, and is then the same, or a later one.
LEMMA LeasesEnd ==
    ASSUME NEW E, NEW F, E \subseteq Segment, F \subseteq Segment,
           NEW t \in Nat, NEW X, NEW I, Billed(E, I, t),
           \A e \in E : \E g \in F : Closed(e, g, X, I, t),
           \A g \in F : \E e \in E : Closed(e, g, X, I, t)
    PROVE  Billed(F, I \ X, t)
<1>1. ASSUME NEW e \in E, NEW g, Closed(e, g, X, I, t)
      PROVE  /\ g.lease = e.lease /\ g.account = e.account /\ g.device = e.device
             /\ g.started = e.started
             /\ e.ended # Open => g = e
             /\ g.ended = Open => g = e
             /\ g.ended = Open => e.lease \notin X
             /\ g.ended # Open /\ e.ended # Open => g.ended = e.ended
  BY <1>1 DEF Closed, Segment
<1>2. NotAhead(F, t)
  <2>1. ASSUME NEW g \in F
        PROVE  g.started <= t /\ (g.ended # Open => g.ended <= t)
    <3>1. PICK e \in E : Closed(e, g, X, I, t)
      OBVIOUS
    <3>2. CASE e.ended = Open /\ e.lease \in X
      BY <1>1, <3>1, <3>2 DEF Closed, Billed, NotAhead
    <3>3. CASE ~ (e.ended = Open /\ e.lease \in X)
      BY <3>1, <3>3 DEF Closed, Billed, NotAhead
    <3> QED BY <3>2, <3>3
  <2> QED BY <2>1 DEF NotAhead
<1>3. OneHold(F)
  <2>1. ASSUME NEW g \in F, NEW h \in F, g.lease = h.lease
        PROVE  g.account = h.account /\ g.device = h.device /\ g.started = h.started
    <3>1. PICK e \in E : Closed(e, g, X, I, t)
      OBVIOUS
    <3>2. PICK f \in E : Closed(f, h, X, I, t)
      OBVIOUS
    <3> QED BY <1>1, <2>1, <3>1, <3>2 DEF Billed, OneHold
  <2> QED BY <2>1 DEF OneHold
<1>4. OneEach(F, I \ X)
  <2>1. ASSUME NEW g \in F, NEW h \in F, g.lease = h.lease, g.lease \in I \ X
        PROVE  g = h
    <3>1. PICK e \in E : Closed(e, g, X, I, t)
      OBVIOUS
    <3>2. PICK f \in E : Closed(f, h, X, I, t)
      OBVIOUS
    <3>3. e.lease = g.lease /\ f.lease = h.lease
      BY <1>1, <3>1, <3>2
    <3>4. e = f
      BY <2>1, <3>3 DEF Billed, OneEach
    <3> QED BY <2>1, <3>1, <3>2, <3>3, <3>4 DEF Closed
  <2> QED BY <2>1 DEF OneEach
\* Two segments with the same end are one.
<1>5. ASSUME NEW g \in F, NEW h \in F, g.lease = h.lease, g.ended = h.ended
      PROVE  g = h
  <2>1. g \in Segment /\ h \in Segment
    OBVIOUS
  <2>2. g.account = h.account /\ g.device = h.device /\ g.started = h.started
    BY <1>3, <1>5 DEF OneHold
  <2> QED BY <1>5, <2>1, <2>2 DEF Segment
\* Where a first segment comes from.
<1>6. ASSUME NEW g \in F, First(F, g)
      PROVE  \E e \in E : /\ First(E, e) /\ Closed(e, g, X, I, t)
  <2>1. PICK e \in E : Closed(e, g, X, I, t)
    OBVIOUS
  <2>2. ASSUME NEW x \in E, x.lease = g.lease, g = x, Closed(x, g, X, I, t)
        PROVE  First(E, x)
    <3>1. ASSUME NEW h \in E, h.lease = x.lease, h # x
          PROVE  x.ended # Open /\ (h.ended = Open \/ x.ended <= h.ended)
      <4>1. PICK k \in F : Closed(h, k, X, I, t)
        OBVIOUS
      <4>2. k.lease = g.lease
        BY <1>1, <2>2, <3>1, <4>1
      <4>3. CASE k = g
        <5>1. h.ended = Open /\ k.ended # Open
          BY <1>1, <2>2, <3>1, <4>1, <4>3
        <5> QED BY <2>2, <4>3, <5>1
      <4>4. CASE k # g
        <5>1. g.ended # Open /\ (k.ended = Open \/ g.ended <= k.ended)
          BY <1>6, <4>2, <4>4 DEF First
        <5>2. CASE h.ended = Open
          BY <2>2, <5>1, <5>2
        <5>3. CASE h.ended # Open
          BY <1>1, <2>2, <4>1, <5>1, <5>3
        <5> QED BY <5>2, <5>3
      <4> QED BY <4>3, <4>4
    <3> QED BY <3>1 DEF First
  <2>3. CASE ~ (e.ended = Open /\ e.lease \in X)
    <3>1. g = e
      BY <2>1, <2>3 DEF Closed
    <3> QED BY <2>1, <2>2, <3>1
  <2>4. CASE e.ended = Open /\ e.lease \in X /\ e.lease \in I
    <3>1. First(E, e)
      BY <2>4 DEF First, Billed, OneEach
    <3> QED BY <2>1, <3>1
  <2>5. CASE e.ended = Open /\ e.lease \in X /\ e.lease \notin I
    <3>1. g.lease = e.lease /\ g.ended = t /\ g.ended # Open
      BY <1>1, <2>1, <2>5 DEF Closed
    <3>2. PICK h \in E : h.lease = e.lease /\ h # e
      BY <2>5 DEF First, Billed, RunningHasRow
    <3>3. h.ended # Open
      <4>1. h \in Segment /\ e \in Segment
        OBVIOUS
      <4>2. h.account = e.account /\ h.device = e.device /\ h.started = e.started
        BY <3>2 DEF Billed, OneHold
      <4> QED BY <2>5, <3>2, <4>1, <4>2 DEF Segment
    <3>4. h \in F /\ Closed(h, h, X, I, t)
      <4>1. PICK k \in F : Closed(h, k, X, I, t)
        OBVIOUS
      <4> QED BY <1>1, <3>3, <4>1
    <3>5. h.ended = t
      <4>1. h.ended <= t /\ h.ended \in Nat
        BY <3>3 DEF Billed, NotAhead, Segment
      <4>2. h = g \/ t <= h.ended
        BY <1>6, <3>1, <3>2, <3>3, <3>4 DEF First
      <4> QED BY <3>1, <4>1, <4>2
    <3>6. h = g
      BY <1>5, <3>1, <3>2, <3>4, <3>5
    <3> QED BY <2>2, <3>1, <3>2, <3>4, <3>6
  <2> QED BY <2>3, <2>4, <2>5
<1>7. RunningHasRow(F, I \ X)
  <2>1. ASSUME NEW g \in F, First(F, g), g.ended = Open
        PROVE  g.lease \in I \ X
    <3>1. PICK e \in E : First(E, e) /\ Closed(e, g, X, I, t)
      BY <1>6, <2>1
    <3>2. g = e /\ e.lease \notin X
      BY <1>1, <2>1, <3>1
    <3> QED BY <2>1, <3>1, <3>2 DEF Billed, RunningHasRow
  <2> QED BY <2>1 DEF RunningHasRow
<1>8. FirstsApart(F)
  <2>1. ASSUME NEW g \in F, NEW h \in F, First(F, g), First(F, h),
               g.account = h.account, g.lease # h.lease, g.started <= h.started
        PROVE  Apart(g, h)
    <3>1. PICK e \in E : First(E, e) /\ Closed(e, g, X, I, t)
      BY <1>6, <2>1
    <3>2. PICK f \in E : First(E, f) /\ Closed(f, h, X, I, t)
      BY <1>6, <2>1
    <3>3. /\ e.account = g.account /\ e.lease = g.lease /\ e.started = g.started
          /\ f.account = h.account /\ f.lease = h.lease /\ f.started = h.started
          /\ (e.ended # Open => g = e) /\ (f.ended # Open => h = f)
      BY <1>1, <3>1, <3>2
    <3>4. Apart(e, f)
      BY <2>1, <3>1, <3>2, <3>3 DEF Billed, FirstsApart
    <3> QED BY <3>3, <3>4 DEF Apart
  <2> QED BY <2>1 DEF FirstsApart
<1> QED BY <1>2, <1>3, <1>4, <1>7, <1>8 DEF Billed

\* The same, of an UPDATE of lease_events that ends the leases X at t.
LEMMA UpdateEnds ==
    ASSUME NEW E, E \subseteq Segment, NEW t \in Nat \ {0}, NEW X, NEW I, Billed(E, I, t)
    PROVE  Billed(CloseSegments(E, X, t), I \ X, t)
<1> DEFINE C(e) == IF e.ended = Open /\ e.lease \in X THEN [e EXCEPT !.ended = t] ELSE e
           F == CloseSegments(E, X, t)
<1>1. F = {C(e) : e \in E} /\ F \subseteq Segment
  BY CloseSegmentsType DEF CloseSegments
<1>2. ASSUME NEW e \in E
      PROVE  Closed(e, C(e), X, I, t)
  <2>1. [e EXCEPT !.ended = t].ended = t
    BY DEF Segment
  <2> QED BY <2>1 DEF Closed, Open
<1> HIDE DEF C, F
<1>3. /\ \A e \in E : \E g \in F : Closed(e, g, X, I, t)
      /\ \A g \in F : \E e \in E : Closed(e, g, X, I, t)
  BY <1>1, <1>2
<1>4. t \in Nat /\ F \subseteq Segment
  BY <1>1
<1>5. Billed(F, I \ X, t)
  BY <1>3, <1>4, LeasesEnd
<1> QED BY <1>5 DEF F

\* The same, of closeExpiredLeaseEventsTx: each lapsed lease ends at its deadline.
LEMMA LapsedEnd ==
    ASSUME BillingInv
    PROVE  Billed(CloseExpired, IdsOf(LiveLeases), now)
<1>t. TypeOK /\ now \in Nat /\ Billed(events, IdsOf(leases), now)
  BY NowType DEF BillingInv, LeaseInv
<1> DEFINE C(e) == IF e.ended = Open /\ e.lease \in ExpiredIds
                   THEN [e EXCEPT !.ended = ExpiryOf(e.lease)] ELSE e
<1>1. CloseExpired = {C(e) : e \in events} /\ CloseExpired \subseteq Segment
  BY <1>t, CloseExpiredType DEF CloseExpired
<1>2. ASSUME NEW i \in ExpiredIds
      PROVE  ExpiryOf(i) # Open /\ ExpiryOf(i) <= now /\ i \in IdsOf(leases)
  <2>1. PICK l \in leases \ LiveLeases : l.id = i
    BY DEF ExpiredIds
  <2>2. \A k \in leases : k.id = i => k = l
    BY <2>1 DEF BillingInv, LeaseInv, UniqueIds
  <2>3. ExpiryOf(i) = l.expires
    BY <2>1, <2>2 DEF ExpiryOf
  <2>4. l.expires # Open /\ l.expires <= now
    BY <1>t, <2>1 DEF BillingInv, HasDeadline, LiveLeases, Live, TypeOK, LeaseRow
  <2> QED BY <2>1, <2>3, <2>4 DEF IdsOf
<1>3. ASSUME NEW e \in events
      PROVE  Closed(e, C(e), ExpiredIds, IdsOf(leases), now)
  <2>1. CASE e.ended = Open /\ e.lease \in ExpiredIds
    <3>1. e.lease \in IdsOf(leases) /\ ExpiryOf(e.lease) # Open /\ ExpiryOf(e.lease) <= now
      BY <1>2, <2>1
    <3>2. C(e) = [e EXCEPT !.ended = ExpiryOf(e.lease)] /\ C(e).ended = ExpiryOf(e.lease)
      BY <1>t, <2>1 DEF TypeOK, Segment
    <3> QED BY <2>1, <3>1, <3>2 DEF Closed
  <2>2. CASE ~ (e.ended = Open /\ e.lease \in ExpiredIds)
    BY <2>2 DEF Closed
  <2> QED BY <2>1, <2>2
<1> HIDE DEF C
<1>4. /\ \A e \in events : \E g \in CloseExpired :
           Closed(e, g, ExpiredIds, IdsOf(leases), now)
      /\ \A g \in CloseExpired : \E e \in events :
           Closed(e, g, ExpiredIds, IdsOf(leases), now)
  BY <1>1, <1>3
<1>5. events \subseteq Segment
  BY <1>t DEF TypeOK
<1>6. Billed(CloseExpired, IdsOf(leases) \ ExpiredIds, now)
  BY <1>t, <1>1, <1>4, <1>5, LeasesEnd
<1>7. IdsOf(leases) \ ExpiredIds = IdsOf(LiveLeases)
  BY LiveIds DEF IdsOf, ExpiredIds, LiveLeases, BillingInv
<1> QED BY <1>6, <1>7

\* A new lease of an account that no row holds: the first segments of the account
\* have ended, and not after the new one starts.
LEMMA LeaseStarts ==
    ASSUME NEW E, E \subseteq Segment, NEW t \in Nat, NEW I, Billed(E, I, t),
           NEW s \in Segment, s.ended = Open, s.started = t,
           \A e \in E : e.lease # s.lease,
           \A e \in E : e.ended = Open /\ e.lease \in I => e.account # s.account
    PROVE  Billed(E \cup {s}, I \cup {s.lease}, t)
<1> DEFINE F == E \cup {s}
<1>1. ASSUME NEW e \in E, First(F, e)
      PROVE  First(E, e) /\ (e.account = s.account => e.ended # Open /\ e.ended <= t)
  <2>1. First(E, e)
    BY <1>1 DEF First
  <2> QED BY <2>1 DEF Billed, RunningHasRow, NotAhead
<1>2. NotAhead(F, t) /\ OneHold(F)
  BY DEF Billed, NotAhead, OneHold, Segment
<1>3. OneEach(F, I \cup {s.lease})
  BY DEF Billed, OneEach
<1>4. RunningHasRow(F, I \cup {s.lease})
  BY <1>1 DEF Billed, RunningHasRow
<1>5. ASSUME NEW e \in F, NEW f \in F, First(F, e), First(F, f),
             e.account = f.account, e.lease # f.lease, e.started <= f.started
      PROVE  Apart(e, f)
  <2>1. CASE e \in E /\ f \in E
    BY <1>1, <1>5, <2>1 DEF Billed, FirstsApart
  <2>2. CASE e \in E /\ f = s
    BY <1>1, <1>5, <2>2 DEF Apart
  <2>3. CASE e = s /\ f \in E
    <3>1. f.ended # Open /\ f.ended <= t /\ t <= f.started
      BY <1>1, <1>5, <2>3
    <3>2. f.ended \in Nat /\ f.started \in Nat
      BY <2>3 DEF Segment
    <3> QED BY <3>1, <3>2 DEF Apart
  <2> QED BY <1>5, <2>1, <2>2, <2>3
<1> QED BY <1>2, <1>3, <1>4, <1>5 DEF Billed, FirstsApart

\* The INSERT of a renewal for a lease that was released meanwhile: its new segment
\* is not a first one.
LEMMA LeaseReopens ==
    ASSUME NEW E, E \subseteq Segment, NEW t \in Nat, NEW I, Billed(E, I, t), NEW i,
           i \notin I, OpenOf(E, i) = {}
    PROVE  Billed(E \cup {[e EXCEPT !.ended = Open] : e \in {f \in E : f.lease = i}}, I, t)
<1> DEFINE again == {[e EXCEPT !.ended = Open] : e \in {f \in E : f.lease = i}}
           F == E \cup again
<1>1. ASSUME NEW g \in again
      PROVE  \E e \in E : /\ e.ended # Open /\ e.lease = i /\ g.lease = i /\ g.ended = Open
                          /\ g.account = e.account /\ g.device = e.device
                          /\ g.started = e.started
  <2>1. PICK e \in E : e.lease = i /\ g = [e EXCEPT !.ended = Open]
    OBVIOUS
  <2>2. e.ended # Open
    BY <2>1 DEF OpenOf
  <2> QED BY <2>1, <2>2 DEF Segment
<1> HIDE DEF again
<1>2. ASSUME NEW g \in F
      PROVE  \E e \in E : /\ g.lease = e.lease /\ g.account = e.account
                          /\ g.device = e.device /\ g.started = e.started
  BY <1>1
<1>3. NotAhead(F, t)
  BY <1>1 DEF Billed, NotAhead
<1>4. OneHold(F)
  <2>1. ASSUME NEW g \in F, NEW h \in F, g.lease = h.lease
        PROVE  g.account = h.account /\ g.device = h.device /\ g.started = h.started
    BY <1>2, <2>1 DEF Billed, OneHold
  <2> QED BY <2>1 DEF OneHold
<1>5. OneEach(F, I)
  BY <1>1 DEF Billed, OneEach
<1>6. ASSUME NEW g \in F, First(F, g)
      PROVE  g \in E /\ First(E, g)
  <2>1. g \notin again
    BY <1>1, <1>6 DEF First
  <2> QED BY <1>6, <2>1 DEF First
<1>7. RunningHasRow(F, I) /\ FirstsApart(F)
  BY <1>6 DEF Billed, RunningHasRow, FirstsApart
<1>8. Billed(F, I, t)
  BY <1>3, <1>4, <1>5, <1>7 DEF Billed
<1> QED BY <1>8 DEF again

-----------------------------------------------------------------------------
(* The steps. *)

\* Rows go or stay, with the segments of those that go ended by one UPDATE.
LEMMA RowsGo ==
    ASSUME BillingInv, LeaseInv', now' = now, NEW X, leases' \subseteq leases,
           IdsOf(leases') = IdsOf(leases) \ X,
           events' = CloseSegments(events, X, now)
    PROVE  BillingInv'
<1>1. events \subseteq Segment /\ now \in Nat \ {0} /\ Billed(events, IdsOf(leases), now)
  BY NowType, LeaseAssumption DEF BillingInv, LeaseInv, TypeOK
<1>2. Billed(events', IdsOf(leases'), now)
  BY <1>1, UpdateEnds
<1>3. HasDeadline'
  BY DEF BillingInv, HasDeadline
<1> QED BY <1>2, <1>3 DEF BillingInv

\* What a step that leaves the identifiers and the segments alone keeps.
LEMMA RowsStay ==
    ASSUME BillingInv, LeaseInv', now' = now, events' = events,
           IdsOf(leases') = IdsOf(leases), HasDeadline'
    PROVE  BillingInv'
BY DEF BillingInv

\* Every step keeps the invariant.
LEMMA StepBillingInv == BillingInv /\ [Next]_vars => BillingInv'
<1>. SUFFICES ASSUME BillingInv, [Next]_vars PROVE BillingInv'
  OBVIOUS
<1>t. /\ TypeOK /\ LeaseInv /\ LeaseInv' /\ now \in Nat \ {0} /\ TTL \in Nat \ {0}
      /\ Billed(events, IdsOf(leases), now)
  BY StepLeaseInv, NowType, LeaseAssumption DEF BillingInv, LeaseInv, TypeOK
<1>i. \A l \in LiveLeases : l \in leases
  BY DEF LiveLeases
\* A later deadline is one.
<1>d. \A l \in leases : \A y :
        /\ [l EXCEPT !.expires = now + TTL, !.lastActive = y].expires # Open
        /\ [l EXCEPT !.expires = now + TTL, !.lastActive = y].id = l.id
        /\ [l EXCEPT !.expires = now + TTL, !.lastActive = y].account = l.account
  BY <1>t DEF TypeOK, LeaseRow, Open
\* Rows, all with their own identifiers.
<1>k. ASSUME NEW S \in SUBSET leases, NEW V \in SUBSET S
      PROVE  IdsOf(S \ V) = IdsOf(S) \ IdsOf(V)
  BY <1>t DEF IdsOf, LeaseInv, UniqueIds
<1>u. ASSUME UNCHANGED <<now, table>>
      PROVE  BillingInv'
  <2>1. HasDeadline'
    BY <1>u DEF table, BillingInv, HasDeadline
  <2> QED BY <1>t, <1>u, <2>1, RowsStay DEF table
<1>1. ASSUME NEW p \in Agents, Reclaim(p)
      PROVE  BillingInv'
  <2> DEFINE victims == {l \in LiveLeases : /\ l.account = req[p].account
                                            /\ l.device # DeviceOf[p]
                                            /\ IdleHolder(l)}
  <2>1. /\ leases' = leases \ victims /\ now' = now
        /\ events' = CloseSegments(events, IdsOf(victims), now)
    BY <1>1 DEF Reclaim
  <2>2. victims \subseteq leases
    BY <1>i
  <2> HIDE DEF victims
  <2>3. IdsOf(leases') = IdsOf(leases) \ IdsOf(victims)
    BY <1>k, <2>1, <2>2
  <2> QED BY <1>t, <2>1, <2>3, RowsGo
<1>2. ASSUME NEW p \in Agents, ReleaseLease(p)
      PROVE  BillingInv'
  <2>1. IdsOf(leases') = IdsOf(leases) \ {req[p].lease} /\ leases' \subseteq leases
    BY <1>2 DEF ReleaseLease, IdsOf
  <2> QED BY <1>t, <1>2, <2>1, RowsGo DEF ReleaseLease
<1>3. ASSUME ReleaseDeviceLeases
      PROVE  BillingInv'
  <2> DEFINE held == {l \in leases : l.device = admin.device}
  <2>1. /\ leases' = leases \ held /\ now' = now /\ held \subseteq leases
        /\ events' = CloseSegments(events, IdsOf(held), now)
    BY <1>3 DEF ReleaseDeviceLeases
  <2> HIDE DEF held
  <2>2. IdsOf(leases') = IdsOf(leases) \ IdsOf(held)
    BY <1>k, <2>1
  <2> QED BY <1>t, <2>1, <2>2, RowsGo
<1>4. ASSUME SweepLeases
      PROVE  BillingInv'
  <2>1. Billed(events', IdsOf(leases'), now')
    BY <1>4, LapsedEnd DEF SweepLeases
  <2>2. HasDeadline'
    BY <1>4, <1>i DEF SweepLeases, BillingInv, HasDeadline
  <2> QED BY <1>t, <2>1, <2>2 DEF BillingInv
<1>5. ASSUME Restart
      PROVE  BillingInv'
  <2> DEFINE X == {e.lease : e \in events} \ IdsOf(leases)
  <2>1. IdsOf(leases') = IdsOf(leases) \ X /\ leases' \subseteq leases
    BY <1>5 DEF Restart, IdsOf
  <2> QED BY <1>t, <1>5, <2>1, RowsGo DEF Restart
<1>6. ASSUME NEW p \in Agents, RenewEvent(p)
      PROVE  BillingInv'
  <2>1. CASE OpenOf(events, req[p].lease) # {}
    BY <1>u, <1>6, <2>1 DEF RenewEvent, table
  <2>2. CASE OpenOf(events, req[p].lease) = {}
    <3>1. req[p].lease \notin IdsOf(leases)
      BY <1>t, <2>2 DEF LeaseInv, HeldIsBilled, IdsOf
    <3>2. Billed(events', IdsOf(leases), now)
      BY <1>t, <1>6, <2>2, <3>1, LeaseReopens DEF RenewEvent, TypeOK
    <3>3. leases' = leases /\ now' = now /\ HasDeadline'
      BY <1>6 DEF RenewEvent, BillingInv, HasDeadline
    <3> QED BY <1>t, <3>2, <3>3 DEF BillingInv
  <2> QED BY <2>1, <2>2
<1>7. ASSUME NEW p \in Agents, RenewUpdate(p)
      PROVE  BillingInv'
  <2> DEFINE R(l) == IF l \in LiveLeases /\ l.id = req[p].lease
                     THEN [l EXCEPT !.expires = now + TTL,
                                    !.lastActive = now - req[p].idle] ELSE l
  <2>1. leases' = {R(l) : l \in leases} /\ events' = events /\ now' = now
    BY <1>7, <1>i DEF RenewUpdate
  <2>2. ASSUME NEW l \in leases
        PROVE  R(l).id = l.id /\ R(l).expires # Open
    BY <1>d DEF BillingInv, HasDeadline
  <2> HIDE DEF R
  <2>3. IdsOf(leases') = IdsOf(leases) /\ HasDeadline'
    BY <2>1, <2>2 DEF IdsOf, HasDeadline
  <2> QED BY <1>t, <2>1, <2>3, RowsStay
<1>8. ASSUME NEW p \in Agents, AcquireOwn(p)
      PROVE  BillingInv'
  <2> DEFINE d == DeviceOf[p]
  <2>1. PICK l \in LiveLeases :
          LET others == OtherOfProvider(LiveLeases, d, l.account)
              renewed == [l EXCEPT !.expires = now + TTL, !.lastActive = now]
          IN  /\ leases' = (LiveLeases \ (others \cup {l})) \cup {renewed}
              /\ events' = CloseSegments(EnsureOpen(CloseExpired, l), IdsOf(others), now)
    BY <1>8 DEF AcquireOwn
  <2> DEFINE others == OtherOfProvider(LiveLeases, d, l.account)
             renewed == [l EXCEPT !.expires = now + TTL, !.lastActive = now]
  <2>2. /\ leases' = (LiveLeases \ (others \cup {l})) \cup {renewed}
        /\ events' = CloseSegments(EnsureOpen(CloseExpired, l), IdsOf(others), now)
        /\ now' = now
    BY <1>8, <2>1 DEF AcquireOwn
  <2>3. renewed.id = l.id /\ renewed.expires # Open
    BY <1>d, <1>i
  <2>4. others \subseteq LiveLeases /\ l \notin others
    BY DEF OtherOfProvider
  <2>5. EnsureOpen(CloseExpired, l) = CloseExpired
    <3>1. OpenOf(events, l.id) = {SegmentFor(l)}
      BY <1>t, <1>i DEF LeaseInv, HeldIsBilled
    <3> QED BY <1>t, <3>1, LiveIds, CloseExpiredOthers DEF EnsureOpen
  <2> HIDE DEF renewed, others
  <2>6. IdsOf(leases') = IdsOf(LiveLeases) \ IdsOf(others)
    <3>1. IdsOf(LiveLeases \ others) = IdsOf(LiveLeases) \ IdsOf(others)
      BY <1>i, <1>k, <2>4
    <3>2. IdsOf(leases') = IdsOf(LiveLeases \ others)
      BY <2>2, <2>3, <2>4 DEF IdsOf
    <3> QED BY <3>1, <3>2
  <2>7. Billed(events', IdsOf(leases'), now)
    <3>1. Billed(CloseExpired, IdsOf(LiveLeases), now) /\ CloseExpired \subseteq Segment
      BY <1>t, LapsedEnd, CloseExpiredType
    <3>2. Billed(CloseSegments(CloseExpired, IdsOf(others), now),
                 IdsOf(LiveLeases) \ IdsOf(others), now)
      BY <1>t, <3>1, UpdateEnds
    <3> QED BY <2>2, <2>5, <2>6, <3>2
  <2>8. HasDeadline'
    BY <1>i, <2>2, <2>3 DEF BillingInv, HasDeadline
  <2> QED BY <1>t, <2>2, <2>7, <2>8 DEF BillingInv
<1>9. ASSUME NEW p \in Agents, NEW i \in LeaseIds, AcquireFree(p, i)
      PROVE  BillingInv'
  <2> DEFINE a == req[p].account
             others == OtherOfProvider(LiveLeases, DeviceOf[p], a)
             new == [id |-> i, account |-> a, device |-> DeviceOf[p], acquired |-> now,
                     expires |-> now + TTL, lastActive |-> now]
             mid == CloseSegments(CloseExpired, IdsOf(others), now)
             s == SegmentFor(new)
  <2>1. /\ i \notin UsedIds /\ \A l \in LiveLeases : l.account # a
        /\ leases' = (LiveLeases \ others) \cup {new}
        /\ events' = EnsureOpen(mid, new) /\ now' = now
    BY <1>9 DEF AcquireFree, Free
  <2>2. /\ new.id = i /\ new.expires # Open /\ others \subseteq LiveLeases
        /\ s.lease = i /\ s.account = a /\ s.started = now /\ s.ended = Open
    BY <1>t DEF OtherOfProvider, SegmentFor, Open
  <2>3. s \in Segment
    <3>1. a \in Accounts
      BY <1>t, <1>9 DEF AcquireFree, TypeOK, Request, AccountSteps
    <3>2. DeviceOf[p] \in Devices
      BY LeaseAssumption
    <3> QED BY <1>t, <3>1, <3>2 DEF SegmentFor, Segment, Open
  <2>4. mid \subseteq Segment /\ CloseExpired \subseteq Segment
    BY <1>t, CloseExpiredType, CloseSegmentsType
  <2> HIDE DEF new, others
  <2>5. Billed(mid, IdsOf(LiveLeases \ others), now)
    <3>1. IdsOf(LiveLeases \ others) = IdsOf(LiveLeases) \ IdsOf(others)
      BY <1>i, <1>k, <2>2
    <3>2. Billed(CloseExpired, IdsOf(LiveLeases), now)
      BY LapsedEnd
    <3>3. Billed(mid, IdsOf(LiveLeases) \ IdsOf(others), now)
      BY <1>t, <2>4, <3>2, UpdateEnds
    <3> QED BY <3>1, <3>3
  \* What is left running was running.
  <2>6. ASSUME NEW g \in mid
        PROVE  \E e \in events : g.lease = e.lease /\ (g.ended = Open => g = e)
    <3>1. PICK e \in CloseExpired : /\ g.lease = e.lease /\ (g.ended = Open => g = e)
      BY <1>t, <2>4 DEF CloseSegments, Segment, Open
    <3>2. PICK f \in events : /\ e.lease = f.lease /\ (e.ended = Open => e = f)
      <4>1. PICK f \in events :
              e = IF f.ended = Open /\ f.lease \in ExpiredIds
                  THEN [f EXCEPT !.ended = ExpiryOf(f.lease)] ELSE f
        BY DEF CloseExpired
      <4>2. CASE f.ended = Open /\ f.lease \in ExpiredIds
        <5>1. f \in Segment
          BY <1>t DEF TypeOK
        <5>2. [f EXCEPT !.ended = Open] = f
          BY <4>2, <5>1 DEF Segment
        <5> QED BY <4>1, <4>2, <5>1, <5>2 DEF Segment
      <4> QED BY <4>1, <4>2
    <3> QED BY <3>1, <3>2
  <2>7. ASSUME NEW g \in mid
        PROVE  g.lease # s.lease
    BY <2>1, <2>2, <2>6 DEF UsedIds
  <2>8. ASSUME NEW g \in mid, g.ended = Open, g.lease \in IdsOf(LiveLeases \ others)
        PROVE  g.account # s.account
    <3>1. PICK l \in LiveLeases : l.id = g.lease
      BY <2>8 DEF IdsOf
    <3>2. g \in OpenOf(events, l.id)
      BY <2>6, <2>8, <3>1 DEF OpenOf
    <3>3. g.account = l.account
      BY <1>t, <1>i, <3>2 DEF LeaseInv, HeldIsBilled, SegmentFor
    <3> QED BY <2>1, <2>2, <3>3
  <2> HIDE DEF mid, s
  <2>9. events' = mid \cup {s}
    <3>1. OpenOf(mid, new.id) = {}
      BY <2>2, <2>7 DEF OpenOf
    <3> QED BY <2>1, <3>1 DEF EnsureOpen, s
  <2>10. IdsOf(leases') = IdsOf(LiveLeases \ others) \cup {s.lease}
    BY <2>1, <2>2 DEF IdsOf
  <2>11. Billed(events', IdsOf(leases'), now)
    <3>1. Billed(mid \cup {s}, IdsOf(LiveLeases \ others) \cup {s.lease}, now)
      BY <1>t, <2>2, <2>3, <2>4, <2>5, <2>7, <2>8, LeaseStarts
    <3> QED BY <2>9, <2>10, <3>1
  <2>12. HasDeadline'
    BY <1>i, <2>1, <2>2 DEF BillingInv, HasDeadline
  <2> QED BY <1>t, <2>1, <2>11, <2>12 DEF BillingInv
<1>10. ASSUME Tick
       PROVE  BillingInv'
  <2>1. now' = now + 1 /\ UNCHANGED table
    BY <1>10 DEF Tick, table
  <2>2. NotAhead(events, now + 1)
    <3>1. \A e \in events : e.started \in Nat /\ e.ended \in Nat
      BY <1>t DEF TypeOK, Segment
    <3> QED BY <1>t, <3>1 DEF Billed, NotAhead
  <2>3. Billed(events, IdsOf(leases), now + 1)
    BY <1>t, <2>2 DEF Billed
  <2>4. HasDeadline'
    BY <2>1 DEF table, BillingInv, HasDeadline
  <2> QED BY <1>t, <2>1, <2>3, <2>4 DEF BillingInv, table
<1>. QED
  BY <1>u, <1>1, <1>2, <1>3, <1>4, <1>5, <1>6, <1>7, <1>8, <1>9, <1>10
     DEF Next, AgentStep, AdminStep, VaultStep, Start, StartPick, StartAcquire,
         StartRenew, StartRelease, PickGate, PickFirst, PickSecond, AcquireGate,
         AcquireLocked, RenewRead, Abandon, Suspend, Resume, Revoke,
         SetProviders, PoolChange, vars, table

\* It holds at first, when there are no segments.
LEMMA InitBillingInv == Init => BillingInv
BY InitLeaseInv DEF Init, BillingInv, HasDeadline, Billed, NotAhead, OneHold, OneEach,
                    RunningHasRow, FirstsApart

-----------------------------------------------------------------------------
(* Theorems. *)

\* An account is billed to two leases at once only after a renewal inserted a
\* segment for a lease whose row a release had deleted (RenewLease, ReleaseLease).
THEOREM BilledOnce == Spec => []DoubleBillingOnlyByRenewal
<1>1. Init => BillingInv
  BY InitBillingInv
<1>2. ASSUME BillingInv PROVE DoubleBillingOnlyByRenewal
  <2>1. SUFFICES ASSUME NEW e \in events, NEW f \in events,
                        e.account = f.account, e.lease # f.lease, e.started <= f.started,
                        f.started < EndOf(e), f.started < EndOf(f),
                        ~ \E g \in events : g.lease \in {e.lease, f.lease} /\ g \notin {e, f}
                 PROVE  FALSE
    BY DEF DoubleBillingOnlyByRenewal
  <2>2. First(events, e) /\ First(events, f)
    BY <2>1 DEF First
  <2>3. Apart(e, f)
    BY <1>2, <2>1, <2>2 DEF BillingInv, Billed, FirstsApart
  <2>4. e.ended \in Nat /\ f.ended \in Nat /\ f.started \in Nat
    BY <1>2 DEF BillingInv, LeaseInv, TypeOK, Segment
  <2> QED BY <2>1, <2>3, <2>4 DEF Apart, EndOf
<1>. QED
  BY <1>1, <1>2, StepBillingInv, PTL DEF Spec

-----------------------------------------------------------------------------
(* What a step does to rows. *)

\* A row that was not there has a deadline ahead, and is the only such row.  It is a
\* live row of its device with a later deadline, or a new one for an account that
\* nobody held.
Renews(k) ==
    \E l \in LiveLeases : l.id = k.id /\ l.account = k.account /\ l.device = k.device
Begins(k) == k.id \notin UsedIds /\ Free(k.account)

RowsServed ==
    /\ now' = now
    /\ \A k \in leases' \ leases : k.expires > now /\ (Renews(k) \/ Begins(k))
    /\ \A k, m \in leases' \ leases : k = m

\* Rows are only added by a renewal or an acquisition, one at a time.
LEMMA StepServes ==
    ASSUME LeaseInv, [Next]_vars, ~ Tick
    PROVE  RowsServed
<1>t. TypeOK /\ now \in Nat /\ TTL \in Nat \ {0}
  BY NowType, LeaseAssumption DEF LeaseInv
<1>i. \A l \in LiveLeases : l \in leases
  BY DEF LiveLeases
<1>u. ASSUME now' = now, leases' \subseteq leases
      PROVE  RowsServed
  BY <1>u DEF RowsServed
<1>d. \A l \in leases : \A y :
        LET k == [l EXCEPT !.expires = now + TTL, !.lastActive = y]
        IN  k.expires > now /\ k.id = l.id /\ k.account = l.account /\ k.device = l.device
  BY <1>t DEF TypeOK, LeaseRow
<1>1. ASSUME NEW p \in Agents, RenewUpdate(p)
      PROVE  RowsServed
  <2> DEFINE mine == {l \in LiveLeases : l.id = req[p].lease}
             R(l) == [l EXCEPT !.expires = now + TTL, !.lastActive = now - req[p].idle]
  <2>1. leases' = (leases \ mine) \cup {R(l) : l \in mine} /\ now' = now
    BY <1>1 DEF RenewUpdate
  <2>2. \A l, k \in mine : l = k
    BY <1>i DEF LeaseInv, UniqueIds
  <2>3. ASSUME NEW k \in leases' \ leases
        PROVE  \E l \in mine : k = R(l)
    BY <2>1
  <2>4. ASSUME NEW l \in mine
        PROVE  R(l).expires > now /\ Renews(R(l))
    BY <1>d, <1>i DEF Renews
  <2> HIDE DEF mine, R
  <2> QED BY <2>1, <2>2, <2>3, <2>4 DEF RowsServed
<1>2. ASSUME NEW p \in Agents, AcquireOwn(p)
      PROVE  RowsServed
  <2>1. PICK l \in LiveLeases :
          leases' = (LiveLeases \ (OtherOfProvider(LiveLeases, DeviceOf[p], l.account)
                                     \cup {l}))
                    \cup {[l EXCEPT !.expires = now + TTL, !.lastActive = now]}
    BY <1>2 DEF AcquireOwn
  <2> DEFINE r == [l EXCEPT !.expires = now + TTL, !.lastActive = now]
  <2>2. r.expires > now /\ Renews(r)
    BY <1>d, <1>i DEF Renews
  <2>3. now' = now /\ \A k \in leases' \ leases : k = r
    BY <1>2, <1>i, <2>1 DEF AcquireOwn
  <2> HIDE DEF r
  <2> QED BY <2>2, <2>3 DEF RowsServed
<1>3. ASSUME NEW p \in Agents, NEW i \in LeaseIds, AcquireFree(p, i)
      PROVE  RowsServed
  <2> DEFINE r == [id |-> i, account |-> req[p].account, device |-> DeviceOf[p],
                   acquired |-> now, expires |-> now + TTL, lastActive |-> now]
  <2>1. r.expires > now /\ Begins(r)
    BY <1>t, <1>3 DEF AcquireFree, Begins
  <2>2. now' = now /\ \A k \in leases' \ leases : k = r
    BY <1>3, <1>i DEF AcquireFree
  <2> HIDE DEF r
  <2> QED BY <2>1, <2>2 DEF RowsServed
<1>4. ASSUME NEW p \in Agents, Reclaim(p) \/ ReleaseLease(p) \/ RenewEvent(p)
      PROVE  RowsServed
  BY <1>4, <1>u DEF Reclaim, ReleaseLease, RenewEvent
<1>5. ASSUME ReleaseDeviceLeases \/ SweepLeases \/ Restart
      PROVE  RowsServed
  BY <1>5, <1>u, <1>i DEF ReleaseDeviceLeases, SweepLeases, Restart
<1>. QED
  BY <1>u, <1>1, <1>2, <1>3, <1>4, <1>5
     DEF Next, AgentStep, AdminStep, VaultStep, Start, StartPick, StartAcquire,
         StartRenew, StartRelease, PickGate, PickFirst, PickSecond, AcquireGate,
         AcquireLocked, RenewRead, Abandon, Suspend, Resume, Revoke,
         SetProviders, PoolChange, vars, table

-----------------------------------------------------------------------------
(* The contract. *)

\* An account's row is the one that is found.
LEMMA RowFound ==
    ASSUME NEW S, \A l, k \in S : l.account = k.account => l = k, NEW r \in S
    PROVE  (CHOOSE l \in S : l.account = r.account) = r
<1>1. \A l \in S : l.account = r.account => l = r
  OBVIOUS
<1> QED BY <1>1

\* What the contract sees of the rows.
Holder == [a \in Accounts |-> IF IsHeld(a) THEN RowOf(a).device ELSE None]
Until == [a \in Accounts |-> IF IsHeld(a) THEN RowOf(a).expires ELSE 0]

\* It sees an account without a row, or with one.
LEMMA Seen ==
    ASSUME LeaseInv
    PROVE  /\ \A l \in leases : Holder[l.account] = l.device /\ Until[l.account] = l.expires
           /\ \A a \in Accounts :
                \/ Holder[a] = None /\ Until[a] = 0 /\ \A l \in leases : l.account # a
                \/ \E l \in leases : l.account = a
<1>1. ASSUME NEW l \in leases
      PROVE  Holder[l.account] = l.device /\ Until[l.account] = l.expires
  <2>1. RowOf(l.account) = l
    BY RowFound DEF LeaseInv, OneHolder, RowOf
  <2>2. IsHeld(l.account) /\ l.account \in Accounts
    BY DEF IsHeld, LeaseInv, TypeOK, LeaseRow
  <2> QED BY <2>1, <2>2 DEF Holder, Until
<1>2. ASSUME NEW a \in Accounts, ~ \E l \in leases : l.account = a
      PROVE  Holder[a] = None /\ Until[a] = 0
  BY <1>2 DEF Holder, Until, IsHeld
<1> QED BY <1>1, <1>2

\* The same, of the next state.
LEMMA SeenNext ==
    ASSUME LeaseInv'
    PROVE  /\ \A l \in leases' : Holder'[l.account] = l.device /\ Until'[l.account] = l.expires
           /\ \A a \in Accounts :
                \/ Holder'[a] = None /\ Until'[a] = 0 /\ \A l \in leases' : l.account # a
                \/ \E l \in leases' : l.account = a
<1>1. ASSUME NEW l \in leases'
      PROVE  Holder'[l.account] = l.device /\ Until'[l.account] = l.expires
  <2>1. RowOf(l.account)' = l
    BY RowFound DEF LeaseInv, OneHolder, RowOf
  <2>2. IsHeld(l.account)' /\ l.account \in Accounts
    BY DEF IsHeld, LeaseInv, TypeOK, LeaseRow
  <2> QED BY <2>1, <2>2 DEF Holder, Until
<1>2. ASSUME NEW a \in Accounts, ~ \E l \in leases' : l.account = a
      PROVE  Holder'[a] = None /\ Until'[a] = 0
  BY <1>2 DEF Holder, Until, IsHeld
<1> QED BY <1>1, <1>2

\* A step on rows is a step of the contract.
LEMMA ServedIsServe ==
    ASSUME LeaseInv, LeaseInv', RowsServed
    PROVE  Contract!Serve
<1>t. /\ now \in Nat /\ leases \subseteq LeaseRow /\ leases' \subseteq LeaseRow
      /\ None \notin Devices
  BY NowType, LeaseAssumption DEF LeaseInv, TypeOK
<1> DEFINE A(a) ==
             \/ Holder'[a] = Holder[a] /\ Until'[a] = Until[a]
             \/ /\ Holder[a] # None /\ ~ Until[a] <= now
                /\ Holder'[a] = Holder[a] /\ Until'[a] > now
             \/ /\ Holder[a] = None \/ Until[a] <= now
                /\ Holder'[a] \in Devices /\ Until'[a] > now
             \/ Holder'[a] = None /\ Until'[a] = 0
<1>1. ASSUME NEW a \in Accounts, ~ A(a) \/ Until'[a] > Until[a]
      PROVE  \E k \in leases' \ leases : k.account = a
  <2>1. \E k \in leases' : k.account = a
    <3>1. CASE \A k \in leases' : k.account # a
      <4>1. A(a) /\ Until'[a] = 0
        BY <3>1, SeenNext
      <4>2. Until[a] \in Nat
        BY <1>t, Seen DEF LeaseRow
      <4> QED BY <1>1, <4>1, <4>2
    <3> QED BY <3>1
  <2>2. PICK k \in leases' : k.account = a
    BY <2>1
  <2>3. CASE k \in leases
    <3>1. Until'[a] = Until[a] /\ Holder'[a] = Holder[a]
      BY <2>2, <2>3, Seen, SeenNext
    <3>2. Until[a] \in Nat
      BY <1>t, Seen DEF LeaseRow
    <3> QED BY <1>1, <3>1, <3>2
  <2> QED BY <2>2, <2>3
<1>2. ASSUME NEW k \in leases' \ leases
      PROVE  A(k.account)
  <2>1. /\ Holder'[k.account] = k.device /\ Until'[k.account] = k.expires
        /\ k.expires > now /\ k.device \in Devices /\ k.account \in Accounts
    BY <1>t, SeenNext DEF RowsServed, LeaseRow
  <2>2. CASE Renews(k)
    <3>1. PICK l \in leases : /\ l.account = k.account /\ l.device = k.device
                              /\ l.expires > now
      BY <2>2 DEF Renews, LiveLeases, Live
    <3>2. Holder[k.account] = k.device /\ Until[k.account] = l.expires /\ l.expires \in Nat
      BY <1>t, <3>1, Seen DEF LeaseRow
    <3>3. ~ Until[k.account] <= now /\ Holder[k.account] # None
      BY <1>t, <2>1, <3>1, <3>2
    <3> QED BY <2>1, <3>2, <3>3
  <2>3. CASE Begins(k)
    <3>1. Holder[k.account] = None \/ Until[k.account] <= now
      <4>1. ASSUME NEW l \in leases, l.account = k.account
            PROVE  l.expires <= now
        <5>1. ~ l.expires > now /\ l.expires \in Nat
          BY <1>t, <2>3, <4>1 DEF Begins, Free, LiveLeases, Live, LeaseRow
        <5> QED BY <1>t, <5>1
      <4> QED BY <2>1, <4>1, Seen
    <3> QED BY <2>1, <3>1
  <2> QED BY <2>2, <2>3 DEF RowsServed
<1>3. \A a \in Accounts : A(a)
  BY <1>1, <1>2
<1>4. \A a, b \in Accounts : Until'[a] > Until[a] /\ Until'[b] > Until[b] => a = b
  BY <1>1 DEF RowsServed
<1>5. now' = now
  BY DEF RowsServed
<1> QED
  BY <1>3, <1>4, <1>5
     DEF Contract!Serve, Contract!Kept, Contract!Extended, Contract!Granted,
         Contract!Ended, Contract!Lapsed, Holder, Until

-----------------------------------------------------------------------------
(* Whose lease a request works on. *)

\* A request renews and releases a lease that was granted to its device.
RequestsOwn ==
    \A p \in Agents : req[p].step \in LeaseSteps =>
        \E e \in events : e.lease = req[p].lease /\ e.device = DeviceOf[p]

\* Segments stay, if with another end.
LEMMA SegmentsStay ==
    ASSUME TypeOK, [Next]_vars, NEW e \in events
    PROVE  \E g \in events' : g.lease = e.lease /\ g.device = e.device
<1> DEFINE Kept(F) == \E g \in F : g.lease = e.lease /\ g.device = e.device
<1>t. events \subseteq Segment /\ CloseExpired \subseteq Segment /\ now \in Nat
  BY CloseExpiredType, NowType DEF TypeOK
<1>1. ASSUME NEW F, F \subseteq Segment, Kept(F), NEW X, NEW t
      PROVE  Kept(CloseSegments(F, X, t))
  <2>1. PICK g \in F : g.lease = e.lease /\ g.device = e.device
    BY <1>1
  <2> DEFINE h == IF g.ended = Open /\ g.lease \in X THEN [g EXCEPT !.ended = t] ELSE g
  <2>2. h \in CloseSegments(F, X, t)
    BY DEF CloseSegments
  <2>3. h.lease = e.lease /\ h.device = e.device
    BY <1>1, <2>1 DEF Segment
  <2> QED BY <2>2, <2>3
<1>2. Kept(CloseExpired)
  <2> DEFINE h == IF e.ended = Open /\ e.lease \in ExpiredIds
                  THEN [e EXCEPT !.ended = ExpiryOf(e.lease)] ELSE e
  <2>1. h \in CloseExpired
    BY DEF CloseExpired
  <2>2. h.lease = e.lease /\ h.device = e.device
    BY <1>t DEF Segment
  <2> QED BY <2>1, <2>2
<1>3. \A F, l : Kept(F) => Kept(EnsureOpen(F, l))
  BY DEF EnsureOpen
<1>4. Kept(events)
  OBVIOUS
<1> HIDE DEF Kept
<1>5. CASE events' = events
  BY <1>4, <1>5 DEF Kept
<1>6. ASSUME NEW p \in Agents, Reclaim(p) \/ ReleaseLease(p)
      PROVE  Kept(events')
  BY <1>t, <1>1, <1>4, <1>6 DEF Reclaim, ReleaseLease
<1>7. ASSUME ReleaseDeviceLeases \/ Restart \/ SweepLeases
      PROVE  Kept(events')
  BY <1>t, <1>1, <1>2, <1>4, <1>7 DEF ReleaseDeviceLeases, Restart, SweepLeases
<1>8. ASSUME NEW p \in Agents, RenewEvent(p)
      PROVE  Kept(events')
  BY <1>8 DEF RenewEvent, Kept
<1>9. ASSUME NEW p \in Agents, AcquireOwn(p)
      PROVE  Kept(events')
  <2>1. PICK l \in LiveLeases :
          events' = CloseSegments(EnsureOpen(CloseExpired, l),
                      IdsOf(OtherOfProvider(LiveLeases, DeviceOf[p], l.account)), now)
    BY <1>9 DEF AcquireOwn
  <2>2. EnsureOpen(CloseExpired, l) \subseteq Segment
    BY <1>t, EnsureOpenType DEF LiveLeases, TypeOK
  <2> QED BY <1>1, <1>2, <1>3, <2>1, <2>2
<1>10. ASSUME NEW p \in Agents, NEW i \in LeaseIds, AcquireFree(p, i)
       PROVE  Kept(events')
  BY <1>t, <1>1, <1>2, <1>3, <1>10 DEF AcquireFree
<1>11. Kept(events')
  BY <1>5, <1>4, <1>6, <1>7, <1>8, <1>9, <1>10
     DEF Next, AgentStep, AdminStep, VaultStep, Start, StartPick, StartAcquire,
         StartRenew, StartRelease, PickGate, PickFirst, PickSecond, AcquireGate,
         AcquireLocked, RenewRead, RenewUpdate, Abandon, Suspend, Resume, Revoke,
         SetProviders, PoolChange, Tick, vars, table
<1> QED BY <1>11 DEF Kept

\* What a step of p makes of requests: others stay, p is answered, or goes on, or
\* starts with a lease of its own.
LEMMA RequestStep ==
    ASSUME TypeOK, RequestsOwn, NEW p \in Agents, AgentStep(p)
    PROVE  \E r : /\ req' = [req EXCEPT ![p] = r]
                  /\ r.step \in LeaseSteps =>
                       \E e \in events : e.lease = r.lease /\ e.device = DeviceOf[p]
<1> DEFINE Good(r) == r.step \in LeaseSteps =>
                        \E e \in events : e.lease = r.lease /\ e.device = DeviceOf[p]
           Goes(r) == req' = [req EXCEPT ![p] = r] /\ Good(r)
<1>t. req \in [Agents -> Request] /\ req[p] \in Request
  BY DEF TypeOK
<1>1. Good(NoRequest)
  BY DEF NoRequest, LeaseSteps
<1>2. ASSUME Answer(p)
      PROVE  Goes(NoRequest)
  BY <1>1, <1>2 DEF Answer
<1>3. ASSUME NEW s, GoTo(p, s), s \in LeaseSteps => req[p].step \in LeaseSteps
      PROVE  Goes([req[p] EXCEPT !.step = s])
  <2>1. req' = [req EXCEPT ![p] = [req[p] EXCEPT !.step = s]]
    BY <1>t, <1>3 DEF GoTo
  <2>2. /\ [req[p] EXCEPT !.step = s].step = s
        /\ [req[p] EXCEPT !.step = s].lease = req[p].lease
    BY <1>t DEF Request
  <2> QED BY <1>3, <2>1, <2>2 DEF RequestsOwn
<1>4. ASSUME NEW i \in OwnIds(p), NEW t \in IdleReports, StartRenew(p, i, t)
      PROVE  \E r : Goes(r)
  <2> DEFINE r == [NoRequest EXCEPT !.step = "renew", !.lease = i, !.idle = t]
  <2>1. r.lease = i
    BY DEF NoRequest
  <2>2. Good(r)
    BY <2>1 DEF OwnIds
  <2>3. req' = [req EXCEPT ![p] = r]
    BY <1>4 DEF StartRenew, Start
  <2> QED BY <2>2, <2>3
<1>5. ASSUME NEW i \in OwnIds(p), StartRelease(p, i)
      PROVE  \E r : Goes(r)
  <2> DEFINE r == [NoRequest EXCEPT !.step = "release", !.lease = i]
  <2>1. r.lease = i
    BY DEF NoRequest
  <2>2. Good(r)
    BY <2>1 DEF OwnIds
  <2>3. req' = [req EXCEPT ![p] = r]
    BY <1>5 DEF StartRelease, Start
  <2> QED BY <2>2, <2>3
<1>6. ASSUME NEW pr, NEW a, StartPick(p, pr) \/ StartAcquire(p, a)
      PROVE  \E r : Goes(r)
  <2> DEFINE r1 == [NoRequest EXCEPT !.step = "pickGate", !.provider = pr]
             r2 == [NoRequest EXCEPT !.step = "acquireGate", !.account = a]
  <2>1. Good(r1) /\ Good(r2)
    BY DEF NoRequest, LeaseSteps
  <2>2. req' = [req EXCEPT ![p] = r1] \/ req' = [req EXCEPT ![p] = r2]
    BY <1>6 DEF StartPick, StartAcquire, Start
  <2> QED BY <2>1, <2>2
<1>7. ASSUME PickSecond(p)
      PROVE  \E r : Goes(r)
  <2>1. CASE Answer(p)
    BY <1>2, <2>1
  <2>2. CASE ~ Answer(p)
    <3>1. PICK a : req' = [req EXCEPT ![p].step = "reclaim", ![p].account = a]
      BY <1>7, <2>2 DEF PickSecond
    <3> DEFINE r == [req[p] EXCEPT !.step = "reclaim", !.account = a]
    <3>2. req' = [req EXCEPT ![p] = r]
      BY <1>t, <3>1
    <3>3. Good(r)
      BY <1>t DEF Request, LeaseSteps
    <3> QED BY <3>2, <3>3
  <2> QED BY <2>1, <2>2
<1> HIDE DEF Goes
<1>8. ASSUME PickGate(p) \/ PickFirst(p) \/ AcquireGate(p) \/ RenewUpdate(p) \/ RenewRead(p)
      PROVE  \E r : Goes(r)
  <2>1. \/ Answer(p)
        \/ GoTo(p, "pickFirst") \/ GoTo(p, "pickSecond") \/ GoTo(p, "acquire")
        \/ GoTo(p, "renewRead") /\ req[p].step = "renew"
        \/ GoTo(p, "renewEvent") /\ req[p].step = "renewRead"
    BY <1>8 DEF PickGate, PickFirst, AcquireGate, RenewUpdate, RenewRead
  <2>2. /\ {"pickFirst", "pickSecond", "acquire"} \cap LeaseSteps = {}
        /\ "renew" \in LeaseSteps /\ "renewRead" \in LeaseSteps
    BY DEF LeaseSteps
  <2> QED BY <1>2, <1>3, <2>1, <2>2
<1>9. ASSUME NEW i, \/ Reclaim(p) \/ AcquireLocked(p) \/ AcquireOwn(p) \/ AcquireFree(p, i)
                    \/ RenewEvent(p) \/ ReleaseLease(p) \/ Abandon(p)
      PROVE  Answer(p)
  BY <1>9 DEF Reclaim, AcquireLocked, AcquireOwn, AcquireFree, RenewEvent, ReleaseLease,
              Abandon
<1>10. \E r : Goes(r)
  BY <1>2, <1>4, <1>5, <1>6, <1>7, <1>8, <1>9 DEF AgentStep
<1> QED BY <1>10 DEF Goes

\* Requests keep to the leases of their device.
LEMMA StepRequestsOwn ==
    ASSUME TypeOK, RequestsOwn, [Next]_vars
    PROVE  RequestsOwn'
<1> DEFINE Mine(i, d) == \E e \in events : e.lease = i /\ e.device = d
<1>1. ASSUME NEW q \in Agents, req'[q].step \in LeaseSteps
      PROVE  Mine(req'[q].lease, DeviceOf[q])
  <2>1. CASE req' = req
    BY <1>1, <2>1 DEF RequestsOwn
  <2>2. CASE Restart
    BY <1>1, <2>2 DEF Restart, NoRequest, LeaseSteps
  <2>3. ASSUME NEW p \in Agents, AgentStep(p)
        PROVE  Mine(req'[q].lease, DeviceOf[q])
    <3>1. PICK r : /\ req' = [req EXCEPT ![p] = r]
                   /\ r.step \in LeaseSteps => Mine(r.lease, DeviceOf[p])
      BY <2>3, RequestStep
    <3>2. CASE q = p
      <4>1. req'[q] = r
        BY <3>1, <3>2 DEF TypeOK
      <4> QED BY <1>1, <3>1, <3>2, <4>1
    <3>3. CASE q # p
      <4>1. req'[q] = req[q]
        BY <3>1, <3>3 DEF TypeOK
      <4> QED BY <1>1, <4>1 DEF RequestsOwn
    <3> QED BY <3>2, <3>3
  <2> QED
    BY <2>1, <2>2, <2>3
       DEF Next, AdminStep, VaultStep, ReleaseDeviceLeases, SweepLeases, Suspend, Resume,
           Revoke, SetProviders, PoolChange, Tick, vars
<1>2. \A i, d : Mine(i, d) => \E g \in events' : g.lease = i /\ g.device = d
  BY SegmentsStay
<1> HIDE DEF Mine
<1> QED BY <1>1, <1>2 DEF RequestsOwn

\* The lease of a request that has a row is the device's own.
LEMMA OwnRow ==
    ASSUME BillingInv, RequestsOwn, NEW p \in Agents, req[p].step \in LeaseSteps,
           NEW l \in leases, l.id = req[p].lease
    PROVE  l.device = DeviceOf[p]
<1>1. PICK e \in events : e.lease = l.id /\ e.device = DeviceOf[p]
  BY DEF RequestsOwn
<1>2. SegmentFor(l) \in events /\ SegmentFor(l).lease = l.id /\ SegmentFor(l).device = l.device
  BY DEF BillingInv, LeaseInv, HeldIsBilled, OpenOf, SegmentFor
<1> QED BY <1>1, <1>2 DEF BillingInv, Billed, OneHold

ContractInv == BillingInv /\ RequestsOwn

\* It holds in every behaviour of the service.
LEMMA ContractInvHolds == Spec => []ContractInv
<1>1. Init => ContractInv
  BY InitBillingInv DEF Init, ContractInv, RequestsOwn, NoRequest, LeaseSteps
<1>2. ContractInv /\ [Next]_vars => ContractInv'
  BY StepBillingInv, StepRequestsOwn DEF ContractInv, BillingInv, LeaseInv
<1> QED BY <1>1, <1>2, PTL DEF Spec

-----------------------------------------------------------------------------
(* Theorems. *)

\* The rows of the lease table are exclusive holds with deadlines: a grant only
\* where there is none or it has lapsed, an extension only for the holder (the
\* transactions of store/leases.go).
THEOREM LeasesAreExclusive == Spec => ImplementsExclusiveLease
<1>1. Init => Contract!Init
  <2> SUFFICES ASSUME Init PROVE Contract!Init
    OBVIOUS
  <2>1. now \in Nat
    BY LeaseAssumption DEF Init
  <2>2. \A a \in Accounts : ~ IsHeld(a)
    BY DEF Init, IsHeld
  <2> QED BY <2>1, <2>2 DEF Contract!Init
<1>2. ASSUME LeaseInv, LeaseInv', [Next]_vars
      PROVE  [Contract!Next]_(Contract!vars)
  <2>1. CASE Tick
    <3>1. now' > now
      BY <1>2, <2>1, NowType DEF Tick, LeaseInv
    <3>2. leases' = leases
      BY <2>1 DEF Tick, table
    <3> QED BY <3>1, <3>2 DEF Contract!Next, Contract!Wait, IsHeld, RowOf
  <2>2. CASE ~ Tick
    BY <1>2, <2>2, StepServes, ServedIsServe DEF Contract!Next
  <2> QED BY <2>1, <2>2
<1>. QED
  BY <1>1, <1>2, LeaseInvHolds, PTL DEF Spec, ImplementsExclusiveLease, Contract!Spec

\* A lapsed lease stays so: the UPDATE of a renewal asks for expires_at > now, and a
\* new lease has a new identifier.
THEOREM LapsedIsOver == Spec => LapsedStaysLapsed
<1>1. ASSUME LeaseInv, [Next]_vars
      PROVE  \A l \in leases \ LiveLeases : \A k \in leases' : k.id = l.id => k.expires <= now'
  <2>1. SUFFICES ASSUME NEW l \in leases \ LiveLeases, NEW k \in leases', k.id = l.id
                 PROVE  k.expires <= now'
    OBVIOUS
  <2>2. l.expires <= now /\ l.expires \in Nat /\ now \in Nat
    BY <1>1, NowType DEF LeaseInv, TypeOK, LeaseRow, LiveLeases, Live
  <2>3. CASE k \in leases
    <3>1. k = l
      BY <1>1, <2>1, <2>3 DEF LeaseInv, UniqueIds
    <3>2. now' \in Nat /\ now <= now'
      <4>1. CASE Tick
        BY <2>2, <4>1 DEF Tick
      <4>2. CASE ~ Tick
        BY <1>1, <2>2, <4>2, StepServes DEF RowsServed
      <4> QED BY <4>1, <4>2
    <3> QED BY <2>2, <3>1, <3>2
  <2>4. CASE k \notin leases
    <3>1. ~ Tick
      BY <2>4 DEF Tick, table
    <3>2. Renews(k) \/ Begins(k)
      BY <1>1, <2>4, <3>1, StepServes DEF RowsServed
    <3>3. ~ Begins(k)
      BY <2>1 DEF Begins, UsedIds
    <3>4. ~ Renews(k)
      BY <1>1, <2>1 DEF Renews, LeaseInv, UniqueIds, LiveLeases
    <3> QED BY <3>2, <3>3, <3>4
  <2> QED BY <2>3, <2>4
<1>. QED
  BY <1>1, LeaseInvHolds, PTL DEF Spec, LapsedStaysLapsed

\* Nobody takes an account from a device that uses it (ReclaimIdleForeignLease looks
\* at the idle time again, RenewLease and ReleaseLease name a lease of the device).
THEOREM NobodySteals == Spec => NoTheft
<1> DEFINE Fair(l) ==
             \/ \E p \in Agents : DeviceOf[p] = l.device /\ req'[p] # req[p]
             \/ admin.step = "release" /\ admin.device = l.device
             \/ IdleHolder(l)
           Gone(l) == l.id \notin IdsOf(leases')
<1>1. ASSUME ContractInv, [Next]_vars, NEW l \in LiveLeases, Gone(l)
      PROVE  Fair(l)
  <2>i. l \in leases
    BY DEF LiveLeases
  <2>t. req \in [Agents -> Request] /\ leases \subseteq LeaseRow
    BY <1>1 DEF ContractInv, BillingInv, LeaseInv, TypeOK
  <2>a. \A p \in Agents : Answer(p) /\ req[p].step # "idle" => req'[p] # req[p]
    BY <2>t DEF Answer, NoRequest
  <2>1. ASSUME leases \subseteq leases'
        PROVE  FALSE
    BY <1>1, <2>i, <2>1 DEF IdsOf
  <2>2. ASSUME NEW p \in Agents, Reclaim(p)
        PROVE  Fair(l)
    <3>1. l \notin leases'
      BY <1>1 DEF IdsOf
    <3> QED BY <2>2, <2>i, <3>1 DEF Reclaim
  <2>3. ASSUME NEW p \in Agents, ReleaseLease(p)
        PROVE  Fair(l)
    <3>1. l.id = req[p].lease
      BY <1>1, <2>3, <2>i DEF ReleaseLease, IdsOf
    <3>2. DeviceOf[p] = l.device
      BY <1>1, <2>3, <2>i, <3>1, OwnRow DEF ReleaseLease, ContractInv, LeaseSteps
    <3>3. req'[p] # req[p]
      BY <2>a, <2>3 DEF ReleaseLease
    <3> QED BY <3>2, <3>3
  <2>4. ASSUME ReleaseDeviceLeases
        PROVE  Fair(l)
    <3>1. l \notin leases'
      BY <1>1 DEF IdsOf
    <3> QED BY <2>4, <2>i, <3>1 DEF ReleaseDeviceLeases
  <2>5. ~ SweepLeases
    BY <1>1 DEF SweepLeases, IdsOf
  <2>6. ASSUME NEW p \in Agents, RenewUpdate(p)
        PROVE  FALSE
    <3> DEFINE r == [l EXCEPT !.expires = now + TTL, !.lastActive = now - req[p].idle]
    <3>1. r.id = l.id
      BY <2>i, <2>t DEF LeaseRow
    <3>2. l \in leases' \/ r \in leases'
      BY <2>6, <2>i DEF RenewUpdate
    <3> QED BY <1>1, <3>1, <3>2 DEF IdsOf
  <2>7. ASSUME NEW p \in Agents, AcquireOwn(p)
        PROVE  Fair(l)
    <3>1. req'[p] # req[p]
      BY <2>a, <2>7 DEF AcquireOwn
    <3>2. PICK k \in LiveLeases :
            /\ k.device = DeviceOf[p]
            /\ leases' = (LiveLeases \ (OtherOfProvider(LiveLeases, DeviceOf[p], k.account)
                                          \cup {k}))
                         \cup {[k EXCEPT !.expires = now + TTL, !.lastActive = now]}
      BY <2>7 DEF AcquireOwn
    <3>3. l \notin leases'
      BY <1>1 DEF IdsOf
    <3>4. l.device = DeviceOf[p]
      BY <3>2, <3>3 DEF OtherOfProvider
    <3> QED BY <3>1, <3>4
  <2>8. ASSUME NEW p \in Agents, NEW i \in LeaseIds, AcquireFree(p, i)
        PROVE  Fair(l)
    <3>1. req'[p] # req[p]
      BY <2>a, <2>8 DEF AcquireFree
    <3>2. l \notin leases'
      BY <1>1 DEF IdsOf
    <3>3. l.device = DeviceOf[p]
      BY <2>8, <3>2 DEF AcquireFree, OtherOfProvider
    <3> QED BY <3>1, <3>3
  <2> HIDE DEF Fair, Gone
  <2>. QED
    BY <1>1, <2>1, <2>2, <2>3, <2>4, <2>5, <2>6, <2>7, <2>8
       DEF Next, AgentStep, AdminStep, VaultStep, Start, StartPick, StartAcquire,
           StartRenew, StartRelease, PickGate, PickFirst, PickSecond, AcquireGate,
           AcquireLocked, RenewRead, RenewEvent, Abandon, Suspend, Resume, Revoke,
           SetProviders, PoolChange, Restart, Tick, vars, table
<1>2. ContractInv /\ [Next]_vars => \A l \in LiveLeases : Gone(l) => Fair(l)
  BY <1>1
<1>. QED
  BY <1>2, ContractInvHolds, PTL DEF Spec, NoTheft

\* An acquisition leaves the rows of the other providers alone
\* (releaseOtherDeviceProviderLeasesTx asks for the provider).
THEOREM PoolsStayApart == Spec => PoolsAreSeparate
<1> DEFINE Others(p) == {l \in LiveLeases :
                           ProviderOf[l.account] # ProviderOf[req[p].account]}
<1>1. ASSUME LeaseInv, [Next]_vars, NEW p \in Agents, req[p].step = "acquire", req'[p] # req[p]
      PROVE  Others(p) \subseteq leases'
  <2>i. LiveLeases \subseteq leases
    BY DEF LiveLeases
  <2>t. req \in [Agents -> Request]
    BY <1>1 DEF LeaseInv, TypeOK
  <2>1. ASSUME NEW q \in Agents, q # p, AgentStep(q)
        PROVE  FALSE
    <3>1. \A s : (GoTo(q, s) \/ Answer(q)) => req'[p] = req[p]
      BY <2>t, <2>1 DEF GoTo, Answer
    <3>2. \A r : Start(q, r) => req'[p] = req[p]
      BY <2>t, <2>1 DEF Start
    <3>3. PickSecond(q) => req'[p] = req[p]
      BY <2>t, <2>1, <3>1 DEF PickSecond
    <3> QED
      BY <1>1, <2>1, <3>1, <3>2, <3>3
         DEF AgentStep, StartPick, StartAcquire, StartRenew, StartRelease, PickGate,
             PickFirst, Reclaim, AcquireGate, AcquireLocked, AcquireOwn, AcquireFree,
             RenewUpdate, RenewRead, RenewEvent, ReleaseLease, Abandon
  <2>2. ASSUME AgentStep(p)
        PROVE  Others(p) \subseteq leases'
    <3>1. CASE AcquireLocked(p) \/ Abandon(p)
      BY <2>i, <3>1 DEF AcquireLocked, Abandon, table
    <3>2. CASE AcquireOwn(p)
      <4>1. PICK k \in LiveLeases :
              /\ k.account = req[p].account
              /\ leases' = (LiveLeases \ (OtherOfProvider(LiveLeases, DeviceOf[p], k.account)
                                            \cup {k}))
                           \cup {[k EXCEPT !.expires = now + TTL, !.lastActive = now]}
        BY <3>2 DEF AcquireOwn
      <4> QED BY <4>1 DEF OtherOfProvider
    <3>3. ASSUME NEW i \in LeaseIds, AcquireFree(p, i)
          PROVE  Others(p) \subseteq leases'
      BY <3>3 DEF AcquireFree, OtherOfProvider
    <3> HIDE DEF Others
    <3> QED
      BY <1>1, <2>2, <3>1, <3>2, <3>3
         DEF AgentStep, StartPick, StartAcquire, StartRenew, StartRelease, Start, PickGate,
             PickFirst, PickSecond, Reclaim, AcquireGate, RenewUpdate, RenewRead,
             RenewEvent, ReleaseLease
  <2>3. CASE Restart
    BY <2>i, <2>3 DEF Restart
  <2> QED
    BY <1>1, <2>1, <2>2, <2>3
       DEF Next, AdminStep, VaultStep, ReleaseDeviceLeases, SweepLeases, Suspend, Resume,
           Revoke, SetProviders, PoolChange, Tick, vars
<1>2. LeaseInv /\ [Next]_vars =>
        \A p \in Agents : req[p].step = "acquire" /\ req'[p] # req[p] => Others(p) \subseteq leases'
  BY <1>1
<1>. QED
  BY <1>2, LeaseInvHolds, PTL DEF Spec, PoolsAreSeparate

=============================================================================
