-------------------------- MODULE UsageAttribution --------------------------
(***************************************************************************)
(* Which device used an account up: store/attribution.go replays the       *)
(* samples of one rate-limit window that the usage poller stored           *)
(* (refresh/usage.go) against the segments of lease_events.  The account   *)
(* is used by its holder, also after its lease lapsed, and from outside    *)
(* foxy; the provider says the level of the window when asked, and         *)
(* sometimes leaves the window out.  An answer and its row are one step:   *)
(* a tick is longer than a call.  The three windows of the code go through *)
(* the same walk, one by one: one stands for all.                          *)
(***************************************************************************)
EXTENDS Integers, Sequences, FiniteSets, Functions

CONSTANTS
    Devices,        \* devices that lease the account
    TTL,            \* lease TTL
    Retention,      \* UsageHistoryRetention
    Unit,           \* a utilization point, so divided that shares are whole
    Outside,        \* whoever uses the account without foxy
    None,           \* nobody, nothing
    MaxNow,         \* bound: ticks of the clock
    MaxHolds,       \* bound: segments of lease_events
    MaxGaps,        \* bound: answers that leave the window out
    MaxRollovers    \* bound: rollovers of the window

ASSUME AttributionAssumption ==
    /\ IsFiniteSet(Devices)
    /\ TTL \in Nat \ {0} /\ Retention \in Nat
    /\ Unit \in Nat \ {0} /\ \A n \in 1 .. MaxNow : Unit % n = 0
    /\ {Outside, None} \cap Devices = {} /\ Outside # None
    /\ None \notin [dev : Devices, expires : Nat]
    /\ {MaxNow, MaxHolds, MaxGaps, MaxRollovers} \subseteq Nat

VARIABLES
    now,        \* the clock
    uses,       \* who used a point of the account in each tick so far
    rollovers,  \* when the provider's window began anew
    lease,      \* the row of table leases, or None
    segs,       \* table lease_events
    rows,       \* table usage_history
    gaps        \* answers without the window so far

provider == <<uses, rollovers>>
leasing  == <<lease, segs>>
polling  == <<rows, gaps>>
vars     == <<now, provider, leasing, polling>>

Open == -1    \* 0 in the table, which is no time; here the clock starts at 0
Segment == [dev : Devices, started : Nat, ended : Nat \cup {Open}]
\* util is what the table holds.  In which of the provider's windows it was
\* sampled, and whether the answer left the window out, the model alone knows.
Sample == [ts : Nat, util : Nat, window : Nat, gap : BOOLEAN]

-----------------------------------------------------------------------------
(* The computation. *)

Largest(S) == CHOOSE x \in S : \A y \in S : y <= x
Least(x, y) == IF x < y THEN x ELSE y
Most(x, y) == IF x > y THEN x ELSE y

\* The part of [from, to] that a segment covers; a running one runs to end.
Overlap(s, from, to, end) ==
    [dev |-> s.dev, lo |-> Most(s.started, from),
     hi |-> Least(IF s.ended = Open THEN end ELSE s.ended, to)]
Overlaps(S, from, to, end) ==
    {o \in {Overlap(s, from, to, end) : s \in S} : o.hi > o.lo}
Length(O) == SumFunction([o \in O |-> o.hi - o.lo])
HeldBy(O, d) == {o \in O : o.dev = d}

Nobody == [d \in Devices |-> 0]
NoShares == [points |-> Nobody, rest |-> 0, lastUsed |-> Nobody]

\* distribute, of an interval in which the segments hold O
Distribute(tally, amount, O) ==
    LET total == Length(O)
    IN  IF total = 0
        THEN [tally EXCEPT !.rest = @ + amount * Unit]
        ELSE [tally EXCEPT
                !.points = [d \in Devices |->
                    @[d] + (amount * Unit * Length(HeldBy(O, d))) \div total],
                !.lastUsed = [d \in Devices |->
                    Largest({@[d]} \cup {o.hi : o \in HeldBy(O, d)})]]

\* A drop of the level is taken for a rollover: the tally starts anew, the
\* times of last use stay.
\* (mutant: what nobody held is carried over)
ForgetDevices(tally) == [tally EXCEPT !.points = Nobody]
StartAnew(tally) == [tally EXCEPT !.points = Nobody, !.rest = 0]

\* One interval of attributeWindow, from sample p to sample c
Credit(tally, p, c, O) ==
    LET dropped == c.util < p.util
        amount == IF dropped THEN c.util ELSE c.util - p.util
        base == IF dropped THEN StartAnew(tally) ELSE tally
    IN  IF amount = 0 THEN base ELSE Distribute(base, amount, O)

\* The tally after each of the samples; held[i] is what segments hold before the
\* i-th.
Tallies(samples, held) ==
    LET walk[i \in 0 .. Len(samples)] ==
          IF i < 2 THEN NoShares
          ELSE Credit(walk[i - 1], samples[i - 1], samples[i], held[i])
    IN  walk

\* attributeWindow, over the samples `samples` with segments S
Held(samples, S, end) ==
    [i \in 2 .. Len(samples) |->
        Overlaps(S, samples[i - 1].ts, samples[i].ts, end)]
AttributeWindow(samples, S, end) ==
    Tallies(samples, Held(samples, S, end))[Len(samples)]

\* ComputeAttribution reads the time t, then the samples up to it
\* (UsageHistoryForAccountSince), then the segments (LeaseEventsForAccountSince),
\* which by then may be later ones: S.  The rows are stored in order of time, so
\* that those before a time are the first ones.
RowsBefore(t) == Cardinality({i \in DOMAIN rows : rows[i].ts < t})
RowsSince(t) == SubSeq(rows, RowsBefore(t - Retention) + 1, Len(rows))
RowsAt(t) == SubSeq(rows, RowsBefore(t - Retention) + 1, RowsBefore(t + 1))
SegmentsSince(S, t) == {s \in S : s.ended = Open \/ s.ended >= t - Retention}
ComputeAttribution(t, S) == AttributeWindow(RowsAt(t), SegmentsSince(S, t), t)

-----------------------------------------------------------------------------
(* The account at the provider. *)

\* Points used in the ticks after `from`, up to `to`, by somebody of S.
Used(from, to, S) == Cardinality({t \in from + 1 .. to : uses[t] \in S})
Users == Devices \cup {Outside}
WindowStart(w) == IF w = 0 THEN 0 ELSE rollovers[w]
Level == Used(WindowStart(Len(rollovers)), now, Users)

Init ==
    /\ now = 0
    /\ uses = <<>> /\ rollovers = <<>>
    /\ lease = None /\ segs = {}
    /\ rows = <<>> /\ gaps = 0

\* Time passes, and somebody who has the credential uses it, or nobody.
Tick(u) ==
    /\ now < MaxNow
    /\ u \in Devices => lease # None /\ lease.dev = u
    /\ now' = now + 1
    /\ uses' = Append(uses, u)
    /\ UNCHANGED <<rollovers, leasing, polling>>

Rollover ==
    /\ Len(rollovers) < MaxRollovers
    /\ now > WindowStart(Len(rollovers))
    /\ rollovers' = Append(rollovers, now)
    /\ UNCHANGED <<now, uses, leasing, polling>>

-----------------------------------------------------------------------------
(* Leases of the account, as LeaseService has them step by step. *)

Live == lease # None /\ lease.expires > now
Closed(S, t) == {IF s.ended = Open THEN [s EXCEPT !.ended = t] ELSE s : s \in S}
\* closeExpiredLeaseEventsTx
CloseExpired == IF lease = None THEN segs ELSE Closed(segs, lease.expires)

\* store.AcquireLease on an account that is free
Acquire(d) ==
    /\ ~ Live
    /\ Cardinality(segs) < MaxHolds
    /\ lease' = [dev |-> d, expires |-> now + TTL]
    /\ segs' = CloseExpired \cup {[dev |-> d, started |-> now, ended |-> Open]}
    /\ UNCHANGED <<now, provider, polling>>

\* store.RenewLease
Renew ==
    /\ Live
    /\ lease' = [lease EXCEPT !.expires = now + TTL]
    /\ UNCHANGED <<now, provider, segs, polling>>

\* store.ReleaseLease
Release ==
    /\ lease # None
    /\ lease' = None
    /\ segs' = Closed(segs, now)
    /\ UNCHANGED <<now, provider, polling>>

\* store.SweepLeases
Sweep ==
    /\ lease # None /\ ~ Live
    /\ lease' = None
    /\ segs' = CloseExpired
    /\ UNCHANGED <<now, provider, polling>>

-----------------------------------------------------------------------------
(* The usage poller. *)

\* One account's part of a poll: flattenUsage makes a window that the answer
\* leaves out a zero, AppendUsageHistory adds the row and prunes the table.
\* One goroutine polls, and never twice in a tick.
Poll(gap) ==
    /\ \A i \in DOMAIN rows : rows[i].ts < now
    /\ gap => gaps < MaxGaps
    /\ gaps' = gaps + (IF gap THEN 1 ELSE 0)
    /\ rows' = Append(RowsSince(now),
                      [ts |-> now, util |-> IF gap THEN 0 ELSE Level,
                       window |-> Len(rollovers), gap |-> gap])
    /\ UNCHANGED <<now, provider, leasing>>

-----------------------------------------------------------------------------
Next ==
    \/ \E u \in Users \cup {None} : Tick(u)
    \/ Rollover
    \/ \E d \in Devices : Acquire(d)
    \/ Renew \/ Release \/ Sweep
    \/ \E gap \in BOOLEAN : Poll(gap)

Spec == Init /\ [][Next]_vars

-----------------------------------------------------------------------------
(* Properties. *)

\* The attribution a request of one read would give now.
Shares == ComputeAttribution(now, segs)
Sum(shares) == shares.rest + SumFunction(shares.points)

TypeOK ==
    /\ now \in 0 .. MaxNow
    /\ uses \in Seq(Users \cup {None}) /\ Len(uses) = now
    /\ rollovers \in Seq(1 .. MaxNow)
    /\ lease \in {None} \cup [dev : Devices, expires : Nat]
    /\ segs \subseteq Segment
    /\ rows \in Seq(Sample)
    /\ gaps \in 0 .. MaxGaps

\* No point is billed twice and none is lost, whatever the leases did: all
\* shares and the rest make up the level of the last sample, less what was
\* there before the first one unless the level has dropped since.
NothingLost ==
    LET R == RowsSince(now)
        n == Len(R)
        dropped == \E i \in 2 .. n : R[i].util < R[i - 1].util
    IN  n >= 2 => Sum(Shares) =
                    Unit * (R[n].util - (IF dropped THEN 0 ELSE R[1].util))

\* The devices whose segments cover tick t.
Covering(t) ==
    {o.dev : o \in Overlaps(segs, t - 1, t, now)}
\* Between two samples the account was one device's, which alone used it; or
\* nobody's, and used from outside at most.
OneUser(from, to) ==
    \E h \in {{d} : d \in Devices} \cup {{}} :
        \A t \in from + 1 .. to :
            /\ Covering(t) = h
            /\ uses[t] \in (IF h = {} THEN {Outside} ELSE h) \cup {None}
Complete(R) == \A i \in DOMAIN R : ~ R[i].gap
Undivided(R) == \A i \in 2 .. Len(R) : OneUser(R[i - 1].ts, R[i].ts)
\* A rollover the level overtook before the next sample leaves no drop.
Visible(R) ==
    \A i \in 2 .. Len(R) :
        LET p == R[i - 1]
            c == R[i]
        IN  p.window = c.window \/ p.util = 0 \/ c.util < p.util

\* What S used of the last sample's window while the samples saw it.
UsedInWindow(R, S) ==
    Used(Most(R[1].ts, WindowStart(R[Len(R)].window)), R[Len(R)].ts, S)

\* When no sample lacks the window or hides a rollover, and samples fall on the
\* hand-overs, each device is billed what it used in this window and nothing
\* else, and last used is the end of an interval in which it did use the account.
EachItsOwn ==
    LET R == RowsSince(now)
        shares == Shares
    IN  (Len(R) >= 2 /\ Complete(R) /\ Undivided(R) /\ Visible(R))
        => /\ shares.rest = Unit * UsedInWindow(R, {Outside})
           /\ \A d \in Devices :
                /\ shares.points[d] = Unit * UsedInWindow(R, {d})
                /\ shares.lastUsed[d] # 0 =>
                     \E i \in 2 .. Len(R) :
                        /\ shares.lastUsed[d] = R[i].ts
                        /\ Used(R[i - 1].ts, R[i].ts, {d}) > 0

\* The table as it stood at time t, but that a lease which had lapsed by then
\* is closed at its deadline, even if that was found out later.
AsOf(t) == {[s EXCEPT !.ended = IF @ > t THEN Open ELSE @] :
              s \in {x \in segs : x.started <= t}}

\* The two reads of a request are no transaction, and need none: whenever it
\* read the samples, what happened before it reads the segments does not
\* change its answer.
AnswerOfItsMoment ==
    \A t \in 0 .. now :
        ComputeAttribution(t, segs) = ComputeAttribution(t, AsOf(t))

AttributionInv == TypeOK /\ NothingLost /\ EachItsOwn /\ AnswerOfItsMoment

\* "so the result reflects only the current window" (attribution.go:53)
CurrentWindowOnly ==
    LET R == RowsSince(now)
    IN  (Len(R) >= 2 /\ Complete(R) /\ Undivided(R)) =>
          \A d \in Devices :
              Shares.points[d] <= Unit * UsedInWindow(R, {d})

\* "a device that leased but never sent a request never gets a LastUsedAt"
\* (attribution.go:25)
LastUsedIsReal ==
    LET R == RowsSince(now)
    IN  (Len(R) >= 2 /\ Undivided(R) /\ Visible(R)) =>
          \A d \in Devices :
              Shares.lastUsed[d] # 0 => Used(0, now, {d}) > 0
=============================================================================
