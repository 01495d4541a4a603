----------------------------- MODULE Enrollment -----------------------------
(***************************************************************************)
(* How a machine becomes a device of the vault.  The machine (the CLI's    *)
(* `pair` or the terminal UI's wizard) asks for a code, shows it, and      *)
(* polls; an admin (whose session is taken for granted here) approves      *)
(* or denies the code; the poll that finds the approval inserts the device *)
(* and hands its token back.  Tables `pairings` and `devices`, the         *)
(* handlers of vault/httpserver on them, and the two clients.              *)
(*                                                                         *)
(* A statement on the database is one step, and a handler is one step per  *)
(* statement that another request can see.  Expired pairings are invisible *)
(* to every statement but the sweep (they are filtered by expires_at), so  *)
(* the sweep before an insert is part of the insert.  Nonces, codes and    *)
(* device ids are random in the code and drawn fresh here; the code a      *)
(* pairing shows is named by its nonce.                                    *)
(***************************************************************************)
EXTENDS Naturals

CONSTANTS
    Kinds,       \* clients to explore: "cli", "tui"
    Browsers,    \* web browsers of admins
    DeviceIds,   \* device ids that can be drawn
    Grants,      \* allowlists an admin may choose at approval
    PairingTTL,  \* ticks a code is valid
    MaxNow,      \* bound: the clock stops here
    MaxAttempts, \* bound: pairing attempts of the machine
    MaxFaults,   \* bound: lost answers and failed writes
    MaxCalls,    \* bound: requests of the machine in flight at once
    None

ASSUME EnrollmentAssumption ==
    /\ {PairingTTL, MaxNow} \subseteq Nat \ {0}
    /\ {MaxAttempts, MaxFaults, MaxCalls} \subseteq Nat
    /\ None \notin DeviceIds

VARIABLES
    now,       \* the vault's clock
    adm,       \* the request each browser has in flight
    pairings,  \* table pairings, by client_nonce
    devices,   \* table devices, by id
    kind,      \* which client the machine runs
    phase,     \* where it is
    nonce,     \* its current client_nonce; 0 before the first attempt
    shown,     \* the pairing whose code it displays
    calls,     \* its requests, in flight or answered but not yet handled
    config,    \* agent-config.json: the device id, with its token
    faults,    \* faults so far
    origin,    \* history: the pairing each device id was minted for
    denied,    \* history: pairings that were denied
    revoked    \* history: device ids that were revoked

vault   == <<pairings, devices>>
machine == <<kind, phase, nonce, shown, calls, config>>
history == <<origin, denied, revoked>>
vars    == <<now, vault, adm, machine, faults, history>>

-----------------------------------------------------------------------------
(* Rows and requests. *)

Nonces == 1 .. MaxAttempts

NoPairing == [status |-> "none", device |-> None, allow |-> {}, expires |-> 0]

NoRequest == [op |-> "none", code |-> 0, allow |-> {}, device |-> None]

Phases == {"input", "pair", "done"}

Answers == {"none", "error", "ok", "pending", "denied", "expired", "approved"}

CallSteps == {"sent", "insert", "dispose", "answered"}

CallType == [op : {"init", "poll"}, nonce : Nonces, at : CallSteps,
             answer : Answers, device : DeviceIds \cup {None},
             allow : SUBSET UNION Grants, by : 1 .. MaxCalls]

\* A request by goroutine `g` of the machine.
Call(op, n, g) == [op |-> op, nonce |-> n, at |-> "sent", answer |-> "none",
                   device |-> None, allow |-> {}, by |-> g]

FreeGoroutines == (1 .. MaxCalls) \ {c.by : c \in calls}

\* The requests of the machine after call `c` became `d`.
Instead(c, d) == (calls \ {c}) \cup {d}

Answered(c, a) == [c EXCEPT !.at = "answered", !.answer = a]

-----------------------------------------------------------------------------
(* What the statements see. *)

\* findPairing and the WHERE clauses of approve and deny filter expired rows.
Visible(n) == pairings[n].status # "none" /\ pairings[n].expires > now

Swept == [n \in Nonces |->
            IF pairings[n].expires <= now THEN NoPairing ELSE pairings[n]]

\* A device id is random: one that no pairing was approved with before.  Ids are
\* only compared, so it does not matter which.
FreshDevices == {d \in DeviceIds : origin[d] = 0}

NoDevice == [row |-> FALSE, allow |-> {}]

\* authenticateRequest: the token is accepted while the row is there.
Authenticates(d) == d # None /\ devices[d].row

-----------------------------------------------------------------------------
Init ==
    /\ now = 1
    /\ adm = [b \in Browsers |-> NoRequest]
    /\ pairings = [n \in Nonces |-> NoPairing]
    /\ devices = [d \in DeviceIds |-> NoDevice]
    /\ kind \in Kinds
    /\ phase = "input" /\ nonce = 0 /\ shown = 0 /\ calls = {}
    /\ config = None
    /\ faults = 0
    /\ origin = [d \in DeviceIds |-> 0] /\ denied = {} /\ revoked = {}

-----------------------------------------------------------------------------
(* The machine. *)

\* A new nonce, and the request for a code (runPair; enter in the wizard).
StartPairing ==
    /\ phase = "input" /\ nonce < MaxAttempts /\ FreeGoroutines # {}
    /\ phase' = "pair" /\ nonce' = nonce + 1 /\ shown' = 0
    /\ calls' = calls \cup
          {Call("init", nonce + 1, CHOOSE g \in FreeGoroutines : TRUE)}
    /\ UNCHANGED <<now, vault, adm, kind, config, faults, history>>

\* The wizard goes back, its requests stay in flight (esc); the CLI's process
\* ends, and nobody waits for the answer (ctrl-C).
BackOut ==
    /\ phase = "pair"
    /\ phase' = "input"
    /\ calls' = IF kind = "cli" THEN {} ELSE calls
    /\ UNCHANGED <<now, vault, adm, kind, nonce, shown, config, faults,
                   history>>

\* Back to the input with an error; the CLI exits.
Fails == phase' = "input" /\ UNCHANGED <<shown, config>>

\* The next poll: of the nonce the CLI started with, or of the one the wizard
\* holds at that moment.
PollAgain(c) ==
    /\ calls' = Instead(c, Call("poll", nonce, c.by))
    /\ UNCHANGED <<phase, config>>

\* The answer to pair-init arrives (PairInit, onPairInitMsg).
ReceiveInit(c) ==
    /\ c.op = "init" /\ c.at = "answered"
    /\ LET rest == calls \ {c} IN
         \/ phase # "pair" /\ calls' = rest /\ UNCHANGED <<phase, shown, config>>
         \/ phase = "pair" /\ c.answer = "error" /\ Fails /\ calls' = rest
         \/ phase = "pair" /\ c.answer = "ok" /\ shown' = c.nonce /\ PollAgain(c)
    /\ UNCHANGED <<now, vault, adm, kind, nonce, faults, history>>

\* (mutant: the loop is not started again)
ReceivePollOnce(c) ==
    /\ c.op = "poll" /\ c.at = "answered" /\ phase = "pair"
    /\ \/ c.answer = "approved" /\ phase' = "done" /\ config' = c.device
       \/ c.answer # "approved" /\ UNCHANGED <<phase, config>>
    /\ calls' = calls \ {c}
    /\ UNCHANGED <<now, vault, adm, kind, nonce, shown, faults, history>>

\* The answer to a poll arrives (PairPoll with runPair, onPairPollMsg).  An error
\* ends the CLI; the wizard tries again.
ReceivePoll(c) ==
    /\ c.op = "poll" /\ c.at = "answered"
    /\ LET rest == calls \ {c} IN
         \/ phase # "pair" /\ calls' = rest /\ UNCHANGED <<phase, shown, config>>
         \/ /\ phase = "pair" /\ UNCHANGED shown
            /\ \/ c.answer = "pending"
               \/ c.answer = "error" /\ kind = "tui"
            /\ PollAgain(c)
         \/ /\ phase = "pair" /\ calls' = rest
            /\ \/ c.answer \in {"denied", "expired"}
               \/ c.answer = "error" /\ kind = "cli"
            /\ Fails
         \/ /\ phase = "pair" /\ calls' = rest /\ UNCHANGED shown
            /\ c.answer = "approved"
            /\ phase' = "done" /\ config' = c.device
    /\ UNCHANGED <<now, vault, adm, kind, nonce, faults, history>>

\* The answer arrives and agent-config.json cannot be written.
ReceiveUnsaved(c) ==
    /\ c.op = "poll" /\ c.at = "answered" /\ c.answer = "approved"
    /\ phase = "pair" /\ faults < MaxFaults
    /\ Fails /\ calls' = calls \ {c} /\ faults' = faults + 1
    /\ UNCHANGED <<now, vault, adm, kind, nonce, history>>

\* `unpair` removes agent-config.json; the vault is not told.  The next process
\* offers to pair again.
Unpair ==
    /\ phase = "done"
    /\ config' = None /\ phase' = "input" /\ calls' = {}
    /\ UNCHANGED <<now, vault, adm, kind, nonce, shown, faults, history>>

\* The connection breaks, before, within or after the handler.
Lose(c) ==
    /\ faults < MaxFaults /\ c.answer # "error"
    /\ calls' = Instead(c, Answered(c, "error"))
    /\ faults' = faults + 1
    /\ UNCHANGED <<now, vault, adm, kind, phase, nonce, shown, config,
                   history>>

-----------------------------------------------------------------------------
(* The vault's public handlers. *)

\* handlePairInit: sweep, then InsertPairing of a pending row.
PairInit(c) ==
    /\ c.op = "init" /\ c.at = "sent"
    /\ pairings' = [Swept EXCEPT ![c.nonce] =
                      [status |-> "pending", device |-> None, allow |-> {},
                       expires |-> now + PairingTTL]]
    /\ calls' = Instead(c, Answered(c, "ok"))
    /\ UNCHANGED <<now, devices, adm, kind, phase,
                   nonce, shown, config, faults, history>>

\* (mutant: the read does not filter expired rows)
PollFindExpired(c) ==
    /\ c.op = "poll" /\ c.at = "sent"
    /\ LET row == pairings[c.nonce] IN
         calls' = Instead(c,
            IF row.status = "none" THEN Answered(c, "expired")
            ELSE IF row.status = "approved"
                 THEN [c EXCEPT !.at = "insert", !.device = row.device,
                                !.allow = row.allow]
                 ELSE Answered(c, row.status))
    /\ UNCHANGED <<now, vault, adm, kind, phase, nonce, shown, config,
                   faults, history>>

\* handlePairPoll reads the row; only an approval needs more than an answer.
PollFind(c) ==
    /\ c.op = "poll" /\ c.at = "sent"
    /\ LET row == pairings[c.nonce] IN
         calls' = Instead(c,
            IF ~ Visible(c.nonce) THEN Answered(c, "expired")
            ELSE IF row.status = "approved"
                 THEN [c EXCEPT !.at = "insert", !.device = row.device,
                                !.allow = row.allow]
                 ELSE Answered(c, row.status))
    /\ UNCHANGED <<now, vault, adm, kind, phase, nonce, shown, config,
                   faults, history>>

\* The allowlist columns handlePairPoll passes to InsertDevice.
Promoted(allow) == allow \ {"deepseek"}

\* InsertDevice: refused by the primary key while the device has a row.
PollInsert(c) ==
    /\ c.op = "poll" /\ c.at = "insert"
    /\ \/ /\ devices[c.device].row
          /\ calls' = Instead(c, Answered(c, "error"))
          /\ UNCHANGED devices
       \/ /\ ~ devices[c.device].row
          /\ devices' = [devices EXCEPT ![c.device] =
                           [row |-> TRUE, allow |-> Promoted(c.allow)]]
          /\ calls' = Instead(c, [c EXCEPT !.at = "dispose"])
    /\ UNCHANGED <<now, pairings, adm, kind, phase,
                   nonce, shown, config, faults, history>>

\* DenyPairing touches a pending row only.
DenyPairing(rows, n) ==
    IF rows[n].status = "pending" /\ rows[n].expires > now
      THEN [rows EXCEPT ![n].status = "denied"] ELSE rows

\* The rows are swept, this one is denied, and the token goes to the machine.
PollDispose(c) ==
    /\ c.op = "poll" /\ c.at = "dispose"
    /\ pairings' = DenyPairing(Swept, c.nonce)
    /\ calls' = Instead(c, Answered(c, "approved"))
    /\ UNCHANGED <<now, devices, adm, kind, phase,
                   nonce, shown, config, faults, history>>

-----------------------------------------------------------------------------
(* The admin's handlers. *)

Ask(b, r) == adm' = [adm EXCEPT ![b] = r]

AdminKeeps == UNCHANGED <<now, machine, faults>>

\* requireSessionJSON lets a request through; its statement comes later.
Gate(b, r) ==
    /\ adm[b].op = "none"
    /\ Ask(b, r)
    /\ AdminKeeps /\ UNCHANGED <<vault, history>>

\* handleAPIPairResolve for a code some screen showed.
Resolve(b, op, n, allow) ==
    /\ pairings[n].status # "none" \/ n \in 1 .. nonce
    /\ Gate(b, [op |-> op, code |-> n, allow |-> allow, device |-> None])

\* (mutant: any row that is not expired)
ApprovePairingAny(b) ==
    /\ adm[b].op = "approve"
    /\ LET n == adm[b].code IN
         \/ /\ Visible(n) /\ FreshDevices # {}
            /\ LET d == CHOOSE d \in FreshDevices : TRUE IN
                 /\ pairings' = [pairings EXCEPT ![n].status = "approved",
                                   ![n].device = d, ![n].allow = adm[b].allow]
                 /\ origin' = [origin EXCEPT ![d] = n]
         \/ ~ Visible(n) /\ UNCHANGED <<pairings, origin>>
    /\ Ask(b, NoRequest)
    /\ AdminKeeps
    /\ UNCHANGED <<devices, denied, revoked>>

\* ApprovePairing: a pending row gets the fresh device id and the allowlist.
ApprovePairing(b) ==
    /\ adm[b].op = "approve"
    /\ LET n == adm[b].code IN
         \/ /\ Visible(n) /\ pairings[n].status = "pending"
            /\ FreshDevices # {}
            /\ LET d == CHOOSE d \in FreshDevices : TRUE IN
                 /\ pairings' = [pairings EXCEPT ![n].status = "approved",
                                   ![n].device = d, ![n].allow = adm[b].allow]
                 /\ origin' = [origin EXCEPT ![d] = n]
         \/ /\ ~ (Visible(n) /\ pairings[n].status = "pending")
            /\ UNCHANGED <<pairings, origin>>
    /\ Ask(b, NoRequest)
    /\ AdminKeeps
    /\ UNCHANGED <<devices, denied, revoked>>

\* DenyPairing for the admin.
Deny(b) ==
    /\ adm[b].op = "deny"
    /\ pairings' = DenyPairing(pairings, adm[b].code)
    /\ denied' = IF pairings' # pairings THEN denied \cup {adm[b].code} ELSE denied
    /\ Ask(b, NoRequest)
    /\ AdminKeeps
    /\ UNCHANGED <<devices, origin, revoked>>

\* handleAPIDevicesRevoke ends in DeleteDevice.
Revoke(b, d) ==
    /\ devices[d].row
    /\ Gate(b, [NoRequest EXCEPT !.op = "revoke", !.device = d])

DeleteDevice(b) ==
    /\ adm[b].op = "revoke"
    /\ devices' = [devices EXCEPT ![adm[b].device] = NoDevice]
    /\ revoked' = revoked \cup {adm[b].device}
    /\ Ask(b, NoRequest)
    /\ AdminKeeps
    /\ UNCHANGED <<pairings, origin, denied>>

-----------------------------------------------------------------------------
Tick ==
    /\ now < MaxNow
    /\ now' = now + 1
    /\ UNCHANGED <<vault, adm, machine, faults, history>>

\* The machine handles an answer.
Receive == \E c \in calls : ReceiveInit(c) \/ ReceivePoll(c)

\* The vault serves the machine.
Serve == \E c \in calls :
            PairInit(c) \/ PollFind(c) \/ PollInsert(c) \/ PollDispose(c)

User == StartPairing \/ BackOut \/ Unpair

Fault == \E c \in calls : ReceiveUnsaved(c) \/ Lose(c)

Admin ==
    \E b \in Browsers :
        \/ \E n \in Nonces : \/ \E g \in Grants : Resolve(b, "approve", n, g)
                             \/ Resolve(b, "deny", n, {})
        \/ ApprovePairing(b) \/ Deny(b)
        \/ \E d \in DeviceIds : Revoke(b, d)
        \/ DeleteDevice(b)

Next == Receive \/ Serve \/ User \/ Fault \/ Admin \/ Tick

Spec == Init /\ [][Next]_vars

\* The machine's loop and the vault's handlers run; nobody has to act, no clock
\* has to advance.
FairSpec == Spec /\ WF_vars(Receive) /\ WF_vars(Serve)

-----------------------------------------------------------------------------
(* Properties. *)

TypeOK ==
    /\ now \in 1 .. MaxNow
    /\ adm \in [Browsers ->
          [op : {"none", "approve", "deny", "revoke"}, code : Nonces \cup {0},
           allow : SUBSET UNION Grants, device : DeviceIds \cup {None}]]
    /\ pairings \in [Nonces ->
          [status : {"none", "pending", "approved", "denied"},
           device : DeviceIds \cup {None}, allow : SUBSET UNION Grants,
           expires : Nat]]
    /\ devices \in [DeviceIds -> [row : BOOLEAN, allow : SUBSET UNION Grants]]
    /\ kind \in Kinds /\ phase \in Phases
    /\ nonce \in Nonces \cup {0} /\ shown \in Nonces \cup {0}
    /\ calls \subseteq CallType
    /\ config \in DeviceIds \cup {None}
    /\ faults \in 0 .. MaxFaults
    /\ origin \in [DeviceIds -> Nonces \cup {0}]
    /\ denied \subseteq Nonces /\ revoked \subseteq DeviceIds

\* A code becomes at most one device, however many approvals and polls of it are
\* in flight at once.
OneDevicePerPairing ==
    \A d, e \in DeviceIds : origin[d] = origin[e] /\ origin[d] # 0 => d = e

\* A code that was denied while it was pending never becomes a device, whatever
\* approval of it was admitted before or comes later.
DeniedStaysOut ==
    \A d \in DeviceIds : devices[d].row => origin[d] # 0 /\ origin[d] \notin denied

\* The machine never holds a token the vault did not make a row for: what it
\* saved is a device, unless that was revoked since.
SavedIsEnrolled ==
    config # None => devices[config].row \/ config \in revoked

\* A device may use what the admin granted its code ("copied onto the device row
\* when the pairing is promoted", store/auth.go).
GrantIsCopied ==
    \A c \in calls :
        c.at = "dispose" /\ devices[c.device].row
            => devices[c.device].allow = c.allow

\* An admin who revokes a device is rid of it (DeleteDevice: "Subsequent requests
\* with that token 401"): its token is never accepted again.
RevokedStaysOut ==
    [][\A d \in revoked : Authenticates(d)' => Authenticates(d)]_vars

\* Nothing can bring the device back: revoked, its code expired, no poll of it in
\* flight.
IsGone(d) ==
    /\ d \in revoked /\ ~ Authenticates(d) /\ ~ Visible(origin[d])
    /\ \A c \in calls : c.device = d => c.at = "answered"

\* A revoked device is gone for good once its code has expired and the polls that
\* read it before are over.
RevokedStaysOutInTheEnd ==
    [][\A d \in DeviceIds : IsGone(d) => IsGone(d)']_vars

\* The code on the wizard's screen is the one it polls: what the user has
\* approved is what the machine waits for (handleOnboardingCloudPairKey: "the
\* phase check in App.Update ignores it").
ShownIsPolled ==
    phase = "pair" /\ shown # 0 => shown = nonce

\* An attempt whose code has expired ends: the machine does not poll for ever,
\* also when answers were lost.
ExpiredAttemptEnds ==
    (phase = "pair" /\ pairings[nonce].expires \in 1 .. now) ~> (phase # "pair")

\* A machine whose code is approved gets its token, unless an answer was lost, the
\* user backed out, the device was revoked or the code expires first.
ApprovedGetsToken ==
    (phase = "pair" /\ nonce = 1 /\ pairings[1].status = "approved")
      ~> \/ config # None /\ origin[config] = 1
         \/ faults > 0 \/ phase = "input" \/ nonce > 1 \/ ~ Visible(1)
         \/ revoked # {}

\* What holds of every state: each code makes one device at most, a denial is
\* final, and what the machine saved the vault knows.
EnrollmentInv ==
    /\ TypeOK
    /\ OneDevicePerPairing
    /\ DeniedStaysOut
    /\ SavedIsEnrolled

\* The wizard's attempt comes to an end, and a good one if nothing was in the way.
AttemptsEnd == ExpiredAttemptEnds /\ ApprovedGetsToken

=============================================================================
