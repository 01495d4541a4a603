-------------------------- MODULE EnrollmentProofs ---------------------------
(***************************************************************************)
(* For any number of machines' attempts, browsers, devices and faults: a   *)
(* code makes one device at most, a denied code none, what a machine saved *)
(* the vault knows, and a device that was revoked does not come back once  *)
(* its code has expired.                                                   *)
(***************************************************************************)
EXTENDS Enrollment, TLAPS

-----------------------------------------------------------------------------
(* The inductive invariant. *)

\* The columns of a row of pairings, of a request of a browser, of a row of devices.
RowType == [status : {"none", "pending", "approved", "denied"},
            device : DeviceIds \cup {None}, allow : SUBSET UNION Grants, expires : Nat]
TaskType == [op : {"none", "approve", "deny", "revoke"}, code : Nonces \cup {0},
             allow : SUBSET UNION Grants, device : DeviceIds \cup {None}]
DeviceType == [row : BOOLEAN, allow : SUBSET UNION Grants]

\* No device came of the code, and nobody denied it.
Unused(n) == n \notin denied /\ \A d \in DeviceIds : origin[d] # n

\* A call that asks for a code is the first of its attempt; one that inserts a row
\* has the device its code was approved with; one that has a token has a row.
CallOK(c) ==
    /\ c.nonce <= nonce
    /\ c.at # "answered" => c.answer = "none"
    /\ c.op = "init" /\ c.at = "sent" => pairings[c.nonce].status = "none" /\ Unused(c.nonce)
    /\ c.at \in {"insert", "dispose"} => c.device \in DeviceIds /\ origin[c.device] = c.nonce
    /\ c.at = "dispose" \/ c.answer = "approved" =>
         c.device \in DeviceIds /\ (devices[c.device].row \/ c.device \in revoked)

CallsOK ==
    /\ \A c \in calls : CallOK(c)
    /\ \A c, e \in calls :
         /\ c.op = "init" /\ c.at = "sent" /\ e.op = "init" /\ e.at = "sent"
         /\ c.nonce = e.nonce
         => c = e

\* A pending code has no device, an approved one has the one it was given.
PairingOK(n) ==
    /\ pairings[n].status = "approved" =>
         pairings[n].device \in DeviceIds /\ origin[pairings[n].device] = n
    /\ pairings[n].status = "pending" => Unused(n)
    /\ n > nonce => pairings[n].status = "none" /\ Unused(n)

PairingsOK == \A n \in Nonces : PairingOK(n)

DevicesOK ==
    \A d \in DeviceIds :
        /\ devices[d].row \/ d \in revoked => origin[d] # 0
        /\ origin[d] # 0 => origin[d] \notin denied

AdminsOK ==
    \A b \in Browsers :
        /\ adm[b].op \in {"approve", "deny"} => adm[b].code \in Nonces
        /\ adm[b].op = "revoke" => adm[b].device \in DeviceIds /\ origin[adm[b].device] # 0

MachineOK ==
    /\ SavedIsEnrolled
    /\ phase = "pair" => nonce # 0

EnrollmentIInv ==
    /\ TypeOK /\ OneDevicePerPairing
    /\ CallsOK /\ PairingsOK /\ DevicesOK /\ AdminsOK /\ MachineOK

\* The numbers are numbers, and None is no device.
LEMMA Parameters ==
    /\ PairingTTL \in Nat \ {0} /\ MaxNow \in Nat \ {0} /\ MaxAttempts \in Nat
    /\ MaxFaults \in Nat /\ MaxCalls \in Nat /\ None \notin DeviceIds
    /\ 0 \notin Nonces /\ Nonces \subseteq Nat
BY EnrollmentAssumption DEF Nonces

\* It holds at first.
LEMMA InitIInv == Init => EnrollmentIInv
<1> SUFFICES ASSUME Init PROVE EnrollmentIInv
  OBVIOUS
<1> USE Parameters
<1>1. /\ NoRequest \in TaskType /\ NoPairing \in RowType /\ NoDevice \in DeviceType
  BY DEF NoRequest, TaskType, NoPairing, RowType, NoDevice, DeviceType
<1>2. TypeOK
  <2>1. /\ adm \in [Browsers -> TaskType] /\ pairings \in [Nonces -> RowType]
        /\ devices \in [DeviceIds -> DeviceType]
    BY <1>1 DEF Init
  <2>2. /\ now \in 1 .. MaxNow /\ nonce \in Nonces \cup {0} /\ shown \in Nonces \cup {0}
        /\ faults \in 0 .. MaxFaults /\ origin \in [DeviceIds -> Nonces \cup {0}]
    BY DEF Init
  <2>3. /\ kind \in Kinds /\ phase \in Phases /\ calls \subseteq CallType
        /\ config \in DeviceIds \cup {None} /\ denied \subseteq Nonces
        /\ revoked \subseteq DeviceIds
    BY DEF Init, Phases
  <2> QED BY <2>1, <2>2, <2>3 DEF TypeOK, TaskType, RowType, DeviceType
<1>3. OneDevicePerPairing /\ CallsOK
  BY DEF Init, OneDevicePerPairing, CallsOK
<1>4. PairingsOK
  BY DEF Init, PairingsOK, PairingOK, NoPairing, Unused
<1>5. DevicesOK /\ AdminsOK
  BY DEF Init, DevicesOK, AdminsOK, NoDevice, NoRequest
<1>6. MachineOK
  BY DEF Init, MachineOK, SavedIsEnrolled
<1> QED BY <1>2, <1>3, <1>4, <1>5, <1>6 DEF EnrollmentIInv

-----------------------------------------------------------------------------
(* Calls. *)

\* A call that is made.
LEMMA NewCall ==
    ASSUME NEW op \in {"init", "poll"}, NEW n \in Nonces, NEW g \in 1 .. MaxCalls
    PROVE  /\ Call(op, n, g) \in CallType
           /\ Call(op, n, g).op = op /\ Call(op, n, g).nonce = n
           /\ Call(op, n, g).at = "sent" /\ Call(op, n, g).answer = "none"
           /\ Call(op, n, g).device = None
BY DEF Call, CallType, CallSteps, Answers

\* A call that is answered.
LEMMA AnsweredCall ==
    ASSUME NEW c \in CallType, NEW a \in Answers
    PROVE  /\ Answered(c, a) \in CallType
           /\ Answered(c, a).at = "answered" /\ Answered(c, a).answer = a
           /\ Answered(c, a).op = c.op /\ Answered(c, a).nonce = c.nonce
           /\ Answered(c, a).device = c.device
BY DEF Answered, CallType, CallSteps, Answers

\* The machine's own steps: of its calls none is told anything new but that it
\* failed, and none asks for a code.
LEMMA MachineStep ==
    ASSUME EnrollmentIInv, UNCHANGED <<now, vault, adm, kind, history, nonce>>,
           faults' \in 0 .. MaxFaults, phase' \in Phases, shown' \in Nonces \cup {0},
           phase' = "pair" => nonce # 0,
           \/ config' = config \/ config' = None
           \/ \E c \in calls : c.answer = "approved" /\ config' = c.device,
           \A x \in calls' :
              \/ x \in calls
              \/ /\ x \in CallType /\ x.nonce <= nonce
                 /\ \/ x.op = "poll" /\ x.at = "sent" /\ x.answer = "none"
                    \/ x.at = "answered" /\ x.answer # "approved"
    PROVE  EnrollmentIInv'
<1>1. config' \in DeviceIds \cup {None} /\ SavedIsEnrolled'
  BY DEF EnrollmentIInv, TypeOK, MachineOK, CallsOK, CallOK, SavedIsEnrolled, vault, history
<1>2. TypeOK'
  BY <1>1 DEF EnrollmentIInv, TypeOK, vault, history
<1>3. MachineOK'
  BY <1>1 DEF MachineOK
<1>4. ASSUME NEW x \in calls' PROVE CallOK(x)'
  <2>1. CASE x \in calls
    BY <2>1 DEF EnrollmentIInv, CallsOK, CallOK, Unused, vault, history
  <2>2. CASE x \notin calls
    BY <1>4, <2>2 DEF CallOK
  <2> QED BY <2>1, <2>2
<1>5. CallsOK'
  BY <1>4 DEF EnrollmentIInv, CallsOK
<1>6. OneDevicePerPairing' /\ PairingsOK' /\ DevicesOK' /\ AdminsOK'
  BY DEF EnrollmentIInv, OneDevicePerPairing, PairingsOK, PairingOK, DevicesOK, AdminsOK,
         Unused, vault, history
<1> QED BY <1>2, <1>3, <1>5, <1>6 DEF EnrollmentIInv

-----------------------------------------------------------------------------
(* The machine. *)

\* An attempt has a code of its own.
LEMMA StartStep ==
    ASSUME EnrollmentIInv, StartPairing
    PROVE  EnrollmentIInv'
<1> USE Parameters
<1>1. /\ nonce + 1 \in Nonces /\ nonce' = nonce + 1 /\ nonce \in Nat
      /\ \A n \in Nat : n <= nonce => n <= nonce' /\ n # nonce'
      /\ \A n \in Nat : n > nonce' => n > nonce
      /\ \A c \in calls : c.nonce \in Nat /\ c.nonce <= nonce
  BY DEF StartPairing, EnrollmentIInv, TypeOK, Nonces, CallsOK, CallOK, CallType
<1>2. PICK g \in 1 .. MaxCalls : calls' = calls \cup {Call("init", nonce', g)}
  <2>1. (CHOOSE g \in FreeGoroutines : TRUE) \in FreeGoroutines
    BY DEF StartPairing
  <2> QED BY <1>1, <2>1 DEF StartPairing, FreeGoroutines
<1> DEFINE x == Call("init", nonce', g)
<1>3. /\ x \in CallType /\ x.op = "init" /\ x.nonce = nonce' /\ x.at = "sent"
      /\ x.answer = "none"
  BY <1>1, <1>2, NewCall
<1> HIDE DEF x
<1>4. UNCHANGED <<now, vault, adm, kind, config, faults, history>>
      /\ phase' = "pair" /\ shown' = 0
  BY DEF StartPairing
<1>5. TypeOK'
  BY <1>1, <1>2, <1>3, <1>4 DEF x, EnrollmentIInv, TypeOK, Phases, vault, history
<1>6. pairings[nonce'].status = "none" /\ Unused(nonce')
  BY <1>1 DEF EnrollmentIInv, PairingsOK, PairingOK
<1>7. ASSUME NEW c \in calls' PROVE CallOK(c)'
  <2>1. CASE c \in calls
    <3>1. CallOK(c) /\ c.nonce <= nonce'
      BY <1>1, <2>1 DEF EnrollmentIInv, CallsOK
    <3> QED BY <1>4, <3>1 DEF CallOK, Unused, vault, history
  <2>2. CASE c = x
    BY <1>1, <1>3, <1>4, <1>6, <2>2 DEF CallOK, Unused, vault, history
  <2> QED BY <1>2, <2>1, <2>2 DEF x
<1>8. \A c \in calls : c.nonce # x.nonce
  BY <1>1, <1>3
<1>9. CallsOK'
  BY <1>2, <1>7, <1>8 DEF x, EnrollmentIInv, CallsOK
<1>10. PairingsOK'
  BY <1>1, <1>4 DEF EnrollmentIInv, PairingsOK, PairingOK, Unused, vault, history
<1>11. OneDevicePerPairing' /\ DevicesOK' /\ AdminsOK'
  BY <1>4 DEF EnrollmentIInv, OneDevicePerPairing, DevicesOK, AdminsOK, vault, history
<1>12. MachineOK'
  BY <1>1, <1>4 DEF EnrollmentIInv, MachineOK, SavedIsEnrolled, vault, history
<1> QED BY <1>5, <1>9, <1>10, <1>11, <1>12 DEF EnrollmentIInv

\* The machine's other steps.
LEMMA MachineSteps ==
    ASSUME EnrollmentIInv,
           BackOut \/ Unpair \/ Receive \/ Fault
    PROVE  EnrollmentIInv'
<1> USE Parameters
<1>0. /\ calls \subseteq CallType /\ faults \in 0 .. MaxFaults /\ shown \in Nonces \cup {0}
      /\ phase \in Phases /\ nonce \in Nonces \cup {0}
      /\ phase = "pair" => nonce \in Nonces
      /\ \A c \in calls : CallOK(c) /\ c.nonce <= nonce /\ c.nonce \in Nonces
      /\ nonce <= nonce
  BY DEF EnrollmentIInv, TypeOK, MachineOK, CallsOK, CallOK, CallType, Nonces
<1>1. CASE BackOut
  BY <1>0, <1>1, MachineStep DEF BackOut, Phases
<1>2. CASE Unpair
  BY <1>0, <1>2, MachineStep DEF Unpair, Phases
<1>3. ASSUME NEW c \in calls, phase = "pair",
             calls' = Instead(c, Call("poll", nonce, c.by))
      PROVE  \A x \in calls' :
              \/ x \in calls
              \/ /\ x \in CallType /\ x.nonce <= nonce
                 /\ x.op = "poll" /\ x.at = "sent" /\ x.answer = "none"
  <2>1. c.by \in 1 .. MaxCalls
    BY <1>0 DEF CallType
  <2> QED BY <1>0, <1>3, <2>1, NewCall DEF Instead
<1>4. ASSUME NEW c \in calls, ReceiveInit(c) PROVE EnrollmentIInv'
  <2>1. CASE PollAgain(c) /\ phase = "pair" /\ shown' = c.nonce
    <3>1. \A x \in calls' :
              \/ x \in calls
              \/ /\ x \in CallType /\ x.nonce <= nonce
                 /\ x.op = "poll" /\ x.at = "sent" /\ x.answer = "none"
      BY <1>3, <2>1 DEF PollAgain
    <3> QED BY <1>0, <1>4, <2>1, <3>1, MachineStep DEF ReceiveInit, PollAgain
  <2>2. CASE calls' = calls \ {c}
    BY <1>0, <1>4, <2>2, MachineStep DEF ReceiveInit, Fails, PollAgain, Phases
  <2> QED BY <1>4, <2>1, <2>2 DEF ReceiveInit
<1>5. ASSUME NEW c \in calls, ReceivePoll(c) PROVE EnrollmentIInv'
  <2>1. CASE PollAgain(c) /\ phase = "pair" /\ UNCHANGED shown
    <3>1. \A x \in calls' :
              \/ x \in calls
              \/ /\ x \in CallType /\ x.nonce <= nonce
                 /\ x.op = "poll" /\ x.at = "sent" /\ x.answer = "none"
      BY <1>3, <2>1 DEF PollAgain
    <3> QED BY <1>0, <1>5, <2>1, <3>1, MachineStep DEF ReceivePoll, PollAgain
  <2>2. CASE calls' = calls \ {c}
    <3>1. /\ UNCHANGED <<now, vault, adm, kind, history, nonce, faults>>
          /\ phase' \in Phases /\ (phase' = "pair" => phase = "pair")
          /\ shown' = shown
          /\ config' = config \/ (c.answer = "approved" /\ config' = c.device)
      BY <1>0, <1>5, <2>2 DEF ReceivePoll, Fails, PollAgain, Phases
    <3> QED BY <1>0, <2>2, <3>1, MachineStep
  <2> QED BY <1>5, <2>1, <2>2 DEF ReceivePoll
<1>6. ASSUME NEW c \in calls, ReceiveUnsaved(c) PROVE EnrollmentIInv'
  <2>1. faults' \in 0 .. MaxFaults
    BY <1>0, <1>6 DEF ReceiveUnsaved
  <2> QED BY <1>0, <1>6, <2>1, MachineStep DEF ReceiveUnsaved, Fails, Phases
<1>7. ASSUME NEW c \in calls, Lose(c) PROVE EnrollmentIInv'
  <2>1. faults' \in 0 .. MaxFaults
    BY <1>0, <1>7 DEF Lose
  <2>2. \A x \in calls' :
            \/ x \in calls
            \/ /\ x \in CallType /\ x.nonce <= nonce
               /\ x.at = "answered" /\ x.answer # "approved"
    BY <1>0, <1>7, AnsweredCall DEF Lose, Instead, Answers
  <2> QED BY <1>0, <1>7, <2>1, <2>2, MachineStep DEF Lose
<1> QED BY <1>1, <1>2, <1>4, <1>5, <1>6, <1>7 DEF Receive, Fault

-----------------------------------------------------------------------------
(* The vault. *)

\* Expired rows go, the others stay.
LEMMA SweptRows ==
    ASSUME EnrollmentIInv
    PROVE  /\ Swept \in [Nonces -> RowType]
           /\ \A n \in Nonces : Swept[n] = pairings[n] \/ Swept[n].status = "none"
<1>1. pairings \in [Nonces -> RowType] /\ NoPairing \in RowType /\ NoPairing.status = "none"
  BY DEF EnrollmentIInv, TypeOK, RowType, NoPairing
<1> QED BY <1>1 DEF Swept

\* A denial is of a pending row.
LEMMA DeniedRows ==
    \A rows \in [Nonces -> RowType], n \in Nonces :
        /\ DenyPairing(rows, n) \in [Nonces -> RowType]
        /\ \A m \in Nonces :
             \/ DenyPairing(rows, n)[m] = rows[m]
             \/ rows[m].status = "pending" /\ DenyPairing(rows, n)[m].status = "denied"
<1> SUFFICES ASSUME NEW rows \in [Nonces -> RowType], NEW n \in Nonces
             PROVE  /\ DenyPairing(rows, n) \in [Nonces -> RowType]
                    /\ \A m \in Nonces :
                         \/ DenyPairing(rows, n)[m] = rows[m]
                         \/ /\ rows[m].status = "pending"
                            /\ DenyPairing(rows, n)[m].status = "denied"
  OBVIOUS
<1>1. [rows[n] EXCEPT !.status = "denied"] \in RowType
      /\ [rows[n] EXCEPT !.status = "denied"].status = "denied"
  BY DEF RowType
<1>2. [rows EXCEPT ![n].status = "denied"]
        = [rows EXCEPT ![n] = [rows[n] EXCEPT !.status = "denied"]]
  OBVIOUS
<1> QED BY <1>1, <1>2 DEF DenyPairing

\* A step that only takes rows of pairings away, or denies them.
LEMMA RowsFade ==
    ASSUME EnrollmentIInv, pairings' \in [Nonces -> RowType],
           \A n \in Nonces :
              \/ pairings'[n] = pairings[n]
              \/ pairings'[n].status = "none"
              \/ pairings[n].status # "none" /\ pairings'[n].status = "denied",
           UNCHANGED <<nonce, origin, devices, denied, revoked>>
    PROVE  PairingsOK' /\ \A c \in calls : CallOK(c)'
<1>1. PairingsOK'
  BY DEF EnrollmentIInv, PairingsOK, PairingOK, Unused
<1>2. ASSUME NEW c \in calls PROVE CallOK(c)'
  <2>1. CallOK(c) /\ c.nonce \in Nonces
    BY DEF EnrollmentIInv, CallsOK, TypeOK, CallType
  <2>2. pairings[c.nonce].status = "none" => pairings'[c.nonce].status = "none"
    BY <2>1
  <2> QED BY <2>1, <2>2 DEF CallOK, Unused
<1> QED BY <1>1, <1>2

\* A call becomes another that does not ask for a code.
LEMMA OneCall ==
    ASSUME EnrollmentIInv, NEW c \in calls, NEW x \in CallType,
           calls' = Instead(c, x), x.op = "init" => x.at # "sent", CallOK(x)',
           \A e \in calls \ {c} : CallOK(e)'
    PROVE  CallsOK' /\ calls' \subseteq CallType
BY DEF EnrollmentIInv, CallsOK, TypeOK, Instead

LEMMA PairInitStep ==
    ASSUME EnrollmentIInv, NEW c \in calls, PairInit(c)
    PROVE  EnrollmentIInv'
<1> USE Parameters
<1> DEFINE n == c.nonce
           q == [status |-> "pending", device |-> None, allow |-> {},
                 expires |-> now + PairingTTL]
           x == Answered(c, "ok")
<1>0. /\ c \in CallType /\ n \in Nonces /\ CallOK(c) /\ c.op = "init" /\ c.at = "sent"
      /\ now \in Nat
  BY DEF PairInit, EnrollmentIInv, CallsOK, TypeOK, CallType
<1>2. /\ pairings' = [Swept EXCEPT ![n] = q]
      /\ calls' = Instead(c, x)
      /\ UNCHANGED <<now, devices, adm, kind, phase, nonce, shown, config, faults, history>>
  BY DEF PairInit
<1>3. q \in RowType /\ q.status = "pending"
  BY <1>0 DEF RowType
<1>4. x \in CallType /\ x.at = "answered" /\ x.answer = "ok" /\ x.nonce = n
  BY <1>0, AnsweredCall DEF Answers
<1> HIDE DEF q, x
<1>5. /\ pairings' \in [Nonces -> RowType] /\ pairings'[n].status = "pending"
      /\ \A m \in Nonces \ {n} : pairings'[m] = pairings[m] \/ pairings'[m].status = "none"
  BY <1>0, <1>2, <1>3, SweptRows
<1>6. Unused(n) /\ n <= nonce
  BY <1>0 DEF CallOK
<1>7. PairingsOK'
  <2> SUFFICES ASSUME NEW m \in Nonces PROVE PairingOK(m)'
    BY DEF PairingsOK
  <2>1. CASE m = n
    <3>1. ~ (n > nonce)
      BY <1>0, <1>6 DEF EnrollmentIInv, TypeOK, Nonces
    <3> QED BY <1>2, <1>5, <1>6, <2>1, <3>1 DEF PairingOK, Unused, history
  <2>2. CASE m # n
    <3>1. PairingOK(m)
      BY DEF EnrollmentIInv, PairingsOK
    <3> QED BY <1>2, <1>5, <2>2, <3>1 DEF PairingOK, Unused, history
  <2> QED BY <2>1, <2>2
<1>8. ASSUME NEW e \in calls \ {c} PROVE CallOK(e)'
  <2>1. CallOK(e) /\ e.nonce \in Nonces
    BY DEF EnrollmentIInv, CallsOK, TypeOK, CallType
  <2>2. e.op = "init" /\ e.at = "sent" => e.nonce # n
    BY <1>0, <1>8 DEF EnrollmentIInv, CallsOK
  <2> QED BY <1>2, <1>5, <2>1, <2>2 DEF CallOK, Unused, history
<1>9. CallOK(x)'
  BY <1>2, <1>4, <1>6 DEF CallOK
<1>10. CallsOK' /\ calls' \subseteq CallType
  BY <1>2, <1>4, <1>8, <1>9, OneCall
<1>11. TypeOK'
  BY <1>2, <1>5, <1>10 DEF EnrollmentIInv, TypeOK, RowType, history
<1>12. OneDevicePerPairing' /\ DevicesOK' /\ AdminsOK' /\ MachineOK'
  BY <1>2 DEF EnrollmentIInv, OneDevicePerPairing, DevicesOK, AdminsOK, MachineOK,
              SavedIsEnrolled, history
<1> QED BY <1>7, <1>10, <1>11, <1>12 DEF EnrollmentIInv

\* A poll reads the row, and takes the device of an approved one.
LEMMA PollFindStep ==
    ASSUME EnrollmentIInv, NEW c \in calls, PollFind(c)
    PROVE  EnrollmentIInv'
<1> USE Parameters
<1> DEFINE row == pairings[c.nonce]
           ins == [c EXCEPT !.at = "insert", !.device = row.device, !.allow = row.allow]
<1>0. /\ c \in CallType /\ c.nonce \in Nonces /\ CallOK(c) /\ c.op = "poll" /\ c.at = "sent"
      /\ c.answer = "none" /\ row \in RowType
      /\ row.status \in {"none", "pending", "approved", "denied"}
  BY DEF PollFind, EnrollmentIInv, CallsOK, CallOK, TypeOK, CallType, RowType
<1>1. UNCHANGED <<now, vault, adm, kind, phase, nonce, shown, config, faults, history>>
  BY DEF PollFind
<1>2. PICK x \in CallType :
          /\ calls' = Instead(c, x) /\ x.nonce = c.nonce
          /\ \/ x.at = "answered" /\ x.answer # "approved"
             \/ /\ x.at = "insert" /\ x.answer = "none"
                /\ row.status = "approved" /\ x.device = row.device
  <2>1. CASE Visible(c.nonce) /\ row.status = "approved"
    <3>1. ins \in CallType /\ ins.nonce = c.nonce /\ ins.at = "insert"
          /\ ins.answer = "none" /\ ins.device = row.device
      BY <1>0 DEF CallType, CallSteps, RowType
    <3>2. calls' = Instead(c, ins)
      BY <2>1 DEF PollFind
    <3> QED BY <2>1, <3>1, <3>2
  <2>2. CASE ~ (Visible(c.nonce) /\ row.status = "approved")
    <3>1. PICK a \in {"expired", "none", "pending", "denied"} : calls' = Instead(c, Answered(c, a))
      BY <1>0, <2>2 DEF PollFind
    <3> QED BY <1>0, <3>1, AnsweredCall DEF Answers
  <2> QED BY <2>1, <2>2
<1>3. \A e \in calls : CallOK(e)'
  BY <1>1 DEF EnrollmentIInv, CallsOK, CallOK, Unused, vault, history
<1>4. CallOK(x)'
  <2>1. row.status = "approved" => row.device \in DeviceIds /\ origin[row.device] = c.nonce
    BY <1>0 DEF EnrollmentIInv, PairingsOK, PairingOK
  <2>2. c.nonce <= nonce
    BY <1>0 DEF CallOK
  <2> QED BY <1>0, <1>1, <1>2, <2>1, <2>2 DEF CallOK, history
<1>5. CallsOK' /\ calls' \subseteq CallType
  BY <1>2, <1>3, <1>4, OneCall
<1>6. TypeOK'
  BY <1>1, <1>5 DEF EnrollmentIInv, TypeOK, vault, history
<1>7. OneDevicePerPairing' /\ PairingsOK' /\ DevicesOK' /\ AdminsOK' /\ MachineOK'
  BY <1>1 DEF EnrollmentIInv, OneDevicePerPairing, PairingsOK, PairingOK, DevicesOK, AdminsOK,
              MachineOK, SavedIsEnrolled, Unused, vault, history
<1> QED BY <1>5, <1>6, <1>7 DEF EnrollmentIInv

\* It inserts the row of the device, if there is none.
LEMMA PollInsertStep ==
    ASSUME EnrollmentIInv, NEW c \in calls, PollInsert(c)
    PROVE  EnrollmentIInv'
<1> USE Parameters
<1>0. /\ c \in CallType /\ CallOK(c) /\ c.at = "insert" /\ c.answer = "none"
      /\ c.device \in DeviceIds /\ origin[c.device] = c.nonce /\ c.nonce \in Nonces
      /\ c.allow \in SUBSET UNION Grants
  BY DEF PollInsert, EnrollmentIInv, CallsOK, CallOK, TypeOK, CallType
<1>1. UNCHANGED <<now, pairings, adm, kind, phase, nonce, shown, config, faults, history>>
  BY DEF PollInsert
<1>2. /\ devices' \in [DeviceIds -> DeviceType]
      /\ \A d \in DeviceIds : devices[d].row => devices'[d].row
      /\ \A d \in DeviceIds : devices'[d].row => devices[d].row \/ d = c.device
  <2>1. devices \in [DeviceIds -> DeviceType]
    BY DEF EnrollmentIInv, TypeOK, DeviceType
  <2>2. [row |-> TRUE, allow |-> Promoted(c.allow)] \in DeviceType
    BY <1>0 DEF DeviceType, Promoted
  <2> QED BY <1>0, <2>1, <2>2 DEF PollInsert
<1>3. PICK x \in CallType :
          /\ calls' = Instead(c, x) /\ x.nonce = c.nonce
          /\ \/ x.at = "answered" /\ x.answer # "approved"
             \/ /\ x.at = "dispose" /\ x.answer = "none"
                /\ x.device = c.device /\ devices'[c.device].row
  <2>1. CASE devices[c.device].row
    <3>1. calls' = Instead(c, Answered(c, "error"))
      BY <2>1 DEF PollInsert
    <3> QED BY <1>0, <3>1, AnsweredCall DEF Answers
  <2>2. CASE ~ devices[c.device].row
    <3> DEFINE x == [c EXCEPT !.at = "dispose"]
    <3>1. x \in CallType /\ x.nonce = c.nonce /\ x.at = "dispose" /\ x.answer = "none"
          /\ x.device = c.device
      BY <1>0 DEF CallType, CallSteps
    <3>2. /\ calls' = Instead(c, x)
          /\ devices' = [devices EXCEPT ![c.device] =
                           [row |-> TRUE, allow |-> Promoted(c.allow)]]
      BY <2>2 DEF PollInsert
    <3>3. devices'[c.device].row
      BY <1>0, <3>2 DEF EnrollmentIInv, TypeOK
    <3> QED BY <3>1, <3>2, <3>3
  <2> QED BY <2>1, <2>2
<1>4. \A e \in calls : CallOK(e)'
  BY <1>1, <1>2 DEF EnrollmentIInv, CallsOK, CallOK, Unused, history
<1>5. CallOK(x)'
  BY <1>0, <1>1, <1>3 DEF CallOK, history
<1>6. CallsOK' /\ calls' \subseteq CallType
  BY <1>3, <1>4, <1>5, OneCall
<1>7. TypeOK'
  BY <1>1, <1>2, <1>6 DEF EnrollmentIInv, TypeOK, DeviceType, history
<1>8. DevicesOK'
  BY <1>0, <1>1, <1>2 DEF EnrollmentIInv, DevicesOK, history
<1>9. OneDevicePerPairing' /\ PairingsOK' /\ AdminsOK'
  BY <1>1 DEF EnrollmentIInv, OneDevicePerPairing, PairingsOK, PairingOK, AdminsOK, Unused,
              history
<1>10. MachineOK'
  BY <1>1, <1>2 DEF EnrollmentIInv, MachineOK, SavedIsEnrolled, TypeOK, history
<1> QED BY <1>6, <1>7, <1>8, <1>9, <1>10 DEF EnrollmentIInv

\* It denies the code and answers with the token.
LEMMA PollDisposeStep ==
    ASSUME EnrollmentIInv, NEW c \in calls, PollDispose(c)
    PROVE  EnrollmentIInv'
<1> USE Parameters
<1> DEFINE x == Answered(c, "approved")
<1>0. /\ c \in CallType /\ c.nonce \in Nonces /\ CallOK(c) /\ c.at = "dispose"
  BY DEF PollDispose, EnrollmentIInv, CallsOK, TypeOK, CallType
<1>1. /\ UNCHANGED <<now, devices, adm, kind, phase, nonce, shown, config, faults, history>>
      /\ pairings' = DenyPairing(Swept, c.nonce) /\ calls' = Instead(c, x)
  BY DEF PollDispose
<1>2. x \in CallType /\ x.at = "answered" /\ x.answer = "approved" /\ x.nonce = c.nonce
      /\ x.device = c.device
  BY <1>0, AnsweredCall DEF Answers
<1> HIDE DEF x
<1>3. /\ pairings' \in [Nonces -> RowType]
      /\ \A n \in Nonces :
            \/ pairings'[n] = pairings[n]
            \/ pairings'[n].status = "none"
            \/ pairings[n].status # "none" /\ pairings'[n].status = "denied"
  <2>0. PICK S : S = Swept
    OBVIOUS
  <2>1. /\ S \in [Nonces -> RowType]
        /\ \A n \in Nonces : S[n] = pairings[n] \/ S[n].status = "none"
    BY <2>0, SweptRows
  <2>4. S \in [Nonces -> RowType] /\ c.nonce \in Nonces
    BY <1>0, <2>1
  <2>2. /\ DenyPairing(S, c.nonce) \in [Nonces -> RowType]
        /\ \A m \in Nonces :
              \/ DenyPairing(S, c.nonce)[m] = S[m]
              \/ S[m].status = "pending" /\ DenyPairing(S, c.nonce)[m].status = "denied"
    BY <2>4, DeniedRows, Zenon
  <2>3. pairings' = DenyPairing(S, c.nonce)
    BY <1>1, <2>0
  <2> QED BY <2>1, <2>2, <2>3
<1>4. PairingsOK' /\ \A e \in calls : CallOK(e)'
  BY <1>1, <1>3, RowsFade DEF history
<1>5. CallOK(x)'
  BY <1>0, <1>1, <1>2 DEF CallOK, history
<1>6. CallsOK' /\ calls' \subseteq CallType
  BY <1>1, <1>2, <1>4, <1>5, OneCall
<1>7. TypeOK'
  BY <1>1, <1>3, <1>6 DEF EnrollmentIInv, TypeOK, RowType, history
<1>8. OneDevicePerPairing' /\ DevicesOK' /\ AdminsOK' /\ MachineOK'
  BY <1>1 DEF EnrollmentIInv, OneDevicePerPairing, DevicesOK, AdminsOK, MachineOK,
              SavedIsEnrolled, history
<1> QED BY <1>4, <1>6, <1>7, <1>8 DEF EnrollmentIInv

-----------------------------------------------------------------------------
(* The admin. *)

\* A request is let through.
LEMMA GateStep ==
    ASSUME EnrollmentIInv, NEW b \in Browsers, NEW t \in TaskType, Gate(b, t),
           t.op \in {"approve", "deny"} => t.code \in Nonces,
           t.op = "revoke" => t.device \in DeviceIds /\ origin[t.device] # 0
    PROVE  EnrollmentIInv'
<1>1. /\ adm' = [adm EXCEPT ![b] = t]
      /\ UNCHANGED <<now, machine, faults, vault, history>>
  BY DEF Gate, Ask, AdminKeeps
<1>2. adm \in [Browsers -> TaskType]
  BY DEF EnrollmentIInv, TypeOK, TaskType
<1>3. TypeOK'
  BY <1>1, <1>2 DEF EnrollmentIInv, TypeOK, TaskType, machine, vault, history
<1>4. AdminsOK'
  BY <1>1, <1>2 DEF EnrollmentIInv, AdminsOK, history
<1>5. OneDevicePerPairing' /\ CallsOK' /\ PairingsOK' /\ DevicesOK' /\ MachineOK'
  BY <1>1 DEF EnrollmentIInv, OneDevicePerPairing, CallsOK, CallOK, PairingsOK, PairingOK,
              DevicesOK, MachineOK, SavedIsEnrolled, Unused, machine, vault, history
<1> QED BY <1>3, <1>4, <1>5 DEF EnrollmentIInv

\* The request of a browser is over.
LEMMA AskedNothing ==
    ASSUME EnrollmentIInv, NEW b \in Browsers, Ask(b, NoRequest),
           \A d \in DeviceIds : origin[d] # 0 => origin'[d] # 0
    PROVE  adm' \in [Browsers -> TaskType] /\ AdminsOK'
<1>1. NoRequest \in TaskType /\ NoRequest.op = "none"
  BY DEF NoRequest, TaskType
<1>2. adm \in [Browsers -> TaskType] /\ adm' = [adm EXCEPT ![b] = NoRequest]
  BY DEF EnrollmentIInv, TypeOK, TaskType, Ask
<1>3. adm' \in [Browsers -> TaskType]
  BY <1>1, <1>2
<1>4. \A e \in Browsers : adm'[e] = adm[e] \/ adm'[e].op = "none"
  BY <1>1, <1>2
<1>5. AdminsOK'
  BY <1>4 DEF EnrollmentIInv, AdminsOK
<1> QED BY <1>3, <1>5

\* A row that is approved.
LEMMA ApprovedRow ==
    \A r \in RowType, d \in DeviceIds, g \in SUBSET UNION Grants :
        [r EXCEPT !.status = "approved", !.device = d, !.allow = g] \in RowType
BY DEF RowType

\* A pending code gets a device that no code had.
LEMMA ApproveStep ==
    ASSUME EnrollmentIInv, NEW b \in Browsers, ApprovePairing(b)
    PROVE  EnrollmentIInv'
<1> USE Parameters
<1> DEFINE n == adm[b].code
<1>0. /\ n \in Nonces /\ adm[b].allow \in SUBSET UNION Grants
      /\ UNCHANGED <<now, machine, faults, devices, denied, revoked>> /\ Ask(b, NoRequest)
  BY DEF ApprovePairing, EnrollmentIInv, AdminsOK, TypeOK, AdminKeeps
<1>1. CASE UNCHANGED <<pairings, origin>>
  <2>1. adm' \in [Browsers -> TaskType] /\ AdminsOK'
    BY <1>0, <1>1, AskedNothing
  <2>2. TypeOK'
    BY <1>0, <1>1, <2>1 DEF EnrollmentIInv, TypeOK, TaskType, machine
  <2>3. OneDevicePerPairing' /\ CallsOK' /\ PairingsOK' /\ DevicesOK' /\ MachineOK'
    BY <1>0, <1>1 DEF EnrollmentIInv, OneDevicePerPairing, CallsOK, CallOK, PairingsOK,
                      PairingOK, DevicesOK, MachineOK, SavedIsEnrolled, Unused, machine
  <2> QED BY <2>1, <2>2, <2>3 DEF EnrollmentIInv
<1>2. CASE pairings[n].status = "pending" /\ FreshDevices # {} /\ ~ UNCHANGED <<pairings, origin>>
  <2>1. PICK d \in FreshDevices :
            /\ pairings' = [pairings EXCEPT ![n].status = "approved",
                              ![n].device = d, ![n].allow = adm[b].allow]
            /\ origin' = [origin EXCEPT ![d] = n]
    <3>1. (CHOOSE d \in FreshDevices : TRUE) \in FreshDevices
      BY <1>2
    <3> QED BY <1>2, <3>1 DEF ApprovePairing
  <2> DEFINE q == [pairings[n] EXCEPT !.status = "approved", !.device = d,
                     !.allow = adm[b].allow]
  <2>2. /\ d \in DeviceIds /\ origin[d] = 0
        /\ pairings \in [Nonces -> RowType] /\ origin \in [DeviceIds -> Nonces \cup {0}]
    BY <2>1 DEF FreshDevices, EnrollmentIInv, TypeOK, RowType
  <2>3. pairings' = [pairings EXCEPT ![n] = q]
    BY <1>0, <2>1, <2>2
  <2>4. q \in RowType /\ q.status = "approved" /\ q.device = d
    <3>1. pairings[n] \in RowType /\ d \in DeviceIds /\ adm[b].allow \in SUBSET UNION Grants
      BY <1>0, <2>2
    <3>2. q \in RowType
      BY <3>1, ApprovedRow, Zenon
    <3>3. q.status = "approved" /\ q.device = d
      BY <3>1 DEF RowType
    <3> QED BY <3>2, <3>3
  <2> HIDE DEF q
  <2>5. Unused(n) /\ ~ (n > nonce)
    BY <1>0, <1>2 DEF EnrollmentIInv, PairingsOK, PairingOK
  <2>6. /\ origin'[d] = n /\ n # 0
        /\ \A e \in DeviceIds \ {d} : origin'[e] = origin[e]
        /\ \A e \in DeviceIds : origin[e] # 0 => origin'[e] = origin[e]
        /\ origin' \in [DeviceIds -> Nonces \cup {0}]
    BY <1>0, <2>1, <2>2
  <2>7. /\ pairings' \in [Nonces -> RowType] /\ pairings'[n] = q
        /\ \A m \in Nonces \ {n} : pairings'[m] = pairings[m]
    BY <1>0, <2>2, <2>3, <2>4
  <2>8. adm' \in [Browsers -> TaskType] /\ AdminsOK'
    BY <1>0, <2>6, AskedNothing
  <2>9. TypeOK'
    BY <1>0, <2>6, <2>7, <2>8 DEF EnrollmentIInv, TypeOK, TaskType, RowType, machine
  <2>10. OneDevicePerPairing'
    BY <2>5, <2>6 DEF EnrollmentIInv, OneDevicePerPairing, Unused
  <2>11. PairingsOK'
    <3> SUFFICES ASSUME NEW m \in Nonces PROVE PairingOK(m)'
      BY DEF PairingsOK
    <3>1. PairingOK(m)
      BY DEF EnrollmentIInv, PairingsOK
    <3>2. CASE m = n
      BY <1>0, <2>2, <2>4, <2>5, <2>6, <2>7, <3>2 DEF PairingOK, machine
    <3>3. CASE m # n
      <4>1. Unused(m) => Unused(m)'
        BY <1>0, <2>6, <3>3 DEF Unused
      <4>2. pairings'[m] = pairings[m] /\ nonce' = nonce
        BY <1>0, <2>7, <3>3 DEF machine
      <4>3. pairings[m].status = "approved" =>
              pairings[m].device \in DeviceIds /\ origin'[pairings[m].device] = m
        BY <2>2, <2>6, <3>1 DEF PairingOK
      <4> QED BY <3>1, <4>1, <4>2, <4>3 DEF PairingOK
    <3> QED BY <3>2, <3>3
  <2>12. ASSUME NEW c \in calls PROVE CallOK(c)'
    <3>1. CallOK(c) /\ c.nonce \in Nonces
      BY DEF EnrollmentIInv, CallsOK, TypeOK, CallType
    <3>2. c.op = "init" /\ c.at = "sent" =>
            /\ c.nonce # n
            /\ pairings'[c.nonce] = pairings[c.nonce] /\ Unused(c.nonce)'
      <4>1. c.op = "init" /\ c.at = "sent" => c.nonce # n
        BY <1>2, <3>1 DEF CallOK
      <4> QED BY <1>0, <2>6, <2>7, <3>1, <4>1 DEF CallOK, Unused
    <3> QED BY <1>0, <2>6, <3>1, <3>2 DEF CallOK, machine
  <2>13. CallsOK'
    BY <1>0, <2>12 DEF EnrollmentIInv, CallsOK, machine
  <2>14. DevicesOK'
    BY <1>0, <2>5, <2>6 DEF EnrollmentIInv, DevicesOK, Unused
  <2>15. MachineOK'
    BY <1>0 DEF EnrollmentIInv, MachineOK, SavedIsEnrolled, machine
  <2> QED BY <2>8, <2>9, <2>10, <2>11, <2>13, <2>14, <2>15 DEF EnrollmentIInv
<1> QED BY <1>1, <1>2 DEF ApprovePairing

\* A pending code, which has no device, is denied.
LEMMA DenyStep ==
    ASSUME EnrollmentIInv, NEW b \in Browsers, Deny(b)
    PROVE  EnrollmentIInv'
<1> USE Parameters
<1> DEFINE n == adm[b].code
<1>0. /\ n \in Nonces /\ pairings' = DenyPairing(pairings, n)
      /\ denied' = IF pairings' # pairings THEN denied \cup {n} ELSE denied
      /\ UNCHANGED <<now, machine, faults, devices, origin, revoked>> /\ Ask(b, NoRequest)
  BY DEF Deny, EnrollmentIInv, AdminsOK, AdminKeeps
<1>1. pairings \in [Nonces -> RowType]
  BY DEF EnrollmentIInv, TypeOK, RowType
<1>2. adm' \in [Browsers -> TaskType] /\ AdminsOK'
  BY <1>0, AskedNothing
<1>3. CASE pairings' = pairings
  <2>1. TypeOK'
    BY <1>0, <1>2, <1>3 DEF EnrollmentIInv, TypeOK, TaskType, machine
  <2>2. OneDevicePerPairing' /\ CallsOK' /\ PairingsOK' /\ DevicesOK' /\ MachineOK'
    BY <1>0, <1>3 DEF EnrollmentIInv, OneDevicePerPairing, CallsOK, CallOK, PairingsOK,
                      PairingOK, DevicesOK, MachineOK, SavedIsEnrolled, Unused, machine
  <2> QED BY <1>2, <2>1, <2>2 DEF EnrollmentIInv
<1>4. CASE pairings' # pairings
  <2>1. pairings[n].status = "pending" /\ pairings' = [pairings EXCEPT ![n].status = "denied"]
    BY <1>0, <1>4 DEF DenyPairing
  <2>2. /\ pairings' \in [Nonces -> RowType] /\ pairings'[n].status = "denied"
        /\ \A m \in Nonces \ {n} : pairings'[m] = pairings[m]
    BY <1>0, <1>1, <2>1 DEF RowType
  <2>3. denied' = denied \cup {n} /\ \A d \in DeviceIds : origin[d] # n
    BY <1>0, <1>4, <2>1 DEF EnrollmentIInv, PairingsOK, PairingOK, Unused
  <2>4. ~ (n > nonce)
    BY <1>0, <2>1 DEF EnrollmentIInv, PairingsOK, PairingOK
  <2>5. \A m \in Nonces \ {n} : Unused(m) => Unused(m)'
    BY <1>0, <2>3 DEF Unused
  <2>6. TypeOK'
    BY <1>0, <1>2, <2>2, <2>3 DEF EnrollmentIInv, TypeOK, TaskType, RowType, machine
  <2>7. PairingsOK'
    <3> SUFFICES ASSUME NEW m \in Nonces PROVE PairingOK(m)'
      BY DEF PairingsOK
    <3>1. PairingOK(m)
      BY DEF EnrollmentIInv, PairingsOK
    <3>2. CASE m = n
      BY <1>0, <2>2, <2>4, <3>2 DEF PairingOK, machine
    <3>3. CASE m # n
      BY <1>0, <2>2, <2>5, <3>1, <3>3 DEF PairingOK, machine
    <3> QED BY <3>2, <3>3
  <2>8. ASSUME NEW c \in calls PROVE CallOK(c)'
    <3>1. CallOK(c) /\ c.nonce \in Nonces
      BY DEF EnrollmentIInv, CallsOK, TypeOK, CallType
    <3>2. c.op = "init" /\ c.at = "sent" => c.nonce # n
      BY <2>1, <3>1 DEF CallOK
    <3> QED BY <1>0, <2>2, <2>5, <3>1, <3>2 DEF CallOK, machine
  <2>9. CallsOK'
    BY <1>0, <2>8 DEF EnrollmentIInv, CallsOK, machine
  <2>10. DevicesOK'
    BY <1>0, <2>3 DEF EnrollmentIInv, DevicesOK
  <2>11. OneDevicePerPairing' /\ MachineOK'
    BY <1>0 DEF EnrollmentIInv, OneDevicePerPairing, MachineOK, SavedIsEnrolled, machine
  <2> QED BY <1>2, <2>6, <2>7, <2>9, <2>10, <2>11 DEF EnrollmentIInv
<1> QED BY <1>3, <1>4

\* The row of a device goes, and it counts as revoked.
LEMMA DeleteStep ==
    ASSUME EnrollmentIInv, NEW b \in Browsers, DeleteDevice(b)
    PROVE  EnrollmentIInv'
<1> USE Parameters
<1> DEFINE d == adm[b].device
<1>0. /\ d \in DeviceIds /\ origin[d] # 0
      /\ devices' = [devices EXCEPT ![d] = NoDevice] /\ revoked' = revoked \cup {d}
      /\ UNCHANGED <<now, machine, faults, pairings, origin, denied>> /\ Ask(b, NoRequest)
  BY DEF DeleteDevice, EnrollmentIInv, AdminsOK, AdminKeeps
<1>1. devices \in [DeviceIds -> DeviceType] /\ NoDevice \in DeviceType /\ ~ NoDevice.row
  BY DEF EnrollmentIInv, TypeOK, DeviceType, NoDevice
<1>2. /\ devices' \in [DeviceIds -> DeviceType]
      /\ \A e \in DeviceIds : devices'[e].row => devices[e].row
      /\ \A e \in DeviceIds : devices[e].row => devices'[e].row \/ e \in revoked'
  BY <1>0, <1>1
<1>3. adm' \in [Browsers -> TaskType] /\ AdminsOK'
  BY <1>0, AskedNothing
<1>4. TypeOK'
  BY <1>0, <1>2, <1>3 DEF EnrollmentIInv, TypeOK, TaskType, DeviceType, machine
<1>5. CallsOK'
  BY <1>0, <1>2 DEF EnrollmentIInv, CallsOK, CallOK, Unused, machine
<1>6. DevicesOK'
  BY <1>0, <1>2 DEF EnrollmentIInv, DevicesOK
<1>7. MachineOK'
  BY <1>0, <1>2 DEF EnrollmentIInv, MachineOK, SavedIsEnrolled, TypeOK, machine
<1>8. OneDevicePerPairing' /\ PairingsOK'
  BY <1>0 DEF EnrollmentIInv, OneDevicePerPairing, PairingsOK, PairingOK, Unused, machine
<1> QED BY <1>3, <1>4, <1>5, <1>6, <1>7, <1>8 DEF EnrollmentIInv

\* What a browser asks is about a code, or about a device that has a row.
LEMMA AdminStep ==
    ASSUME EnrollmentIInv, Admin
    PROVE  EnrollmentIInv'
<1> USE Parameters
<1>1. ASSUME NEW b \in Browsers, NEW n \in Nonces, NEW op \in {"approve", "deny"},
             NEW g \in SUBSET UNION Grants, Resolve(b, op, n, g)
      PROVE  EnrollmentIInv'
  <2> DEFINE t == [op |-> op, code |-> n, allow |-> g, device |-> None]
  <2>1. t \in TaskType /\ t.op = op /\ t.code = n
    BY DEF TaskType
  <2>2. Gate(b, t)
    BY <1>1 DEF Resolve
  <2> HIDE DEF t
  <2> QED BY <2>1, <2>2, GateStep
<1>2. ASSUME NEW b \in Browsers, NEW d \in DeviceIds, Revoke(b, d) PROVE EnrollmentIInv'
  <2> DEFINE t == [NoRequest EXCEPT !.op = "revoke", !.device = d]
  <2>1. t \in TaskType /\ t.op = "revoke" /\ t.device = d
    BY DEF NoRequest, TaskType
  <2>2. Gate(b, t) /\ origin[d] # 0
    BY <1>2 DEF Revoke, EnrollmentIInv, DevicesOK
  <2> HIDE DEF t
  <2> QED BY <2>1, <2>2, GateStep
<1>3. \A g \in Grants : g \in SUBSET UNION Grants
  OBVIOUS
<1> QED BY <1>1, <1>2, <1>3, ApproveStep, DenyStep, DeleteStep DEF Admin

\* Time only makes rows invisible.
LEMMA TickStep ==
    ASSUME EnrollmentIInv, Tick
    PROVE  EnrollmentIInv'
<1>1. now' \in 1 .. MaxNow
  BY Parameters DEF Tick, EnrollmentIInv, TypeOK
<1>2. TypeOK'
  BY <1>1 DEF Tick, EnrollmentIInv, TypeOK, vault, machine, history
<1>3. /\ OneDevicePerPairing' /\ CallsOK' /\ PairingsOK' /\ DevicesOK' /\ AdminsOK'
      /\ MachineOK'
  BY DEF Tick, EnrollmentIInv, OneDevicePerPairing, CallsOK, CallOK, PairingsOK, PairingOK,
         DevicesOK, AdminsOK, MachineOK, SavedIsEnrolled, Unused, vault, machine, history
<1> QED BY <1>2, <1>3 DEF EnrollmentIInv

\* No step loses the invariant.
LEMMA IInvStep == EnrollmentIInv /\ [Next]_vars => EnrollmentIInv'
<1> SUFFICES ASSUME EnrollmentIInv, [Next]_vars PROVE EnrollmentIInv'
  OBVIOUS
<1>1. CASE Next
  BY <1>1, StartStep, MachineSteps, PairInitStep, PollFindStep, PollInsertStep,
     PollDisposeStep, AdminStep, TickStep DEF Next, User, Serve
<1>2. CASE UNCHANGED vars
  BY <1>2 DEF vars, EnrollmentIInv, TypeOK, OneDevicePerPairing, CallsOK, CallOK, PairingsOK,
              PairingOK, DevicesOK, AdminsOK, MachineOK, SavedIsEnrolled, Unused, vault,
              machine, history
<1> QED BY <1>1, <1>2

-----------------------------------------------------------------------------
(* Revoked devices. *)

\* What brings no device in keeps this one out: no row comes back to sight that
\* was not in sight, and no call that is not answered gets the device.
LEMMA GoneStays ==
    ASSUME EnrollmentIInv, NEW d \in DeviceIds, IsGone(d),
           d \in revoked', devices'[d].row = devices[d].row \/ ~ devices'[d].row,
           origin'[d] = origin[d], now' \in Nat, now' >= now,
           \/ pairings'[origin[d]] = pairings[origin[d]]
           \/ pairings'[origin[d]].status = "none"
           \/ /\ pairings[origin[d]].status # "none"
              /\ pairings'[origin[d]].expires = pairings[origin[d]].expires,
           \A c \in calls' : c \in calls \/ c.at = "answered" \/ c.device # d
    PROVE  IsGone(d)'
<1>1. origin[d] \in Nonces /\ now \in Nat /\ pairings[origin[d]].expires \in Nat
  <2>1. /\ origin[d] \in Nonces /\ now \in Nat /\ pairings \in [Nonces -> RowType]
    BY Parameters DEF IsGone, EnrollmentIInv, DevicesOK, TypeOK, RowType
  <2>2. \A row \in RowType : row.expires \in Nat
    BY DEF RowType
  <2> QED BY <2>1, <2>2
<1>2. ~ Visible(origin[d])'
  BY <1>1 DEF IsGone, Visible
<1>3. ~ Authenticates(d)'
  BY Parameters DEF IsGone, Authenticates
<1> QED BY <1>2, <1>3 DEF IsGone

\* A denial and a sweep bring no row to sight.
LEMMA HiddenRows ==
    ASSUME NEW rows \in [Nonces -> RowType]
    PROVE  \A n, m \in Nonces :
              \/ DenyPairing(rows, n)[m] = rows[m]
              \/ /\ rows[m].status # "none"
                 /\ DenyPairing(rows, n)[m].expires = rows[m].expires
<1> SUFFICES ASSUME NEW n \in Nonces, NEW m \in Nonces
             PROVE  \/ DenyPairing(rows, n)[m] = rows[m]
                    \/ /\ rows[m].status # "none"
                       /\ DenyPairing(rows, n)[m].expires = rows[m].expires
  OBVIOUS
<1>1. [rows[n] EXCEPT !.status = "denied"].expires = rows[n].expires
  BY DEF RowType
<1>2. [rows EXCEPT ![n].status = "denied"]
        = [rows EXCEPT ![n] = [rows[n] EXCEPT !.status = "denied"]]
  OBVIOUS
<1> QED BY <1>1, <1>2 DEF DenyPairing

\* The machine knows no device id but those it was told.
LEMMA MachineKeepsGone ==
    ASSUME EnrollmentIInv, NEW d \in DeviceIds, IsGone(d),
           User \/ Receive \/ Fault \/ Tick
    PROVE  IsGone(d)'
<1> USE Parameters
<1>0. /\ calls \subseteq CallType /\ now \in Nat /\ d # None /\ d \in revoked
  BY DEF IsGone, EnrollmentIInv, TypeOK
<1>1. UNCHANGED <<vault, history>> /\ now' \in Nat /\ now' >= now
  BY <1>0 DEF User, StartPairing, BackOut, Unpair, Receive, ReceiveInit, ReceivePoll,
              Fault, ReceiveUnsaved, Lose, Tick
<1>2. ASSUME NEW op \in {"init", "poll"}, NEW n, NEW g PROVE Call(op, n, g).device = None
  BY DEF Call
<1>3. \A c \in calls' : c \in calls \/ c.at = "answered" \/ c.device = None
  <2>1. CASE StartPairing \/ BackOut \/ Unpair
    BY <2>1, <1>2 DEF StartPairing, BackOut, Unpair
  <2>2. CASE Receive
    BY <2>2, <1>2 DEF Receive, ReceiveInit, ReceivePoll, PollAgain, Instead
  <2>3. ASSUME NEW c \in calls, ReceiveUnsaved(c) \/ Lose(c)
        PROVE  \A x \in calls' : x \in calls \/ x.at = "answered"
    BY <1>0, <2>3, AnsweredCall DEF ReceiveUnsaved, Lose, Instead, Answers
  <2>4. CASE Tick
    BY <2>4 DEF Tick, machine
  <2> QED BY <2>1, <2>2, <2>3, <2>4 DEF User, Fault
<1> QED BY <1>0, <1>1, <1>3, GoneStays DEF vault, history

\* A poll can only get the device from a row in sight, or have got it before.
LEMMA VaultKeepsGone ==
    ASSUME EnrollmentIInv, NEW d \in DeviceIds, IsGone(d), Serve
    PROVE  IsGone(d)'
<1> USE Parameters
<1>0. /\ calls \subseteq CallType /\ now \in Nat /\ pairings \in [Nonces -> RowType]
      /\ origin[d] \in Nonces /\ now >= now
      /\ \A n \in Nonces : Swept[n] = pairings[n] \/ Swept[n].status = "none"
      /\ Swept \in [Nonces -> RowType] /\ d \in revoked
  BY SweptRows DEF IsGone, EnrollmentIInv, DevicesOK, TypeOK, RowType
<1>1. ASSUME NEW c \in calls, PairInit(c) PROVE IsGone(d)'
  <2>1. c.nonce # origin[d] /\ c.nonce \in Nonces
    BY <1>0, <1>1 DEF PairInit, EnrollmentIInv, CallsOK, CallOK, Unused, CallType
  <2>2. pairings'[origin[d]] = Swept[origin[d]]
    BY <1>0, <1>1, <2>1 DEF PairInit
  <2>3. \A x \in calls' : x \in calls \/ x.at = "answered"
    BY <1>0, <1>1, AnsweredCall DEF PairInit, Instead, Answers
  <2> QED BY <1>0, <1>1, <2>2, <2>3, GoneStays DEF PairInit, history
<1>2. ASSUME NEW c \in calls, PollFind(c) PROVE IsGone(d)'
  <2> DEFINE row == pairings[c.nonce]
             ins == [c EXCEPT !.at = "insert", !.device = row.device, !.allow = row.allow]
  <2>1. /\ c \in CallType /\ c.nonce \in Nonces
        /\ row.status \in {"none", "pending", "approved", "denied"}
    BY <1>0 DEF CallType, RowType
  <2>2. Answered(c, "expired").at = "answered" /\ Answered(c, row.status).at = "answered"
    BY <2>1 DEF Answered, CallType
  <2>3. Visible(c.nonce) /\ row.status = "approved" => ins.device # d
    <3>1. ins.device = row.device
      BY <2>1 DEF CallType
    <3>2. row.status = "approved" => origin[row.device] = c.nonce
      BY <2>1 DEF EnrollmentIInv, PairingsOK, PairingOK
    <3> QED BY <3>1, <3>2 DEF IsGone
  <2>4. \A x \in calls' : x \in calls \/ x.at = "answered" \/ x.device # d
    BY <1>2, <2>2, <2>3 DEF PollFind, Instead
  <2> QED BY <1>0, <1>2, <2>4, GoneStays DEF PollFind, vault, history
<1>3. ASSUME NEW c \in calls, PollInsert(c) PROVE IsGone(d)'
  <2>1. c \in CallType /\ c.device # d
    BY <1>0, <1>3 DEF PollInsert, IsGone
  <2>2. /\ Answered(c, "error").at = "answered"
        /\ [c EXCEPT !.at = "dispose"].device = c.device
    BY <2>1 DEF Answered, CallType
  <2>3. \A x \in calls' : x \in calls \/ x.at = "answered" \/ x.device # d
    BY <1>3, <2>1, <2>2 DEF PollInsert, Instead
  <2>4. devices'[d] = devices[d]
    BY <1>3, <2>1 DEF PollInsert, EnrollmentIInv, TypeOK
  <2> QED BY <1>0, <1>3, <2>3, <2>4, GoneStays DEF PollInsert, history
<1>4. ASSUME NEW c \in calls, PollDispose(c) PROVE IsGone(d)'
  <2>1. c \in CallType /\ c.nonce \in Nonces
    BY <1>0 DEF CallType
  <2>2. \/ pairings'[origin[d]] = Swept[origin[d]]
        \/ /\ Swept[origin[d]].status # "none"
           /\ pairings'[origin[d]].expires = Swept[origin[d]].expires
    BY <1>0, <1>4, <2>1, HiddenRows DEF PollDispose
  <2>3. \A x \in calls' : x \in calls \/ x.at = "answered"
    BY <1>4, <2>1, AnsweredCall DEF PollDispose, Instead, Answers
  <2> QED BY <1>0, <1>4, <2>2, <2>3, GoneStays DEF PollDispose, history
<1> QED BY <1>1, <1>2, <1>3, <1>4 DEF Serve

\* An approval gives its code a device that was not given before.
LEMMA AdminKeepsGone ==
    ASSUME EnrollmentIInv, NEW d \in DeviceIds, IsGone(d), Admin
    PROVE  IsGone(d)'
<1> USE Parameters
<1>0. /\ now \in Nat /\ pairings \in [Nonces -> RowType] /\ now >= now
      /\ origin[d] \in Nonces /\ origin \in [DeviceIds -> Nonces \cup {0}]
      /\ devices \in [DeviceIds -> DeviceType] /\ d \in revoked
  BY DEF IsGone, EnrollmentIInv, DevicesOK, TypeOK, RowType, DeviceType
<1>1. ASSUME NEW b \in Browsers, NEW t, Gate(b, t) PROVE IsGone(d)'
  BY <1>0, <1>1, GoneStays DEF Gate, AdminKeeps, vault, history, machine
<1>2. ASSUME NEW b \in Browsers, ApprovePairing(b) PROVE IsGone(d)'
  <2> DEFINE n == adm[b].code
  <2>1. n \in Nonces
    BY <1>2 DEF ApprovePairing, EnrollmentIInv, AdminsOK
  <2>2. CASE UNCHANGED <<pairings, origin>>
    BY <1>0, <1>2, <2>2, GoneStays DEF ApprovePairing, AdminKeeps, machine
  <2>3. CASE pairings[n].status = "pending" /\ FreshDevices # {}
             /\ ~ UNCHANGED <<pairings, origin>>
    <3>1. PICK e \in FreshDevices :
            /\ pairings' = [pairings EXCEPT ![n].status = "approved",
                              ![n].device = e, ![n].allow = adm[b].allow]
            /\ origin' = [origin EXCEPT ![e] = n]
      <4>1. (CHOOSE e \in FreshDevices : TRUE) \in FreshDevices
        BY <2>3
      <4> QED BY <1>2, <2>3, <4>1 DEF ApprovePairing
    <3> DEFINE new == [pairings[n] EXCEPT !.status = "approved", !.device = e,
                         !.allow = adm[b].allow]
    <3>2. pairings' = [pairings EXCEPT ![n] = new]
      BY <1>0, <2>1, <3>1
    <3>3. new.expires = pairings[n].expires
      BY <1>0, <2>1 DEF RowType
    <3> HIDE DEF new
    <3>4. origin'[d] = origin[d]
      BY <1>0, <3>1 DEF FreshDevices
    <3>5. \/ pairings'[origin[d]] = pairings[origin[d]]
          \/ /\ pairings[origin[d]].status # "none"
             /\ pairings'[origin[d]].expires = pairings[origin[d]].expires
      BY <1>0, <2>1, <2>3, <3>2, <3>3
    <3> QED BY <1>0, <1>2, <3>4, <3>5, GoneStays DEF ApprovePairing, AdminKeeps, machine
  <2> QED BY <1>2, <2>2, <2>3 DEF ApprovePairing
<1>3. ASSUME NEW b \in Browsers, Deny(b) PROVE IsGone(d)'
  <2>1. adm[b].code \in Nonces
    BY <1>3 DEF Deny, EnrollmentIInv, AdminsOK
  <2>2. \/ pairings'[origin[d]] = pairings[origin[d]]
        \/ /\ pairings[origin[d]].status # "none"
           /\ pairings'[origin[d]].expires = pairings[origin[d]].expires
    <3>1. PICK c \in Nonces : c = adm[b].code
      BY <2>1
    <3>2. PICK o \in Nonces : o = origin[d]
      BY <1>0
    <3>3. pairings' = DenyPairing(pairings, c)
      BY <1>3, <3>1 DEF Deny
    <3>4. \/ DenyPairing(pairings, c)[o] = pairings[o]
          \/ /\ pairings[o].status # "none"
             /\ DenyPairing(pairings, c)[o].expires = pairings[o].expires
      BY <1>0, HiddenRows
    <3> QED BY <3>2, <3>3, <3>4
  <2> QED BY <1>0, <1>3, <2>2, GoneStays DEF Deny, AdminKeeps, machine
<1>4. ASSUME NEW b \in Browsers, DeleteDevice(b) PROVE IsGone(d)'
  <2>1. devices'[d] = devices[d] \/ devices'[d] = NoDevice
    BY <1>0, <1>4 DEF DeleteDevice
  <2>2. d \in revoked' /\ ~ NoDevice.row
    BY <1>4 DEF DeleteDevice, IsGone, NoDevice
  <2>3. devices'[d].row = devices[d].row \/ ~ devices'[d].row
    BY <2>1, <2>2
  <2> QED BY <1>0, <1>4, <2>2, <2>3, GoneStays DEF DeleteDevice, AdminKeeps, machine
<1> QED BY <1>1, <1>2, <1>3, <1>4 DEF Admin, Resolve, Revoke

-----------------------------------------------------------------------------
(* Theorems. *)

\* However requests of browsers and polls of machines overlap, and whatever answers
\* are lost: a code makes one device at most (ApprovePairing's WHERE status =
\* 'pending'), a denied code none, and what a machine saved has a row, or had one
\* (handlePairPoll inserts it before it answers).
THEOREM EnrollmentIsSound == Spec => []EnrollmentInv
<1>1. EnrollmentIInv => EnrollmentInv
  BY DEF EnrollmentIInv, EnrollmentInv, DeniedStaysOut, DevicesOK, MachineOK
<1> QED BY InitIInv, IInvStep, <1>1, PTL DEF Spec

\* Once a device is revoked, its code expired and the polls that read it answered,
\* nothing brings it back: no approval can draw its id again, and no poll can insert
\* a row of a code that findPairing does not show.
THEOREM GoneIsForEver == Spec => RevokedStaysOutInTheEnd
<1>1. EnrollmentIInv /\ [Next]_vars => [\A d \in DeviceIds : IsGone(d) => IsGone(d)']_vars
  <2> SUFFICES ASSUME EnrollmentIInv, Next, NEW d \in DeviceIds, IsGone(d) PROVE IsGone(d)'
    OBVIOUS
  <2> QED BY MachineKeepsGone, VaultKeepsGone, AdminKeepsGone DEF Next
<1> QED BY InitIInv, IInvStep, <1>1, PTL DEF Spec, RevokedStaysOutInTheEnd
=============================================================================
