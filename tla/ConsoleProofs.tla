--------------------------- MODULE ConsoleProofs ----------------------------
(***************************************************************************)
(* The daemon's console.  For any number of requests, edits and faults,    *)
(* and both kinds of daemon: the stored settings are within bounds,        *)
(* shutdown finds the flag that is stored, and a patch changes the field   *)
(* it names and no other.  For any set of accounts, and however requests   *)
(* and answers overtake each other: the cursor of the Accounts page is on  *)
(* a row, and an operation is for the account it was asked for.  For any   *)
(* number of emitters and any sizes of ring, replay and channel: the       *)
(* newest events stay in the table, no connection delivers one twice, and  *)
(* a client misses one only for a reason.                                  *)
(***************************************************************************)
EXTENDS MCConsole, FiniteSetTheorems, SequenceTheorems, TLAPS

-----------------------------------------------------------------------------
(* Records. *)

\* A request, wherever it is.
Request ==
    [at : {"none", "sent", "read", "stored", "answered"},
     kind : {"load", "save", "switch", "refresh"}, body : Settings, auto : AutoSwitch,
     from : {"page", "list", "look", "poll", "restore"}, ok : BOOLEAN]

\* The zero and the default records have the types; so has an empty request.
LEMMA Constants ==
    /\ PfMaxPoll \in Nat \ {0, 1} /\ PfSlots \in Nat \ {0} /\ PfAgent \subseteq BOOLEAN
    /\ DefaultSettings \in Settings /\ ZeroSettings \in Settings
    /\ DefaultAutoSwitch \in AutoSwitch /\ ZeroAutoSwitch \in AutoSwitch
    /\ NoRequest \in Request
<1>1. PfMaxPoll \in Nat \ {0, 1} /\ PfSlots \in Nat \ {0} /\ PfAgent \subseteq BOOLEAN
  BY PrefsAssumption
<1>2. DefaultSettings \in Settings /\ ZeroSettings \in Settings
  BY <1>1 DEF DefaultSettings, ZeroSettings, Settings
<1>3. DefaultAutoSwitch \in AutoSwitch /\ ZeroAutoSwitch \in AutoSwitch
  BY DEF DefaultAutoSwitch, ZeroAutoSwitch, AutoSwitch
<1> QED BY <1>1, <1>2, <1>3 DEF NoRequest, Request

\* mergeSettingsDefaults gives a record within bounds, and leaves what is.
LEMMA MergedSettings ==
    ASSUME NEW v \in Settings
    PROVE  /\ Merged(v) \in Settings /\ Merged(v).look # "" /\ Merged(v).poll > 0
           /\ v.look # "" => Merged(v).look = v.look
           /\ v.poll > 0 => Merged(v).poll = v.poll
           /\ Merged(v).restore = v.restore
<1>1. PfMaxPoll \in Nat \ {0, 1} /\ DefaultSettings.look = "system" /\ DefaultSettings.poll = 2
  BY Constants DEF DefaultSettings
<1> DEFINE l == IF v.look = "" THEN DefaultSettings.look ELSE v.look
           p == IF v.poll = 0 THEN DefaultSettings.poll ELSE ClampedPoll(v.poll)
<1>2. l \in {"system", "dark"} /\ (v.look # "" => l = v.look)
  BY <1>1 DEF Settings
<1>3. p \in 1 .. PfMaxPoll /\ (v.poll > 0 => p = v.poll)
  <2>1. v.poll \in 0 .. PfMaxPoll
    BY DEF Settings
  <2> QED BY <1>1, <2>1 DEF ClampedPoll
<1>4. Merged(v) = [v EXCEPT !.look = l, !.poll = p]
  BY DEF Merged
<1> HIDE DEF l, p
<1>5. Merged(v) = [look |-> l, poll |-> p, restore |-> v.restore] /\ v.restore \in BOOLEAN
  BY <1>4 DEF Settings
<1>6. l \in {"", "system", "dark"} /\ p \in 0 .. PfMaxPoll /\ p > 0 /\ l # ""
  <2>1. PfMaxPoll \in Nat /\ p \in 1 .. PfMaxPoll
    BY <1>1, <1>3
  <2>2. p \in 0 .. PfMaxPoll /\ p > 0
    BY <2>1
  <2> QED BY <1>2, <2>2
<1>7. [look |-> l, poll |-> p, restore |-> v.restore] \in Settings
  BY <1>5, <1>6 DEF Settings
<1>8. Merged(v).look = l /\ Merged(v).poll = p /\ Merged(v).restore = v.restore
  BY <1>5
<1> QED BY <1>2, <1>3, <1>5, <1>6, <1>7, <1>8

\* An empty policy becomes the default one.
LEMMA PolicyIsSet ==
    ASSUME NEW v \in AutoSwitch
    PROVE  WithPolicy(v) \in AutoSwitch /\ WithPolicy(v).policy # ""
BY DEF WithPolicy, AutoSwitch, DefaultAutoSwitch

\* What a page sends is a record.
LEMMA Bodies ==
    ASSUME NEW v \in Settings
    PROVE  /\ [v EXCEPT !.poll = ClampedPoll(@ + 1)] \in Settings
           /\ [v EXCEPT !.poll = IF @ = 0 THEN 1 ELSE ClampedPoll(@ - 1)] \in Settings
           /\ [v EXCEPT !.restore = ~@] \in Settings
           /\ [v EXCEPT !.look = "dark"] \in Settings
           /\ [v EXCEPT !.poll = 1] \in Settings
           /\ [v EXCEPT !.restore = FALSE] \in Settings
<1>1. PfMaxPoll \in Nat \ {0, 1}
  BY Constants
<1>2. \A p \in 0 .. PfMaxPoll : [v EXCEPT !.poll = p] \in Settings
  BY DEF Settings
<1>3. \A p \in Nat : ClampedPoll(p) \in 0 .. PfMaxPoll
  BY <1>1 DEF ClampedPoll
<1>4. v.poll \in 0 .. PfMaxPoll /\ v.poll + 1 \in Nat /\ (v.poll # 0 => v.poll - 1 \in Nat)
  <2>1. v.poll \in 0 .. PfMaxPoll
    BY DEF Settings
  <2> QED BY <1>1, <2>1
<1>5. /\ [v EXCEPT !.poll = ClampedPoll(@ + 1)] \in Settings
      /\ [v EXCEPT !.poll = IF @ = 0 THEN 1 ELSE ClampedPoll(@ - 1)] \in Settings
      /\ [v EXCEPT !.poll = 1] \in Settings
  BY <1>1, <1>2, <1>3, <1>4
<1>6. /\ [v EXCEPT !.restore = ~@] \in Settings
      /\ [v EXCEPT !.restore = FALSE] \in Settings
  BY DEF Settings
<1>7. [v EXCEPT !.look = "dark"] \in Settings
  BY DEF Settings
<1> QED BY <1>5, <1>6, <1>7

\* So is an auto-switch.
LEMMA Switches ==
    ASSUME NEW v \in AutoSwitch
    PROVE  /\ [v EXCEPT !.enabled = ~@] \in AutoSwitch
           /\ [v EXCEPT !.policy = OtherPolicy(@)] \in AutoSwitch
BY DEF AutoSwitch, OtherPolicy

\* What is sent is a request that was not answered.
LEMMA Requests ==
    /\ \A v \in Settings : /\ Save(v) \in Request /\ Save(v).kind = "save"
                           /\ Save(v).at = "sent" /\ ~ Save(v).ok
    /\ \A v \in AutoSwitch, who \in {"page", "list"} :
         /\ Switch(v, who) \in Request /\ Switch(v, who).kind = "switch"
         /\ Switch(v, who).at = "sent" /\ ~ Switch(v, who).ok
BY Constants DEF Save, Switch, NoRequest, Request

-----------------------------------------------------------------------------
(* The inductive invariant. *)

\* The requests, and how far they may have come.
RequestsOK ==
    /\ request \in [1..PfSlots -> Request]
    /\ \A r \in 1..PfSlots :
         /\ request[r].at \in {"read", "stored"} => request[r].kind = "save"
         /\ request[r].ok => request[r].at = "answered"

\* Until two writes of the settings overlap, one at most is under way ...
OneSave == ~ clash => \A r, s \in Saving : r = s

\* ... and what it has stored is what is stored, whatever the flag says meanwhile;
StoredIsStored ==
    ~ clash => \A r \in 1..PfSlots :
        request[r].at = "stored" => request[r].body.restore = prefs.restore

\* what an agent has read is what is stored, but for the field that is changed.
Keeps(q) ==
    \/ q.from = "page"
    \/ /\ q.from = "look" \/ q.body.look = prefs.look
       /\ q.from = "poll" \/ q.body.poll = prefs.poll
       /\ q.from = "restore" \/ q.body.restore = prefs.restore
ReadIsStored ==
    agent /\ ~ clash => \A r \in 1..PfSlots : request[r].at = "read" => Keeps(request[r])

PrefsIInv ==
    /\ PrefsTypeOK /\ RequestsOK /\ OneSave /\ StoredIsStored /\ ReadIsStored
    /\ FlagFollowsUnlessClash

\* It holds at first.
LEMMA InitIInv == Init => PrefsIInv
<1> SUFFICES ASSUME Init PROVE PrefsIInv
  OBVIOUS
<1>0. [NoRequest EXCEPT !.at = "sent"] \in Request
  BY Constants DEF Request
<1>1. RequestsOK
  BY <1>0, Constants DEF Init, RequestsOK, NoRequest
<1>2. \A r \in 1..PfSlots : request[r].at \in {"none", "sent"} /\ request[r].kind = "load"
  BY DEF Init, NoRequest
<1>3. PrefsTypeOK
  <2>1. prefs \in Settings /\ prefs.look # "" /\ prefs.poll > 0
    BY Constants DEF Init, DefaultSettings
  <2>2. switch \in AutoSwitch /\ switch.policy # ""
    BY Constants DEF Init, DefaultAutoSwitch
  <2>3. page \in [settings : Settings, auto : AutoSwitch] /\ list \in AutoSwitch
    BY Constants DEF Init
  <2>4. agent \in BOOLEAN /\ flag \in BOOLEAN
    BY <2>1, Constants DEF Init, Settings
  <2> QED BY <2>1, <2>2, <2>3, <2>4 DEF PrefsTypeOK
<1>4. OneSave /\ StoredIsStored /\ ReadIsStored
  BY <1>2 DEF OneSave, Saving, StoredIsStored, ReadIsStored
<1>5. FlagFollowsUnlessClash
  BY DEF Init, FlagFollowsUnlessClash
<1> QED BY <1>1, <1>3, <1>4, <1>5 DEF PrefsIInv

-----------------------------------------------------------------------------
(* Steps. *)

\* A request that is neither storing nor about to becomes another such one; the
\* settings and the flag stay.
LEMMA QuietStep ==
    ASSUME PrefsIInv, NEW r \in 1..PfSlots, NEW q \in Request,
           request' = [request EXCEPT ![r] = q],
           request[r].at # "stored", q.at \notin {"read", "stored"},
           q.ok => q.at = "answered",
           clash => clash',
           q.kind = "save" /\ q.at # "none" /\ ~ clash' => r \in Saving \/ Saving = {},
           UNCHANGED <<agent, prefs, flag>>
    PROVE  RequestsOK' /\ OneSave' /\ StoredIsStored' /\ ReadIsStored' /\ FlagFollowsUnlessClash'
<1>1. RequestsOK'
  BY DEF PrefsIInv, RequestsOK
<1>2. OneSave'
  BY DEF PrefsIInv, RequestsOK, OneSave, Saving
<1>3. StoredIsStored'
  BY DEF PrefsIInv, RequestsOK, StoredIsStored
<1>4. ReadIsStored'
  BY DEF PrefsIInv, RequestsOK, ReadIsStored, Keeps
<1>5. FlagFollowsUnlessClash'
  BY DEF PrefsIInv, RequestsOK, FlagFollowsUnlessClash
<1> QED BY <1>1, <1>2, <1>3, <1>4, <1>5

\* A page writes: the request is sent.
LEMMA EditStep ==
    ASSUME PrefsIInv, NEW q \in Request, Edit(q), q.at = "sent", ~ q.ok
    PROVE  PrefsIInv'
<1>1. PICK r \in 1..PfSlots : request[r].at = "none" /\ request' = [request EXCEPT ![r] = q]
  BY DEF Edit, Ask
<1>2. /\ clash => clash'
      /\ q.kind = "save" /\ ~ clash' => Saving = {}
      /\ UNCHANGED <<agent, prefs, switch, flag, page, list>>
  BY DEF Edit
<1>3. PrefsTypeOK'
  BY <1>2 DEF PrefsIInv, PrefsTypeOK
<1>4. RequestsOK' /\ OneSave' /\ StoredIsStored' /\ ReadIsStored' /\ FlagFollowsUnlessClash'
  BY <1>1, <1>2, QuietStep
<1> QED BY <1>3, <1>4 DEF PrefsIInv

\* Each write of the pages is one of these.
LEMMA UserStep ==
    ASSUME PrefsIInv, User
    PROVE  PrefsIInv'
<1>1. page.settings \in Settings /\ page.auto \in AutoSwitch /\ list \in AutoSwitch
  BY DEF PrefsIInv, PrefsTypeOK
<1>2. CASE SettingsPageSaves
  <2>1. PICK v \in Settings : Edit(Save(v))
    BY <1>1, <1>2, Bodies DEF SettingsPageSaves
  <2> QED BY <2>1, Requests, EditStep
<1>3. CASE SettingsPageSwitches
  <2>1. PICK v \in AutoSwitch : Edit(Switch(v, "page"))
    BY <1>1, <1>3, Switches DEF SettingsPageSwitches
  <2> QED BY <2>1, Requests, EditStep
<1>4. CASE AccountsPageSwitches
  <2>1. PICK v \in AutoSwitch : Edit(Switch(v, "list"))
    BY <1>1, <1>4, Switches DEF AccountsPageSwitches
  <2> QED BY <2>1, Requests, EditStep
<1>5. CASE DesktopPatches
  <2>1. PICK v \in Settings, f \in {"look", "poll", "restore"} :
           Edit([Save(v) EXCEPT !.from = f])
    BY <1>5, Bodies, Constants DEF DesktopPatches
  <2>2. /\ [Save(v) EXCEPT !.from = f] \in Request
        /\ [Save(v) EXCEPT !.from = f].at = "sent"
        /\ ~ [Save(v) EXCEPT !.from = f].ok
    BY Requests DEF Request
  <2> QED BY <2>1, <2>2, EditStep
<1> QED BY <1>2, <1>3, <1>4, <1>5 DEF User

\* The other steps that write no settings.
LEMMA OtherStep ==
    ASSUME PrefsIInv, NEW r \in 1..PfSlots,
           SetAutoSwitch(r) \/ Get(r) \/ Fail(r) \/ Answered(r)
    PROVE  PrefsIInv'
<1> DEFINE T == /\ switch' \in AutoSwitch /\ switch'.policy # ""
                /\ page' \in [settings : Settings, auto : AutoSwitch]
                /\ list' \in AutoSwitch
                /\ UNCHANGED <<agent, prefs, flag, clash>>
           Q(q) == /\ q \in Request /\ request' = [request EXCEPT ![r] = q]
                   /\ request[r].at # "stored" /\ q.at \notin {"read", "stored"}
                   /\ q.ok => q.at = "answered"
                   /\ q.at = "none" \/ (q.kind = request[r].kind /\ request[r].at # "none")
<1>0. /\ request[r] \in Request /\ request[r].auto \in AutoSwitch
      /\ request[r].ok => request[r].at = "answered"
      /\ switch \in AutoSwitch /\ switch.policy # "" /\ list \in AutoSwitch
      /\ page \in [settings : Settings, auto : AutoSwitch] /\ prefs \in Settings
  BY DEF PrefsIInv, RequestsOK, Request, PrefsTypeOK
<1>1. ASSUME SetAutoSwitch(r) PROVE T /\ \E q : Q(q)
  <2> DEFINE a == IF agent THEN request[r].auto ELSE WithPolicy(request[r].auto)
             q == [request[r] EXCEPT !.at = "answered", !.ok = TRUE, !.auto = a]
  <2>1. a \in AutoSwitch
    BY <1>0, PolicyIsSet
  <2>2. q \in Request /\ q.at = "answered" /\ q.kind = request[r].kind
    BY <1>0, <2>1 DEF Request
  <2>3. request' = [request EXCEPT ![r] = q]
    BY <1>1 DEF SetAutoSwitch
  <2>4. Q(q)
    BY <1>1, <2>2, <2>3 DEF SetAutoSwitch, Serving
  <2>5. T
    BY <1>0, <1>1, PolicyIsSet DEF SetAutoSwitch
  <2> QED BY <2>4, <2>5
<1>2. ASSUME Get(r) PROVE T /\ \E q : Q(q)
  <2> DEFINE b == IF request[r].kind = "load" THEN prefs ELSE request[r].body
             q == [request[r] EXCEPT !.at = "answered", !.ok = TRUE, !.auto = switch, !.body = b]
  <2>1. b \in Settings
    BY <1>0 DEF Request
  <2>2. q \in Request /\ q.at = "answered" /\ q.kind = request[r].kind
    BY <1>0, <2>1 DEF Request
  <2>3. request' = [request EXCEPT ![r] = q]
    BY <1>2 DEF Get
  <2>4. Q(q)
    BY <1>2, <2>2, <2>3 DEF Get, Serving
  <2>5. T
    BY <1>0, <1>2 DEF Get
  <2> QED BY <2>4, <2>5
<1>3. ASSUME Fail(r) PROVE T /\ \E q : Q(q)
  <2> DEFINE q == [NoRequest EXCEPT !.at = "answered", !.kind = request[r].kind]
  <2>1. q \in Request /\ q.at = "answered" /\ q.kind = request[r].kind /\ ~ q.ok
    BY <1>0, Constants DEF Request, NoRequest
  <2>2. Q(q)
    BY <1>0, <1>3, <2>1 DEF Fail
  <2>3. T
    BY <1>0, <1>3 DEF Fail
  <2> QED BY <2>2, <2>3
<1>4. ASSUME Answered(r) PROVE T /\ \E q : Q(q)
  <2>1. Q(NoRequest)
    BY <1>4, Constants DEF Answered, NoRequest
  <2>2. page' \in [settings : Settings, auto : AutoSwitch]
    BY <1>0, <1>4 DEF Answered, PageAfter, Request
  <2>3. list' \in AutoSwitch
    BY <1>0, <1>4, Constants DEF Answered, ListAfter
  <2>4. T
    BY <1>0, <1>4, <2>2, <2>3 DEF Answered
  <2> QED BY <2>1, <2>4
<1>5. T /\ \E q : Q(q)
  BY <1>1, <1>2, <1>3, <1>4
<1>6. PICK q : Q(q)
  BY <1>5
<1>7. PrefsTypeOK'
  BY <1>5 DEF PrefsIInv, PrefsTypeOK
<1>8. q.kind = "save" /\ q.at # "none" /\ ~ clash' => r \in Saving
  BY <1>6 DEF Saving
<1>9. RequestsOK' /\ OneSave' /\ StoredIsStored' /\ ReadIsStored' /\ FlagFollowsUnlessClash'
  BY <1>5, <1>6, <1>8, QuietStep
<1> QED BY <1>7, <1>9 DEF PrefsIInv

\* What an agent decodes over what it has is a record that keeps the rest.
LEMMA PatchedKeeps ==
    ASSUME PrefsIInv, NEW q \in Request
    PROVE  /\ Patched(q) \in Settings
           /\ agent => Keeps([q EXCEPT !.at = "read", !.body = Patched(q)])
<1>0. prefs \in Settings /\ q.body \in Settings
  BY DEF PrefsIInv, PrefsTypeOK, Request
<1>1. CASE ~ agent \/ q.from = "page"
  BY <1>0, <1>1 DEF Patched, Keeps, Request
<1>2. CASE agent /\ q.from # "page"
  <2> DEFINE l == IF q.from = "look" THEN q.body.look ELSE prefs.look
             n == IF q.from = "poll" THEN q.body.poll ELSE prefs.poll
             b == IF q.from = "restore" THEN q.body.restore ELSE prefs.restore
             v == [look |-> l, poll |-> n, restore |-> b]
  <2>1. l \in {"", "system", "dark"} /\ n \in 0..PfMaxPoll /\ b \in BOOLEAN
    BY <1>0 DEF Settings
  <2>2. Patched(q) = [prefs EXCEPT !.look = l, !.poll = n, !.restore = b]
    BY <1>2 DEF Patched
  <2>3. /\ q.from = "look" \/ l = prefs.look
        /\ q.from = "poll" \/ n = prefs.poll
        /\ q.from = "restore" \/ b = prefs.restore
    OBVIOUS
  <2> HIDE DEF l, n, b
  <2>4. Patched(q) = v
    BY <1>0, <2>2 DEF Settings
  <2>5. v \in Settings
    BY <2>1 DEF Settings
  <2>6. v.look = l /\ v.poll = n /\ v.restore = b
    OBVIOUS
  <2> HIDE DEF v
  <2>7. /\ [q EXCEPT !.at = "read", !.body = v].from = q.from
        /\ [q EXCEPT !.at = "read", !.body = v].body = v
    BY DEF Request
  <2> QED BY <2>3, <2>4, <2>5, <2>6, <2>7 DEF Keeps
<1> QED BY <1>1, <1>2

\* An agent's request reads; a combined daemon's is decoded.
LEMMA ReadStep ==
    ASSUME PrefsIInv, NEW r \in 1..PfSlots, ReadCurrent(r)
    PROVE  PrefsIInv'
<1> DEFINE q == [request[r] EXCEPT !.at = "read", !.body = Patched(request[r])]
<1>0. request \in [1..PfSlots -> Request] /\ request[r] \in Request
  BY DEF PrefsIInv, RequestsOK
<1>1. /\ request' = [request EXCEPT ![r] = q]
      /\ request[r].at = "sent" /\ request[r].kind = "save"
      /\ UNCHANGED <<agent, prefs, switch, flag, page, list, clash>>
  BY <1>0 DEF ReadCurrent, Serving
<1>2. Patched(request[r]) \in Settings /\ (agent => Keeps(q))
  BY <1>0, PatchedKeeps
<1>3. q \in Request /\ q.at = "read" /\ q.kind = "save" /\ q.ok = request[r].ok
  BY <1>0, <1>1, <1>2 DEF Request
<1> HIDE DEF q
<1>4. PrefsTypeOK'
  BY <1>1 DEF PrefsIInv, PrefsTypeOK
<1>5. RequestsOK'
  BY <1>1, <1>3 DEF PrefsIInv, RequestsOK
<1>6. OneSave'
  BY <1>0, <1>1, <1>3 DEF PrefsIInv, OneSave, Saving
<1>7. StoredIsStored'
  BY <1>0, <1>1, <1>3 DEF PrefsIInv, StoredIsStored
<1>8. ReadIsStored'
  BY <1>0, <1>1, <1>2 DEF PrefsIInv, ReadIsStored, Keeps
<1>9. FlagFollowsUnlessClash'
  BY <1>0, <1>1, <1>3 DEF PrefsIInv, FlagFollowsUnlessClash
<1> QED BY <1>4, <1>5, <1>6, <1>7, <1>8, <1>9 DEF PrefsIInv

\* Only one request has read or stored, so that the new settings are out of date
\* for none.
LEMMA SetStep ==
    ASSUME PrefsIInv, NEW r \in 1..PfSlots, SetSettings(r)
    PROVE  PrefsIInv'
<1> DEFINE q == [request[r] EXCEPT !.at = "stored", !.body = Merged(request[r].body)]
<1>0. /\ request \in [1..PfSlots -> Request] /\ request[r] \in Request
      /\ request[r].body \in Settings
  BY DEF PrefsIInv, RequestsOK, Request
<1>1. /\ request' = [request EXCEPT ![r] = q]
      /\ request[r].at = "read" /\ prefs' = Merged(request[r].body)
      /\ UNCHANGED <<agent, switch, flag, page, list, clash>>
  BY <1>0 DEF SetSettings
<1>2. prefs' \in Settings /\ prefs'.look # "" /\ prefs'.poll > 0
  BY <1>0, <1>1, MergedSettings
<1>3. q \in Request /\ q.at = "stored" /\ q.kind = request[r].kind /\ q.ok = request[r].ok
      /\ q.body = prefs'
  BY <1>0, <1>1, <1>2 DEF Request
<1> HIDE DEF q
<1>4. PrefsTypeOK'
  BY <1>1, <1>2 DEF PrefsIInv, PrefsTypeOK
<1>5. RequestsOK'
  BY <1>1, <1>3 DEF PrefsIInv, RequestsOK
<1>6. OneSave'
  BY <1>0, <1>1, <1>3 DEF PrefsIInv, OneSave, Saving
<1>7. ~ clash => \A s \in 1..PfSlots \ {r} : request'[s].at \notin {"read", "stored"}
  BY <1>0, <1>1 DEF PrefsIInv, RequestsOK, OneSave, Saving
<1>8. StoredIsStored' /\ ReadIsStored'
  BY <1>0, <1>1, <1>3, <1>7 DEF StoredIsStored, ReadIsStored
<1>9. FlagFollowsUnlessClash'
  BY <1>0, <1>1, <1>3 DEF FlagFollowsUnlessClash
<1> QED BY <1>4, <1>5, <1>6, <1>8, <1>9 DEF PrefsIInv

\* The flag becomes what was stored.
LEMMA FlagStep ==
    ASSUME PrefsIInv, NEW r \in 1..PfSlots, SetRestoreOnQuit(r)
    PROVE  PrefsIInv'
<1> DEFINE q == [request[r] EXCEPT !.at = "answered", !.ok = TRUE]
<1>0. /\ request \in [1..PfSlots -> Request] /\ request[r] \in Request
      /\ request[r].body.restore \in BOOLEAN
  BY DEF PrefsIInv, RequestsOK, Request, Settings
<1>1. /\ request' = [request EXCEPT ![r] = q]
      /\ request[r].at = "stored" /\ flag' = request[r].body.restore
      /\ UNCHANGED <<agent, prefs, switch, page, list, clash>>
  BY <1>0 DEF SetRestoreOnQuit
<1>2. q \in Request /\ q.at = "answered" /\ q.kind = request[r].kind
  BY <1>0 DEF Request
<1> HIDE DEF q
<1>3. PrefsTypeOK'
  BY <1>0, <1>1 DEF PrefsIInv, PrefsTypeOK
<1>4. RequestsOK'
  BY <1>1, <1>2 DEF PrefsIInv, RequestsOK
<1>5. OneSave'
  BY <1>0, <1>1, <1>2 DEF PrefsIInv, OneSave, Saving
<1>6. StoredIsStored'
  BY <1>0, <1>1, <1>2 DEF PrefsIInv, StoredIsStored
<1>7. ReadIsStored'
  BY <1>0, <1>1, <1>2 DEF PrefsIInv, ReadIsStored, Keeps
<1>8. ~ clash => flag' = prefs.restore
  BY <1>1 DEF PrefsIInv, StoredIsStored
<1>9. FlagFollowsUnlessClash'
  BY <1>1, <1>8 DEF FlagFollowsUnlessClash
<1> QED BY <1>3, <1>4, <1>5, <1>6, <1>7, <1>9 DEF PrefsIInv

\* A restart reads the flag and lets every request fail that was not answered.
LEMMA RestartStep ==
    ASSUME PrefsIInv, Restart
    PROVE  PrefsIInv'
<1> DEFINE Q(r) == IF request[r].at \in {"none", "answered"} THEN request[r]
                   ELSE [NoRequest EXCEPT !.at = "answered", !.kind = request[r].kind]
<1>0. request \in [1..PfSlots -> Request] /\ prefs.restore \in BOOLEAN
  BY DEF PrefsIInv, RequestsOK, PrefsTypeOK, Settings
<1>1. /\ request' = [r \in 1..PfSlots |-> Q(r)]
      /\ flag' = prefs.restore
      /\ UNCHANGED <<agent, prefs, switch, page, list, clash>>
  BY DEF Restart
<1>2. ASSUME NEW r \in 1..PfSlots
      PROVE  /\ Q(r) \in Request /\ Q(r).at \in {"none", "answered"}
             /\ Q(r).kind = request[r].kind
             /\ Q(r).at = "none" => request[r].at = "none"
             /\ Q(r).ok => Q(r).at = "answered"
  <2>1. request[r] \in Request /\ request[r].kind \in {"load", "save", "switch", "refresh"}
    BY <1>0 DEF Request
  <2>2. CASE request[r].at \in {"none", "answered"}
    BY <2>1, <2>2 DEF PrefsIInv, RequestsOK
  <2>3. CASE request[r].at \notin {"none", "answered"}
    BY <2>1, <2>3, Constants DEF Request, NoRequest
  <2> QED BY <2>2, <2>3
<1> HIDE DEF Q
<1>3. PrefsTypeOK'
  BY <1>0, <1>1 DEF PrefsIInv, PrefsTypeOK
<1>4. RequestsOK' /\ StoredIsStored' /\ ReadIsStored'
  BY <1>1, <1>2 DEF RequestsOK, StoredIsStored, ReadIsStored
<1>5. \A r \in 1..PfSlots : request'[r].at # "none" => request[r].at # "none"
  <2> SUFFICES ASSUME NEW r \in 1..PfSlots, request[r].at = "none"
               PROVE  request'[r].at = "none"
    OBVIOUS
  <2> QED BY <1>1 DEF Q
<1>6. OneSave'
  BY <1>1, <1>2, <1>5 DEF PrefsIInv, OneSave, Saving
<1>7. FlagFollowsUnlessClash'
  BY <1>1 DEF FlagFollowsUnlessClash
<1> QED BY <1>3, <1>4, <1>6, <1>7 DEF PrefsIInv

\* A refresh is asked for.
LEMMA RefreshStep ==
    ASSUME PrefsIInv, Refresh
    PROVE  PrefsIInv'
<1> DEFINE q == [NoRequest EXCEPT !.at = "sent", !.kind = "refresh"]
<1>1. PICK r \in 1..PfSlots : request[r].at = "none" /\ request' = [request EXCEPT ![r] = q]
  BY DEF Refresh, Ask
<1>2. q \in Request /\ q.at = "sent" /\ q.kind = "refresh" /\ ~ q.ok
  BY Constants DEF NoRequest, Request
<1> HIDE DEF q
<1>3. UNCHANGED <<agent, prefs, switch, flag, page, list, clash>>
  BY DEF Refresh
<1>4. PrefsTypeOK'
  BY <1>3 DEF PrefsIInv, PrefsTypeOK
<1>5. RequestsOK' /\ OneSave' /\ StoredIsStored' /\ ReadIsStored' /\ FlagFollowsUnlessClash'
  BY <1>1, <1>2, <1>3, QuietStep
<1> QED BY <1>4, <1>5 DEF PrefsIInv

\* No step loses the invariant.
LEMMA IInvStep == PrefsIInv /\ [Next]_vars => PrefsIInv'
<1> SUFFICES ASSUME PrefsIInv, [Next]_vars PROVE PrefsIInv'
  OBVIOUS
<1>1. CASE Next
  BY <1>1, UserStep, RefreshStep, RestartStep, ReadStep, SetStep, FlagStep, OtherStep
     DEF Next, Serve
<1>2. CASE UNCHANGED vars
  BY <1>2 DEF vars, PrefsIInv, PrefsTypeOK, RequestsOK, OneSave, Saving, StoredIsStored,
              ReadIsStored, Keeps, FlagFollowsUnlessClash
<1> QED BY <1>1, <1>2

-----------------------------------------------------------------------------
(* Theorems. *)

\* What is stored is within bounds whatever a page sends, also before it has loaded
\* (mergeSettingsDefaults), and shutdown finds the flag that is stored, through
\* failures and restarts, unless two writes overlapped (SetRestoreOnQuit).
THEOREM SettingsAreSound == Spec => []PrefsInv
<1>1. PrefsIInv => PrefsInv
  BY DEF PrefsIInv, PrefsInv
<1> QED BY InitIInv, IInvStep, <1>1, PTL DEF Spec

\* An agent that is sent one field changes no other (handleSettingsPut of the
\* agent decodes over what it has), unless two writes overlapped.
THEOREM PatchIsLocal == Spec => PatchKeepsTheRest
<1> DEFINE Local == agent /\ ~clash /\ prefs' # prefs =>
                      \E r \in 1..PfSlots : request[r].at = "read" /\
                        \A f \in {"look", "poll", "restore"} \ {request[r].from} :
                          request[r].from = "page" \/ prefs'[f] = prefs[f]
<1>1. PrefsIInv /\ [Next]_vars => [Local]_vars
  <2> SUFFICES ASSUME PrefsIInv, Next, agent, ~ clash, prefs' # prefs
               PROVE  \E r \in 1..PfSlots : request[r].at = "read" /\
                        \A f \in {"look", "poll", "restore"} \ {request[r].from} :
                          request[r].from = "page" \/ prefs'[f] = prefs[f]
    OBVIOUS
  <2>1. PICK r \in 1..PfSlots : SetSettings(r)
    BY DEF Next, User, SettingsPageSaves, SettingsPageSwitches, AccountsPageSwitches,
           DesktopPatches, Edit, Refresh, Restart, Serve, ReadCurrent, SetRestoreOnQuit,
           SetAutoSwitch, Get, Fail, Answered
  <2>2. request[r].at = "read" /\ prefs' = Merged(request[r].body)
    BY <2>1 DEF SetSettings
  <2>3. /\ request[r].body \in Settings /\ Keeps(request[r])
        /\ prefs.look # "" /\ prefs.poll > 0
    BY <2>2 DEF PrefsIInv, RequestsOK, Request, ReadIsStored, PrefsTypeOK
  <2>4. \/ request[r].from = "page"
        \/ /\ request[r].from = "look" \/ prefs'.look = prefs.look
           /\ request[r].from = "poll" \/ prefs'.poll = prefs.poll
           /\ request[r].from = "restore" \/ prefs'.restore = prefs.restore
    BY <2>2, <2>3, MergedSettings DEF Keeps
  <2> QED BY <2>2, <2>4
<1> QED BY InitIInv, IInvStep, <1>1, PTL DEF Spec, PatchKeepsTheRest

-----------------------------------------------------------------------------
(* The Accounts page: numbers of rows. *)

\* As many elements as are smaller have a number below the one of a greater element.
LEMMA NumbersDiffer ==
    ASSUME NEW S \in SUBSET Nat, IsFiniteSet(S), NEW i \in S, NEW k \in S, i < k
    PROVE  Cardinality({j \in S : j < i}) < Cardinality({j \in S : j < k})
<1> DEFINE below(x) == {j \in S : j < x}
<1>0. below(k) \in SUBSET S /\ below(i) \in SUBSET S
  OBVIOUS
<1>1. IsFiniteSet(below(k)) /\ below(i) \in SUBSET below(k)
  <2>1. IsFiniteSet(below(k))
    <3> HIDE DEF below
    <3> QED BY <1>0, FS_Subset
  <2>2. \A j \in S : j < i => j < k
    OBVIOUS
  <2> QED BY <2>1, <2>2
<1>2. i \in below(k) /\ i \notin below(i)
  OBVIOUS
<1> HIDE DEF below
<1>3. IsFiniteSet(below(i))
  BY <1>0, FS_Subset
<1>4. /\ Cardinality(below(i)) <= Cardinality(below(k))
      /\ Cardinality(below(k)) # Cardinality(below(i))
  BY <1>1, <1>2, FS_Subset
<1>5. Cardinality(below(i)) \in Nat /\ Cardinality(below(k)) \in Nat
  BY <1>1, <1>3, FS_CardinalityType
<1>6. Cardinality(below(i)) < Cardinality(below(k))
  BY <1>4, <1>5
<1> QED BY <1>6 DEF below

\* Every number below the size of a set of numbers is the number of a row.
LEMMA RowsAreNumbered ==
    ASSUME NEW S \in SUBSET Nat, IsFiniteSet(S), NEW c \in Nat, c < Cardinality(S)
    PROVE  \E i \in S : Cardinality({j \in S : j < i}) = c
<1> DEFINE n == Cardinality(S)
           number == [i \in S |-> Cardinality({j \in S : j < i})]
           T == (0 .. (n - 1)) \ {c}
<1> SUFFICES ASSUME \A i \in S : number[i] # c PROVE FALSE
  OBVIOUS
<1>1. n \in Nat /\ n > 0 /\ c \in 0 .. (n - 1)
  BY FS_CardinalityType
<1>2. IsFiniteSet(T) /\ Cardinality(T) < n
  <2>1. IsFiniteSet(0 .. (n - 1)) /\ Cardinality(0 .. (n - 1)) = n
    <3>1. 0 \in Int /\ n - 1 \in Int /\ ~ (0 > n - 1) /\ (n - 1) - 0 + 1 = n
      BY <1>1
    <3> QED BY <3>1, FS_Interval
  <2> DEFINE R == 0 .. (n - 1)
  <2> HIDE DEF n
  <2>2. IsFiniteSet(R \ {c}) /\ Cardinality(R \ {c}) = Cardinality(R) - 1
    <3> HIDE DEF R
    <3>1. c \in R
      BY <1>1 DEF R
    <3> QED BY <2>1, <3>1, FS_RemoveElement DEF R
  <2> QED BY <1>1, <2>1, <2>2
<1>3. number \in [S -> T]
  <2> SUFFICES ASSUME NEW i \in S PROVE number[i] \in 0 .. (n - 1)
    OBVIOUS
  <2> DEFINE below == {j \in S : j < i}
  <2>1. below \in SUBSET S /\ i \notin below
    OBVIOUS
  <2> HIDE DEF below
  <2>2. /\ IsFiniteSet(below) /\ Cardinality(below) <= n /\ Cardinality(below) # n
    BY <2>1, FS_Subset
  <2>3. Cardinality(below) \in 0 .. (n - 1)
    BY <1>1, <2>2, FS_CardinalityType
  <2> QED BY <2>3 DEF below
<1>4. PICK x, y \in S : x # y /\ number[x] = number[y]
  <2> HIDE DEF number, T
  <2> QED BY <1>2, <1>3, FS_PigeonHole
<1>5. CASE x < y
  <2>1. number[x] < number[y]
    BY <1>5, NumbersDiffer
  <2>2. number[x] \in Nat
    BY <1>1, <1>3
  <2> QED BY <1>4, <2>1, <2>2
<1>6. CASE y < x
  <2>1. number[y] < number[x]
    BY <1>6, NumbersDiffer
  <2>2. number[x] \in Nat
    BY <1>1, <1>3
  <2> QED BY <1>4, <2>1, <2>2
<1> QED BY <1>4, <1>5, <1>6

\* The number of a row is below the size of the list.
LEMMA NumberInRange ==
    ASSUME NEW S \in SUBSET Nat, IsFiniteSet(S), NEW i \in S
    PROVE  /\ Cardinality({j \in S : j < i}) \in Nat
           /\ Cardinality({j \in S : j < i}) < Cardinality(S)
<1> DEFINE below == {j \in S : j < i}
<1>1. below \in SUBSET S /\ i \notin below
  OBVIOUS
<1> HIDE DEF below
<1>2. /\ IsFiniteSet(below) /\ Cardinality(below) <= Cardinality(S)
      /\ Cardinality(below) # Cardinality(S)
  BY <1>1, FS_Subset
<1>3. Cardinality(below) \in Nat /\ Cardinality(below) < Cardinality(S)
  BY <1>2, FS_CardinalityType
<1> QED BY <1>3 DEF below

-----------------------------------------------------------------------------
(* The Accounts page: its invariant. *)

\* The cursor is on one of the rows shown, if any is.
CursorIn(a, u) == A!Visible(a, u) # {} => u.cursor < Cardinality(A!Visible(a, u))

\* A request that names an account is about one that was asked for; what the daemon
\* may start a login for has none.
SentFor(q) ==
    q.at = "sent" =>
        /\ q.kind # "login" => <<q.kind, q.id>> \in asked
        /\ q.kind \notin {"login", "callback"} => q.id \in ApIds

\* The editor of thresholds was opened for an account.
EditorFor(u) ==
    u.mode = "thresholds" => u.subject \in ApIds /\ <<"thresholds", u.subject>> \in asked

AIInv ==
    /\ A!ApTypeOK /\ CursorIn(all, ui) /\ EditorFor(ui)
    /\ \A o \in 1..ApOps : SentFor(op[o])

\* The page counts as we do.
LEMMA SameCardinality == \A S : A!Cardinality(S) = Cardinality(S)
<1> SUFFICES ASSUME NEW S PROVE A!Cardinality(S) = Cardinality(S)
  OBVIOUS
<1> QED BY DEF A!Cardinality, Cardinality

\* What is shown are accounts.
LEMMA ShownAreAccounts ==
    ASSUME NEW a, NEW u
    PROVE  /\ A!Visible(a, u) \in SUBSET ApIds /\ A!Visible(a, u) \in SUBSET Nat
           /\ IsFiniteSet(A!Visible(a, u)) /\ Cardinality(A!Visible(a, u)) \in Nat
           /\ Cardinality(ApIds) \in Nat
           /\ Cardinality(A!Visible(a, u)) <= Cardinality(ApIds)
<1>1. A!Visible(a, u) \in SUBSET ApIds
  BY DEF A!Visible, A!Filtered, A!Present
<1>2. ApIds \in SUBSET Nat /\ IsFiniteSet(ApIds)
  BY AccountsAssumption
<1> QED BY <1>1, <1>2, FS_Subset, FS_CardinalityType

\* What is selected is an account that is shown.
LEMMA SelectedIsShown == A!Selected \subseteq A!Shown /\ A!Selected \subseteq ApIds
<1>1. A!Shown \subseteq ApIds
  BY ShownAreAccounts DEF A!Shown
<1> QED BY <1>1 DEF A!Selected, A!RowAt

\* The cursor is put on a row.
LEMMA ClampedCursor ==
    ASSUME NEW u \in A!Pages, NEW a
    PROVE  /\ A!Clamped(u, a) \in A!Pages /\ CursorIn(a, A!Clamped(u, a))
           /\ A!Clamped(u, a).mode = u.mode /\ A!Clamped(u, a).subject = u.subject
<1> DEFINE n == Cardinality(A!Visible(a, u))
           c == IF u.cursor < n THEN u.cursor ELSE IF n = 0 THEN 0 ELSE n - 1
           v == [u EXCEPT !.cursor = c]
<1>1. /\ n \in Nat /\ Cardinality(ApIds) \in Nat /\ n <= Cardinality(ApIds)
      /\ A!Visible(a, u) # {} => n # 0
  BY ShownAreAccounts, FS_EmptySet
<1>2. u.cursor \in 0 .. Cardinality(ApIds)
  BY SameCardinality DEF A!Pages
<1>3. c \in 0 .. Cardinality(ApIds) /\ (n # 0 => c < n)
  BY <1>1, <1>2
<1>4. A!Clamped(u, a) = v
  BY SameCardinality DEF A!Clamped, A!Pages
<1> HIDE DEF c
<1>5. /\ v \in A!Pages /\ v.cursor = c /\ v.chip = u.chip /\ v.query = u.query
      /\ v.mode = u.mode /\ v.subject = u.subject
  BY <1>3, SameCardinality DEF A!Pages
<1> HIDE DEF v
<1>6. A!Visible(a, v) = A!Visible(a, u)
  BY <1>5 DEF A!Visible
<1>7. CursorIn(a, v)
  BY <1>1, <1>3, <1>5, <1>6 DEF CursorIn
<1> QED BY <1>4, <1>5, <1>7

\* The invariant puts the cursor on a row.
LEMMA AccountsInvariant == AIInv => AccountsInv
<1> SUFFICES ASSUME AIInv PROVE AccountsInv
  OBVIOUS
<1>1. A!CursorOnRow
  <2> SUFFICES ASSUME A!Shown # {} PROVE A!Selected # {}
    BY DEF A!CursorOnRow
  <2>1. /\ A!Shown \in SUBSET Nat /\ IsFiniteSet(A!Shown)
        /\ ui.cursor \in Nat /\ ui.cursor < Cardinality(A!Shown)
    BY ShownAreAccounts, SameCardinality DEF A!Shown, AIInv, CursorIn, A!ApTypeOK, A!Pages
  <2>2. \E i \in A!Shown : Cardinality({j \in A!Shown : j < i}) = ui.cursor
    BY <2>1, RowsAreNumbered
  <2> QED BY <2>2, SameCardinality DEF A!Selected, A!RowAt
<1>2. A!OpsHitTheAsked
  BY DEF AIInv, SentFor, A!OpsHitTheAsked
<1> QED BY <1>1, <1>2 DEF AIInv, AccountsInv, A!AccountsInv

-----------------------------------------------------------------------------
(* The Accounts page: its steps. *)

\* The number of keys pressed stays in bounds.
LEMMA KeyCounts ==
    ASSUME A!ApTypeOK, NEW m, A!Key(m)
    PROVE  apKeys' \in 0..ApMaxKeys /\ ui.mode = m
<1>1. ApMaxKeys \in Nat
  BY AccountsAssumption
<1> QED BY <1>1 DEF A!Key, A!ApTypeOK

\* What is kept when the requests and what was asked stay.
LEMMA PageMoves ==
    ASSUME AIInv, NEW u \in A!Pages, ui' = u, EditorFor(u), CursorIn(all, u),
           apKeys' \in 0..ApMaxKeys,
           UNCHANGED <<apAgent, rows, held, all, op, load, others, lost, asked>>
    PROVE  AIInv'
<1>1. A!ApTypeOK'
  BY DEF AIInv, A!ApTypeOK
<1>2. CursorIn(all, ui)' /\ EditorFor(ui)'
  BY DEF CursorIn, EditorFor, A!Visible, A!Filtered, A!Present
<1>3. \A o \in 1..ApOps : SentFor(op[o])'
  BY DEF AIInv, SentFor
<1> QED BY <1>1, <1>2, <1>3 DEF AIInv

\* A request is sent.
LEMMA AskSends ==
    ASSUME AIInv, NEW kind \in A!OpKinds, NEW i \in {0} \cup ApIds, A!Ask(kind, i),
           asked \subseteq asked', kind # "login" => <<kind, i>> \in asked',
           kind \notin {"login", "callback"} => i \in ApIds
    PROVE  op' \in [1..ApOps -> A!Operations] /\ \A o \in 1..ApOps : SentFor(op[o])'
<1> DEFINE q == [A!NoOp EXCEPT !.at = "sent", !.kind = kind, !.id = i]
<1>1. /\ q \in A!Operations /\ q.kind = kind /\ q.id = i
  BY DEF A!NoOp, A!Operations
<1>2. PICK o \in 1..ApOps : op' = [op EXCEPT ![o] = q]
  BY DEF A!Ask
<1> HIDE DEF q
<1>3. op \in [1..ApOps -> A!Operations] /\ \A x \in 1..ApOps : SentFor(op[x])
  BY DEF AIInv, A!ApTypeOK
<1>4. ASSUME NEW x \in 1..ApOps PROVE SentFor(op[x])'
  <2>1. CASE x = o
    <3>1. op'[x] = q
      BY <1>2, <1>3, <2>1
    <3> QED BY <1>1, <3>1 DEF SentFor
  <2>2. CASE x # o
    <3>1. op'[x] = op[x]
      BY <1>2, <1>3, <2>2
    <3> QED BY <1>3, <3>1 DEF SentFor
  <2> QED BY <2>1, <2>2
<1> QED BY <1>1, <1>2, <1>3, <1>4

\* startOp.
LEMMA StartOpMoves ==
    ASSUME AIInv, NEW kind \in A!OpKinds \ {"login"}, NEW i \in {0} \cup ApIds,
           kind # "callback" => i \in ApIds,
           NEW u \in A!Pages, u.mode # "thresholds", CursorIn(all, u),
           apKeys' \in 0..ApMaxKeys, A!StartOp(kind, i, u)
    PROVE  AIInv'
<1>1. /\ asked' = asked \cup {<<kind, i>>} /\ A!Ask(kind, i)
      /\ UNCHANGED <<apAgent, rows, held, all, load, others, lost>>
      /\ ui' = [u EXCEPT !.busy = TRUE]
  BY DEF A!StartOp, A!Server
<1>2. op' \in [1..ApOps -> A!Operations] /\ \A o \in 1..ApOps : SentFor(op[o])'
  BY <1>1, AskSends
<1>3. /\ ui' \in A!Pages /\ ui'.mode # "thresholds"
      /\ ui'.cursor = u.cursor /\ ui'.chip = u.chip /\ ui'.query = u.query
  BY <1>1 DEF A!Pages
<1>4. CursorIn(all, ui)' /\ EditorFor(ui)'
  BY <1>1, <1>3 DEF CursorIn, EditorFor, A!Visible, A!Filtered, A!Present
<1>5. A!ApTypeOK'
  BY <1>1, <1>2, <1>3 DEF AIInv, A!ApTypeOK
<1> QED BY <1>2, <1>4, <1>5 DEF AIInv

\* A key that moves the cursor, changes what is shown, or opens or closes a dialog.
LEMMA LookStep ==
    ASSUME AIInv, \/ A!MoveCursor \/ A!CycleFilter \/ A!AskDelete \/ A!OpenSearch
                  \/ A!TypeSearch \/ A!CloseSearch \/ A!Cancel
    PROVE  AIInv'
<1>0. /\ A!ApTypeOK /\ ui \in A!Pages /\ CursorIn(all, ui)
      /\ ui.cursor \in 0..Cardinality(ApIds) /\ Cardinality(ApIds) \in Nat
      /\ apKeys' \in 0..ApMaxKeys
  <2>1. A!ApTypeOK /\ ui \in A!Pages /\ CursorIn(all, ui)
    BY DEF AIInv, A!ApTypeOK
  <2>2. \E m : A!Key(m)
    BY DEF A!MoveCursor, A!CycleFilter, A!AskDelete, A!OpenSearch, A!TypeSearch,
           A!CloseSearch, A!Cancel
  <2> QED BY <2>1, <2>2, KeyCounts, SameCardinality, ShownAreAccounts DEF A!Pages
<1>1. ASSUME NEW u \in A!Pages, u.mode # "thresholds", CursorIn(all, u), A!Shows(u)
      PROVE  AIInv'
  BY <1>0, <1>1, PageMoves DEF A!Shows, A!Server, EditorFor
<1>2. CASE A!MoveCursor
  <2>1. PICK i \in A!Shown : A!Shows([ui EXCEPT !.cursor = Cardinality({j \in A!Shown : j < i})])
    BY <1>2, SameCardinality DEF A!MoveCursor
  <2> DEFINE c == Cardinality({j \in A!Shown : j < i})
  <2>2. c \in Nat /\ c < Cardinality(A!Shown) /\ Cardinality(A!Shown) <= Cardinality(ApIds)
    BY ShownAreAccounts, NumberInRange DEF A!Shown
  <2>3. c \in 0..Cardinality(ApIds) /\ Cardinality(A!Shown) \in Nat
    BY <1>0, <2>2, ShownAreAccounts DEF A!Shown
  <2> HIDE DEF c
  <2> DEFINE u == [ui EXCEPT !.cursor = c]
  <2>4. u \in A!Pages /\ u.cursor = c /\ u.chip = ui.chip /\ u.query = ui.query /\ u.mode = ui.mode
    BY <1>0, <2>3, SameCardinality DEF A!Pages
  <2>5. A!Shows(u)
    BY <2>1 DEF c
  <2> HIDE DEF u
  <2>6. A!Visible(all, u) = A!Shown
    BY <2>4 DEF A!Shown, A!Visible
  <2>7. CursorIn(all, u)
    BY <2>2, <2>4, <2>6 DEF CursorIn
  <2>8. u.mode # "thresholds"
    BY <1>2, <2>4 DEF A!MoveCursor, A!Key
  <2> QED BY <1>1, <2>4, <2>5, <2>7, <2>8
<1>3. CASE A!CycleFilter
  <2>1. PICK step \in {1, 3} : A!Shows([ui EXCEPT !.chip = ((@ + step - 1) % 4) + 1, !.cursor = 0])
    BY <1>3 DEF A!CycleFilter
  <2> DEFINE u == [ui EXCEPT !.chip = ((ui.chip + step - 1) % 4) + 1, !.cursor = 0]
  <2>2. ui.chip \in 1..4
    BY <1>0 DEF A!Pages
  <2>3. ((ui.chip + step - 1) % 4) + 1 \in 1..4
    BY <2>2
  <2>4. u \in A!Pages /\ u.cursor = 0 /\ u.mode = ui.mode
    <3>1. 0 \in 0..A!Cardinality(ApIds)
      BY <1>0, SameCardinality
    <3> QED BY <1>0, <2>3, <3>1 DEF A!Pages
  <2>5. A!Shows(u)
    BY <1>0, <2>1 DEF A!Pages
  <2> HIDE DEF u
  <2>6. CursorIn(all, u)
    <3>1. Cardinality(A!Visible(all, u)) \in Nat
          /\ (A!Visible(all, u) # {} => Cardinality(A!Visible(all, u)) # 0)
      BY ShownAreAccounts, FS_EmptySet
    <3> QED BY <2>4, <3>1 DEF CursorIn
  <2>7. u.mode # "thresholds"
    BY <1>3, <2>4 DEF A!CycleFilter, A!Key
  <2> QED BY <1>1, <2>4, <2>5, <2>6, <2>7
<1>4. ASSUME NEW m \in {"list", "confirm", "search"}, A!Shows([ui EXCEPT !.mode = m])
      PROVE  AIInv'
  <2> DEFINE u == [ui EXCEPT !.mode = m]
  <2>1. /\ u \in A!Pages /\ u.cursor = ui.cursor /\ u.chip = ui.chip /\ u.query = ui.query
        /\ u.mode = m
    BY <1>0 DEF A!Pages, A!Modes
  <2>2. A!Shows(u)
    BY <1>4
  <2> HIDE DEF u
  <2>3. CursorIn(all, u)
    BY <1>0, <2>1 DEF CursorIn, A!Visible
  <2> QED BY <1>1, <2>1, <2>2, <2>3
<1>5. CASE A!AskDelete \/ A!OpenSearch \/ A!Cancel
  BY <1>4, <1>5 DEF A!AskDelete, A!OpenSearch, A!Cancel
<1>6. CASE A!TypeSearch
  <2>1. PICK q \in ApQueries : A!Shows(A!Clamped([ui EXCEPT !.query = q], all))
    BY <1>6 DEF A!TypeSearch
  <2> DEFINE v == [ui EXCEPT !.query = q]
  <2>2. q \in SUBSET ApIds
    BY AccountsAssumption
  <2>3. v \in A!Pages /\ v.mode = ui.mode
    BY <1>0, <2>2 DEF A!Pages
  <2>4. ui.mode # "thresholds"
    BY <1>6 DEF A!TypeSearch, A!Key
  <2>5. A!Shows(A!Clamped(v, all))
    BY <2>1
  <2> HIDE DEF v
  <2> QED BY <1>1, <2>3, <2>4, <2>5, ClampedCursor
<1>7. CASE A!CloseSearch
  <2>1. PICK q \in {ui.query, ApIds} :
          A!Shows([ui EXCEPT !.mode = "list", !.query = q, !.cursor = 0])
    BY <1>7 DEF A!CloseSearch
  <2> DEFINE u == [ui EXCEPT !.mode = "list", !.query = q, !.cursor = 0]
  <2>2. q \in SUBSET ApIds
    BY <1>0 DEF A!Pages
  <2>3. u \in A!Pages /\ u.cursor = 0 /\ u.mode = "list"
    <3>1. 0 \in 0..A!Cardinality(ApIds)
      BY <1>0, SameCardinality
    <3> QED BY <1>0, <2>2, <3>1 DEF A!Pages, A!Modes
  <2>4. A!Shows(u)
    BY <2>1
  <2> HIDE DEF u
  <2>5. CursorIn(all, u)
    <3>1. Cardinality(A!Visible(all, u)) \in Nat
          /\ (A!Visible(all, u) # {} => Cardinality(A!Visible(all, u)) # 0)
      BY ShownAreAccounts, FS_EmptySet
    <3> QED BY <2>3, <3>1 DEF CursorIn
  <2> QED BY <1>1, <2>3, <2>4, <2>5
<1> QED BY <1>2, <1>3, <1>5, <1>6, <1>7

\* A key that asks for an operation.
LEMMA OperateStep ==
    ASSUME AIInv, \/ A!UseSelected \/ A!RefreshSelected \/ A!PauseSelected \/ A!ConfirmDelete
                  \/ A!PasteCode
    PROVE  AIInv'
<1>0. /\ A!ApTypeOK /\ ui \in A!Pages /\ CursorIn(all, ui) /\ A!Selected \subseteq ApIds
      /\ apKeys' \in 0..ApMaxKeys /\ ui.mode # "thresholds"
  <2>1. A!ApTypeOK /\ ui \in A!Pages /\ CursorIn(all, ui)
    BY DEF AIInv, A!ApTypeOK
  <2>2. \E m : A!Key(m) /\ m # "thresholds"
    BY DEF A!UseSelected, A!RefreshSelected, A!PauseSelected, A!ConfirmDelete, A!PasteCode
  <2> QED BY <2>1, <2>2, KeyCounts, SelectedIsShown
<1> DEFINE u == [ui EXCEPT !.mode = "list"]
<1>1. /\ u \in A!Pages /\ u.cursor = ui.cursor /\ u.chip = ui.chip /\ u.query = ui.query
      /\ u.mode = "list"
  BY <1>0 DEF A!Pages, A!Modes
<1>2. CASE A!UseSelected \/ A!RefreshSelected \/ A!PauseSelected
  <2>1. PICK i \in A!Selected, kind \in {"select", "refresh", "pause", "resume"} :
          A!StartOp(kind, i, ui)
    BY <1>2 DEF A!UseSelected, A!RefreshSelected, A!PauseSelected
  <2>2. kind \in A!OpKinds \ {"login"} /\ kind # "callback" /\ i \in ApIds
    BY <1>0 DEF A!OpKinds, A!AdminOps
  <2> QED BY <1>0, <2>1, <2>2, StartOpMoves
<1>3. CASE A!ConfirmDelete \/ A!PasteCode
  <2> HIDE DEF u
  <2>1. CursorIn(all, u)
    BY <1>0, <1>1 DEF CursorIn, A!Visible
  <2>2. "delete" \in A!OpKinds \ {"login"} /\ "callback" \in A!OpKinds \ {"login"}
    BY DEF A!OpKinds, A!AdminOps
  <2>3. ASSUME NEW i \in A!Selected, A!StartOp("delete", i, u) PROVE AIInv'
    BY <1>0, <1>1, <2>1, <2>2, <2>3, StartOpMoves
  <2>4. ASSUME A!StartOp("callback", 0, u) PROVE AIInv'
    BY <1>0, <1>1, <2>1, <2>2, <2>4, StartOpMoves
  <2>5. ASSUME A!Shows(u) PROVE AIInv'
    BY <1>0, <1>1, <2>1, <2>5, PageMoves DEF A!Shows, A!Server, EditorFor
  <2> QED BY <1>3, <2>3, <2>4, <2>5 DEF A!ConfirmDelete, A!PasteCode, u
<1> QED BY <1>2, <1>3

\* The editor of thresholds, and a login.
LEMMA EditorStep ==
    ASSUME AIInv, A!EditThresholds \/ A!SaveThresholds \/ A!AskLogin
    PROVE  AIInv'
<1>0. /\ A!ApTypeOK /\ ui \in A!Pages /\ CursorIn(all, ui) /\ A!Selected \subseteq ApIds
      /\ apKeys' \in 0..ApMaxKeys /\ EditorFor(ui) /\ \A o \in 1..ApOps : SentFor(op[o])
  <2>1. A!ApTypeOK /\ ui \in A!Pages /\ CursorIn(all, ui)
    BY DEF AIInv, A!ApTypeOK
  <2>2. \E m : A!Key(m)
    BY DEF A!EditThresholds, A!SaveThresholds, A!AskLogin
  <2> QED BY <2>1, <2>2, KeyCounts, SelectedIsShown DEF AIInv
<1>k. "login" \in A!OpKinds /\ "thresholds" \in A!OpKinds
  BY DEF A!OpKinds, A!AdminOps
<1>1. CASE A!EditThresholds
  <2>1. PICK i \in A!Selected :
           /\ ui' = [ui EXCEPT !.mode = "thresholds", !.subject = i]
           /\ asked' = asked \cup {<<"thresholds", i>>}
           /\ UNCHANGED <<apAgent, rows, held, all, op, load, others, lost>>
    BY <1>1 DEF A!EditThresholds, A!Server
  <2>2. /\ ui' \in A!Pages /\ ui'.cursor = ui.cursor /\ ui'.chip = ui.chip
        /\ ui'.query = ui.query /\ ui'.subject = i /\ i \in ApIds
    BY <1>0, <2>1 DEF A!Pages, A!Modes
  <2>3. CursorIn(all, ui)' /\ EditorFor(ui)'
    BY <1>0, <2>1, <2>2 DEF CursorIn, EditorFor, A!Visible, A!Filtered, A!Present
  <2>4. \A o \in 1..ApOps : SentFor(op[o])'
    BY <1>0, <2>1 DEF SentFor
  <2>5. A!ApTypeOK'
    BY <1>0, <1>k, <2>1, <2>2 DEF A!ApTypeOK
  <2> QED BY <2>3, <2>4, <2>5 DEF AIInv
<1>2. CASE A!SaveThresholds
  <2>1. /\ A!Ask("thresholds", ui.subject) /\ ui' = [ui EXCEPT !.mode = "list", !.busy = TRUE]
        /\ UNCHANGED <<apAgent, rows, held, all, load, others, lost, asked>>
    BY <1>2 DEF A!SaveThresholds, A!Server
  <2>2. ui.subject \in ApIds /\ <<"thresholds", ui.subject>> \in asked
    BY <1>0, <1>2 DEF A!SaveThresholds, A!Key, EditorFor
  <2>3. op' \in [1..ApOps -> A!Operations] /\ \A o \in 1..ApOps : SentFor(op[o])'
    BY <1>k, <2>1, <2>2, AskSends
  <2>4. /\ ui' \in A!Pages /\ ui'.cursor = ui.cursor /\ ui'.chip = ui.chip
        /\ ui'.query = ui.query /\ ui'.mode = "list"
    BY <1>0, <2>1 DEF A!Pages, A!Modes
  <2>5. CursorIn(all, ui)' /\ EditorFor(ui)'
    BY <1>0, <2>1, <2>4 DEF CursorIn, EditorFor, A!Visible, A!Filtered, A!Present
  <2>6. A!ApTypeOK'
    BY <1>0, <2>1, <2>3, <2>4 DEF A!ApTypeOK
  <2> QED BY <2>3, <2>5, <2>6 DEF AIInv
<1>3. CASE A!AskLogin
  <2>1. A!Ask("login", 0) /\ UNCHANGED <<apAgent, rows, held, all, ui, load, others, lost, asked>>
    BY <1>3 DEF A!AskLogin, A!Server
  <2>2. op' \in [1..ApOps -> A!Operations] /\ \A o \in 1..ApOps : SentFor(op[o])'
    BY <1>k, <2>1, AskSends
  <2>3. CursorIn(all, ui)' /\ EditorFor(ui)'
    BY <1>0, <2>1 DEF CursorIn, EditorFor, A!Visible, A!Filtered, A!Present
  <2>4. A!ApTypeOK'
    BY <1>0, <2>1, <2>2 DEF A!ApTypeOK
  <2> QED BY <2>2, <2>3, <2>4 DEF AIInv
<1> QED BY <1>1, <1>2, <1>3

\* An operation is answered, or its answer taken: it is not waiting any more.
LEMMA NotSentAnyMore ==
    ASSUME AIInv, NEW o \in 1..ApOps, NEW q \in A!Operations, q.at # "sent",
           op' = [op EXCEPT ![o] = q], asked' = asked
    PROVE  op' \in [1..ApOps -> A!Operations] /\ \A x \in 1..ApOps : SentFor(op[x])'
<1>1. op \in [1..ApOps -> A!Operations] /\ \A x \in 1..ApOps : SentFor(op[x])
  BY DEF AIInv, A!ApTypeOK
<1>2. ASSUME NEW x \in 1..ApOps PROVE SentFor(op[x])'
  <2>1. CASE x = o
    <3>1. op'[x] = q
      BY <1>1, <2>1
    <3> QED BY <3>1 DEF SentFor
  <2>2. CASE x # o
    <3>1. op'[x] = op[x]
      BY <1>1, <2>2
    <3> QED BY <1>1, <3>1 DEF SentFor
  <2> QED BY <2>1, <2>2
<1> QED BY <1>1, <1>2

\* The daemon serves an operation: it writes one row, or none.
LEMMA ServeStep ==
    ASSUME AIInv, NEW o \in 1..ApOps, A!ServeOp(o)
    PROVE  AIInv'
<1>0. /\ A!ApTypeOK /\ op[o] \in A!Operations /\ rows \in [ApIds -> A!Statuses]
      /\ CursorIn(all, ui) /\ EditorFor(ui) /\ SentFor(op[o])
      /\ op \in [1..ApOps -> A!Operations]
  BY DEF AIInv, A!ApTypeOK
<1>1. /\ UNCHANGED <<apAgent, held, all, ui, load, apKeys, others, asked>>
      /\ op[o].at = "sent"
  BY DEF A!ServeOp, A!RefuseOp, A!RunOp, A!StartLogin, A!FinishLogin
<1>2. PICK ok \in BOOLEAN : A!Answered(o, ok)
  BY DEF A!ServeOp, A!RefuseOp, A!RunOp, A!StartLogin, A!FinishLogin
<1>3. op' \in [1..ApOps -> A!Operations] /\ \A x \in 1..ApOps : SentFor(op[x])'
  <2> DEFINE q == [op[o] EXCEPT !.at = "done", !.ok = ok]
  <2>1. q \in A!Operations /\ q.at # "sent"
    BY <1>0 DEF A!Operations
  <2>2. op' = [op EXCEPT ![o] = q]
    BY <1>0, <1>2 DEF A!Answered, A!Operations
  <2> HIDE DEF q
  <2> QED BY <1>1, <2>1, <2>2, NotSentAnyMore
<1>4. rows' \in [ApIds -> A!Statuses] /\ lost' \in 0..ApMaxLost
  <2>1. CASE A!RefuseOp(o) \/ A!StartLogin(o)
    BY <1>0, <2>1 DEF A!RefuseOp, A!StartLogin, A!ApTypeOK
  <2>2. CASE A!RunOp(o)
    <3>1. op[o].id \in ApIds
      BY <1>0, <2>2 DEF A!RunOp, SentFor
    <3>2. PICK status \in A!Written(op[o].kind, op[o].id, rows[op[o].id]) :
             rows' = [rows EXCEPT ![op[o].id] = status]
      BY <2>2 DEF A!RunOp
    <3>3. status \in A!Statuses
      <4> DEFINE old == rows[op[o].id]
                 k == op[o].kind
      <4>1. old \in A!Statuses
        BY <1>0, <3>1
      <4>2. status \in A!Written(k, op[o].id, old)
        BY <3>2
      <4> HIDE DEF k
      <4>3. status \in {old, "none", "gone", "paused", "active", "cooling", "reauth"}
        BY <4>2 DEF A!Written
      <4> HIDE DEF old
      <4> QED BY <4>1, <4>3 DEF A!Statuses
    <3>4. lost' \in 0..ApMaxLost
      <4>1. lost' = lost \/ (lost < ApMaxLost /\ lost' = lost + 1)
        BY <2>2 DEF A!RunOp
      <4>2. lost \in 0..ApMaxLost /\ ApMaxLost \in Nat
        BY <1>0, AccountsAssumption DEF A!ApTypeOK
      <4> QED BY <4>1, <4>2
    <3> QED BY <1>0, <3>1, <3>2, <3>3, <3>4
  <2>3. CASE A!FinishLogin(o)
    <3>1. PICK i \in ApIds : rows' = [rows EXCEPT ![i] = IF @ = "cooling" THEN @ ELSE "active"]
      BY <2>3 DEF A!FinishLogin
    <3>2. lost' = lost
      BY <2>3 DEF A!FinishLogin
    <3> QED BY <1>0, <3>1, <3>2 DEF A!ApTypeOK, A!Statuses
  <2> QED BY <2>1, <2>2, <2>3 DEF A!ServeOp
<1>5. CursorIn(all, ui)' /\ EditorFor(ui)'
  BY <1>0, <1>1 DEF CursorIn, EditorFor, A!Visible, A!Filtered, A!Present
<1>6. A!ApTypeOK'
  BY <1>0, <1>1, <1>3, <1>4 DEF A!ApTypeOK
<1> QED BY <1>3, <1>5, <1>6 DEF AIInv

\* A load is begun.
LEMMA ReloadType ==
    ASSUME A!ApTypeOK, A!Reload
    PROVE  load' \in [1..ApLoads -> A!Loads]
<1>1. PICK l \in 1..ApLoads : load' = [load EXCEPT ![l].at = "sent"]
  BY DEF A!Reload
<1>2. load \in [1..ApLoads -> A!Loads] /\ load[l] \in A!Loads
  BY DEF A!ApTypeOK
<1>3. [load[l] EXCEPT !.at = "sent"] \in A!Loads
  BY <1>2 DEF A!Loads
<1> QED BY <1>1, <1>2, <1>3

\* The page takes the answer to an operation.
LEMMA AnswerStep ==
    ASSUME AIInv, NEW o \in 1..ApOps, A!OnAnswer(o)
    PROVE  AIInv'
<1>0. A!ApTypeOK /\ ui \in A!Pages /\ CursorIn(all, ui) /\ EditorFor(ui)
  BY DEF AIInv, A!ApTypeOK
<1>1. /\ UNCHANGED <<apAgent, rows, held, all, apKeys, others, lost, asked>>
      /\ op' = [op EXCEPT ![o] = A!NoOp]
  BY DEF A!OnAnswer, A!OnOpResult, A!OnLoginStart, A!Server
<1>2. A!NoOp \in A!Operations /\ A!NoOp.at # "sent"
  BY DEF A!NoOp, A!Operations, A!OpKinds
<1>3. op' \in [1..ApOps -> A!Operations] /\ \A x \in 1..ApOps : SentFor(op[x])'
  BY <1>1, <1>2, NotSentAnyMore
<1>4. load' \in [1..ApLoads -> A!Loads]
  BY <1>0, ReloadType DEF A!OnAnswer, A!OnOpResult, A!OnLoginStart, A!ApTypeOK
<1>5. /\ ui' \in A!Pages /\ ui'.cursor = ui.cursor /\ ui'.chip = ui.chip /\ ui'.query = ui.query
      /\ ui'.mode = "thresholds" => ui.mode = "thresholds" /\ ui'.subject = ui.subject
  <2>1. \/ ui' = [ui EXCEPT !.busy = FALSE]
        \/ \E m \in {"paste", "list"} : ui' = [ui EXCEPT !.mode = m]
    BY DEF A!OnAnswer, A!OnOpResult, A!OnLoginStart
  <2> QED BY <1>0, <2>1 DEF A!Pages, A!Modes
<1>6. CursorIn(all, ui)' /\ EditorFor(ui)'
  BY <1>0, <1>1, <1>5 DEF CursorIn, EditorFor, A!Visible, A!Filtered, A!Present
<1>7. A!ApTypeOK'
  BY <1>0, <1>1, <1>3, <1>4, <1>5 DEF A!ApTypeOK
<1> QED BY <1>3, <1>6, <1>7 DEF AIInv

\* The list is read, and shown.
LEMMA ListStep ==
    ASSUME AIInv, NEW l \in 1..ApLoads, A!RunLoad(l) \/ A!OnAccounts(l)
    PROVE  AIInv'
<1>0. /\ A!ApTypeOK /\ ui \in A!Pages /\ CursorIn(all, ui) /\ EditorFor(ui)
      /\ load \in [1..ApLoads -> A!Loads] /\ load[l] \in A!Loads /\ all \in A!Copies
      /\ \A x \in 1..ApOps : SentFor(op[x])
  BY DEF AIInv, A!ApTypeOK
<1>1. CASE A!RunLoad(l)
  <2>1. UNCHANGED <<apAgent, rows, held, all, ui, op, apKeys, others, asked>>
    BY <1>1 DEF A!RunLoad
  <2>2. [row |-> rows, held |-> held] \in A!Copies
    BY <1>0 DEF A!Copies, A!ApTypeOK
  <2>3. load' \in [1..ApLoads -> A!Loads]
    <3>1. /\ [at |-> "done", ok |-> TRUE, seen |-> [row |-> rows, held |-> held]] \in A!Loads
          /\ [load[l] EXCEPT !.at = "done", !.ok = FALSE] \in A!Loads
      BY <1>0, <2>2 DEF A!Loads
    <3>2. \/ load' = [load EXCEPT ![l] = [at |-> "done", ok |-> TRUE,
                                          seen |-> [row |-> rows, held |-> held]]]
          \/ load' = [load EXCEPT ![l] = [load[l] EXCEPT !.at = "done", !.ok = FALSE]]
      BY <1>0, <1>1 DEF A!RunLoad, A!Loads
    <3> QED BY <1>0, <3>1, <3>2
  <2>4. lost' \in 0..ApMaxLost
    BY <1>0, <1>1, AccountsAssumption DEF A!RunLoad, A!ApTypeOK
  <2>5. CursorIn(all, ui)' /\ EditorFor(ui)'
    BY <1>0, <2>1 DEF CursorIn, EditorFor, A!Visible, A!Filtered, A!Present
  <2>6. \A x \in 1..ApOps : SentFor(op[x])'
    BY <1>0, <2>1 DEF SentFor
  <2>7. A!ApTypeOK'
    BY <1>0, <2>1, <2>3, <2>4 DEF A!ApTypeOK
  <2> QED BY <2>5, <2>6, <2>7 DEF AIInv
<1>2. CASE A!OnAccounts(l)
  <2>1. /\ UNCHANGED <<apAgent, rows, held, op, apKeys, others, lost, asked>>
        /\ load' = [load EXCEPT ![l] = A!NoLoad]
    BY <1>2 DEF A!OnAccounts, A!Server
  <2>2. A!NoLoad \in A!Loads
    BY DEF A!NoLoad, A!Nothing, A!Loads, A!Copies, A!Statuses
  <2>3. load' \in [1..ApLoads -> A!Loads]
    BY <1>0, <2>1, <2>2
  <2>4. load[l].seen \in A!Copies
    BY <1>0 DEF A!Loads
  <2>5. /\ all' \in A!Copies /\ ui' \in A!Pages /\ CursorIn(all', ui')
        /\ ui'.mode = ui.mode /\ ui'.subject = ui.subject
    <3>1. CASE all' = load[l].seen /\ ui' = A!Clamped(ui, load[l].seen)
      <4>1. /\ A!Clamped(ui, load[l].seen) \in A!Pages
            /\ CursorIn(load[l].seen, A!Clamped(ui, load[l].seen))
            /\ A!Clamped(ui, load[l].seen).mode = ui.mode
            /\ A!Clamped(ui, load[l].seen).subject = ui.subject
        BY <1>0, ClampedCursor
      <4> QED BY <2>4, <3>1, <4>1
    <3>2. CASE UNCHANGED <<all, ui>>
      BY <1>0, <3>2
    <3> QED BY <1>2, <3>1, <3>2 DEF A!OnAccounts
  <2>6. CursorIn(all, ui)'
    BY <2>5 DEF CursorIn, A!Visible, A!Filtered, A!Present
  <2>7. EditorFor(ui)' /\ \A x \in 1..ApOps : SentFor(op[x])'
    BY <1>0, <2>1, <2>5 DEF EditorFor, SentFor
  <2>8. A!ApTypeOK'
    BY <1>0, <2>1, <2>3, <2>5 DEF A!ApTypeOK
  <2> QED BY <2>6, <2>7, <2>8 DEF AIInv
<1> QED BY <1>1, <1>2

\* A tick, the answer about the daemon, and what others do.
LEMMA WorldStep ==
    ASSUME AIInv, A!Tick \/ A!OnDecision \/ A!Others
    PROVE  AIInv'
<1>0. /\ A!ApTypeOK /\ ui \in A!Pages /\ CursorIn(all, ui) /\ EditorFor(ui)
      /\ rows \in [ApIds -> A!Statuses] /\ held \subseteq ApIds
      /\ \A x \in 1..ApOps : SentFor(op[x])
  BY DEF AIInv, A!ApTypeOK
<1>1. UNCHANGED <<apAgent, all, op, apKeys, lost, asked>>
  BY DEF A!Tick, A!OnDecision, A!Others, A!Server
<1>2. load' \in [1..ApLoads -> A!Loads]
  BY <1>0, ReloadType DEF A!Tick, A!OnDecision, A!Others, A!ApTypeOK
<1>3. /\ ui' \in A!Pages /\ ui'.cursor = ui.cursor /\ ui'.chip = ui.chip /\ ui'.query = ui.query
      /\ ui'.mode = ui.mode /\ ui'.subject = ui.subject
  <2>1. ui' = ui \/ ui' = [ui EXCEPT !.disabled = TRUE]
    BY DEF A!Tick, A!OnDecision, A!Others
  <2> QED BY <1>0, <2>1 DEF A!Pages
<1>4. rows' \in [ApIds -> A!Statuses] /\ held' \subseteq ApIds /\ others' \in 0..ApMaxOthers
  <2>1. CASE A!Tick \/ A!OnDecision
    BY <1>0, <2>1 DEF A!Tick, A!OnDecision, A!Server, A!ApTypeOK
  <2>2. CASE A!Others
    <3>1. others' \in 0..ApMaxOthers
      BY <1>0, <2>2, AccountsAssumption DEF A!Others, A!ApTypeOK
    <3>2. rows' \in [ApIds -> A!Statuses]
      BY <1>0, <2>2 DEF A!Others, A!Statuses
    <3>3. held' \subseteq ApIds
      BY <1>0, <2>2 DEF A!Others, A!Present
    <3> QED BY <3>1, <3>2, <3>3
  <2> QED BY <2>1, <2>2
<1>5. CursorIn(all, ui)' /\ EditorFor(ui)' /\ \A x \in 1..ApOps : SentFor(op[x])'
  BY <1>0, <1>1, <1>3 DEF CursorIn, EditorFor, SentFor, A!Visible, A!Filtered, A!Present
<1>6. A!ApTypeOK'
  BY <1>0, <1>1, <1>2, <1>3, <1>4 DEF A!ApTypeOK
<1> QED BY <1>5, <1>6 DEF AIInv

\* The first state satisfies the invariant.
LEMMA AccountsBegin == A!Init => AIInv
<1> SUFFICES ASSUME A!Init PROVE AIInv
  OBVIOUS
<1>1. /\ A!NoLoad \in A!Loads /\ A!Nothing \in A!Copies
      /\ [A!NoLoad EXCEPT !.at = "sent"] \in A!Loads
      /\ A!NoOp \in A!Operations /\ A!NoOp.at # "sent"
  BY DEF A!NoLoad, A!Nothing, A!Loads, A!Copies, A!Statuses, A!NoOp, A!Operations, A!OpKinds
<1>2. ui \in A!Pages /\ ui.cursor = 0 /\ ui.mode = "list"
  <2>1. 0 \in 0..A!Cardinality(ApIds)
    BY ShownAreAccounts, SameCardinality
  <2> QED BY <2>1 DEF A!Init, A!Pages, A!Modes
<1>3. rows \in [ApIds -> A!Statuses]
  BY DEF A!Init, A!Statuses
<1>4. op \in [1..ApOps -> A!Operations] /\ load \in [1..ApLoads -> A!Loads]
  BY <1>1 DEF A!Init
<1>5. CursorIn(all, ui)
  <2>1. Cardinality(A!Visible(all, ui)) \in Nat
        /\ (A!Visible(all, ui) # {} => Cardinality(A!Visible(all, ui)) # 0)
    BY ShownAreAccounts, FS_EmptySet
  <2> QED BY <1>2, <2>1 DEF CursorIn
<1>6. EditorFor(ui) /\ \A o \in 1..ApOps : SentFor(op[o])
  BY <1>1, <1>2 DEF A!Init, EditorFor, SentFor
<1>7. A!ApTypeOK
  BY <1>1, <1>2, <1>3, <1>4, AccountsAssumption DEF A!Init, A!ApTypeOK
<1> QED BY <1>5, <1>6, <1>7 DEF AIInv

\* Every step keeps it.
LEMMA AccountsStep == AIInv /\ [A!Next]_A!apVars => AIInv'
<1> SUFFICES ASSUME AIInv, [A!Next]_A!apVars PROVE AIInv'
  OBVIOUS
<1>1. CASE A!KeyPressed
  BY <1>1, LookStep, OperateStep, EditorStep DEF A!KeyPressed
<1>2. CASE UNCHANGED A!apVars
  <2>1. UNCHANGED <<apAgent, rows, held, all, ui, op, load, apKeys, others, lost, asked>>
    BY <1>2 DEF A!apVars
  <2>2. A!ApTypeOK'
    BY <2>1 DEF AIInv, A!ApTypeOK
  <2> QED BY <2>1, <2>2 DEF AIInv, CursorIn, EditorFor, SentFor, A!Visible, A!Filtered, A!Present
<1> QED BY <1>1, <1>2, ServeStep, AnswerStep, ListStep, WorldStep DEF A!Next

\* However the list shrinks, is filtered, searched or reloaded, the cursor is on a
\* row, and an operation that reaches the daemon is for the account the user saw
\* when asking for it (selectedAccount, startOp, onAccounts).
THEOREM CursorAndTarget == A!Spec => []AccountsInv
<1> QED BY AccountsBegin, AccountsStep, AccountsInvariant, PTL DEF A!Spec

-----------------------------------------------------------------------------
(* The activity feed: sequences of ids. *)

\* What a sequence of ids holds, that it holds nothing twice, and that what stands
\* behind something newer is in a set of exceptions.
Held(s) == {s[n] : n \in DOMAIN s}
NoneTwice(s) == \A m, n \in DOMAIN s : m # n => s[m] # s[n]
InOrderBut(s, excepted) ==
    \A m, n \in DOMAIN s : m < n /\ s[m] > s[n] => s[n] \in excepted

\* A sequence of ids is a function.
LEMMA Positions ==
    ASSUME NEW s \in Seq(Nat)
    PROVE  /\ Len(s) \in Nat /\ DOMAIN s = 1 .. Len(s)
           /\ \A n \in DOMAIN s : s[n] \in Nat
           /\ Held(s) \subseteq Nat
           /\ s = <<>> <=> Held(s) = {}
           /\ s = <<>> => DOMAIN s = {}
<1>1. Len(s) \in Nat /\ DOMAIN s = 1 .. Len(s) /\ s \in [1 .. Len(s) -> Nat]
  BY LenProperties
<1>2. \A n \in DOMAIN s : s[n] \in Nat
  BY <1>1
<1>3. s = <<>> => DOMAIN s = {}
  OBVIOUS
<1>4. s # <<>> => 1 \in DOMAIN s
  BY <1>1, EmptySeq
<1> QED BY <1>1, <1>2, <1>3, <1>4 DEF Held

\* One id more at the end.
LEMMA OneMore ==
    ASSUME NEW s \in Seq(Nat), NEW x \in Nat
    PROVE  /\ Append(s, x) \in Seq(Nat) /\ Append(s, x) = s \o <<x>>
           /\ Held(Append(s, x)) = Held(s) \cup {x}
           /\ NoneTwice(s) /\ x \notin Held(s) => NoneTwice(Append(s, x))
           /\ \A E : InOrderBut(s, E) /\ (x \in E \/ \A n \in DOMAIN s : ~ (s[n] > x))
                        => InOrderBut(Append(s, x), E)
<1> DEFINE t == Append(s, x)
           k == Len(s)
<1>1. t \in Seq(Nat) /\ Len(t) = k + 1 /\ (\A n \in 1 .. k : t[n] = s[n]) /\ t[k + 1] = x
  BY AppendProperties
<1>2. k \in Nat /\ DOMAIN s = 1 .. k /\ DOMAIN t = 1 .. (k + 1) /\ t = s \o <<x>>
  BY <1>1, Positions, AppendIsConcat
<1> HIDE DEF t, k
<1>3. Held(t) = Held(s) \cup {x}
  <2>1. Held(t) \subseteq Held(s) \cup {x}
    BY <1>1, <1>2 DEF Held
  <2>2. k + 1 \in DOMAIN t /\ \A n \in DOMAIN s : n \in DOMAIN t
    BY <1>2
  <2>3. Held(s) \subseteq Held(t)
    BY <1>1, <1>2, <2>2 DEF Held
  <2>4. x \in Held(t)
    BY <1>1, <2>2 DEF Held
  <2> QED BY <2>1, <2>3, <2>4
<1>4. NoneTwice(s) /\ x \notin Held(s) => NoneTwice(t)
  <2> SUFFICES ASSUME NoneTwice(s), x \notin Held(s), NEW m \in DOMAIN t, NEW n \in DOMAIN t, m # n
               PROVE  t[m] # t[n]
    BY DEF NoneTwice
  <2>1. \A i \in DOMAIN s : s[i] # x
    BY DEF Held
  <2>2. (m \in DOMAIN s \/ m = k + 1) /\ (n \in DOMAIN s \/ n = k + 1)
    BY <1>2
  <2> QED BY <1>1, <1>2, <2>1, <2>2 DEF NoneTwice
<1>5. ASSUME NEW E, InOrderBut(s, E), x \in E \/ \A n \in DOMAIN s : ~ (s[n] > x)
      PROVE  InOrderBut(t, E)
  <2> SUFFICES ASSUME NEW m \in DOMAIN t, NEW n \in DOMAIN t, m < n, t[m] > t[n]
               PROVE  t[n] \in E
    BY DEF InOrderBut
  <2>1. m \in DOMAIN s /\ (n \in DOMAIN s \/ n = k + 1)
    BY <1>2
  <2> QED BY <1>1, <1>2, <1>5, <2>1 DEF InOrderBut
<1>6. Append(s, x) = t
  BY DEF t
<1> QED BY <1>1, <1>2, <1>3, <1>4, <1>5, <1>6

\* The first id off.
LEMMA OneLess ==
    ASSUME NEW s \in Seq(Nat), s # <<>>
    PROVE  /\ Tail(s) \in Seq(Nat) /\ Head(s) \in Nat
           /\ Held(s) = {Head(s)} \cup Held(Tail(s))
           /\ NoneTwice(s) => NoneTwice(Tail(s)) /\ Head(s) \notin Held(Tail(s))
           /\ \A E : InOrderBut(s, E) =>
                 /\ InOrderBut(Tail(s), E)
                 /\ \A x \in Held(Tail(s)) : Head(s) > x => x \in E
<1> DEFINE t == Tail(s)
           k == Len(s)
<1>1. t \in Seq(Nat) /\ Len(t) = k - 1 /\ (\A n \in 1 .. Len(t) : t[n] = s[n + 1])
  BY HeadTailProperties
<1>2. k \in Nat /\ k # 0 /\ DOMAIN s = 1 .. k /\ Head(s) = s[1] /\ Head(s) \in Nat
  BY Positions, EmptySeq, HeadTailProperties
<1> HIDE DEF t, k
<1>3. DOMAIN t = 1 .. (k - 1) /\ (\A n \in DOMAIN t : n + 1 \in DOMAIN s /\ t[n] = s[n + 1])
  <2>1. DOMAIN t = 1 .. Len(t)
    BY <1>1, Positions
  <2>2. DOMAIN t = 1 .. (k - 1) /\ \A n \in DOMAIN t : t[n] = s[n + 1]
    BY <1>1, <2>1
  <2>3. \A n \in 1 .. (k - 1) : n + 1 \in 1 .. k
    BY <1>2
  <2> QED BY <1>2, <2>2, <2>3
<1>4. 1 \in DOMAIN s /\ \A m \in DOMAIN s : m = 1 \/ (m - 1 \in DOMAIN t /\ t[m - 1] = s[m])
  BY <1>2, <1>3
<1>5. Held(s) = {Head(s)} \cup Held(t)
  <2>1. Held(s) \subseteq {Head(s)} \cup Held(t)
    BY <1>2, <1>4 DEF Held
  <2>2. Held(t) \subseteq Held(s) /\ Head(s) \in Held(s)
    BY <1>2, <1>3, <1>4 DEF Held
  <2> QED BY <2>1, <2>2
<1>6. ASSUME NoneTwice(s) PROVE NoneTwice(t) /\ Head(s) \notin Held(t)
  <2>1. NoneTwice(t)
    <3> SUFFICES ASSUME NEW m \in DOMAIN t, NEW n \in DOMAIN t, m # n PROVE t[m] # t[n]
      BY DEF NoneTwice
    <3>1. m + 1 # n + 1
      BY <1>2, <1>3
    <3>2. m + 1 \in DOMAIN s /\ n + 1 \in DOMAIN s
      BY <1>3
    <3>3. s[m + 1] # s[n + 1]
      BY <1>6, <3>1, <3>2 DEF NoneTwice
    <3> QED BY <1>3, <3>3
  <2>2. \A n \in DOMAIN t : n + 1 # 1 /\ n + 1 \in DOMAIN s /\ t[n] = s[n + 1]
    BY <1>2, <1>3
  <2>3. \A m \in DOMAIN s : m # 1 => s[m] # s[1]
    BY <1>4, <1>6 DEF NoneTwice
  <2>4. \A n \in DOMAIN t : t[n] # Head(s)
    BY <1>2, <2>2, <2>3
  <2> QED BY <2>1, <2>4 DEF Held
<1>7. ASSUME NEW E, InOrderBut(s, E)
      PROVE  InOrderBut(t, E) /\ \A x \in Held(t) : Head(s) > x => x \in E
  <2>1. InOrderBut(t, E)
    <3> SUFFICES ASSUME NEW m \in DOMAIN t, NEW n \in DOMAIN t, m < n, t[m] > t[n] PROVE t[n] \in E
      BY DEF InOrderBut
    <3>1. m + 1 < n + 1
      BY <1>2, <1>3
    <3> QED BY <1>3, <1>7, <3>1 DEF InOrderBut
  <2>2. ASSUME NEW n \in DOMAIN t, Head(s) > t[n] PROVE t[n] \in E
    <3>1. 1 < n + 1 /\ 1 \in DOMAIN s /\ n + 1 \in DOMAIN s /\ t[n] = s[n + 1] /\ Head(s) = s[1]
      BY <1>2, <1>3, <1>4
    <3> QED BY <1>7, <2>2, <3>1 DEF InOrderBut
  <2> QED BY <2>1, <2>2 DEF Held
<1>8. Tail(s) = t
  BY DEF t
<1> QED BY <1>1, <1>2, <1>5, <1>6, <1>7, <1>8

\* Two sequences that share nothing and hold nothing twice make one that does not.
LEMMA OneAfterOther ==
    ASSUME NEW s \in Seq(Nat), NEW t \in Seq(Nat)
    PROVE  /\ s \o t \in Seq(Nat) /\ Held(s \o t) = Held(s) \cup Held(t)
           /\ NoneTwice(s) /\ NoneTwice(t) /\ Held(s) \cap Held(t) = {} => NoneTwice(s \o t)
<1> DEFINE u == s \o t
           k == Len(s)
           l == Len(t)
<1>1. /\ u \in Seq(Nat) /\ Len(u) = k + l
      /\ \A i \in 1 .. k + l : u[i] = IF i <= k THEN s[i] ELSE t[i - k]
  BY ConcatProperties
<1>2. k \in Nat /\ l \in Nat /\ DOMAIN s = 1 .. k /\ DOMAIN t = 1 .. l
  BY Positions
<1>3. DOMAIN u = 1 .. k + l
  BY <1>1, Positions
<1> HIDE DEF u, k, l
<1>4. \A i \in DOMAIN u : \/ i \in DOMAIN s /\ u[i] = s[i]
                          \/ i > k /\ i - k \in DOMAIN t /\ u[i] = t[i - k]
  <2>1. \A i \in DOMAIN u : IF i <= k THEN i \in DOMAIN s ELSE i > k /\ i - k \in DOMAIN t
    BY <1>2, <1>3
  <2> QED BY <1>1, <1>3, <2>1
<1>5. \A i \in DOMAIN s : i \in DOMAIN u /\ u[i] = s[i]
  <2>1. \A i \in DOMAIN s : i \in DOMAIN u /\ i <= k
    BY <1>2, <1>3
  <2> QED BY <1>1, <1>3, <2>1
<1>6. \A i \in DOMAIN t : i + k \in DOMAIN u /\ u[i + k] = t[i]
  <2>1. \A i \in DOMAIN t : i + k \in DOMAIN u /\ ~ (i + k <= k) /\ (i + k) - k = i
    BY <1>2, <1>3
  <2> QED BY <1>1, <1>3, <2>1
<1>7. Held(u) = Held(s) \cup Held(t)
  <2>1. Held(u) \subseteq Held(s) \cup Held(t)
    BY <1>4 DEF Held
  <2>2. Held(s) \subseteq Held(u)
    BY <1>5 DEF Held
  <2>3. Held(t) \subseteq Held(u)
    BY <1>6 DEF Held
  <2> QED BY <2>1, <2>2, <2>3
<1>8. ASSUME NoneTwice(s), NoneTwice(t), Held(s) \cap Held(t) = {} PROVE NoneTwice(u)
  <2> SUFFICES ASSUME NEW m \in DOMAIN u, NEW n \in DOMAIN u, m # n PROVE u[m] # u[n]
    BY DEF NoneTwice
  <2>1. \A i \in DOMAIN s, j \in DOMAIN t : s[i] # t[j]
    BY <1>8 DEF Held
  <2>2. m - k # n - k /\ m \in Int /\ n \in Int
    BY <1>2, <1>3
  <2>3. \A i, j \in DOMAIN s : i # j => s[i] # s[j]
    BY <1>8 DEF NoneTwice
  <2>4. \A i, j \in DOMAIN t : i # j => t[i] # t[j]
    BY <1>8 DEF NoneTwice
  <2>5. CASE m \in DOMAIN s /\ u[m] = s[m]
    BY <1>4, <2>1, <2>3, <2>5
  <2>6. CASE m - k \in DOMAIN t /\ u[m] = t[m - k]
    <3>1. CASE n \in DOMAIN s /\ u[n] = s[n]
      BY <2>1, <2>6, <3>1
    <3>2. CASE n - k \in DOMAIN t /\ u[n] = t[n - k]
      BY <2>2, <2>4, <2>6, <3>2
    <3> QED BY <1>4, <3>1, <3>2
  <2> QED BY <1>4, <2>5, <2>6
<1>9. s \o t = u
  BY DEF u
<1> QED BY <1>1, <1>7, <1>8, <1>9

\* The end of a sequence: what it holds, in the order in which it stood there.
LEMMA TheEnd ==
    ASSUME NEW s \in Seq(Nat), NEW k \in Nat
    PROVE  /\ F!LastOf(s, k) \in Seq(Nat) /\ Held(F!LastOf(s, k)) \subseteq Held(s)
           /\ NoneTwice(s) => NoneTwice(F!LastOf(s, k))
           /\ \A E : InOrderBut(s, E) => InOrderBut(F!LastOf(s, k), E)
           /\ \A n \in DOMAIN s : Len(s) - n < k => s[n] \in Held(F!LastOf(s, k))
           /\ \A x \in Held(F!LastOf(s, k)) : \E n \in DOMAIN s : s[n] = x /\ Len(s) - n < k
<1>0. Len(s) \in Nat /\ DOMAIN s = 1 .. Len(s) /\ \A n \in DOMAIN s : s[n] \in Nat
  BY Positions
<1>1. CASE Len(s) <= k
  <2>1. F!LastOf(s, k) = s
    BY <1>1 DEF F!LastOf
  <2>2. \A n \in DOMAIN s : Len(s) - n < k /\ s[n] \in Held(s)
    BY <1>0, <1>1 DEF Held
  <2>3. \A x \in Held(s) : \E n \in DOMAIN s : s[n] = x
    BY DEF Held
  <2> QED BY <2>1, <2>2, <2>3
<1>2. CASE ~ (Len(s) <= k)
  <2> DEFINE d == Len(s) - k
             t == SubSeq(s, d + 1, Len(s))
  <2>1. d \in Nat /\ d + k = Len(s) /\ Len(s) - k + 1 = d + 1 /\ d + 1 \in Int /\ Len(s) \in Int
    BY <1>0, <1>2
  <2>2. F!LastOf(s, k) = t
    BY <1>2, <2>1 DEF F!LastOf
  <2>3. \A i \in (d + 1) .. Len(s) : s[i] \in Nat
    BY <1>0, <2>1
  <2>4. /\ t \in Seq(Nat) /\ Len(t) = (IF d + 1 <= Len(s) THEN Len(s) - (d + 1) + 1 ELSE 0)
        /\ \A i \in 1 .. Len(s) - (d + 1) + 1 : t[i] = s[(d + 1) + i - 1]
    <3> HIDE DEF d
    <3> QED BY <2>1, <2>3, SubSeqProperties
  <2> HIDE DEF t, d
  <2>5. Len(t) = k /\ DOMAIN t = 1 .. k
    <3>1. Len(s) - (d + 1) + 1 = k /\ (d + 1 <= Len(s) \/ k = 0)
      <4> DEFINE l == Len(s)
      <4>1. l \in Nat /\ d \in Nat /\ k \in Nat /\ d + k = l
        BY <1>0, <2>1
      <4> HIDE DEF l
      <4>2. l - (d + 1) + 1 = k /\ (d + 1 <= l \/ k = 0)
        BY <4>1
      <4> QED BY <4>2 DEF l
    <3>2. Len(t) = k
      <4>1. CASE d + 1 <= Len(s)
        BY <2>4, <3>1, <4>1
      <4>2. CASE ~ (d + 1 <= Len(s))
        BY <2>4, <3>1, <4>2
      <4> QED BY <4>1, <4>2
    <3>3. DOMAIN t = 1 .. Len(t)
      BY <2>4, Positions
    <3> QED BY <3>2, <3>3
  <2>6. \A i \in DOMAIN t : d + i \in DOMAIN s /\ t[i] = s[d + i]
    <3> SUFFICES ASSUME NEW i \in DOMAIN t PROVE d + i \in DOMAIN s /\ t[i] = s[d + i]
      OBVIOUS
    <3>1. i \in 1 .. Len(s) - (d + 1) + 1 /\ (d + 1) + i - 1 = d + i /\ d + i \in 1 .. Len(s)
      <4> DEFINE l == Len(s)
      <4>1. l \in Nat /\ d \in Nat /\ k \in Nat /\ d + k = l /\ i \in 1 .. k
        BY <1>0, <2>1, <2>5
      <4> HIDE DEF l
      <4>2. i \in 1 .. l - (d + 1) + 1 /\ (d + 1) + i - 1 = d + i /\ d + i \in 1 .. l
        BY <4>1
      <4> QED BY <4>2 DEF l
    <3>2. t[i] = s[(d + 1) + i - 1]
      BY <2>4, <3>1
    <3> QED BY <1>0, <3>1, <3>2
  <2>7. \A n \in DOMAIN s : Len(s) - n < k => n - d \in DOMAIN t /\ d + (n - d) = n
    <3> DEFINE l == Len(s)
    <3>1. l \in Nat /\ d \in Nat /\ k \in Nat /\ d + k = l
      BY <1>0, <2>1
    <3> HIDE DEF l
    <3>2. \A n \in 1 .. l : l - n < k => n - d \in 1 .. k /\ d + (n - d) = n
      BY <3>1
    <3> QED BY <1>0, <2>5, <3>2 DEF l
  <2>8. Held(t) \subseteq Held(s)
    BY <2>6 DEF Held
  <2>9. ASSUME NoneTwice(s) PROVE NoneTwice(t)
    <3> SUFFICES ASSUME NEW m \in DOMAIN t, NEW n \in DOMAIN t, m # n PROVE t[m] # t[n]
      BY DEF NoneTwice
    <3>1. d + m # d + n
      BY <2>1, <2>5
    <3> QED BY <2>6, <2>9, <3>1 DEF NoneTwice
  <2>10. ASSUME NEW E, InOrderBut(s, E) PROVE InOrderBut(t, E)
    <3> SUFFICES ASSUME NEW m \in DOMAIN t, NEW n \in DOMAIN t, m < n, t[m] > t[n] PROVE t[n] \in E
      BY DEF InOrderBut
    <3>1. d + m < d + n
      BY <2>1, <2>5
    <3> QED BY <2>6, <2>10, <3>1 DEF InOrderBut
  <2>11. \A n \in DOMAIN s : Len(s) - n < k => s[n] \in Held(t)
    <3> SUFFICES ASSUME NEW n \in DOMAIN s, Len(s) - n < k PROVE s[n] \in Held(t)
      OBVIOUS
    <3>1. n - d \in DOMAIN t /\ t[n - d] = s[n]
      BY <2>6, <2>7
    <3> QED BY <3>1 DEF Held
  <2>12. \A x \in Held(t) : \E n \in DOMAIN s : s[n] = x /\ Len(s) - n < k
    <3> SUFFICES ASSUME NEW i \in DOMAIN t PROVE Len(s) - (d + i) < k
      BY <2>6 DEF Held
    <3> QED BY <1>0, <2>1, <2>5
  <2> QED BY <2>2, <2>4, <2>8, <2>9, <2>10, <2>11, <2>12
<1> QED BY <1>1, <1>2

-----------------------------------------------------------------------------
(* The activity feed: what is kept and listed. *)

\* The feed counts as we do.
LEMMA FeedCounts == \A S : F!Cardinality(S) = Cardinality(S)
<1> SUFFICES ASSUME NEW S PROVE F!Cardinality(S) = Cardinality(S)
  OBVIOUS
<1> QED BY DEF F!Cardinality, Cardinality

\* The ascending listing of a finite set of numbers.
LEMMA Ascending ==
    ASSUME NEW S \in SUBSET Nat, IsFiniteSet(S)
    PROVE  /\ F!InOrder(S) \in Seq(Nat) /\ Held(F!InOrder(S)) = S
           /\ Len(F!InOrder(S)) = Cardinality(S)
           /\ \A m, n \in DOMAIN F!InOrder(S) : m < n => F!InOrder(S)[m] < F!InOrder(S)[n]
<1> DEFINE rank(i) == F!Cardinality({j \in S : j < i})
           k == F!Cardinality(S)
           s == [n \in 1 .. k |-> CHOOSE i \in S : rank(i) = n - 1]
<1>1. F!InOrder(S) = s
  BY DEF F!InOrder
<1>2. k \in Nat /\ k = Cardinality(S)
  BY FeedCounts, FS_CardinalityType
<1>3. \A n \in 1 .. k : \E i \in S : rank(i) = n - 1
  <2> SUFFICES ASSUME NEW n \in 1 .. k PROVE \E i \in S : rank(i) = n - 1
    OBVIOUS
  <2>1. n - 1 \in Nat /\ n - 1 < Cardinality(S)
    BY <1>2
  <2> QED BY <2>1, RowsAreNumbered, FeedCounts
<1>4. \A i \in S : rank(i) \in Nat /\ rank(i) < k
  BY <1>2, NumberInRange, FeedCounts
<1>5. \A i, j \in S : i < j => rank(i) < rank(j)
  BY NumbersDiffer, FeedCounts
<1> HIDE DEF rank, k
<1>6. \A n \in 1 .. k : s[n] \in S /\ rank(s[n]) = n - 1
  BY <1>3
<1>7. s \in Seq(Nat) /\ Len(s) = k /\ DOMAIN s = 1 .. k
  <2>1. s \in [1 .. k -> Nat]
    BY <1>6
  <2> HIDE DEF s
  <2>2. s \in Seq(Nat)
    BY <1>2, <2>1, SeqDef
  <2> QED BY <1>2, <2>1, <2>2, LenProperties
<1> HIDE DEF s
<1>8. \A m, n \in DOMAIN s : m < n => s[m] < s[n]
  <2> SUFFICES ASSUME NEW m \in DOMAIN s, NEW n \in DOMAIN s, m < n PROVE s[m] < s[n]
    OBVIOUS
  <2>1. m \in Nat /\ n \in Nat /\ m - 1 < n - 1 /\ m - 1 # n - 1 /\ ~ (n - 1 < m - 1)
    BY <1>2, <1>7
  <2>2. s[m] \in Nat /\ s[n] \in Nat /\ rank(s[m]) = m - 1 /\ rank(s[n]) = n - 1
    BY <1>6, <1>7
  <2>3. s[m] # s[n]
    BY <2>1, <2>2
  <2>4. ~ (s[n] < s[m])
    <3> SUFFICES ASSUME s[n] < s[m] PROVE FALSE
      OBVIOUS
    <3>1. rank(s[n]) < rank(s[m])
      BY <1>5, <1>6, <1>7
    <3> QED BY <2>1, <2>2, <3>1
  <2> QED BY <2>2, <2>3, <2>4
<1>9. Held(s) = S
  <2>1. Held(s) \subseteq S
    BY <1>6, <1>7 DEF Held
  <2>2. ASSUME NEW i \in S PROVE i \in Held(s)
    <3>1. rank(i) + 1 \in 1 .. k /\ (rank(i) + 1) - 1 = rank(i)
      BY <1>2, <1>4
    <3> DEFINE n == rank(i) + 1
    <3>2. s[n] \in S /\ rank(s[n]) = rank(i)
      BY <1>6, <3>1
    <3>3. s[n] = i
      <4> HIDE DEF n
      <4>1. s[n] \in Nat /\ i \in Nat /\ ~ (rank(i) < rank(i))
        <5>1. s[n] \in Nat /\ i \in Nat
          BY <3>2
        <5>2. \A r \in Nat : ~ (r < r)
          OBVIOUS
        <5> QED BY <1>4, <5>1, <5>2
      <4>2. ~ (s[n] < i)
        BY <1>5, <3>2, <4>1
      <4>3. ~ (i < s[n])
        BY <1>5, <3>2, <4>1
      <4> QED BY <4>1, <4>2, <4>3
    <3> QED BY <1>7, <3>1, <3>3 DEF Held
  <2> QED BY <2>1, <2>2
<1> QED BY <1>1, <1>2, <1>7, <1>8, <1>9

\* An ascending listing holds nothing twice and nothing out of order.
LEMMA AscendingIsSound ==
    ASSUME NEW S \in SUBSET Nat, IsFiniteSet(S)
    PROVE  NoneTwice(F!InOrder(S)) /\ \A E : InOrderBut(F!InOrder(S), E)
<1> DEFINE s == F!InOrder(S)
<1>1. s \in Seq(Nat) /\ \A m, n \in DOMAIN s : m < n => s[m] < s[n]
  BY Ascending
<1> HIDE DEF s
<1>2. DOMAIN s = 1 .. Len(s) /\ Len(s) \in Nat /\ \A n \in DOMAIN s : s[n] \in Nat
  BY <1>1, Positions
<1>3. \A m, n \in DOMAIN s : m # n => m < n \/ n < m
  BY <1>2
<1>4. \A m, n \in DOMAIN s : s[m] < s[n] => s[m] # s[n] /\ ~ (s[m] > s[n])
  BY <1>2
<1>5. NoneTwice(s)
  BY <1>1, <1>3, <1>4 DEF NoneTwice
<1>6. \A E : InOrderBut(s, E)
  BY <1>1, <1>4 DEF InOrderBut
<1> QED BY <1>5, <1>6 DEF s

\* As many positions of a listing lie behind the n-th as positions of the listed.
LEMMA NoMoreBehind ==
    ASSUME NEW k \in Nat, NEW l \in Nat, NEW w \in [1 .. k -> 1 .. l],
           \A m, n \in 1 .. k : m < n => w[m] < w[n], NEW n \in 1 .. k
    PROVE  k - n <= l - w[n]
<1> SUFFICES ASSUME ~ (k - n <= l - w[n]) PROVE FALSE
  OBVIOUS
<1>1. w[n] \in 1 .. l
  OBVIOUS
<1> DEFINE p == w[n]
           S == n .. k
           T == p .. l
<1>2. n \in Int /\ k \in Int /\ p \in Int /\ l \in Int /\ ~ (n > k) /\ ~ (p > l)
  BY <1>1
<1>3. IsFiniteSet(S) /\ Cardinality(S) = k - n + 1 /\ IsFiniteSet(T) /\ Cardinality(T) = l - p + 1
  <2> HIDE DEF p
  <2> QED BY <1>2, FS_Interval
<1>4. Cardinality(T) < Cardinality(S)
  <2>1. l - p + 1 < k - n + 1
    BY <1>1, <1>2
  <2> QED BY <1>3, <2>1
<1> DEFINE f == [m \in S |-> w[m]]
<1>5. f \in [S -> T]
  <2> SUFFICES ASSUME NEW m \in n .. k PROVE w[m] \in p .. l
    OBVIOUS
  <2>1. m \in 1 .. k /\ (m = n \/ n < m)
    OBVIOUS
  <2>2. w[m] \in 1 .. l /\ (m = n \/ w[n] < w[m])
    BY <2>1
  <2> QED BY <1>1, <2>2
<1>6. \E x, y \in S : x # y /\ f[x] = f[y]
  <2> HIDE DEF S, T, f
  <2> QED BY <1>3, <1>4, <1>5, FS_PigeonHole
<1>7. PICK x \in n .. k, y \in n .. k : x # y /\ w[x] = w[y]
  BY <1>6
<1>8. /\ x \in 1 .. k /\ y \in 1 .. k /\ (x < y \/ y < x)
      /\ w[x] \in 1 .. l /\ w[y] \in 1 .. l
  BY <1>7
<1>9. ~ (w[x] < w[y]) /\ ~ (w[y] < w[x])
  BY <1>7, <1>8
<1> QED BY <1>8, <1>9

\* List gives ids of the ring above the one asked for, in the order of the ring,
\* and all of those that stand in the last places of the ring, unless a chip is set.
LEMMA Listed ==
    ASSUME ring \in Seq(Nat), NEW since \in Nat, NEW errors \in BOOLEAN
    PROVE  /\ F!List(since, errors) \in Seq(Nat)
           /\ \A x \in Held(F!List(since, errors)) : x \in Held(ring) /\ x > since
           /\ NoneTwice(ring) => NoneTwice(F!List(since, errors))
           /\ \A E : InOrderBut(ring, E) => InOrderBut(F!List(since, errors), E)
           /\ ~ errors => \A x \in Held(F!LastOf(ring, FaLimit)) :
                             x > since => x \in Held(F!List(since, errors))
<1> DEFINE W == {i \in DOMAIN ring : ring[i] > since /\ (errors => ring[i] \in FaErrors)}
           w == F!InOrder(W)
           s == [n \in DOMAIN w |-> ring[w[n]]]
           l == Len(ring)
           k == Len(w)
<1>1. F!List(since, errors) = F!LastOf(s, FaLimit) /\ FaLimit \in Nat
  BY FeedAssumption DEF F!List
<1>2. l \in Nat /\ DOMAIN ring = 1 .. l /\ \A i \in DOMAIN ring : ring[i] \in Nat
  BY Positions
<1>3. W \in SUBSET Nat /\ IsFiniteSet(W) /\ W \subseteq 1 .. l
  <2>1. W \in SUBSET (1 .. l) /\ 1 \in Int /\ l \in Int
    BY <1>2
  <2>2. 1 .. l \in SUBSET Nat
    BY <1>2
  <2> HIDE DEF W, l
  <2>3. IsFiniteSet(1 .. l)
    BY <2>1, FS_Interval
  <2> QED BY <2>1, <2>2, <2>3, FS_Subset
<1>4. \A i \in W : i \in DOMAIN ring /\ ring[i] > since /\ ring[i] \in Nat
  BY <1>2
<1>5. ASSUME ~ errors, NEW i \in DOMAIN ring, ring[i] > since PROVE i \in W
  BY <1>5
<1> HIDE DEF W
<1>6. /\ w \in Seq(Nat) /\ Held(w) = W
      /\ \A m, n \in DOMAIN w : m < n => w[m] < w[n]
  BY <1>3, Ascending
<1> HIDE DEF w
<1>7. k \in Nat /\ DOMAIN w = 1 .. k /\ \A n \in DOMAIN w : w[n] \in W
  BY <1>6, Positions DEF Held
<1>8. s \in Seq(Nat) /\ DOMAIN s = DOMAIN w
  <2>1. s \in [1 .. k -> Nat]
    BY <1>4, <1>7
  <2> QED BY <1>7, <2>1, SeqDef
<1>9. \A n \in DOMAIN s : w[n] \in W /\ s[n] = ring[w[n]]
  BY <1>7
<1> HIDE DEF s, k, l
<1>10. Held(F!LastOf(s, FaLimit)) \subseteq Held(s)
  BY <1>1, <1>8, TheEnd
<1>11. \A x \in Held(s) : x \in Held(ring) /\ x > since
  BY <1>4, <1>9 DEF Held
<1>12. NoneTwice(ring) => NoneTwice(s)
  <2> SUFFICES ASSUME NoneTwice(ring), NEW m \in DOMAIN s, NEW n \in DOMAIN s, m # n
               PROVE  s[m] # s[n]
    BY DEF NoneTwice
  <2>1. m < n \/ n < m
    BY <1>7, <1>8
  <2>2. w[m] < w[n] \/ w[n] < w[m]
    BY <1>6, <1>8, <2>1
  <2>3. w[m] \in Nat /\ w[n] \in Nat
    BY <1>3, <1>9
  <2>4. w[m] # w[n]
    BY <2>2, <2>3
  <2> QED BY <1>4, <1>9, <2>4 DEF NoneTwice
<1>13. ASSUME NEW E, InOrderBut(ring, E) PROVE InOrderBut(s, E)
  <2> SUFFICES ASSUME NEW m \in DOMAIN s, NEW n \in DOMAIN s, m < n, s[m] > s[n] PROVE s[n] \in E
    BY DEF InOrderBut
  <2>1. w[m] < w[n]
    BY <1>6, <1>8
  <2> QED BY <1>4, <1>9, <1>13, <2>1 DEF InOrderBut
<1>14. ASSUME ~ errors, NEW x \in Held(F!LastOf(ring, FaLimit)), x > since
       PROVE  x \in Held(F!LastOf(s, FaLimit))
  <2>1. PICK i \in DOMAIN ring : ring[i] = x /\ Len(ring) - i < FaLimit
    BY <1>1, TheEnd
  <2>2. PICK n \in DOMAIN w : w[n] = i
    BY <1>5, <1>6, <1>14, <2>1 DEF Held
  <2>3. k - n <= l - i
    <3>1. w \in [1 .. k -> 1 .. l]
      BY <1>3, <1>6, <1>7 DEF k
    <3> QED BY <1>2, <1>6, <1>7, <2>2, <3>1, NoMoreBehind
  <2>4. Len(s) = k
    <3>1. Len(s) \in Nat /\ 1 .. Len(s) = 1 .. k
      BY <1>7, <1>8, Positions
    <3> DEFINE c == Len(s)
    <3>2. c \in Nat /\ 1 .. c = 1 .. k
      BY <3>1
    <3> HIDE DEF c
    <3>3. c = k
      <4>1. \A a, b \in Nat : a > b => a \in 1 .. a /\ a \notin 1 .. b
        OBVIOUS
      <4>2. ~ (c > k) /\ ~ (k > c)
        BY <1>7, <3>2, <4>1
      <4> QED BY <1>7, <3>2, <4>2
    <3> QED BY <3>3 DEF c
  <2>5. Len(s) - n < FaLimit
    <3>1. l - i < FaLimit
      BY <2>1 DEF l
    <3>2. k - n < FaLimit
      BY <1>1, <1>2, <1>7, <2>1, <2>2, <2>3, <3>1
    <3> QED BY <2>4, <3>2
  <2>6. s[n] = x /\ n \in DOMAIN s
    BY <1>8, <1>9, <2>1, <2>2
  <2> QED BY <1>1, <1>8, <2>5, <2>6, TheEnd
<1> QED BY <1>1, <1>8, <1>10, <1>11, <1>12, <1>13, <1>14, TheEnd

\* A trim keeps the newest rows, as many as the ring holds.
LEMMA KeptRows ==
    ASSUME NEW n \in Nat, NEW kept \in SUBSET (1 .. n)
    PROVE  /\ F!Kept(kept) \subseteq kept /\ IsFiniteSet(F!Kept(kept))
           /\ F!Kept(kept) \in SUBSET Nat
           /\ \A i \in kept : i + FaCapacity > n => i \in F!Kept(kept)
<1>1. F!Kept(kept) \subseteq kept
  BY DEF F!Kept
<1>2. IsFiniteSet(1 .. n) /\ 1 .. n \in SUBSET Nat
  <2>1. 1 \in Int /\ n \in Int
    OBVIOUS
  <2> QED BY <2>1, FS_Interval
<1>3. IsFiniteSet(F!Kept(kept)) /\ F!Kept(kept) \in SUBSET Nat
  <2>1. F!Kept(kept) \in SUBSET (1 .. n)
    BY <1>1
  <2> QED BY <1>2, <2>1, FS_Subset
<1>4. ASSUME NEW i \in kept, i + FaCapacity > n PROVE i \in F!Kept(kept)
  <2> DEFINE above == {j \in kept : j > i}
             T == (i + 1) .. n
  <2>1. above \in SUBSET T
    <3>1. \A j \in kept : j \in 1 .. n
      OBVIOUS
    <3>2. \A j \in 1 .. n : j > i => j \in (i + 1) .. n
      BY <3>1
    <3> QED BY <3>1, <3>2
  <2>2. i \in 1 .. n /\ i + 1 \in Int /\ n \in Int
    OBVIOUS
  <2>3. IsFiniteSet(T) /\ Cardinality(T) = IF i + 1 > n THEN 0 ELSE n - (i + 1) + 1
    BY <2>2, FS_Interval
  <2>4. Cardinality(T) <= n - i /\ Cardinality(T) \in Nat
    BY <2>2, <2>3
  <2> HIDE DEF above, T
  <2>5. IsFiniteSet(above) /\ Cardinality(above) <= Cardinality(T)
    BY <2>1, <2>3, FS_Subset
  <2>6. Cardinality(above) \in Nat
    BY <2>5, FS_CardinalityType
  <2>7. FaCapacity \in Nat
    BY FeedAssumption
  <2>8. Cardinality(above) < FaCapacity
    BY <1>4, <2>2, <2>4, <2>5, <2>6, <2>7
  <2>9. F!Cardinality(above) < FaCapacity
    BY <2>8, FeedCounts
  <2> QED BY <2>9 DEF F!Kept, above
<1> QED BY <1>1, <1>3, <1>4

-----------------------------------------------------------------------------
(* The activity feed: its invariant. *)

\* What the bus, the emitters, the stream and its client are made of.
Streams ==
    [at : {"closed", "replaying", "live"}, backlog : Seq(Nat), chan : Seq(Nat), sub : Nat]
Emitters ==
    [at : {"idle", "inserted", "trimmed", "sending"}, id : 0 .. lastRow, to : 0 .. FaMaxConnects]
FeedState ==
    /\ lastRow \in 0 .. FaMaxEvents /\ table \subseteq 1 .. lastRow
    /\ ring \in Seq(Nat) /\ seen \in Seq(Nat) /\ up \in BOOLEAN
    /\ emitter \in [FaEmitters -> Emitters]
    /\ stream \in Streams
    /\ client \in [last : 0 .. lastRow, connects : 0 .. FaMaxConnects]
    /\ appended \subseteq 1 .. lastRow /\ ever \subseteq appended

\* Two emitters never carry the same event, and an event is on its way before it is
\* in the ring or after; a subscription it was taken for is one there has been.
Emitting ==
    /\ \A e \in FaEmitters : emitter[e].at = "idle" \/ ~ up => emitter[e] = F!Resting
    /\ \A e \in FaEmitters : emitter[e].at # "idle" => emitter[e].id # 0
    /\ \A e, f \in FaEmitters :
          e # f /\ emitter[e].at # "idle" /\ emitter[f].at # "idle" =>
             emitter[e].id # emitter[f].id
    /\ \A e \in FaEmitters :
          emitter[e].at \in {"inserted", "trimmed"} => emitter[e].id \notin appended
    /\ \A e \in FaEmitters : emitter[e].at = "sending" => emitter[e].id \in appended
    /\ \A e \in FaEmitters : emitter[e].to <= client.connects
    /\ \A e \in FaEmitters : stream.at = "replaying" => emitter[e].to < client.connects

\* What a connection has delivered, will replay and has on its channel are different
\* events, and an emitter that will send to it has an event it has not.
Streaming ==
    /\ stream.sub = IF stream.at = "live" THEN client.connects ELSE 0
    /\ stream.at # "closed" => client.connects > 0
    /\ stream.at # "live" => stream.chan = <<>>
    /\ stream.at # "replaying" => stream.backlog = <<>>
    /\ ~ up => stream = F!NoStream
    /\ Held(ring) \subseteq appended /\ NoneTwice(ring)
    /\ Held(seen) \subseteq appended /\ NoneTwice(seen)
    /\ Held(stream.backlog) \subseteq appended /\ NoneTwice(stream.backlog)
    /\ Held(stream.chan) \subseteq appended /\ NoneTwice(stream.chan)
    /\ Held(seen) \cap Held(stream.backlog) = {} /\ Held(seen) \cap Held(stream.chan) = {}
    /\ \A e \in FaEmitters :
          emitter[e].at = "sending" /\ stream.at = "live" /\ emitter[e].to = stream.sub =>
             emitter[e].id \notin Held(seen) /\ emitter[e].id \notin Held(stream.chan)

\* Events the client has not received, without a reason not to.
Owed == (appended \ excused) \ ever

\* A replay lists what is owed; a live stream has it on the channel, or an emitter is
\* about to put it there.  What stands behind a newer event is excused, so that the
\* client does not get past an event it is owed.
Missing ==
    /\ client.last # 0 => client.last \in ever
    /\ client.last = 0 /\ stream.at # "live" => appended \subseteq excused
    /\ InOrderBut(ring, excused) /\ InOrderBut(stream.backlog, excused)
    /\ InOrderBut(stream.chan, excused)
    /\ stream.at = "replaying" => \A i \in Owed : F!Overtaken(i) \/ i \in Held(stream.backlog)
    /\ stream.at = "live" =>
          \A i \in Owed :
             \/ F!Overtaken(i) \/ i \in Held(stream.chan)
             \/ \E e \in FaEmitters : emitter[e].at = "sending" /\ emitter[e].id = i
                                      /\ emitter[e].to = stream.sub
    /\ \A e \in FaEmitters :
          emitter[e].at = "sending" /\ emitter[e].to = 0 /\ emitter[e].id \in Owed =>
             ~ F!Overtaken(emitter[e].id)
    /\ F!MissedForAReason

\* The Activity page and its requests.
PollState == [at : {"none", "asked", "listed", "failed"}, errors : BOOLEAN, events : Seq(Nat)]
PageState ==
    /\ events \in [errors : BOOLEAN, events : Seq(Nat), cursor : Nat, failed : BOOLEAN]
    /\ poll \in [1 .. FaLoads -> PollState]
    /\ events.cursor = 0 \/ events.cursor < Len(events.events)

delivered ==
    <<table, lastRow, ring, emitter, stream, client, up, appended, seen, ever, excused>>
Delivery == FeedState /\ F!NewestPersist /\ Emitting /\ Streaming /\ Missing
FeedIInv == Delivery /\ PageState

\* More may be excused.
LEMMA MoreExcused ==
    ASSUME NEW s, NEW E, NEW G, InOrderBut(s, E), E \subseteq G
    PROVE  InOrderBut(s, G)
<1> QED BY DEF InOrderBut

\* The empty sequence.
LEMMA NothingHeld ==
    /\ <<>> \in Seq(Nat) /\ Held(<<>>) = {} /\ NoneTwice(<<>>)
    /\ \A E : InOrderBut(<<>>, E)
<1>1. <<>> \in Seq(Nat) /\ DOMAIN <<>> = {}
  BY EmptySeq, Positions
<1> QED BY <1>1 DEF Held, NoneTwice, InOrderBut

\* It is what the property says.
LEMMA FeedIsSound == FeedIInv => FeedInv
<1> SUFFICES ASSUME FeedIInv PROVE FeedInv
  OBVIOUS
<1> USE DEF FeedIInv, Delivery
<1>1. F!FeedTypeOK
  <2>1. F!ToSet(ring) \subseteq 1 .. lastRow
    BY DEF FeedState, Streams, Emitters, Streaming, F!ToSet, Held
  <2> QED BY <2>1 DEF F!FeedTypeOK, FeedState, Streams, Emitters, PageState
<1>2. F!AtMostOnce
  <2> DEFINE s == seen \o stream.backlog
             t == s \o stream.chan
  <2>1. seen \in Seq(Nat) /\ stream.backlog \in Seq(Nat) /\ stream.chan \in Seq(Nat)
    BY DEF FeedState, Streams, Emitters
  <2>2. s \in Seq(Nat) /\ NoneTwice(s) /\ Held(s) = Held(seen) \cup Held(stream.backlog)
    BY <2>1, OneAfterOther DEF Streaming
  <2>3. Held(stream.backlog) = {} \/ Held(stream.chan) = {}
    BY NothingHeld DEF FeedState, Streams, Emitters, Streaming
  <2>4. Held(s) \cap Held(stream.chan) = {} /\ NoneTwice(stream.chan)
    BY <2>2, <2>3 DEF Streaming
  <2> HIDE DEF s
  <2>5. NoneTwice(t)
    BY <2>1, <2>2, <2>4, OneAfterOther
  <2> QED BY <2>5 DEF F!AtMostOnce, NoneTwice, s
<1> QED BY <1>1, <1>2 DEF FeedInv, F!FeedInv, Missing

\* Nothing is lost at the start.
LEMMA FeedBegin == F!Init => FeedIInv
<1> SUFFICES ASSUME F!Init PROVE FeedIInv
  OBVIOUS
<1> USE FeedAssumption DEF F!Init
<1>1. FeedState
  BY NothingHeld DEF FeedState, Streams, Emitters, F!Resting, F!NoStream
<1>2. F!NewestPersist
  BY DEF F!NewestPersist
<1>3. Emitting
  BY DEF Emitting, F!Resting, F!NoStream
<1>4. Streaming
  BY NothingHeld DEF Streaming, F!Resting, F!NoStream
<1>5. Missing
  BY NothingHeld DEF Missing, F!MissedForAReason, Owed, F!Resting, F!NoStream
<1>6. PageState
  BY NothingHeld DEF PageState, PollState, F!NoLoad
<1> QED BY <1>1, <1>2, <1>3, <1>4, <1>5, <1>6 DEF FeedIInv, Delivery

\* Who does not touch the feed keeps it.
LEMMA FeedRests == Delivery /\ UNCHANGED delivered => Delivery'
<1> SUFFICES ASSUME Delivery, UNCHANGED delivered PROVE Delivery'
  OBVIOUS
<1> USE DEF delivered
<1>1. FeedState' /\ F!NewestPersist'
  BY DEF Delivery, FeedState, Streams, Emitters, F!NewestPersist
<1>2. Emitting' /\ Streaming'
  BY DEF Delivery, Emitting, Streaming, Held, NoneTwice
<1>3. Missing'
  BY DEF Delivery, Missing, Held, InOrderBut, Owed, F!Overtaken, F!MissedForAReason
<1> QED BY <1>1, <1>2, <1>3 DEF Delivery

\* The page: its cursor is on an event it shows.
LEMMA PageStep ==
    ASSUME FeedIInv, F!Show \/ F!User PROVE FeedIInv'
<1> USE DEF FeedIInv
<1>1. UNCHANGED delivered
  BY DEF delivered, F!Show, F!User, F!Tick, F!Answer, F!Loaded, F!ChangeChip, F!MoveDown, F!history
<1>2. Delivery'
  BY <1>1, FeedRests
<1>3. ASSUME NEW b \in BOOLEAN, F!Load(b)
      PROVE  poll' \in [1 .. FaLoads -> PollState]
  <2>1. PICK l \in 1 .. FaLoads :
          poll' = [poll EXCEPT ![l] = [F!NoLoad EXCEPT !.at = "asked", !.errors = b]]
    BY <1>3 DEF F!Load
  <2>2. [F!NoLoad EXCEPT !.at = "asked", !.errors = b] \in PollState
    BY <1>3, NothingHeld DEF F!NoLoad, PollState
  <2> QED BY <2>1, <2>2 DEF PageState
<1>4. CASE F!Tick
  BY <1>2, <1>3, <1>4 DEF F!Tick, PageState
<1>5. CASE F!ChangeChip
  <2>1. events' \in [errors : BOOLEAN, events : Seq(Nat), cursor : Nat, failed : BOOLEAN]
        /\ events'.cursor = 0
    BY <1>5 DEF F!ChangeChip, PageState
  <2> QED BY <1>2, <1>3, <1>5, <2>1 DEF F!ChangeChip, PageState
<1>6. CASE F!MoveDown
  <2> DEFINE l == Len(events.events)
  <2>1. l \in Nat /\ events.cursor \in Nat
    BY Positions DEF PageState
  <2>2. events.cursor < l - 1 /\ events' = [events EXCEPT !.cursor = @ + 1] /\ poll' = poll
    BY <1>6 DEF F!MoveDown
  <2> HIDE DEF l
  <2>3. events.cursor + 1 < l /\ events.cursor + 1 \in Nat
    BY <2>1, <2>2
  <2>4. /\ events' \in [errors : BOOLEAN, events : Seq(Nat), cursor : Nat, failed : BOOLEAN]
        /\ events'.cursor = events.cursor + 1 /\ events'.events = events.events
    BY <2>2, <2>3 DEF PageState
  <2>5. events'.cursor < Len(events'.events)
    BY <2>3, <2>4 DEF l
  <2> QED BY <1>2, <2>2, <2>4, <2>5 DEF PageState
<1>7. CASE \E l \in 1 .. FaLoads : F!Answer(l)
  <2>1. PICK l \in 1 .. FaLoads : F!Answer(l)
    BY <1>7
  <2>2. poll[l] \in PollState /\ poll[l].errors \in BOOLEAN /\ ring \in Seq(Nat) /\ 0 \in Nat
    BY DEF PageState, PollState, Delivery, FeedState, Streams, Emitters
  <2>3. F!List(0, poll[l].errors) \in Seq(Nat)
    BY <2>2, Listed
  <2> DEFINE a == IF up THEN [poll[l] EXCEPT !.at = "listed", !.events = F!List(0, poll[l].errors)]
                  ELSE [poll[l] EXCEPT !.at = "failed"]
  <2>4. a \in PollState
    BY <2>2, <2>3 DEF PollState
  <2>5. poll' = [poll EXCEPT ![l] = a] /\ events' = events
    BY <2>1 DEF F!Answer
  <2> QED BY <1>2, <2>4, <2>5 DEF PageState
<1>8. CASE \E l \in 1 .. FaLoads : F!Loaded(l)
  <2>1. PICK l \in 1 .. FaLoads : F!Loaded(l)
    BY <1>8
  <2>2. poll' \in [1 .. FaLoads -> PollState]
    BY <2>1, NothingHeld DEF F!Loaded, F!NoLoad, PageState, PollState
  <2>3. events' = F!OnLoaded(events, poll[l]) /\ poll[l].events \in Seq(Nat)
    BY <2>1 DEF F!Loaded, PageState, PollState
  <2> DEFINE n == Len(poll[l].events)
             c == IF events.cursor >= n THEN 0 ELSE events.cursor
  <2>4. n \in Nat /\ events.cursor \in Nat
    BY <2>3, Positions DEF PageState
  <2>5. c \in Nat /\ (c = 0 \/ c < n)
    <3> HIDE DEF n
    <3> QED BY <2>4
  <2>6. events' = events \/ events' = [events EXCEPT !.failed = TRUE]
        \/ events' = [events EXCEPT !.events = poll[l].events, !.failed = FALSE, !.cursor = c]
    BY <2>3 DEF F!OnLoaded
  <2> HIDE DEF c, n
  <2>7. CASE events' = events \/ events' = [events EXCEPT !.failed = TRUE]
    BY <1>2, <2>2, <2>7 DEF PageState
  <2>8. CASE events' = [events EXCEPT !.events = poll[l].events, !.failed = FALSE, !.cursor = c]
    <3>1. /\ events' \in [errors : BOOLEAN, events : Seq(Nat), cursor : Nat, failed : BOOLEAN]
          /\ events'.cursor = c /\ events'.events = poll[l].events
      BY <2>3, <2>5, <2>8 DEF PageState
    <3> QED BY <1>2, <2>2, <2>5, <3>1 DEF PageState, n
  <2> QED BY <2>6, <2>7, <2>8
<1> QED BY <1>4, <1>5, <1>6, <1>7, <1>8 DEF F!Show, F!User

-----------------------------------------------------------------------------
(* The activity feed: the emitters. *)

\* The numbers are numbers.
LEMMA FeedNumbers ==
    ASSUME FeedState
    PROVE  /\ lastRow \in Nat /\ FaMaxConnects \in Nat /\ client.last \in Nat
           /\ client.connects \in Nat /\ stream.sub \in Nat
           /\ \A e \in FaEmitters : /\ emitter[e].id \in Nat /\ emitter[e].to \in Nat
                                    /\ emitter[e].id <= lastRow
           /\ \A i \in appended : i \in 1 .. lastRow
           /\ \A i \in ever : i \in 1 .. lastRow
           /\ stream.backlog \in Seq(Nat) /\ stream.chan \in Seq(Nat)
<1>1. /\ lastRow \in Nat /\ FaMaxConnects \in Nat
      /\ client.last \in 0 .. lastRow /\ client.connects \in 0 .. FaMaxConnects
      /\ stream.sub \in Nat /\ stream.backlog \in Seq(Nat) /\ stream.chan \in Seq(Nat)
  <2>1. FaMaxEvents \in Nat /\ FaMaxConnects \in Nat
    BY FeedAssumption
  <2> QED BY <2>1 DEF FeedState, Streams, Emitters
<1>2. \A e \in FaEmitters : emitter[e].id \in 0 .. lastRow /\ emitter[e].to \in 0 .. FaMaxConnects
  BY DEF FeedState, Streams, Emitters
<1>3. (\A i \in appended : i \in 1 .. lastRow) /\ (\A i \in ever : i \in appended)
  BY DEF FeedState, Streams, Emitters
<1> QED BY <1>1, <1>2, <1>3

\* insertRow: the row is in the table, and nobody has the event yet.
LEMMA InsertStep ==
    ASSUME Delivery, NEW e \in FaEmitters, F!Insert(e) PROVE Delivery'
<1> USE DEF Delivery
<1> DEFINE r == [at |-> "inserted", id |-> lastRow + 1, to |-> 0]
<1>1. /\ up /\ emitter[e].at = "idle" /\ lastRow < FaMaxEvents /\ lastRow' = lastRow + 1
      /\ table' = table \cup {lastRow + 1} /\ emitter' = [emitter EXCEPT ![e] = r]
      /\ UNCHANGED <<ring, stream, client, up, appended, seen, ever, excused>>
  BY DEF F!Insert, F!history
<1>2. emitter'[e] = r /\ \A f \in FaEmitters : f # e => emitter'[f] = emitter[f]
  BY <1>1 DEF FeedState, Streams, Emitters
<1>3. /\ lastRow \in Nat /\ FaMaxEvents \in Nat /\ FaCapacity \in Nat
      /\ emitter[e].id = 0 /\ emitter[e].to = 0
  BY <1>1, FeedNumbers, FeedAssumption DEF Emitting, F!Resting
<1>4. FeedState'
  <2>1. /\ lastRow' \in 0 .. FaMaxEvents /\ 0 \in 0 .. FaMaxConnects
        /\ 1 .. lastRow \subseteq 1 .. lastRow' /\ lastRow' \in 1 .. lastRow'
        /\ 0 .. lastRow \subseteq 0 .. lastRow' /\ lastRow' \in 0 .. lastRow'
    BY <1>1, <1>3, FeedNumbers
  <2>2. /\ table' \subseteq 1 .. lastRow' /\ appended' \subseteq 1 .. lastRow'
        /\ ever' \subseteq appended'
    BY <1>1, <2>1 DEF FeedState, Streams, Emitters
  <2>3. r \in Emitters'
    BY <1>1, <2>1 DEF Emitters
  <2>4. emitter' \in [FaEmitters -> Emitters']
    <3>1. \A f \in FaEmitters : emitter[f] \in
             Emitters'
      BY <2>1 DEF FeedState, Streams, Emitters
    <3> QED BY <1>1, <2>3, <3>1 DEF FeedState, Streams, Emitters
  <2>5. client' \in [last : 0 .. lastRow', connects : 0 .. FaMaxConnects]
    BY <1>1, <2>1 DEF FeedState, Streams, Emitters
  <2> QED BY <1>1, <2>1, <2>2, <2>4, <2>5 DEF FeedState, Streams, Emitters
<1>5. F!NewestPersist'
  <2>1. ASSUME NEW i \in 1 .. lastRow + 1, i + FaCapacity > lastRow + 1
        PROVE  i \in table \cup {lastRow + 1}
    <3>1. i = lastRow + 1 \/ (i \in 1 .. lastRow /\ i + FaCapacity > lastRow)
      BY <1>3, <2>1
    <3> QED BY <3>1 DEF F!NewestPersist
  <2> QED BY <1>1, <2>1 DEF F!NewestPersist
<1>6. \A i \in appended : i # lastRow + 1 /\ i # 0
  BY <1>3, FeedNumbers
<1>7. \A f \in FaEmitters : emitter[f].id # lastRow + 1
  BY <1>3, FeedNumbers
<1>8. Emitting'
  <2>1. \A f \in FaEmitters : emitter'[f].at = "idle" \/ ~ up' => emitter'[f] = F!Resting
    BY <1>1, <1>2 DEF Emitting, F!Resting
  <2>2. \A f, g \in FaEmitters :
          f # g /\ emitter'[f].at # "idle" /\ emitter'[g].at # "idle" =>
             emitter'[f].id # emitter'[g].id
    BY <1>2, <1>7 DEF Emitting
  <2>3. \A f \in FaEmitters : emitter'[f].to = emitter[f].to
    BY <1>2, <1>3
  <2>4. \A f \in FaEmitters :
          /\ emitter'[f].at # "idle" => emitter'[f].id # 0
          /\ emitter'[f].at \in {"inserted", "trimmed"} => emitter'[f].id \notin appended
          /\ emitter'[f].at = "sending" => emitter'[f].id \in appended
    BY <1>2, <1>3, <1>6 DEF Emitting
  <2> QED BY <1>1, <2>1, <2>2, <2>3, <2>4 DEF Emitting
<1>9. Streaming'
  <2>1. \A f \in FaEmitters :
          emitter'[f].at = "sending" /\ stream.at = "live" /\ emitter'[f].to = stream.sub =>
             emitter'[f].id \notin Held(seen) /\ emitter'[f].id \notin Held(stream.chan)
    BY <1>2 DEF Streaming
  <2> QED BY <1>1, <2>1 DEF Streaming
<1>10. \A f \in FaEmitters :
          /\ emitter'[f].at = "sending" <=> emitter[f].at = "sending"
          /\ emitter[f].at = "sending" => emitter'[f] = emitter[f]
          /\ emitter[f].id \in appended => emitter'[f].id = emitter[f].id
  BY <1>1, <1>2, <1>3, <1>6
<1>11. Missing'
  <2>1. F!MissedForAReason'
    BY <1>1, <1>10 DEF Missing, F!MissedForAReason, F!Overtaken
  <2> QED BY <1>1, <1>10, <2>1 DEF Missing, Owed, F!Overtaken, Held, InOrderBut
<1> QED BY <1>4, <1>5, <1>8, <1>9, <1>11

\* The events of a connection stay different while it receives nothing.
LEMMA StreamingKept ==
    ASSUME Streaming, UNCHANGED <<stream, client, up, seen>>, appended \subseteq appended',
           Held(ring') \subseteq appended', NoneTwice(ring'),
           \A f \in FaEmitters :
             emitter'[f].at = "sending" /\ stream.at = "live" /\ emitter'[f].to = stream.sub =>
               emitter'[f].id \notin Held(seen) /\ emitter'[f].id \notin Held(stream.chan)
    PROVE  Streaming'
<1>1. /\ stream'.sub = IF stream'.at = "live" THEN client'.connects ELSE 0
      /\ stream'.at # "closed" => client'.connects > 0
      /\ stream'.at # "live" => stream'.chan = <<>>
      /\ stream'.at # "replaying" => stream'.backlog = <<>>
      /\ ~ up' => stream' = F!NoStream
  BY DEF Streaming
<1>2. /\ Held(seen') \subseteq appended' /\ NoneTwice(seen')
      /\ Held(stream'.backlog) \subseteq appended' /\ NoneTwice(stream'.backlog)
      /\ Held(stream'.chan) \subseteq appended' /\ NoneTwice(stream'.chan)
      /\ Held(seen') \cap Held(stream'.backlog) = {} /\ Held(seen') \cap Held(stream'.chan) = {}
  BY DEF Streaming
<1>3. \A f \in FaEmitters :
        emitter'[f].at = "sending" /\ stream'.at = "live" /\ emitter'[f].to = stream'.sub =>
           emitter'[f].id \notin Held(seen') /\ emitter'[f].id \notin Held(stream'.chan)
  OBVIOUS
<1> QED BY <1>1, <1>2, <1>3 DEF Streaming

\* The trim takes old rows, whether it is done or fails.
LEMMA TrimStep ==
    ASSUME Delivery, NEW e \in FaEmitters, F!Trim(e) PROVE Delivery'
<1> USE DEF Delivery
<1>1. /\ emitter[e].at = "inserted" /\ table' \in {F!Kept(table), table}
      /\ emitter' = [emitter EXCEPT ![e].at = "trimmed"]
      /\ UNCHANGED <<lastRow, ring, stream, client, up, appended, seen, ever, excused>>
  BY DEF F!Trim, F!history
<1>2. /\ emitter'[e].at = "trimmed" /\ emitter'[e].id = emitter[e].id
      /\ emitter'[e].to = emitter[e].to
      /\ \A f \in FaEmitters : f # e => emitter'[f] = emitter[f]
  BY <1>1 DEF FeedState, Streams, Emitters
<1>3. \A f \in FaEmitters :
         /\ emitter'[f].id = emitter[f].id /\ emitter'[f].to = emitter[f].to
         /\ emitter'[f].at # "idle" <=> emitter[f].at # "idle"
         /\ emitter'[f].at = "sending" <=> emitter[f].at = "sending"
         /\ emitter'[f].at \in {"inserted", "trimmed"} <=> emitter[f].at \in {"inserted", "trimmed"}
         /\ emitter[f].at = "idle" => emitter'[f] = emitter[f]
  BY <1>1, <1>2
<1>4. up
  BY <1>1 DEF Emitting, F!Resting
<1>5. table' \subseteq table /\ \A i \in table : i + FaCapacity > lastRow => i \in table'
  <2>1. lastRow \in Nat /\ table \in SUBSET (1 .. lastRow)
    BY FeedNumbers DEF FeedState, Streams, Emitters
  <2>2. /\ F!Kept(table) \subseteq table
        /\ \A i \in table : i + FaCapacity > lastRow => i \in F!Kept(table)
    BY <2>1, KeptRows
  <2> QED BY <1>1, <2>2
<1>6. FeedState'
  <2>1. emitter' \in [FaEmitters -> Emitters]
    BY <1>1 DEF FeedState, Streams, Emitters
  <2> QED BY <1>1, <1>5, <2>1 DEF FeedState, Streams, Emitters
<1>7. F!NewestPersist'
  BY <1>1, <1>5 DEF F!NewestPersist
<1>8. Emitting'
  BY <1>1, <1>3, <1>4 DEF Emitting
<1>9. Streaming'
  <2>1. \A f \in FaEmitters :
          emitter'[f].at = "sending" /\ stream.at = "live" /\ emitter'[f].to = stream.sub =>
             emitter'[f].id \notin Held(seen) /\ emitter'[f].id \notin Held(stream.chan)
    BY <1>3 DEF Streaming
  <2> QED BY <1>1, <2>1 DEF Streaming
<1>10. Missing'
  <2>1. F!MissedForAReason'
    BY <1>1, <1>3 DEF Missing, F!MissedForAReason, F!Overtaken
  <2> QED BY <1>1, <1>3, <2>1 DEF Missing, Owed, F!Overtaken, Held, InOrderBut
<1> QED BY <1>6, <1>7, <1>8, <1>9, <1>10

\* The append: the event is in the ring, for the subscribers of that moment; what
\* stands behind a newer one, or is in nobody's replay and on nobody's channel, is
\* excused.
LEMMA AppendStep ==
    ASSUME Delivery, NEW e \in FaEmitters, F!AppendRing(e) PROVE Delivery'
<1> USE DEF Delivery
<1> DEFINE id == emitter[e].id
           r == [emitter[e] EXCEPT !.at = "sending", !.to = stream.sub]
<1>1. /\ emitter[e].at = "trimmed" /\ ring' = F!LastOf(ring \o <<id>>, FaCapacity)
      /\ emitter' = [emitter EXCEPT ![e] = r] /\ appended' = appended \cup {id}
      /\ excused' = IF F!Window(id) THEN excused \cup {id} ELSE excused
      /\ UNCHANGED <<table, lastRow, stream, client, up, seen, ever>>
  BY DEF F!AppendRing
<1>2. /\ emitter'[e].at = "sending" /\ emitter'[e].id = id /\ emitter'[e].to = stream.sub
      /\ \A f \in FaEmitters : f # e => emitter'[f] = emitter[f]
  BY <1>1 DEF FeedState, Streams, Emitters
<1>3. /\ id \in Nat /\ id \in 1 .. lastRow /\ id \notin appended /\ up
      /\ FaCapacity \in Nat
      /\ \A f \in FaEmitters : f # e /\ emitter[f].at # "idle" => emitter[f].id # id
  <2>1. id \in Nat /\ id # 0 /\ id <= lastRow /\ lastRow \in Nat
    BY <1>1, FeedNumbers DEF Emitting
  <2> QED BY <1>1, <2>1, FeedAssumption DEF Emitting, F!Resting
<1> HIDE DEF id
<1>4. excused \subseteq excused' /\ (F!Window(id) => id \in excused')
  BY <1>1
<1>5. FeedState' /\ F!NewestPersist'
  <2>1. ring' \in Seq(Nat)
    <3> DEFINE s == ring \o <<id>>
    <3>1. s \in Seq(Nat)
      BY <1>3, OneMore DEF FeedState, Streams, Emitters
    <3> HIDE DEF s
    <3>2. F!LastOf(s, FaCapacity) \in Seq(Nat)
      BY <1>3, <3>1, TheEnd
    <3> QED BY <1>1, <3>2 DEF s
  <2>2. stream.sub \in 0 .. FaMaxConnects
    <3>1. client.connects \in 0 .. FaMaxConnects /\ stream.sub \in {0, client.connects}
      BY DEF Streaming, FeedState
    <3> QED BY <3>1, FeedAssumption
  <2>3. emitter' \in [FaEmitters -> Emitters]
    <3>1. r \in Emitters
      BY <2>2 DEF FeedState, Streams, Emitters
    <3> QED BY <1>1, <3>1 DEF FeedState, Streams, Emitters
  <2>4. appended' \subseteq 1 .. lastRow /\ ever' \subseteq appended'
    BY <1>1, <1>3 DEF FeedState, Streams, Emitters
  <2> QED BY <1>1, <2>1, <2>3, <2>4 DEF FeedState, Streams, Emitters, F!NewestPersist
<1>6. Emitting'
  <2>1. \A f \in FaEmitters : emitter'[f].at = "idle" \/ ~ up' => emitter'[f] = F!Resting
    BY <1>1, <1>2, <1>3 DEF Emitting, F!Resting
  <2>2. \A f, g \in FaEmitters :
          f # g /\ emitter'[f].at # "idle" /\ emitter'[g].at # "idle" =>
             emitter'[f].id # emitter'[g].id
    BY <1>2, <1>3 DEF Emitting
  <2>3. \A f \in FaEmitters :
          /\ emitter'[f].at # "idle" => emitter'[f].id # 0
          /\ emitter'[f].at \in {"inserted", "trimmed"} => emitter'[f].id \notin appended'
          /\ emitter'[f].at = "sending" => emitter'[f].id \in appended'
    BY <1>1, <1>2, <1>3 DEF Emitting
  <2>4. stream.sub <= client.connects /\ (stream.at = "replaying" => stream.sub < client.connects)
    BY FeedNumbers DEF Streaming
  <2>5. \A f \in FaEmitters :
          /\ emitter'[f].to <= client.connects
          /\ stream.at = "replaying" => emitter'[f].to < client.connects
    BY <1>2, <2>4 DEF Emitting
  <2> QED BY <1>1, <2>1, <2>2, <2>3, <2>5 DEF Emitting
<1>7. /\ Held(ring') \subseteq appended' /\ NoneTwice(ring') /\ InOrderBut(ring', excused')
  <2> DEFINE s == Append(ring, id)
  <2>1. /\ s \in Seq(Nat) /\ s = ring \o <<id>> /\ Held(s) = Held(ring) \cup {id} /\ NoneTwice(s)
    BY <1>3, OneMore DEF FeedState, Streams, Emitters, Streaming
  <2>2. InOrderBut(ring, excused') /\ (id \in excused' \/ \A n \in DOMAIN ring : ~ (ring[n] > id))
    BY <1>4, MoreExcused DEF Missing, F!Window
  <2>3. InOrderBut(s, excused')
    BY <1>3, <2>2, OneMore DEF FeedState, Streams, Emitters
  <2> HIDE DEF s
  <2>4. ring' = F!LastOf(s, FaCapacity)
    BY <1>1, <2>1
  <2>5. Held(ring') \subseteq Held(s)
    BY <1>3, <2>1, <2>4, TheEnd
  <2>6. NoneTwice(ring') /\ InOrderBut(ring', excused')
    BY <1>3, <2>1, <2>3, <2>4, TheEnd
  <2>7. Held(ring') \subseteq appended'
    BY <1>1, <2>1, <2>5 DEF Streaming
  <2> QED BY <2>6, <2>7
<1>8. Streaming'
  <2>1. \A f \in FaEmitters :
          emitter'[f].at = "sending" /\ stream.at = "live" /\ emitter'[f].to = stream.sub =>
             emitter'[f].id \notin Held(seen) /\ emitter'[f].id \notin Held(stream.chan)
    BY <1>2, <1>3 DEF Streaming
  <2> QED BY <1>1, <1>7, <2>1, StreamingKept
<1>9. Missing'
  <2>1. \A i \in Owed' : \/ i \in Owed /\ i # id
                         \/ i = id /\ ~ F!Window(id)
    BY <1>1, <1>3, <1>4 DEF Owed, FeedState, Streams, Emitters
  <2>2. InOrderBut(stream.backlog, excused') /\ InOrderBut(stream.chan, excused')
    BY <1>4, MoreExcused DEF Missing
  <2>3. client.last = 0 /\ stream.at # "live" => appended' \subseteq excused'
    BY <1>1, <1>4 DEF Missing, F!Window
  <2>4. stream.at = "replaying" => \A i \in Owed' : F!Overtaken(i) \/ i \in Held(stream.backlog)
    BY <2>1 DEF Missing, F!Window
  <2>5. stream.at = "live" =>
          \A i \in Owed' :
             \/ F!Overtaken(i) \/ i \in Held(stream.chan)
             \/ \E f \in FaEmitters : emitter'[f].at = "sending" /\ emitter'[f].id = i
                                      /\ emitter'[f].to = stream.sub
    <3> SUFFICES ASSUME stream.at = "live", NEW i \in Owed', ~ F!Overtaken(i),
                        i \notin Held(stream.chan)
                 PROVE  \E f \in FaEmitters : emitter'[f].at = "sending" /\ emitter'[f].id = i
                                              /\ emitter'[f].to = stream.sub
      OBVIOUS
    <3>1. CASE i = id
      BY <1>2, <3>1
    <3>2. CASE i # id
      <4>1. i \in Owed
        BY <2>1, <3>2
      <4>2. PICK f \in FaEmitters : emitter[f].at = "sending" /\ emitter[f].id = i
                                    /\ emitter[f].to = stream.sub
        BY <4>1 DEF Missing
      <4>3. f # e
        BY <1>1, <4>2
      <4> QED BY <1>2, <4>2, <4>3
    <3> QED BY <3>1, <3>2
  <2>6. \A f \in FaEmitters :
          emitter'[f].at = "sending" /\ emitter'[f].to = 0 /\ emitter'[f].id \in Owed' =>
             ~ F!Overtaken(emitter'[f].id)
    <3> SUFFICES ASSUME NEW f \in FaEmitters, emitter'[f].at = "sending", emitter'[f].to = 0,
                        emitter'[f].id \in Owed'
                 PROVE  ~ F!Overtaken(emitter'[f].id)
      OBVIOUS
    <3>1. CASE f = e
      <4>1. emitter'[f].id = id
        BY <1>2, <3>1
      <4>2. ~ F!Window(id)
        BY <2>1, <4>1
      <4> QED BY <4>1, <4>2 DEF F!Window
    <3>2. CASE f # e
      BY <1>2, <1>3, <2>1, <3>2 DEF Missing
    <3> QED BY <3>1, <3>2
  <2>7. F!MissedForAReason'
    <3>1. \A f \in FaEmitters : emitter'[f].id = emitter[f].id
      BY <1>2 DEF id
    <3>2. {emitter'[f].id : f \in FaEmitters} = {emitter[f].id : f \in FaEmitters}
      BY <3>1
    <3>3. id \in {emitter[f].id : f \in FaEmitters}
      BY DEF id
    <3>4. ASSUME NEW i \in appended', F!Overtaken(i)
          PROVE  i \in excused' \cup ever \cup {emitter[f].id : f \in FaEmitters}
      BY <1>1, <1>4, <3>3, <3>4 DEF Missing, F!MissedForAReason
    <3> QED BY <1>1, <3>2, <3>4 DEF F!MissedForAReason, F!Overtaken
  <2>8. Owed' = (appended' \ excused') \ ever
    BY <1>1 DEF Owed
  <2> QED BY <1>1, <1>7, <2>2, <2>3, <2>4, <2>5, <2>6, <2>7
          DEF Missing, F!Overtaken, Held, InOrderBut
<1> QED BY <1>5, <1>6, <1>8, <1>9

\* The send: the event is on the channel of the subscription it was taken for, or
\* excused; a channel is given nothing twice.
LEMMA SendStep ==
    ASSUME Delivery, NEW e \in FaEmitters, F!Send(e) PROVE Delivery'
<1> USE DEF Delivery
<1> DEFINE id == emitter[e].id
           open == emitter[e].to # 0 /\ stream.sub = emitter[e].to
           full == Len(stream.chan) >= FaBuffer
           late == F!Overtaken(id) \/ \E i \in DOMAIN stream.chan : stream.chan[i] > id
           c == Append(stream.chan, id)
<1>1. /\ emitter[e].at = "sending"
      /\ stream' = IF open /\ ~ full THEN [stream EXCEPT !.chan = c] ELSE stream
      /\ excused' = IF emitter[e].to # 0 /\ (late \/ IF open THEN full ELSE client.last = 0)
                    THEN excused \cup {id} ELSE excused
      /\ emitter' = [emitter EXCEPT ![e] = F!Resting]
      /\ UNCHANGED <<table, lastRow, ring, client, up, appended, seen, ever>>
  BY DEF F!Send
<1>2. emitter'[e] = F!Resting /\ \A f \in FaEmitters : f # e => emitter'[f] = emitter[f]
  BY <1>1 DEF FeedState, Streams, Emitters
<1>3. /\ id \in Nat /\ id \in appended /\ up
      /\ \A f \in FaEmitters : f # e /\ emitter[f].at # "idle" => emitter[f].id # id
  BY <1>1, FeedNumbers DEF Emitting, F!Resting
<1>4. /\ c \in Seq(Nat) /\ Held(c) = Held(stream.chan) \cup {id}
      /\ NoneTwice(stream.chan) /\ id \notin Held(stream.chan) => NoneTwice(c)
      /\ \A E : InOrderBut(stream.chan, E) /\ (id \in E \/ ~ late) => InOrderBut(c, E)
  BY <1>3, FeedNumbers, OneMore
<1> HIDE DEF c, full
<1>5. stream' = stream \/ (stream' = [stream EXCEPT !.chan = c] /\ open)
  BY <1>1
<1>6. /\ stream'.at = stream.at /\ stream'.backlog = stream.backlog /\ stream'.sub = stream.sub
      /\ stream'.chan = stream.chan \/ (stream'.chan = c /\ open)
      /\ open /\ ~ full => stream'.chan = c
      /\ stream' \in Streams
  BY <1>1, <1>4, <1>5 DEF FeedState, Streams, Emitters
<1>7. /\ excused \subseteq excused' /\ excused' \subseteq excused \cup {id}
      /\ emitter[e].to # 0 /\ late => id \in excused'
      /\ open /\ full => id \in excused'
  BY <1>1
<1>8. open => stream.at = "live" /\ id \notin Held(seen) /\ id \notin Held(stream.chan)
  BY <1>1, <1>3 DEF Streaming
<1> HIDE DEF id, open, late
<1>9. FeedState' /\ F!NewestPersist'
  <2>1. emitter' \in [FaEmitters -> Emitters]
    <3>1. F!Resting \in Emitters
      BY FeedNumbers DEF F!Resting, Emitters
    <3> QED BY <1>1, <3>1 DEF FeedState, Streams, Emitters
  <2> QED BY <1>1, <1>6, <2>1 DEF FeedState, Streams, Emitters, F!NewestPersist
<1>10. Emitting'
  <2>1. \A f \in FaEmitters : emitter'[f].at = "idle" \/ ~ up' => emitter'[f] = F!Resting
    BY <1>1, <1>2, <1>3 DEF Emitting
  <2>2. F!Resting.at = "idle" /\ F!Resting.to = 0
    BY DEF F!Resting, Emitters
  <2>3. \A f, g \in FaEmitters :
          f # g /\ emitter'[f].at # "idle" /\ emitter'[g].at # "idle" =>
             emitter'[f].id # emitter'[g].id
    BY <1>2, <2>2 DEF Emitting
  <2>4. \A f \in FaEmitters :
          /\ emitter'[f].at # "idle" => emitter'[f].id # 0
          /\ emitter'[f].at \in {"inserted", "trimmed"} => emitter'[f].id \notin appended
          /\ emitter'[f].at = "sending" => emitter'[f].id \in appended
    BY <1>2, <2>2 DEF Emitting
  <2>5. 0 <= client.connects /\ (stream.at = "replaying" => 0 < client.connects)
    BY FeedNumbers DEF Streaming
  <2>6. \A f \in FaEmitters :
          /\ emitter'[f].to <= client.connects
          /\ stream.at = "replaying" => emitter'[f].to < client.connects
    BY <1>2, <2>2, <2>5 DEF Emitting
  <2> QED BY <1>1, <1>6, <2>1, <2>3, <2>4, <2>6 DEF Emitting
<1>11. Streaming'
  <2>1. /\ Held(stream'.chan) \subseteq appended /\ NoneTwice(stream'.chan)
        /\ Held(seen) \cap Held(stream'.chan) = {}
        /\ stream.at # "live" => stream'.chan = <<>>
    BY <1>3, <1>4, <1>6, <1>8 DEF Streaming
  <2>2. \A f \in FaEmitters :
          emitter'[f].at = "sending" /\ stream.at = "live" /\ emitter'[f].to = stream.sub =>
             emitter'[f].id \notin Held(seen) /\ emitter'[f].id \notin Held(stream'.chan)
    BY <1>2, <1>3, <1>4, <1>6 DEF Streaming, F!Resting
  <2>3. up'
    BY <1>1, <1>3
  <2> QED BY <1>1, <1>6, <2>1, <2>2, <2>3 DEF Streaming
<1>12. Missing'
  <2>1. Owed' \subseteq Owed /\ (id \in Owed' => ~ (emitter[e].to # 0 /\ late) /\ ~ (open /\ full))
    BY <1>1, <1>7 DEF Owed
  <2>2. /\ InOrderBut(ring, excused') /\ InOrderBut(stream.backlog, excused')
        /\ InOrderBut(stream.chan, excused')
    BY <1>7, MoreExcused DEF Missing
  <2>3. InOrderBut(stream'.chan, excused')
    <3>1. open => id \in excused' \/ ~ late
      BY <1>7 DEF open
    <3> QED BY <1>4, <1>6, <2>2, <3>1
  <2>4. stream.at = "live" =>
          \A i \in Owed' :
             \/ F!Overtaken(i) \/ i \in Held(stream'.chan)
             \/ \E f \in FaEmitters : emitter'[f].at = "sending" /\ emitter'[f].id = i
                                      /\ emitter'[f].to = stream.sub
    <3> SUFFICES ASSUME stream.at = "live", NEW i \in Owed', ~ F!Overtaken(i),
                        i \notin Held(stream'.chan)
                 PROVE  \E f \in FaEmitters : emitter'[f].at = "sending" /\ emitter'[f].id = i
                                              /\ emitter'[f].to = stream.sub
      OBVIOUS
    <3>1. i \in Owed /\ i \notin Held(stream.chan)
      BY <1>4, <1>6, <2>1
    <3>2. PICK f \in FaEmitters : emitter[f].at = "sending" /\ emitter[f].id = i
                                  /\ emitter[f].to = stream.sub
      BY <3>1 DEF Missing
    <3>3. f # e
      <4> SUFFICES ASSUME f = e PROVE FALSE
        OBVIOUS
      <4>1. i = id /\ open
        <5>1. stream.sub # 0
          BY FeedNumbers DEF Streaming
        <5> QED BY <3>2, <5>1 DEF id, open
      <4>2. ~ full
        BY <2>1, <4>1
      <4> QED BY <1>4, <1>6, <4>1, <4>2
    <3> QED BY <1>2, <3>2, <3>3
  <2>5. \A f \in FaEmitters :
          emitter'[f].at = "sending" /\ emitter'[f].to = 0 /\ emitter'[f].id \in Owed' =>
             ~ F!Overtaken(emitter'[f].id)
    BY <1>2, <2>1 DEF Missing, F!Resting
  <2>6. F!MissedForAReason'
    <3> SUFFICES ASSUME NEW i \in appended, F!Overtaken(i)
                 PROVE  i \in excused' \cup ever \cup {emitter'[f].id : f \in FaEmitters}
      BY <1>1 DEF F!MissedForAReason, F!Overtaken
    <3>1. CASE i = id
      <4>1. emitter[e].to # 0 => i \in excused'
        BY <1>7, <3>1 DEF late
      <4>2. emitter[e].to = 0 => id \notin Owed
        BY <1>1, <3>1 DEF Missing, id
      <4> QED BY <1>3, <1>7, <3>1, <4>1, <4>2 DEF Owed
    <3>2. CASE i # id
      <4>1. i \in excused \/ i \in ever \/ \E f \in FaEmitters : emitter[f].id = i
        BY DEF Missing, F!MissedForAReason
      <4>2. \A f \in FaEmitters : emitter[f].id = i => f # e
        BY <3>2 DEF id
      <4> QED BY <1>2, <1>7, <4>1, <4>2
    <3> QED BY <3>1, <3>2
  <2>7. stream.at = "replaying" => \A i \in Owed' : F!Overtaken(i) \/ i \in Held(stream.backlog)
    BY <2>1 DEF Missing
  <2>8. client.last = 0 /\ stream.at # "live" => appended \subseteq excused'
    BY <1>7 DEF Missing
  <2>9. client.last # 0 => client.last \in ever
    BY DEF Missing
  <2> QED BY <1>1, <1>6, <2>2, <2>3, <2>4, <2>5, <2>6, <2>7, <2>8, <2>9 DEF Missing, F!Overtaken
<1> QED BY <1>9, <1>10, <1>11, <1>12

-----------------------------------------------------------------------------
(* The activity feed: the stream. *)

\* A connection: what the client is owed is in the replay.
LEMMA ConnectStep == ASSUME Delivery, F!Connect PROVE Delivery'
<1> USE DEF Delivery
<1> DEFINE b == IF client.last = 0 THEN <<>> ELSE F!List(client.last, FALSE)
<1>1. /\ stream.at = "closed" /\ up /\ client.connects < FaMaxConnects
      /\ client' = [client EXCEPT !.connects = @ + 1]
      /\ stream' = [F!NoStream EXCEPT !.at = "replaying", !.backlog = b]
      /\ excused' = excused \cup (IF client.last = 0 THEN {} ELSE
                                  appended \ F!ToSet(F!LastOf(ring, FaLimit)))
      /\ seen' = <<>>
      /\ UNCHANGED <<table, lastRow, ring, emitter, up, appended, ever>>
  BY DEF F!Connect
<1>2. /\ b \in Seq(Nat) /\ Held(b) \subseteq Held(ring) /\ NoneTwice(b) /\ InOrderBut(b, excused)
      /\ client.last # 0 =>
            \A x \in Held(F!LastOf(ring, FaLimit)) : x > client.last => x \in Held(b)
  <2>1. CASE client.last = 0
    BY <2>1, NothingHeld
  <2>2. CASE client.last # 0
    <3>1. ring \in Seq(Nat) /\ client.last \in Nat /\ FALSE \in BOOLEAN
      BY FeedNumbers DEF FeedState, Streams, Emitters
    <3>2. b = F!List(client.last, FALSE)
      BY <2>2
    <3> HIDE DEF b
    <3> QED BY <3>1, <3>2, Listed DEF Streaming, Missing
  <2> QED BY <2>1, <2>2
<1> HIDE DEF b
<1>3. /\ stream'.at = "replaying" /\ stream'.backlog = b /\ stream'.chan = <<>> /\ stream'.sub = 0
      /\ stream' \in Streams
  BY <1>1, <1>2, NothingHeld DEF F!NoStream, Streams
<1>4. /\ client'.last = client.last /\ client'.connects = client.connects + 1
      /\ client' \in [last : 0 .. lastRow, connects : 0 .. FaMaxConnects]
  <2>1. client.connects + 1 \in 0 .. FaMaxConnects
    BY <1>1, FeedNumbers
  <2> QED BY <1>1, <2>1 DEF FeedState, Streams, Emitters
<1>5. excused \subseteq excused'
  BY <1>1
<1>6. FeedState' /\ F!NewestPersist'
  BY <1>1, <1>3, <1>4, NothingHeld DEF FeedState, Streams, Emitters, F!NewestPersist
<1>7. Emitting'
  <2>1. \A f \in FaEmitters : emitter[f].to <= client'.connects /\ emitter[f].to < client'.connects
    BY <1>4, FeedNumbers DEF Emitting
  <2> QED BY <1>1, <2>1 DEF Emitting
<1>8. Streaming'
  <2>1. client'.connects > 0
    BY <1>4, FeedNumbers
  <2> QED BY <1>1, <1>2, <1>3, <2>1, NothingHeld DEF Streaming
<1>9. Missing'
  <2>1. Owed' \subseteq Owed
    BY <1>1, <1>5 DEF Owed
  <2>2. InOrderBut(ring, excused') /\ InOrderBut(b, excused') /\ InOrderBut(<<>>, excused')
    BY <1>2, <1>5, MoreExcused, NothingHeld DEF Missing
  <2>3. \A i \in Owed' : F!Overtaken(i) \/ i \in Held(b)
    <3> SUFFICES ASSUME NEW i \in Owed' PROVE F!Overtaken(i) \/ i \in Held(b)
      OBVIOUS
    <3>1. client.last # 0
      BY <1>1, <2>1 DEF Missing, Owed
    <3>2. i \in Held(F!LastOf(ring, FaLimit)) /\ i \in Nat /\ i \notin ever
      BY <1>1, <3>1, FeedNumbers DEF Owed, Held, F!ToSet
    <3>3. client.last \in ever /\ client.last \in Nat
      BY <3>1, FeedNumbers DEF Missing
    <3>4. i > client.last \/ client.last > i
      BY <3>2, <3>3
    <3> QED BY <1>2, <3>1, <3>2, <3>3, <3>4 DEF F!Overtaken
  <2>4. client.last = 0 => appended \subseteq excused'
    BY <1>1, <1>5 DEF Missing
  <2>5. \A f \in FaEmitters :
          emitter[f].at = "sending" /\ emitter[f].to = 0 /\ emitter[f].id \in Owed' =>
             ~ F!Overtaken(emitter[f].id)
    BY <2>1 DEF Missing
  <2>6. F!MissedForAReason'
    BY <1>1, <1>5 DEF Missing, F!MissedForAReason, F!Overtaken
  <2>7. client.last # 0 => client.last \in ever
    BY DEF Missing
  <2> QED BY <1>1, <1>3, <1>4, <2>2, <2>3, <2>4, <2>5, <2>6, <2>7 DEF Missing, F!Overtaken
<1> QED BY <1>6, <1>7, <1>8, <1>9

\* What a client gets next is newer than nothing it is owed, or what it passes is
\* excused: the replay.
LEMMA ReplayStep == ASSUME Delivery, F!WriteBacklog PROVE Delivery'
<1> USE DEF Delivery
<1> DEFINE h == Head(stream.backlog)
           t == Tail(stream.backlog)
<1>1. /\ stream.at = "replaying" /\ stream.backlog # <<>>
      /\ client' = [client EXCEPT !.last = h] /\ seen' = Append(seen, h) /\ ever' = ever \cup {h}
      /\ stream' = [stream EXCEPT !.backlog = t]
      /\ UNCHANGED <<table, lastRow, ring, emitter, up, appended, excused>>
  BY DEF F!WriteBacklog, F!Receive
<1>2. /\ t \in Seq(Nat) /\ h \in Nat /\ Held(stream.backlog) = {h} \cup Held(t)
      /\ NoneTwice(t) /\ h \notin Held(t) /\ InOrderBut(t, excused)
      /\ \A x \in Held(t) : h > x => x \in excused
  BY <1>1, FeedNumbers, OneLess DEF Streaming, Missing
<1>3. h \in appended /\ h \in 1 .. lastRow /\ h # 0 /\ h \notin Held(seen)
  <2>1. h \in appended /\ h \notin Held(seen)
    BY <1>2 DEF Streaming
  <2> QED BY <2>1, FeedNumbers
<1>4. seen' \in Seq(Nat) /\ Held(seen') = Held(seen) \cup {h} /\ NoneTwice(seen')
  BY <1>1, <1>2, <1>3, OneMore DEF FeedState, Streams, Emitters, Streaming
<1> HIDE DEF h, t
<1>5. /\ stream'.at = "replaying" /\ stream'.backlog = t /\ stream'.chan = stream.chan
      /\ stream'.sub = stream.sub
      /\ stream' \in Streams
  BY <1>1, <1>2 DEF FeedState, Streams, Emitters
<1>6. /\ client'.last = h /\ client'.connects = client.connects
      /\ client' \in [last : 0 .. lastRow, connects : 0 .. FaMaxConnects]
  <2>1. h \in 0 .. lastRow
    BY <1>3, FeedNumbers
  <2> QED BY <1>1, <2>1 DEF FeedState, Streams, Emitters
<1>7. FeedState' /\ F!NewestPersist'
  BY <1>1, <1>3, <1>4, <1>5, <1>6 DEF FeedState, Streams, Emitters, F!NewestPersist
<1>8. Emitting'
  BY <1>1, <1>5, <1>6 DEF Emitting
<1>9. stream.chan = <<>> /\ up
  BY <1>1 DEF Streaming, F!NoStream
<1>10. Streaming'
  <2>1. Held(seen') \subseteq appended /\ Held(t) \subseteq appended
    BY <1>2, <1>3, <1>4 DEF Streaming
  <2>2. Held(seen') \cap Held(t) = {} /\ Held(seen') \cap Held(<<>>) = {}
    BY <1>2, <1>4, NothingHeld DEF Streaming
  <2> QED BY <1>1, <1>2, <1>4, <1>5, <1>6, <1>9, <2>1, <2>2, NothingHeld DEF Streaming
<1>11. Owed' = Owed \ {h}
  BY <1>1 DEF Owed
<1>12. \A i : (F!Overtaken(i) => F!Overtaken(i)') /\ (F!Overtaken(i)' => F!Overtaken(i) \/ h > i)
  BY <1>1 DEF F!Overtaken
<1>13. \A i \in Owed' : F!Overtaken(i) \/ i \in Held(t)
  BY <1>1, <1>2, <1>11 DEF Missing
<1>14. \A i \in Owed' : h > i => F!Overtaken(i)
  BY <1>2, <1>11, <1>13 DEF Owed
<1>15. Missing'
  <2>1. \A i \in Owed' : F!Overtaken(i)' \/ i \in Held(t)
    BY <1>12, <1>13
  <2>2. \A f \in FaEmitters :
          emitter[f].at = "sending" /\ emitter[f].to = 0 /\ emitter[f].id \in Owed' =>
             ~ F!Overtaken(emitter[f].id)'
    <3> SUFFICES ASSUME NEW f \in FaEmitters, emitter[f].at = "sending", emitter[f].to = 0,
                        NEW i \in Owed', i = emitter[f].id, \E x \in ever' : x > i
                 PROVE  FALSE
      BY <1>1 DEF F!Overtaken
    <3>1. ~ F!Overtaken(i)
      BY <1>11 DEF Missing
    <3>2. h > i
      BY <1>1, <3>1 DEF F!Overtaken
    <3> QED BY <1>14, <3>1, <3>2
  <2>3. F!MissedForAReason'
    <3> SUFFICES ASSUME NEW i \in appended, F!Overtaken(i)'
                 PROVE  i \in excused \cup ever' \cup {emitter[f].id : f \in FaEmitters}
      BY <1>1 DEF F!MissedForAReason
    <3>1. CASE i \in Owed'
      BY <1>1, <1>12, <1>14, <3>1 DEF Missing, F!MissedForAReason
    <3>2. CASE i \notin Owed'
      BY <1>1, <3>2 DEF Owed
    <3> QED BY <3>1, <3>2
  <2>4. InOrderBut(ring, excused) /\ InOrderBut(stream.chan, excused)
    BY DEF Missing
  <2> QED BY <1>1, <1>2, <1>3, <1>5, <1>6, <2>1, <2>2, <2>3, <2>4 DEF Missing
<1> QED BY <1>7, <1>8, <1>10, <1>15

\* And the channel.
LEMMA LiveStep == ASSUME Delivery, F!WriteLive PROVE Delivery'
<1> USE DEF Delivery
<1> DEFINE h == Head(stream.chan)
           t == Tail(stream.chan)
<1>1. /\ stream.at = "live" /\ stream.chan # <<>>
      /\ client' = [client EXCEPT !.last = h] /\ seen' = Append(seen, h) /\ ever' = ever \cup {h}
      /\ stream' = [stream EXCEPT !.chan = t]
      /\ UNCHANGED <<table, lastRow, ring, emitter, up, appended, excused>>
  BY DEF F!WriteLive, F!Receive
<1>2. /\ t \in Seq(Nat) /\ h \in Nat /\ Held(stream.chan) = {h} \cup Held(t)
      /\ NoneTwice(t) /\ h \notin Held(t) /\ InOrderBut(t, excused)
      /\ \A x \in Held(t) : h > x => x \in excused
  BY <1>1, FeedNumbers, OneLess DEF Streaming, Missing
<1>3. h \in appended /\ h \in 1 .. lastRow /\ h # 0 /\ h \notin Held(seen)
  <2>1. h \in appended /\ h \notin Held(seen)
    BY <1>2 DEF Streaming
  <2> QED BY <2>1, FeedNumbers
<1>4. seen' \in Seq(Nat) /\ Held(seen') = Held(seen) \cup {h} /\ NoneTwice(seen')
  BY <1>1, <1>2, <1>3, OneMore DEF FeedState, Streams, Emitters, Streaming
<1> HIDE DEF h, t
<1>5. /\ stream'.at = "live" /\ stream'.backlog = stream.backlog /\ stream'.chan = t
      /\ stream'.sub = stream.sub
      /\ stream' \in Streams
  BY <1>1, <1>2 DEF FeedState, Streams, Emitters
<1>6. /\ client'.last = h /\ client'.connects = client.connects
      /\ client' \in [last : 0 .. lastRow, connects : 0 .. FaMaxConnects]
  <2>1. h \in 0 .. lastRow
    BY <1>3, FeedNumbers
  <2> QED BY <1>1, <2>1 DEF FeedState, Streams, Emitters
<1>7. FeedState' /\ F!NewestPersist'
  BY <1>1, <1>3, <1>4, <1>5, <1>6 DEF FeedState, Streams, Emitters, F!NewestPersist
<1>8. Emitting'
  BY <1>1, <1>5, <1>6 DEF Emitting
<1>9. stream.backlog = <<>> /\ up /\ stream.sub # 0
  BY <1>1, FeedNumbers DEF Streaming, F!NoStream
<1>10. Streaming'
  <2>1. Held(seen') \subseteq appended /\ Held(t) \subseteq appended
    BY <1>2, <1>3, <1>4 DEF Streaming
  <2>2. Held(seen') \cap Held(t) = {} /\ Held(seen') \cap Held(<<>>) = {}
    BY <1>2, <1>4, NothingHeld DEF Streaming
  <2>3. \A f \in FaEmitters :
          emitter[f].at = "sending" /\ emitter[f].to = stream.sub =>
             emitter[f].id \notin Held(seen') /\ emitter[f].id \notin Held(t)
    BY <1>1, <1>2, <1>4 DEF Streaming
  <2> QED BY <1>1, <1>2, <1>4, <1>5, <1>6, <1>9, <2>1, <2>2, <2>3, NothingHeld DEF Streaming
<1>11. Owed' = Owed \ {h}
  BY <1>1 DEF Owed
<1>12. \A i : (F!Overtaken(i) => F!Overtaken(i)') /\ (F!Overtaken(i)' => F!Overtaken(i) \/ h > i)
  BY <1>1 DEF F!Overtaken
<1>13. \A i \in Owed' :
          \/ F!Overtaken(i) \/ i \in Held(t)
          \/ \E f \in FaEmitters : emitter[f].at = "sending" /\ emitter[f].id = i
                                   /\ emitter[f].to = stream.sub
  BY <1>1, <1>2, <1>11 DEF Missing
<1>14. \A i \in Owed' : h > i =>
          \/ F!Overtaken(i)
          \/ \E f \in FaEmitters : emitter[f].at = "sending" /\ emitter[f].id = i
                                   /\ emitter[f].to = stream.sub
  BY <1>2, <1>11, <1>13 DEF Owed
<1>15. Missing'
  <2>1. \A i \in Owed' :
          \/ F!Overtaken(i)' \/ i \in Held(t)
          \/ \E f \in FaEmitters : emitter[f].at = "sending" /\ emitter[f].id = i
                                   /\ emitter[f].to = stream.sub
    BY <1>12, <1>13
  <2>2. \A f \in FaEmitters :
          emitter[f].at = "sending" /\ emitter[f].to = 0 /\ emitter[f].id \in Owed' =>
             ~ F!Overtaken(emitter[f].id)'
    <3> SUFFICES ASSUME NEW f \in FaEmitters, emitter[f].at = "sending", emitter[f].to = 0,
                        NEW i \in Owed', i = emitter[f].id, \E x \in ever' : x > i
                 PROVE  FALSE
      BY <1>1 DEF F!Overtaken
    <3>1. ~ F!Overtaken(i) /\ h > i
      <4>1. ~ F!Overtaken(i)
        BY <1>11 DEF Missing
      <4> QED BY <1>1, <4>1 DEF F!Overtaken
    <3>2. PICK g \in FaEmitters : emitter[g].at = "sending" /\ emitter[g].id = i
                                  /\ emitter[g].to = stream.sub
      BY <1>14, <3>1
    <3>3. g # f
      BY <1>9, <3>2
    <3> QED BY <3>2, <3>3 DEF Emitting
  <2>3. F!MissedForAReason'
    <3> SUFFICES ASSUME NEW i \in appended, F!Overtaken(i)'
                 PROVE  i \in excused \cup ever' \cup {emitter[f].id : f \in FaEmitters}
      BY <1>1 DEF F!MissedForAReason
    <3>1. CASE i \in Owed'
      <4>1. F!Overtaken(i) \/ \E f \in FaEmitters : emitter[f].id = i
        BY <1>12, <1>14, <3>1
      <4> QED BY <1>1, <4>1 DEF Missing, F!MissedForAReason
    <3>2. CASE i \notin Owed'
      BY <1>1, <3>2 DEF Owed
    <3> QED BY <3>1, <3>2
  <2>4. InOrderBut(ring, excused) /\ InOrderBut(stream.backlog, excused)
    BY DEF Missing
  <2> QED BY <1>1, <1>2, <1>3, <1>5, <1>6, <2>1, <2>2, <2>3, <2>4 DEF Missing
<1> QED BY <1>7, <1>8, <1>10, <1>15

\* The subscription: nobody has an event for it yet.
LEMMA SubscribeStep == ASSUME Delivery, F!Subscribe PROVE Delivery'
<1> USE DEF Delivery
<1>1. /\ stream.at = "replaying" /\ stream.backlog = <<>>
      /\ stream' = [stream EXCEPT !.at = "live", !.sub = client.connects]
      /\ UNCHANGED <<table, lastRow, ring, emitter, client, up, appended, seen, ever, excused>>
  BY DEF F!Subscribe, F!history
<1>2. /\ stream'.at = "live" /\ stream'.backlog = <<>> /\ stream'.chan = <<>>
      /\ stream'.sub = client.connects
      /\ stream' \in Streams
  BY <1>1, FeedNumbers DEF FeedState, Streams, Emitters, Streaming
<1>3. FeedState' /\ F!NewestPersist'
  BY <1>1, <1>2 DEF FeedState, Streams, Emitters, F!NewestPersist
<1>4. Emitting'
  BY <1>1, <1>2 DEF Emitting
<1>5. \A f \in FaEmitters : emitter[f].to # client.connects
  <2>1. \A f \in FaEmitters : emitter[f].to < client.connects
    BY <1>1 DEF Emitting
  <2> QED BY <2>1, FeedNumbers
<1>6. Streaming'
  <2>1. up /\ client.connects > 0
    BY <1>1 DEF Streaming, F!NoStream
  <2> QED BY <1>1, <1>2, <1>5, <2>1, NothingHeld DEF Streaming
<1>7. Missing'
  <2>1. \A i \in Owed : F!Overtaken(i)
    BY <1>1, NothingHeld DEF Missing
  <2>2. F!MissedForAReason'
    BY <1>1 DEF Missing, F!MissedForAReason, F!Overtaken
  <2>3. Owed' = Owed /\ \A i : F!Overtaken(i)' = F!Overtaken(i)
    BY <1>1 DEF Owed, F!Overtaken
  <2> QED BY <1>1, <1>2, <2>1, <2>2, <2>3, NothingHeld DEF Missing
<1> QED BY <1>3, <1>4, <1>6, <1>7

\* The end of a stream.
LEMMA DisconnectStep == ASSUME Delivery, F!Disconnect PROVE Delivery'
<1> USE DEF Delivery
<1>1. /\ stream.at # "closed" /\ stream' = F!NoStream /\ excused' = excused \cup F!Unsent
      /\ UNCHANGED <<table, lastRow, ring, emitter, client, up, appended, seen, ever>>
  BY DEF F!Disconnect
<1>2. /\ stream'.at = "closed" /\ stream'.backlog = <<>> /\ stream'.chan = <<>> /\ stream'.sub = 0
      /\ stream' \in Streams
  BY <1>1, NothingHeld DEF F!NoStream, Streams
<1>3. FeedState' /\ F!NewestPersist'
  BY <1>1, <1>2 DEF FeedState, Streams, Emitters, F!NewestPersist
<1>4. Emitting'
  BY <1>1, <1>2 DEF Emitting
<1>5. Streaming'
  BY <1>1, <1>2, NothingHeld DEF Streaming, F!NoStream
<1>6. Missing'
  <2>1. excused \subseteq excused' /\ (client.last = 0 => appended \subseteq excused')
    BY <1>1 DEF F!Unsent
  <2>2. InOrderBut(ring, excused')
    BY <2>1, MoreExcused DEF Missing
  <2>3. F!MissedForAReason'
    BY <1>1, <2>1 DEF Missing, F!MissedForAReason, F!Overtaken
  <2>4. Owed' \subseteq Owed /\ \A i : F!Overtaken(i)' = F!Overtaken(i)
    BY <1>1, <2>1 DEF Owed, F!Overtaken
  <2> QED BY <1>1, <1>2, <2>1, <2>2, <2>3, <2>4, NothingHeld DEF Missing
<1> QED BY <1>3, <1>4, <1>5, <1>6

-----------------------------------------------------------------------------
(* The activity feed: the daemon. *)

\* A crash takes the ring, the stream and what the emitters had in hand.
LEMMA FeedCrash == ASSUME Delivery, F!Crash PROVE Delivery'
<1> USE DEF Delivery
<1>1. /\ up' = FALSE /\ ring' = <<>> /\ stream' = F!NoStream
      /\ emitter' = [e \in FaEmitters |-> F!Resting]
      /\ excused' = excused \cup F!Unsent \cup {emitter[e].id : e \in FaEmitters}
      /\ UNCHANGED <<table, lastRow, client, appended, seen, ever>>
  BY DEF F!Crash
<1>2. /\ stream'.at = "closed" /\ stream'.backlog = <<>> /\ stream'.chan = <<>> /\ stream'.sub = 0
      /\ stream' \in Streams
  BY <1>1, NothingHeld DEF F!NoStream, Streams
<1>3. /\ \A e \in FaEmitters : emitter'[e] = F!Resting
      /\ F!Resting.at = "idle" /\ F!Resting.to = 0 /\ F!Resting.id = 0
  BY <1>1 DEF F!Resting, Emitters
<1>4. FeedState' /\ F!NewestPersist'
  <2>1. F!Resting \in Emitters
    BY FeedNumbers DEF F!Resting, Emitters
  <2> QED BY <1>1, <1>2, <2>1, NothingHeld DEF FeedState, Streams, Emitters, F!NewestPersist
<1>5. Emitting'
  <2>1. 0 <= client.connects
    BY FeedNumbers
  <2> QED BY <1>1, <1>2, <1>3, <2>1 DEF Emitting
<1>6. Streaming'
  BY <1>1, <1>2, <1>3, NothingHeld DEF Streaming, F!NoStream
<1>7. Missing'
  <2>1. excused \subseteq excused' /\ (client.last = 0 => appended \subseteq excused')
        /\ {emitter[e].id : e \in FaEmitters} \subseteq excused'
    BY <1>1 DEF F!Unsent
  <2>2. F!MissedForAReason'
    BY <1>1, <2>1 DEF Missing, F!MissedForAReason, F!Overtaken
  <2>3. client.last # 0 => client.last \in ever
    BY DEF Missing
  <2> QED BY <1>1, <1>2, <1>3, <2>1, <2>2, <2>3, NothingHeld DEF Missing
<1> QED BY <1>4, <1>5, <1>6, <1>7

\* hydrate: the rows are in the ring, in their order; what the client is already
\* past is excused.
LEMMA FeedRestart == ASSUME Delivery, F!Restart PROVE Delivery'
<1> USE DEF Delivery
<1> DEFINE K == F!Kept(table)
<1>1. /\ ~ up /\ up' = TRUE /\ ring' = F!InOrder(K) /\ appended' = appended \cup K
      /\ excused' = excused \cup {i \in K \ appended : client.last = 0 \/ F!Overtaken(i)}
      /\ UNCHANGED <<table, lastRow, emitter, stream, client, seen, ever>>
  BY DEF F!Restart
<1>2. K \subseteq 1 .. lastRow /\ K \in SUBSET Nat /\ IsFiniteSet(K)
  <2>1. lastRow \in Nat /\ table \in SUBSET (1 .. lastRow)
    BY FeedNumbers DEF FeedState, Streams, Emitters
  <2>2. F!Kept(table) \subseteq table /\ F!Kept(table) \in SUBSET Nat /\ IsFiniteSet(F!Kept(table))
    BY <2>1, KeptRows
  <2> QED BY <2>1, <2>2
<1> HIDE DEF K
<1>3. /\ ring' \in Seq(Nat) /\ Held(ring') = K /\ NoneTwice(ring')
      /\ \A E : InOrderBut(ring', E)
  BY <1>1, <1>2, Ascending, AscendingIsSound
<1>4. /\ \A e \in FaEmitters : emitter[e] = F!Resting
      /\ F!Resting.at = "idle" /\ F!Resting.to = 0 /\ F!Resting.id = 0
  BY <1>1 DEF Emitting, F!Resting
<1>5. /\ stream = F!NoStream /\ stream.at = "closed" /\ stream.backlog = <<>>
      /\ stream.chan = <<>> /\ stream.sub = 0
  BY <1>1 DEF Streaming, F!NoStream
<1>6. appended' \subseteq 1 .. lastRow /\ appended \subseteq appended' /\ excused \subseteq excused'
  BY <1>1, <1>2 DEF FeedState, Streams, Emitters
<1>7. FeedState' /\ F!NewestPersist'
  BY <1>1, <1>3, <1>6 DEF FeedState, Streams, Emitters, F!NewestPersist
<1>8. Emitting'
  <2>1. 0 <= client.connects
    BY FeedNumbers
  <2> QED BY <1>1, <1>4, <1>5, <2>1 DEF Emitting
<1>9. Streaming'
  <2>1. Held(ring') \subseteq appended' /\ Held(seen) \subseteq appended'
    BY <1>1, <1>3, <1>6 DEF Streaming
  <2> QED BY <1>1, <1>3, <1>4, <1>5, <2>1, NothingHeld DEF Streaming
<1>10. Missing'
  <2>1. client.last = 0 => appended' \subseteq excused'
    BY <1>1, <1>5 DEF Missing
  <2>2. F!MissedForAReason'
    <3> SUFFICES ASSUME NEW i \in appended', F!Overtaken(i)
                 PROVE  i \in excused' \cup ever \cup {emitter[e].id : e \in FaEmitters}
      BY <1>1 DEF F!MissedForAReason, F!Overtaken
    <3> QED BY <1>1, <1>6 DEF Missing, F!MissedForAReason
  <2>3. client.last # 0 => client.last \in ever
    BY DEF Missing
  <2> QED BY <1>1, <1>3, <1>4, <1>5, <2>1, <2>2, <2>3, NothingHeld DEF Missing
<1> QED BY <1>7, <1>8, <1>9, <1>10

\* Every step keeps it.
LEMMA FeedStep == FeedIInv /\ [F!Next]_F!vars => FeedIInv'
<1> SUFFICES ASSUME FeedIInv, [F!Next]_F!vars PROVE FeedIInv'
  OBVIOUS
<1>1. ASSUME Delivery', UNCHANGED <<events, poll>> PROVE FeedIInv'
  BY <1>1 DEF FeedIInv, PageState
<1>2. CASE \E e \in FaEmitters : F!Emit(e)
  <2>1. PICK e \in FaEmitters : F!Insert(e) \/ F!Trim(e) \/ F!AppendRing(e) \/ F!Send(e)
    BY <1>2 DEF F!Emit
  <2>2. UNCHANGED <<events, poll>>
    BY <2>1 DEF F!Insert, F!Trim, F!AppendRing, F!Send
  <2>3. Delivery'
    BY <2>1, InsertStep, TrimStep, AppendStep, SendStep DEF FeedIInv
  <2> QED BY <1>1, <2>2, <2>3
<1>3. CASE F!Connect \/ F!Serve \/ F!Fault \/ F!Restart
  <2>1. UNCHANGED <<events, poll>>
    BY <1>3 DEF F!Connect, F!Serve, F!WriteBacklog, F!Subscribe, F!WriteLive, F!Fault,
                F!Disconnect, F!Crash, F!Restart
  <2>2. Delivery'
    BY <1>3, ConnectStep, ReplayStep, SubscribeStep, LiveStep, DisconnectStep, FeedCrash,
       FeedRestart DEF FeedIInv, F!Serve, F!Fault
  <2> QED BY <1>1, <2>1, <2>2
<1>4. CASE F!Show \/ F!User
  BY <1>4, PageStep
<1>5. CASE UNCHANGED F!vars
  <2>1. UNCHANGED delivered
        /\ UNCHANGED <<events, poll>>
    BY <1>5 DEF F!vars, F!history, delivered
  <2>2. Delivery'
    BY <2>1, FeedRests DEF FeedIInv
  <2> QED BY <1>1, <2>1, <2>2
<1> QED BY <1>2, <1>3, <1>4, <1>5 DEF F!Next

\* However emitters, the stream, crashes and the page interleave: the newest events
\* stay in the table, a connection delivers none twice, and a client that has a newer
\* event has, or has not for a reason, every older one (Emit, List,
\* handleActivityStream, hydrate).
THEOREM EventsAreDelivered == F!Spec => []FeedInv
<1> QED BY FeedBegin, FeedStep, FeedIsSound, PTL DEF F!Spec

=============================================================================
