---------------------------- MODULE Preferences -----------------------------
(***************************************************************************)
(* The settings and the auto-switch of one daemon, and the three pages     *)
(* that edit them: the terminal's Settings page, its Accounts page (A and  *)
(* P), and the desktop app.  Every command of a page is a goroutine of its *)
(* own: requests reach the daemon, and answers the page, in any order.     *)
(*                                                                         *)
(* The terminal sends the whole record it has a copy of; the desktop sends *)
(* the one field that changed.  A combined daemon stores what it was sent, *)
(* an agent lays it over what it has.                                      *)
(***************************************************************************)
EXTENDS Naturals, FiniteSets

CONSTANTS
    PfAgent,   \* subset of BOOLEAN: is the daemon an agent?
    PfSlots,   \* bound: requests in flight
    PfMaxPoll, \* bound: the longest poll interval, in steps of 30 s
    PfMaxEdits, PfMaxFaults \* bounds: writes of the pages; requests that fail, and restarts

ASSUME PrefsAssumption ==
    /\ PfAgent \subseteq BOOLEAN /\ PfSlots \in Nat \ {0} /\ PfMaxPoll \in Nat \ {0, 1}
    /\ {PfMaxEdits, PfMaxFaults} \subseteq Nat

VARIABLES
    agent,    \* never changes
    prefs,    \* stored settings; 0 and "" are the zero values of a struct
    switch,   \* stored auto-switch
    flag,     \* the coordinator's restoreOnQuit
    page,     \* the Settings page's copies
    list,     \* the Accounts page's copy of the auto-switch
    request,  \* slot -> request
    edits, faults,
    clash     \* history: two writes of the settings overlapped

vars == <<agent, prefs, switch, flag, page, list, request,
          edits, faults, clash>>

\* look stands for theme and sidebar_mode, poll for the interval and the three
\* thresholds, which are stepped, clamped and defaulted as it is.
Settings == [look : {"", "system", "dark"}, poll : 0..PfMaxPoll, restore : BOOLEAN]
DefaultSettings == [look |-> "system", poll |-> 2, restore |-> TRUE]
ZeroSettings == [look |-> "", poll |-> 0, restore |-> FALSE]
AutoSwitch == [enabled : BOOLEAN, policy : {"", "lru", "rr"}]
DefaultAutoSwitch == [enabled |-> TRUE, policy |-> "lru"]
ZeroAutoSwitch == [enabled |-> FALSE, policy |-> ""]

NoRequest == [at |-> "none", kind |-> "load", body |-> ZeroSettings, auto |-> ZeroAutoSwitch,
              from |-> "page", ok |-> FALSE]

\* The Settings page loads once, when the program starts.
Init ==
    /\ agent \in PfAgent
    /\ prefs = DefaultSettings /\ switch = DefaultAutoSwitch
    /\ flag = prefs.restore
    /\ page = [settings |-> ZeroSettings, auto |-> ZeroAutoSwitch]
    /\ list = ZeroAutoSwitch
    /\ request = [r \in 1..PfSlots |-> IF r = 1 THEN [NoRequest EXCEPT !.at = "sent"]
                                       ELSE NoRequest]
    /\ edits = 0 /\ faults = 0
    /\ clash = FALSE

-----------------------------------------------------------------------------
(* The pages. *)

Ask(q) ==
    \E r \in 1..PfSlots :
        /\ request[r].at = "none"
        /\ request' = [request EXCEPT ![r] = q]

Saving == {r \in 1..PfSlots : request[r].kind = "save" /\ request[r].at # "none"}

\* A write made while another is on its way starts from a copy that is not the
\* stored one, or overtakes it.
Edit(q) ==
    /\ edits < PfMaxEdits /\ edits' = edits + 1
    /\ Ask(q)
    /\ clash' = (clash \/ (q.kind = "save" /\ Saving # {}))
    /\ UNCHANGED <<agent, prefs, switch, flag, page, list, faults>>

Save(v) == [NoRequest EXCEPT !.at = "sent", !.kind = "save", !.body = v]
Switch(v, who) == [NoRequest EXCEPT !.at = "sent", !.kind = "switch", !.auto = v, !.from = who]

ClampedPoll(n) == IF n < 1 THEN 1 ELSE IF n > PfMaxPoll THEN PfMaxPoll ELSE n
OtherPolicy(p) == IF p = "rr" THEN "lru" ELSE "rr"

\* Left or right on the row of the poll interval, of the restore flag.
SettingsPageSaves ==
    \E v \in {[page.settings EXCEPT !.poll = ClampedPoll(@ + 1)],
              [page.settings EXCEPT !.poll = IF @ = 0 THEN 1 ELSE ClampedPoll(@ - 1)],
              [page.settings EXCEPT !.restore = ~@]} :
        Edit(Save(v))

SettingsPageSwitches ==
    \E v \in {[page.auto EXCEPT !.enabled = ~@], [page.auto EXCEPT !.policy = OtherPolicy(@)]} :
        Edit(Switch(v, "page"))

\* A and P of the Accounts page.
AccountsPageSwitches ==
    \E v \in {[list EXCEPT !.enabled = ~@], [list EXCEPT !.policy = OtherPolicy(@)]} :
        Edit(Switch(v, "list"))

\* The desktop sends the field that was changed, and names it.
DesktopPatches ==
    \E q \in {[Save([ZeroSettings EXCEPT !.look = "dark"]) EXCEPT !.from = "look"],
              [Save([ZeroSettings EXCEPT !.poll = 1]) EXCEPT !.from = "poll"],
              [Save([ZeroSettings EXCEPT !.restore = FALSE]) EXCEPT !.from = "restore"]} :
        Edit(q)

\* The Accounts page asks again every five seconds.
Refresh ==
    /\ \A r \in 1..PfSlots : request[r].kind = "refresh" => request[r].at = "none"
    /\ Ask([NoRequest EXCEPT !.at = "sent", !.kind = "refresh"])
    /\ UNCHANGED <<agent, prefs, switch, flag, page, list,
                   edits, faults, clash>>

-----------------------------------------------------------------------------
(* The daemon. *)

\* mergeSettingsDefaults: a Boolean has no zero to tell from an answer.
Merged(v) ==
    [v EXCEPT !.look = IF @ = "" THEN DefaultSettings.look ELSE @,
              !.poll = IF @ = 0 THEN DefaultSettings.poll ELSE ClampedPoll(@)]

\* (mutant: an agent stores what it was sent, too)
PatchedWhole(q) == q.body

\* What the body leaves out keeps its value on an agent, and is zero in the
\* record a combined daemon decodes into.
Patched(q) ==
    IF ~agent \/ q.from = "page" THEN q.body
    ELSE [prefs EXCEPT !.look = IF q.from = "look" THEN q.body.look ELSE @,
                       !.poll = IF q.from = "poll" THEN q.body.poll ELSE @,
                       !.restore = IF q.from = "restore" THEN q.body.restore ELSE @]

Serving(r, kind) == request[r].at = "sent" /\ request[r].kind = kind

\* An agent reads what it has, and decodes over it.
ReadCurrent(r) ==
    /\ Serving(r, "save")
    /\ request' = [request EXCEPT ![r].at = "read", ![r].body = Patched(request[r])]
    /\ UNCHANGED <<agent, prefs, switch, flag, page, list,
                   edits, faults, clash>>

SetSettings(r) ==
    /\ request[r].at = "read"
    /\ prefs' = Merged(request[r].body)
    /\ request' = [request EXCEPT ![r].at = "stored", ![r].body = Merged(request[r].body)]
    /\ UNCHANGED <<agent, switch, flag, page, list,
                   edits, faults, clash>>

\* (mutant: the flag is left to the next start)
SetRestoreOnQuitLater(r) ==
    /\ request[r].at = "stored"
    /\ request' = [request EXCEPT ![r].at = "answered", ![r].ok = TRUE]
    /\ UNCHANGED <<agent, prefs, switch, flag, page, list,
                   edits, faults, clash>>

SetRestoreOnQuit(r) ==
    /\ request[r].at = "stored"
    /\ flag' = request[r].body.restore
    /\ request' = [request EXCEPT ![r].at = "answered", ![r].ok = TRUE]
    /\ UNCHANGED <<agent, prefs, switch, page, list,
                   edits, faults, clash>>

\* An empty policy is the default one: a combined daemon stores it so, an agent
\* answers so when it is asked.
WithPolicy(v) == [v EXCEPT !.policy = IF @ = "" THEN DefaultAutoSwitch.policy ELSE @]

SetAutoSwitch(r) ==
    /\ Serving(r, "switch")
    /\ switch' = WithPolicy(request[r].auto)
    /\ request' = [request EXCEPT ![r] = [@ EXCEPT !.at = "answered", !.ok = TRUE,
                     !.auto = IF agent THEN request[r].auto ELSE WithPolicy(request[r].auto)]]
    /\ UNCHANGED <<agent, prefs, flag, page, list,
                   edits, faults, clash>>

Get(r) ==
    /\ Serving(r, "load") \/ Serving(r, "refresh")
    /\ request' = [request EXCEPT ![r] = [@ EXCEPT !.at = "answered", !.ok = TRUE,
                                                   !.auto = switch,
                     !.body = IF request[r].kind = "load" THEN prefs ELSE request[r].body]]
    /\ UNCHANGED <<agent, prefs, switch, flag, page, list,
                   edits, faults, clash>>

\* A request fails before it changed anything, or its answer comes too late.
Fail(r) ==
    /\ request[r].at = "sent" \/ request[r].ok
    /\ faults < PfMaxFaults /\ faults' = faults + 1
    /\ request' = [request EXCEPT ![r] = [NoRequest EXCEPT !.at = "answered", !.kind = request[r].kind]]
    /\ UNCHANGED <<agent, prefs, switch, flag, page, list, edits, clash>>

\* The flag is read when the daemon starts (as is the poller's interval); what it
\* was doing fails.
Restart ==
    /\ faults < PfMaxFaults /\ faults' = faults + 1
    /\ request' = [r \in 1..PfSlots |->
                     IF request[r].at \in {"none", "answered"} THEN request[r]
                     ELSE [NoRequest EXCEPT !.at = "answered", !.kind = request[r].kind]]
    /\ flag' = prefs.restore
    /\ UNCHANGED <<agent, prefs, switch, page, list, edits, clash>>

-----------------------------------------------------------------------------
(* The answers. *)

\* onLoaded and onSaved: the page takes over what the daemon echoes.  The
\* Accounts page's own writes are not echoed to the Settings page; an answer
\* to the desktop goes to the desktop.
PageAfter(q) ==
    IF ~q.ok THEN page
    ELSE CASE q.kind = "load" -> [settings |-> q.body, auto |-> q.auto]
           [] q.kind = "save" /\ q.from = "page" -> [page EXCEPT !.settings = q.body]
           [] q.kind = "switch" /\ q.from = "page" -> [page EXCEPT !.auto = q.auto]
           [] OTHER -> page

\* A refresh whose first calls fail leaves the list; one whose last call fails
\* brings it the zero value.
ListAfter(q) ==
    IF q.kind # "refresh" THEN {list}
    ELSE IF q.ok THEN {q.auto} ELSE {list, ZeroAutoSwitch}

Answered(r) ==
    /\ request[r].at = "answered"
    /\ page' = PageAfter(request[r])
    /\ list' \in ListAfter(request[r])
    /\ request' = [request EXCEPT ![r] = NoRequest]
    /\ UNCHANGED <<agent, prefs, switch, flag, edits, faults, clash>>

Serve(r) == ReadCurrent(r) \/ SetSettings(r) \/ SetRestoreOnQuit(r) \/ SetAutoSwitch(r) \/ Get(r)
User == SettingsPageSaves \/ SettingsPageSwitches \/ AccountsPageSwitches \/ DesktopPatches

Next ==
    \/ User \/ Refresh \/ Restart
    \/ \E r \in 1..PfSlots : Serve(r) \/ Fail(r) \/ Answered(r)

Spec == Init /\ [][Next]_vars
FairSpec ==
    /\ Spec /\ WF_vars(Refresh)
    /\ \A r \in 1..PfSlots : WF_vars(Serve(r) \/ Answered(r))

-----------------------------------------------------------------------------
(* Properties. *)

\* Every variable has its type; what is stored is within bounds, even when a
\* page that has not loaded yet sends its empty record.
PrefsTypeOK ==
    /\ agent \in BOOLEAN /\ flag \in BOOLEAN
    /\ prefs \in Settings /\ prefs.look # "" /\ prefs.poll > 0
    /\ switch \in AutoSwitch /\ switch.policy # ""
    /\ page \in [settings : Settings, auto : AutoSwitch] /\ list \in AutoSwitch

\* Between two writes the flag that shutdown reads is the stored one, through
\* failures and restarts, unless two writes of the settings were under way at
\* once: storing and flagging are two steps, and their orders may differ.
FlagFollowsUnlessClash ==
    ~clash /\ (\A r \in 1..PfSlots : request[r].at # "stored") => flag = prefs.restore

\* An agent that is sent one field changes no other, unless two writes were
\* under way at once: it reads, and writes the whole record.
PatchKeepsTheRest ==
    [][agent /\ ~clash /\ prefs' # prefs =>
         \E r \in 1..PfSlots : request[r].at = "read" /\
           \A f \in {"look", "poll", "restore"} \ {request[r].from} :
             request[r].from = "page" \/ prefs'[f] = prefs[f]]_vars

\* With the user idle, the Accounts page comes to show the stored auto-switch:
\* A and P start from it.
ListCatchesUp == <>[](list = switch)

\* "so a partial PUT body ... lands on a coherent value rather than a half-zeroed
\* struct" (store.go:1416): a field the desktop did not send keeps its value or
\* becomes the default.
MissingIsDefault ==
    [][prefs' # prefs => \E r \in 1..PfSlots : request[r].at = "read" /\
         \A f \in {"look", "poll", "restore"} \ {request[r].from} :
           request[r].from = "page" \/ prefs'[f] \in {prefs[f], DefaultSettings[f]}]_vars

\* What holds of every state: stored values are within bounds, and the flag is
\* the stored one.
PrefsInv == PrefsTypeOK /\ FlagFollowsUnlessClash

=============================================================================
