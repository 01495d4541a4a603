---------------------------- MODULE AccountsPage ----------------------------
(***************************************************************************)
(* The Accounts page of the terminal program over the accounts of its      *)
(* daemon.  The page works on a copy of the list that a poll renews every  *)
(* five seconds; each request is a goroutine of its own, carries the id of *)
(* the account it was made for, and is answered in any order, while other  *)
(* administrators, devices and the token scheduler change the accounts.    *)
(***************************************************************************)
EXTENDS Naturals, FiniteSets

CONSTANTS
    ApIds,     \* account ids, 1..n
    ApFirst,   \* the accounts there are at the start, in some run of it
    ApQueries, \* sets of accounts a search can match
    ApAgent,   \* subset of BOOLEAN: is the daemon an agent?
    ApOps, ApLoads, \* bounds: requests of each kind in flight
    ApMaxKeys, ApMaxOthers, ApMaxLost \* bounds: keys, acts of others, failed requests

VARIABLES
    apAgent,  \* never changes
    rows,     \* id -> status of the account; "gone" is deleted, "none" not yet there
    held,     \* accounts leased by another device
    all,      \* the page's copy of the two (allAccounts)
    ui,       \* the page: mode, cursor, filter, query, threshold subject, busy, disabled
    op, load, \* slot -> request
    apKeys, others, lost,
    asked     \* history: what the user asked of which account, while it was shown

apVars == <<apAgent, rows, held, all, ui, op, load, apKeys, others, lost, asked>>

\* "active" and "cooling" are both stored as active; an account is cooling while
\* its usage is at a threshold.
Statuses == {"none", "active", "cooling", "paused", "reauth", "gone"}
Present(row) == {i \in ApIds : row[i] \notin {"none", "gone"}}
Eligible == {i \in ApIds : rows[i] = "active"}

Chips == <<"all", "active", "paused", "cooling">>
Modes == {"list", "paste", "confirm", "search", "thresholds"}
AdminOps == {"delete", "pause", "resume", "thresholds", "login", "callback"}
OpKinds == AdminOps \cup {"select", "refresh"}

NoOp == [at |-> "none", kind |-> "select", id |-> 0, ok |-> FALSE]
Nothing == [row |-> [i \in ApIds |-> "none"], held |-> {}]
NoLoad == [at |-> "none", ok |-> FALSE, seen |-> Nothing]

Init ==
    /\ apAgent \in ApAgent
    /\ \E first \in ApFirst : rows = [i \in ApIds |-> IF i \in first THEN "active" ELSE "none"]
    /\ held = {}
    /\ all = Nothing
    /\ ui = [mode |-> "list", cursor |-> 0, chip |-> 1, query |-> ApIds, subject |-> 0,
             busy |-> FALSE, disabled |-> FALSE]
    /\ op = [o \in 1..ApOps |-> NoOp]
    /\ load = [l \in 1..ApLoads |-> IF l = 1 THEN [NoLoad EXCEPT !.at = "sent"] ELSE NoLoad]
    /\ apKeys = 0 /\ others = 0 /\ lost = 0
    /\ asked = {}

-----------------------------------------------------------------------------
(* What the page shows. *)

Filtered(a, chip) ==
    {i \in Present(a.row) : Chips[chip] = "all" \/ a.row[i] = Chips[chip]}

\* The chip, and the search over it; rows are shown in the order of their ids.
Visible(a, u) == Filtered(a, u.chip) \cap u.query
Shown == Visible(all, ui)

\* The account of the row with index c, in a set of at most one.
RowAt(shown, c) == {i \in shown : Cardinality({j \in shown : j < i}) = c}
Selected == RowAt(Shown, ui.cursor)

\* The list may have become shorter than the cursor.
Clamped(u, a) ==
    LET n == Cardinality(Visible(a, u))
    IN  [u EXCEPT !.cursor = IF @ < n THEN @ ELSE IF n = 0 THEN 0 ELSE n - 1]

-----------------------------------------------------------------------------
(* Keys and clicks. *)

Key(mode) == ui.mode = mode /\ apKeys < ApMaxKeys /\ apKeys' = apKeys + 1
Server == <<apAgent, rows, held>>

Ask(kind, i) ==
    /\ \E o \in 1..ApOps :
           /\ op[o].at = "none"
           /\ op' = [op EXCEPT ![o] = [NoOp EXCEPT !.at = "sent", !.kind = kind, !.id = i]]

\* startOp: the row shows that it is busy until some operation is answered.
StartOp(kind, i, u) ==
    /\ Ask(kind, i)
    /\ asked' = asked \cup {<<kind, i>>}
    /\ ui' = [u EXCEPT !.busy = TRUE]
    /\ UNCHANGED <<Server, all, load, others, lost>>

Shows(u) == ui' = u /\ UNCHANGED <<Server, all, op, load, others, lost, asked>>

\* Arrows, g and G, the wheel, and a click on a row.
MoveCursor ==
    /\ Key("list")
    /\ \E i \in Shown : Shows([ui EXCEPT !.cursor = Cardinality({j \in Shown : j < i})])

CycleFilter ==
    /\ Key("list")
    /\ \E step \in {1, 3} :
           Shows([ui EXCEPT !.chip = ((@ + step - 1) % 4) + 1, !.cursor = 0])

\* An account another device holds is not asked for.
UseSelected ==
    /\ Key("list")
    /\ \E i \in Selected \ all.held : StartOp("select", i, ui)

RefreshSelected ==
    /\ Key("list")
    /\ \E i \in Selected : StartOp("refresh", i, ui)

PauseSelected ==
    /\ Key("list") /\ ~ui.disabled
    /\ \E i \in Selected :
           StartOp(IF all.row[i] = "paused" THEN "resume" ELSE "pause", i, ui)

AskDelete ==
    /\ Key("list") /\ ~ui.disabled
    /\ Selected # {}
    /\ Shows([ui EXCEPT !.mode = "confirm"])

\* The dialog names, and the key takes, the account that is under the cursor by now.
ConfirmDelete ==
    /\ Key("confirm")
    /\ \/ \E i \in Selected : StartOp("delete", i, [ui EXCEPT !.mode = "list"])
       \/ Selected = {} /\ Shows([ui EXCEPT !.mode = "list"])

AskLogin ==
    /\ Key("list") /\ ~ui.disabled
    /\ Ask("login", 0)
    /\ UNCHANGED <<Server, all, ui, load, others, lost, asked>>

PasteCode ==
    /\ Key("paste")
    /\ StartOp("callback", 0, [ui EXCEPT !.mode = "list"])

OpenSearch == Key("list") /\ Shows([ui EXCEPT !.mode = "search"])

TypeSearch ==
    /\ Key("search")
    /\ \E q \in ApQueries : Shows(Clamped([ui EXCEPT !.query = q], all))

\* Enter keeps the query, Esc drops it.
CloseSearch ==
    /\ Key("search")
    /\ \E q \in {ui.query, ApIds} : Shows([ui EXCEPT !.mode = "list", !.query = q, !.cursor = 0])

\* The editor remembers the account, for the cursor may move under it.
EditThresholds ==
    /\ Key("list")
    /\ \E i \in Selected :
           /\ ui' = [ui EXCEPT !.mode = "thresholds", !.subject = i]
           /\ asked' = asked \cup {<<"thresholds", i>>}
           /\ UNCHANGED <<Server, all, op, load, others, lost>>

\* (mutant: the editor writes to the account under the cursor)
SaveThresholdsOfSelected ==
    /\ Key("thresholds")
    /\ \E i \in Selected : Ask("thresholds", i)
    /\ ui' = [ui EXCEPT !.mode = "list", !.busy = TRUE]
    /\ UNCHANGED <<Server, all, load, others, lost, asked>>

SaveThresholds ==
    /\ Key("thresholds")
    /\ Ask("thresholds", ui.subject)
    /\ ui' = [ui EXCEPT !.mode = "list", !.busy = TRUE]
    /\ UNCHANGED <<Server, all, load, others, lost, asked>>

Cancel ==
    /\ Key("confirm") \/ Key("paste") \/ Key("thresholds")
    /\ Shows([ui EXCEPT !.mode = "list"])

-----------------------------------------------------------------------------
(* The daemon. *)

\* Every operation writes one row, and an operation on a missing account nothing.
Written(kind, i, status) ==
    IF i \notin Present(rows) THEN {"none", "gone"} \cap {rows[i]}
    ELSE CASE kind = "delete" -> {"gone"}
           [] kind = "pause" -> {"paused"}
           [] kind = "resume" -> {"active", "cooling"}
           [] kind = "thresholds" -> IF status \in {"active", "cooling"}
                                     THEN {"active", "cooling"} ELSE {status}
           [] kind = "refresh" -> {status, "reauth"}
           [] OTHER -> {status}

Answered(o, ok) == op' = [op EXCEPT ![o].at = "done", ![o].ok = ok]

\* An agent forwards a selection and a refresh, and refuses what only an
\* administrator may do.
RefuseOp(o) ==
    /\ op[o].at = "sent"
    /\ \/ apAgent /\ op[o].kind \in AdminOps
       \/ op[o].kind = "select" /\ op[o].id \notin Eligible
       \/ op[o].kind = "refresh" /\ op[o].id \notin Present(rows)
       \/ op[o].kind = "callback"        \* the code is not of this login, or is refused
    /\ Answered(o, FALSE)
    /\ UNCHANGED <<apAgent, rows, held, all, ui, load, apKeys, others, lost, asked>>

\* A request that fails on the way may have been carried out.
RunOp(o) ==
    /\ op[o].at = "sent"
    /\ op[o].kind \notin {"login", "callback"}
    /\ ~(apAgent /\ op[o].kind \in AdminOps)
    /\ op[o].kind = "select" => op[o].id \in Eligible
    /\ op[o].kind = "refresh" => op[o].id \in Present(rows)
    /\ \E status \in Written(op[o].kind, op[o].id, rows[op[o].id]) :
           /\ rows' = [rows EXCEPT ![op[o].id] = status]
           /\ \/ Answered(o, op[o].kind = "refresh" => status # "reauth") /\ UNCHANGED lost
              \/ lost < ApMaxLost /\ lost' = lost + 1 /\ Answered(o, FALSE)
    /\ UNCHANGED <<apAgent, held, all, ui, load, apKeys, others, asked>>

StartLogin(o) ==
    /\ op[o].at = "sent" /\ op[o].kind = "login"
    /\ ~apAgent
    /\ Answered(o, TRUE)
    /\ UNCHANGED <<apAgent, rows, held, all, ui, load, apKeys, others, lost, asked>>

\* A login renews the account it is recognised as, or makes a new one.
FinishLogin(o) ==
    /\ op[o].at = "sent" /\ op[o].kind = "callback"
    /\ ~apAgent
    /\ \E i \in ApIds :
           /\ \/ i \in Present(rows)
              \/ rows[i] = "none" /\ \A j \in ApIds : j < i => rows[j] # "none"
           /\ rows' = [rows EXCEPT ![i] = IF @ = "cooling" THEN @ ELSE "active"]
    /\ Answered(o, TRUE)
    /\ UNCHANGED <<apAgent, held, all, ui, load, apKeys, others, lost, asked>>

\* The list with its leases, one consistent read.
RunLoad(l) ==
    /\ load[l].at = "sent"
    /\ \/ /\ load' = [load EXCEPT ![l] = [at |-> "done", ok |-> TRUE,
                                          seen |-> [row |-> rows, held |-> held]]]
          /\ UNCHANGED lost
       \/ /\ lost < ApMaxLost /\ lost' = lost + 1
          /\ load' = [load EXCEPT ![l].at = "done", ![l].ok = FALSE]
    /\ UNCHANGED <<apAgent, rows, held, all, ui, op, apKeys, others, asked>>

-----------------------------------------------------------------------------
(* Answers and ticks. *)

Reload ==
    \E l \in 1..ApLoads :
        /\ load[l].at = "none"
        /\ load' = [load EXCEPT ![l].at = "sent"]

\* The bound on loads is reached: the next tick makes up for it.
Loading == \A l \in 1..ApLoads : load[l].at # "none"

\* Five seconds have passed, whatever the mode; or the user pressed R.
\* (mutant: a dialog stops the poll)
TickInList ==
    /\ ui.mode = "list"
    /\ Reload
    /\ UNCHANGED <<Server, all, ui, op, apKeys, others, lost, asked>>

Tick ==
    /\ Reload
    /\ UNCHANGED <<Server, all, ui, op, apKeys, others, lost, asked>>

\* An error keeps the copy there was.
OnAccounts(l) ==
    /\ load[l].at = "done"
    /\ load' = [load EXCEPT ![l] = NoLoad]
    /\ \/ /\ load[l].ok
          /\ all' = load[l].seen
          /\ ui' = Clamped(ui, load[l].seen)
       \/ ~load[l].ok /\ UNCHANGED <<all, ui>>
    /\ UNCHANGED <<Server, op, apKeys, others, lost, asked>>

\* Success or not, the row is idle again, even if it waits for another operation.
OnOpResult(o) ==
    /\ op[o].at = "done" /\ op[o].kind # "login"
    /\ op' = [op EXCEPT ![o] = NoOp]
    /\ ui' = [ui EXCEPT !.busy = FALSE]
    /\ Reload \/ (Loading /\ UNCHANGED load)
    /\ UNCHANGED <<Server, all, apKeys, others, lost, asked>>

\* The dialog for the code opens over whatever is open.
OnLoginStart(o) ==
    /\ op[o].at = "done" /\ op[o].kind = "login"
    /\ op' = [op EXCEPT ![o] = NoOp]
    /\ ui' = [ui EXCEPT !.mode = IF op[o].ok THEN "paste" ELSE "list"]
    /\ UNCHANGED <<Server, all, load, apKeys, others, lost, asked>>

\* The first answer about the daemon says what it is.
OnDecision ==
    /\ apAgent /\ ~ui.disabled
    /\ ui' = [ui EXCEPT !.disabled = TRUE]
    /\ UNCHANGED <<Server, all, op, load, apKeys, others, lost, asked>>

-----------------------------------------------------------------------------
(* The others: a second administrator, the devices, usage and the tokens. *)

Others ==
    /\ others < ApMaxOthers /\ others' = others + 1
    /\ \/ /\ \E i \in Present(rows) :
                 \E status \in {"active", "cooling", "paused", "reauth", "gone"} \ {rows[i]} :
                     rows' = [rows EXCEPT ![i] = status]
          /\ UNCHANGED held
       \/ \E i \in Present(rows) :
             /\ held' = (held \ {i}) \cup ({i} \ held)
             /\ UNCHANGED rows
    /\ UNCHANGED <<apAgent, all, ui, op, load, apKeys, lost, asked>>

KeyPressed ==
    \/ MoveCursor \/ CycleFilter \/ UseSelected \/ RefreshSelected \/ PauseSelected
    \/ AskDelete \/ ConfirmDelete \/ AskLogin \/ PasteCode
    \/ OpenSearch \/ TypeSearch \/ CloseSearch
    \/ EditThresholds \/ SaveThresholds \/ Cancel

ServeOp(o) == RefuseOp(o) \/ RunOp(o) \/ StartLogin(o) \/ FinishLogin(o)
OnAnswer(o) == OnOpResult(o) \/ OnLoginStart(o)

Next ==
    \/ KeyPressed
    \/ \E o \in 1..ApOps : ServeOp(o) \/ OnAnswer(o)
    \/ \E l \in 1..ApLoads : RunLoad(l) \/ OnAccounts(l)
    \/ Tick \/ OnDecision \/ Others

Spec == Init /\ [][Next]_apVars

\* A handler returns, the program takes every message it is sent, and the ticker ticks.
Fairness ==
    /\ \A o \in 1..ApOps : WF_apVars(ServeOp(o)) /\ WF_apVars(OnAnswer(o))
    /\ \A l \in 1..ApLoads : WF_apVars(RunLoad(l)) /\ WF_apVars(OnAccounts(l))
    /\ WF_apVars(Tick)

FairSpec == Spec /\ Fairness

-----------------------------------------------------------------------------
(* Properties. *)

Copies == [row : [ApIds -> Statuses], held : SUBSET ApIds]
Pages ==
    [mode : Modes, cursor : 0..Cardinality(ApIds), chip : 1..4, query : SUBSET ApIds,
     subject : {0} \cup ApIds, busy : BOOLEAN, disabled : BOOLEAN]
Operations ==
    [at : {"none", "sent", "done"}, kind : OpKinds, id : {0} \cup ApIds, ok : BOOLEAN]
Loads == [at : {"none", "sent", "done"}, ok : BOOLEAN, seen : Copies]

ApTypeOK ==
    /\ apAgent \in BOOLEAN
    /\ rows \in [ApIds -> Statuses] /\ held \subseteq ApIds
    /\ all \in Copies /\ ui \in Pages
    /\ op \in [1..ApOps -> Operations] /\ load \in [1..ApLoads -> Loads]
    /\ apKeys \in 0..ApMaxKeys /\ others \in 0..ApMaxOthers /\ lost \in 0..ApMaxLost
    /\ asked \subseteq OpKinds \X ({0} \cup ApIds)

\* However the list shrinks, is filtered or is searched, the cursor is on a row
\* while there is one.
CursorOnRow == Shown # {} => Selected # {}

\* An operation is for the account the user saw when asking for it, whatever became
\* of the list and the cursor since.
OpsHitTheAsked ==
    \A o \in 1..ApOps :
        op[o].at = "sent" /\ op[o].kind # "login" => <<op[o].kind, op[o].id>> \in asked

\* Once nobody changes anything, the page shows the accounts there are, and no row
\* is busy for ever.
PageSettles ==
    <>[](all = [row |-> rows, held |-> held] /\ ~ui.busy)

\* What holds of every state: the cursor is on a row, and an operation is for the
\* account it was asked for.
AccountsInv ==
    /\ ApTypeOK
    /\ CursorOnRow
    /\ OpsHitTheAsked

=============================================================================
