----------------------------- MODULE MCConsole ------------------------------
(***************************************************************************)
(* Instances for TLC of the three modules about the daemon's console: the  *)
(* settings, the activity feed and the accounts, each with the page of the *)
(* terminal that shows it.  They share no state, so that a behaviour moves *)
(* one of them and leaves the others where they began.                     *)
(***************************************************************************)
EXTENDS Preferences, TLC

CONSTANTS e1, e2,
          FaEmitters, FaErrors, FaCapacity, FaLimit, FaBuffer, FaMaxEvents, FaMaxConnects,
          FaMaxCrashes, FaMaxKeys, FaLoads,
          ApIds, ApFirst, ApQueries, ApAgent, ApOps, ApLoads, ApMaxKeys, ApMaxOthers, ApMaxLost

VARIABLES part, \* the module that moves
          table, lastRow, ring, emitter, stream, client, events, poll, watcher, up, crashes,
          keys, appended, seen, ever, excused,
          apAgent, rows, held, all, ui, op, load, apKeys, others, lost, asked

F == INSTANCE ActivityFeed WITH page <- events, load <- poll
A == INSTANCE AccountsPage

ASSUME FeedAssumption ==
    {FaCapacity, FaLimit, FaBuffer, FaMaxEvents, FaMaxConnects, FaMaxCrashes, FaMaxKeys, FaLoads}
        \subseteq Nat

ASSUME AccountsAssumption ==
    /\ ApIds \subseteq Nat \ {0} /\ IsFiniteSet(ApIds)
    /\ ApQueries \subseteq SUBSET ApIds /\ ApAgent \subseteq BOOLEAN
    /\ {ApOps, ApLoads, ApMaxKeys, ApMaxOthers, ApMaxLost} \subseteq Nat

feed == <<table, lastRow, ring, emitter, stream, client, events, poll, watcher, up, crashes,
          keys, appended, seen, ever, excused>>
accounts == <<apAgent, rows, held, all, ui, op, load, apKeys, others, lost, asked>>

ConsoleInit ==
    /\ part \in {"settings", "activity", "accounts"}
    /\ Init /\ F!Init /\ A!Init
    /\ part # "settings" => ~agent
    /\ part # "activity" => watcher = "page"
    /\ part # "accounts" => ~apAgent /\ rows[2] = "none"

ConsoleNext ==
    \/ part = "settings" /\ Next /\ UNCHANGED <<part, feed, accounts>>
    \/ part = "activity" /\ F!Next /\ UNCHANGED <<part, vars, accounts>>
    \/ part = "accounts" /\ A!Next /\ UNCHANGED <<part, vars, feed>>

\* The fairness of each module, while it is the one that moves.
ConsoleSpec ==
    /\ ConsoleInit /\ [][ConsoleNext]_<<part, vars, feed, accounts>>
    /\ WF_vars(part = "settings" /\ Refresh)
    /\ \A r \in 1..PfSlots : WF_vars(part = "settings" /\ (Serve(r) \/ Answered(r)))
    /\ \A e \in FaEmitters :
           WF_feed(part = "activity" /\ (F!Trim(e) \/ F!AppendRing(e) \/ F!Send(e)))
    /\ WF_feed(part = "activity" /\ F!Serve)
    /\ WF_feed(part = "activity" /\ F!Restart)
    /\ WF_feed(part = "activity" /\ F!Tick)
    /\ \A l \in 1..FaLoads : WF_feed(part = "activity" /\ (F!Answer(l) \/ F!Loaded(l)))
    /\ \A o \in 1..ApOps :
           /\ WF_accounts(part = "accounts" /\ A!ServeOp(o))
           /\ WF_accounts(part = "accounts" /\ A!OnAnswer(o))
    /\ \A l \in 1..ApLoads :
           /\ WF_accounts(part = "accounts" /\ A!RunLoad(l))
           /\ WF_accounts(part = "accounts" /\ A!OnAccounts(l))
    /\ WF_accounts(part = "accounts" /\ A!Tick)

FeedInv == F!FeedInv
AccountsInv == A!AccountsInv

\* With nobody changing anything, each page comes to show what the daemon has, in
\* the behaviours that move it.
PagesCatchUp ==
    /\ part = "settings" => ListCatchesUp
    /\ part = "activity" => F!PageCatchesUp
    /\ part = "accounts" => A!PageSettles
=============================================================================
