---------------------------- MODULE ActivityFeed ----------------------------
(***************************************************************************)
(* The activity log of the daemon: emitters that write an event to the     *)
(* table and then to the ring, an event stream that replays what a client  *)
(* missed and then follows the bus, and the terminal's Activity page that  *)
(* polls the ring; one of the two readers per behaviour.                   *)
(*                                                                         *)
(* An event is its id, the rowid the table gave it; the events of FaErrors *)
(* are the ones the page's "Errors" chip keeps.                            *)
(***************************************************************************)
EXTENDS Naturals, Sequences, FiniteSets, SequencesExt

CONSTANTS
    FaEmitters, \* goroutines that emit
    FaErrors,   \* ids of events of a type "error.*"
    FaCapacity, \* RingCapacity
    FaLimit,    \* events of one replay or one page
    FaBuffer,   \* capacity of a subscriber's channel
    FaMaxEvents, FaMaxConnects, FaMaxCrashes, FaMaxKeys, \* bounds
    FaLoads     \* bound: loads of the page in flight

VARIABLES
    table,    \* ids of the rows
    lastRow,  \* the AUTOINCREMENT counter
    ring,     \* the bus's ring, newest at the end
    emitter,  \* what a goroutine in Emit is about to do
    stream,   \* the stream's handler: backlog to write, channel, subscription
    client,   \* the client of the stream: Last-Event-ID, connections opened
    page,     \* the Activity page: chip, events, cursor
    load,     \* the page's requests and answers in flight
    watcher,  \* who follows the feed: "stream" or "page"; never changes
    up, crashes, keys,
    appended, \* history: ids that have been in the ring
    seen,     \* history: ids this connection delivered, in order
    ever,     \* history: ids the client received
    excused   \* history: ids the stream lost for a reason it has (see Window)

history == <<appended, seen, ever, excused>>
vars == <<table, lastRow, ring, emitter, stream, client, page, load, watcher, up, crashes, keys, history>>

Resting == [at |-> "idle", id |-> 0, to |-> 0]
NoStream == [at |-> "closed", backlog |-> <<>>, chan |-> <<>>, sub |-> 0]
NoLoad == [at |-> "none", errors |-> FALSE, events |-> <<>>]

Init ==
    /\ table = {} /\ lastRow = 0 /\ ring = <<>>
    /\ emitter = [e \in FaEmitters |-> Resting]
    /\ stream = NoStream
    /\ client = [last |-> 0, connects |-> 0]
    /\ page = [errors |-> FALSE, events |-> <<>>, cursor |-> 0, failed |-> FALSE]
    /\ load = [l \in 1..FaLoads |-> NoLoad]
    /\ watcher \in {"stream", "page"}
    /\ up = TRUE /\ crashes = 0 /\ keys = 0
    /\ appended = {} /\ seen = <<>> /\ ever = {} /\ excused = {}

-----------------------------------------------------------------------------
(* Emit: three statements and a lock, none of them together. *)

\* The newest RingCapacity rows.
Kept(rows) == {i \in rows : Cardinality({j \in rows : j > i}) < FaCapacity}

\* The members of a set of numbers, in ascending order.
InOrder(S) ==
    [n \in 1..Cardinality(S) |-> CHOOSE i \in S : Cardinality({j \in S : j < i}) = n - 1]

LastOf(s, n) == IF Len(s) <= n THEN s ELSE SubSeq(s, Len(s) - n + 1, Len(s))

Insert(e) ==
    /\ up /\ emitter[e].at = "idle" /\ lastRow < FaMaxEvents
    /\ lastRow' = lastRow + 1
    /\ table' = table \cup {lastRow + 1}
    /\ emitter' = [emitter EXCEPT ![e] = [at |-> "inserted", id |-> lastRow + 1, to |-> 0]]
    /\ UNCHANGED <<watcher, ring, stream, client, page, load, up, crashes, keys, history>>

\* A trim that fails is logged; the next one does its work.
Trim(e) ==
    /\ emitter[e].at = "inserted"
    /\ table' \in {Kept(table), table}
    /\ emitter' = [emitter EXCEPT ![e].at = "trimmed"]
    /\ UNCHANGED <<watcher, lastRow, ring, stream, client, page, load, up, crashes, keys, history>>

\* The client has received a newer event.
Overtaken(id) == \E i \in ever : i > id

\* What is appended now is in nobody's replay and on nobody's channel: the
\* stream has listed the ring and has not subscribed, or the client has no
\* Last-Event-ID to ask for a replay with.  And an event appended after a newer
\* one stands behind it.
Window(id) ==
    \/ stream.at = "replaying"
    \/ client.last = 0 /\ stream.at # "live"
    \/ Overtaken(id)
    \/ \E i \in DOMAIN ring : ring[i] > id

AppendRing(e) ==
    LET id == emitter[e].id IN
    /\ emitter[e].at = "trimmed"
    /\ ring' = LastOf(ring \o <<id>>, FaCapacity)
    /\ emitter' = [emitter EXCEPT ![e] = [@ EXCEPT !.at = "sending", !.to = stream.sub]]
    /\ appended' = appended \cup {id}
    /\ excused' = IF Window(id) THEN excused \cup {id} ELSE excused
    /\ UNCHANGED <<watcher, table, lastRow, stream, client, page, load, up, crashes, keys, seen, ever>>

\* (mutant: the subscribers are read after the ring is unlocked)
SendToPresent(e) ==
    LET full == Len(stream.chan) >= FaBuffer IN
    /\ emitter[e].at = "sending"
    /\ stream' = IF stream.sub # 0 /\ ~full
                 THEN [stream EXCEPT !.chan = Append(@, emitter[e].id)] ELSE stream
    /\ emitter' = [emitter EXCEPT ![e] = Resting]
    /\ UNCHANGED <<watcher, table, lastRow, ring, client, page, load, up, crashes, keys, history>>

\* The send never blocks: a full channel loses the event, and so does one whose
\* stream has ended.  A channel that already holds a newer event, or has passed
\* it on, gets this one out of order.
Send(e) ==
    LET id == emitter[e].id
        open == emitter[e].to # 0 /\ stream.sub = emitter[e].to
        full == Len(stream.chan) >= FaBuffer
        late == Overtaken(id) \/ \E i \in DOMAIN stream.chan : stream.chan[i] > id
    IN
    /\ emitter[e].at = "sending"
    /\ stream' = IF open /\ ~full THEN [stream EXCEPT !.chan = Append(@, id)] ELSE stream
    /\ excused' = IF emitter[e].to # 0 /\ (late \/ IF open THEN full ELSE client.last = 0)
                  THEN excused \cup {id} ELSE excused
    /\ emitter' = [emitter EXCEPT ![e] = Resting]
    /\ UNCHANGED <<watcher, table, lastRow, ring, client, page, load, up, crashes, keys, appended, seen, ever>>

-----------------------------------------------------------------------------
(* List and the event stream. *)

\* Bus.List, oldest first.
List(since, errors) ==
    LET wanted == InOrder({i \in DOMAIN ring :
                             ring[i] > since /\ (errors => ring[i] \in FaErrors)})
    IN  LastOf([n \in DOMAIN wanted |-> ring[wanted[n]]], FaLimit)

\* The client asks for what follows the last event it received; an event that
\* has left the ring, or does not fit in one replay, is not in it.
Connect ==
    /\ up /\ watcher = "stream" /\ stream.at = "closed"
    /\ client.connects < FaMaxConnects
    /\ client' = [client EXCEPT !.connects = @ + 1]
    /\ stream' = [NoStream EXCEPT !.at = "replaying",
                                  !.backlog = IF client.last = 0 THEN <<>>
                                              ELSE List(client.last, FALSE)]
    /\ excused' = excused \cup (IF client.last = 0 THEN {} ELSE
                                appended \ ToSet(LastOf(ring, FaLimit)))
    /\ seen' = <<>>
    /\ UNCHANGED <<watcher, table, lastRow, ring, emitter, page, load, up, crashes, keys, appended, ever>>

Receive(id) ==
    /\ client' = [client EXCEPT !.last = id]
    /\ seen' = Append(seen, id) /\ ever' = ever \cup {id}

WriteBacklog ==
    /\ stream.at = "replaying" /\ stream.backlog # <<>>
    /\ Receive(Head(stream.backlog))
    /\ stream' = [stream EXCEPT !.backlog = Tail(@)]
    /\ UNCHANGED <<watcher, table, lastRow, ring, emitter, page, load, up, crashes, keys, appended, excused>>

Subscribe ==
    /\ stream.at = "replaying" /\ stream.backlog = <<>>
    /\ stream' = [stream EXCEPT !.at = "live", !.sub = client.connects]
    /\ UNCHANGED <<watcher, table, lastRow, ring, emitter, client, page, load, up, crashes, keys, history>>

WriteLive ==
    /\ stream.at = "live" /\ stream.chan # <<>>
    /\ Receive(Head(stream.chan))
    /\ stream' = [stream EXCEPT !.chan = Tail(@)]
    /\ UNCHANGED <<watcher, table, lastRow, ring, emitter, page, load, up, crashes, keys, appended, excused>>

\* What was on its way to a client without a Last-Event-ID is not replayed to it.
Unsent == IF client.last = 0 THEN appended ELSE {}

Disconnect ==
    /\ stream.at # "closed"
    /\ stream' = NoStream
    /\ excused' = excused \cup Unsent
    /\ UNCHANGED <<watcher, table, lastRow, ring, emitter, client, page, load, up, crashes, keys, appended, seen, ever>>

-----------------------------------------------------------------------------
(* The Activity page. *)

\* A load is issued by a tick, by R, and by a change of chip.
Load(errors) ==
    /\ watcher = "page"
    /\ \E l \in 1..FaLoads :
          /\ load[l].at = "none"
          /\ load' = [load EXCEPT ![l] = [NoLoad EXCEPT !.at = "asked", !.errors = errors]]

Tick ==
    /\ Load(page.errors)
    /\ UNCHANGED <<watcher, table, lastRow, ring, emitter, stream, client, page, up, crashes, keys, history>>

ChangeChip ==
    /\ keys < FaMaxKeys /\ keys' = keys + 1
    /\ page' = [page EXCEPT !.errors = ~@, !.cursor = 0]
    /\ Load(page'.errors)
    /\ UNCHANGED <<watcher, table, lastRow, ring, emitter, stream, client, up, crashes, history>>

MoveDown ==
    /\ keys < FaMaxKeys /\ keys' = keys + 1
    /\ page.cursor < Len(page.events) - 1
    /\ page' = [page EXCEPT !.cursor = @ + 1]
    /\ UNCHANGED <<watcher, table, lastRow, ring, emitter, stream, client, load, up, crashes, history>>

\* Newest first; a daemon that is down is an error.
Answer(l) ==
    /\ load[l].at = "asked"
    /\ load' = [load EXCEPT ![l] =
                  IF up THEN [@ EXCEPT !.at = "listed", !.events = List(0, load[l].errors)]
                  ELSE [@ EXCEPT !.at = "failed"]]
    /\ UNCHANGED <<watcher, table, lastRow, ring, emitter, stream, client, page, up, crashes, keys, history>>

\* The answer to a chip the user has left is dropped.
OnLoaded(p, m) ==
    IF m.errors # p.errors THEN p
    ELSE IF m.at = "failed" THEN [p EXCEPT !.failed = TRUE]
    ELSE [p EXCEPT !.events = m.events, !.failed = FALSE,
                   !.cursor = IF @ >= Len(m.events) THEN 0 ELSE @]

Loaded(l) ==
    /\ load[l].at \in {"listed", "failed"}
    /\ page' = OnLoaded(page, load[l])
    /\ load' = [load EXCEPT ![l] = NoLoad]
    /\ UNCHANGED <<watcher, table, lastRow, ring, emitter, stream, client, up, crashes, keys, history>>

-----------------------------------------------------------------------------
(* The daemon. *)

Crash ==
    /\ up /\ crashes < FaMaxCrashes
    /\ crashes' = crashes + 1
    /\ up' = FALSE /\ ring' = <<>> /\ stream' = NoStream
    /\ emitter' = [e \in FaEmitters |-> Resting]
    /\ excused' = excused \cup Unsent \cup {emitter[e].id : e \in FaEmitters}
    /\ UNCHANGED <<watcher, table, lastRow, client, page, load, keys, appended, seen, ever>>

\* hydrate: the newest rows, oldest first.
Restart ==
    /\ ~up /\ up' = TRUE
    /\ ring' = InOrder(Kept(table))
    /\ appended' = appended \cup Kept(table)
    /\ excused' = excused \cup {i \in Kept(table) \ appended : client.last = 0 \/ Overtaken(i)}
    /\ UNCHANGED <<watcher, table, lastRow, emitter, stream, client, page, load, crashes, keys, seen, ever>>

Emit(e) == Insert(e) \/ Trim(e) \/ AppendRing(e) \/ Send(e)
Serve == WriteBacklog \/ Subscribe \/ WriteLive
Show == Tick \/ \E l \in 1..FaLoads : Answer(l) \/ Loaded(l)
User == ChangeChip \/ MoveDown
Fault == Disconnect \/ Crash

Next ==
    \/ \E e \in FaEmitters : Emit(e)
    \/ Connect \/ Serve \/ Show \/ User \/ Fault \/ Restart

Fairness ==
    /\ \A e \in FaEmitters : WF_vars(Trim(e) \/ AppendRing(e) \/ Send(e))
    /\ WF_vars(Serve) /\ WF_vars(Restart) /\ WF_vars(Tick)
    /\ \A l \in 1..FaLoads : WF_vars(Answer(l) \/ Loaded(l))

Spec == Init /\ [][Next]_vars
FairSpec == Spec /\ Fairness

-----------------------------------------------------------------------------
(* Properties. *)

\* Every variable has its type.
FeedTypeOK ==
    /\ table \subseteq 1..lastRow /\ lastRow \in 0..FaMaxEvents
    /\ ToSet(ring) \subseteq 1..lastRow
    /\ emitter \in [FaEmitters -> [at : {"idle", "inserted", "trimmed", "sending"},
                                   id : 0..lastRow, to : 0..FaMaxConnects]]
    /\ stream.at \in {"closed", "replaying", "live"}
    /\ client \in [last : 0..lastRow, connects : 0..FaMaxConnects]
    /\ page.cursor = 0 \/ page.cursor < Len(page.events)

\* One connection never delivers an event twice: what the replay listed was in
\* the ring before the stream subscribed, and what the channel carries was not.
AtMostOnce ==
    LET all == seen \o stream.backlog \o stream.chan
    IN  \A i, j \in DOMAIN all : i # j => all[i] # all[j]

\* The newest RingCapacity events the table was given are in it, however the
\* trims of several emitters interleave: a restart finds them.
NewestPersist == \A i \in 1..lastRow : i + FaCapacity > lastRow => i \in table

\* An event older than one the client received was received too, unless it was
\* appended between the replay and the subscription or while the client had
\* nothing to resume from, was overtaken by a newer one before it was appended or
\* sent, found the channel full, had left the ring when the client came back, or
\* is still to be sent.
MissedForAReason ==
    \A i \in appended : Overtaken(i) =>
        i \in excused \cup ever \cup {emitter[e].id : e \in FaEmitters}

\* With the events written and the user idle, the Activity page comes to show
\* the events of its chip and keeps showing them.
PageCatchesUp == watcher = "page" => <>[](page.events = List(0, page.errors))

\* What holds of every state: events are kept, delivered once, and missed only
\* for the reasons there are.
FeedInv ==
    /\ FeedTypeOK
    /\ AtMostOnce
    /\ NewestPersist
    /\ MissedForAReason

=============================================================================
