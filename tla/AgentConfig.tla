----------------------------- MODULE AgentConfig -----------------------------
(***************************************************************************)
(* The agents that configure a harness of the device by what the vault     *)
(* grants it: openRouterWriter for Codex (config.toml and profile files),  *)
(* deepSeekWriter for the DeepSeek Harness (.credentials.yaml).  One of    *)
(* the two per behaviour.                                                  *)
(*                                                                         *)
(* A file is read, a temporary file is written, and renamed: three steps,  *)
(* between which the user may save the file and the daemon may die.  The   *)
(* user edits anything outside foxy's block.                               *)
(***************************************************************************)
EXTENDS DshConfig, CodexConfig

CONSTANTS
    Harnesses,  \* subset of {"codex", "dsh"}
    Keys,       \* keys the vault grants (positive integers)
    UserKeys,   \* keys of the user (positive integers)
    Models,     \* models of a grant (positive integers, in the order of names)
    Stem,       \* what a model's name is reduced to for a file name
    MaxGrants,  \* bound: changes of the grant
    MaxEdits,   \* bound: edits of the user
    MaxStops,   \* bound: ends of the daemon, and failures
    None

ASSUME AgentAssumption ==
    /\ Harnesses \subseteq {"codex", "dsh"}
    /\ Keys \subseteq Nat \ {0} /\ UserKeys \subseteq Nat \ {0}
    /\ Models \subseteq Nat \ {0} /\ Stem \in [Models -> Nat \ {0}]
    /\ {MaxGrants, MaxEdits, MaxStops} \subseteq Nat

VARIABLES
    harness, \* never changes
    granted, \* what the vault grants the device now
    file,    \* the harness's file
    tmp,     \* the temporary file
    profile, \* profile files, by name
    up,      \* the daemon: "up", "quitting" or "off"
    pc, job, next, todo, \* the sync under way: its step, its grant, the document to
             \* write, the models whose profile is not yet written
    mem,     \* the key in memory (dsh: that it is applied)
    grants, edits, stops, \* counters for the bounds
    mine,    \* history: the document as the user means it
    raced,   \* history: the user saved the file while it was being rewritten
    doubled  \* history: the user wrote a key of their own next to foxy's block

disk   == <<file, tmp, profile>>
sync   == <<pc, job, next, todo>>
daemon == <<up, sync, mem>>
bounds == <<grants, edits, stops>>
user   == <<mine, raced, doubled>>
vars   == <<harness, granted, disk, daemon, bounds, user>>

-----------------------------------------------------------------------------
(* The two harnesses. *)

IsDsh == harness = "dsh"
Names == {<<Stem[m], 0>> : m \in Models} \cup {<<0, m>> : m \in Models}
Name(m) == ProfileName(Stem, job.models, m)

Applicable(doc)   == IF IsDsh THEN Versioned(doc) ELSE BlockApplicable(doc)
Applied(doc, key) == IF IsDsh THEN ApplyBlock(doc, key) ELSE BlockApplied(doc, key)
Removed(doc)      == IF IsDsh THEN RefRemoved(doc) ELSE BlockRemoved(doc)

\* The line of foxy's block that has the key.
BlockKey(doc) ==
    {doc[i].key : i \in {j \in Lines(doc, IF IsDsh THEN "ref" ELSE "provider") :
        \E b \in Lines(doc, "begin"), e \in Lines(doc, "end") : b < j /\ j < e}}

-----------------------------------------------------------------------------
Grant == [key : Keys, models : IF IsDsh THEN {{}} ELSE SUBSET Models \ {{}}]

\* What a file may hold before foxy: nothing, or lines of the user.
Documents ==
    IF IsDsh THEN {<<>>,
                   <<Line("version"), Line("other")>>,
                   <<Line("refs"), Ref(1)>>,
                   <<Line("version"), Line("refs"), Line("entry"), Ref(1),
                     Line("entry"), Line("other")>>}
    ELSE {<<>>, <<Own(0)>>, <<Own(0), Provider(0)>>}

Init ==
    /\ harness \in Harnesses
    /\ granted = None
    /\ file \in Documents /\ mine = file
    /\ tmp = None /\ profile = [n \in Names |-> Absent]
    /\ up = "off" /\ pc = "idle" /\ job = None /\ next = <<>> /\ todo = {} /\ mem = 0
    /\ grants = 0 /\ edits = 0 /\ stops = 0
    /\ raced = FALSE /\ doubled = FALSE

-----------------------------------------------------------------------------
(* The daemon. *)

DaemonKeeps == UNCHANGED <<harness, granted, bounds, user>>

Start ==
    /\ up = "off" /\ up' = "up"
    /\ DaemonKeeps /\ UNCHANGED <<disk, sync, mem>>

\* (mutant: a withdrawal is taken for an outage)
AskGrantedOnly ==
    /\ up = "up" /\ pc = "idle" /\ granted # None
    /\ pc' = "read" /\ job' = granted
    /\ DaemonKeeps /\ UNCHANGED <<disk, up, next, todo, mem>>

\* Sync: the vault's answer, and for Teardown the key is forgotten first.  (When the
\* vault cannot be reached nothing happens.)
Ask ==
    /\ up = "up" /\ pc = "idle"
    /\ pc' = "read" /\ job' = granted
    /\ mem' = IF granted = None THEN 0 ELSE mem
    /\ DaemonKeeps /\ UNCHANGED <<disk, up, next, todo>>

\* The daemon ends: Teardown in the background, which the process does not wait for.
Quit ==
    /\ up = "up" /\ pc = "idle" /\ stops < MaxStops
    /\ up' = "quitting" /\ pc' = "read" /\ mem' = 0
    /\ stops' = stops + 1
    /\ UNCHANGED <<harness, granted, disk, job, next, todo, grants, edits, user>>

Die ==
    /\ up # "off" /\ up = "up" => stops < MaxStops
    /\ stops' = IF up = "up" THEN stops + 1 ELSE stops
    /\ up' = "off" /\ pc' = "idle" /\ job' = None /\ next' = <<>> /\ todo' = {} /\ mem' = 0
    /\ UNCHANGED <<harness, granted, disk, grants, edits, user>>

\* Apply and Remove read the document.  Apply may refuse it, Remove finds nothing to do.
Read ==
    /\ pc = "read"
    /\ \/ /\ job # None /\ ~ Applicable(file)
          /\ pc' = "idle" /\ job' = None /\ UNCHANGED next
       \/ /\ job # None /\ Applicable(file)
          /\ pc' = "write" /\ next' = Applied(file, job.key) /\ UNCHANGED job
       \/ /\ job = None
          /\ pc' = "write" /\ next' = Removed(file) /\ UNCHANGED job
    /\ DaemonKeeps /\ UNCHANGED <<disk, up, todo, mem>>

\* Nothing is written if the file is as it should be.
Write ==
    /\ pc = "write"
    /\ IF next = file THEN pc' = "profiles" /\ UNCHANGED tmp
                      ELSE pc' = "rename" /\ tmp' = next
    /\ todo' = IF job = None THEN {} ELSE job.models
    /\ DaemonKeeps /\ UNCHANGED <<file, profile, up, job, next, mem>>

Rename ==
    /\ pc = "rename"
    /\ file' = tmp /\ tmp' = None /\ pc' = "profiles"
    /\ DaemonKeeps /\ UNCHANGED <<profile, up, job, next, todo, mem>>

\* A profile is written for each model, unless there is a file of the user's ...
WriteProfile(m) ==
    /\ pc = "profiles" /\ m \in todo
    /\ todo' = todo \ {m}
    /\ profile' = IF profile[Name(m)] = Foreign THEN profile
                  ELSE [profile EXCEPT ![Name(m)] = m]
    /\ DaemonKeeps /\ UNCHANGED <<file, tmp, up, pc, job, next, mem>>

Wanted == IF job = None THEN {} ELSE {Name(m) : m \in job.models}

\* (mutant: whatever has a name like ours is swept)
StaleByName(n) == profile[n] # Absent /\ n \notin Wanted

Stale(n) == FoxyOwns(profile[n]) /\ n \notin Wanted

\* ... and foxy's files of other models are removed.
Sweep(n) ==
    /\ pc = "profiles" /\ todo = {} /\ Stale(n)
    /\ profile' = [profile EXCEPT ![n] = Absent]
    /\ DaemonKeeps /\ UNCHANGED <<file, tmp, daemon>>

\* The key is served once the configuration is there.
Done ==
    /\ pc = "profiles" /\ todo = {} /\ \A n \in Names : ~ Stale(n)
    /\ mem' = IF job = None THEN 0 ELSE job.key
    /\ pc' = "idle" /\ job' = None /\ next' = <<>>
    /\ up' = IF up = "quitting" THEN "off" ELSE up
    /\ DaemonKeeps /\ UNCHANGED <<disk, todo>>

\* A read or a write fails; a rename that fails takes the temporary file away.
Fails ==
    /\ pc # "idle" /\ stops < MaxStops /\ stops' = stops + 1
    /\ pc' = "idle" /\ job' = None /\ next' = <<>> /\ todo' = {}
    /\ tmp' = IF pc = "rename" THEN None ELSE tmp
    /\ up' = IF up = "quitting" THEN "off" ELSE up
    /\ UNCHANGED <<harness, granted, file, profile, mem, grants, edits, user>>

Sync == Ask \/ Read \/ Write \/ Rename \/ Done
          \/ (\E m \in Models : WriteProfile(m)) \/ (\E n \in Names : Sweep(n))

-----------------------------------------------------------------------------
(* The vault and the user. *)

Regrant ==
    /\ grants < MaxGrants /\ grants' = grants + 1
    /\ granted' \in (Grant \cup {None}) \ {granted}
    /\ UNCHANGED <<harness, disk, daemon, edits, stops, user>>

\* A line in the place after the i-th, and after the first of a kind.
Inserted(doc, i, line) ==
    [j \in 1 .. Len(doc) + 1 |->
       IF j <= i THEN doc[j] ELSE IF j = i + 1 THEN line ELSE doc[j - 1]]
InsertAfter(doc, k, line) == Inserted(doc, Least(Lines(doc, k)), line)

\* The user's own DEEPSEEK_API_KEY: replaced, added, and taken out.
SetKey(doc, k) ==
    IF Lines(doc, "ref") # {}
    THEN [i \in DOMAIN doc |-> IF doc[i].kind = "ref" THEN Ref(k) ELSE doc[i]]
    ELSE IF Lines(doc, "refs") # {} THEN InsertAfter(doc, "refs", Ref(k))
    ELSE doc \o <<Line("refs"), Ref(k)>>
DropKey(doc) == DropEmptyRefs[Pick[doc][DOMAIN doc \ Lines(doc, "ref")]]

Saves(doc, own) ==
    /\ edits < MaxEdits /\ edits' = edits + 1
    /\ file' = doc /\ mine' = own /\ doc # file
    /\ raced' = (raced \/ pc \in {"write", "rename"})
    /\ UNCHANGED <<harness, granted, tmp, profile, daemon, grants, stops>>

Meant == IF mine = <<>> THEN Removed(file) ELSE mine

EditDsh ==
    /\ IsDsh /\ UNCHANGED doubled
    /\ \/ Saves(Append(file, Line("other")), Append(Meant, Line("other")))
       \/ /\ Lines(file, "refs") # {} /\ Lines(mine, "refs") # {}
          /\ Saves(InsertAfter(file, "refs", Line("entry")),
                   InsertAfter(mine, "refs", Line("entry")))
       \/ /\ file # <<>> /\ Lines(file, "version") = {}
          /\ Saves(<<Line("version")>> \o file, <<Line("version")>> \o mine)
       \/ /\ Lines(file, "begin") = {}
          /\ \E k \in UserKeys : Saves(SetKey(file, k), SetKey(Meant, k))
       \/ /\ Lines(file, "begin") = {} /\ Lines(file, "ref") # {}
          /\ Saves(DropKey(file), DropKey(mine))

\* A key of their own, before or after foxy's block.
EditBesideBlock ==
    /\ IsDsh /\ Lines(file, "begin") # {}
    /\ doubled' = TRUE
    /\ \E k \in UserKeys, at \in {"refs", "end"} :
         Saves(InsertAfter(file, at, Ref(k)), SetKey(Meant, k))

EditCodex ==
    /\ ~ IsDsh /\ UNCHANGED doubled
    /\ LET line == Own(edits + 1) IN
       \/ Saves(Append(file, line), Append(mine, line))
       \/ Saves(<<line>> \o file, <<line>> \o mine)
       \/ /\ ~ DeclaresProvider(mine)
          /\ Saves(Append(file, Provider(0)), Append(mine, Provider(0)))
       \/ LET others(doc) == Pick[doc][{i \in DOMAIN doc : doc[i] # Provider(0)}]
          IN  DeclaresProvider(mine) /\ Saves(others(file), others(mine))

\* A profile file of the user's comes or goes.
EditProfile ==
    /\ ~ IsDsh /\ edits < MaxEdits /\ edits' = edits + 1
    /\ \E n \in Names, p \in {Foreign, Absent} :
         profile[n] # p /\ profile' = [profile EXCEPT ![n] = p]
    /\ UNCHANGED <<harness, granted, file, tmp, daemon, grants, stops, user>>

Next ==
    \/ Start \/ Sync \/ Fails \/ Quit \/ Die
    \/ Regrant \/ EditDsh \/ EditBesideBlock \/ EditCodex \/ EditProfile

Spec == Init /\ [][Next]_vars

\* The daemon's loop goes on, at its interval.
FairSpec == Spec /\ WF_vars(Sync)

-----------------------------------------------------------------------------
(* Properties. *)

TypeOK ==
    /\ harness \in Harnesses /\ granted \in Grant \cup {None}
    /\ {file, next, mine} \subseteq Document /\ tmp \in Document \cup {None}
    /\ profile \in [Names -> {Absent, Foreign} \cup Models]
    /\ up \in {"up", "quitting", "off"}
    /\ pc \in {"idle", "read", "write", "rename", "profiles"}
    /\ job \in Grant \cup {None} /\ todo \subseteq Models /\ mem \in Keys \cup {0}
    /\ up # "up" => mem = 0
    /\ grants \in 0 .. MaxGrants /\ edits \in 0 .. MaxEdits /\ stops \in 0 .. MaxStops
    /\ {raced, doubled} \subseteq BOOLEAN

\* Whatever was applied, edited and interrupted: Remove gives back the user's
\* document ("restores the codex home to its pre-foxy state"; a file foxy created
\* keeps its version line).
RemoveRestores ==
    ~ raced /\ ~ doubled =>
        Removed(file) \in {mine} \cup IF mine = <<>> THEN {<<Line("version")>>} ELSE {}

\* The same with an edit that falls between the reading and the renaming, and with a
\* key the user writes next to the block.
EditsSurvive ==
    Removed(file) \in {mine} \cup IF mine = <<>> THEN {<<Line("version")>>} ELSE {}

\* The file never has a second or a torn block.
OneBlock ==
    /\ Cardinality(Lines(file, "begin")) <= 1
    /\ Cardinality(Lines(file, "end")) = Cardinality(Lines(file, "begin"))
    /\ Cardinality(BlockKey(file)) = Cardinality(Lines(file, "begin"))

\* A key is served only while the harness is configured to ask for it.
ServedIsConfigured == ~ raced /\ mem # 0 => Lines(file, "begin") # {}

\* A profile file of the user's is neither overwritten nor deleted ("never overwrite
\* what we don't own").
UserProfilesKept ==
    [][\A n \in Names : profile[n] = Foreign =>
          profile'[n] = Foreign \/ edits' # edits]_vars

\* A grant that stays is configured: the key is in the block and in memory, and each
\* model has a profile, but where the user's files are in the way.
Configured(g) ==
    /\ BlockKey(file) = {g.key} /\ mem = g.key
    /\ \A m \in g.models : LET p == profile[ProfileName(Stem, g.models, m)]
                           IN  p = m \/ p = Foreign
    /\ Cardinality({n \in Names : FoxyOwns(profile[n])}) <= Cardinality(g.models)
GrantedIsConfigured ==
    <>[](up = "up" /\ granted # None /\ Applicable(file)) =>
        <>[](granted # None /\ Configured(granted))

\* A withdrawn grant leaves neither block nor profile nor key.
WithdrawnIsRemoved ==
    <>[](up = "up" /\ granted = None) =>
        <>[](Lines(file, "begin") = {} /\ mem = 0 /\ \A n \in Names : ~ FoxyOwns(profile[n]))

\* ... nor a temporary file with the key in it.
NoKeyLeftBehind ==
    <>[](up = "up" /\ granted = None) => <>[](tmp = None)

\* A daemon that was quit leaves no configuration behind.
QuitRemoves ==
    [][up = "quitting" /\ up' = "off" => Lines(file', "begin") = {}]_vars

\* What holds of every state: the user's document can be had back, there is one
\* whole block or none, and a key is served only with one.
ConfigInv ==
    /\ TypeOK
    /\ RemoveRestores
    /\ OneBlock
    /\ ServedIsConfigured

\* The files come to say what is granted.
ConfigFollowsGrant == GrantedIsConfigured /\ WithdrawnIsRemoved

=============================================================================
