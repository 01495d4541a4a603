------------------------------ MODULE DshConfig ------------------------------
(***************************************************************************)
(* The credential file of the DeepSeek Harness, and what foxy does to it.  *)
(*                                                                         *)
(* At column 0 there are "version", "refs" (the header of the section of   *)
(* keys) and "other"; indented, below refs, there are keys of other        *)
(* providers ("entry"), DEEPSEEK_API_KEY itself ("ref"), and foxy's block: *)
(* "begin", the user's own line as a comment ("saved"), a "ref", "end".    *)
(* Blank lines and quoting are left out.                                   *)
(***************************************************************************)
EXTENDS ManagedBlock

Ref(k)   == [kind |-> "ref", key |-> k]
Saved(k) == [kind |-> "saved", key |-> k]

Least(S)    == CHOOSE i \in S : \A j \in S : i <= j
Greatest(S) == CHOOSE i \in S : \A j \in S : j <= i

\* The section: the lines after the header up to the next one at column 0.
Head0(doc) == Least(Lines(doc, "refs"))
RefsBlock(doc) ==
    {i \in DOMAIN doc :
        /\ Head0(doc) < i
        /\ \A j \in Head0(doc) + 1 .. i : doc[j].kind \notin {"version", "refs", "other"}}

ManagedBlock(key, saved) ==
    <<Line("begin")>> \o (IF saved = 0 THEN <<>> ELSE <<Saved(saved)>>)
        \o <<Ref(key), Line("end")>>

\* (mutant: whatever key is in the section is the user's, foxy's own too)
OwnKeysAll(doc) == {i \in RefsBlock(doc) : doc[i].kind \in {"saved", "ref"}}

\* The user's own key: outside the block, or parked in it.
OwnKeys(doc) == {i \in RefsBlock(doc) : doc[i].kind = IF i \in InBlock(doc) THEN "saved" ELSE "ref"}

\* applyBlock: in the section, the old block and the user's own key make way, and the
\* new block goes where the first of these was; of several keys the last is parked.
ApplyBlock(doc, key) ==
    LET out == RefsBlock(doc) \cap (InBlock(doc) \cup OwnKeys(doc))
        at  == IF out = {} THEN Greatest(RefsBlock(doc) \cup {Head0(doc)}) + 1 ELSE Least(out)
        saved == IF OwnKeys(doc) = {} THEN 0 ELSE doc[Greatest(OwnKeys(doc))].key
    IN  IF Lines(doc, "refs") = {}
        THEN (IF doc = <<>> THEN <<Line("version")>> ELSE doc)
                 \o <<Line("refs")>> \o ManagedBlock(key, 0)
        ELSE Pick[doc][1 .. at - 1] \o ManagedBlock(key, saved)
                 \o Pick[doc][{i \in DOMAIN doc : i >= at} \ out]

\* removeBlock: the block goes, the parked line comes back.
RemoveBlock(doc) ==
    LET parked == {i \in InBlock(doc) : doc[i].kind = "saved"}
        lines  == [i \in DOMAIN doc |-> IF i \in parked THEN Ref(doc[i].key) ELSE doc[i]]
    IN  Pick[lines][(DOMAIN doc \ InBlock(doc)) \cup parked]

\* A header with nothing under it stops the harness from starting.
DropEmptyRefs[doc \in Document] ==
    IF Lines(doc, "refs") # {} /\ RefsBlock(doc) = {}
    THEN Pick[doc][DOMAIN doc \ {Head0(doc)}] ELSE doc

-----------------------------------------------------------------------------
\* Apply refuses a document of the layout before versions.
Versioned(doc) == doc = <<>> \/ Lines(doc, "version") # {}

\* Without a block, Remove writes nothing.
RefRemoved(doc) == IF Lines(doc, "begin") = {} THEN doc ELSE DropEmptyRefs[RemoveBlock(doc)]
=============================================================================
