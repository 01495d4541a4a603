----------------------------- MODULE CodexConfig -----------------------------
(***************************************************************************)
(* config.toml of Codex, and the profile files next to it, and what foxy   *)
(* does to them.                                                           *)
(*                                                                         *)
(* The lines of config.toml are the user's ("own"), the header of the      *)
(* provider's table ("provider") and the sentinels of foxy's block; the    *)
(* key of a provider line stands for what the table says.  A profile file  *)
(* is absent, the user's, or foxy's for a model.                           *)
(***************************************************************************)
EXTENDS ManagedBlock

Own(n) == [kind |-> "own", key |-> n]
Provider(k) == [kind |-> "provider", key |-> k]

StripManagedBlock(doc) == Pick[doc][DOMAIN doc \ InBlock(doc)]

DeclaresProvider(doc) == Lines(doc, "provider") # {}

\* Two definitions of the provider are for the user to resolve.
BlockApplicable(doc) == ~ DeclaresProvider(StripManagedBlock(doc))

BlockApplied(doc, key) ==
    StripManagedBlock(doc) \o <<Line("begin"), Provider(key), Line("end")>>

BlockRemoved(doc) == StripManagedBlock(doc)

-----------------------------------------------------------------------------
(* Profile files.  Two models may come to the same file name; the later of them  *)
(* gets a name of its own, made from its id.                                     *)

\* The name of model m's file among the models of a grant: a stem, or a digest.
ProfileName(stem, models, m) ==
    IF \E n \in models : n < m /\ stem[n] = stem[m] THEN <<0, m>> ELSE <<stem[m], 0>>

Absent  == 0
Foreign == -1
FoxyOwns(profile) == profile > 0
=============================================================================
