---------------------------- MODULE ManagedBlock ----------------------------
(***************************************************************************)
(* Documents with a block of lines between sentinels: what DshConfig and   *)
(* CodexConfig have in common.  A line has a kind and a key; a key of 0    *)
(* stands for none.                                                        *)
(***************************************************************************)
EXTENDS Integers, Sequences, FiniteSets

Kinds == {"version", "refs", "other", "entry", "ref", "saved", "begin", "end",
          "own", "provider"}
Text  == [kind : Kinds, key : Nat]
Document == Seq(Text)

Line(k) == [kind |-> k, key |-> 0]

\* The lines of a kind, and the lines at the places I.
Lines(doc, k) == {i \in DOMAIN doc : doc[i].kind = k}
Pick[doc \in Document] == [I \in SUBSET Nat |->
    [j \in 1 .. Cardinality(I) |->
       doc[CHOOSE i \in I : Cardinality({l \in I : l < i}) = j - 1]]]

\* A block goes from its begin to its end, or to the end of the file.
InBlock(doc) ==
    {i \in DOMAIN doc : \E b \in Lines(doc, "begin") :
        b <= i /\ \A e \in Lines(doc, "end") : ~ (b < e /\ e < i)}
=============================================================================
