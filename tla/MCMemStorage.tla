---------------------------- MODULE MCMemStorage ----------------------------
(***************************************************************************)
(* MemStorage for TLC: the calls that make the interesting cases happen on *)
(* one gauge and one counter whose word holds -2 .. 1.                     *)
(***************************************************************************)
EXTENDS MemStorage

CONSTANT a

M(type, val) == [type |-> type, id |-> a, val |-> val]

Call(op, ms) == [op |-> op, ms |-> ms]

\* A counter update that makes the word wrap, a batch over both maps, one that
\* breaks in the middle, one with an unknown type, and a save.
MCWrites ==
    {Call("update", <<M("counter", 1)>>),
     Call("batch", <<M("counter", 1), M("other", Nil), M("gauge", 1)>>),
     Call("batch", <<M("gauge", 0), M("counter", Nil), M("gauge", 1)>>),
     Call("save", <<>>)}

\* The unlocked readers beside a writer and a save.
MCReads ==
    {Call("update", <<M("counter", 1)>>),
     Call("batch", <<M("counter", 1), M("gauge", 0)>>),
     Call("save", <<>>),
     Call("get", <<M("counter", Nil)>>),
     Call("getAll", <<>>)}

\* A file with both maps, and one whose counters are null.
MCFiles ==
    {[k \in Kinds |-> [n \in Names |-> IF k = "gauge" THEN 1 ELSE -1]],
     [k \in Kinds |-> IF k = "gauge" THEN [n \in Names |-> 0] ELSE Nil]}
=============================================================================
