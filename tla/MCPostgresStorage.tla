-------------------------- MODULE MCPostgresStorage --------------------------
(***************************************************************************)
(* PostgresStorage for TLC, on one gauge and one counter.                  *)
(***************************************************************************)
EXTENDS PostgresStorage

CONSTANT a

M(type, val) == [type |-> type, id |-> a, val |-> val]

Call(route, ms) == [route |-> route, ms |-> ms]

\* Two batches that lock the two rows in opposite orders.
Opposite ==
    {Call("updates", <<M("counter", 1), M("other", Nil), M("gauge", 1)>>),
     Call("updates", <<M("gauge", 0), M("counter", -1)>>)}

\* A counter update that is answered with the counter, these two batches, a batch
\* that is refused after its first row, and the reads of both rows, one by one and
\* all at once.
MCCalls ==
    {Call("updateJSON", <<M("counter", 1)>>),
     Call("updates", <<M("gauge", 1), M("counter", Nil)>>),
     Call("value", <<M("gauge", Nil)>>),
     Call("valueJSON", <<M("counter", Nil)>>),
     Call("list", <<>>)}
    \cup Opposite
=============================================================================
