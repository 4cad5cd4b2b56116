------------------------ MODULE PostgresTableProofs ------------------------
(***************************************************************************)
(* Proofs about the rows of PostgresStorage: what the tables hold, and     *)
(* what a transaction may rely on while others commit.                     *)
(***************************************************************************)
EXTENDS PostgresProofs, MetricsProofs

\* The metrics a transaction is past carry values, it holds their rows and has
\* written no others; and what it sees is what is committed by now, with these
\* metrics applied to it.
Executed(p) ==
    /\ at[p] \in Trying => call[p] \in Calls /\ call[p].route \in Writing
    /\ at[p] # "tx" => idx[p] = 0 /\ rows[p] = Nothing
    /\ at[p] = "tx" =>
          /\ call[p].route = "updates"
          /\ idx[p] <= Len(call[p].ms)
          /\ Valued(call[p].ms, idx[p])
          /\ \A i \in 1 .. idx[p] :
                Known(call[p].ms[i]) => locks[Key(call[p].ms[i])] = p
          /\ \A key \in Keys : rows[p][key] # None => locks[key] = p
          /\ View(p) = Puts(tables, call[p].ms)[idx[p]]

\* SumsStayInRange for one goroutine.
SumsInRange(p) ==
    at[p] = "tx" =>
        \A i \in 1 .. idx[p] :
            Known(call[p].ms[i]) =>
                Fits(Puts(tables, call[p].ms)[i - 1], call[p].ms[i])

TablesInv ==
    /\ Inv
    /\ tables \in [Keys -> Values]
    /\ rows \in [Procs -> [Keys -> Int64 \cup {None}]]
    /\ \A p \in Procs : Executed(p)
    /\ SumsStayInRange

-----------------------------------------------------------------------------
(* What a step of p does to the rows, as far as the others can tell.       *)

\* It leaves the goroutines and the rows of the others alone.
OthersKept(p) ==
    /\ \A q \in Procs \ {p} : /\ at'[q] = at[q] /\ call'[q] = call[q]
                              /\ idx'[q] = idx[q] /\ rows'[q] = rows[q]
    /\ \A key \in Keys :
          locks[key] \notin {None, p} =>
             locks'[key] = locks[key] /\ tables'[key] = tables[key]

\* The metrics of a request under way are metrics, as many as its route takes.
LEMMA CallIsTyped ==
    ASSUME Inv, NEW p \in Procs, call[p] \in Calls
    PROVE  /\ call[p].ms \in Seq(Metric) /\ Len(call[p].ms) \in Nat
           /\ \A i \in 1 .. Len(call[p].ms) : Key(call[p].ms[i]) \in Keys \/ ~Known(call[p].ms[i])
<1>1. call[p].ms \in Seq(Metric)
  BY PostgresAssumption
<1>2. ASSUME NEW i \in 1 .. Len(call[p].ms), Known(call[p].ms[i])
      PROVE  Key(call[p].ms[i]) \in Keys
  <2>1. call[p].ms[i] \in Metric
    BY <1>1
  <2> QED
    BY <1>2, <2>1 DEF Key, Keys, Known, Metric
<1> QED
  BY <1>1, <1>2

\* A call commits in one of two ways.
Commits(p) ==
    \/ Starts(p, OneUpdate) /\ Free(p, call[p].ms[1]) /\ Effect(p, Put(tables, call[p].ms[1]))
    \/ at[p] = "tx" /\ ~More(p) /\ Effect(p, View(p))

\* What a call commits is the whole call, applied to the rows as they are; it has
\* values, and lies in rows nobody else has locked.
LEMMA CommitsOneCall ==
    ASSUME TablesInv, NEW p \in Procs, Commits(p)
    PROVE  /\ tables' = PutAll(tables, call[p].ms)
           /\ tables' \in [Keys -> Values]
           /\ \A key \in Keys : locks[key] \notin {None, p} => tables'[key] = tables[key]
<1> DEFINE ms == call[p].ms
<1>1. Inv /\ tables \in [Keys -> Values] /\ Executed(p) /\ idx[p] \in Nat
  BY DEF TablesInv, Inv, Typed
<1>2. call[p] \in Calls
  BY <1>1 DEF Executed, Trying, Starts, Commits
<1>3. ms \in Seq(Metric) /\ Len(ms) \in Nat
  BY <1>1, <1>2, CallIsTyped
<1>4. /\ Valued(ms, Len(ms))
      /\ \A i \in 1 .. Len(ms) : Known(ms[i]) => locks[Key(ms[i])] \in {None, p}
      /\ tables' = Puts(tables, ms)[Len(ms)]
  <2>1. CASE /\ Starts(p, OneUpdate) /\ Free(p, ms[1])
             /\ Effect(p, Put(tables, ms[1]))
    <3>1. Len(ms) = 1 /\ ms[1].val # Nil /\ Known(ms[1])
      BY <1>2, <2>1, PostgresAssumption DEF Starts, Refused, Known
    <3>2. tables' = PutKnown(tables, ms[1])
      BY <2>1, <3>1 DEF Effect, PutKnown
    <3>3. Puts(tables, ms)[0] = tables /\ Puts(tables, ms)[0 + 1] = PutKnown(Puts(tables, ms)[0], ms[0 + 1])
      BY <3>1, PutsNext
    <3> QED
      BY <2>1, <3>1, <3>2, <3>3 DEF Valued, Free
  <2>2. CASE at[p] = "tx" /\ ~More(p) /\ Effect(p, View(p))
    <3>1. idx[p] = Len(ms)
      BY <1>1, <1>3, <2>2 DEF Executed, More
    <3> QED
      BY <1>1, <2>2, <3>1 DEF Executed, Effect
  <2> QED
    BY <2>1, <2>2 DEF Commits
<1>5. tables' = PutAll(tables, ms)
  BY <1>4 DEF PutAll
<1>6. tables' \in [Keys -> Values]
  BY <1>1, <1>3, <1>4, PutsInMaps
<1>7. ASSUME NEW key \in Keys, locks[key] \notin {None, p} PROVE tables'[key] = tables[key]
  <2>1. \A i \in 1 .. Len(ms) : Known(ms[i]) => Key(ms[i]) # key
    BY <1>4, <1>7
  <2> HIDE DEF ms
  <2> QED
    BY <1>1, <1>3, <1>4, <2>1, PutsElsewhere
<1> QED
  BY <1>5, <1>6, <1>7

\* A row that is there stays, and the row that an update commits is there.
LEMMA RowsStay ==
    ASSUME TablesInv, NEW p \in Procs, Commits(p)
    PROVE  /\ \A key \in Keys : tables[key] \in Int64 => tables'[key] \in Int64
           /\ call[p].route \in OneUpdate => tables'[Key(call[p].ms[1])] \in Int64
<1> DEFINE m == call[p].ms[1]
<1>1. /\ Inv /\ tables \in [Keys -> Values] /\ Executed(p)
      /\ rows[p] \in [Keys -> Int64 \cup {None}] /\ tables' \in [Keys -> Values]
  BY CommitsOneCall DEF TablesInv
<1>2. call[p] \in Calls
  BY <1>1 DEF Executed, Trying, Starts, Commits
<1>3. CASE Starts(p, OneUpdate) /\ Effect(p, Put(tables, m))
  <2>1. m \in Metric /\ m.type \in Kinds /\ m.val # Nil
    <3>1. call[p].ms \in Seq(Metric) /\ Len(call[p].ms) = 1
      BY <1>2, <1>3, PostgresAssumption DEF Starts
    <3>2. m \in Metric
      BY <3>1
    <3> QED
      BY <1>2, <1>3, <3>2, PostgresAssumption DEF Starts, Refused
  <2>2. Key(m) \in Keys
    BY <2>1 DEF Key, Keys, Metric
  <2>3. Written(m, tables[Key(m)]) \in Int64
    BY <1>1, <2>1, <2>2, WrittenInWord
  <2>4. tables' = [tables EXCEPT ![Key(m)] = Written(m, tables[Key(m)])]
    BY <1>3 DEF Effect, Put
  <2> HIDE DEF m
  <2> QED
    BY <1>1, <2>2, <2>3, <2>4 DEF m
<1>4. CASE at[p] = "tx" /\ Effect(p, View(p))
  <2>1. call[p].route \notin OneUpdate
    BY <1>1, <1>4 DEF Executed, OneUpdate
  <2>2. \A key \in Keys : tables'[key] = IF rows[p][key] = None THEN tables[key] ELSE rows[p][key]
    BY <1>4 DEF Effect, View
  <2> QED
    BY <1>1, <2>1, <2>2
<1> QED
  BY <1>3, <1>4 DEF Commits

\* An attempt that ends gives up its rows and its place among the metrics.
LEMMA EndsLeaves ==
    ASSUME TablesInv, NEW p \in Procs, NEW e \in {"ok", "error", "dropped"}, Ends(p, e),
           at[p] \in Trying, tables' \in [Keys -> Values],
           \A key \in Keys : locks[key] \notin {None, p} => tables'[key] = tables[key]
    PROVE  /\ OthersKept(p) /\ Executed(p)' /\ at'[p] # "tx"
           /\ rows' \in [Procs -> [Keys -> Int64 \cup {None}]]
<1>1. Typed /\ Executed(p) /\ rows \in [Procs -> [Keys -> Int64 \cup {None}]]
  BY DEF TablesInv, Inv
<1>2. /\ \A q \in Procs \ {p} : at'[q] = at[q] /\ idx'[q] = idx[q]
      /\ at'[p] \in {"idle", "query", "attempt"}
      /\ \A key \in Keys : locks'[key] = IF locks[key] = p THEN None ELSE locks[key]
      /\ call' = call
  BY <1>1, EndsOneAttempt
<1>3. idx'[p] = 0
  BY <1>1 DEF Ends, Typed
<1>4. rows' = [rows EXCEPT ![p] = Nothing] /\ Nothing \in [Keys -> Int64 \cup {None}]
  BY DEF Ends, Nothing
<1> QED
  BY <1>1, <1>2, <1>3, <1>4 DEF OthersKept, Executed, Trying

\* What a step of p does to the tables, to its locks and to what it has run.
LEMMA StepOnRows ==
    ASSUME TablesInv, NEW p \in Procs, Step(p)
    PROVE  /\ tables' \in [Keys -> Values] /\ rows' \in [Procs -> [Keys -> Int64 \cup {None}]]
           /\ OthersKept(p) /\ Executed(p)' /\ SumsInRange(p)'
<1> DEFINE Goal == /\ tables' \in [Keys -> Values]
                   /\ rows' \in [Procs -> [Keys -> Int64 \cup {None}]]
                   /\ OthersKept(p) /\ Executed(p)' /\ SumsInRange(p)'
<1>0. /\ Inv /\ Typed /\ Counted(p) /\ tables \in [Keys -> Values] /\ Executed(p)
      /\ SumsInRange(p) /\ None \notin Procs /\ idx[p] \in Nat
      /\ rows \in [Procs -> [Keys -> Int64 \cup {None}]]
  BY PostgresAssumption DEF TablesInv, Inv, SumsStayInRange, SumsInRange, Typed
<1>1. ASSUME NEW e \in {"ok", "error", "dropped"}, Ends(p, e), at[p] \in Trying, tables' = tables
      PROVE  Goal
  BY <1>0, <1>1, EndsLeaves DEF SumsInRange
<1>2. CASE Commits(p)
  <2>1. /\ tables' \in [Keys -> Values]
        /\ \A key \in Keys : locks[key] \notin {None, p} => tables'[key] = tables[key]
    BY <1>2, CommitsOneCall
  <2>2. at[p] \in Trying
    BY <1>2 DEF Commits, Starts, Trying
  <2>3. \E e \in {"ok", "error", "dropped"} : Ends(p, e)
    BY <1>2 DEF Commits, Effect, Succeed, Fault
  <2> QED
    BY <2>1, <2>2, <2>3, EndsLeaves DEF SumsInRange
<1>3. CASE Late(p)
  BY <1>1, <1>3 DEF Late, Trying
<1>4. CASE Update(p)
  <2>1. Starts(p, OneUpdate) /\ Free(p, call[p].ms[1]) /\ at[p] \in Trying
    BY <1>4 DEF Update, Starts, Trying
  <2> QED
    BY <1>1, <1>2, <1>4, <2>1 DEF Update, Commits
<1>5. CASE Begin(p)
  <2>1. /\ at[p] = "attempt" /\ call[p].route = "updates" /\ at' = [at EXCEPT ![p] = "tx"]
        /\ UNCHANGED <<tables, rows, locks, call, idx>>
    BY <1>5 DEF Begin, Starts
  <2>2. idx[p] = 0 /\ rows[p] = Nothing /\ call[p] \in Calls /\ Len(call[p].ms) \in Nat
    BY <1>0, <2>1, CallIsTyped DEF Executed, Trying
  <2>3. View(p)' = tables
    BY <1>0, <2>1, <2>2 DEF View, Nothing
  <2>4. Puts(tables, call[p].ms)[0] = tables
    BY <2>2, PutsNext
  <2>5. at'[p] = "tx"
    BY <1>0, <2>1 DEF Typed
  <2>6. Executed(p)'
    BY <2>1, <2>2, <2>3, <2>4, <2>5 DEF Executed, Valued, Trying, Writing, Nothing
  <2> QED
    BY <1>0, <2>1, <2>2, <2>6 DEF OthersKept, SumsInRange, Typed
<1>6. CASE Break(p)
  BY <1>1, <1>6 DEF Break, Fault, Trying
<1>7. CASE Skip(p) \/ Execute(p)
  <2> DEFINE ms == call[p].ms
  <2>1. /\ at[p] = "tx" /\ idx[p] < Len(ms) /\ idx' = [idx EXCEPT ![p] = @ + 1]
        /\ UNCHANGED <<tables, at, call>>
    BY <1>7 DEF Skip, Execute, Valid, More
  <2>2. /\ call[p] \in Calls /\ call[p].route \in Writing
        /\ ms \in Seq(Metric) /\ Len(ms) \in Nat
    BY <1>0, <2>1, CallIsTyped DEF Executed, Trying
  <2>3. idx'[p] = idx[p] + 1 /\ idx[p] + 1 \in 1 .. Len(ms)
    BY <1>0, <2>1, <2>2 DEF Typed
  <2>4. /\ Known(ms[idx[p] + 1]) =>
             /\ ms[idx[p] + 1].val # Nil
             /\ locks[Key(ms[idx[p] + 1])] \in {None, p}
             /\ locks' = [locks EXCEPT ![Key(ms[idx[p] + 1])] = p]
             /\ rows' = [rows EXCEPT ![p][Key(ms[idx[p] + 1])] =
                            Written(ms[idx[p] + 1], View(p)[Key(ms[idx[p] + 1])])]
             /\ Fits(View(p), ms[idx[p] + 1])
        /\ ~Known(ms[idx[p] + 1]) => locks' = locks /\ rows' = rows
    BY <1>7 DEF Skip, Execute, Valid, Current, Known, Free
  <2>5. \A i \in 1 .. idx[p] + 1 : i \in 1 .. idx[p] \/ i = idx[p] + 1
    BY <1>0
  <2>6. Known(ms[idx[p] + 1]) => Key(ms[idx[p] + 1]) \in Keys
    BY <1>0, <2>2, <2>3, CallIsTyped
  <2>7. \A key \in Keys : \/ locks'[key] = locks[key]
                          \/ locks[key] \in {None, p} /\ locks'[key] = p
    BY <1>0, <2>4 DEF Typed
  <2> DEFINE m == ms[idx[p] + 1]
             key == Key(m)
             new == Written(m, View(p)[key])
  <2>11. View(p) = Puts(tables, ms)[idx[p]] /\ View(p) \in [Keys -> Values]
    <3>1. View(p) = Puts(tables, ms)[idx[p]] /\ Valued(ms, idx[p]) /\ idx[p] \in 0 .. Len(ms)
      BY <1>0, <2>1, <2>2 DEF Executed
    <3> QED
      BY <1>0, <2>2, <3>1, PutsInMaps
  <2>12. Known(m) => new \in Int64 /\ new # None /\ key \in Keys
    <3>1. m \in Metric
      BY <2>2, <2>3
    <3>2. Known(m) => new \in Int64
      BY <2>4, <2>6, <2>11, <3>1, WrittenInWord DEF Known
    <3>3. None \notin Int64
      BY PostgresAssumption DEF Values
    <3> QED
      BY <2>6, <3>2, <3>3
  <2>13. rows' \in [Procs -> [Keys -> Int64 \cup {None}]]
    <3>1. CASE Known(m)
      <4>1. rows' = [rows EXCEPT ![p][key] = new] /\ new \in Int64
        BY <2>4, <2>12, <3>1
      <4> HIDE DEF m, key, new
      <4> QED
        BY <1>0, <4>1
    <3> QED
      BY <1>0, <2>4, <3>1
  <2>14. ASSUME NEW k \in Keys
         PROVE  /\ Known(m) /\ k = key => rows'[p][k] = new
                /\ ~(Known(m) /\ k = key) => rows'[p][k] = rows[p][k]
    <3>1. CASE Known(m)
      <4>1. rows' = [rows EXCEPT ![p][key] = new]
        BY <2>4, <3>1
      <4> HIDE DEF m, key, new
      <4> QED
        BY <1>0, <3>1, <4>1
    <3> QED
      BY <2>4, <3>1
  <2>8. OthersKept(p)
    <3>1. \A q \in Procs \ {p} : rows'[q] = rows[q]
      BY <1>0, <2>4
    <3> QED
      BY <1>0, <2>1, <2>7, <3>1 DEF OthersKept, Typed
  <2>9. Executed(p)'
    <3>1. Valued(ms, idx[p] + 1)
      BY <1>0, <2>1, <2>4, <2>5 DEF Executed, Valued
    <3>2. ASSUME NEW i \in 1 .. idx[p] + 1, Known(ms[i])
          PROVE  locks'[Key(ms[i])] = p
      <4>1. CASE i = idx[p] + 1
        BY <1>0, <2>4, <2>6, <3>2, <4>1 DEF Typed
      <4>2. CASE i \in 1 .. idx[p]
        <5>1. locks[Key(ms[i])] = p /\ i \in 1 .. Len(ms)
          BY <1>0, <2>1, <2>2, <3>2, <4>2 DEF Executed
        <5>2. Key(ms[i]) \in Keys
          BY <1>0, <2>2, <3>2, <5>1, CallIsTyped
        <5> QED
          BY <2>7, <5>1, <5>2
      <4> QED
        BY <2>5, <3>2, <4>1, <4>2
    <3>3. ASSUME NEW k \in Keys, rows'[p][k] # None PROVE locks'[k] = p
      <4>1. CASE Known(m) /\ k = key
        BY <1>0, <2>4, <4>1 DEF Typed
      <4>2. CASE ~(Known(m) /\ k = key)
        <5>1. locks[k] = p
          BY <1>0, <2>1, <2>14, <3>3, <4>2 DEF Executed
        <5> QED
          BY <2>7, <5>1
      <4> QED
        BY <4>1, <4>2
    <3>4. View(p)' = Puts(tables, ms)[idx[p] + 1]
      <4>1. Puts(tables, ms)[idx[p] + 1] = PutKnown(View(p), m)
        BY <1>0, <2>1, <2>2, <2>11, PutsNext
      <4>2. ASSUME NEW k \in Keys PROVE View(p)'[k] = PutKnown(View(p), m)[k]
        <5>0. m \in Metric
          BY <2>2, <2>3
        <5>1. View(p)'[k] = IF rows'[p][k] = None THEN tables[k] ELSE rows'[p][k]
          BY <2>1 DEF View
        <5>2. View(p)[k] = IF rows[p][k] = None THEN tables[k] ELSE rows[p][k]
          BY DEF View
        <5>3. PutKnown(View(p), m)[k] =
                 IF Known(m) /\ key = k THEN Written(m, View(p)[k]) ELSE View(p)[k]
          <6> HIDE DEF m
          <6> QED
            BY <2>11, <5>0, PutKnownAt
        <5> QED
          BY <2>12, <2>14, <5>1, <5>2, <5>3
      <4>3. PutKnown(View(p), m) \in [Keys -> Values]
        <5>1. Valued(ms, idx[p] + 1)
          BY <3>1
        <5> QED
          BY <1>0, <2>2, <2>3, <4>1, <5>1, PutsInMaps
      <4>4. View(p)' = [k \in Keys |-> View(p)'[k]]
        BY DEF View
      <4> HIDE DEF m
      <4> QED
        BY <4>1, <4>2, <4>3, <4>4
    <3>5. call[p].route = "updates"
      BY <1>0, <2>1 DEF Executed
    <3> HIDE DEF m, key, new
    <3> QED
      BY <1>0, <2>1, <2>2, <2>3, <3>1, <3>2, <3>3, <3>4, <3>5 DEF Executed
  <2>10. SumsInRange(p)'
    <3>1. ASSUME NEW i \in 1 .. idx[p] + 1, Known(ms[i])
          PROVE  Fits(Puts(tables, ms)[i - 1], ms[i])
      <4>1. CASE i = idx[p] + 1
        <5>1. i - 1 = idx[p]
          BY <1>0, <4>1
        <5> QED
          BY <2>4, <2>11, <3>1, <4>1, <5>1
      <4>2. CASE i \in 1 .. idx[p]
        BY <1>0, <2>1, <3>1, <4>2 DEF SumsInRange
      <4> QED
        BY <2>5, <3>1, <4>1, <4>2
    <3>2. \A maps, metric : Fits(maps, metric)' <=> Fits(maps, metric)
      BY DEF Fits
    <3> QED
      BY <2>1, <2>3, <3>1, <3>2 DEF SumsInRange
  <2> QED
    BY <1>0, <2>1, <2>8, <2>9, <2>10, <2>13
<1>8. CASE Refuse(p)
  BY <1>1, <1>8 DEF Refuse, More, Trying
<1>9. CASE Overflow(p)
  BY <1>1, <1>9 DEF Overflow, Valid, More, Trying
<1>10. CASE Deadlock(p)
  <2>1. at[p] \in Trying
    <3>1. PICK ps \in SUBSET Procs : p \in ps /\ Circle(ps)
      BY <1>10 DEF Deadlock
    <3>2. Blocker(p) \in ps
      BY <3>1 DEF Circle
    <3> QED
      BY <1>0, <3>2 DEF Blocker, Valid, More, Trying
  <2> QED
    BY <1>1, <1>10, <2>1 DEF Deadlock
<1>11. CASE Commit(p)
  BY <1>2, <1>11 DEF Commit, Commits
<1>12. CASE Query(p) \/ QueryFails(p) \/ Answer(p)
  <2>1. /\ at[p] \in Reading
        /\ \E to \in {"counters", "answer", "idle"} : at' = [at EXCEPT ![p] = to]
        /\ UNCHANGED <<tables, rows, locks, call, idx>>
    BY <1>12 DEF Query, QueryFails, Answer, Reading
  <2> QED
    BY <1>0, <2>1 DEF OthersKept, Executed, SumsInRange, Typed, Trying, Reading, View
<1> QED
  BY <1>3, <1>4, <1>5, <1>6, <1>7, <1>8, <1>9, <1>10, <1>11, <1>12 DEF Step

\* A transaction does not notice what the others do: the rows it has written
\* are locked, and its sums depend on no other row.
LEMMA OthersNotice ==
    ASSUME TablesInv, NEW p \in Procs, NEW q \in Procs \ {p},
           tables' \in [Keys -> Values], OthersKept(p)
    PROVE  Executed(q)' /\ SumsInRange(q)'
<1> DEFINE ms == call[q].ms
           Mine == {key \in Keys : locks[key] = q}
<1>0. /\ Inv /\ Executed(q) /\ SumsInRange(q) /\ tables \in [Keys -> Values]
      /\ None \notin Procs /\ idx[q] \in Nat
      /\ at'[q] = at[q] /\ call'[q] = call[q] /\ idx'[q] = idx[q] /\ rows'[q] = rows[q]
  BY PostgresAssumption DEF TablesInv, Inv, Typed, SumsStayInRange, SumsInRange, OthersKept
<1>1. CASE at[q] # "tx"
  BY <1>0, <1>1 DEF Executed, SumsInRange
<1>2. CASE at[q] = "tx"
  <2>1. /\ ms \in Seq(Metric) /\ Len(ms) \in Nat /\ idx[q] \in 0 .. Len(ms)
        /\ Valued(ms, idx[q])
    BY <1>0, <1>2, CallIsTyped DEF Executed, Trying
  <2>2. \A i \in 1 .. idx[q] : Known(ms[i]) => Key(ms[i]) \in Mine
    BY <1>0, <1>2, <2>1, CallIsTyped DEF Executed, Trying
  <2>3. \A key \in Mine : locks'[key] = q /\ tables'[key] = tables[key]
    BY <1>0 DEF OthersKept
  <2>4. Executed(q)'
    <3>1. View(q)' = Puts(tables', ms)[idx[q]]
      <4>1. \A k \in Keys : k \notin Mine => rows[q][k] = None
        BY <1>0, <1>2 DEF Executed
      <4>2. View(q) = Puts(tables, ms)[idx[q]]
        BY <1>0, <1>2 DEF Executed
      <4>3. ASSUME NEW k \in Keys PROVE View(q)'[k] = Puts(tables', ms)[idx[q]][k]
        <5>1. /\ View(q)[k] = IF rows[q][k] = None THEN tables[k] ELSE rows[q][k]
              /\ View(q)'[k] = IF rows[q][k] = None THEN tables'[k] ELSE rows[q][k]
          BY <1>0 DEF View
        <5>2. CASE k \in Mine
          <6>1. View(q)'[k] = View(q)[k]
            BY <2>3, <5>1, <5>2
          <6>2. Puts(tables, ms)[idx[q]][k] = Puts(tables', ms)[idx[q]][k]
            <7> DEFINE n == idx[q]
                       other == tables'
            <7>1. Mine \in SUBSET Keys /\ \A key \in Mine : tables[key] = other[key]
              BY <2>3
            <7>2. /\ ms \in Seq(Metric) /\ n \in 0 .. Len(ms) /\ Valued(ms, n)
                  /\ \A i \in 1 .. n : Known(ms[i]) => Key(ms[i]) \in Mine
              BY <2>1, <2>2
            <7>3. tables \in [Keys -> Values] /\ other \in [Keys -> Values]
              BY <1>0
            <7> HIDE DEF ms, Mine, n, other
            <7>4. \A key \in Mine : Puts(tables, ms)[n][key] = Puts(other, ms)[n][key]
              BY <7>1, <7>2, <7>3, PutsLocal
            <7> QED
              BY <5>2, <7>4 DEF n, other
          <6> QED
            BY <4>2, <6>1, <6>2
        <5>3. CASE k \notin Mine
          <6>1. \A i \in 1 .. idx[q] : Known(ms[i]) => Key(ms[i]) # k
            BY <2>2, <5>3
          <6>2. View(q)'[k] = tables'[k]
            BY <4>1, <5>1, <5>3
          <6>3. Puts(tables', ms)[idx[q]][k] = tables'[k]
            <7> HIDE DEF ms
            <7> QED
              BY <2>1, <6>1, PutsElsewhere
          <6> QED
            BY <6>2, <6>3
        <5> QED
          BY <5>2, <5>3
      <4>4. View(q)' = [k \in Keys |-> View(q)'[k]]
        BY DEF View
      <4>5. Puts(tables', ms)[idx[q]] \in [Keys -> Values]
        BY <2>1, PutsInMaps
      <4> QED
        BY <4>3, <4>4, <4>5
    <3>2. \A k \in Keys : rows[q][k] # None => k \in Mine
      BY <1>0, <1>2 DEF Executed
    <3>3. call[q].route = "updates"
      BY <1>0, <1>2 DEF Executed
    <3> QED
      BY <1>0, <1>2, <2>1, <2>2, <2>3, <3>1, <3>2, <3>3 DEF Executed
  <2>5. ASSUME NEW i \in 1 .. idx[q], Known(ms[i])
        PROVE  Fits(Puts(tables', ms)[i - 1], ms[i])
    <3>1. Fits(Puts(tables, ms)[i - 1], ms[i])
      BY <1>0, <1>2, <2>5 DEF SumsInRange
    <3>2. /\ i - 1 \in 0 .. Len(ms) /\ Valued(ms, i - 1)
          /\ \A j \in 1 .. i - 1 : Known(ms[j]) => Key(ms[j]) \in Mine
      BY <1>0, <2>1, <2>2 DEF Valued
    <3>3. ASSUME NEW other \in [Keys -> Values], \A key \in Mine : tables[key] = other[key]
          PROVE  \A key \in Mine : Puts(tables, ms)[i - 1][key] = Puts(other, ms)[i - 1][key]
      <4> DEFINE n == i - 1
      <4>1. Mine \in SUBSET Keys /\ tables \in [Keys -> Values] /\ ms \in Seq(Metric)
        BY <1>0, <2>1
      <4>2. n \in 0 .. Len(ms) /\ Valued(ms, n)
        BY <3>2
      <4>3. \A j \in 1 .. n : Known(ms[j]) => Key(ms[j]) \in Mine
        BY <3>2
      <4> HIDE DEF ms, Mine, n
      <4>4. \A key \in Mine : Puts(tables, ms)[n][key] = Puts(other, ms)[n][key]
        BY <3>3, <4>1, <4>2, <4>3, PutsLocal
      <4> QED
        BY <4>4 DEF n
    <3>4. \A key \in Mine : Puts(tables, ms)[i - 1][key] = Puts(tables', ms)[i - 1][key]
      BY <2>3, <3>3
    <3> QED
      BY <2>2, <2>5, <3>1, <3>4 DEF Fits
  <2>6. SumsInRange(q)'
    BY <1>0, <2>5 DEF SumsInRange, Fits
  <2> QED
    BY <2>4, <2>6
<1> QED
  BY <1>1, <1>2

\* Nothing has run against the empty tables.
LEMMA TablesInvInit == Init => TablesInv
<1> SUFFICES ASSUME Init PROVE TablesInv
  OBVIOUS
<1>1. Inv
  BY InvInit
<1>2. tables \in [Keys -> Values] /\ rows \in [Procs -> [Keys -> Int64 \cup {None}]]
  BY DEF Init, EmptyMaps, Values, Nothing
<1>3. \A p \in Procs : at[p] = "idle" /\ idx[p] = 0 /\ rows[p] = Nothing
  BY DEF Init
<1> QED
  BY <1>1, <1>2, <1>3 DEF TablesInv, Executed, Trying, SumsStayInRange

\* Every step of every request keeps the sums in range.
LEMMA TablesInvNext == TablesInv /\ [Next]_vars => TablesInv'
<1> SUFFICES ASSUME TablesInv, [Next]_vars PROVE TablesInv'
  OBVIOUS
<1>0. Inv'
  BY InvNext DEF TablesInv
<1>1. ASSUME NEW p \in Procs, Step(p) PROVE TablesInv'
  <2>1. /\ tables' \in [Keys -> Values] /\ rows' \in [Procs -> [Keys -> Int64 \cup {None}]]
        /\ OthersKept(p) /\ Executed(p)' /\ SumsInRange(p)'
    BY <1>1, StepOnRows
  <2>2. \A q \in Procs : Executed(q)' /\ SumsInRange(q)'
    BY <2>1, OthersNotice
  <2> QED
    BY <1>0, <2>1, <2>2 DEF TablesInv, SumsStayInRange, SumsInRange
<1>2. ASSUME NEW p \in Procs, NEW c \in Calls, Invoke(p, c) PROVE TablesInv'
  <2>1. /\ at[p] = "idle" /\ call' = [call EXCEPT ![p] = c]
        /\ at' = [at EXCEPT ![p] = IF c.route \in Writing THEN "attempt" ELSE "query"]
        /\ UNCHANGED <<tables, rows, locks, idx>>
    BY <1>2 DEF Invoke
  <2>2. ASSUME NEW q \in Procs PROVE Executed(q)' /\ SumsInRange(q)'
    <3>1. Executed(q) /\ SumsInRange(q) /\ Typed
      BY DEF TablesInv, Inv, SumsStayInRange, SumsInRange
    <3>2. CASE q = p
      BY <2>1, <3>1, <3>2 DEF Executed, SumsInRange, Typed, Trying, Nothing
    <3>3. CASE q # p
      <4>1. at'[q] = at[q] /\ call'[q] = call[q]
        BY <2>1, <3>1, <3>3 DEF Typed
      <4> QED
        BY <2>1, <3>1, <4>1 DEF Executed, SumsInRange, Fits, View, Nothing
    <3> QED
      BY <3>2, <3>3
  <2> QED
    BY <1>0, <2>1, <2>2 DEF TablesInv, SumsStayInRange, SumsInRange
<1>3. CASE UNCHANGED vars
  <2>1. UNCHANGED <<tables, rows, locks, at, call, idx>>
    BY <1>3 DEF vars, callVars
  <2> QED
    BY <1>0, <2>1 DEF TablesInv, Executed, SumsStayInRange, Fits, View, Nothing
<1> QED
  BY <1>1, <1>2, <1>3 DEF Next, Over

-----------------------------------------------------------------------------
\* Whatever is committed between the statements of a transaction and its own
\* commit, none of its sums leaves the range of BIGINT.
THEOREM SumsStay == Spec => []SumsStayInRange
<1>1. TablesInv => SumsStayInRange
  BY DEF TablesInv
<1> QED
  BY <1>1, TablesInvInit, TablesInvNext, PTL DEF Spec

\* A step that changes the tables, or the count of what a call has committed,
\* is a commit.
LEMMA OnlyCommits ==
    ASSUME NEW p \in Procs, Step(p), tables' # tables \/ effects' # effects
    PROVE  Commits(p)
<1>1. CASE Update(p)
  BY <1>1 DEF Update, Commits
<1>2. CASE Commit(p)
  BY <1>2 DEF Commit, Commits
<1> QED
  BY <1>1, <1>2 DEF Step, Late, Begin, Break, Skip, Refuse, Execute, Overflow, Deadlock, Query,
                    QueryFails, Answer

\* Although a transaction writes its rows one by one, beside others, the tables
\* change by whole calls only, and no update is lost.
THEOREM BatchesAreTransactions == Spec => CommitsAreWhole
<1> DEFINE Whole == tables' # tables =>
              \E p \in Procs : /\ effects'[p] = effects[p] + 1
                               /\ tables' = PutAll(tables, call[p].ms)
<1>1. ASSUME TablesInv, [Next]_vars PROVE Whole
  <2> SUFFICES ASSUME tables' # tables
               PROVE  \E p \in Procs : /\ effects'[p] = effects[p] + 1
                                       /\ tables' = PutAll(tables, call[p].ms)
    OBVIOUS
  <2>1. PICK p \in Procs : Step(p)
    BY <1>1 DEF Next, Invoke, Over, vars
  <2>2. Commits(p)
    BY <2>1, OnlyCommits
  <2>3. tables' = PutAll(tables, call[p].ms)
    BY <1>1, <2>2, CommitsOneCall
  <2>4. effects' = [effects EXCEPT ![p] = @ + 1] /\ effects \in [Procs -> Nat]
    BY <1>1, <2>2 DEF Commits, Effect, TablesInv, Inv, Typed
  <2> QED
    BY <2>3, <2>4
<1>2. TablesInv /\ [Next]_vars => [Whole]_vars
  BY <1>1
<1> QED
  BY <1>2, TablesInvInit, TablesInvNext, PTL DEF Spec, CommitsAreWhole

-----------------------------------------------------------------------------
(* The read back of an update.                                             *)

\* The row that an update has committed is there, and the read back finds it,
\* unless it fails.
FindsItsRow(p) ==
    call[p] \in Calls /\ call[p].route = "updateJSON" /\ effects[p] > 0 =>
        /\ tables[Key(call[p].ms[1])] \in Int64
        /\ at[p] = "answer" =>
              got[p] = Nothing \/ got[p][Key(call[p].ms[1])] \in Int64

FreshInv == TablesInv /\ ReadInv /\ \A p \in Procs : FindsItsRow(p)

\* Every step keeps the row, and what the read back has found.
LEMMA FreshInvNext == FreshInv /\ [Next]_vars => FreshInv'
<1> SUFFICES ASSUME FreshInv, [Next]_vars PROVE FreshInv'
  OBVIOUS
<1>0. /\ TablesInv' /\ ReadInv' /\ TablesInv /\ ReadInv /\ Typed
      /\ tables \in [Keys -> Values] /\ DOMAIN got = Procs
  BY TablesInvNext, ReadInvNext DEF FreshInv, TablesInv, ReadInv, Inv
<1>1. ASSUME NEW q \in Procs, call[q] \in Calls, call[q].route = "updateJSON"
      PROVE  Key(call[q].ms[1]) \in Keys
  <2>1. call[q].ms \in Seq(Metric) /\ Len(call[q].ms) = 1 /\ call[q].ms[1].type \in Kinds
    BY <1>1, PostgresAssumption DEF OneUpdate, Refused
  <2>2. call[q].ms[1] \in Metric
    BY <2>1
  <2> QED
    BY <2>1, <2>2 DEF Key, Keys, Metric
<1>2. ASSUME NEW p \in Procs, Step(p), NEW q \in Procs PROVE FindsItsRow(q)'
  <2>1. call' = call /\ FindsItsRow(q)
    <3>1. call' = call
      BY <1>2 DEF Step, Late, Update, Begin, Break, Skip, Refuse, Execute, Overflow, Deadlock,
                  Commit, Query, QueryFails, Answer, Effect, Succeed, Fault, Ends
    <3> QED
      BY <3>1 DEF FreshInv
  <2> SUFFICES ASSUME call[q] \in Calls, call[q].route = "updateJSON", effects'[q] > 0
               PROVE  /\ tables'[Key(call[q].ms[1])] \in Int64
                      /\ at'[q] = "answer" =>
                            got'[q] = Nothing \/ got'[q][Key(call[q].ms[1])] \in Int64
    BY <2>1 DEF FindsItsRow, Nothing
  <2> DEFINE key == Key(call[q].ms[1])
  <2>2. key \in Keys
    BY <1>1
  <2>3. tables'[key] \in Int64
    <3>1. CASE Commits(p)
      <4>1. \A k \in Keys : tables[k] \in Int64 => tables'[k] \in Int64
        BY <1>0, <3>1, RowsStay
      <4>2. CASE q = p
        BY <1>0, <3>1, <4>2, RowsStay DEF OneUpdate
      <4>3. CASE q # p
        <5>1. effects'[q] = effects[q]
          BY <1>0, <3>1, <4>3 DEF Commits, Effect, Typed
        <5> QED
          BY <2>1, <2>2, <4>1, <5>1 DEF FindsItsRow
      <4> QED
        BY <4>2, <4>3
    <3>2. CASE ~Commits(p)
      <4>1. tables' = tables /\ effects' = effects
        BY <1>2, <3>2, OnlyCommits
      <4> QED
        BY <2>1, <4>1 DEF FindsItsRow
    <3> QED
      BY <3>1, <3>2
  <2>4. ASSUME at'[q] = "answer" PROVE got'[q] = Nothing \/ got'[q][key] \in Int64
    <3>1. CASE Query(p) /\ q = p
      <4>1. /\ got'[q] = [k \in Keys |-> IF k \in Wanted(q) THEN tables[k] ELSE got[q][k]]
            /\ tables' = tables
        BY <1>0, <3>1 DEF Query, Found
      <4>2. key \in Wanted(q)
        BY DEF Wanted, Listing
      <4>3. got'[q][key] = tables[key]
        BY <2>2, <4>1, <4>2
      <4> QED
        BY <2>3, <4>1, <4>3
    <3>2. CASE QueryFails(p) /\ q = p
      BY <1>0, <3>2 DEF QueryFails
    <3>3. CASE ~((Query(p) \/ QueryFails(p)) /\ q = p)
      <4>1. at[q] = "answer" /\ got'[q] = got[q] /\ effects'[q] = effects[q]
        <5>1. CASE q # p
          <6>1. at'[q] = at[q] /\ got'[q] = got[q]
            <7>1. CASE Query(p) \/ QueryFails(p) \/ Answer(p)
              BY <1>0, <5>1, <7>1 DEF Query, QueryFails, Answer, Typed
            <7>2. CASE ~(Query(p) \/ QueryFails(p) \/ Answer(p))
              BY <1>0, <1>2, <5>1, <7>2, WriteReads DEF Step, TablesInv, Typed
            <7> QED
              BY <7>1, <7>2
          <6>2. effects'[q] = effects[q]
            <7>1. effects' = effects \/ effects' = [effects EXCEPT ![p] = @ + 1]
              BY <1>2, OnlyCommits DEF Commits, Effect
            <7> QED
              BY <1>0, <5>1, <7>1 DEF Typed
          <6> QED
            BY <2>4, <6>1, <6>2
        <5>2. CASE q = p
          <6>1. CASE Answer(p)
            BY <1>0, <2>4, <5>2, <6>1 DEF Answer, Typed
          <6>2. CASE ~Answer(p)
            <7>1. \E to \in {"idle", "attempt", "tx", "query"} : at' = [at EXCEPT ![p] = to]
              BY <1>0, <1>2, <3>3, <5>2, <6>2, WriteReads DEF Step, TablesInv
            <7> QED
              BY <1>0, <2>4, <5>2, <7>1 DEF Typed
          <6> QED
            BY <6>1, <6>2
        <5> QED
          BY <5>1, <5>2
      <4> QED
        BY <2>1, <4>1 DEF FindsItsRow
    <3> QED
      BY <1>2, <3>1, <3>2, <3>3
  <2> QED
    BY <2>3, <2>4
<1>3. ASSUME NEW p \in Procs, NEW c \in Calls, Invoke(p, c), NEW q \in Procs
      PROVE  FindsItsRow(q)'
  <2>1. /\ call' = [call EXCEPT ![p] = c] /\ effects' = [effects EXCEPT ![p] = 0]
        /\ \E to \in {"attempt", "query"} : at' = [at EXCEPT ![p] = to]
        /\ tables' = tables /\ got' = got
    BY <1>3 DEF Invoke
  <2>2. CASE q = p
    BY <1>0, <2>1, <2>2 DEF FindsItsRow, Typed
  <2>3. CASE q # p
    <3>1. FindsItsRow(q) /\ call'[q] = call[q] /\ effects'[q] = effects[q] /\ at'[q] = at[q]
      BY <1>0, <2>1, <2>3 DEF FreshInv, Typed
    <3> QED
      BY <2>1, <3>1 DEF FindsItsRow, Nothing
  <2> QED
    BY <2>2, <2>3
<1>4. ASSUME UNCHANGED vars, NEW q \in Procs PROVE FindsItsRow(q)'
  <2>1. UNCHANGED <<tables, at, call, effects, got>> /\ FindsItsRow(q)
    BY <1>4 DEF vars, callVars, FreshInv
  <2> QED
    BY <2>1 DEF FindsItsRow, Nothing
<1> QED
  BY <1>0, <1>2, <1>3, <1>4 DEF FreshInv, Next, Over

\* A response shows rows that were committed while the request was served, or the
\* zero of an update that was not made or could not be read back.
THEOREM AnswersAreFresh == Spec => []ReadsAreFresh
<1>1. Init => FreshInv
  <2>1. ASSUME Init, NEW p \in Procs PROVE FindsItsRow(p)
    BY <2>1 DEF Init, FindsItsRow
  <2> QED
    BY <2>1, TablesInvInit, ReadInvInit DEF FreshInv
<1>2. ASSUME FreshInv, NEW p \in Procs, at[p] = "answer"
      PROVE  \/ \E j \in 1 .. Len(trail[p]) : \E i \in 1 .. j :
                   ShownAt(p, "gauge", i) /\ ShownAt(p, "counter", j)
             \/ NotReadBack(p) /\ (got[p] = Nothing \/ effects[p] = 0)
  <2>1. /\ ReadSoFar(p) /\ FindsItsRow(p) /\ call[p] \in Calls /\ effects[p] \in Nat
        /\ None \notin Values
    BY <1>2, PostgresAssumption DEF FreshInv, ReadInv, ReadSoFar, Inv, Typed
  <2>2. CASE ~NotReadBack(p)
    <3>1. \A key : Shown(p, key) = got[p][key]
      BY <2>2 DEF Shown
    <3>2. PICK j \in 1 .. Len(trail[p]) : \E i \in 1 .. j :
            ReadAt(p, "gauge", i) /\ ReadAt(p, "counter", j)
      BY <1>2, <2>1 DEF ReadSoFar
    <3> QED
      BY <3>1, <3>2 DEF ReadAt, ShownAt
  <2>3. CASE NotReadBack(p)
    <3>1. /\ call[p].route = "updateJSON"
          /\ got[p][Key(call[p].ms[1])] \in {None, Absent}
      BY <2>3 DEF NotReadBack
    <3>2. None \notin Int64 /\ Absent \notin Int64
      BY <2>1, MetricsAssumption DEF Values, Int64
    <3>3. effects[p] > 0 => got[p] = Nothing
      BY <1>2, <2>1, <3>1, <3>2 DEF FindsItsRow
    <3> QED
      BY <2>1, <2>3, <3>3
  <2> QED
    BY <2>2, <2>3
<1>3. FreshInv => ReadsAreFresh
  BY <1>2 DEF ReadsAreFresh
<1> QED
  BY <1>1, <1>3, FreshInvNext, PTL DEF Spec

-----------------------------------------------------------------------------
(* The types of what is left: the reads and the bounds.                    *)

RestTyped ==
    /\ got \in [Procs -> [Keys -> Values \cup {None}]]
    /\ trail \in [Procs -> Seq([Keys -> Values])]
    /\ calls \in Nat /\ faults \in Nat

\* The trail collects what is committed, which is typed.
LEMMA TrailIsTyped ==
    ASSUME RestTyped, Record, tables' \in [Keys -> Values]
    PROVE  trail' \in [Procs -> Seq([Keys -> Values])]
<1> DEFINE Next1(p) ==
        CASE at'[p] \notin Reading                      -> <<>>
          [] at'[p] \in Reading /\ at[p] \notin Reading -> <<tables'>>
          [] at'[p] \in Reading /\ at[p] \in Reading    ->
                IF tables' = tables THEN trail[p] ELSE Append(trail[p], tables')
<1>1. ASSUME NEW p \in Procs PROVE Next1(p) \in Seq([Keys -> Values])
  <2>1. /\ trail[p] \in Seq([Keys -> Values]) /\ <<>> \in Seq([Keys -> Values])
        /\ <<tables'>> \in Seq([Keys -> Values])
        /\ Append(trail[p], tables') \in Seq([Keys -> Values])
    BY DEF RestTyped
  <2> QED
    BY <2>1
<1>2. trail' = [p \in Procs |-> Next1(p)]
  BY DEF Record
<1> HIDE DEF Next1
<1> QED
  BY <1>1, <1>2

\* A step of one request keeps the types that a query may change.
LEMMA StepIsTyped ==
    ASSUME RestTyped, TablesInv, NEW p \in Procs, Step(p)
    PROVE  RestTyped'
<1>1. tables \in [Keys -> Values] /\ tables' \in [Keys -> Values] /\ Record
  BY StepOnRows DEF TablesInv, Step
<1>2. trail' \in [Procs -> Seq([Keys -> Values])]
  BY <1>1, TrailIsTyped
<1>3. Nothing \in [Keys -> Values \cup {None}]
  BY DEF Nothing
<1>4. got' \in [Procs -> [Keys -> Values \cup {None}]]
  <2>1. CASE got' = got
    BY <2>1 DEF RestTyped
  <2>2. CASE \E row \in [Keys -> Values \cup {None}] : got' = [got EXCEPT ![p] = row]
    BY <2>2 DEF RestTyped
  <2>3. CASE Query(p)
    <3> DEFINE row == [key \in Keys |-> IF key \in Wanted(p) THEN Found(p, key) ELSE got[p][key]]
    <3>1. row \in [Keys -> Values \cup {None}]
      BY <1>1 DEF Found, RestTyped
    <3>2. got' = [got EXCEPT ![p] = row]
      BY <2>3 DEF Query
    <3> QED
      BY <2>2, <3>1, <3>2
  <2>4. CASE QueryFails(p) \/ Answer(p)
    BY <1>3, <2>2, <2>4 DEF QueryFails, Answer
  <2>5. CASE \/ Late(p) \/ Update(p) \/ Begin(p) \/ Break(p) \/ Skip(p) \/ Refuse(p)
             \/ Execute(p) \/ Overflow(p) \/ Deadlock(p) \/ Commit(p)
    BY <2>1, <2>5, WriteReads DEF TablesInv
  <2> QED
    BY <2>3, <2>4, <2>5 DEF Step
<1>5. calls' = calls /\ (faults' = faults \/ faults' = faults + 1)
  BY DEF Step, Late, Update, Begin, Break, Skip, Refuse, Execute, Overflow, Deadlock, Commit,
         Query, QueryFails, Answer, Effect, Succeed, Fault, Ends
<1> QED
  BY <1>2, <1>4, <1>5 DEF RestTyped

\* Every variable keeps its type, the rows of the tables included.
THEOREM TypeCorrect == Spec => []TypeOK
<1> DEFINE TInv == TablesInv /\ RestTyped
<1>1. Init => TInv
  <2>1. ASSUME Init PROVE RestTyped
    BY <2>1 DEF Init, RestTyped, Nothing
  <2> QED
    BY <2>1, TablesInvInit
<1>2. TInv /\ [Next]_vars => TInv'
  <2> SUFFICES ASSUME TInv, [Next]_vars PROVE TInv'
    OBVIOUS
  <2>0. TablesInv'
    BY TablesInvNext
  <2>1. ASSUME NEW p \in Procs, Step(p) PROVE RestTyped'
    BY <2>1, StepIsTyped
  <2>2. ASSUME NEW p \in Procs, NEW c \in Calls, Invoke(p, c) PROVE RestTyped'
    <3>1. got' = got /\ calls' = calls + 1 /\ faults' = faults /\ Record
      BY <2>2 DEF Invoke
    <3>2. trail' \in [Procs -> Seq([Keys -> Values])]
      BY <2>0, <3>1, TrailIsTyped DEF TablesInv
    <3> QED
      BY <3>1, <3>2 DEF RestTyped
  <2>3. ASSUME UNCHANGED vars PROVE RestTyped'
    BY <2>3 DEF vars, callVars, RestTyped
  <2> QED
    BY <2>0, <2>1, <2>2, <2>3 DEF Next, Over
<1>3. TInv => TypeOK
  BY DEF RestTyped, TablesInv, Inv, Typed, TypeOK
<1> QED
  BY <1>1, <1>2, <1>3, PTL DEF Spec
=============================================================================
