--------------------------- MODULE PostgresProofs ---------------------------
(***************************************************************************)
(* Proofs about PostgresStorage, for any requests, calls, rows, attempts   *)
(* and faults.  What the tables hold plays no part in them, and what the   *)
(* transactions have written neither: PostgresTableProofs is about that.   *)
(***************************************************************************)
EXTENDS PostgresStorage, TLAPS

\* The types of the locks and of what a call is about.
Typed ==
    /\ locks \in [Keys -> Procs \cup {None}]
    /\ at \in [Procs -> {"idle", "attempt", "tx"} \cup Reading]
    /\ call \in [Procs -> Calls \cup {None}]
    /\ attempt \in [Procs -> 1 .. Attempts]
    /\ idx \in [Procs -> Nat]
    /\ effects \in [Procs -> Nat]
    /\ result \in [Procs -> {"none", "ok", "swallowed", "failed"}]

\* In the body of Retry.
Trying == {"attempt", "tx"}

\* While a call is under way each finished attempt has committed it once at the
\* most, and a transaction is under way only in an attempt that began in time.
Counted(p) ==
    /\ effects[p] <= InTime
    /\ at[p] \in Trying => effects[p] < attempt[p] /\ result[p] = "none"
    /\ at[p] = "tx" => attempt[p] <= InTime

Inv == Typed /\ (\A p \in Procs : Counted(p)) /\ LocksAreHeld

-----------------------------------------------------------------------------
\* What the end of an attempt does to the variables of its goroutine.
LEMMA EndsOneAttempt ==
    ASSUME Typed, NEW p \in Procs, NEW e \in {"ok", "error", "dropped"}, Ends(p, e)
    PROVE  /\ \A q \in Procs \ {p} : /\ at'[q] = at[q] /\ attempt'[q] = attempt[q]
                                     /\ idx'[q] = idx[q] /\ result'[q] = result[q]
           /\ \/ /\ at'[p] \in {"idle", "query"} /\ attempt'[p] = attempt[p]
                 /\ result'[p] \in {"ok", "swallowed", "failed"}
              \/ /\ at'[p] = "attempt" /\ attempt'[p] = attempt[p] + 1
                 /\ attempt[p] < Attempts /\ result'[p] = result[p]
           /\ \A key \in Keys : locks'[key] = IF locks[key] = p THEN None ELSE locks[key]
           /\ at' \in [Procs -> {"idle", "attempt", "tx"} \cup Reading]
           /\ attempt' \in [Procs -> 1 .. Attempts]
           /\ idx' \in [Procs -> Nat]
           /\ result' \in [Procs -> {"none", "ok", "swallowed", "failed"}]
           /\ locks' \in [Keys -> Procs \cup {None}]
           /\ call' = call
<1>0. Attempts \in Nat
  BY PostgresAssumption
<1>1. /\ locks' = [key \in Keys |-> IF locks[key] = p THEN None ELSE locks[key]]
      /\ idx' = [idx EXCEPT ![p] = 0] /\ call' = call
  BY DEF Ends, Release
<1>2. (\E r \in {"ok", "swallowed", "failed"} : Return(p, r)) \/ Again(p)
  BY DEF Ends
<1>3. CASE Again(p)
  BY <1>0, <1>1, <1>3 DEF Again, Typed
<1>4. ASSUME NEW r \in {"ok", "swallowed", "failed"}, Return(p, r)
      PROVE  /\ \E to \in {"idle", "query"} : at' = [at EXCEPT ![p] = to]
             /\ attempt' = attempt
             /\ result' = [result EXCEPT ![p] = r]
  BY <1>4 DEF Return
<1> QED
  BY <1>1, <1>2, <1>3, <1>4 DEF Typed, Reading

\* An attempt may end at any point of a call, having committed it or not.
LEMMA EndsPreserves ==
    ASSUME Inv, NEW p \in Procs, NEW e \in {"ok", "error", "dropped"}, Ends(p, e),
           at[p] \in Trying,
           \/ effects' = effects
           \/ effects' = [effects EXCEPT ![p] = @ + 1] /\ attempt[p] <= InTime
    PROVE  Inv'
<1>0. Attempts \in Nat /\ InTime \in 1 .. Attempts /\ None \notin Procs
  BY PostgresAssumption
<1>1. Typed
  BY DEF Inv
<1>2. /\ effects' \in [Procs -> Nat]
      /\ \A q \in Procs \ {p} : effects'[q] = effects[q]
      /\ \/ effects'[p] = effects[p]
         \/ effects'[p] = effects[p] + 1 /\ attempt[p] <= InTime
  BY <1>1 DEF Typed
<1>3. /\ \A q \in Procs \ {p} : /\ at'[q] = at[q] /\ attempt'[q] = attempt[q]
                                /\ idx'[q] = idx[q] /\ result'[q] = result[q]
      /\ \/ /\ at'[p] \in {"idle", "query"} /\ attempt'[p] = attempt[p]
            /\ result'[p] \in {"ok", "swallowed", "failed"}
         \/ /\ at'[p] = "attempt" /\ attempt'[p] = attempt[p] + 1
            /\ attempt[p] < Attempts /\ result'[p] = result[p]
      /\ \A key \in Keys : locks'[key] = IF locks[key] = p THEN None ELSE locks[key]
      /\ call' = call
  BY <1>1, EndsOneAttempt
<1>4. Typed'
  BY <1>1, <1>2, EndsOneAttempt DEF Typed
<1>5. ASSUME NEW q \in Procs PROVE Counted(q)'
  <2>1. CASE q = p
    <3>1. Counted(p) /\ effects[p] \in Nat /\ attempt[p] \in 1 .. Attempts
      BY <1>1 DEF Inv, Typed
    <3> QED
      BY <1>0, <1>2, <1>3, <2>1, <3>1 DEF Counted, Trying
  <2>2. CASE q # p
    <3>1. Counted(q)
      BY DEF Inv
    <3> QED
      BY <1>2, <1>3, <2>2, <3>1 DEF Counted
  <2> QED
    BY <2>1, <2>2
<1>6. LocksAreHeld'
  <2>1. ASSUME NEW key \in Keys, NEW q \in Procs, locks'[key] = q
        PROVE  at'[q] = "tx" /\ \E i \in 1 .. idx'[q] : Key(call'[q].ms[i]) = key
    <3>1. q # p /\ locks[key] = q
      BY <1>0, <1>3, <2>1
    <3>2. at[q] = "tx" /\ \E i \in 1 .. idx[q] : Key(call[q].ms[i]) = key
      BY <3>1 DEF Inv, LocksAreHeld
    <3> QED
      BY <1>3, <3>1, <3>2
  <2> QED
    BY <2>1 DEF LocksAreHeld
<1> QED
  BY <1>4, <1>5, <1>6 DEF Inv

\* No request has been made, and no row is locked.
LEMMA InvInit == Init => Inv
<1> SUFFICES ASSUME Init PROVE Inv
  OBVIOUS
<1>0. Attempts \in Nat \ {0} /\ InTime \in 1 .. Attempts /\ None \notin Procs
  BY PostgresAssumption
<1>1. Typed
  BY <1>0 DEF Init, Typed
<1>2. ASSUME NEW p \in Procs PROVE Counted(p)
  BY <1>0 DEF Init, Counted
<1>3. LocksAreHeld
  BY <1>0 DEF Init, LocksAreHeld
<1> QED
  BY <1>1, <1>2, <1>3 DEF Inv

\* Every way an attempt ends, with an effect or without.
LEMMA EffectPreserves ==
    ASSUME Inv, NEW p \in Procs, NEW maps, at[p] \in Trying, attempt[p] <= InTime,
           Effect(p, maps)
    PROVE  Inv'
<1>1. effects' = [effects EXCEPT ![p] = @ + 1]
  BY DEF Effect
<1>2. \E e \in {"ok", "error", "dropped"} : Ends(p, e)
  BY DEF Effect, Succeed, Fault
<1> QED
  BY <1>1, <1>2, EndsPreserves

\* A step of one request, whichever it is.
LEMMA StepPreserves ==
    ASSUME Inv, NEW p \in Procs, Step(p)
    PROVE  Inv'
<1>0. Attempts \in Nat /\ InTime \in 1 .. Attempts /\ None \notin Procs
  BY PostgresAssumption
<1>1. Typed /\ Counted(p) /\ LocksAreHeld
  BY DEF Inv
<1>2. attempt[p] \in 1 .. Attempts /\ idx[p] \in Nat /\ effects[p] \in Nat
  BY <1>1 DEF Typed
<1>3. ASSUME at[p] \in Trying, effects' = effects,
             \E e \in {"error", "dropped"} : Ends(p, e)
      PROVE  Inv'
  BY <1>3, EndsPreserves
<1>4. CASE Late(p)
  BY <1>3, <1>4 DEF Late, Trying
<1>5. CASE Update(p)
  <2>1. at[p] = "attempt" /\ attempt[p] <= InTime
    BY <1>0, <1>2, <1>5 DEF Update, Starts, Expired
  <2>0. at[p] \in Trying
    BY <2>1 DEF Trying
  <2>2. CASE Effect(p, Put(tables, call[p].ms[1]))
    BY <2>0, <2>1, <2>2, EffectPreserves
  <2>3. CASE Ends(p, "dropped") /\ UNCHANGED <<tables, effects, faults>>
    BY <1>3, <2>0, <2>3
  <2> QED
    BY <1>5, <2>2, <2>3 DEF Update
<1>6. CASE Begin(p)
  <2>1. /\ at[p] = "attempt" /\ attempt[p] <= InTime
        /\ at' = [at EXCEPT ![p] = "tx"]
        /\ UNCHANGED <<locks, call, attempt, idx, effects, result>>
    BY <1>0, <1>2, <1>6 DEF Begin, Starts, Expired
  <2>2. Typed'
    BY <1>1, <2>1 DEF Typed
  <2>3. ASSUME NEW q \in Procs PROVE Counted(q)'
    <3>1. Counted(q)
      BY DEF Inv
    <3> QED
      BY <1>1, <2>1, <3>1 DEF Counted, Typed, Trying
  <2>4. LocksAreHeld'
    BY <1>1, <2>1 DEF LocksAreHeld, Typed
  <2> QED
    BY <2>2, <2>3, <2>4 DEF Inv
<1>7. CASE Break(p)
  BY <1>3, <1>7 DEF Break, Fault, Trying
<1>8. CASE Skip(p) \/ Execute(p)
  <2>1. /\ at[p] = "tx" /\ idx' = [idx EXCEPT ![p] = @ + 1]
        /\ UNCHANGED <<at, call, attempt, effects, result>>
    BY <1>8 DEF Skip, Execute, Valid, More
  <2>2. \/ locks' = locks
        \/ locks' = [locks EXCEPT ![Key(Current(p))] = p]
    BY <1>8 DEF Skip, Execute
  <2>3. Typed'
    BY <1>1, <2>1, <2>2 DEF Typed
  <2>4. ASSUME NEW q \in Procs PROVE Counted(q)'
    <3>1. Counted(q)
      BY DEF Inv
    <3> QED
      BY <2>1, <3>1 DEF Counted
  <2>5. ASSUME NEW key \in Keys, NEW q \in Procs, locks'[key] = q
        PROVE  at'[q] = "tx" /\ \E i \in 1 .. idx'[q] : Key(call'[q].ms[i]) = key
    <3>1. idx[q] \in Nat /\ idx'[q] = (IF q = p THEN idx[p] + 1 ELSE idx[q])
      BY <1>1, <2>1 DEF Typed
    <3>2. CASE locks[key] = q
      <4>1. at[q] = "tx" /\ \E i \in 1 .. idx[q] : Key(call[q].ms[i]) = key
        BY <1>1, <3>2 DEF LocksAreHeld
      <4>2. \A i \in 1 .. idx[q] : i \in 1 .. idx'[q]
        BY <3>1
      <4> QED
        BY <2>1, <4>1, <4>2
    <3>3. CASE locks[key] # q
      <4>1. key = Key(Current(p)) /\ q = p
        BY <1>1, <2>2, <2>5, <3>3 DEF Typed
      <4>2. idx'[p] = idx[p] + 1 /\ idx[p] + 1 \in 1 .. idx'[p]
        BY <1>2, <3>1, <4>1
      <4> QED
        BY <2>1, <4>1, <4>2 DEF Current
    <3> QED
      BY <3>2, <3>3
  <2> QED
    BY <2>3, <2>4, <2>5 DEF Inv, LocksAreHeld
<1>9. CASE Refuse(p)
  BY <1>3, <1>9 DEF Refuse, More, Trying
<1>10. CASE Overflow(p)
  BY <1>3, <1>10 DEF Overflow, Valid, More, Trying
<1>11. CASE Deadlock(p)
  <2>1. at[p] \in Trying
    <3>1. PICK ps \in SUBSET Procs : p \in ps /\ Circle(ps)
      BY <1>11 DEF Deadlock
    <3>2. Blocker(p) \in ps
      BY <3>1 DEF Circle
    <3> QED
      BY <1>0, <3>2 DEF Blocker, Valid, More, Trying
  <2> QED
    BY <1>3, <1>11, <2>1 DEF Deadlock
<1>12. CASE Commit(p)
  <2>1. at[p] = "tx" /\ attempt[p] <= InTime
    BY <1>1, <1>12 DEF Commit, Counted
  <2> QED
    BY <1>12, <2>1, EffectPreserves DEF Commit, Trying
<1>13. CASE Query(p) \/ QueryFails(p) \/ Answer(p)
  <2>1. /\ at[p] \in Reading
        /\ \E to \in {"counters", "answer", "idle"} : at' = [at EXCEPT ![p] = to]
        /\ UNCHANGED <<locks, call, attempt, idx, effects, result>>
    BY <1>13 DEF Query, QueryFails, Answer, Reading
  <2>2. Typed'
    BY <1>1, <2>1 DEF Typed, Reading
  <2>3. ASSUME NEW q \in Procs PROVE Counted(q)'
    <3>1. Counted(q) /\ at'[q] \in (IF q = p THEN {"counters", "answer", "idle"} ELSE {at[q]})
      BY <1>1, <2>1 DEF Inv, Typed
    <3> QED
      BY <2>1, <3>1 DEF Counted, Trying
  <2>4. LocksAreHeld'
    BY <1>1, <2>1 DEF LocksAreHeld, Typed, Reading
  <2> QED
    BY <2>2, <2>3, <2>4 DEF Inv
<1> QED
  BY <1>4, <1>5, <1>6, <1>7, <1>8, <1>9, <1>10, <1>11, <1>12, <1>13 DEF Step

\* Every step of every request keeps the invariant.
LEMMA InvNext == Inv /\ [Next]_vars => Inv'
<1> SUFFICES ASSUME Inv, [Next]_vars PROVE Inv'
  OBVIOUS
<1>0. Attempts \in Nat \ {0} /\ InTime \in 1 .. Attempts /\ None \notin Procs
  BY PostgresAssumption
<1>1. ASSUME NEW p \in Procs, Step(p) PROVE Inv'
  BY <1>1, StepPreserves
<1>2. ASSUME NEW p \in Procs, NEW c \in Calls, Invoke(p, c) PROVE Inv'
  <2>1. /\ at[p] = "idle"
        /\ \E to \in {"attempt", "query"} : at' = [at EXCEPT ![p] = to]
        /\ call' = [call EXCEPT ![p] = c] /\ attempt' = [attempt EXCEPT ![p] = 1]
        /\ effects' = [effects EXCEPT ![p] = 0]
        /\ result' = [result EXCEPT ![p] = "none"]
        /\ UNCHANGED <<locks, idx>>
    BY <1>2 DEF Invoke
  <2>2. Typed'
    BY <1>0, <2>1 DEF Inv, Typed, Reading
  <2>3. ASSUME NEW q \in Procs PROVE Counted(q)'
    <3>1. Counted(q)
      BY DEF Inv
    <3> QED
      BY <1>0, <2>1, <3>1 DEF Inv, Typed, Counted, Trying
  <2>4. LocksAreHeld'
    BY <2>1 DEF Inv, Typed, LocksAreHeld
  <2> QED
    BY <2>2, <2>3, <2>4 DEF Inv
<1>3. CASE UNCHANGED vars
  <2>1. UNCHANGED <<locks, at, call, attempt, idx, effects, result>>
    BY <1>3 DEF vars, callVars
  <2> QED
    BY <2>1 DEF Inv, Typed, Counted, LocksAreHeld
<1> QED
  BY <1>1, <1>2, <1>3 DEF Next, Over

-----------------------------------------------------------------------------
\* However often answers get lost, a call is committed in no more attempts than
\* the handler's context leaves time for.
THEOREM CommittedInTime == Spec => []TwiceAtMost
<1>1. Inv => TwiceAtMost
  BY DEF Inv, Counted, TwiceAtMost
<1> QED
  BY <1>1, InvInit, InvNext, PTL DEF Spec

\* No path out of a batch leaves a row locked.
THEOREM RowsAreGivenBack == Spec => []LocksAreHeld
<1>1. Inv => LocksAreHeld
  BY DEF Inv
<1> QED
  BY <1>1, InvInit, InvNext, PTL DEF Spec

-----------------------------------------------------------------------------
(* The reads.  A query finds the rows as they are committed at that moment,  *)
(* and the last entry of the trail is what is committed now.                 *)

Extended(s, t, last) ==
    /\ Len(s) <= Len(t)
    /\ \A i \in 1 .. Len(s) : t[i] = s[i]
    /\ t[Len(t)] = last

IsTrail(s) == \E S : s \in Seq(S)

\* The rows of a kind that p has read are those of the moment i of its trail.
ReadAt(p, kind, i) ==
    \A key \in {kind} \X Names : got[p][key] \in {None, trail[p][i][key]}

Unread(p, kind) == \A key \in {kind} \X Names : got[p][key] = None

\* What a request has read so far, and which requests read at all.
ReadSoFar(p) ==
    /\ IsTrail(trail[p])
    /\ at[p] \in Reading =>
          /\ Len(trail[p]) > 0 /\ trail[p][Len(trail[p])] = tables
          /\ call[p].route \in OneValue \cup {"list", "updateJSON"}
    /\ at[p] # "idle" => call[p] \in Calls
    /\ at[p] = "query" => got[p] = Nothing
    /\ at[p] = "counters" =>
          /\ Listing(p) /\ Unread(p, "counter")
          /\ \E i \in 1 .. Len(trail[p]) : ReadAt(p, "gauge", i)
    /\ at[p] = "answer" =>
          \E j \in 1 .. Len(trail[p]) : \E i \in 1 .. j :
             ReadAt(p, "gauge", i) /\ ReadAt(p, "counter", j)
    /\ at[p] \notin Reading => got[p] = Nothing

ReadInv ==
    /\ Inv
    /\ DOMAIN got = Procs
    /\ \A p \in Procs : ReadSoFar(p)

\* A sequence keeps its moments when it gets one more.
LEMMA AppendExtends ==
    ASSUME NEW s, NEW last, IsTrail(s)
    PROVE  IsTrail(Append(s, last)) /\ Extended(s, Append(s, last), last)
<1>1. PICK S : s \in Seq(S)
  BY DEF IsTrail
<1>2. s \in Seq(S \cup {last})
  BY <1>1
<1>3. Append(s, last) \in Seq(S \cup {last})
  BY <1>2
<1> QED
  BY <1>1, <1>3 DEF IsTrail, Extended

\* Every step keeps the trails up to date.
LEMMA RecordExtends ==
    ASSUME Record, NEW p \in Procs, IsTrail(trail[p]),
           at[p] \in Reading => Len(trail[p]) > 0 /\ trail[p][Len(trail[p])] = tables
    PROVE  /\ IsTrail(trail'[p])
           /\ at'[p] \in Reading => Len(trail'[p]) > 0 /\ trail'[p][Len(trail'[p])] = tables'
           /\ at'[p] \in Reading /\ at[p] \in Reading
              => Extended(trail[p], trail'[p], tables')
<1>1. trail'[p] = CASE at'[p] \notin Reading -> <<>>
        [] at'[p] \in Reading /\ at[p] \notin Reading -> <<tables'>>
        [] at'[p] \in Reading /\ at[p] \in Reading ->
             IF tables' = tables THEN trail[p] ELSE Append(trail[p], tables')
  BY DEF Record
<1>2. CASE at'[p] \notin Reading
  <2>1. trail'[p] = <<>> /\ <<>> \in Seq({})
    BY <1>1, <1>2
  <2> QED
    BY <1>2, <2>1 DEF IsTrail
<1>3. CASE at'[p] \in Reading /\ at[p] \notin Reading
  <2>1. trail'[p] = <<tables'>>
    BY <1>1, <1>3
  <2>2. IsTrail(<<tables'>>)
    <3>1. <<tables'>> \in Seq({tables'})
      OBVIOUS
    <3> QED
      BY <3>1 DEF IsTrail
  <2>3. Len(<<tables'>>) = 1 /\ <<tables'>>[1] = tables'
    OBVIOUS
  <2>4. Len(trail'[p]) > 0 /\ trail'[p][Len(trail'[p])] = tables'
    BY <2>1, <2>3
  <2>5. IsTrail(trail'[p])
    BY <2>1, <2>2
  <2> QED
    BY <1>3, <2>4, <2>5
<1>4. CASE at'[p] \in Reading /\ at[p] \in Reading /\ tables' = tables
  <2>1. trail'[p] = trail[p]
    BY <1>1, <1>4
  <2>2. PICK S : trail[p] \in Seq(S)
    BY DEF IsTrail
  <2>3. Len(trail[p]) \in Nat
    BY <2>2
  <2>4. Extended(trail[p], trail'[p], tables')
    BY <1>4, <2>1, <2>3 DEF Extended
  <2>5. IsTrail(trail'[p])
    BY <2>1
  <2> QED
    BY <1>4, <2>1, <2>4, <2>5
<1>5. CASE at'[p] \in Reading /\ at[p] \in Reading /\ tables' # tables
  <2>1. trail'[p] = Append(trail[p], tables')
    BY <1>1, <1>5
  <2>2. PICK S : trail[p] \in Seq(S)
    BY DEF IsTrail
  <2>3. IsTrail(trail'[p]) /\ Extended(trail[p], trail'[p], tables')
    BY <2>1, AppendExtends
  <2>4. Len(trail[p]) \in Nat /\ Len(trail'[p]) = Len(trail[p]) + 1
    BY <2>1, <2>2
  <2> QED
    BY <1>5, <2>3, <2>4 DEF Extended
<1> QED
  BY <1>2, <1>3, <1>4, <1>5

\* What p has read stays true while others commit.
LEMMA OthersKeep ==
    ASSUME Record, NEW p \in Procs, ReadSoFar(p),
           at'[p] = at[p], call'[p] = call[p], got'[p] = got[p]
    PROVE  ReadSoFar(p)'
<1>1. /\ IsTrail(trail'[p])
      /\ at[p] \in Reading =>
            /\ Len(trail'[p]) > 0 /\ trail'[p][Len(trail'[p])] = tables'
            /\ Extended(trail[p], trail'[p], tables')
  BY RecordExtends DEF ReadSoFar
<1>2. Len(trail[p]) \in Nat /\ Len(trail'[p]) \in Nat
  BY <1>1 DEF ReadSoFar, IsTrail
<1>3. ASSUME at[p] \in Reading, NEW i \in 1 .. Len(trail[p]), NEW kind
      PROVE  i \in 1 .. Len(trail'[p]) /\ (ReadAt(p, kind, i) => ReadAt(p, kind, i)')
  BY <1>1, <1>2, <1>3 DEF Extended, ReadAt
<1>4. at[p] = "counters" \/ at[p] = "answer" => at[p] \in Reading
  BY DEF Reading
<1>5. ASSUME at[p] = "counters"
      PROVE  \E i \in 1 .. Len(trail'[p]) : ReadAt(p, "gauge", i)'
  BY <1>3, <1>4, <1>5 DEF ReadSoFar
<1>6. ASSUME at[p] = "answer"
      PROVE  \E j \in 1 .. Len(trail'[p]) : \E i \in 1 .. j :
                ReadAt(p, "gauge", i)' /\ ReadAt(p, "counter", j)'
  <2>1. PICK j \in 1 .. Len(trail[p]) : \E i \in 1 .. j :
          ReadAt(p, "gauge", i) /\ ReadAt(p, "counter", j)
    BY <1>6 DEF ReadSoFar
  <2>2. PICK i \in 1 .. j : ReadAt(p, "gauge", i) /\ ReadAt(p, "counter", j)
    BY <2>1
  <2>3. i \in 1 .. Len(trail[p])
    BY <1>2, <2>1, <2>2
  <2>4. ReadAt(p, "gauge", i)' /\ ReadAt(p, "counter", j)' /\ j \in 1 .. Len(trail'[p])
    BY <1>3, <1>4, <1>6, <2>2, <2>3
  <2> QED
    BY <2>2, <2>4
<1>7. (Unread(p, "counter") => Unread(p, "counter")') /\ (Listing(p) => Listing(p)')
  BY DEF Unread, Listing
<1> QED
  BY <1>1, <1>5, <1>6, <1>7 DEF ReadSoFar

\* A write that is over may be followed by a query; nothing has been read yet.
LEMMA EndsReads ==
    ASSUME Typed, NEW p \in Procs, NEW e \in {"ok", "error", "dropped"}, Ends(p, e)
    PROVE  /\ \E to \in {"idle", "attempt", "query"} :
                 at' = [at EXCEPT ![p] = to] /\ (to = "query" => ReadsBack(call[p]))
           /\ call' = call /\ got' = got
<1>1. \/ \E r \in {"ok", "swallowed", "failed"} : Return(p, r)
      \/ Again(p)
  BY DEF Ends
<1>2. call' = call /\ got' = got
  BY DEF Ends
<1>3. CASE Again(p)
  BY <1>2, <1>3 DEF Again
<1>4. ASSUME NEW r \in {"ok", "swallowed", "failed"}, Return(p, r)
      PROVE  \E to \in {"idle", "attempt", "query"} :
                 at' = [at EXCEPT ![p] = to] /\ (to = "query" => ReadsBack(call[p]))
  BY <1>4 DEF Return
<1> QED
  BY <1>1, <1>2, <1>3, <1>4

\* The writes of p leave what has been read alone.
LEMMA WriteReads ==
    ASSUME Inv, NEW p \in Procs,
           \/ Late(p) \/ Update(p) \/ Begin(p) \/ Break(p) \/ Skip(p) \/ Refuse(p)
           \/ Execute(p) \/ Overflow(p) \/ Deadlock(p) \/ Commit(p)
    PROVE  /\ at[p] \in Trying
           /\ \E to \in {"idle", "attempt", "tx", "query"} :
                 at' = [at EXCEPT ![p] = to] /\ (to = "query" => ReadsBack(call[p]))
           /\ call' = call /\ got' = got
<1>1. Typed /\ None \notin Procs
  BY PostgresAssumption DEF Inv
<1>2. ASSUME NEW e \in {"ok", "error", "dropped"}, Ends(p, e)
      PROVE  /\ \E to \in {"idle", "attempt", "tx", "query"} :
                   at' = [at EXCEPT ![p] = to] /\ (to = "query" => ReadsBack(call[p]))
             /\ call' = call /\ got' = got
  BY <1>1, <1>2, EndsReads
<1>3. CASE Late(p)
  BY <1>2, <1>3 DEF Late, Trying
<1>4. CASE Update(p)
  BY <1>2, <1>4 DEF Update, Effect, Succeed, Fault, Starts, Trying
<1>5. CASE Begin(p)
  BY <1>5 DEF Begin, Starts, Trying
<1>6. CASE Break(p)
  BY <1>2, <1>6 DEF Break, Fault, Trying
<1>7. CASE Skip(p) \/ Execute(p)
  <2>1. at[p] = "tx" /\ at' = at /\ call' = call /\ got' = got
    BY <1>7 DEF Skip, Execute, Valid, More
  <2>2. at' = [at EXCEPT ![p] = "tx"]
    BY <1>1, <2>1 DEF Typed
  <2> QED
    BY <2>1, <2>2 DEF Trying
<1>8. CASE Refuse(p)
  BY <1>2, <1>8 DEF Refuse, More, Trying
<1>9. CASE Overflow(p)
  BY <1>2, <1>9 DEF Overflow, Valid, More, Trying
<1>10. CASE Deadlock(p)
  <2>1. at[p] = "tx"
    <3>1. PICK ps \in SUBSET Procs : p \in ps /\ Circle(ps)
      BY <1>10 DEF Deadlock
    <3>2. Blocker(p) \in ps
      BY <3>1 DEF Circle
    <3> QED
      BY <1>1, <3>2 DEF Blocker, Valid, More
  <2> QED
    BY <1>2, <1>10, <2>1 DEF Deadlock, Trying
<1>11. CASE Commit(p)
  BY <1>2, <1>11 DEF Commit, Effect, Succeed, Fault, Trying
<1> QED
  BY <1>3, <1>4, <1>5, <1>6, <1>7, <1>8, <1>9, <1>10, <1>11

\* A query of p reads the moment in which it runs.
LEMMA QueryReads ==
    ASSUME ReadInv, NEW p \in Procs, Query(p), Record
    PROVE  ReadSoFar(p)' /\ DOMAIN got' = Procs
<1>0. /\ at \in [Procs -> {"idle", "attempt", "tx"} \cup Reading] /\ DOMAIN got = Procs
      /\ ReadSoFar(p)
  BY DEF ReadInv, Inv, Typed
<1>1. /\ at[p] \in {"query", "counters"}
      /\ at'[p] = (IF Listing(p) /\ at[p] = "query" THEN "counters" ELSE "answer")
      /\ got'[p] = [key \in Keys |-> IF key \in Wanted(p) THEN tables[key] ELSE got[p][key]]
      /\ DOMAIN got' = Procs
      /\ UNCHANGED <<tables, call>>
  BY <1>0 DEF Query, Found
<1>2. at[p] \in Reading /\ at'[p] \in Reading
  BY <1>1 DEF Reading
<1>3. trail'[p] = trail[p]
  BY <1>1, <1>2 DEF Record
<1> DEFINE n == Len(trail[p])
<1>4. /\ n \in Nat /\ n > 0 /\ trail[p][n] = tables /\ IsTrail(trail[p])
      /\ call[p] \in Calls /\ call[p].route \in OneValue \cup {"list", "updateJSON"}
  <2>1. /\ IsTrail(trail[p]) /\ Len(trail[p]) > 0 /\ trail[p][Len(trail[p])] = tables
        /\ call[p].route \in OneValue \cup {"list", "updateJSON"}
    BY <1>0, <1>2 DEF ReadSoFar
  <2>2. call[p] \in Calls
    BY <1>0, <1>1 DEF ReadSoFar
  <2>3. Len(trail[p]) \in Nat
    BY <2>1 DEF IsTrail
  <2> QED
    BY <2>1, <2>2, <2>3
<1>5. ASSUME NEW kind \in Kinds, NEW key \in {kind} \X Names
      PROVE  /\ key \in Keys
             /\ key \in Wanted(p) => got'[p][key] = trail'[p][n][key]
             /\ key \notin Wanted(p) => got'[p][key] = got[p][key]
  BY <1>1, <1>3, <1>4 DEF Keys
<1>6. CASE at[p] = "query"
  <2>1. \A key \in Keys : got[p][key] = None
    BY <1>0, <1>6 DEF ReadSoFar, Nothing
  <2>2. \A kind \in Kinds : ReadAt(p, kind, n)'
    <3> SUFFICES ASSUME NEW kind \in Kinds, NEW key \in {kind} \X Names
                 PROVE  got'[p][key] \in {None, trail'[p][n][key]}
      BY <1>3 DEF ReadAt
    <3> QED
      BY <1>5, <2>1
  <2>3. ReadAt(p, "gauge", n)' /\ ReadAt(p, "counter", n)'
    BY <2>2 DEF Kinds
  <2>4. CASE Listing(p)
    <3>1. Wanted(p) = {"gauge"} \X Names
      BY <1>6, <2>4 DEF Wanted, Queries
    <3>2. Unread(p, "counter")'
      BY <1>5, <2>1, <3>1 DEF Unread, Kinds, Keys
    <3> QED
      BY <1>1, <1>3, <1>4, <1>6, <2>3, <2>4, <3>2 DEF ReadSoFar, Listing, Reading
  <2>5. CASE ~Listing(p)
    BY <1>1, <1>3, <1>4, <1>6, <2>3, <2>5 DEF ReadSoFar, Reading
  <2> QED
    BY <2>4, <2>5
<1>7. CASE at[p] = "counters"
  <2>1. Listing(p) /\ Unread(p, "counter")
    BY <1>0, <1>7 DEF ReadSoFar
  <2>2. PICK i \in 1 .. n : ReadAt(p, "gauge", i)
    BY <1>0, <1>7 DEF ReadSoFar
  <2>3. Wanted(p) = {"counter"} \X Names
    BY <1>7, <2>1 DEF Wanted, Queries
  <2>4. ReadAt(p, "gauge", i)'
    BY <1>3, <1>5, <2>2, <2>3 DEF ReadAt, Kinds
  <2>5. ReadAt(p, "counter", n)'
    <3> SUFFICES ASSUME NEW key \in {"counter"} \X Names
                 PROVE  got'[p][key] \in {None, trail'[p][n][key]}
      BY <1>3 DEF ReadAt
    <3> QED
      BY <1>5, <2>3 DEF Kinds
  <2> QED
    BY <1>1, <1>3, <1>4, <1>7, <2>2, <2>4, <2>5 DEF ReadSoFar, Reading
<1> QED
  BY <1>1, <1>6, <1>7

\* A step of p, whatever it is, keeps what is said of the reads of p.
LEMMA StepReads ==
    ASSUME ReadInv, NEW p \in Procs, Step(p)
    PROVE  ReadInv'
<1>0. Inv' /\ Record
  BY StepPreserves DEF ReadInv, Step
<1>1. Inv /\ DOMAIN got = Procs /\ ReadSoFar(p) /\ IsTrail(trail[p])
      /\ at \in [Procs -> {"idle", "attempt", "tx"} \cup Reading]
  BY DEF ReadInv, Inv, Typed, ReadSoFar
<1>2. IsTrail(trail'[p])
  BY <1>0, <1>1, RecordExtends DEF ReadSoFar
<1>3. /\ \A q \in Procs \ {p} : at'[q] = at[q] /\ call'[q] = call[q] /\ got'[q] = got[q]
      /\ DOMAIN got' = Procs /\ ReadSoFar(p)'
  <2>1. CASE \/ Late(p) \/ Update(p) \/ Begin(p) \/ Break(p) \/ Skip(p) \/ Refuse(p)
             \/ Execute(p) \/ Overflow(p) \/ Deadlock(p) \/ Commit(p)
    <3>1. PICK to \in {"idle", "attempt", "tx", "query"} :
            at' = [at EXCEPT ![p] = to] /\ (to = "query" => ReadsBack(call[p]))
      BY <1>1, <2>1, WriteReads
    <3>2. at[p] \in Trying /\ call' = call /\ got' = got
      BY <1>1, <2>1, WriteReads
    <3>3. call[p] \in Calls /\ got[p] = Nothing /\ at'[p] = to
      BY <1>1, <3>1, <3>2 DEF ReadSoFar, Reading, Trying
    <3>4. to = "query" => call[p].route = "updateJSON"
      BY <3>1 DEF ReadsBack
    <3>5. at'[p] \in Reading => Len(trail'[p]) > 0 /\ trail'[p][Len(trail'[p])] = tables'
      BY <1>0, <1>1, RecordExtends DEF ReadSoFar
    <3>6. ReadSoFar(p)'
      BY <1>2, <3>1, <3>2, <3>3, <3>4, <3>5 DEF ReadSoFar, Reading, Nothing
    <3> QED
      BY <1>1, <3>1, <3>2, <3>6
  <2>2. CASE Query(p)
    BY <1>0, <1>1, <2>2, QueryReads DEF Query
  <2>3. CASE QueryFails(p)
    <3>1. /\ at' = [at EXCEPT ![p] = "answer"] /\ got' = [got EXCEPT ![p] = Nothing]
          /\ at[p] \in Reading /\ UNCHANGED <<tables, call>>
      BY <2>3 DEF QueryFails, Reading
    <3>2. trail'[p] = trail[p] /\ at'[p] = "answer" /\ got'[p] = Nothing
      BY <1>0, <1>1, <3>1 DEF Record, Reading
    <3>3. Len(trail[p]) \in Nat /\ Len(trail[p]) > 0
      BY <1>1, <3>1 DEF ReadSoFar, IsTrail
    <3>4. ReadAt(p, "gauge", 1)' /\ ReadAt(p, "counter", 1)'
      BY <3>2 DEF ReadAt, Nothing, Keys, Kinds
    <3> QED
      BY <1>1, <3>1, <3>2, <3>3, <3>4 DEF ReadSoFar, Reading
  <2>4. CASE Answer(p)
    BY <1>1, <1>2, <2>4 DEF Answer, ReadSoFar, Reading
  <2> QED
    BY <2>1, <2>2, <2>3, <2>4 DEF Step
<1>4. ASSUME NEW q \in Procs PROVE ReadSoFar(q)'
  <2>1. CASE q # p
    BY <1>0, <1>3, <2>1, OthersKeep DEF ReadInv
  <2> QED
    BY <1>3, <2>1
<1> QED
  BY <1>0, <1>3, <1>4 DEF ReadInv

\* Nothing has been read.
LEMMA ReadInvInit == Init => ReadInv
<1> SUFFICES ASSUME Init PROVE ReadInv
  OBVIOUS
<1>1. Inv
  BY InvInit
<1>2. ASSUME NEW p \in Procs PROVE ReadSoFar(p)
  <2>1. at[p] = "idle" /\ got[p] = Nothing /\ trail[p] = <<>> /\ <<>> \in Seq({})
    BY DEF Init
  <2> QED
    BY <2>1 DEF ReadSoFar, IsTrail, Reading
<1> QED
  BY <1>1, <1>2 DEF ReadInv, Init

\* Every step of every request keeps what is said of the reads.
LEMMA ReadInvNext == ReadInv /\ [Next]_vars => ReadInv'
<1> SUFFICES ASSUME ReadInv, [Next]_vars PROVE ReadInv'
  OBVIOUS
<1>1. Inv'
  BY InvNext DEF ReadInv
<1>2. ASSUME NEW p \in Procs, Step(p) PROVE ReadInv'
  BY <1>2, StepReads
<1>3. ASSUME NEW p \in Procs, NEW c \in Calls, Invoke(p, c) PROVE ReadInv'
  <2>1. /\ at[p] = "idle" /\ got' = got /\ call' = [call EXCEPT ![p] = c] /\ Record
        /\ at' = [at EXCEPT ![p] = IF c.route \in Writing THEN "attempt" ELSE "query"]
    BY <1>3 DEF Invoke
  <2>2. ASSUME NEW q \in Procs PROVE ReadSoFar(q)'
    <3>1. ReadSoFar(q) /\ Typed
      BY DEF ReadInv, Inv
    <3>2. CASE q # p
      BY <2>1, <3>1, <3>2, OthersKeep DEF Typed
    <3>3. CASE q = p
      <4>1. /\ at'[p] = (IF c.route \in Writing THEN "attempt" ELSE "query")
            /\ call'[p] = c /\ got'[p] = Nothing
        BY <2>1, <3>1, <3>3 DEF Typed, ReadSoFar, Reading
      <4>2. c.route \notin Writing => c.route \in OneValue \cup {"list"}
        BY PostgresAssumption DEF Routes, Writing, OneUpdate, OneValue
      <4>3. /\ IsTrail(trail'[p])
            /\ at'[p] \in Reading => Len(trail'[p]) > 0 /\ trail'[p][Len(trail'[p])] = tables'
        BY <2>1, <3>1, <3>3, RecordExtends DEF ReadSoFar
      <4> QED
        BY <3>3, <4>1, <4>2, <4>3 DEF ReadSoFar, Reading, Nothing
    <3> QED
      BY <3>2, <3>3
  <2> QED
    BY <1>1, <2>1, <2>2 DEF ReadInv
<1>4. CASE UNCHANGED vars
  <2>1. UNCHANGED <<tables, at, call, got, trail>>
    BY <1>4 DEF vars, callVars
  <2>2. ASSUME NEW q \in Procs PROVE ReadSoFar(q)'
    <3>1. ReadSoFar(q)
      BY DEF ReadInv
    <3> QED
      BY <2>1, <3>1 DEF ReadSoFar, ReadAt, Unread, Listing, IsTrail
  <2> QED
    BY <1>1, <2>1, <2>2 DEF ReadInv
<1> QED
  BY <1>2, <1>3, <1>4 DEF Next, Over

\* A gauge is reported missing for no other reason than that it was missing.
THEOREM NotFoundIsTold == Spec => []GaugeMissingIsTrue
<1>1. ASSUME ReadInv, NEW p \in Procs, at[p] = "answer", Status(p) = 404,
             Key(call[p].ms[1])[1] = "gauge"
      PROVE  \E i \in 1 .. Len(trail[p]) : trail[p][i][Key(call[p].ms[1])] = Absent
  <2> DEFINE key == Key(call[p].ms[1])
  <2>1. /\ call[p] \in Calls /\ call[p].route \in OneValue \cup {"list", "updateJSON"}
        /\ \E i \in 1 .. Len(trail[p]) : ReadAt(p, "gauge", i)
    <3>1. /\ call[p] \in Calls /\ call[p].route \in OneValue \cup {"list", "updateJSON"}
          /\ \E j \in 1 .. Len(trail[p]) : \E i \in 1 .. j : ReadAt(p, "gauge", i)
          /\ Len(trail[p]) \in Nat
      BY <1>1 DEF ReadInv, ReadSoFar, Reading, IsTrail
    <3> QED
      BY <3>1
  <2>2. call[p].route \in OneValue
    BY <1>1, <2>1 DEF Status, ListStatus, UpdateStatus, OneValue, OneUpdate
  <2>3. key \in {"gauge"} \X Names
    <3>1. call[p].ms \in Seq(Metric) /\ Len(call[p].ms) = 1
      BY <2>1, <2>2, PostgresAssumption
    <3>2. call[p].ms[1] \in Metric
      BY <3>1
    <3> QED
      BY <1>1, <3>2 DEF Key, Metric
  <2>4. Status(p) = ValueStatus("gauge", got[p] = Nothing, got[p][key] # Absent)
    BY <1>1, <2>2 DEF Status, OneValue, OneUpdate
  <2>5. got[p] # Nothing /\ got[p][key] = Absent
    BY <1>1, <2>4 DEF ValueStatus
  <2>6. PICK i \in 1 .. Len(trail[p]) : ReadAt(p, "gauge", i)
    BY <2>1
  <2>7. got[p][key] \in {None, trail[p][i][key]} /\ Absent # None
    BY <2>3, <2>6, PostgresAssumption DEF ReadAt, Values
  <2> QED
    BY <2>5, <2>7
<1>2. ReadInv => GaugeMissingIsTrue
  BY <1>1 DEF GaugeMissingIsTrue
<1> QED
  BY <1>2, ReadInvInit, ReadInvNext, PTL DEF Spec
=============================================================================
