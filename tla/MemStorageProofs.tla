-------------------------- MODULE MemStorageProofs --------------------------
(***************************************************************************)
(* Proofs about MemStorage, for any number of goroutines, any calls, any   *)
(* files and any word size.                                                *)
(***************************************************************************)
EXTENDS MemStorage, MetricsProofs

-----------------------------------------------------------------------------
(* The inductive invariant Inv.                                            *)

\* The metric a writer is at is a metric.
LEMMA CurrentIsMetric ==
    ASSUME Inv, NEW p \in Procs, Writing(p), More(p)
    PROVE  Current(p) \in Metric /\ idx[p] \in Nat
<1>1. call[p] \in Calls /\ idx[p] \in Nat
  BY DEF Inv, LockDiscipline, TypeOK
<1>2. call[p].ms \in Seq(Metric)
  BY <1>1, MemStorageAssumption
<1>3. idx[p] + 1 \in 1 .. Len(call[p].ms)
  BY <1>1, <1>2 DEF More, Submitted
<1> QED
  BY <1>1, <1>2, <1>3 DEF Current, Submitted

\* A read, however unlucky, returns a value or a miss.
LEMMA VisibleIsValue ==
    ASSUME Inv, NEW key \in Keys
    PROVE  Visible(key) \subseteq Values
<1>1. maps \in [Keys -> Values] /\ 0 \in Values /\ Absent \in Values
  BY MetricsAssumption DEF Inv, TypeOK, Values, Int64
<1>2. ASSUME NEW w \in Assigning(key[1])
      PROVE  Written(Current(w), maps[key]) \in Values
  <2>1. w \in Procs /\ at[w] = "assign"
    BY DEF Assigning
  <2>2. More(w) /\ Current(w).type \in Kinds /\ Current(w).val # Nil
    BY <2>1 DEF Inv, LockDiscipline
  <2>3. Current(w) \in Metric
    BY <2>1, <2>2, CurrentIsMetric DEF Writing
  <2> QED
    BY <1>1, <2>2, <2>3, WrittenInWord
<1> QED
  BY <1>1, <1>2 DEF Visible

\* Nobody writes while a save iterates, so it sees what is there.
LEMMA SaveIsUndisturbed ==
    ASSUME Inv, NEW p \in Procs, at[p] = "marshal", NEW key \in Keys
    PROVE  Visible(key) = {committed[key]} /\ Assigning(key[1]) = {}
<1>1. \A w \in Procs : ~Writing(w)
  BY DEF Inv, LockDiscipline
<1>2. maps = committed
  BY <1>1 DEF Inv, LockDiscipline
<1>3. Assigning(key[1]) = {}
  BY <1>1 DEF Assigning, Writing
<1> QED
  BY <1>2, <1>3 DEF Visible

\* The server starts with the lock free and both maps empty.
LEMMA InvInit == Init => Inv
<1> SUFFICES ASSUME Init PROVE Inv
  OBVIOUS
<1>1. EmptyMaps \in [Keys -> Values] /\ Unvisited \in [Keys -> Values \cup {None}]
  BY DEF EmptyMaps, Unvisited, Values
<1>2. TypeOK
  BY <1>1 DEF Init, TypeOK, Locations
<1>3. LockDiscipline
  BY DEF Init, LockDiscipline, Writing
<1>4. SaveSeesWholeCalls /\ LeakNeedsNilMap
  BY DEF Init, SaveSeesWholeCalls, LeakNeedsNilMap, Leaked
<1> QED
  BY <1>2, <1>3, <1>4 DEF Inv

\* The decoded file has the type of the maps.
LEMMA LoadPreserves ==
    ASSUME Inv, NEW f \in Files, Load(f)
    PROVE  Inv'
<1>1. maps' \in [Keys -> Values]
  <2>1. f \in [Kinds -> [Names -> Values] \cup {Nil}]
    BY MemStorageAssumption
  <2>2. ASSUME NEW key \in Keys
        PROVE  (IF f[key[1]] = Nil THEN Absent ELSE f[key[1]][key[2]]) \in Values
    BY <2>1 DEF Keys, Values
  <2> QED
    BY <2>2 DEF Load
<1>2. TypeOK'
  BY <1>1 DEF Inv, TypeOK, Load, lockVars, procVars
<1>3. LockDiscipline'
  BY DEF Inv, LockDiscipline, Load, lockVars, procVars, Writing, More, Submitted
<1>4. SaveSeesWholeCalls'
  BY DEF Inv, LockDiscipline, SaveSeesWholeCalls, Load, procVars
<1>5. LeakNeedsNilMap'
  BY DEF Inv, LockDiscipline, LeakNeedsNilMap, Leaked, Load, lockVars, procVars
<1> QED
  BY <1>2, <1>3, <1>4, <1>5 DEF Inv

\* A step that moves one goroutine and neither the lock nor the data.
LEMMA MovePreserves ==
    ASSUME Inv, NEW p \in Procs,
           Expire(p) \/ Enter(p) \/ (\E c \in Calls : Invoke(p, c))
    PROVE  Inv'
<1>0. Unvisited \in [Keys -> Values \cup {None}]
  BY DEF Unvisited
<1>1. CASE Expire(p)
  <2>1. TypeOK'
    BY <1>0, <1>1 DEF Inv, TypeOK, Expire, Return, Go, Locations, lockVars
  <2>2. LockDiscipline'
    BY <1>1 DEF Inv, TypeOK, LockDiscipline, Expire, Return, Go, lockVars, Writing,
                More, Current, Submitted
  <2>3. SaveSeesWholeCalls'
    BY <1>1 DEF Inv, TypeOK, SaveSeesWholeCalls, Expire, Return, Go
  <2>4. LeakNeedsNilMap'
    BY <1>1 DEF Inv, TypeOK, LockDiscipline, LeakNeedsNilMap, Leaked, Expire, Return, Go, lockVars
  <2> QED
    BY <2>1, <2>2, <2>3, <2>4 DEF Inv
<1>2. CASE Enter(p)
  <2>0. PICK to \in {"lock", "rlock", "lookup", "scan"} :
           Go(p, "entry", to) /\ (to = "lock" => call[p].op \in Writers)
    <3>1. at[p] = "entry" /\ call[p] \in Calls
      BY <1>2 DEF Enter, Go, Inv, LockDiscipline
    <3>2. call[p].op \in Ops
      BY <3>1, MemStorageAssumption
    <3>3. CASE call[p].op \in Writers
      BY <1>2, <3>3 DEF Enter, Writers
    <3>4. CASE call[p].op = "save"
      BY <1>2, <3>4 DEF Enter, Writers
    <3>5. CASE call[p].op = "get"
      BY <1>2, <3>5 DEF Enter, Writers
    <3>6. CASE call[p].op = "getAll"
      BY <1>2, <3>6 DEF Enter, Writers
    <3> QED
      BY <3>2, <3>3, <3>4, <3>5, <3>6 DEF Ops, Writers
  <2> UNCHANGED <<phase, alive, lockVars, dataVars, call, idx, seen, reply>>
    BY <1>2 DEF Enter
  <2>1. TypeOK'
    BY <2>0 DEF Inv, TypeOK, Go, Locations, lockVars, dataVars
  <2>2. LockDiscipline'
    BY <2>0 DEF Inv, TypeOK, LockDiscipline, Go, lockVars, dataVars, Writing,
                More, Current, Submitted
  <2>3. SaveSeesWholeCalls'
    BY <2>0 DEF Inv, TypeOK, SaveSeesWholeCalls, Go, dataVars
  <2>4. LeakNeedsNilMap'
    BY <2>0 DEF Inv, TypeOK, LockDiscipline, LeakNeedsNilMap, Leaked, Go, lockVars, dataVars
  <2> QED
    BY <2>1, <2>2, <2>3, <2>4 DEF Inv
<1>3. ASSUME NEW c \in Calls, Invoke(p, c)
      PROVE  Inv'
  <2>1. TypeOK'
    BY <1>3 DEF Inv, TypeOK, Invoke, Go, Locations, lockVars, dataVars
  <2>2. LockDiscipline'
    BY <1>3 DEF Inv, TypeOK, LockDiscipline, Invoke, Go, lockVars, dataVars, Writing,
                More, Current, Submitted
  <2>3. SaveSeesWholeCalls'
    BY <1>3 DEF Inv, TypeOK, SaveSeesWholeCalls, Invoke, Go, dataVars
  <2>4. LeakNeedsNilMap'
    BY <1>3 DEF Inv, TypeOK, LockDiscipline, LeakNeedsNilMap, Leaked, Invoke, Go, lockVars, dataVars
  <2> QED
    BY <2>1, <2>2, <2>3, <2>4 DEF Inv
<1> QED
  BY <1>1, <1>2, <1>3

\* sync.RWMutex.
LEMMA LockPreserves ==
    ASSUME Inv, NEW p \in Procs, Announce(p) \/ Acquire(p) \/ RLock(p)
    PROVE  Inv'
<1>1. CASE Announce(p)
  <2>1. TypeOK'
    BY <1>1 DEF Inv, TypeOK, Announce, Go, Locations, dataVars
  <2>2. LockDiscipline'
    BY <1>1, MemStorageAssumption
       DEF Inv, TypeOK, LockDiscipline, Announce, Go, dataVars, Writing, More, Current, Submitted
  <2>3. SaveSeesWholeCalls'
    BY <1>1 DEF Inv, TypeOK, SaveSeesWholeCalls, Announce, Go, dataVars
  <2>4. LeakNeedsNilMap'
    BY <1>1 DEF Inv, TypeOK, LeakNeedsNilMap, Leaked, Announce, Go
  <2> QED
    BY <2>1, <2>2, <2>3, <2>4 DEF Inv
<1>2. CASE Acquire(p)
  <2>1. TypeOK'
    BY <1>2 DEF Inv, TypeOK, Acquire, Go, Locations, lockVars, dataVars
  <2>2. LockDiscipline'
    <3>1. \A q \in Procs : q # p => ~Writing(q)
      BY <1>2 DEF Inv, LockDiscipline, Acquire, Go, Writing
    <3>2. ~Writing(p)
      BY <1>2 DEF Acquire, Go, Writing
    <3>3. maps = committed
      BY <3>1, <3>2 DEF Inv, LockDiscipline
    <3> QED
      BY <1>2, <3>1, <3>2, <3>3
         DEF Inv, TypeOK, LockDiscipline, Acquire, Go, lockVars, dataVars, Writing, More, Current, Submitted
  <2>3. SaveSeesWholeCalls'
    BY <1>2 DEF Inv, TypeOK, SaveSeesWholeCalls, Acquire, Go, dataVars
  <2>4. LeakNeedsNilMap'
    BY <1>2 DEF Inv, TypeOK, LockDiscipline, LeakNeedsNilMap, Leaked, Acquire, Go, lockVars, dataVars
  <2> QED
    BY <2>1, <2>2, <2>3, <2>4 DEF Inv
<1>3. CASE RLock(p)
  <2>1. TypeOK'
    BY <1>3 DEF Inv, TypeOK, RLock, Go, Locations, dataVars
  <2>2. LockDiscipline'
    <3>1. \A q \in Procs : ~Writing(q)
      BY <1>3, MemStorageAssumption DEF Inv, TypeOK, LockDiscipline, RLock, Go, Writing
    <3> QED
      BY <1>3, <3>1
         DEF Inv, TypeOK, LockDiscipline, RLock, Go, dataVars, Writing, More, Current, Submitted
  <2>3. SaveSeesWholeCalls'
    <3>1. \A key \in Keys : seen[p][key] = None
      BY <1>3 DEF Inv, LockDiscipline, RLock, Go, Unvisited
    <3> QED
      BY <1>3, <3>1 DEF Inv, TypeOK, SaveSeesWholeCalls, RLock, Go, dataVars
  <2>4. LeakNeedsNilMap'
    BY <1>3 DEF Inv, TypeOK, LockDiscipline, LeakNeedsNilMap, Leaked, RLock, Go
  <2> QED
    BY <2>1, <2>2, <2>3, <2>4 DEF Inv
<1> QED
  BY <1>1, <1>2, <1>3

\* The loop of a writer: to its next metric, into an assignment, out of it.
LEMMA LoopPreserves ==
    ASSUME Inv, NEW p \in Procs, Skip(p) \/ Assign(p) \/ Store(p)
    PROVE  Inv'
<1>0. at[p] \in {"hold", "assign"} /\ Writing(p) /\ owner = p
  BY DEF Skip, Assign, Store, Go, Writing, Inv, LockDiscipline
<1>a. \A q \in Procs : q # p => ~Writing(q) /\ at[q] # "marshal"
  BY <1>0 DEF Inv, LockDiscipline, Writing
\* The others are where they were, and p is alone.
<1>b. ASSUME at'[p] \in {"hold", "assign"},
             \A q \in Procs \ {p} : at'[q] = at[q] /\ idx'[q] = idx[q],
             UNCHANGED <<phase, nilMaps, lockVars, call, seen>>,
             idx'[p] = 0 => maps' = committed',
             at'[p] = "assign" => /\ More(p)'
                                  /\ Current(p)'.type \in Kinds \ nilMaps
                                  /\ Current(p)'.val # Nil
      PROVE  LockDiscipline'
  <2>1. /\ readers = {} /\ call[p] \in Calls /\ call[p].op \in Writers
        /\ readers = {q \in Procs : at[q] = "marshal"} /\ phase # "boot"
        /\ seen[p] = Unvisited /\ LockDiscipline
    BY <1>0 DEF Inv, LockDiscipline, Writing
  <2>2. \A q \in Procs \ {p} : Writing(q)' = Writing(q)
    BY <1>b DEF Writing
  <2>3. \A q \in Procs \ {p} : ~Writing(q)' /\ at'[q] # "marshal"
    BY <1>a, <1>b, <2>2
  <2>4. readers' = {q \in Procs : at'[q] = "marshal"}
    BY <1>b, <2>1, <2>3 DEF lockVars
  <2>5. \A q \in Procs : at'[q] = "assign" => q = p
    BY <2>3 DEF Writing
  <2> QED
    BY <1>0, <1>b, <2>1, <2>3, <2>4, <2>5 DEF LockDiscipline, lockVars, Writing
<1>1. CASE Skip(p)
  <2>1. TypeOK'
    BY <1>1 DEF Inv, TypeOK, Skip, Go, Locations, lockVars, dataVars
  <2>2. LockDiscipline'
    BY <1>1, <1>b DEF Inv, TypeOK, Skip, Go, lockVars, dataVars
  <2>3. SaveSeesWholeCalls'
    BY <1>1 DEF Inv, TypeOK, SaveSeesWholeCalls, Skip, Go, dataVars
  <2>4. LeakNeedsNilMap'
    BY <1>0, <1>1 DEF Inv, TypeOK, LeakNeedsNilMap, Leaked, Skip, Go, lockVars, dataVars
  <2> QED
    BY <2>1, <2>2, <2>3, <2>4 DEF Inv
<1>2. CASE Assign(p)
  <2>1. TypeOK'
    BY <1>2 DEF Inv, TypeOK, Assign, Go, Locations, lockVars, dataVars
  <2>2. LockDiscipline'
    BY <1>0, <1>2, <1>b
       DEF Inv, TypeOK, LockDiscipline, Assign, Go, lockVars, dataVars, More, Current, Submitted
  <2>3. SaveSeesWholeCalls'
    BY <1>2 DEF Inv, TypeOK, SaveSeesWholeCalls, Assign, Go, dataVars
  <2>4. LeakNeedsNilMap'
    BY <1>0, <1>2 DEF Inv, TypeOK, LeakNeedsNilMap, Leaked, Assign, Go, lockVars, dataVars
  <2> QED
    BY <2>1, <2>2, <2>3, <2>4 DEF Inv
<1>3. CASE Store(p)
  <2>1. TypeOK'
    <3>1. More(p) /\ Current(p).type \in Kinds /\ Current(p).val # Nil
      BY <1>3 DEF Store, Go, Inv, LockDiscipline
    <3>2. Current(p) \in Metric
      BY <1>0, <3>1, CurrentIsMetric
    <3>3. maps' \in [Keys -> Values]
      BY <1>3, <3>1, <3>2, PutInMaps DEF Store, Inv, TypeOK
    <3> QED
      BY <1>3, <3>3 DEF Inv, TypeOK, Store, Go, Locations, lockVars
  <2>2. LockDiscipline'
    BY <1>3, <1>b DEF Inv, TypeOK, Store, Go, lockVars
  <2>3. SaveSeesWholeCalls'
    BY <1>3 DEF Inv, TypeOK, SaveSeesWholeCalls, Store, Go
  <2>4. LeakNeedsNilMap'
    BY <1>0, <1>3 DEF Inv, TypeOK, LeakNeedsNilMap, Leaked, Store, Go, lockVars
  <2> QED
    BY <2>1, <2>2, <2>3, <2>4 DEF Inv
<1> QED
  BY <1>1, <1>2, <1>3

\* A writer leaves: with the lock released, or panicking with the lock held.
LEMMA LeavePreserves ==
    ASSUME Inv, NEW p \in Procs, Finish(p) \/ Reject(p) \/ Panic(p)
    PROVE  Inv'
<1>0. at[p] = "hold" /\ Writing(p) /\ owner = p /\ call[p] \in Calls
  BY DEF Finish, Reject, Panic, Return, Go, Writing, Inv, LockDiscipline
<1>a. \A q \in Procs : q # p => ~Writing(q) /\ at[q] # "marshal" /\ at[q] # "drain"
  BY <1>0 DEF Inv, LockDiscipline, Writing
<1>b. /\ at' = [at EXCEPT ![p] = "idle"] /\ alive' = alive
      /\ idx' = [idx EXCEPT ![p] = 0] /\ call' = [call EXCEPT ![p] = None]
      /\ seen' = [seen EXCEPT ![p] = Unvisited]
      /\ \E r \in {"ok", "error", "panic"} : reply' = [reply EXCEPT ![p] = r]
      /\ UNCHANGED <<phase, nilMaps, readers, maps>>
  BY DEF Finish, Reject, Panic, Return, Go
<1>c. Unvisited \in [Keys -> Values \cup {None}]
  BY DEF Unvisited
<1>1. CASE Unlock
  <2>1. TypeOK'
    BY <1>b, <1>c, <1>1 DEF Inv, TypeOK, Unlock, Locations
  <2>2. LockDiscipline'
    BY <1>0, <1>a, <1>b, <1>1
       DEF Inv, TypeOK, LockDiscipline, Unlock, Writing, More, Current, Submitted
  <2>3. SaveSeesWholeCalls'
    BY <1>0, <1>a, <1>b DEF Inv, TypeOK, SaveSeesWholeCalls
  <2>4. LeakNeedsNilMap'
    BY <1>1 DEF LeakNeedsNilMap, Leaked, Unlock
  <2> QED
    BY <2>1, <2>2, <2>3, <2>4 DEF Inv
<1>2. CASE Panic(p) /\ UNCHANGED <<owner, committed>> /\ call[p].op # "batch"
  <2>1. TypeOK'
    BY <1>b, <1>c, <1>2 DEF Inv, TypeOK, Locations
  \* The update panics at its only metric, so the maps are as the last writer
  \* left them.
  <2>2. maps = committed
    <3>1. Len(call[p].ms) = 1
      BY <1>0, <1>2, MemStorageAssumption DEF Inv, LockDiscipline, Writers
    <3>2. idx[p] = 0
      BY <1>2, <3>1 DEF Panic, More, Submitted, Inv, TypeOK
    <3> QED
      BY <1>0, <3>2 DEF Inv, LockDiscipline
  <2>3. LockDiscipline'
    BY <1>0, <1>a, <1>b, <1>2, <2>2
       DEF Inv, TypeOK, LockDiscipline, Writing, More, Current, Submitted
  <2>4. SaveSeesWholeCalls'
    BY <1>0, <1>a, <1>b, <1>2 DEF Inv, TypeOK, SaveSeesWholeCalls
  <2>5. LeakNeedsNilMap'
    BY <1>b, <1>2 DEF LeakNeedsNilMap, Panic
  <2> QED
    BY <2>1, <2>3, <2>4, <2>5 DEF Inv
<1> QED
  BY <1>1, <1>2 DEF Finish, Reject, Panic

\* Readers, with the lock (Save) and without it.
LEMMA ReadPreserves ==
    ASSUME Inv, NEW p \in Procs,
           Get(p) \/ GetAllReturn(p) \/ RUnlock(p) \/ \E key \in Keys : Visit(p, key)
    PROVE  Inv'
<1>0. Unvisited \in [Keys -> Values \cup {None}]
  BY DEF Unvisited
<1>1. ASSUME NEW kind, Fatal(p, kind)
      PROVE  Inv'
  BY <1>1 DEF Fatal, lockVars, dataVars, procVars, Inv, TypeOK, LockDiscipline,
              SaveSeesWholeCalls, LeakNeedsNilMap, Leaked, Writing, More, Current, Submitted
<1>2. ASSUME NEW from \in {"lookup", "scan", "marshal"}, Return(p, from, "ok"),
             readers' = readers \ {p}, UNCHANGED <<alive, owner, maps, committed>>
      PROVE  Inv'
  <2>1. TypeOK'
    BY <1>0, <1>2 DEF Inv, TypeOK, Return, Go, Locations
  <2>2. LockDiscipline'
    BY <1>2 DEF Inv, TypeOK, LockDiscipline, Return, Go, Writing, More, Current, Submitted
  <2>3. SaveSeesWholeCalls'
    BY <1>2 DEF Inv, TypeOK, SaveSeesWholeCalls, Return, Go
  <2>4. LeakNeedsNilMap'
    BY <1>2 DEF Inv, TypeOK, LockDiscipline, LeakNeedsNilMap, Leaked, Return, Go
  <2> QED
    BY <2>1, <2>2, <2>3, <2>4 DEF Inv
<1>3. ASSUME NEW key \in Keys, Visit(p, key), alive' = alive
      PROVE  Inv'
  <2>0. PICK v \in Visible(key) : seen' = [seen EXCEPT ![p][key] = v]
    BY <1>3 DEF Visit, Fatal
  <2>a. at' = at /\ UNCHANGED <<phase, lockVars, dataVars, call, idx, reply>>
    BY <1>3 DEF Visit, Fatal, Go, Inv, TypeOK
  <2>1. TypeOK'
    BY <1>3, <2>0, <2>a, VisibleIsValue DEF Inv, TypeOK, lockVars, dataVars
  <2>2. LockDiscipline'
    BY <1>3, <2>0, <2>a
       DEF Visit, Inv, TypeOK, LockDiscipline, lockVars, dataVars, Writing, More, Current, Submitted
  <2>3. SaveSeesWholeCalls'
    <3>1. at[p] = "marshal" => v = committed[key]
      BY <2>0, SaveIsUndisturbed
    <3> QED
      BY <2>0, <2>a, <3>1 DEF Inv, TypeOK, SaveSeesWholeCalls, dataVars
  <2>4. LeakNeedsNilMap'
    BY <2>a DEF Inv, LeakNeedsNilMap, Leaked, lockVars, dataVars
  <2> QED
    BY <2>1, <2>2, <2>3, <2>4 DEF Inv
<1>4. CASE Get(p)
  <2>1. CASE Fatal(p, Key(Current(p))[1])
    BY <1>1, <2>1
  <2>2. CASE Return(p, "lookup", "ok") /\ UNCHANGED <<alive, lockVars, maps, committed>>
    <3>1. readers' = readers \ {p}
      BY <2>2 DEF Return, Go, lockVars, Inv, LockDiscipline
    <3> QED
      BY <1>2, <2>2, <3>1 DEF lockVars
  <2> QED
    BY <1>4, <2>1, <2>2 DEF Get
<1>5. CASE GetAllReturn(p)
  <2>1. readers' = readers \ {p}
    BY <1>5 DEF GetAllReturn, Return, Go, lockVars, Inv, LockDiscipline
  <2> QED
    BY <1>2, <1>5, <2>1 DEF GetAllReturn, lockVars
<1>6. CASE RUnlock(p)
  BY <1>2, <1>6 DEF RUnlock
<1>7. ASSUME NEW key \in Keys, Visit(p, key)
      PROVE  Inv'
  BY <1>1, <1>3, <1>7 DEF Visit
<1> QED
  BY <1>4, <1>5, <1>6, <1>7

\* Every step of the repository and of its callers keeps the invariant.
LEMMA InvNext == Inv /\ [Next]_vars => Inv'
<1> SUFFICES ASSUME Inv, [Next]_vars PROVE Inv'
  OBVIOUS
<1>1. ASSUME NEW f \in Files, Load(f) PROVE Inv'
  BY <1>1, LoadPreserves
<1>2. CASE LoadNothing
  BY <1>2 DEF LoadNothing, lockVars, dataVars, procVars, Inv, TypeOK, LockDiscipline,
              SaveSeesWholeCalls, LeakNeedsNilMap, Leaked, Writing, More, Current, Submitted
<1>3. ASSUME NEW p \in Procs, Step(p) PROVE Inv'
  BY <1>3, MovePreserves, LockPreserves, LoopPreserves, LeavePreserves, ReadPreserves DEF Step
<1>4. ASSUME NEW p \in Procs, NEW c \in Calls, Invoke(p, c) PROVE Inv'
  BY <1>4, MovePreserves
<1>5. CASE UNCHANGED vars
  BY <1>5 DEF vars, lockVars, dataVars, procVars, Inv, TypeOK, LockDiscipline,
              SaveSeesWholeCalls, LeakNeedsNilMap, Leaked, Writing, More, Current, Submitted
<1> QED
  BY <1>1, <1>2, <1>3, <1>4, <1>5 DEF Next, Stopped

\* Every variable keeps its type: in particular no sequence of updates, reads
\* and panics puts anything but a word or a miss into the maps.
THEOREM TypeCorrect == Spec => []TypeOK
<1>1. Inv => TypeOK
  BY DEF Inv
<1> QED
  BY <1>1, InvInit, InvNext, PTL DEF Spec

\* The inductive invariant holds in every reachable state.
THEOREM Invariance == Spec => []Inv
  BY InvInit, InvNext, PTL DEF Spec

\* A writer is alone among writers and saves, for any number of goroutines
\* and whatever calls they make.
THEOREM WritersAreAlone == Spec => []MutualExclusion
<1>1. Inv => MutualExclusion
  BY DEF Inv, LockDiscipline, MutualExclusion, Writing
<1> QED
  BY <1>1, InvInit, InvNext, PTL DEF Spec

\* Save picks up the state between two calls, never the middle of one.
THEOREM SaveIsConsistent == Spec => []SaveSeesWholeCalls
<1>1. Inv => SaveSeesWholeCalls
  BY DEF Inv
<1> QED
  BY <1>1, InvInit, InvNext, PTL DEF Spec

\* Without a nil map no panic can keep the lock.
THEOREM NoLeakWithoutNilMap == Spec => []LeakNeedsNilMap
<1>1. Inv => LeakNeedsNilMap
  BY DEF Inv
<1> QED
  BY <1>1, InvInit, InvNext, PTL DEF Spec

\* A leaked lock stays leaked, and with it writes and saves are over.
THEOREM LeakIsPermanent == Spec => LeakIsForever
<1> DEFINE Frozen == /\ maps' = maps /\ owner' = owner
                     /\ \A p \in Procs : at'[p] = "marshal" => at[p] = "marshal"
<1>1. ASSUME Inv, [Next]_vars, Leaked PROVE Frozen
  <2>1. \A p \in Procs : at[p] \notin {"drain", "hold", "assign"}
    BY <1>1 DEF Leaked, Inv, LockDiscipline
  <2>2. owner # None /\ phase # "boot"
    BY <1>1 DEF Leaked, Inv, LockDiscipline
  <2>3. ASSUME NEW p \in Procs, Step(p) PROVE Frozen
    <3>1. CASE Expire(p)
      BY <1>1, <3>1 DEF Expire, Return, Go, lockVars, Inv, TypeOK
    <3>2. CASE Enter(p)
      <4>1. at'[p] # "marshal"
        <5>1. at[p] = "entry" /\ call[p] \in Calls
          BY <1>1, <3>2 DEF Enter, Go, Inv, LockDiscipline
        <5>2. call[p].op \in Ops
          BY <5>1, MemStorageAssumption
        <5>3. call[p].op \in Writers => at'[p] = "lock"
          BY <1>1, <3>2 DEF Enter, Go, Inv, TypeOK, Writers
        <5>4. call[p].op = "save" => at'[p] = "rlock"
          BY <1>1, <3>2 DEF Enter, Go, Inv, TypeOK, Writers
        <5>5. call[p].op = "get" => at'[p] = "lookup"
          BY <1>1, <3>2 DEF Enter, Go, Inv, TypeOK, Writers
        <5>6. call[p].op = "getAll" => at'[p] = "scan"
          BY <1>1, <3>2 DEF Enter, Go, Inv, TypeOK, Writers
        <5> QED
          BY <5>2, <5>3, <5>4, <5>5, <5>6 DEF Ops, Writers
      <4> QED
        BY <1>1, <3>2, <4>1 DEF Enter, Go, lockVars, dataVars, Inv, TypeOK
    <3>3. ~Announce(p) /\ ~RLock(p)
      BY <2>2 DEF Announce, RLock
    <3>4. ~Acquire(p) /\ ~Skip(p) /\ ~Assign(p) /\ ~Store(p) /\ ~Finish(p) /\ ~Reject(p) /\ ~Panic(p)
      BY <2>1 DEF Acquire, Skip, Assign, Store, Finish, Reject, Panic, Return, Go
    <3>5. CASE RUnlock(p)
      BY <1>1, <3>5 DEF RUnlock, Return, Go, Inv, TypeOK
    <3>6. CASE Get(p)
      BY <1>1, <3>6 DEF Get, Fatal, Return, Go, lockVars, dataVars, procVars, Inv, TypeOK
    <3>7. CASE GetAllReturn(p)
      BY <1>1, <3>7 DEF GetAllReturn, Return, Go, lockVars, Inv, TypeOK
    <3>8. ASSUME NEW key \in Keys, Visit(p, key) PROVE Frozen
      BY <1>1, <3>8 DEF Visit, Fatal, Go, lockVars, dataVars, procVars, Inv, TypeOK
    <3> QED
      BY <2>3, <3>1, <3>2, <3>3, <3>4, <3>5, <3>6, <3>7, <3>8 DEF Step
  <2>4. ASSUME NEW p \in Procs, NEW c \in Calls, Invoke(p, c) PROVE Frozen
    BY <1>1, <2>4 DEF Invoke, Go, lockVars, dataVars, Inv, TypeOK
  <2>5. CASE UNCHANGED vars
    BY <2>5 DEF vars, lockVars, dataVars, procVars
  <2>6. ~LoadNothing /\ \A f \in Files : ~Load(f)
    BY <2>2 DEF LoadNothing, Load
  <2> QED
    BY <1>1, <2>3, <2>4, <2>5, <2>6 DEF Next, Stopped
<1>2. Inv /\ [Next]_vars => [Leaked => Frozen]_vars
  BY <1>1
<1> QED
  BY <1>2, InvInit, InvNext, PTL DEF Spec, LeakIsForever
=============================================================================
