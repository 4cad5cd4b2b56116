------------------------ MODULE MemStorageRefinement ------------------------
(***************************************************************************)
(* MemStorage implements MetricsStore: whatever its goroutines do between  *)
(* the lock and the unlock, every call takes effect at one moment, the one *)
(* at which it releases the lock.                                          *)
(***************************************************************************)
EXTENDS MemStorageProofs

\* A call is under way from its invocation to its return, and once it reads it
\* is one of the calls that only read.
Served(p) ==
    /\ IF at[p] = "idle" THEN call[p] = None
                         ELSE call[p] \in Calls /\ phase = "serving"
    /\ at[p] \in {"lookup", "scan", "rlock", "marshal"}
          => call[p].op \in {"get", "getAll", "save"}

\* A writer has put the metrics it is past, and no others, over the state the
\* last writer left, and could write each of them.
HalfDone(p) ==
    LET ms == call[p].ms IN
    Writing(p) =>
        /\ idx[p] <= Len(ms)
        /\ maps = Puts(committed, ms)[idx[p]]
        /\ \A i \in 1 .. idx[p] : Known(ms[i]) => ms[i].val # Nil /\ ms[i].type \notin nilMaps

RefInv == Inv /\ \A p \in Procs : Served(p) /\ HalfDone(p)

-----------------------------------------------------------------------------
(* RefInv is inductive.                                                    *)

\* The metrics of a call under way are metrics.
LEMMA CallIsTyped ==
    ASSUME NEW p \in Procs, call[p] \in Calls
    PROVE  call[p].ms \in Seq(Metric) /\ Len(call[p].ms) \in Nat /\ call[p].op \in Ops
  BY MemStorageAssumption

\* At the start nobody is in a call.
LEMMA RefInvInit == Init => RefInv
<1> SUFFICES ASSUME Init PROVE RefInv
  OBVIOUS
<1>1. Inv
  BY InvInit
<1>2. \A p \in Procs : at[p] = "idle" /\ call[p] = None
  BY DEF Init
<1> QED
  BY <1>1, <1>2 DEF RefInv, Served, HalfDone, Writing

\* A step of p keeps what the others have done, if it leaves the data alone
\* or nobody else is writing.
LEMMA OthersKeep ==
    ASSUME RefInv, NEW p \in Procs, phase = "serving", UNCHANGED <<phase, nilMaps>>,
           \A q \in Procs \ {p} : at'[q] = at[q] /\ call'[q] = call[q] /\ idx'[q] = idx[q],
           Writing(p) \/ UNCHANGED <<maps, committed>>
    PROVE  \A q \in Procs \ {p} : Served(q)' /\ HalfDone(q)'
<1> SUFFICES ASSUME NEW q \in Procs \ {p} PROVE Served(q)' /\ HalfDone(q)'
  OBVIOUS
<1>1. Served(q) /\ HalfDone(q)
  BY DEF RefInv
<1>2. at'[q] = at[q] /\ call'[q] = call[q] /\ idx'[q] = idx[q]
  OBVIOUS
<1>3. Served(q)'
  BY <1>1, <1>2 DEF Served
<1>4. Writing(q) => UNCHANGED <<maps, committed>>
  BY DEF RefInv, Inv, LockDiscipline, Writing
<1>5. HalfDone(q)'
  BY <1>1, <1>2, <1>4 DEF HalfDone, Writing
<1> QED
  BY <1>3, <1>5

\* The steps outside the writer's loop.
LEMMA MoveKeeps ==
    ASSUME RefInv, NEW p \in Procs,
           \/ Expire(p) \/ Enter(p) \/ Announce(p) \/ Acquire(p) \/ RLock(p)
           \/ RUnlock(p) \/ Get(p) \/ GetAllReturn(p) \/ \E key \in Keys : Visit(p, key)
    PROVE  Served(p)' /\ HalfDone(p)' /\ UNCHANGED <<phase, nilMaps, maps, committed>><1>0. Inv /\ Served(p) /\ TypeOK /\ LockDiscipline /\ None \notin Calls
  BY MemStorageAssumption DEF RefInv, Inv
<1>1. ASSUME NEW from, NEW r, Return(p, from, r) PROVE Served(p)' /\ HalfDone(p)'
  BY <1>0, <1>1 DEF Return, Go, Served, HalfDone, Writing, TypeOK
<1>2. ASSUME at' = at, call' = call, idx' = idx, ~Writing(p), phase' = phase
      PROVE  Served(p)' /\ HalfDone(p)'
  BY <1>0, <1>2 DEF Served, HalfDone, Writing
<1>3. CASE Expire(p)
  BY <1>1, <1>3 DEF Expire, Return
<1>4. CASE Enter(p)
  <2>1. at[p] = "entry" /\ call[p] \in Calls /\ call[p].op \in Ops /\ phase = "serving"
    BY <1>0, <1>4, CallIsTyped DEF Enter, Go, Served
  <2>2. at'[p] = (CASE call[p].op \in Writers -> "lock"
                    [] call[p].op = "save"    -> "rlock"
                    [] call[p].op = "get"     -> "lookup"
                    [] call[p].op = "getAll"  -> "scan")
    BY <1>0, <1>4 DEF Enter, Go, TypeOK
  <2>3. \/ at'[p] = "lock"
        \/ at'[p] \in {"rlock", "lookup", "scan"} /\ call[p].op \in {"save", "get", "getAll"}
    <3>1. CASE call[p].op \in Writers
      BY <2>2, <3>1 DEF Writers
    <3>2. CASE call[p].op = "save"
      BY <2>2, <3>2 DEF Writers
    <3>3. CASE call[p].op = "get"
      BY <2>2, <3>3 DEF Writers
    <3>4. CASE call[p].op = "getAll"
      BY <2>2, <3>4 DEF Writers
    <3> QED
      BY <2>1, <3>1, <3>2, <3>3, <3>4 DEF Ops, Writers
  <2>4. UNCHANGED <<phase, nilMaps, maps, committed, call>>
    BY <1>4 DEF Enter, dataVars
  <2> QED
    BY <2>1, <2>3, <2>4 DEF Served, HalfDone, Writing
<1>5. CASE Announce(p) \/ RLock(p)
  <2>1. /\ at[p] # "idle" /\ at'[p] \in {"drain", "marshal"}
        /\ at'[p] = "marshal" => at[p] = "rlock"
        /\ UNCHANGED <<phase, nilMaps, maps, committed, call>>
    BY <1>0, <1>5 DEF Announce, RLock, Go, dataVars, TypeOK
  <2> QED
    BY <1>0, <2>1 DEF Served, HalfDone, Writing
<1>6. CASE Acquire(p)
  <2>1. /\ at[p] = "drain" /\ at'[p] = "hold"
        /\ UNCHANGED <<phase, nilMaps, maps, committed, call, idx>>
    BY <1>0, <1>6 DEF Acquire, Go, dataVars, TypeOK
  <2>2. Inv'
    BY <1>0, <1>6, LockPreserves
  <2>3. idx[p] = 0 /\ maps = committed
    BY <1>0, <2>1, <2>2 DEF Inv, LockDiscipline, Writing
  <2>4. call[p] \in Calls /\ Len(call[p].ms) \in Nat
    BY <1>0, <2>1, CallIsTyped DEF Served
  <2>5. Puts(committed, call[p].ms)[0] = committed
    BY <2>4, PutsNext
  <2> QED
    BY <1>0, <2>1, <2>3, <2>4, <2>5 DEF Served, HalfDone
<1>7. CASE RUnlock(p)
  BY <1>1, <1>7 DEF RUnlock, Return
<1>8. CASE GetAllReturn(p)
  BY <1>1, <1>8 DEF GetAllReturn, Return
<1>9. CASE Get(p)
  <2>1. CASE Return(p, "lookup", "ok") /\ UNCHANGED <<alive, lockVars, maps, committed>>
    BY <1>1, <2>1 DEF Return
  <2>2. CASE at[p] = "lookup" /\ Fatal(p, Key(Current(p))[1])
    BY <1>2, <2>2 DEF Fatal, dataVars, procVars, Writing
  <2> QED
    BY <1>9, <2>1, <2>2 DEF Get
<1>10. ASSUME NEW key \in Keys, Visit(p, key)
       PROVE  Served(p)' /\ HalfDone(p)' /\ UNCHANGED <<phase, nilMaps, maps, committed>>
  <2>1. /\ at[p] \in {"scan", "marshal"} /\ at' = at /\ call' = call /\ idx' = idx
        /\ UNCHANGED <<phase, nilMaps, maps, committed>>
    BY <1>0, <1>10 DEF Visit, Fatal, Go, dataVars, procVars, TypeOK
  <2> QED
    BY <1>2, <2>1 DEF Writing
<1> QED
  BY <1>3, <1>4, <1>5, <1>6, <1>7, <1>8, <1>9, <1>10

\* The writer's loop: each metric it gets past is put over the ones before.
LEMMA LoopKeeps ==
    ASSUME RefInv, NEW p \in Procs, Skip(p) \/ Assign(p) \/ Store(p)
    PROVE  Served(p)' /\ HalfDone(p)' /\ UNCHANGED <<phase, nilMaps, committed>>
<1> DEFINE ms == call[p].ms
           n == idx[p]
<1>0. Inv /\ Served(p) /\ HalfDone(p) /\ TypeOK /\ LockDiscipline
  BY DEF RefInv, Inv
<1>1. Writing(p) /\ call' = call /\ UNCHANGED <<phase, nilMaps, committed>>
  BY DEF Skip, Assign, Store, Go, Writing, dataVars
<1>2. at'[p] \in {"hold", "assign"} /\ at[p] \in {"hold", "assign"}
  BY <1>0 DEF Skip, Assign, Store, Go, TypeOK
<1>3. /\ call[p] \in Calls /\ ms \in Seq(Metric) /\ Len(ms) \in Nat /\ n \in Nat
      /\ n <= Len(ms) /\ maps = Puts(committed, ms)[n]
      /\ \A i \in 1 .. n : Known(ms[i]) => ms[i].val # Nil /\ ms[i].type \notin nilMaps
  BY <1>0, <1>1, CallIsTyped DEF LockDiscipline, HalfDone, TypeOK
<1>4. Served(p)'
  BY <1>0, <1>1, <1>2 DEF Served
<1>5. CASE Assign(p)
  <2>1. maps' = maps /\ idx' = idx
    BY <1>5 DEF Assign, dataVars
  <2> QED
    BY <1>1, <1>3, <1>4, <2>1 DEF HalfDone
<1>6. CASE Skip(p) \/ Store(p)
  <2>1. /\ n < Len(ms) /\ idx'[p] = n + 1
        /\ Known(ms[n + 1]) => ms[n + 1].val # Nil /\ ms[n + 1].type \notin nilMaps
        /\ maps' = PutKnown(maps, ms[n + 1])
    <3>1. CASE Skip(p)
      BY <1>0, <1>6, <3>1 DEF Skip, More, Current, Submitted, Known, PutKnown, dataVars, TypeOK
    <3>2. CASE Store(p)
      <4>1. at[p] = "assign"
        BY <3>2 DEF Store, Go
      <4> QED
        BY <1>0, <3>2, <4>1
           DEF Store, More, Current, Submitted, Known, PutKnown, LockDiscipline, TypeOK
    <3> QED
      BY <1>6, <3>1, <3>2
  <2>2. maps' = Puts(committed, ms)[n + 1]
    <3>1. n \in 0 .. Len(ms) - 1
      BY <1>3, <2>1
    <3> QED
      BY <1>3, <2>1, <3>1, PutsNext
  <2>3. \A i \in 1 .. n + 1 : i \in 1 .. n \/ i = n + 1
    BY <1>3
  <2>4. \A i \in 1 .. n + 1 : Known(ms[i]) => ms[i].val # Nil /\ ms[i].type \notin nilMaps
    BY <1>3, <2>1, <2>3
  <2>5. n + 1 <= Len(ms)
    BY <1>3, <2>1
  <2> QED
    BY <1>1, <1>4, <2>1, <2>2, <2>4, <2>5 DEF HalfDone
<1> QED
  BY <1>1, <1>5, <1>6

\* Who leaves a call owes the refinement nothing more.
LEMMA LeaveKeeps ==
    ASSUME RefInv, NEW p \in Procs, Finish(p) \/ Reject(p) \/ Panic(p)
    PROVE  Served(p)' /\ HalfDone(p)' /\ UNCHANGED <<phase, nilMaps>> /\ Writing(p)
<1>1. /\ at[p] = "hold" /\ at' = [at EXCEPT ![p] = "idle"] /\ call' = [call EXCEPT ![p] = None]
      /\ UNCHANGED <<phase, nilMaps>>
  BY DEF Finish, Reject, Panic, Return, Go
<1>2. at'[p] = "idle" /\ call'[p] = None
  BY <1>1 DEF RefInv, Inv, TypeOK
<1> QED
  BY <1>1, <1>2 DEF Served, HalfDone, Writing

\* Every step keeps what the refinement rests on.
LEMMA RefInvNext == RefInv /\ [Next]_vars => RefInv'
<1> SUFFICES ASSUME RefInv, [Next]_vars PROVE RefInv'
  OBVIOUS
<1>0. Inv /\ Inv' /\ TypeOK /\ LockDiscipline
  BY InvNext DEF RefInv, Inv
<1>1. CASE LoadNothing \/ \E f \in Files : Load(f)
  <2>1. /\ phase = "boot" /\ UNCHANGED <<at, call>>
    BY <1>1 DEF LoadNothing, Load, procVars
  <2>2. \A p \in Procs : at[p] = "idle"
    BY <1>0, <2>1 DEF LockDiscipline
  <2> QED
    BY <1>0, <2>1, <2>2 DEF RefInv, Served, HalfDone, Writing
<1>2. ASSUME NEW p \in Procs, Step(p) PROVE RefInv'
  <2>1. Served(p)' /\ HalfDone(p)' /\ UNCHANGED <<phase, nilMaps>>
    BY <1>2, MoveKeeps, LoopKeeps, LeaveKeeps DEF Step
  <2>2. Writing(p) \/ UNCHANGED <<maps, committed>>
    BY <1>2, MoveKeeps, LeaveKeeps DEF Step, Skip, Assign, Store, Go, Writing
  <2>3. \A q \in Procs \ {p} : at'[q] = at[q] /\ call'[q] = call[q] /\ idx'[q] = idx[q]
    BY <1>0, <1>2 DEF Step, Expire, Enter, Announce, Acquire, Skip, Assign, Store, Finish,
          Reject, Panic, RLock, RUnlock, Get, GetAllReturn, Visit, Fatal, Return, Go,
          procVars, TypeOK
  <2>4. phase = "serving"
    <3>1. at[p] # "idle"
      BY <1>2 DEF Step, Expire, Enter, Announce, Acquire, Skip, Assign, Store, Finish,
          Reject, Panic, RLock, RUnlock, Get, GetAllReturn, Visit, Fatal, Return, Go
    <3> QED
      BY <3>1 DEF RefInv, Served
  <2> QED
    BY <1>0, <2>1, <2>2, <2>3, <2>4, OthersKeep DEF RefInv
<1>3. ASSUME NEW p \in Procs, NEW c \in Calls, Invoke(p, c) PROVE RefInv'
  <2>1. /\ at' = [at EXCEPT ![p] = "entry"] /\ call' = [call EXCEPT ![p] = c]
        /\ phase = "serving" /\ UNCHANGED <<phase, nilMaps, maps, committed, idx>>
    BY <1>3 DEF Invoke, Go, dataVars
  <2>2. Served(p)' /\ HalfDone(p)'
    BY <1>0, <2>1 DEF Served, HalfDone, Writing, TypeOK
  <2>3. \A q \in Procs \ {p} : at'[q] = at[q] /\ call'[q] = call[q] /\ idx'[q] = idx[q]
    BY <1>0, <2>1 DEF TypeOK
  <2> QED
    BY <1>0, <2>1, <2>2, <2>3, OthersKeep DEF RefInv
<1>4. CASE UNCHANGED vars
  BY <1>0, <1>4 DEF vars, dataVars, procVars, RefInv, Served, HalfDone, Writing
<1> QED
  BY <1>1, <1>2, <1>3, <1>4 DEF Next, Stopped

-----------------------------------------------------------------------------
(* The refinement mapping: the store is the last released state, a kind is *)
(* broken when its map is nil, and the call a goroutine waits for is the   *)
(* one it is in.                                                           *)

\* Both modules write metrics in the same way.
LEMMA SamePuts ==
    ASSUME NEW f, NEW ms
    PROVE  Promise!Puts(f, ms) = Puts(f, ms) /\ Promise!PutAll(f, ms) = PutAll(f, ms)
  BY DEF Promise!Puts, Promise!PutAll, Promise!PutKnown, Promise!Put, Promise!Written,
         Promise!Wrap, Promise!Known, Promise!Key, Promise!Kinds,
         Puts, PutAll, PutKnown, Put, Written, Wrap, Known, Key, Kinds

\* An idle server with empty maps is an idle store that knows no metric.
LEMMA InitRefines == Init => Promise!SInit
  BY DEF Init, Promise!SInit, EmptyMaps, Promise!EmptyMaps, Keys, Promise!Keys,
         Kinds, Promise!Kinds

\* A return is the reply of the promise.
LEMMA ReturnIsReply ==
    ASSUME RefInv, NEW p \in Procs, NEW from, from # "idle", NEW r, Return(p, from, r)
    PROVE  Promise!SReply(p, r) /\ call[p] \in Calls
<1>1. at[p] = from /\ call[p] \in Calls
  BY DEF Return, Go, RefInv, Served
<1>2. None \notin Calls
  BY MemStorageAssumption
<1> QED
  BY <1>1, <1>2 DEF Return, Promise!SReply

\* Load and its absence take the store to a state of the right type.
LEMMA StartRefines ==
    ASSUME RefInv, RefInv', LoadNothing \/ \E f \in Files : Load(f)
    PROVE  Promise!SRestore
<1>1. committed' \in [Keys -> Values] /\ nilMaps' \in SUBSET Kinds
  BY DEF RefInv, Inv, TypeOK
<1>2. phase = "boot" /\ phase' = "serving" /\ UNCHANGED <<call, reply>>
  BY DEF LoadNothing, Load, procVars
<1> QED
  BY <1>1, <1>2 DEF Promise!SRestore, Promise!Keys, Promise!Kinds, Promise!Values,
                    Promise!Int64, Keys, Kinds, Values, Int64

\* A writer that is through, or out of order, releases what it has written.
LEMMA FinishRefines ==
    ASSUME RefInv, NEW p \in Procs, Finish(p)
    PROVE  Promise!SApply(p)
<1> DEFINE ms == call[p].ms
<1>1. Promise!SReply(p, "ok") /\ call[p] \in Calls
  BY ReturnIsReply DEF Finish
<1>2. /\ Writing(p) /\ HalfDone(p) /\ call[p].op \in {"update", "batch"} /\ idx[p] \in Nat
      /\ ~(idx[p] < Len(ms)) /\ committed' = maps
  BY DEF Finish, Return, Go, Writing, RefInv, Inv, TypeOK, LockDiscipline, Writers, Unlock,
         More, Submitted
<1>3. Len(ms) \in Nat
  BY <1>1, CallIsTyped
<1>4. idx[p] = Len(ms)
  BY <1>2, <1>3 DEF HalfDone
<1>5. committed' = PutAll(committed, ms)
  BY <1>2, <1>4 DEF HalfDone, PutAll
<1>6. \A i \in 1 .. Len(ms) : Promise!Known(ms[i]) => Promise!Writable(ms[i])
  BY <1>2, <1>4 DEF HalfDone, Known, Promise!Known, Promise!Writable, Kinds, Promise!Kinds
<1> QED
  BY <1>1, <1>2, <1>5, <1>6, SamePuts DEF Promise!SApply

\* A writer that returns early, or panics, leaves what is in front of where
\* it was: the failure of the promise, with as many metrics written.
LEMMA FailureRefines ==
    ASSUME RefInv, NEW p \in Procs, Reject(p) \/ Panic(p)
    PROVE  Promise!SFail(p)
<1> DEFINE ms == call[p].ms
           k == idx[p] + 1
<1>1. /\ \E r \in {"error", "panic"} : Promise!SReply(p, r)
      /\ call[p] \in Calls
  BY ReturnIsReply DEF Reject, Panic
<1>2. /\ Writing(p) /\ HalfDone(p) /\ call[p].op \in {"update", "batch"} /\ idx[p] \in Nat
      /\ idx[p] < Len(ms)
      /\ Known(ms[k]) /\ (ms[k].val = Nil \/ ms[k].type \in nilMaps)
  BY DEF Reject, Panic, Return, Go, Writing, RefInv, Inv, TypeOK, LockDiscipline, Writers,
         More, Submitted, Current, Known
<1>3. Len(ms) \in Nat
  BY <1>1, CallIsTyped
<1>4. k \in 1 .. Len(ms) /\ k - 1 = idx[p]
  BY <1>2, <1>3
<1>5. Promise!Known(ms[k]) /\ ~Promise!Writable(ms[k])
  BY <1>2 DEF Known, Promise!Known, Promise!Writable, Kinds, Promise!Kinds
<1>6. \A i \in 1 .. k - 1 : Promise!Known(ms[i]) => Promise!Writable(ms[i])
  BY <1>2, <1>4 DEF HalfDone, Known, Promise!Known, Promise!Writable, Kinds, Promise!Kinds
<1>7. committed' = Puts(committed, ms)[k - 1]
  <2>1. CASE Unlock
    BY <1>2, <1>4, <2>1 DEF Unlock, HalfDone
  \* The leaked lock: the update has only one metric, and has written nothing.
  <2>2. CASE call[p].op # "batch" /\ UNCHANGED committed
    <3>1. Len(ms) = 1
      BY <1>1, <1>2, <2>2, MemStorageAssumption
    <3>2. idx[p] = 0
      BY <1>2, <3>1
    <3> QED
      BY <1>3, <1>4, <2>2, <3>2, PutsNext
  <2> QED
    BY <2>1, <2>2 DEF Reject, Panic
<1> QED
  BY <1>1, <1>2, <1>4, <1>5, <1>6, <1>7, SamePuts DEF Promise!SFail

\* The reads change nothing.
LEMMA ReadRefines ==
    ASSUME RefInv, NEW p \in Procs, NEW from \in {"lookup", "scan", "marshal"},
           Return(p, from, "ok"), UNCHANGED committed
    PROVE  Promise!SRead(p)
<1>1. Promise!SReply(p, "ok")
  BY ReturnIsReply
<1>2. call[p].op \in {"get", "getAll", "save"}
  BY DEF Return, Go, RefInv, Served
<1> QED
  BY <1>1, <1>2 DEF Promise!SRead

\* Every step of a goroutine is a step of the promise, or invisible to it.
LEMMA StepRefines ==
    ASSUME RefInv, NEW p \in Procs, Step(p)
    PROVE  \/ Promise!SExpire(p) \/ Promise!SApply(p) \/ Promise!SFail(p) \/ Promise!SRead(p)
           \/ UNCHANGED <<committed, nilMaps, phase, call, reply>>
<1>1. CASE Expire(p)
  BY <1>1, ReturnIsReply DEF Expire, Promise!SExpire
<1>2. CASE Finish(p)
  BY <1>2, FinishRefines
<1>3. CASE Reject(p) \/ Panic(p)
  BY <1>3, FailureRefines
<1>4. CASE RUnlock(p)
  BY <1>4, ReadRefines DEF RUnlock
<1>5. CASE GetAllReturn(p)
  BY <1>5, ReadRefines DEF GetAllReturn
<1>6. CASE Get(p)
  BY <1>6, ReadRefines DEF Get, Fatal, dataVars, procVars
<1>7. CASE \/ Enter(p) \/ Announce(p) \/ Acquire(p) \/ RLock(p)
           \/ Skip(p) \/ Assign(p) \/ Store(p)
  BY <1>7 DEF Enter, Announce, Acquire, RLock, Skip, Assign, Store, dataVars
<1>8. CASE \E key \in Keys : Visit(p, key)
  BY <1>8 DEF Visit, Fatal, dataVars, procVars
<1> QED
  BY <1>1, <1>2, <1>3, <1>4, <1>5, <1>6, <1>7, <1>8 DEF Step

\* Every step of the program is a step of the promise or none.
LEMMA NextRefines == RefInv /\ RefInv' /\ [Next]_vars => [Promise!SNext]_(Promise!sVars)
<1> SUFFICES ASSUME RefInv, RefInv', [Next]_vars
             PROVE  Promise!SNext \/ UNCHANGED <<committed, nilMaps, phase, call, reply>>
  BY DEF Promise!sVars
<1>1. CASE LoadNothing \/ \E f \in Files : Load(f)
  BY <1>1, StartRefines DEF Promise!SNext
<1>2. ASSUME NEW p \in Procs, Step(p)
      PROVE  Promise!SNext \/ UNCHANGED <<committed, nilMaps, phase, call, reply>>
  BY <1>2, StepRefines DEF Promise!SNext
<1>3. ASSUME NEW p \in Procs, NEW c \in Calls, Invoke(p, c) PROVE Promise!SNext
  <2>1. Promise!SInvoke(p, c)
    <3>1. call[p] = None
      BY <1>3 DEF Invoke, Go, RefInv, Served
    <3> QED
      BY <1>3, <3>1 DEF Invoke, dataVars, Promise!SInvoke
  <2> QED
    BY <2>1 DEF Promise!SNext
<1>4. CASE UNCHANGED vars
  BY <1>4 DEF vars, dataVars, procVars
<1> QED
  BY <1>1, <1>2, <1>3, <1>4 DEF Next, Stopped

\* The repository interface holds of the in-memory repository: every call takes
\* effect at one moment between its invocation and its reply, also where it
\* panics, and a batch that fails leaves what is in front of the failure.
THEOREM CallsTakeEffectAtOnce == Spec => CallsAreAtomic
  BY InitRefines, NextRefines, RefInvInit, RefInvNext, PTL
     DEF Spec, CallsAreAtomic, Promise!SSpec

-----------------------------------------------------------------------------
(* What it takes for a batch to be a transaction.                          *)

\* No batch holds a metric without its value or delta, and the start-up file
\* has both maps.
NothingToRefuse ==
    /\ \A c \in Calls : \A i \in 1 .. Len(c.ms) : Known(c.ms[i]) => c.ms[i].val # Nil
    /\ \A f \in Files : \A k \in Kinds : f[k] # Nil

\* Nothing but Load makes a map nil.
LEMMA MapsAreThere ==
    ASSUME NothingToRefuse, nilMaps = {}, [Next]_vars
    PROVE  nilMaps' = {}
<1>1. CASE \E f \in Files : Load(f)
  BY <1>1 DEF Load, NothingToRefuse
<1>2. ASSUME NEW p \in Procs, Step(p) PROVE nilMaps' = nilMaps
  BY <1>2 DEF Step, Expire, Enter, Announce, Acquire, RLock, Skip, Assign, Store, Finish,
              Reject, Panic, Get, Visit, GetAllReturn, RUnlock, Fatal, Return, dataVars
<1>3. CASE LoadNothing \/ UNCHANGED vars \/ \E p \in Procs, c \in Calls : Invoke(p, c)
  BY <1>3 DEF LoadNothing, Invoke, vars, dataVars
<1> QED
  BY <1>1, <1>2, <1>3 DEF Next, Stopped

\* The two promises differ in how a call fails, and in nothing else.
LEMMA OnlyFailuresDiffer ==
    ASSUME Promise!SNext, \A p \in Procs : ~Promise!SFail(p)
    PROVE  Transaction!SNext
<1>1. Promise!SRestore => Transaction!SRestore
  BY DEF Promise!SRestore, Transaction!SRestore, Promise!Keys, Transaction!Keys,
         Promise!Kinds, Transaction!Kinds, Promise!Values, Transaction!Values,
         Promise!Int64, Transaction!Int64
<1>2. ASSUME NEW p \in Procs, NEW c \in Calls, Promise!SInvoke(p, c)
      PROVE  Transaction!SInvoke(p, c)
  BY <1>2 DEF Promise!SInvoke, Transaction!SInvoke
<1>3. \A p, r : Promise!SReply(p, r) => Transaction!SReply(p, r)
  BY DEF Promise!SReply, Transaction!SReply
<1>4. ASSUME NEW p \in Procs, Promise!SExpire(p) \/ Promise!SRead(p)
      PROVE  Transaction!SExpire(p) \/ Transaction!SRead(p)
  BY <1>3, <1>4 DEF Promise!SExpire, Transaction!SExpire, Promise!SRead, Transaction!SRead
<1>5. ASSUME NEW p \in Procs, Promise!SApply(p)
      PROVE  Transaction!SApply(p)
  <2>1. Transaction!PutAll(committed, call[p].ms) = Promise!PutAll(committed, call[p].ms)
    BY DEF Promise!Puts, Promise!PutAll, Promise!PutKnown, Promise!Put, Promise!Written,
           Promise!Wrap, Promise!Known, Promise!Key, Promise!Kinds,
           Transaction!Puts, Transaction!PutAll, Transaction!PutKnown, Transaction!Put,
           Transaction!Written, Transaction!Wrap, Transaction!Known, Transaction!Key,
           Transaction!Kinds
  <2>2. \A m : /\ Promise!Known(m) <=> Transaction!Known(m)
               /\ Promise!Writable(m) <=> Transaction!Writable(m)
    BY DEF Promise!Known, Transaction!Known, Promise!Kinds, Transaction!Kinds,
           Promise!Writable, Transaction!Writable
  <2> QED
    BY <1>3, <1>5, <2>1, <2>2 DEF Promise!SApply, Transaction!SApply
<1> QED
  BY <1>1, <1>2, <1>4, <1>5 DEF Promise!SNext, Transaction!SNext

\* The interface's "one transaction" (repository.go 19) fails for no other reason
\* than a metric without a value and a map the file has not got: as long as
\* clients and files are complete, every batch is written as a whole or not at
\* all, whoever reads, writes, saves or panics beside it.
THEOREM CompleteBatchesAreTransactions ==
    ASSUME NothingToRefuse
    PROVE  Spec => BatchIsATransaction
<1> DEFINE TInv == RefInv /\ nilMaps = {}
<1>1. Init => TInv /\ Transaction!SInit
  BY RefInvInit, InitRefines DEF Init, Promise!SInit, Transaction!SInit,
     Promise!EmptyMaps, Transaction!EmptyMaps, Promise!Keys, Transaction!Keys,
     Promise!Kinds, Transaction!Kinds
<1>2. TInv /\ [Next]_vars => TInv'
  BY RefInvNext, MapsAreThere
<1>3. TInv /\ TInv' /\ [Next]_vars => [Transaction!SNext]_(Transaction!sVars)
  <2> SUFFICES ASSUME TInv, TInv', [Next]_vars
               PROVE  [Transaction!SNext]_(Transaction!sVars)
    OBVIOUS
  <2>1. [Promise!SNext]_(Promise!sVars)
    BY NextRefines
  <2>2. ASSUME NEW p \in Procs, Promise!SFail(p) PROVE FALSE
    <3>1. call[p] \in Calls
      BY <2>2 DEF Promise!SFail, Promise!SReply, RefInv, Served
    <3>2. PICK k \in 1 .. Len(call[p].ms) :
            Promise!Known(call[p].ms[k]) /\ ~Promise!Writable(call[p].ms[k])
      BY <2>2 DEF Promise!SFail
    <3> QED
      BY <3>1, <3>2 DEF NothingToRefuse, Known, Kinds, Promise!Known, Promise!Kinds,
                        Promise!Writable
  <2> QED
    BY <2>1, <2>2, OnlyFailuresDiffer DEF Promise!sVars, Transaction!sVars
<1> QED
  BY <1>1, <1>2, <1>3, PTL DEF Spec, BatchIsATransaction, Transaction!SSpec
=============================================================================
