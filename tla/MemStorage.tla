----------------------------- MODULE MemStorage -----------------------------
(***************************************************************************)
(* The in-memory repository (internal/metrics/repository/storage.go):      *)
(* two Go maps, a sync.RWMutex that only the writers and Save take, and    *)
(* the goroutines of the HTTP server and of the savers that call it.       *)
(*                                                                         *)
(* GetGauge, GetCounter and GetAll read the maps without the lock.  In Go  *)
(* that is a data race: the runtime marks a map while an assignment is in  *)
(* progress and kills the whole process when a lookup or an iteration      *)
(* finds the mark ("concurrent map read and map write"); when it does not  *)
(* notice, the reader may see the value before the assignment, the value   *)
(* after it, the zero of a slot whose key is already there, or - when the  *)
(* assignment makes the map grow - miss a key.                             *)
(***************************************************************************)
EXTENDS Metrics

CONSTANTS
    Procs,      \* goroutines: one per HTTP request in progress, and the savers
    Calls,      \* the calls they may make, records [op, ms]
    Files,      \* what the start-up Load may find: [Kinds -> map or Nil]
    None        \* no goroutine, no call, not visited

Ops == {"update", "batch", "get", "getAll", "save"}

Writers == {"update", "batch"}

ASSUME MemStorageAssumption ==
    /\ None \notin Procs /\ None \notin Calls /\ None \notin Values
    /\ Calls \subseteq [op : Ops, ms : Seq(Metric)]
    /\ \A c \in Calls :
          /\ c.op \in {"update", "get"} => Len(c.ms) = 1 /\ c.ms[1].type \in Kinds
          /\ c.op = "update" => c.ms[1].val # Nil
    /\ Files \subseteq [Kinds -> [Names -> Values] \cup {Nil}]

VARIABLES
    phase,      \* "boot" until main has called Load, then "serving"
    alive,      \* FALSE once the runtime has killed the process
    maps,       \* Gauges and Counters
    nilMaps,    \* the kinds whose Go map is nil
    owner,      \* who holds the write side of mu, or waits for the readers
    readers,    \* who holds the read side of mu
    at,         \* where each goroutine is
    call,       \* the call it is in
    idx,        \* how many metrics of the call its loop is past
    seen,       \* what its iteration has visited
    reply,      \* how its last call ended
    committed   \* history: the maps when the write lock was last released

lockVars == <<owner, readers>>
dataVars == <<maps, nilMaps, committed>>
procVars == <<at, call, idx, seen, reply>>
vars == <<phase, alive, lockVars, dataVars, procVars>>

Locations == {"idle", "entry", "lock", "drain", "hold", "assign",
              "lookup", "scan", "rlock", "marshal"}

Unvisited == [key \in Keys |-> None]

Init ==
    /\ phase = "boot" /\ alive = TRUE
    /\ maps = EmptyMaps /\ nilMaps = {} /\ committed = EmptyMaps
    /\ owner = None /\ readers = {}
    /\ at = [p \in Procs |-> "idle"]
    /\ call = [p \in Procs |-> None]
    /\ idx = [p \in Procs |-> 0]
    /\ seen = [p \in Procs |-> Unvisited]
    /\ reply = [p \in Procs |-> "none"]

-----------------------------------------------------------------------------
(* Start-up.  main calls Load, if at all, before any other goroutine runs. *)

\* The file is read and decoded: both maps are replaced, and a map the file
\* does not have, or has as null, becomes nil.
Load(f) ==
    /\ phase = "boot"
    /\ phase' = "serving"
    /\ nilMaps' = {k \in Kinds : f[k] = Nil}
    /\ maps' = [key \in Keys |->
                  IF f[key[1]] = Nil THEN Absent ELSE f[key[1]][key[2]]]
    /\ committed' = maps'
    /\ UNCHANGED <<alive, lockVars, procVars>>

\* No file, no permission to read it, not JSON, or Load is not called.
LoadNothing ==
    /\ phase = "boot"
    /\ phase' = "serving"
    /\ UNCHANGED <<alive, lockVars, dataVars, procVars>>

-----------------------------------------------------------------------------
(* Steps every call has. *)

Go(p, from, to) ==
    /\ alive
    /\ at[p] = from
    /\ at' = [at EXCEPT ![p] = to]

\* The call of p is over; its locals are gone.
Return(p, from, r) ==
    /\ Go(p, from, "idle")
    /\ call' = [call EXCEPT ![p] = None]
    /\ idx' = [idx EXCEPT ![p] = 0]
    /\ seen' = [seen EXCEPT ![p] = Unvisited]
    /\ reply' = [reply EXCEPT ![p] = r]
    /\ UNCHANGED <<phase, nilMaps>>

Invoke(p, c) ==
    /\ phase = "serving"
    /\ Go(p, "idle", "entry")
    /\ call' = [call EXCEPT ![p] = c]
    /\ reply' = [reply EXCEPT ![p] = "none"]
    /\ UNCHANGED <<phase, alive, lockVars, dataVars, idx, seen>>

\* select { case <-ctx.Done(): return ctx.Err() ...
Expire(p) ==
    /\ Return(p, "entry", "expired")
    /\ UNCHANGED <<alive, lockVars, maps, committed>>

\* ... default: }
Enter(p) ==
    /\ Go(p, "entry", CASE call[p].op \in Writers  -> "lock"
                        [] call[p].op = "save"     -> "rlock"
                        [] call[p].op = "get"      -> "lookup"
                        [] call[p].op = "getAll"   -> "scan")
    /\ UNCHANGED <<phase, alive, lockVars, dataVars, call, idx, seen, reply>>

-----------------------------------------------------------------------------
(* sync.RWMutex.  A writer first announces itself, which keeps out other   *)
(* writers and new readers, then waits for the readers inside to leave.    *)

\* Mutant of Announce: Lock does not look for another writer.
AnnounceUnchecked(p) ==
    /\ Go(p, "lock", "drain")
    /\ owner' = p
    /\ UNCHANGED <<phase, alive, readers, dataVars, call, idx, seen, reply>>

Announce(p) ==
    /\ Go(p, "lock", "drain")
    /\ owner = None
    /\ owner' = p
    /\ UNCHANGED <<phase, alive, readers, dataVars, call, idx, seen, reply>>

\* Mutant of Acquire: a writer does not wait for the saves.
AcquireEarly(p) ==
    /\ Go(p, "drain", "hold")
    /\ UNCHANGED <<phase, alive, lockVars, dataVars, call, idx, seen, reply>>

Acquire(p) ==
    /\ Go(p, "drain", "hold")
    /\ readers = {}
    /\ UNCHANGED <<phase, alive, lockVars, dataVars, call, idx, seen, reply>>

\* Mutant of RLock: Save takes no lock.
RLockSkipped(p) ==
    /\ Go(p, "rlock", "marshal")
    /\ UNCHANGED <<phase, alive, lockVars, dataVars, call, idx, seen, reply>>

RLock(p) ==
    /\ Go(p, "rlock", "marshal")
    /\ owner = None
    /\ readers' = readers \cup {p}
    /\ UNCHANGED <<phase, alive, owner, dataVars, call, idx, seen, reply>>

-----------------------------------------------------------------------------
(* UpdateGauge, UpdateCounter (a loop of one metric) and                   *)
(* UpdateMetricsBatch, under the write lock.                               *)

Submitted(p) == call[p].ms
Current(p) == Submitted(p)[idx[p] + 1]
More(p) == idx[p] < Len(Submitted(p))

\* The switch has no default: a metric of an unknown type is passed over.
Skip(p) ==
    /\ Go(p, "hold", "hold")
    /\ More(p) /\ Current(p).type \notin Kinds
    /\ idx' = [idx EXCEPT ![p] = @ + 1]
    /\ UNCHANGED <<phase, alive, lockVars, dataVars, call, seen, reply>>

\* The map assignment starts: the runtime marks the map.
Assign(p) ==
    /\ Go(p, "hold", "assign")
    /\ More(p)
    /\ Current(p).type \in Kinds \ nilMaps /\ Current(p).val # Nil
    /\ UNCHANGED <<phase, alive, lockVars, dataVars, call, idx, seen, reply>>

\* It ends: the value is there and the mark is gone.
Store(p) ==
    /\ Go(p, "assign", "hold")
    /\ maps' = Put(maps, Current(p))
    /\ idx' = [idx EXCEPT ![p] = @ + 1]
    /\ UNCHANGED <<phase, alive, lockVars, nilMaps, committed, call, seen, reply>>

Unlock == owner' = None /\ committed' = maps

\* The loop is over.
Finish(p) ==
    /\ Return(p, "hold", "ok")
    /\ ~More(p)
    /\ Unlock
    /\ UNCHANGED <<alive, readers, maps>>

\* Mutant of Reject: the error path of the batch returns without unlocking.
RejectLocked(p) ==
    /\ Return(p, "hold", "error")
    /\ More(p)
    /\ Current(p).type \in Kinds /\ Current(p).val = Nil
    /\ UNCHANGED <<alive, lockVars, maps, committed>>

\* A gauge without a value or a counter without a delta: the batch returns an
\* error, and the metrics in front of it stay written.
Reject(p) ==
    /\ Return(p, "hold", "error")
    /\ More(p)
    /\ Current(p).type \in Kinds /\ Current(p).val = Nil
    /\ Unlock
    /\ UNCHANGED <<alive, readers, maps>>

\* An assignment to a nil map panics.  UpdateMetricsBatch unlocks in a defer;
\* UpdateGauge and UpdateCounter do not, and as the HTTP server recovers the
\* panic of a request, the lock stays taken for the life of the process.
Panic(p) ==
    /\ Return(p, "hold", "panic")
    /\ More(p)
    /\ Current(p).type \in nilMaps /\ Current(p).val # Nil
    /\ IF call[p].op = "batch" THEN Unlock ELSE UNCHANGED <<owner, committed>>
    /\ UNCHANGED <<alive, readers, maps>>

-----------------------------------------------------------------------------
(* Readers.  The goroutines inside an assignment to the map of a kind:     *)

Assigning(kind) == {w \in Procs : at[w] = "assign" /\ Current(w).type = kind}

\* What a read of key may return.
Visible(key) ==
    {maps[key]} \cup
    UNION {LET m == Current(w) IN
           (IF Key(m) = key THEN {Written(m, maps[key])} ELSE {}) \cup
           (IF Key(m) = key /\ maps[key] = Absent THEN {0} ELSE {}) \cup
           (IF maps[Key(m)] = Absent THEN {Absent} ELSE {})
             : w \in Assigning(key[1])}

\* "fatal error: concurrent map read and map write" (or "map iteration").
Fatal(p, kind) ==
    /\ alive
    /\ Assigning(kind) # {}
    /\ alive' = FALSE
    /\ UNCHANGED <<phase, lockVars, dataVars, procVars>>

\* GetGauge, GetCounter.
Get(p) ==
    LET key == Key(Current(p)) IN
    \/ /\ Return(p, "lookup", "ok")
       /\ UNCHANGED <<alive, lockVars, maps, committed>>
    \/ at[p] = "lookup" /\ Fatal(p, key[1])

\* GetAll and the iteration of json.Marshal in Save, one key at a time.
Visit(p, key) ==
    /\ at[p] \in {"scan", "marshal"}
    /\ seen[p][key] = None
    /\ \/ /\ Go(p, at[p], at[p])
          /\ \E v \in Visible(key) : seen' = [seen EXCEPT ![p][key] = v]
          /\ UNCHANGED <<phase, alive, lockVars, dataVars, call, idx, reply>>
       \/ Fatal(p, key[1])

Visited(p) == \A key \in Keys : seen[p][key] # None

GetAllReturn(p) ==
    /\ Return(p, "scan", "ok")
    /\ Visited(p)
    /\ UNCHANGED <<alive, lockVars, maps, committed>>

\* Mutant of RUnlock: Save forgets to release the read lock.
RUnlockForgotten(p) ==
    /\ Return(p, "marshal", "ok")
    /\ Visited(p)
    /\ UNCHANGED <<alive, lockVars, maps, committed>>

\* Save returns once the file is written, which module Persistence models,
\* and the deferred RUnlock runs.
RUnlock(p) ==
    /\ Return(p, "marshal", "ok")
    /\ Visited(p)
    /\ readers' = readers \ {p}
    /\ UNCHANGED <<alive, owner, maps, committed>>

-----------------------------------------------------------------------------
(* The lock is leaked when its holder has panicked out of the update.      *)
Leaked ==
    /\ owner # None
    /\ at[owner] \notin {"drain", "hold", "assign"}

\* The process is dead, or every later call that takes the lock hangs.
Stopped == (~alive \/ Leaked) /\ UNCHANGED vars

Step(p) ==
    \/ Expire(p) \/ Enter(p)
    \/ Announce(p) \/ Acquire(p)
    \/ Skip(p) \/ Assign(p) \/ Store(p)
    \/ Finish(p) \/ Reject(p) \/ Panic(p)
    \/ RLock(p) \/ RUnlock(p)
    \/ Get(p) \/ GetAllReturn(p)
    \/ \E key \in Keys : Visit(p, key)

Next ==
    \/ \E f \in Files : Load(f)
    \/ LoadNothing
    \/ \E p \in Procs : Step(p) \/ \E c \in Calls : Invoke(p, c)
    \/ Stopped

\* Goroutines are scheduled, and sync.RWMutex starves nobody: its writers queue
\* on a sync.Mutex, which hands itself over to a waiter it has starved, and an
\* unlocking writer lets the waiting readers in before the next writer.
Fairness ==
    \A p \in Procs :
        WF_vars(Step(p)) /\ SF_vars(Announce(p)) /\ SF_vars(RLock(p))

Spec == Init /\ [][Next]_vars

FairSpec == Spec /\ Fairness

-----------------------------------------------------------------------------
(* Every variable has its type. *)
TypeOK ==
    /\ phase \in {"boot", "serving"} /\ alive \in BOOLEAN
    /\ maps \in [Keys -> Values] /\ committed \in [Keys -> Values]
    /\ nilMaps \in SUBSET Kinds
    /\ owner \in Procs \cup {None} /\ readers \in SUBSET Procs
    /\ at \in [Procs -> Locations]
    /\ call \in [Procs -> Calls \cup {None}]
    /\ idx \in [Procs -> Nat]
    /\ seen \in [Procs -> [Keys -> Values \cup {None}]]
    /\ reply \in [Procs -> {"none", "ok", "error", "panic", "expired"}]

Writing(p) == at[p] \in {"hold", "assign"}

\* No two goroutines are inside the code that mu guards when one of them is a
\* writer: UpdateGauge, UpdateCounter, UpdateMetricsBatch and Save (storage.go
\* 65-66, 95-97, 106-108, 174-175), after a panic in any of them too.
MutualExclusion ==
    \A p, q \in Procs :
        Writing(p) /\ p # q => ~Writing(q) /\ at[q] # "marshal"

\* What Save hands to the file is the state the last writer left behind as a
\* whole: json.Marshal iterates over both maps entry by entry (storage.go
\* 68-76), and never picks up a part of an update or of a batch.
SaveSeesWholeCalls ==
    \A p \in Procs : at[p] = "marshal" =>
        \A key \in Keys : seen[p][key] \in {None, committed[key]}

\* Only a nil map can leak the lock: with the maps NewMemStorage makes, or a
\* file that has both, it always comes back (storage.go 22-28, 54-55).
LeakNeedsNilMap == Leaked => nilMaps # {}

\* What the proofs of these invariants rest on (module MemStorageProofs):
\* a writer owns mu from Announce on, the readers are the saves that iterate,
\* a writer is alone once they have left, and the maps differ from the last
\* released state only while a writer is past its first metric.
LockDiscipline ==
    /\ phase = "boot" => owner = None /\ \A p \in Procs : at[p] = "idle"
    /\ readers = {p \in Procs : at[p] = "marshal"}
    /\ \A p \in Procs : at[p] \in {"drain", "hold", "assign"} => owner = p
    /\ \A p \in Procs : Writing(p) =>
          /\ readers = {}
          /\ call[p] \in Calls /\ call[p].op \in Writers
          /\ idx[p] = 0 => maps = committed
    /\ \A p \in Procs : at[p] = "assign" =>
          /\ More(p)
          /\ Current(p).type \in Kinds \ nilMaps /\ Current(p).val # Nil
    /\ \A p \in Procs : at[p] = "lock" \/ at[p] = "drain" =>
          call[p] \in Calls /\ call[p].op \in Writers
    /\ \A p \in Procs : at[p] = "entry" => call[p] \in Calls
    /\ \A p \in Procs : ~Writing(p) => idx[p] = 0
    /\ \A p \in Procs : at[p] \notin {"scan", "marshal"} => seen[p] = Unvisited
    /\ (\A p \in Procs : ~Writing(p)) => maps = committed

Inv == TypeOK /\ LockDiscipline /\ SaveSeesWholeCalls /\ LeakNeedsNilMap

\* Once an update has panicked between Lock and Unlock nothing is ever written
\* again and no Save gets as far as the file, though reads go on being answered
\* (storage.go 95-97, 106-108: the Unlock is not deferred).
LeakIsForever ==
    [][Leaked => /\ maps' = maps
                 /\ owner' = owner
                 /\ \A p \in Procs : at'[p] = "marshal" => at[p] = "marshal"]_vars

\* Every call comes back, unless the process is dead or the lock leaked.
CallsReturn ==
    \A p \in Procs : at[p] # "idle" ~> at[p] = "idle" \/ ~alive \/ Leaked

\* The repository interface (repository.go 13-33): every call takes effect at
\* one moment between its invocation and its reply; a batch that fails half way
\* leaves the metrics in front of the failure behind.
Promise ==
    INSTANCE MetricsStore WITH
        AllOrNothing <- FALSE, store <- committed, broken <- nilMaps,
        ready <- (phase = "serving"), pending <- call

CallsAreAtomic == Promise!SSpec

\* "UpdateMetricsBatch updates several metrics in one transaction"
\* (repository.go 19): a batch that returns an error has changed nothing.
Transaction ==
    INSTANCE MetricsStore WITH
        AllOrNothing <- TRUE, store <- committed, broken <- nilMaps,
        ready <- (phase = "serving"), pending <- call

BatchIsATransaction == Transaction!SSpec
=============================================================================
