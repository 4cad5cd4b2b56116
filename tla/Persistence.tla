---------------------------- MODULE Persistence ----------------------------
(***************************************************************************)
(* The life of a server that keeps its metrics in a file: cmd/server/      *)
(* main.go starts it, restores the file, saves it on a ticker and once     *)
(* more on SIGINT, SIGTERM or SIGQUIT, and Save and Load of                *)
(* internal/metrics/repository/storage.go do the file work.                *)
(*                                                                         *)
(* The contents of the maps are abstracted to the set of the updates they  *)
(* reflect.  Every update and every batch is one step here; module         *)
(* MemStorage shows that the lock makes it one as far as Save can see.     *)
(*                                                                         *)
(* A JSON null makes a Go map nil.  The file may have such nulls when the   *)
(* server finds it - Save writes one only for a map that was nil already - *)
(* and an update of a nil map panics with the write lock held.             *)
(*                                                                         *)
(* A write is durable once its system call has returned: a process may be  *)
(* killed at any moment, the machine under it is not.                      *)
(***************************************************************************)
EXTENDS Config

CONSTANTS
    Updates,        \* the updates clients may send
    Counters,       \* those of the map that is null in a file with a null
    Found,          \* what may be under the path before the first start
    Env,            \* the environment the server is always started with
    CommandLines,   \* the command lines it may be started with, and
    Signals,        \* those under which somebody stops it with a signal
    NaNs,           \* whether a client may set a gauge to NaN or an infinity
    LoadMayFail,    \* whether reading a good file may fail
    MaxStarts,      \* bound: how often the process is started
    MaxFaults       \* bound: how many file operations fail

Savers == {"ticker", "shutdown"}

Contents == SUBSET Updates

\* What a path can be: nothing, a file without a complete JSON document, or a
\* document that reflects the updates ups and may have a null for a map.
NoFile == [state |-> "none", ups |-> {}]
Torn == [state |-> "torn", ups |-> {}]
Whole(ups, null) == [state |-> IF null THEN "null" ELSE "whole", ups |-> ups]

FileStates ==
    {NoFile, Torn} \cup {Whole(ups, null) : ups \in Contents, null \in BOOLEAN}

\* Seconds between two saves of the ticker; there is none unless it is positive.
Interval(cmd) == ServerConfig(Env, ServerFlags(cmd)).StoreInterval

HasPath == StoragePath(Env) # ""

ASSUME PersistenceAssumption ==
    /\ Storage(Env) = "memory" /\ Env.Restore \in BOOLEAN
    /\ Counters \subseteq Updates
    /\ Found \subseteq FileStates \ {Torn}
    /\ ~HasPath => Found \subseteq {NoFile}
    /\ CommandLines # {} /\ \A cmd \in CommandLines : Interval(cmd) \in Int
    /\ Signals \subseteq CommandLines
    /\ MaxStarts \in Nat /\ MaxFaults \in Nat
    /\ {NaNs, LoadMayFail} \subseteq BOOLEAN

VARIABLES
    phase,      \* "down" or "serving"
    flags,      \* the command line of this start
    missed,     \* history: this start has not loaded the file
    nilMap,     \* some Go map is nil
    leaked,     \* a handler has panicked with the write lock held
    mem,        \* the updates the maps reflect
    nan,        \* some gauge is NaN or infinite, which JSON cannot express
    inflight,   \* applied, and the client still waits for the response
    acked,      \* the client got its response (it remembers across restarts)
    pc,         \* where each saver is in Save
    snap,       \* the document it has marshalled
    fd,         \* the file its descriptor is open on: none, .tmp, the file
                \* itself, or one that has no name any more
    file, tmp,  \* what is under the configured path and under path.tmp
    signal,     \* a signal has arrived
    atSignal,   \* history: the answered updates the maps reflected then
    starts, faults

bootVars == <<phase, flags, missed, nilMap>>
lifeVars == <<mem, nan, inflight, acked, leaked, signal, atSignal>>
procVars == <<bootVars, lifeVars>>
saveVars == <<pc, snap, fd>>
diskVars == <<file, tmp>>
vars == <<procVars, saveVars, diskVars, starts, faults>>

Init ==
    /\ phase = "down" /\ flags \in CommandLines
    /\ missed = FALSE /\ nilMap = FALSE /\ leaked = FALSE
    /\ mem = {} /\ nan = FALSE
    /\ inflight = {} /\ acked = {}
    /\ pc = [s \in Savers |-> "idle"]
    /\ snap = [s \in Savers |-> {}]
    /\ fd = [s \in Savers |-> "none"]
    /\ file \in Found /\ tmp = NoFile
    /\ signal = FALSE /\ atSignal = {}
    /\ starts = 0 /\ faults = 0

StoreInterval == Interval(flags)

\* A file operation fails.
Fault == faults < MaxFaults /\ faults' = faults + 1

\* What a start of the server would restore.
Durable == file.ups

-----------------------------------------------------------------------------
(* The process.                                                            *)

\* Mutant of Start: main forgets to restore.
StartEmpty ==
    /\ phase = "down" /\ starts < MaxStarts
    /\ starts' = starts + 1
    /\ phase' = "serving" /\ flags' \in CommandLines
    /\ mem' = {}
    /\ UNCHANGED <<nilMap, missed, nan, inflight, acked, leaked, signal, atSignal>>
    /\ UNCHANGED <<saveVars, diskVars, faults>>

\* main: a new MemStorage, then Load, which replaces the maps.  A missing file is
\* no error; one that cannot be read or decoded is logged, and the server starts
\* with the empty maps it has made.
Start ==
    /\ phase = "down" /\ starts < MaxStarts
    /\ starts' = starts + 1
    /\ phase' = "serving" /\ flags' \in CommandLines
    /\ \/ /\ Restores(Env)
          /\ mem' = Durable /\ nilMap' = (file.state = "null") /\ missed' = FALSE
       \/ /\ ~Restores(Env) \/ LoadMayFail
          /\ mem' = {} /\ nilMap' = FALSE /\ missed' = TRUE
    /\ UNCHANGED <<nan, inflight, acked, leaked, signal, atSignal>>
    /\ UNCHANGED <<saveVars, diskVars, faults>>

\* main gives up before it serves: the environment cannot be parsed or the
\* storage cannot be created (log.Fatal).
StartFails ==
    /\ phase = "down" /\ starts < MaxStarts
    /\ starts' = starts + 1
    /\ UNCHANGED <<procVars, saveVars, diskVars, faults>>

\* All that was in memory is gone.
Down ==
    /\ phase = "serving"
    /\ phase' = "down"
    /\ mem' = {} /\ nan' = FALSE /\ inflight' = {} /\ signal' = FALSE
    /\ nilMap' = FALSE /\ missed' = FALSE /\ leaked' = FALSE
    /\ pc' = [s \in Savers |-> "idle"]
    /\ snap' = [s \in Savers |-> {}]
    /\ fd' = [s \in Savers |-> "none"]
    /\ UNCHANGED <<flags, acked, atSignal, diskVars, starts, faults>>

\* SIGKILL, the OOM killer, a fatal error of the runtime, or log.Fatal because
\* the server cannot listen.
Kill == Down

Saving(s) == pc[s] \in {"open", "write", "rename"}

\* Lock: no Save is in progress, and nobody has panicked with the lock held.
WriteLocked == ~leaked /\ \A s \in Savers : ~Saving(s)

Panics(u) == nilMap /\ u \in Counters

\* A request handler writes to the maps.
Update(u) ==
    /\ phase = "serving" /\ WriteLocked
    /\ u \notin mem /\ ~Panics(u)
    /\ mem' = mem \cup {u}
    /\ nan' \in (IF NaNs THEN BOOLEAN ELSE {nan})
    /\ inflight' = inflight \cup {u}
    /\ UNCHANGED <<bootVars, acked, leaked, signal, atSignal>>
    /\ UNCHANGED <<saveVars, diskVars, starts, faults>>

\* The map is nil: UpdateGauge and UpdateCounter panic before they unlock, and
\* net/http closes the connection and serves on.  A batch that panics unlocks in
\* a defer: all it leaves are the updates in front, which nobody answers.
Panic(u) ==
    /\ phase = "serving" /\ WriteLocked
    /\ Panics(u)
    /\ leaked' = TRUE
    /\ UNCHANGED <<bootVars, mem, nan, inflight, acked, signal, atSignal>>
    /\ UNCHANGED <<saveVars, diskVars, starts, faults>>

\* The client has the response: 200 OK.
Respond(u) ==
    /\ u \in inflight
    /\ inflight' = inflight \ {u}
    /\ acked' = acked \cup {u}
    /\ UNCHANGED <<bootVars, mem, nan, leaked, signal, atSignal>>
    /\ UNCHANGED <<saveVars, diskVars, starts, faults>>

Signal ==
    /\ flags \in Signals /\ phase = "serving" /\ ~signal
    /\ signal' = TRUE
    /\ atSignal' = mem \ inflight
    /\ UNCHANGED <<bootVars, mem, nan, inflight, acked, leaked>>
    /\ UNCHANGED <<saveVars, diskVars, starts, faults>>

-----------------------------------------------------------------------------
(* Save.  The read lock is held from the marshalling to the return.        *)

\* Mutant of AfterSave: the ticker goroutine ends with its first Save.
AfterSaveEnds(s, err) == IF s = "ticker" THEN "ended" ELSE IF err THEN "failed" ELSE "saved"

\* Mutant of AfterSave: the shutdown goroutine goes back to its channel when Save
\* has failed.
AfterSaveReturns(s, err) == IF s = "ticker" \/ err THEN "idle" ELSE "saved"

\* Mutant of AfterSave: an error of Save is dropped.
AfterSaveForgets(s, err) == IF s = "ticker" THEN "idle" ELSE "saved"

\* The ticker waits for its next tick; the shutdown goroutine logs an error and
\* goes on to exit.
AfterSave(s, err) == IF s = "ticker" THEN "idle" ELSE IF err THEN "failed" ELSE "saved"

\* Save returns an error.
Fail(s) ==
    /\ pc' = [pc EXCEPT ![s] = AfterSave(s, TRUE)]
    /\ snap' = [snap EXCEPT ![s] = {}]
    /\ fd' = [fd EXCEPT ![s] = "none"]

Wanted(s) == IF s = "ticker" THEN StoreInterval > 0 ELSE signal

\* RLock, for which no handler may have panicked with the lock held, and
\* json.Marshal, which fails on NaN and the infinities.
Marshal(s) ==
    /\ phase = "serving" /\ pc[s] = "idle" /\ Wanted(s)
    /\ ~leaked
    /\ IF nan
       THEN Fail(s)
       ELSE /\ pc' = [pc EXCEPT ![s] = "open"]
            /\ snap' = [snap EXCEPT ![s] = mem]
            /\ UNCHANGED fd
    /\ UNCHANGED <<procVars, diskVars, starts, faults>>

\* Mutant of Open: the file is written in place.
OpenInPlace(s) ==
    /\ pc[s] = "open"
    /\ pc' = [pc EXCEPT ![s] = "write"]
    /\ fd' = [fd EXCEPT ![s] = "file"]
    /\ file' = Torn
    /\ UNCHANGED <<procVars, snap, tmp, starts, faults>>

\* os.WriteFile opens path.tmp, creating or truncating it, ...
Open(s) ==
    /\ pc[s] = "open"
    /\ \/ /\ pc' = [pc EXCEPT ![s] = "write"]
          /\ fd' = [fd EXCEPT ![s] = "tmp"]
          /\ tmp' = Torn
          /\ UNCHANGED <<snap, faults>>
       \/ Fail(s) /\ Fault /\ UNCHANGED tmp
    /\ UNCHANGED <<procVars, file, starts>>

\* ... writes to whatever the descriptor is open on by now, and closes it.
\* Savers at work at the same time have marshalled the same maps, so a write
\* that fails half way leaves a complete file complete and a torn one torn.
Write(s) ==
    /\ pc[s] = "write"
    /\ \/ /\ pc' = [pc EXCEPT ![s] = "rename"]
          /\ fd' = [fd EXCEPT ![s] = "none"]
          /\ tmp' = IF fd[s] = "tmp" THEN Whole(snap[s], nilMap) ELSE tmp
          /\ file' = IF fd[s] = "file" THEN Whole(snap[s], nilMap) ELSE file
          /\ UNCHANGED <<snap, faults>>
       \/ Fail(s) /\ Fault /\ UNCHANGED diskVars
    /\ UNCHANGED <<procVars, starts>>

Moved(f) == CASE f = "tmp" -> "file" [] f = "file" -> "gone" [] OTHER -> f

\* os.Rename moves whatever is under path.tmp by now, with the descriptors that
\* are open on it.  It fails when nothing is, and when the path is empty.
Rename(s) ==
    /\ pc[s] = "rename"
    /\ \/ /\ HasPath /\ tmp # NoFile
          /\ pc' = [pc EXCEPT ![s] = AfterSave(s, FALSE)]
          /\ snap' = [snap EXCEPT ![s] = {}]
          /\ file' = tmp
          /\ tmp' = NoFile
          /\ fd' = [t \in Savers |-> Moved(fd[t])]
          /\ UNCHANGED faults
       \/ /\ IF HasPath /\ tmp # NoFile THEN Fault ELSE UNCHANGED faults
          /\ Fail(s)
          /\ UNCHANGED diskVars
    /\ UNCHANGED <<procVars, starts>>

\* Mutant of Exit: the process does not wait for Save.
ExitAtOnce == signal /\ Down

\* cancel(); os.Exit(0) - whatever the ticker and the handlers are doing.
Exit == pc["shutdown"] \in {"saved", "failed"} /\ Down

-----------------------------------------------------------------------------
SaveStep(s) == Marshal(s) \/ Open(s) \/ Write(s) \/ Rename(s)

\* Nobody starts the server again.
Over == phase = "down" /\ starts = MaxStarts /\ UNCHANGED vars

Next ==
    \/ Start \/ StartFails \/ Kill \/ Exit \/ Signal \/ Over
    \/ \E u \in Updates : Update(u) \/ Panic(u) \/ Respond(u)
    \/ \E s \in Savers : SaveStep(s)

\* The goroutines of the savers run, the ticker ticks, and system calls return.
Fairness == WF_vars(Exit) /\ \A s \in Savers : WF_vars(SaveStep(s))

Spec == Init /\ [][Next]_vars

FairSpec == Spec /\ Fairness

-----------------------------------------------------------------------------
(* Every variable has its type. *)
TypeOK ==
    /\ phase \in {"down", "serving"} /\ flags \in CommandLines
    /\ {missed, nilMap, leaked, nan, signal} \subseteq BOOLEAN
    /\ {mem, inflight, acked, atSignal} \subseteq Contents
    /\ pc \in [Savers -> {"idle", "open", "write", "rename", "saved", "failed"}]
    /\ snap \in [Savers -> Contents]
    /\ fd \in [Savers -> {"none", "tmp", "file", "gone"}]
    /\ {file, tmp} \subseteq FileStates
    /\ starts \in Nat /\ faults \in Nat

\* Writing path.tmp and renaming it (storage.go 81-86) never leaves a partial
\* file under the path, whenever the process is killed and whichever operation
\* fails.  It takes that only one goroutine saves; see ExitSaves.
FileNeverTorn == file # Torn

\* What has reached the file is never lost again, over any number of crashes
\* and restarts, under a server that has loaded it: main loads it before a Save
\* can replace it (main.go 54-58).
DurableNeverShrinks == [][~missed => Durable \subseteq Durable']_vars

\* A server that is not told to restore, or that fails to load a good file,
\* serves without it, and its Save then replaces the file (main.go 54-58).  But
\* a server whose maps hold what is in the file, for whatever reason, keeps it,
\* in its maps and in the file, whatever is written, fails or stops the server.
LoadedIsKept ==
    [][phase = "serving" /\ Durable \subseteq mem =>
          /\ Durable \subseteq Durable'
          /\ phase' = "serving" => Durable' \subseteq mem']_vars

\* The ticker gets every update into the file (main.go 70-88); a failed
\* operation is made up for by a later tick.  Three things may come between: the
\* process goes down, a gauge JSON cannot express blocks every Save (storage.go
\* 76-79), or a panic has left the lock locked and Save hangs (storage.go 65).
EventuallySaved ==
    \A u \in Updates :
        u \in mem /\ StoreInterval > 0
            ~> u \in Durable \/ phase = "down" \/ nan \/ leaked

\* "Save saves the current state of the metrics to the file storage"
\* (repository.go 27), and setupGracefulShutdown (main.go 90-105) calls it
\* before the process exits: unless Save has returned an error, which is logged,
\* what had been answered when the signal arrived is in the file when os.Exit
\* has run.
ExitSaves ==
    [][Exit /\ pc["shutdown"] # "failed" => atSignal \subseteq Durable']_vars

\* A signal stops the server, even when Save fails (main.go 98-103) - unless a
\* handler has panicked with the lock held: then the Save of main.go 98 waits for
\* ever and keeps the server from exiting.
SignalStops == signal ~> phase = "down" \/ leaked

\* "0 - synchronous writing" (config.go 17, flag.go 16): with an interval of 0
\* an update is in the file when its client has the response.
AckedIsDurable == acked \subseteq Durable
=============================================================================
