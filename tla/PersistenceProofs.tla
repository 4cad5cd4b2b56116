------------------------- MODULE PersistenceProofs -------------------------
(***************************************************************************)
(* Proofs about Persistence, for any updates, any number of restarts and   *)
(* any number of failing file operations.                                  *)
(***************************************************************************)
EXTENDS Persistence, TLAPS

\* However the server is started, at most one of the two savers ever runs.
SingleSaver == \A cmd \in CommandLines : ~(Interval(cmd) > 0) \/ cmd \notin Signals

\* The maps cannot change under a Save: what it writes, rename included, is what
\* the server holds at that moment (storage.go 65-86).
SnapshotIsCurrent ==
    \A s \in Savers : Saving(s) => snap[s] = mem

\* Both savers are at rest while the process is down.
Rest ==
    phase = "down" =>
        /\ signal = FALSE /\ leaked = FALSE /\ missed = FALSE
        /\ pc = [s \in Savers |-> "idle"]

BaseInv == TypeOK /\ SnapshotIsCurrent /\ Rest

\* The files there can be, told apart by their state.
LEMMA FileStatesClosed ==
    /\ NoFile \in FileStates /\ Torn \in FileStates
    /\ \A ups \in Contents, null \in BOOLEAN : Whole(ups, null) \in FileStates
    /\ \A f \in FileStates : f.ups \in Contents
    /\ \A f \in FileStates \ {Torn} : f.state # "torn"
    /\ \A ups, null : /\ Whole(ups, null).ups = ups /\ Whole(ups, null) # NoFile
                      /\ Whole(ups, null).state = IF null THEN "null" ELSE "whole"
    /\ NoFile.state = "none" /\ Torn.state = "torn"
<1>1. /\ NoFile.ups = {} /\ NoFile.state = "none"
      /\ Torn.ups = {} /\ Torn.state = "torn"
      /\ {} \in Contents
  BY DEF NoFile, Torn, Contents
<1>2. \A ups, null : /\ Whole(ups, null).ups = ups
                    /\ Whole(ups, null).state = IF null THEN "null" ELSE "whole"
  BY DEF Whole
<1>3. \A f \in FileStates :
        f = NoFile \/ f = Torn \/ \E ups \in Contents, null \in BOOLEAN : f = Whole(ups, null)
  BY DEF FileStates
<1>4. /\ NoFile \in FileStates /\ Torn \in FileStates
      /\ \A ups \in Contents, null \in BOOLEAN : Whole(ups, null) \in FileStates
  BY DEF FileStates
<1> HIDE DEF NoFile, Torn, Whole
<1>5. ASSUME NEW f \in FileStates PROVE f.ups \in Contents
  <2>1. CASE f = NoFile \/ f = Torn
    BY <1>1, <2>1
  <2>2. ASSUME NEW ups \in Contents, NEW null \in BOOLEAN, f = Whole(ups, null)
        PROVE  f.ups \in Contents
    BY <1>2, <2>2
  <2> QED
    BY <1>3, <2>1, <2>2
<1>6. \A f \in FileStates \ {Torn} : f.state # "torn"
  BY <1>1, <1>2, <1>3
<1>7. \A ups, null : Whole(ups, null) # NoFile
  BY <1>1, <1>2
<1> QED
  BY <1>1, <1>2, <1>4, <1>5, <1>6, <1>7

LEMMA BaseInit == Init => BaseInv
<1> SUFFICES ASSUME Init PROVE BaseInv
  OBVIOUS
<1>1. {} \in Contents /\ file \in FileStates
  BY PersistenceAssumption DEF Init, Contents
<1>2. /\ pc \in [Savers -> {"idle", "open", "write", "rename", "saved", "failed"}]
      /\ snap \in [Savers -> Contents]
      /\ fd \in [Savers -> {"none", "tmp", "file", "gone"}]
  BY <1>1 DEF Init
<1>3. TypeOK
  BY <1>1, <1>2, FileStatesClosed DEF Init, TypeOK
<1>4. SnapshotIsCurrent /\ Rest
  BY DEF Init, SnapshotIsCurrent, Saving, Rest
<1> QED
  BY <1>3, <1>4 DEF BaseInv

LEMMA BaseNext == BaseInv /\ [Next]_vars => BaseInv'
<1> SUFFICES ASSUME BaseInv, [Next]_vars PROVE BaseInv'
  OBVIOUS
<1> USE FileStatesClosed DEF BaseInv, procVars, bootVars, lifeVars, saveVars, diskVars
<1>1. CASE Start
  <2>0. nilMap' \in BOOLEAN
    BY <1>1 DEF Start
  <2>1. /\ mem' \in Contents /\ missed' \in BOOLEAN
        /\ phase' = "serving" /\ flags' \in CommandLines /\ starts' \in Nat
    <3>1. Durable \in Contents /\ {} \in Contents
      BY DEF TypeOK, Durable, Contents
    <3>2. mem' = Durable \/ mem' = {}
      BY <1>1 DEF Start
    <3>3. phase' = "serving" /\ flags' \in CommandLines /\ starts' \in Nat
      BY <1>1 DEF Start, TypeOK
    <3>4. missed' \in BOOLEAN
      BY <1>1 DEF Start
    <3> QED
      BY <3>1, <3>2, <3>3, <3>4
  <2>2. /\ \A s \in Savers : ~Saving(s)
        /\ UNCHANGED <<nan, inflight, acked, leaked, signal, atSignal>>
        /\ UNCHANGED <<saveVars, diskVars, faults>>
    BY <1>1 DEF Start, Rest, Saving
  <2>3. TypeOK'
    BY <2>0, <2>1, <2>2 DEF TypeOK
  <2>4. SnapshotIsCurrent' /\ Rest'
    BY <1>1, <2>2 DEF Start, SnapshotIsCurrent, Rest, Saving
  <2> QED
    BY <2>3, <2>4
<1>2. CASE StartFails
  <2>1. starts' \in Nat /\ UNCHANGED <<procVars, saveVars, diskVars, faults>>
    BY <1>2 DEF StartFails, TypeOK
  <2>2. TypeOK'
    BY <2>1 DEF TypeOK
  <2>3. SnapshotIsCurrent' /\ Rest'
    BY <2>1 DEF SnapshotIsCurrent, Rest, Saving
  <2> QED
    BY <2>2, <2>3
<1>3. CASE Down
  <2>1. TypeOK'
    BY <1>3 DEF Down, TypeOK, Contents
  <2>2. SnapshotIsCurrent' /\ Rest'
    BY <1>3 DEF Down, SnapshotIsCurrent, Rest, Saving
  <2> QED
    BY <2>1, <2>2
<1>4. CASE Signal
  <2>1. TypeOK'
    BY <1>4 DEF Signal, TypeOK, Contents
  <2>2. SnapshotIsCurrent' /\ Rest'
    BY <1>4 DEF Signal, SnapshotIsCurrent, Rest, Saving
  <2> QED
    BY <2>1, <2>2
<1>5. ASSUME NEW u \in Updates, Update(u) PROVE BaseInv'
  BY <1>5 DEF Update, WriteLocked, TypeOK, SnapshotIsCurrent, Rest, Saving, Contents
<1>12. ASSUME NEW u \in Updates, Panic(u) PROVE BaseInv'
  BY <1>12 DEF Panic, TypeOK, SnapshotIsCurrent, Rest, Saving
<1>6. ASSUME NEW u \in Updates, Respond(u) PROVE BaseInv'
  BY <1>6 DEF Respond, TypeOK, SnapshotIsCurrent, Rest, Saving, Contents
<1>7. ASSUME NEW s \in Savers, Marshal(s) PROVE BaseInv'
  BY <1>7 DEF Marshal, Fail, AfterSave, TypeOK, SnapshotIsCurrent, Rest, Saving, Contents
<1>8. ASSUME NEW s \in Savers, Open(s) PROVE BaseInv'
  BY <1>8 DEF Open, Fail, AfterSave, Fault, TypeOK, SnapshotIsCurrent, Rest, Saving, Contents
<1>9. ASSUME NEW s \in Savers, Write(s) PROVE BaseInv'
  BY <1>9 DEF Write, Fail, AfterSave, Fault, TypeOK, SnapshotIsCurrent, Rest, Saving, Contents
<1>10. ASSUME NEW s \in Savers, Rename(s) PROVE BaseInv'
  BY <1>10 DEF Rename, Fail, AfterSave, Fault, Moved, TypeOK, SnapshotIsCurrent, Rest, Saving, Contents
<1>11. CASE UNCHANGED vars
  BY <1>11 DEF vars, TypeOK, SnapshotIsCurrent, Rest, Saving
<1> QED
  BY <1>1, <1>2, <1>3, <1>4, <1>5, <1>6, <1>7, <1>8, <1>9, <1>10, <1>11, <1>12
     DEF Next, Kill, Exit, Over, SaveStep

\* Every variable keeps its type.
THEOREM TypeCorrect == Spec => []TypeOK
<1>1. BaseInv => TypeOK
  BY DEF BaseInv
<1> QED
  BY <1>1, BaseInit, BaseNext, PTL DEF Spec

-----------------------------------------------------------------------------
(* One saver.  Then path.tmp is what the saver has made of it, and the     *)
(* rename moves a whole document.                                          *)

OneSaver ==
    /\ signal => flags \in Signals
    /\ pc["ticker"] # "idle" => StoreInterval > 0
    /\ pc["shutdown"] # "idle" => signal

TmpIsSaved ==
    \A s \in Savers :
        /\ fd[s] = IF pc[s] = "write" THEN "tmp" ELSE "none"
        /\ pc[s] = "rename" => tmp = Whole(snap[s], nilMap)

FileInv == BaseInv /\ OneSaver /\ TmpIsSaved /\ file.state # "torn"

LEMMA FileInit == Init => FileInv
  BY BaseInit, FileStatesClosed, PersistenceAssumption
     DEF Init, FileInv, OneSaver, TmpIsSaved, Savers

LEMMA FileNext ==
    ASSUME SingleSaver, FileInv, [Next]_vars
    PROVE  FileInv'
<1> BaseInv'
  BY BaseNext DEF FileInv
<1> USE FileStatesClosed DEF FileInv, BaseInv, procVars, bootVars, lifeVars, saveVars, diskVars
<1> DEFINE Goal == OneSaver' /\ TmpIsSaved' /\ file'.state # "torn"
<1> SUFFICES Goal
  OBVIOUS
<1>0. \A s, t \in Savers : pc[s] # "idle" /\ pc[t] # "idle" => s = t
  BY DEF OneSaver, SingleSaver, StoreInterval, TypeOK, Savers
<1>1. CASE Start
  BY <1>1 DEF Start, Rest, OneSaver, TmpIsSaved, Savers
<1>2. CASE StartFails
  BY <1>2 DEF StartFails, OneSaver, StoreInterval, TmpIsSaved
<1>3. CASE Down
  BY <1>3 DEF Down, OneSaver, TmpIsSaved, Savers
<1>4. CASE Signal
  BY <1>4 DEF Signal, OneSaver, StoreInterval, TmpIsSaved
<1>5. ASSUME NEW u \in Updates, Update(u) PROVE Goal
  BY <1>5 DEF Update, OneSaver, StoreInterval, TmpIsSaved
<1>12. ASSUME NEW u \in Updates, Panic(u) PROVE Goal
  BY <1>12 DEF Panic, OneSaver, StoreInterval, TmpIsSaved
<1>6. ASSUME NEW u \in Updates, Respond(u) PROVE Goal
  BY <1>6 DEF Respond, OneSaver, StoreInterval, TmpIsSaved
<1>7. ASSUME NEW s \in Savers, Marshal(s) PROVE Goal
  BY <1>7 DEF Marshal, Fail, AfterSave, Wanted, TypeOK, OneSaver, StoreInterval, TmpIsSaved, Savers
<1>8. ASSUME NEW s \in Savers, Open(s) PROVE Goal
  BY <1>0, <1>8 DEF Open, Fail, AfterSave, TypeOK, OneSaver, StoreInterval, TmpIsSaved, Savers
<1>9. ASSUME NEW s \in Savers, Write(s) PROVE Goal
  BY <1>0, <1>9 DEF Write, Fail, AfterSave, TypeOK, OneSaver, StoreInterval, TmpIsSaved, Savers
<1>10. ASSUME NEW s \in Savers, Rename(s) PROVE Goal
  BY <1>0, <1>10 DEF Rename, Fail, AfterSave, Moved, TypeOK, OneSaver, StoreInterval, TmpIsSaved, Savers
<1>11. CASE UNCHANGED vars
  BY <1>11 DEF vars, OneSaver, StoreInterval, TmpIsSaved
<1> QED
  BY <1>1, <1>2, <1>3, <1>4, <1>5, <1>6, <1>7, <1>8, <1>9, <1>10, <1>11, <1>12
     DEF Next, Kill, Exit, Over, SaveStep

\* While only one goroutine saves, no crash and no failing operation leaves a
\* partial file under the configured path.
THEOREM NoTornFile == ASSUME SingleSaver PROVE Spec => []FileNeverTorn
<1>1. FileInv => FileNeverTorn
  BY FileStatesClosed DEF FileInv, FileNeverTorn
<1>2. FileInv /\ [Next]_vars => FileInv'
  BY FileNext
<1> QED
  BY <1>1, <1>2, FileInit, PTL DEF Spec

-----------------------------------------------------------------------------
(* The file behind the maps: with one saver, the maps of a server that has *)
(* loaded the file never miss an update the file has.                      *)

Holds == phase = "serving" => Durable \subseteq mem

Restored == ~missed => Holds

LEMMA HoldsNext ==
    ASSUME SingleSaver, FileInv, Holds, [Next]_vars, ~Start
    PROVE  Holds' /\ Durable \subseteq Durable'
<1> USE DEF FileInv, BaseInv, procVars, bootVars, lifeVars, saveVars, diskVars, Holds, Durable
<1> DEFINE Goal == Holds' /\ Durable \subseteq Durable'
<1> SUFFICES Goal
  OBVIOUS
<1>2. CASE StartFails
  BY <1>2 DEF StartFails
<1>3. CASE Down
  BY <1>3 DEF Down
<1>4. CASE Signal
  BY <1>4 DEF Signal
<1>5. ASSUME NEW u \in Updates, Update(u) PROVE Goal
  BY <1>5 DEF Update
<1>12. ASSUME NEW u \in Updates, Panic(u) PROVE Goal
  BY <1>12 DEF Panic
<1>6. ASSUME NEW u \in Updates, Respond(u) PROVE Goal
  BY <1>6 DEF Respond
<1>7. ASSUME NEW s \in Savers, Marshal(s) PROVE Goal
  BY <1>7 DEF Marshal, Fail
<1>8. ASSUME NEW s \in Savers, Open(s) PROVE Goal
  BY <1>8 DEF Open, Fail
<1>9. ASSUME NEW s \in Savers, Write(s) PROVE Goal
  \* The saver writes to path.tmp.
  BY <1>9 DEF Write, Fail, TmpIsSaved
<1>10. ASSUME NEW s \in Savers, Rename(s) PROVE Goal
  <2>1. tmp = Whole(snap[s], nilMap) /\ snap[s] = mem /\ mem \in Contents /\ phase = "serving"
    BY <1>10 DEF Rename, TmpIsSaved, SnapshotIsCurrent, Saving, TypeOK, Rest
  <2>2. tmp.ups = mem
    BY <2>1, FileStatesClosed
  <2> QED
    BY <1>10, <2>1, <2>2 DEF Rename
<1>11. CASE UNCHANGED vars
  BY <1>11 DEF vars
<1> QED
  BY <1>2, <1>3, <1>4, <1>5, <1>6, <1>7, <1>8, <1>9, <1>10, <1>11, <1>12
     DEF Next, Kill, Exit, Over, SaveStep

LEMMA RestoredNext ==
    ASSUME SingleSaver, FileInv, Restored, [Next]_vars
    PROVE  Restored' /\ (~missed => Durable \subseteq Durable')
<1>1. CASE Start
  BY <1>1 DEF Start, Restored, Holds, Durable, diskVars
<1>2. CASE ~Start /\ missed' = missed
  BY <1>2, HoldsNext DEF Restored
<1>3. CASE ~Start /\ missed' # missed
  <2>1. Down
    BY <1>3 DEF Next, StartFails, Kill, Exit, Signal, Over, vars, Update, Panic, Respond,
                SaveStep, Marshal, Open, Write, Rename, procVars, bootVars
  <2> QED
    BY <2>1 DEF Down, Restored, Holds, Durable, diskVars
<1> QED
  BY <1>1, <1>2, <1>3

\* What is in the file stays there over any number of crashes and restarts, under
\* every server that has loaded it: nobody truncates what another is renaming,
\* and the maps that are saved have what was loaded.
THEOREM DurableIsKept == ASSUME SingleSaver PROVE Spec => DurableNeverShrinks
<1>1. Init => Restored
  BY DEF Init, Restored, Holds
<1>2. FileInv /\ [Next]_vars => FileInv'
  BY FileNext
<1>3. FileInv /\ Restored /\ [Next]_vars
        => Restored' /\ [~missed => Durable \subseteq Durable']_vars
  BY RestoredNext
<1> QED
  BY <1>1, <1>2, <1>3, FileInit, PTL DEF Spec, DurableNeverShrinks

\* A server that holds what is in the file keeps it, whether or not it has loaded
\* it and however often other starts have failed to.
THEOREM LoadedStays == ASSUME SingleSaver PROVE Spec => LoadedIsKept
<1>1. FileInv /\ [Next]_vars => FileInv'
  BY FileNext
<1>2. FileInv /\ [Next]_vars =>
        [phase = "serving" /\ Durable \subseteq mem =>
            /\ Durable \subseteq Durable'
            /\ phase' = "serving" => Durable' \subseteq mem']_vars
  <2> SUFFICES ASSUME FileInv, [Next]_vars, phase = "serving", Durable \subseteq mem
               PROVE  /\ Durable \subseteq Durable'
                      /\ phase' = "serving" => Durable' \subseteq mem'
    OBVIOUS
  <2>1. Holds /\ ~Start
    BY DEF Holds, Start
  <2> QED
    BY <2>1, HoldsNext DEF Holds
<1> QED
  BY <1>1, <1>2, FileInit, PTL DEF Spec, LoadedIsKept

-----------------------------------------------------------------------------
(* The last Save.                                                          *)

ExitInv ==
    /\ signal => atSignal \subseteq mem
    /\ pc["shutdown"] = "saved" => atSignal \subseteq Durable

LEMMA ExitNext ==
    ASSUME SingleSaver, FileInv, ExitInv, [Next]_vars
    PROVE  ExitInv'
<1> USE DEF FileInv, BaseInv, procVars, bootVars, lifeVars, saveVars, diskVars, ExitInv, Durable
<1>1. CASE Start
  BY <1>1 DEF Start, Rest, Savers
<1>2. CASE StartFails
  BY <1>2 DEF StartFails
<1>3. CASE Down
  BY <1>3 DEF Down, Savers
<1>4. CASE Signal
  BY <1>4 DEF Signal, OneSaver
<1>5. ASSUME NEW u \in Updates, Update(u) PROVE ExitInv'
  BY <1>5 DEF Update
<1>12. ASSUME NEW u \in Updates, Panic(u) PROVE ExitInv'
  BY <1>12 DEF Panic
<1>6. ASSUME NEW u \in Updates, Respond(u) PROVE ExitInv'
  BY <1>6 DEF Respond
<1>7. ASSUME NEW s \in Savers, Marshal(s) PROVE ExitInv'
  BY <1>7 DEF Marshal, Fail, AfterSave, TypeOK, Savers
<1>8. ASSUME NEW s \in Savers, Open(s) PROVE ExitInv'
  BY <1>8 DEF Open, Fail, AfterSave, TypeOK, Savers
<1>9. ASSUME NEW s \in Savers, Write(s) PROVE ExitInv'
  BY <1>9 DEF Write, Fail, AfterSave, TypeOK, TmpIsSaved, Savers
<1>10. ASSUME NEW s \in Savers, Rename(s) PROVE ExitInv'
  <2>1. tmp = Whole(snap[s], nilMap) /\ snap[s] = mem
    BY <1>10 DEF Rename, TmpIsSaved, SnapshotIsCurrent, Saving
  <2>2. tmp.ups = mem
    BY <2>1, FileStatesClosed
  <2>3. UNCHANGED <<mem, signal, atSignal>> /\ pc[s] = "rename"
    BY <1>10 DEF Rename
  <2>4. CASE file' = tmp /\ pc' = [pc EXCEPT ![s] = AfterSave(s, FALSE)]
    <3>1. pc'["shutdown"] = "saved" => s = "shutdown" \/ pc["shutdown"] = "saved"
      BY <2>4 DEF TypeOK, Savers
    <3>2. pc["shutdown"] # "idle" => signal
      BY DEF OneSaver
    <3> QED
      BY <2>2, <2>3, <2>4, <3>1, <3>2
  <2>5. CASE file' = file /\ pc' = [pc EXCEPT ![s] = AfterSave(s, TRUE)]
    BY <2>3, <2>5 DEF AfterSave, TypeOK, Savers
  <2> QED
    BY <1>10, <2>4, <2>5 DEF Rename, Fail
<1>11. CASE UNCHANGED vars
  BY <1>11 DEF vars
<1> QED
  BY <1>1, <1>2, <1>3, <1>4, <1>5, <1>6, <1>7, <1>8, <1>9, <1>10, <1>11, <1>12
     DEF Next, Kill, Exit, Over, SaveStep

\* A stop by signal loses nothing that was answered before the signal came, as
\* long as the ticker does not save as well and Save has not returned an error.
THEOREM ExitHasSaved == ASSUME SingleSaver PROVE Spec => ExitSaves
<1>1. Init => ExitInv
  BY DEF Init, ExitInv, Savers
<1>2. FileInv /\ [Next]_vars => FileInv'
  BY FileNext
<1>3. FileInv /\ ExitInv /\ [Next]_vars
        => ExitInv' /\ [Exit /\ pc["shutdown"] # "failed" => atSignal \subseteq Durable']_vars
  <2> SUFFICES ASSUME FileInv, ExitInv, [Next]_vars
               PROVE  ExitInv' /\ (Exit /\ pc["shutdown"] # "failed" => atSignal \subseteq Durable')
    OBVIOUS
  <2>1. ExitInv'
    BY ExitNext
  <2>2. Exit /\ pc["shutdown"] # "failed" => atSignal \subseteq Durable'
    BY DEF Exit, Down, ExitInv, Durable, diskVars
  <2> QED
    BY <2>1, <2>2
<1> QED
  BY <1>1, <1>2, <1>3, FileInit, PTL DEF Spec, ExitSaves

-----------------------------------------------------------------------------
(* The leaked lock.                                                        *)

\* No Save is in progress while the lock is leaked.
Hangs == leaked => \A s \in Savers : ~Saving(s)

LEMMA HangsNext ==
    ASSUME BaseInv, Hangs, [Next]_vars
    PROVE  Hangs' /\ (leaked => UNCHANGED diskVars /\ (phase' = "serving" => mem' = mem))
<1> USE DEF Hangs, Saving, BaseInv, TypeOK, procVars, bootVars, lifeVars, saveVars, diskVars
<1> DEFINE Goal == Hangs' /\ (leaked => UNCHANGED diskVars /\ (phase' = "serving" => mem' = mem))
<1> SUFFICES Goal
  OBVIOUS
<1>1. CASE Start \/ StartFails \/ Down \/ Signal \/ UNCHANGED vars
  BY <1>1 DEF Start, StartFails, Down, Signal, vars, Rest
<1>2. ASSUME NEW u \in Updates, Update(u) \/ Panic(u) \/ Respond(u) PROVE Goal
  BY <1>2 DEF Update, Panic, Respond, WriteLocked
<1>3. ASSUME NEW s \in Savers, SaveStep(s) PROVE Goal
  <2>1. ~leaked
    BY <1>3 DEF SaveStep, Marshal, Open, Write, Rename
  <2>2. leaked' = leaked
    BY <1>3 DEF SaveStep, Marshal, Open, Write, Rename
  <2> QED
    BY <2>1, <2>2
<1> QED
  BY <1>1, <1>2, <1>3 DEF Next, Kill, Exit, Over

\* Once a handler has panicked with the lock held, nothing is written to the maps
\* and nothing is saved any more: what is not in the file by then is lost when
\* the process goes down, which a signal no longer makes it do by itself.
THEOREM LeakEndsSaving ==
    Spec => [][leaked => UNCHANGED diskVars /\ (phase' = "serving" => mem' = mem)]_vars
<1>1. Init => Hangs
  BY DEF Init, Hangs
<1>2. BaseInv /\ Hangs /\ [Next]_vars =>
        Hangs' /\ [leaked => UNCHANGED diskVars /\ (phase' = "serving" => mem' = mem)]_vars
  BY HangsNext
<1> QED
  BY <1>1, <1>2, BaseInit, BaseNext, PTL DEF Spec

\* No map is nil, and none ever will be.
NoNull == ~nilMap /\ ~leaked /\ file.state # "null" /\ tmp.state # "null"

LEMMA NoNullNext ==
    ASSUME BaseInv, NoNull, [Next]_vars
    PROVE  NoNull'
<1> USE FileStatesClosed DEF NoNull, procVars, bootVars, lifeVars, saveVars, diskVars
<1>1. CASE StartFails \/ Down \/ Signal \/ UNCHANGED vars
  BY <1>1 DEF StartFails, Down, Signal, vars
<1>4. CASE Start
  <2>1. ~nilMap'
    BY <1>4 DEF Start
  <2>2. UNCHANGED <<leaked, file, tmp>>
    BY <1>4 DEF Start
  <2> QED
    BY <2>1, <2>2
<1>2. ASSUME NEW u \in Updates, Update(u) \/ Panic(u) \/ Respond(u) PROVE NoNull'
  BY <1>2 DEF Update, Panic, Panics, Respond
<1>3. ASSUME NEW s \in Savers, SaveStep(s) PROVE NoNull'
  <2>1. UNCHANGED <<nilMap, leaked>>
    BY <1>3 DEF SaveStep, Marshal, Open, Write, Rename
  <2>2. CASE Marshal(s) \/ Open(s)
    BY <2>1, <2>2 DEF Marshal, Open
  <2>3. CASE Write(s)
    BY <2>1, <2>3 DEF Write
  <2>4. CASE Rename(s)
    <3>1. UNCHANGED <<file, tmp>> \/ (file' = tmp /\ tmp' = NoFile)
      BY <2>4 DEF Rename
    <3> QED
      BY <2>1, <3>1
  <2> QED
    BY <1>3, <2>2, <2>3, <2>4 DEF SaveStep
<1> QED
  BY <1>1, <1>2, <1>3, <1>4 DEF Next, Kill, Exit, Over

\* The server writes no null into its own file: unless it finds a file with one,
\* no handler ever panics with the lock held, over any number of restarts.
THEOREM NullComesFromOutside ==
    ASSUME \A f \in Found : f.state # "null" PROVE Spec => []~leaked
<1>1. Init => NoNull
  BY FileStatesClosed DEF Init, NoNull
<1>2. BaseInv /\ NoNull /\ [Next]_vars => NoNull'
  BY NoNullNext
<1>3. NoNull => ~leaked
  BY DEF NoNull
<1> QED
  BY <1>1, <1>2, <1>3, BaseInit, BaseNext, PTL DEF Spec

-----------------------------------------------------------------------------
(* The path of the command line.                                           *)

Unwritten == file = NoFile /\ \A s \in Savers : fd[s] \in {"none", "tmp"}

LEMMA UnwrittenNext ==
    ASSUME Env.FileStoragePath = "", TypeOK, Unwritten, [Next]_vars
    PROVE  Unwritten'
<1> USE DEF Unwritten, TypeOK, procVars, bootVars, lifeVars, saveVars, diskVars
<1>1. CASE Start \/ StartFails \/ Down \/ Signal \/ UNCHANGED vars
  BY <1>1 DEF Start, StartFails, Down, Signal, vars
<1>2. ASSUME NEW u \in Updates, Update(u) \/ Panic(u) \/ Respond(u) PROVE Unwritten'
  BY <1>2 DEF Update, Panic, Respond
<1>3. ASSUME NEW s \in Savers, Marshal(s) \/ Open(s) \/ Write(s) PROVE Unwritten'
  BY <1>3 DEF Marshal, Open, Write, Fail
<1>4. ASSUME NEW s \in Savers, Rename(s) PROVE Unwritten'
  BY <1>4 DEF Rename, Fail, HasPath, StoragePath
<1> QED
  BY <1>1, <1>2, <1>3, <1>4 DEF Next, Kill, Exit, Over, SaveStep

\* Without FILE_STORAGE_PATH in the environment nothing is ever in a file to be
\* restored, whatever the command line says: main hands the storage the path of
\* the environment only (main.go 48).
THEOREM FlagPathIsIgnored ==
    ASSUME Env.FileStoragePath = "" PROVE Spec => [](Durable = {})
<1>1. Init => Unwritten
  BY PersistenceAssumption DEF Init, Unwritten, HasPath, StoragePath
<1>2. BaseInv /\ Unwritten /\ [Next]_vars => Unwritten'
  BY UnwrittenNext DEF BaseInv
<1>3. Unwritten => Durable = {}
  <2>1. NoFile.ups = {}
    BY DEF NoFile
  <2> QED
    BY <2>1 DEF Unwritten, Durable
<1> QED
  BY <1>1, <1>2, <1>3, BaseInit, BaseNext, PTL DEF Spec

-----------------------------------------------------------------------------
(* The interval 0.                                                         *)

\* Without a ticker it is the shutdown goroutine that saves, once it has its
\* signal.
OnSignal ==
    /\ pc["ticker"] # "idle" => StoreInterval > 0
    /\ pc["shutdown"] # "idle" => signal

LEMMA OnSignalNext ==
    ASSUME BaseInv, OnSignal, [Next]_vars
    PROVE  OnSignal' /\ (file' # file => signal \/ StoreInterval > 0)
<1> USE DEF BaseInv, TypeOK, OnSignal, StoreInterval, procVars, bootVars, lifeVars, saveVars,
            diskVars, Savers
<1> DEFINE Goal == OnSignal' /\ (file' # file => signal \/ StoreInterval > 0)
<1> SUFFICES Goal
  OBVIOUS
<1>1. CASE Start \/ StartFails \/ Down \/ Signal \/ UNCHANGED vars
  BY <1>1 DEF Start, StartFails, Down, Signal, vars, Rest
<1>2. ASSUME NEW u \in Updates, Update(u) \/ Panic(u) \/ Respond(u) PROVE Goal
  BY <1>2 DEF Update, Panic, Respond
<1>3. ASSUME NEW s \in Savers, SaveStep(s) PROVE Goal
  <2>1. UNCHANGED <<flags, signal>> /\ \A t \in Savers : t # s => pc'[t] = pc[t]
    BY <1>3 DEF SaveStep, Marshal, Open, Write, Rename, Fail
  <2>2. (s = "shutdown" => signal) /\ (s = "ticker" => StoreInterval > 0)
    BY <1>3 DEF SaveStep, Marshal, Open, Write, Rename, Wanted
  <2> QED
    BY <2>1, <2>2
<1> QED
  BY <1>1, <1>2, <1>3 DEF Next, Kill, Exit, Over

\* A server that was started with a store interval of 0, which config.go 17 calls
\* synchronous writing, writes the file in answer to a signal and at no other
\* time.
THEOREM IntervalZeroAwaitsSignal ==
    Spec => [][file' # file => signal \/ StoreInterval > 0]_vars
<1>1. Init => OnSignal
  BY DEF Init, OnSignal, Savers
<1>2. BaseInv /\ OnSignal /\ [Next]_vars =>
        OnSignal' /\ [file' # file => signal \/ StoreInterval > 0]_vars
  BY OnSignalNext
<1> QED
  BY <1>1, <1>2, BaseInit, BaseNext, PTL DEF Spec
=============================================================================
