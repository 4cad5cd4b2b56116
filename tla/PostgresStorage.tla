--------------------------- MODULE PostgresStorage ---------------------------
(***************************************************************************)
(* Requests that PostgreSQL serves: the repository of                      *)
(* internal/metrics/repository/postgres.go with utils.Retry around its     *)
(* writes, and the service and the handlers (module Handlers) above it.    *)
(* UpdateGauge and UpdateCounter are one statement each, which commits by  *)
(* itself, UpdateMetricsBatch is a transaction, GetGauge and GetCounter    *)
(* are a query each, and GetAll is two, without a transaction.             *)
(*                                                                         *)
(* Every statement is an INSERT ... ON CONFLICT DO UPDATE of one row, which *)
(* locks the row until its transaction ends.  PostgreSQL breaks a cycle of *)
(* transactions that wait for each other's rows by failing one of them.    *)
(*                                                                         *)
(* checkError passes on the errors on its list and the network errors, for *)
(* which Retry tries again; it drops every other error, and the caller is  *)
(* told that all went well.  A query is not tried again.                   *)
(***************************************************************************)
EXTENDS Handlers

CONSTANTS
    Procs,      \* the goroutines of the requests
    Calls,      \* the requests they may serve: [route, ms]
    None,       \* no goroutine, no call
    Attempts,   \* of Retry: 3 in the program
    InTime,     \* how many of them begin before the 2 s of the handler's context
                \* are over: 2, for the pauses are 1 s and 3 s
    MaxCalls,   \* bound: how many requests arrive
    MaxFaults   \* bound: how many statements or answers get lost

ASSUME PostgresAssumption ==
    /\ Attempts \in Nat \ {0} /\ InTime \in 1 .. Attempts
    /\ MaxCalls \in Nat /\ MaxFaults \in Nat
    /\ None \notin Procs /\ None \notin Calls /\ None \notin Values
    /\ Calls \subseteq [route : Routes, ms : Seq(Metric)]
    /\ \A c \in Calls :
          ~Refused(c) /\ (c.route \in OneUpdate \cup OneValue => Len(c.ms) = 1)

VARIABLES
    tables,     \* the committed rows of gauges and counters
    rows,       \* what each transaction has written, None elsewhere
    locks,      \* the transaction that has locked each row
    at,         \* where each goroutine is
    call,       \* the request it serves, or served last
    attempt,    \* of Retry, from 1
    idx,        \* how many metrics its transaction is past
    effects,    \* history: how often its call has been committed
    result,     \* what Retry returned; the caller takes "swallowed" for "ok"
    got,        \* the rows it has read, None where it has not read any
    trail,      \* history: what was committed while it has been reading
    calls, faults

callVars == <<at, call, attempt, idx, result, got>>
vars == <<tables, rows, locks, callVars, effects, trail, calls, faults>>

Nothing == [key \in Keys |-> None]

\* The tables outlive the server, but for the model they start empty.
Init ==
    /\ tables = EmptyMaps
    /\ rows = [p \in Procs |-> Nothing]
    /\ locks = [key \in Keys |-> None]
    /\ at = [p \in Procs |-> "idle"]
    /\ call = [p \in Procs |-> None]
    /\ attempt = [p \in Procs |-> 1]
    /\ idx = [p \in Procs |-> 0]
    /\ effects = [p \in Procs |-> 0]
    /\ result = [p \in Procs |-> "none"]
    /\ got = [p \in Procs |-> Nothing]
    /\ trail = [p \in Procs |-> <<>>]
    /\ calls = 0 /\ faults = 0

-----------------------------------------------------------------------------
(* Rows.                                                                   *)

\* What a statement of p sees: its own rows, and what is committed by now.
View(p) == [key \in Keys |-> IF rows[p][key] = None THEN tables[key] ELSE rows[p][key]]

\* BIGINT does not wrap: a sum out of its range is an error.
Fits(maps, m) ==
    m.type = "counter" =>
        (IF maps[Key(m)] = Absent THEN 0 ELSE maps[Key(m)]) + m.val \in Int64

Free(p, m) == locks[Key(m)] \in {None, p}

-----------------------------------------------------------------------------
(* Retry.                                                                  *)

\* From its first query to its response a request reads.
Reading == {"query", "counters", "answer"}

\* What has been committed since, in order.
Record ==
    trail' = [p \in Procs |->
        CASE at'[p] \notin Reading                     -> <<>>
          [] at'[p] \in Reading /\ at[p] \notin Reading -> <<tables'>>
          [] at'[p] \in Reading /\ at[p] \in Reading   ->
                IF tables' = tables THEN trail[p] ELSE Append(trail[p], tables')]

Invoke(p, c) ==
    /\ at[p] = "idle" /\ calls < MaxCalls
    /\ calls' = calls + 1
    /\ at' = [at EXCEPT ![p] = IF c.route \in Writing THEN "attempt" ELSE "query"]
    /\ call' = [call EXCEPT ![p] = c]
    /\ attempt' = [attempt EXCEPT ![p] = 1]
    /\ effects' = [effects EXCEPT ![p] = 0]
    /\ result' = [result EXCEPT ![p] = "none"]
    /\ UNCHANGED <<tables, rows, locks, idx, got, faults>>
    /\ Record

\* Mutant of Release: the transaction is not rolled back.
ReleaseNothing(p) == UNCHANGED locks

\* Commit and the deferred Rollback give the rows back.
Release(p) ==
    locks' = [key \in Keys |-> IF locks[key] = p THEN None ELSE locks[key]]

\* The service may go on to read, whatever Retry has returned.
Return(p, r) ==
    /\ at' = [at EXCEPT ![p] = IF ReadsBack(call[p]) THEN "query" ELSE "idle"]
    /\ result' = [result EXCEPT ![p] = r]
    /\ UNCHANGED attempt

\* Mutant of Again: one attempt too many.
AgainLate(p) ==
    /\ attempt[p] <= Attempts
    /\ at' = [at EXCEPT ![p] = "attempt"]
    /\ attempt' = [attempt EXCEPT ![p] = @ + 1]
    /\ UNCHANGED result

\* Mutant of Again: the attempts are not counted.
AgainForever(p) ==
    /\ at' = [at EXCEPT ![p] = "attempt"]
    /\ UNCHANGED <<attempt, result>>

\* The pause and the next attempt.
Again(p) ==
    /\ attempt[p] < Attempts
    /\ at' = [at EXCEPT ![p] = "attempt"]
    /\ attempt' = [attempt EXCEPT ![p] = @ + 1]
    /\ UNCHANGED result

\* The attempt ends: without an error, with one that is passed on, or with one
\* that checkError drops.
Ends(p, e) ==
    /\ CASE e = "ok"      -> Return(p, "ok")
         [] e = "dropped" -> Return(p, "swallowed")
         [] e = "error"   -> Again(p) \/ (attempt[p] = Attempts /\ Return(p, "failed"))
    /\ Release(p)
    /\ rows' = [rows EXCEPT ![p] = Nothing]
    /\ idx' = [idx EXCEPT ![p] = 0]
    /\ UNCHANGED <<call, got, calls>>

\* The connection breaks, the statement is cancelled, the server reports
\* something: an error of either kind.
Fault(p) ==
    /\ faults < MaxFaults
    /\ faults' = faults + 1
    /\ \E e \in {"error", "dropped"} : Ends(p, e)

Succeed(p) == Ends(p, "ok") /\ UNCHANGED faults

\* What p has written is committed; the answer may get lost.
Effect(p, maps) ==
    /\ tables' = maps
    /\ effects' = [effects EXCEPT ![p] = @ + 1]
    /\ Succeed(p) \/ Fault(p)

-----------------------------------------------------------------------------
(* The body of Retry.                                                      *)

\* Mutant of Expired: the statements do not get the handler's context.
ExpiredNever(p) == attempt[p] = Attempts + 1

Expired(p) == attempt[p] > InTime

\* database/sql asks the context first: its deadline has passed, which is a
\* network error by its methods, or the client had gone before, which is none.
Late(p) ==
    /\ at[p] = "attempt" /\ Expired(p)
    /\ \E e \in {"error", "dropped"} : Ends(p, e)
    /\ UNCHANGED <<tables, effects, faults>>

Starts(p, routes) == at[p] = "attempt" /\ ~Expired(p) /\ call[p].route \in routes

\* UpdateGauge, UpdateCounter.
Update(p) ==
    LET m == call[p].ms[1] IN
    /\ Starts(p, OneUpdate)
    /\ Free(p, m)
    /\ IF Fits(tables, m)
       THEN Effect(p, Put(tables, m))
       ELSE Ends(p, "dropped") /\ UNCHANGED <<tables, effects, faults>>

\* BeginTx and the two Prepare.
Begin(p) ==
    /\ Starts(p, {"updates"})
    /\ at' = [at EXCEPT ![p] = "tx"]
    /\ UNCHANGED <<tables, rows, locks, call, attempt, idx, effects, result, got, calls, faults>>

\* A statement fails without having been executed, or the transaction cannot
\* begin or be committed.
Break(p) ==
    /\ \/ at[p] = "attempt" /\ ~Expired(p)
       \/ at[p] = "tx"
    /\ Fault(p)
    /\ UNCHANGED <<tables, effects>>

More(p) == at[p] = "tx" /\ idx[p] < Len(call[p].ms)
Current(p) == call[p].ms[idx[p] + 1]

Skip(p) ==
    /\ More(p) /\ Current(p).type \notin Kinds
    /\ idx' = [idx EXCEPT ![p] = @ + 1]
    /\ UNCHANGED <<tables, rows, locks, at, call, attempt, effects, result, got, calls, faults>>

\* A metric without a value: Retry tries this error again as well.
Refuse(p) ==
    /\ More(p) /\ Current(p).type \in Kinds /\ Current(p).val = Nil
    /\ Ends(p, "error")
    /\ UNCHANGED <<tables, effects, faults>>

Valid(p) == More(p) /\ Current(p).type \in Kinds /\ Current(p).val # Nil

\* Mutant of Execute: the statement is run outside the transaction.
ExecuteOutside(p) ==
    /\ Valid(p) /\ Free(p, Current(p)) /\ Fits(tables, Current(p))
    /\ tables' = Put(tables, Current(p))
    /\ idx' = [idx EXCEPT ![p] = @ + 1]
    /\ UNCHANGED <<rows, locks, at, call, attempt, effects, result, got, calls, faults>>

\* Mutant of Execute: a SELECT, the sum in Go, and an UPDATE.
ExecuteReadFirst(p) ==
    LET key == Key(Current(p)) IN
    /\ Valid(p) /\ Fits(View(p), Current(p))
    /\ IF rows[p][key] = None
       THEN /\ rows' = [rows EXCEPT ![p][key] = Written(Current(p), View(p)[key])]
            /\ UNCHANGED <<locks, idx>>
       ELSE /\ Free(p, Current(p))
            /\ locks' = [locks EXCEPT ![key] = p]
            /\ idx' = [idx EXCEPT ![p] = @ + 1]
            /\ UNCHANGED rows
    /\ UNCHANGED <<tables, at, call, attempt, effects, result, got, calls, faults>>

\* INSERT ... ON CONFLICT DO UPDATE: the sum is made of the row as it is when the
\* lock has been got.
Execute(p) ==
    LET key == Key(Current(p)) IN
    /\ Valid(p) /\ Free(p, Current(p)) /\ Fits(View(p), Current(p))
    /\ rows' = [rows EXCEPT ![p][key] = Written(Current(p), View(p)[key])]
    /\ locks' = [locks EXCEPT ![key] = p]
    /\ idx' = [idx EXCEPT ![p] = @ + 1]
    /\ UNCHANGED <<tables, at, call, attempt, effects, result, got, calls, faults>>

\* The sum of a counter is out of range.
Overflow(p) ==
    /\ Valid(p) /\ Free(p, Current(p)) /\ ~Fits(View(p), Current(p))
    /\ Ends(p, "dropped")
    /\ UNCHANGED <<tables, effects, faults>>

\* The transaction p waits for, if any.
Blocker(p) ==
    IF Valid(p) /\ ~Free(p, Current(p)) THEN locks[Key(Current(p))] ELSE None

\* The transactions of ps wait for each other in a circle, or in several.
Circle(ps) == {Blocker(p) : p \in ps} = ps

\* deadlock_detected is not on the list of checkError.
Deadlock(p) ==
    /\ \E ps \in SUBSET Procs : p \in ps /\ Circle(ps)
    /\ Ends(p, "dropped")
    /\ UNCHANGED <<tables, effects, faults>>

Commit(p) ==
    /\ at[p] = "tx" /\ ~More(p)
    /\ Effect(p, View(p))

-----------------------------------------------------------------------------
(* The reads.                                                              *)

\* Mutant of Queries: the counters are read first.
QueriesReversed == <<"counter", "gauge">>

\* GetAll reads the gauges and then the counters.
Queries == <<"gauge", "counter">>

Listing(p) == call[p].route = "list"

\* The rows its next query returns.
Wanted(p) ==
    IF Listing(p)
    THEN {Queries[IF at[p] = "query" THEN 1 ELSE 2]} \X Names
    ELSE {Key(call[p].ms[1])}

\* Mutant of Found: the response of an update carries what was sent.
FoundSent(p, key) ==
    IF Listing(p) \/ call[p].ms[1].val = Nil THEN tables[key] ELSE call[p].ms[1].val

\* What a query finds: it sees what is committed, and waits for no lock.
Found(p, key) == tables[key]

\* QueryRowContext, or one of the two queries of GetAll.
Query(p) ==
    /\ at[p] \in {"query", "counters"}
    /\ at[p] = "query" => ~Expired(p)
    /\ at' = [at EXCEPT ![p] =
                 IF Listing(p) /\ at[p] = "query" THEN "counters" ELSE "answer"]
    /\ got' = [got EXCEPT ![p] =
                 [key \in Keys |-> IF key \in Wanted(p) THEN Found(p, key) ELSE @[key]]]
    /\ UNCHANGED <<tables, rows, locks, call, attempt, idx, effects, result, calls, faults>>

\* It fails, at the latest because the context has expired, which the second
\* query of GetAll does not get; what GetAll has read so far is dropped.
QueryFails(p) ==
    /\ at[p] \in {"query", "counters"}
    /\ IF at[p] = "query" /\ Expired(p)
       THEN UNCHANGED faults
       ELSE faults < MaxFaults /\ faults' = faults + 1
    /\ at' = [at EXCEPT ![p] = "answer"]
    /\ got' = [got EXCEPT ![p] = Nothing]
    /\ UNCHANGED <<tables, rows, locks, call, attempt, idx, effects, result, calls>>

\* The handler writes its response.
Answer(p) ==
    /\ at[p] = "answer"
    /\ at' = [at EXCEPT ![p] = "idle"]
    /\ got' = [got EXCEPT ![p] = Nothing]
    /\ UNCHANGED <<tables, rows, locks, call, attempt, idx, effects, result, calls, faults>>

\* The service drops the error of the read back, and the "not found".
NotReadBack(p) ==
    call[p].route = "updateJSON" /\ got[p][Key(call[p].ms[1])] \in {None, Absent}

\* What the response shows of a row, None if it does not show it: the delta of a
\* counter that has not been read back is the zero value of an int64.
Shown(p, key) ==
    IF NotReadBack(p) /\ key = Key(call[p].ms[1]) THEN 0 ELSE got[p][key]

\* The status of the response.
Status(p) ==
    LET failed == got[p] = Nothing IN
    CASE call[p].route = "list"    -> ListStatus(failed)
      [] call[p].route = "updates" -> BatchStatus(result[p] = "failed")
      [] call[p].route \in OneUpdate -> UpdateStatus
      [] call[p].route \in OneValue  ->
            LET key == Key(call[p].ms[1]) IN
            ValueStatus(key[1], failed, got[p][key] # Absent)

-----------------------------------------------------------------------------
Step(p) ==
    /\ \/ Late(p) \/ Update(p) \/ Begin(p) \/ Break(p)
       \/ Skip(p) \/ Refuse(p) \/ Execute(p) \/ Overflow(p) \/ Deadlock(p) \/ Commit(p)
       \/ Query(p) \/ QueryFails(p) \/ Answer(p)
    /\ Record

\* No more calls are made.
Over ==
    /\ calls = MaxCalls /\ \A p \in Procs : at[p] = "idle"
    /\ UNCHANGED vars

Next ==
    \/ \E p \in Procs : Step(p) \/ \E c \in Calls : Invoke(p, c)
    \/ Over

\* Goroutines run, the database answers, and the waiters of a row form a queue.
Fairness == \A p \in Procs : SF_vars(Step(p))

Spec == Init /\ [][Next]_vars

FairSpec == Spec /\ Fairness

-----------------------------------------------------------------------------
(* Every variable has its type. *)
TypeOK ==
    /\ tables \in [Keys -> Values]
    /\ rows \in [Procs -> [Keys -> Int64 \cup {None}]]
    /\ locks \in [Keys -> Procs \cup {None}]
    /\ at \in [Procs -> {"idle", "attempt", "tx"} \cup Reading]
    /\ call \in [Procs -> Calls \cup {None}]
    /\ attempt \in [Procs -> 1 .. Attempts]
    /\ idx \in [Procs -> Nat]
    /\ effects \in [Procs -> Nat]
    /\ result \in [Procs -> {"none", "ok", "swallowed", "failed"}]
    /\ got \in [Procs -> [Keys -> Values \cup {None}]]
    /\ trail \in [Procs -> Seq([Keys -> Values])]
    /\ calls \in Nat /\ faults \in Nat

\* "One transaction" (repository.go 19), which here is kept: however the
\* statements of the transactions are interleaved, and whatever fails in between,
\* the committed rows change by one whole call at a time, applied to the rows as
\* they are committed by then.  In particular no update is lost: the sums are
\* made in the statements, under the locks (postgres.go 79, 107).
CommitsAreWhole ==
    [][tables' # tables =>
          \E p \in Procs : /\ effects'[p] = effects[p] + 1
                           /\ tables' = PutAll(tables, call[p].ms)]_vars

\* A retry repeats what a lost answer had already done, but the third attempt
\* comes too late for the context of the handler: a counter is added to twice
\* at the most (postgres.go 41, 73-84, handler.go 210).
TwiceAtMost == \A p \in Procs : effects[p] <= InTime

\* "200: success", "500: internal error" (handler.go 336, 339): a batch that is
\* answered 200 has been committed.
AnsweredIsCommitted ==
    \A p \in Procs :
        at[p] = "idle" /\ call[p] # None /\ call[p].route = "updates" /\ Status(p) = 200
        => effects[p] > 0

\* What the response of p shows of a kind are the rows of the moment i of its trail.
ShownAt(p, kind, i) ==
    \A key \in {kind} \X Names : Shown(p, key) \in {None, trail[p][i][key]}

\* What a response shows was committed while its request was being served: the
\* counter that an update answers after that update (service.go 75-77), and the
\* page after its request came, each table as of one moment, the counters of a
\* moment that is not before that of the gauges (postgres.go 172, 194).  The one
\* exception is the zero an update answers, with 200, when the read back failed,
\* or when the update itself was not made and the counter is still missing; after
\* an update that was committed the read back finds the counter or fails.  (The
\* update of a gauge echoes what was sent: it reads nothing.)
ReadsAreFresh ==
    \A p \in Procs : at[p] = "answer" =>
        \/ \E j \in 1 .. Len(trail[p]) : \E i \in 1 .. j :
              ShownAt(p, "gauge", i) /\ ShownAt(p, "counter", j)
        \/ NotReadBack(p) /\ (got[p] = Nothing \/ effects[p] = 0)

\* A gauge is reported missing only if it was missing at a moment while the
\* request was served (service.go 37-46, handler.go 148-152, 295-300), never
\* because it could not be read.
GaugeMissingIsTrue ==
    \A p \in Procs : at[p] = "answer" /\ Status(p) = 404 =>
        LET key == Key(call[p].ms[1]) IN
        key[1] = "gauge" => \E i \in 1 .. Len(trail[p]) : trail[p][i][key] = Absent

\* A row is locked by a transaction under way that has written it, on every
\* path out of a batch (the deferred Rollback of postgres.go 92).
LocksAreHeld ==
    \A key \in Keys, p \in Procs : locks[key] = p =>
        at[p] = "tx" /\ \E i \in 1 .. idx[p] : Key(call[p].ms[i]) = key

\* A sum that was in the range of BIGINT when its statement was executed is in
\* range whenever its transaction is committed, whatever the others have
\* committed since: a commit never wraps, and never fails for its range.
SumsStayInRange ==
    \A p \in Procs : at[p] = "tx" =>
        \A i \in 1 .. idx[p] :
            Known(call[p].ms[i]) =>
                Fits(Puts(tables, call[p].ms)[i - 1], call[p].ms[i])

\* Batches that lock the same rows in different orders do not hang, and no call
\* is tried for ever.
CallsEnd == \A p \in Procs : at[p] # "idle" ~> at[p] = "idle"
=============================================================================
