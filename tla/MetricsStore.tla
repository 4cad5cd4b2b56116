---------------------------- MODULE MetricsStore ----------------------------
(***************************************************************************)
(* What a metrics repository promises its callers (the Repository          *)
(* interface of internal/domain/interfaces/repository.go): a store that    *)
(* every call acts on in one indivisible step between its invocation and   *)
(* its reply.                                                              *)
(*                                                                         *)
(* AllOrNothing says how a call that fails half way through its metrics    *)
(* ends.  The interface documents UpdateMetricsBatch as one transaction,   *)
(* which is AllOrNothing = TRUE; with FALSE the metrics in front of the    *)
(* one that cannot be written stay written.                                *)
(***************************************************************************)
EXTENDS Metrics

CONSTANTS
    Procs,          \* the goroutines that call the repository
    Calls,          \* the calls they may make: [op, ms]
    None,           \* no call
    AllOrNothing

VARIABLES
    store,          \* what the repository holds
    broken,         \* the kinds that cannot be written at all
    ready,          \* the start-up Load is over
    pending,        \* the call each goroutine waits for, or None
    reply           \* how its last call ended

sVars == <<store, broken, ready, pending, reply>>

SInit ==
    /\ store = EmptyMaps
    /\ broken = {}
    /\ ready = FALSE
    /\ pending = [p \in Procs |-> None]
    /\ reply = [p \in Procs |-> "none"]

\* Start-up: the store takes the state Load found, or stays as it is.
SRestore ==
    /\ ~ready
    /\ ready' = TRUE
    /\ store' \in [Keys -> Values]
    /\ broken' \in SUBSET Kinds
    /\ UNCHANGED <<pending, reply>>

SInvoke(p, c) ==
    /\ ready
    /\ pending[p] = None
    /\ pending' = [pending EXCEPT ![p] = c]
    /\ reply' = [reply EXCEPT ![p] = "none"]
    /\ UNCHANGED <<store, broken, ready>>

SReply(p, r) ==
    /\ pending[p] # None
    /\ pending' = [pending EXCEPT ![p] = None]
    /\ reply' = [reply EXCEPT ![p] = r]
    /\ UNCHANGED <<broken, ready>>

Writable(m) == m.val # Nil /\ m.type \notin broken

\* The caller's context had expired: nothing is done.
SExpire(p) == SReply(p, "expired") /\ UNCHANGED store

\* Every metric of the call is written, at once.
SApply(p) ==
    /\ SReply(p, "ok")
    /\ pending[p].op \in {"update", "batch"}
    /\ \A i \in 1 .. Len(pending[p].ms) :
          Known(pending[p].ms[i]) => Writable(pending[p].ms[i])
    /\ store' = PutAll(store, pending[p].ms)

\* The k-th metric cannot be written.
SFail(p) ==
    /\ \E r \in {"error", "panic"} : SReply(p, r)
    /\ pending[p].op \in {"update", "batch"}
    /\ LET ms == pending[p].ms IN
       \E k \in 1 .. Len(ms) :
          /\ Known(ms[k]) /\ ~Writable(ms[k])
          /\ \A i \in 1 .. k - 1 : Known(ms[i]) => Writable(ms[i])
          /\ store' = IF AllOrNothing
                      THEN store
                      ELSE Puts(store, ms)[k - 1]

\* A call that only reads.
SRead(p) ==
    /\ SReply(p, "ok")
    /\ pending[p].op \in {"get", "getAll", "save"}
    /\ UNCHANGED store

SNext ==
    \/ SRestore
    \/ \E p \in Procs :
          \/ \E c \in Calls : SInvoke(p, c)
          \/ SExpire(p)
          \/ SApply(p)
          \/ SFail(p)
          \/ SRead(p)

SSpec == SInit /\ [][SNext]_sVars
=============================================================================
