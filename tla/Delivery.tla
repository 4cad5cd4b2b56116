------------------------------ MODULE Delivery ------------------------------
(***************************************************************************)
(* One goroutine of the agent delivers one batch to the server             *)
(* (internal/metrics/sender/http.go and utils.Retry on one side, the gzip  *)
(* middleware, the JSON handlers and the service on the other).            *)
(*                                                                         *)
(* The batch is posted as a whole first.  That body is the plain JSON      *)
(* followed by its gzip form, under "Content-Encoding: gzip": the server   *)
(* cannot unpack it and answers 400.  Then every metric is posted alone.   *)
(* Retry tries each post again after any error, whatever it is.            *)
(*                                                                         *)
(* A request may get lost, and so may the response.  The client gives up   *)
(* on a request after a timeout, but the request may still reach a handler *)
(* later, beside those of the attempts that follow it.                     *)
(***************************************************************************)
EXTENDS Integers, FiniteSets, HashCheck

CONSTANTS
    Count,      \* how many metrics the batch has
    Attempts,   \* of Retry: 3 in the program
    Keys,       \* the keys agent and server may have been started with
    MayExpire   \* whether a handler may be slower than its 2 s context

Items == 1 .. Count

\* What a request carries: a metric or, as 0, the whole batch.
Whole == 0

ASSUME DeliveryAssumption ==
    /\ Count \in Nat \ {0} /\ Attempts \in Nat \ {0}
    /\ MayExpire \in BOOLEAN /\ NoKey \notin Keys

VARIABLES
    agentKey, serverKey,
    item,       \* what is being posted: Whole, an item, Count + 1 when through
    attempt,    \* of Retry, from 1
    waiting,    \* a request has been sent, and its response is awaited
    answer,     \* the status code that has come back, or 0
    net,        \* the requests <<item, attempt>> no handler has seen yet
    applied,    \* how often the server has added each metric to its store
    outcome     \* what the agent believes of each metric

keyVars == <<agentKey, serverKey>>
clientVars == <<item, attempt, waiting, outcome>>
vars == <<keyVars, clientVars, answer, net, applied>>

Init ==
    /\ agentKey \in Keys \cup {NoKey} /\ serverKey \in Keys \cup {NoKey}
    /\ item = Whole /\ attempt = 1 /\ waiting = FALSE
    /\ answer = 0 /\ net = {}
    /\ applied = [i \in Items |-> 0]
    /\ outcome = [i \in Items |-> "pending"]

-----------------------------------------------------------------------------
(* The agent.                                                              *)

\* client.Do
Post ==
    /\ item <= Count /\ ~waiting
    /\ waiting' = TRUE
    /\ answer' = 0
    /\ net' = net \cup {<<item, attempt>>}
    /\ UNCHANGED <<keyVars, item, attempt, outcome, applied>>

\* The post of the item is over; what comes next is sent in its first attempt.
Settle(next, o) ==
    /\ item' = next
    /\ attempt' = 1
    /\ outcome' = IF item = Whole THEN outcome ELSE [outcome EXCEPT ![item] = o]

\* A batch that was accepted needs no second way.
Accepted ==
    /\ waiting /\ answer = 200
    /\ waiting' = FALSE
    /\ Settle(IF item = Whole THEN Count + 1 ELSE item + 1, "sent")
    /\ UNCHANGED <<keyVars, answer, net, applied>>

\* Mutant of Failed: the last attempt is one too late.
FailedLate ==
    /\ waiting /\ answer # 200
    /\ waiting' = FALSE
    /\ IF attempt <= Attempts
       THEN attempt' = attempt + 1 /\ UNCHANGED <<item, outcome>>
       ELSE Settle(item + 1, "dropped")
    /\ UNCHANGED <<keyVars, answer, net, applied>>

\* Mutant of Failed: Retry does not count.
FailedForever ==
    /\ waiting /\ answer # 200
    /\ waiting' = FALSE
    /\ UNCHANGED <<item, attempt, outcome, keyVars, answer, net, applied>>

\* An error status, a network error or a timeout: the attempt has failed, and
\* Retry sleeps and goes on even with ErrMaxRetriesExceeded.
Failed ==
    /\ waiting /\ answer # 200
    /\ waiting' = FALSE
    /\ IF attempt < Attempts
       THEN attempt' = attempt + 1 /\ UNCHANGED <<item, outcome>>
       ELSE Settle(item + 1, "dropped")
    /\ UNCHANGED <<keyVars, answer, net, applied>>

-----------------------------------------------------------------------------
(* The network and the server.                                             *)

Lose(req) ==
    /\ req \in net
    /\ net' = net \ {req}
    /\ UNCHANGED <<keyVars, clientVars, answer, applied>>

\* gzip.NewReader finds no gzip header in front of the JSON of a batch.
Unpacks(req) == req[1] # Whole

Route(req) == IF req[1] = Whole THEN "updates" ELSE "updateJSON"

HashAccepted(req) ==
    ~HashRefused(Route(req), serverKey, HashHeader(agentKey, serverKey))

Accepts(req) == Unpacks(req) /\ HashAccepted(req)

\* Its client still waits for the request; otherwise it has closed the connection.
Awaited(req) == waiting /\ req = <<item, attempt>>

\* The response, unless it gets lost or nobody waits for it any more.
Reply(req, code) ==
    \/ Awaited(req) /\ answer' = code
    \/ UNCHANGED answer

Carried(req) == IF req[1] = Whole THEN Items ELSE {req[1]}

Apply(req) ==
    applied' = [i \in Items |-> applied[i] + (IF i \in Carried(req) THEN 1 ELSE 0)]

\* Mutant of Handle: the request is processed once more.
HandleAgain(req) ==
    /\ req \in net /\ Accepts(req)
    /\ \A i \in Items : applied[i] <= Attempts
    /\ Apply(req)
    /\ Reply(req, 200)
    /\ UNCHANGED <<keyVars, clientVars, net>>

\* Mutant of Handle: the response is sent before the update.
HandleUnapplied(req) ==
    /\ req \in net /\ Accepts(req)
    /\ net' = net \ {req}
    /\ Reply(req, 200)
    /\ UNCHANGED <<keyVars, clientVars, applied>>

\* The update reaches the store, and the service drops the error of the store,
\* which refuses to work for a context that has expired or was cancelled by the
\* end of the connection: 200 either way.
Handle(req) ==
    /\ req \in net /\ Accepts(req)
    /\ net' = net \ {req}
    /\ \/ Apply(req)
       \/ (MayExpire \/ ~Awaited(req)) /\ UNCHANGED applied
    /\ Reply(req, 200)
    /\ UNCHANGED <<keyVars, clientVars>>

Reject(req) ==
    /\ req \in net /\ ~Accepts(req)
    /\ net' = net \ {req}
    /\ Reply(req, 400)
    /\ UNCHANGED <<keyVars, clientVars, applied>>

-----------------------------------------------------------------------------
Requests == (0 .. Count) \X (1 .. Attempts)

Serve(req) == Lose(req) \/ Handle(req) \/ Reject(req)

\* All is settled and no request is left behind.
Over == item > Count /\ net = {} /\ UNCHANGED vars

Next ==
    \/ Post \/ Accepted \/ Failed \/ Over
    \/ \E req \in Requests : Serve(req)

\* The goroutine runs and its client has a timeout; of the server and the
\* network nothing is assumed.
Fairness == WF_vars(Post) /\ WF_vars(Accepted) /\ WF_vars(Failed)

Spec == Init /\ [][Next]_vars

FairSpec == Spec /\ Fairness

-----------------------------------------------------------------------------
(* Every variable has its type. *)
TypeOK ==
    /\ {agentKey, serverKey} \subseteq Keys \cup {NoKey}
    /\ item \in 0 .. Count + 1 /\ attempt \in 1 .. Attempts
    /\ waiting \in BOOLEAN /\ answer \in {0, 200, 400}
    /\ net \subseteq Requests
    /\ applied \in [Items -> Nat]
    /\ outcome \in [Items -> {"pending", "sent", "dropped"}]

\* How many posts of item i have been made.
Posted(i) ==
    IF item > i THEN Attempts
    ELSE IF item = i THEN attempt - (IF waiting THEN 0 ELSE 1)
    ELSE 0

\* A counter is added to as often as its metric was posted at the most, lost
\* responses and late requests included: the retries are the only duplicates.
BoundedDuplicates ==
    \A i \in Items :
        applied[i] + Cardinality({req \in net : req[1] = i}) <= Posted(i)

\* "200: successful update" (handler.go 205): a metric that the agent believes
\* to be sent is in the store.
AckedIsApplied == \A i \in Items : outcome[i] = "sent" => applied[i] > 0

\* With different keys on both sides nothing is ever stored, and the agent drops
\* every metric (handler.go 224-234).
OtherKeyLeavesNoTrace ==
    (serverKey # NoKey /\ agentKey # NoKey /\ agentKey # serverKey) =>
        \A i \in Items : applied[i] = 0 /\ outcome[i] # "sent"

\* Whatever the network does, the goroutine comes to an end, which gives its
\* token of the rate limit back (agent.go 110-113, utils.go 17-38).
DeliveryEnds == <>(item > Count)
=============================================================================
