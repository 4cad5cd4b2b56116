--------------------------- MODULE AgentPipeline ---------------------------
(***************************************************************************)
(* The agent (internal/agent/agent.go): two collectors put batches of      *)
(* metrics into a bounded channel, processMetrics takes them out and hands *)
(* each to a goroutine of its own, as many at a time as a second channel,  *)
(* the limiter, has room for.  A goroutine sends its batch in one request  *)
(* and, when that fails, metric by metric, and gives up after that.        *)
(*                                                                         *)
(* Run closes the channel only after processMetrics has returned, and      *)
(* processMetrics returns only when the channel is closed, so neither ever *)
(* happens; the model has no action for them.                              *)
(***************************************************************************)
EXTENDS Integers, FiniteSets, Sequences

CONSTANTS
    Collectors,     \* the runtime and the gopsutil collector
    Capacity,       \* of the channel: 100 in the program
    RateLimit,      \* the argument of Run
    MayCancel,      \* whether the context of Run can be cancelled; main passes
                    \* context.Background(), which cannot
    MaxBatches      \* bound: how many batches a collector makes

ASSUME AgentAssumption ==
    /\ Capacity \in Nat \ {0} /\ RateLimit \in Nat /\ MaxBatches \in Nat
    /\ MayCancel \in BOOLEAN

\* The n-th batch of a collector is <<c, n>>.
Batches == Collectors \X (1 .. MaxBatches)

VARIABLES
    stage,      \* how far each batch has come
    queue,      \* the channel metricsChan
    limiter,    \* how many tokens the channel limiter holds
    cancelled,  \* the context is cancelled
    stopped     \* the collectors that have returned

vars == <<stage, queue, limiter, cancelled, stopped>>

\* Not made, in the hand of its collector, in the channel, in the hand of
\* processMetrics, sent as a batch, sent metric by metric, over.
Stages == {"none", "made", "queued", "held", "batch", "single", "over"}

At(stages) == {b \in Batches : stage[b] \in stages}

\* The goroutines that send.
Senders == At({"batch", "single"})

Init ==
    /\ stage = [b \in Batches |-> "none"]
    /\ queue = <<>>
    /\ limiter = 0
    /\ cancelled = FALSE
    /\ stopped = {}

Move(b, from, to) ==
    /\ stage[b] = from
    /\ stage' = [stage EXCEPT ![b] = to]

-----------------------------------------------------------------------------
(* The collectors.                                                         *)

\* A collector is in its select, not blocked on the channel.
Waiting(c) == c \notin stopped /\ \A n \in 1 .. MaxBatches : stage[<<c, n>>] # "made"

\* case <-ticker.C: the ticker drops the ticks the collector is too slow for.
Collect(c) ==
    /\ Waiting(c)
    /\ \E n \in 1 .. MaxBatches :
          /\ \A k \in 1 .. n - 1 : stage[<<c, k>>] # "none"
          /\ Move(<<c, n>>, "none", "made")
    /\ UNCHANGED <<queue, limiter, cancelled, stopped>>

\* Mutant of Enqueue: nothing holds the collectors back.
EnqueueUnbounded(c) ==
    /\ \E n \in 1 .. MaxBatches :
          /\ Move(<<c, n>>, "made", "queued")
          /\ queue' = Append(queue, <<c, n>>)
    /\ UNCHANGED <<limiter, cancelled, stopped>>

\* metricsChan <- batch, which blocks while the channel is full, and does so
\* outside the select: a cancelled context does not interrupt it.
Enqueue(c) ==
    /\ Len(queue) < Capacity
    /\ \E n \in 1 .. MaxBatches :
          /\ Move(<<c, n>>, "made", "queued")
          /\ queue' = Append(queue, <<c, n>>)
    /\ UNCHANGED <<limiter, cancelled, stopped>>

\* case <-ctx.Done(): return
Stop(c) ==
    /\ cancelled /\ Waiting(c)
    /\ stopped' = stopped \cup {c}
    /\ UNCHANGED <<stage, queue, limiter, cancelled>>

Cancel ==
    /\ MayCancel /\ ~cancelled
    /\ cancelled' = TRUE
    /\ UNCHANGED <<stage, queue, limiter, stopped>>

-----------------------------------------------------------------------------
(* processMetrics and its goroutines.                                      *)

\* Mutant of Receive: the newest batch first.
ReceiveNewest ==
    /\ At({"held"}) = {}
    /\ queue # <<>>
    /\ Move(queue[Len(queue)], "queued", "held")
    /\ queue' = SubSeq(queue, 1, Len(queue) - 1)
    /\ UNCHANGED <<limiter, cancelled, stopped>>

\* Mutant of Receive: processMetrics stops when the context is cancelled.
ReceiveUntilCancelled ==
    /\ ~cancelled
    /\ At({"held"}) = {}
    /\ queue # <<>>
    /\ Move(Head(queue), "queued", "held")
    /\ queue' = Tail(queue)
    /\ UNCHANGED <<limiter, cancelled, stopped>>

\* The range loop takes the next batch out of the channel.
Receive ==
    /\ At({"held"}) = {}
    /\ queue # <<>>
    /\ Move(Head(queue), "queued", "held")
    /\ queue' = Tail(queue)
    /\ UNCHANGED <<limiter, cancelled, stopped>>

\* limiter <- struct{}{}, and a goroutine is started.  A limiter without a
\* buffer takes a token only when somebody receives, and only the goroutines
\* that are already running do.
Acquire ==
    /\ limiter < RateLimit
    /\ limiter' = limiter + 1
    /\ \E b \in Batches : Move(b, "held", "batch")
    /\ UNCHANGED <<queue, cancelled, stopped>>

\* The deferred <-limiter of a goroutine that is through with its batch.
Release == limiter' = limiter - 1 /\ UNCHANGED <<queue, cancelled, stopped>>

\* SendBatch succeeds.
BatchSent(b) == Move(b, "batch", "over") /\ Release

\* Mutant of BatchFailed: the token is given back before the fallback.
BatchFailedReleases(b) == Move(b, "batch", "single") /\ Release

\* SendBatch fails after its retries.
BatchFailed(b) ==
    /\ Move(b, "batch", "single")
    /\ UNCHANGED <<queue, limiter, cancelled, stopped>>

\* Mutant of SinglesTried: the token is not given back after a fallback.
SinglesTriedLeaks(b) ==
    /\ Move(b, "single", "over")
    /\ UNCHANGED <<queue, limiter, cancelled, stopped>>

\* SendJSON has been tried for every metric; its errors are dropped.
SinglesTried(b) == Move(b, "single", "over") /\ Release

Send(b) == BatchSent(b) \/ BatchFailed(b) \/ SinglesTried(b)

-----------------------------------------------------------------------------
\* Nothing is under way: only a tick, if the bound allows one, would change it.
Quiet ==
    /\ At({"none", "over"}) = Batches
    /\ UNCHANGED vars

Next ==
    \/ \E c \in Collectors : Collect(c) \/ Enqueue(c) \/ Stop(c)
    \/ Cancel \/ Receive \/ Acquire \/ Quiet
    \/ \E b \in Batches : Send(b)

\* Goroutines run, requests end (the client has a timeout), and a blocked sender
\* of a channel is first in, first out.
Fairness ==
    /\ \A c \in Collectors : SF_vars(Enqueue(c)) /\ WF_vars(Stop(c))
    /\ WF_vars(Receive) /\ WF_vars(Acquire)
    /\ \A b \in Batches : WF_vars(Send(b))

Spec == Init /\ [][Next]_vars

FairSpec == Spec /\ Fairness

-----------------------------------------------------------------------------
(* Every variable has its type. *)
TypeOK ==
    /\ stage \in [Batches -> Stages]
    /\ queue \in Seq(Batches) /\ Len(queue) <= Capacity
    /\ limiter \in 0 .. RateLimit
    /\ cancelled \in BOOLEAN /\ stopped \in SUBSET Collectors

\* The tokens of the limiter are the goroutines that send, fallback included,
\* so there are never more than RateLimit requests under way (agent.go 103-113).
RateLimitRespected == limiter = Cardinality(Senders) /\ limiter <= RateLimit

\* The goroutines of a collector's batches are started in the order the batches
\* were made, none is skipped, and what the channel holds is in that order too.
StartedInOrder ==
    \A c \in Collectors : \A n, m \in 1 .. MaxBatches : n < m =>
        /\ stage[<<c, m>>] # "none" => stage[<<c, n>>] \notin {"none", "made"}
        /\ stage[<<c, m>>] \in {"held", "batch", "single", "over"} =>
              stage[<<c, n>>] \in {"batch", "single", "over"}
        /\ \A i, j \in 1 .. Len(queue) :
              queue[i] = <<c, n>> /\ queue[j] = <<c, m>> => i < j

\* Every batch is sent, or given up after it was tried as a batch and metric by
\* metric; a slow server holds back the collectors and loses no batch.
EveryBatchIsTried ==
    \A b \in Batches : stage[b] = "made" ~> stage[b] = "over"

\* Cancelling the context stops the collectors, the one blocked on the full
\* channel too, because processMetrics goes on emptying it (agent.go 57-63).
CancelStopsCollectors ==
    \A c \in Collectors : cancelled ~> c \in stopped
=============================================================================
