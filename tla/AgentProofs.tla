---------------------------- MODULE AgentProofs ----------------------------
(***************************************************************************)
(* Proofs about AgentPipeline, for any collectors, any capacity of the     *)
(* channel, any rate limit and any number of batches.                      *)
(***************************************************************************)
EXTENDS AgentPipeline, Config, FiniteSetTheorems, TLAPS

Sending == {"batch", "single"}

\* The goroutines that send are finitely many, and they hold the tokens.
Tokens == IsFiniteSet(Senders) /\ RateLimitRespected

\* The channel holds the batches that are in it, each once, and processMetrics
\* has at most one in its hand.
Channel ==
    /\ \A i \in 1 .. Len(queue) : stage[queue[i]] = "queued"
    /\ \A i, j \in 1 .. Len(queue) : queue[i] = queue[j] => i = j
    /\ \A b \in Batches : stage[b] = "queued" => \E i \in 1 .. Len(queue) : queue[i] = b
    /\ \A b, d \in Batches : stage[b] = "held" /\ stage[d] = "held" => b = d

Inv == TypeOK /\ Tokens /\ Channel /\ StartedInOrder

\* What a step of one batch does to the stages and to the senders.
LEMMA Moving ==
    ASSUME TypeOK, NEW b \in Batches, NEW from \in Stages, NEW to \in Stages,
           Move(b, from, to)
    PROVE  /\ stage' \in [Batches -> Stages]
           /\ stage[b] = from /\ stage'[b] = to
           /\ \A d \in Batches : d # b => stage'[d] = stage[d]
           /\ from \in Sending /\ to \notin Sending =>
                 b \in Senders /\ Senders' = Senders \ {b}
           /\ from \notin Sending /\ to \in Sending =>
                 b \notin Senders /\ Senders' = Senders \cup {b}
           /\ (from \in Sending <=> to \in Sending) => Senders' = Senders
<1>1. /\ stage' \in [Batches -> Stages] /\ stage[b] = from
      /\ \A d \in Batches : stage'[d] = IF d = b THEN to ELSE stage[d]
  BY DEF TypeOK, Move
<1>2. \A d : /\ d \in Senders <=> d \in Batches /\ stage[d] \in Sending
             /\ d \in Senders' <=> d \in Batches /\ stage'[d] \in Sending
  BY DEF Senders, At, Sending
<1> QED
  BY <1>1, <1>2

\* Senders that come and go with their tokens.
LEMMA Counting ==
    ASSUME Tokens, NEW b
    PROVE  /\ limiter \in Nat
           /\ b \in Senders /\ Senders' = Senders \ {b} /\ limiter' = limiter - 1 => Tokens'
           /\ b \in Senders => limiter > 0
           /\ b \notin Senders /\ Senders' = Senders \cup {b} /\ limiter' = limiter + 1
              /\ limiter' <= RateLimit => Tokens'
           /\ Senders' = Senders /\ limiter' = limiter => Tokens'
<1>0. RateLimit \in Nat
  BY AgentAssumption
<1>1. IsFiniteSet(Senders) /\ limiter = Cardinality(Senders) /\ limiter <= RateLimit
  BY DEF Tokens, RateLimitRespected
<1>2. limiter \in Nat
  BY <1>1, FS_CardinalityType
<1>3. b \in Senders => limiter > 0
  BY <1>1, <1>2, FS_EmptySet
<1>4. /\ IsFiniteSet(Senders \ {b}) /\ IsFiniteSet(Senders \cup {b})
      /\ b \in Senders => Cardinality(Senders \ {b}) = limiter - 1
      /\ b \notin Senders => Cardinality(Senders \cup {b}) = limiter + 1
  BY <1>1, FS_AddElement, FS_RemoveElement
<1> QED
  BY <1>0, <1>1, <1>2, <1>3, <1>4 DEF Tokens, RateLimitRespected

LEMMA InvInit == Init => Inv
<1> SUFFICES ASSUME Init PROVE Inv
  OBVIOUS
<1>1. TypeOK
  <2>1. <<>> \in Seq(Batches) /\ Len(<<>>) = 0
    OBVIOUS
  <2>2. stage \in [Batches -> Stages]
    BY DEF Init, Stages
  <2>3. Capacity \in Nat /\ RateLimit \in Nat
    BY AgentAssumption
  <2>4. queue \in Seq(Batches) /\ Len(queue) <= Capacity /\ limiter \in 0 .. RateLimit
    BY <2>1, <2>3 DEF Init
  <2> QED
    BY <2>2, <2>4 DEF Init, TypeOK
<1>2. Senders = {}
  BY DEF Init, Senders, At
<1>3. Tokens
  BY <1>2, FS_EmptySet, AgentAssumption DEF Init, Tokens, RateLimitRespected
<1>4. Channel
  BY DEF Init, Channel
<1>5. StartedInOrder
  BY DEF Init, StartedInOrder, Batches
<1> QED
  BY <1>1, <1>3, <1>4, <1>5 DEF Inv

-----------------------------------------------------------------------------
(* The collectors.                                                         *)

LEMMA CollectInv ==
    ASSUME Inv, NEW c \in Collectors, Collect(c)
    PROVE  Inv'
<1>1. PICK n \in 1 .. MaxBatches :
        /\ \A k \in 1 .. n - 1 : stage[<<c, k>>] # "none"
        /\ Move(<<c, n>>, "none", "made")
  BY DEF Collect
<1>2. UNCHANGED <<queue, limiter, cancelled, stopped>> /\ Waiting(c)
  BY DEF Collect
<1> DEFINE b == <<c, n>>
<1>3. b \in Batches
  BY DEF Batches
<1>4. /\ stage' \in [Batches -> Stages] /\ stage[b] = "none" /\ stage'[b] = "made"
      /\ \A d \in Batches : d # b => stage'[d] = stage[d]
      /\ Senders' = Senders
  BY <1>1, <1>3, Moving DEF Inv, Stages, Sending
<1>5. TypeOK' /\ Tokens'
  BY <1>2, <1>4, Counting DEF Inv, TypeOK
<1>6. Channel'
  <2> HIDE DEF b
  <2>1. queue' = queue
    BY <1>2
  <2>2. \A i \in 1 .. Len(queue) : queue[i] \in Batches /\ stage[queue[i]] = "queued"
    BY DEF Inv, TypeOK, Channel
  <2>3. \A i \in 1 .. Len(queue) : stage'[queue[i]] = "queued"
    BY <2>2, <1>4
  <2>4. \A d \in Batches : stage'[d] \in {"queued", "held"} => stage[d] = stage'[d]
    BY <1>4
  <2>5. \A d \in Batches :
            stage'[d] = "queued" => \E i \in 1 .. Len(queue) : queue[i] = d
    BY <2>4 DEF Inv, Channel
  <2>6. \A d, e \in Batches : stage'[d] = "held" /\ stage'[e] = "held" => d = e
    BY <2>4 DEF Inv, Channel
  <2>7. \A i, j \in 1 .. Len(queue) : queue[i] = queue[j] => i = j
    BY DEF Inv, Channel
  <2> QED
    BY <2>1, <2>3, <2>5, <2>6, <2>7 DEF Channel
<1>7. ASSUME NEW e \in Collectors, NEW k \in 1 .. MaxBatches, NEW m \in 1 .. MaxBatches, k < m
      PROVE  /\ stage'[<<e, m>>] # "none" => stage'[<<e, k>>] \notin {"none", "made"}
             /\ stage'[<<e, m>>] \in {"held", "batch", "single", "over"} =>
                   stage'[<<e, k>>] \in {"batch", "single", "over"}
  <2>1. <<e, k>> \in Batches /\ <<e, m>> \in Batches /\ MaxBatches \in Nat
    BY AgentAssumption DEF Batches
  <2>2. /\ stage[<<e, m>>] # "none" => stage[<<e, k>>] \notin {"none", "made"}
        /\ stage[<<e, m>>] \in {"held", "batch", "single", "over"} =>
              stage[<<e, k>>] \in {"batch", "single", "over"}
    BY <1>7 DEF Inv, StartedInOrder
  <2>3. <<e, m>> = b => stage[<<e, k>>] \notin {"none", "made"}
    BY <1>1, <1>2, <1>7, <2>1 DEF Waiting
  <2> QED
    BY <1>4, <2>1, <2>2, <2>3
<1>8. StartedInOrder'
  BY <1>2, <1>7 DEF Inv, StartedInOrder
<1> QED
  BY <1>5, <1>6, <1>8 DEF Inv

LEMMA EnqueueInv ==
    ASSUME Inv, NEW c \in Collectors, Enqueue(c)
    PROVE  Inv'
<1>1. PICK n \in 1 .. MaxBatches :
        Move(<<c, n>>, "made", "queued") /\ queue' = Append(queue, <<c, n>>)
  BY DEF Enqueue
<1>2. UNCHANGED <<limiter, cancelled, stopped>> /\ Len(queue) < Capacity
  BY DEF Enqueue
<1> DEFINE b == <<c, n>>
<1>3. b \in Batches /\ MaxBatches \in Nat /\ Capacity \in Nat
  BY AgentAssumption DEF Batches
<1>4. /\ stage' \in [Batches -> Stages] /\ stage[b] = "made" /\ stage'[b] = "queued"
      /\ \A d \in Batches : d # b => stage'[d] = stage[d]
      /\ Senders' = Senders
  BY <1>1, <1>3, Moving DEF Inv, Stages, Sending
<1>5. /\ queue \in Seq(Batches) /\ queue' \in Seq(Batches)
      /\ Len(queue) \in Nat /\ Len(queue') = Len(queue) + 1
      /\ queue'[Len(queue) + 1] = b
      /\ \A i \in 1 .. Len(queue) : queue'[i] = queue[i] /\ queue[i] \in Batches
  BY <1>1, <1>3 DEF Inv, TypeOK
<1>6. TypeOK' /\ Tokens'
  <2>1. Tokens'
    BY <1>2, <1>4, Counting DEF Inv
  <2>2. Len(queue') <= Capacity
    BY <1>2, <1>3, <1>5
  <2>3. TypeOK'
    BY <1>2, <1>4, <1>5, <2>2 DEF Inv, TypeOK
  <2> QED
    BY <2>1, <2>3
<1>a. \A i \in 1 .. Len(queue') : i \in 1 .. Len(queue) \/ i = Len(queue) + 1
  BY <1>5
<1>7. \A i \in 1 .. Len(queue) : queue[i] # b /\ stage[queue[i]] = "queued"
  BY <1>4 DEF Inv, Channel
<1>8. Channel'
  <2>1. \A i \in 1 .. Len(queue') : stage'[queue'[i]] = "queued"
    BY <1>4, <1>5, <1>7
  <2>2. \A i, j \in 1 .. Len(queue') : queue'[i] = queue'[j] => i = j
    <3> SUFFICES ASSUME NEW i \in 1 .. Len(queue'), NEW j \in 1 .. Len(queue'),
                        queue'[i] = queue'[j]
                 PROVE  i = j
      OBVIOUS
    <3>1. CASE i \in 1 .. Len(queue) /\ j \in 1 .. Len(queue)
      BY <1>5, <3>1 DEF Inv, Channel
    <3>2. CASE i \in 1 .. Len(queue) /\ j = Len(queue) + 1
      <4>1. queue'[i] # b /\ queue'[j] = b
        BY <1>5, <1>7, <3>2
      <4> QED
        BY <4>1
    <3>3. CASE i = Len(queue) + 1 /\ j \in 1 .. Len(queue)
      <4>1. queue'[i] = b /\ queue'[j] # b
        BY <1>5, <1>7, <3>3
      <4> QED
        BY <4>1
    <3> QED
      BY <1>a, <3>1, <3>2, <3>3
  <2>3. \A d \in Batches : stage'[d] = "queued" => \E i \in 1 .. Len(queue') : queue'[i] = d
    <3> SUFFICES ASSUME NEW d \in Batches, stage'[d] = "queued"
                 PROVE  \E i \in 1 .. Len(queue') : queue'[i] = d
      OBVIOUS
    <3>1. CASE d = b
      BY <1>5, <3>1
    <3>2. CASE d # b
      <4>1. PICK i \in 1 .. Len(queue) : queue[i] = d
        BY <1>4, <3>2 DEF Inv, Channel
      <4> QED
        BY <1>5, <4>1
    <3> QED
      BY <3>1, <3>2
  <2>4. \A d, e \in Batches : stage'[d] = "held" /\ stage'[e] = "held" => d = e
    BY <1>4 DEF Inv, Channel
  <2> QED
    BY <2>1, <2>2, <2>3, <2>4 DEF Channel
<1>9. ASSUME NEW e \in Collectors, NEW k \in 1 .. MaxBatches, NEW m \in 1 .. MaxBatches, k < m
      PROVE  /\ stage'[<<e, m>>] # "none" => stage'[<<e, k>>] \notin {"none", "made"}
             /\ stage'[<<e, m>>] \in {"held", "batch", "single", "over"} =>
                   stage'[<<e, k>>] \in {"batch", "single", "over"}
             /\ \A i, j \in 1 .. Len(queue') :
                   queue'[i] = <<e, k>> /\ queue'[j] = <<e, m>> => i < j
  <2>1. <<e, k>> \in Batches /\ <<e, m>> \in Batches /\ <<e, k>> # <<e, m>>
    BY <1>9 DEF Batches
  <2>2. /\ stage[<<e, m>>] # "none" => stage[<<e, k>>] \notin {"none", "made"}
        /\ stage[<<e, m>>] \in {"held", "batch", "single", "over"} =>
              stage[<<e, k>>] \in {"batch", "single", "over"}
        /\ \A i, j \in 1 .. Len(queue) :
              queue[i] = <<e, k>> /\ queue[j] = <<e, m>> => i < j
    BY <1>9 DEF Inv, StartedInOrder
  <2>3. ASSUME NEW i \in 1 .. Len(queue'), NEW j \in 1 .. Len(queue'),
               queue'[i] = <<e, k>>, queue'[j] = <<e, m>>
        PROVE  i < j
    <3>1. CASE i = Len(queue) + 1
      \* A later batch of the collector is in the channel already.
      <4>1. <<e, k>> = b /\ stage[<<e, m>>] = "none"
        BY <1>4, <1>5, <2>2, <2>3, <3>1
      <4>2. j \notin 1 .. Len(queue)
        BY <1>5, <1>7, <2>3, <4>1
      <4>3. j = i
        BY <1>a, <3>1, <4>2
      <4> QED
        BY <2>1, <2>3, <4>3
    <3>2. CASE i # Len(queue) + 1
      <4>1. i \in 1 .. Len(queue) /\ queue[i] = <<e, k>>
        BY <1>5, <1>a, <2>3, <3>2
      <4>2. CASE j \in 1 .. Len(queue)
        BY <1>5, <2>2, <2>3, <4>1, <4>2
      <4>3. CASE j = Len(queue) + 1
        BY <1>5, <4>1, <4>3
      <4> QED
        BY <1>a, <4>2, <4>3
    <3> QED
      BY <3>1, <3>2
  <2> QED
    BY <1>4, <2>1, <2>2, <2>3
<1>10. StartedInOrder'
  BY <1>9 DEF StartedInOrder
<1> QED
  BY <1>6, <1>8, <1>10 DEF Inv

-----------------------------------------------------------------------------
(* processMetrics and its goroutines.                                      *)

LEMMA ReceiveInv ==
    ASSUME Inv, Receive
    PROVE  Inv'
<1> DEFINE b == Head(queue)
<1>1. /\ Move(b, "queued", "held") /\ queue' = Tail(queue) /\ queue # <<>>
      /\ UNCHANGED <<limiter, cancelled, stopped>>
  BY DEF Receive
<1>2. \A d \in Batches : stage[d] # "held"
  BY DEF Receive, At
<1>3. /\ queue \in Seq(Batches) /\ queue' \in Seq(Batches) /\ b = queue[1] /\ b \in Batches
      /\ Len(queue) \in Nat /\ Len(queue) > 0 /\ Len(queue') = Len(queue) - 1
      /\ \A i \in 1 .. Len(queue') : queue'[i] = queue[i + 1] /\ i + 1 \in 1 .. Len(queue)
      /\ Capacity \in Nat
  BY <1>1, AgentAssumption DEF Inv, TypeOK
<1> HIDE DEF b
<1>4. /\ stage' \in [Batches -> Stages] /\ stage[b] = "queued" /\ stage'[b] = "held"
      /\ \A d \in Batches : d # b => stage'[d] = stage[d]
      /\ Senders' = Senders
  BY <1>1, <1>3, Moving DEF Inv, Stages, Sending
<1>5. TypeOK' /\ Tokens'
  BY <1>1, <1>3, <1>4, Counting DEF Inv, TypeOK
<1>6. ASSUME NEW i \in 1 .. Len(queue') PROVE queue'[i] # b /\ queue'[i] \in Batches
  <2>1. /\ queue'[i] = queue[i + 1] /\ i + 1 \in 1 .. Len(queue)
        /\ 1 \in 1 .. Len(queue) /\ i + 1 # 1
    BY <1>3
  <2>2. queue[i + 1] # queue[1]
    BY <2>1 DEF Inv, Channel
  <2>3. queue[i + 1] \in Batches
    BY <1>3, <2>1
  <2> QED
    BY <1>3, <2>1, <2>2, <2>3
<1>7. Channel'
  <2>1. \A i \in 1 .. Len(queue') : stage'[queue'[i]] = "queued"
    <3> SUFFICES ASSUME NEW i \in 1 .. Len(queue') PROVE stage'[queue'[i]] = "queued"
      OBVIOUS
    <3>1. stage'[queue'[i]] = stage[queue'[i]]
      BY <1>4, <1>6
    <3>2. queue'[i] = queue[i + 1] /\ i + 1 \in 1 .. Len(queue)
      BY <1>3
    <3> QED
      BY <3>1, <3>2 DEF Inv, Channel
  <2>2. \A i, j \in 1 .. Len(queue') : queue'[i] = queue'[j] => i = j
    BY <1>3 DEF Inv, Channel
  <2>3. \A d \in Batches : stage'[d] = "queued" => \E i \in 1 .. Len(queue') : queue'[i] = d
    <3> SUFFICES ASSUME NEW d \in Batches, stage'[d] = "queued"
                 PROVE  \E i \in 1 .. Len(queue') : queue'[i] = d
      OBVIOUS
    <3>1. d # b /\ stage[d] = "queued"
      BY <1>4
    <3>2. PICK i \in 1 .. Len(queue) : queue[i] = d
      BY <3>1 DEF Inv, Channel
    <3>3. i # 1 /\ i - 1 \in 1 .. Len(queue')
      BY <1>3, <3>1, <3>2
    <3>4. queue'[i - 1] = queue[i]
      BY <1>3, <3>3
    <3> QED
      BY <3>2, <3>3, <3>4
  <2>4. \A d, e \in Batches : stage'[d] = "held" /\ stage'[e] = "held" => d = e
    BY <1>2, <1>4
  <2> QED
    BY <2>1, <2>2, <2>3, <2>4 DEF Channel
<1>8. ASSUME NEW e \in Collectors, NEW k \in 1 .. MaxBatches, NEW m \in 1 .. MaxBatches, k < m
      PROVE  /\ stage'[<<e, m>>] # "none" => stage'[<<e, k>>] \notin {"none", "made"}
             /\ stage'[<<e, m>>] \in {"held", "batch", "single", "over"} =>
                   stage'[<<e, k>>] \in {"batch", "single", "over"}
             /\ \A i, j \in 1 .. Len(queue') :
                   queue'[i] = <<e, k>> /\ queue'[j] = <<e, m>> => i < j
  <2>1. <<e, k>> \in Batches /\ <<e, m>> \in Batches /\ <<e, k>> # <<e, m>>
    BY <1>8, AgentAssumption DEF Batches
  <2>2. /\ stage[<<e, m>>] # "none" => stage[<<e, k>>] \notin {"none", "made"}
        /\ stage[<<e, m>>] \in {"held", "batch", "single", "over"} =>
              stage[<<e, k>>] \in {"batch", "single", "over"}
        /\ \A i, j \in 1 .. Len(queue) :
              queue[i] = <<e, k>> /\ queue[j] = <<e, m>> => i < j
    BY <1>8 DEF Inv, StartedInOrder
  <2>3. ASSUME <<e, m>> = b PROVE stage[<<e, k>>] \in {"batch", "single", "over"}
    <3>1. stage[<<e, k>>] # "queued"
      <4> SUFFICES ASSUME stage[<<e, k>>] = "queued" PROVE FALSE
        OBVIOUS
      <4>1. PICK i \in 1 .. Len(queue) : queue[i] = <<e, k>>
        BY <2>1 DEF Inv, Channel
      <4>2. 1 \in 1 .. Len(queue) /\ queue[1] = <<e, m>>
        BY <1>3, <2>3
      <4> QED
        BY <1>3, <2>2, <4>1, <4>2
    <3>2. stage[<<e, k>>] \in Stages /\ stage[<<e, k>>] # "held"
      BY <1>2, <2>1 DEF Inv, TypeOK
    <3> QED
      BY <1>4, <2>2, <2>3, <3>1, <3>2 DEF Stages
  <2>4. \A i, j \in 1 .. Len(queue') :
           queue'[i] = <<e, k>> /\ queue'[j] = <<e, m>> => i < j
    <3> SUFFICES ASSUME NEW i \in 1 .. Len(queue'), NEW j \in 1 .. Len(queue'),
                        queue'[i] = <<e, k>>, queue'[j] = <<e, m>>
                 PROVE  i < j
      OBVIOUS
    <3>1. i + 1 \in 1 .. Len(queue) /\ j + 1 \in 1 .. Len(queue)
      BY <1>3
    <3>2. queue[i + 1] = <<e, k>> /\ queue[j + 1] = <<e, m>>
      BY <1>3
    <3>3. i + 1 < j + 1
      BY <2>2, <3>1, <3>2
    <3> QED
      BY <1>3, <3>3
  <2> QED
    BY <1>4, <2>1, <2>2, <2>3, <2>4
<1>9. StartedInOrder'
  BY <1>8 DEF StartedInOrder
<1> QED
  BY <1>5, <1>7, <1>9 DEF Inv

\* From the hand of processMetrics on, a batch only goes on.
LEMMA SendingInv ==
    ASSUME Inv, NEW b \in Batches, NEW from \in {"held", "batch", "single"},
           NEW to \in {"batch", "single", "over"}, Move(b, from, to),
           Tokens', limiter' \in 0 .. RateLimit, UNCHANGED <<queue, cancelled, stopped>>
    PROVE  Inv'
<1>1. /\ stage' \in [Batches -> Stages] /\ stage[b] = from /\ stage'[b] = to
      /\ \A d \in Batches : d # b => stage'[d] = stage[d]
  BY Moving DEF Inv, Stages
<1>2. TypeOK'
  BY <1>1 DEF Inv, TypeOK
<1>3. Channel'
  BY <1>1 DEF Inv, Channel, TypeOK
<1>4. StartedInOrder'
  <2> SUFFICES ASSUME NEW e \in Collectors, NEW k \in 1 .. MaxBatches,
                      NEW m \in 1 .. MaxBatches, k < m
               PROVE  /\ stage'[<<e, m>>] # "none" => stage'[<<e, k>>] \notin {"none", "made"}
                      /\ stage'[<<e, m>>] \in {"held", "batch", "single", "over"} =>
                            stage'[<<e, k>>] \in {"batch", "single", "over"}
    BY DEF Inv, StartedInOrder
  <2>1. <<e, k>> \in Batches /\ <<e, m>> \in Batches
    BY DEF Batches
  <2>2. /\ stage[<<e, m>>] # "none" => stage[<<e, k>>] \notin {"none", "made"}
        /\ stage[<<e, m>>] \in {"held", "batch", "single", "over"} =>
              stage[<<e, k>>] \in {"batch", "single", "over"}
    BY DEF Inv, StartedInOrder
  <2> QED
    BY <1>1, <2>1, <2>2
<1> QED
  BY <1>2, <1>3, <1>4 DEF Inv

LEMMA AcquireInv ==
    ASSUME Inv, Acquire
    PROVE  Inv'
<1>1. PICK b \in Batches : Move(b, "held", "batch")
  BY DEF Acquire
<1>2. b \notin Senders /\ Senders' = Senders \cup {b}
  BY <1>1, Moving DEF Inv, Stages, Sending
<1>3. limiter' = limiter + 1 /\ limiter < RateLimit /\ RateLimit \in Nat
      /\ UNCHANGED <<queue, cancelled, stopped>>
  BY AgentAssumption DEF Acquire
<1>4. Tokens' /\ limiter' \in 0 .. RateLimit
  BY <1>2, <1>3, Counting DEF Inv
<1> QED
  BY <1>1, <1>3, <1>4, SendingInv

LEMMA SendInv ==
    ASSUME Inv, NEW b \in Batches, Send(b)
    PROVE  Inv'
<1>0. RateLimit \in Nat /\ Tokens /\ limiter \in 0 .. RateLimit
  BY AgentAssumption DEF Inv, TypeOK
<1>1. ASSUME NEW from \in Sending, Move(b, from, "over"), Release
      PROVE  Inv'
  <2>1. b \in Senders /\ Senders' = Senders \ {b}
    BY <1>1, Moving DEF Inv, Stages, Sending
  <2>2. limiter' = limiter - 1 /\ UNCHANGED <<queue, cancelled, stopped>>
    BY <1>1 DEF Release
  <2>3. Tokens' /\ limiter' \in 0 .. RateLimit
    BY <1>0, <2>1, <2>2, Counting
  <2> QED
    BY <1>1, <2>2, <2>3, SendingInv DEF Sending
<1>2. CASE BatchFailed(b)
  <2>1. Move(b, "batch", "single") /\ UNCHANGED <<queue, limiter, cancelled, stopped>>
    BY <1>2 DEF BatchFailed
  <2>2. Senders' = Senders
    BY <2>1, Moving DEF Inv, Stages, Sending
  <2>3. Tokens' /\ limiter' \in 0 .. RateLimit
    BY <1>0, <2>1, <2>2, Counting
  <2> QED
    BY <2>1, <2>3, SendingInv
<1>3. CASE BatchSent(b) \/ SinglesTried(b)
  BY <1>1, <1>3 DEF BatchSent, SinglesTried, Sending
<1> QED
  BY <1>2, <1>3 DEF Send

LEMMA InvNext == Inv /\ [Next]_vars => Inv'
<1> SUFFICES ASSUME Inv, [Next]_vars PROVE Inv'
  OBVIOUS
<1>1. ASSUME UNCHANGED <<stage, queue, limiter>>, cancelled' \in BOOLEAN,
             stopped' \in SUBSET Collectors
      PROVE  Inv'
  <2>1. TypeOK'
    BY <1>1 DEF Inv, TypeOK
  <2>2. Channel'
    BY <1>1 DEF Inv, Channel
  <2>3. StartedInOrder'
    BY <1>1 DEF Inv, StartedInOrder
  <2>4. Tokens'
    BY <1>1 DEF Inv, Tokens, RateLimitRespected, Senders, At
  <2> QED
    BY <2>1, <2>2, <2>3, <2>4 DEF Inv
<1>2. CASE Cancel \/ UNCHANGED vars \/ \E c \in Collectors : Stop(c)
  BY <1>1, <1>2 DEF Cancel, Stop, vars, Inv, TypeOK
<1> QED
  BY <1>2, CollectInv, EnqueueInv, ReceiveInv, AcquireInv, SendInv DEF Next, Quiet

-----------------------------------------------------------------------------
\* Every variable keeps its type: in particular the channels keep within their
\* capacities.
THEOREM TypeCorrect == Spec => []TypeOK
<1>1. Inv => TypeOK
  BY DEF Inv
<1> QED
  BY <1>1, InvInit, InvNext, PTL DEF Spec

\* The tokens are the goroutines that send, on every path, so no more than
\* RateLimit send at a time.
THEOREM TokensAreSenders == Spec => []RateLimitRespected
<1>1. Inv => RateLimitRespected
  BY DEF Inv, Tokens
<1> QED
  BY <1>1, InvInit, InvNext, PTL DEF Spec

\* No batch of a collector overtakes another before it is sent.
THEOREM NoneOvertakes == Spec => []StartedInOrder
<1>1. Inv => StartedInOrder
  BY DEF Inv
<1> QED
  BY <1>1, InvInit, InvNext, PTL DEF Spec

-----------------------------------------------------------------------------
\* With the limit that cmd/agent/main.go passes to Run, whatever the flag -l says,
\* no batch is ever sent, in either way, however many are collected.
THEOREM LimitZeroSendsNothing ==
    ASSUME RateLimit = RunRateLimit(AgentEnv)
    PROVE  Spec => [](\A b \in Batches : stage[b] \notin {"batch", "single", "over"})
<1> DEFINE Unsent == \A b \in Batches : stage[b] \notin {"batch", "single", "over"}
<1>0. RateLimit = 0
  BY DEF RunRateLimit, AgentEnv
<1>1. Init => Unsent
  BY DEF Init
<1>2. Inv /\ Unsent /\ [Next]_vars => Unsent'
  <2> SUFFICES ASSUME Inv, Unsent, [Next]_vars PROVE Unsent'
    OBVIOUS
  <2>1. ~Acquire /\ \A b \in Batches : ~Send(b)
    BY <1>0 DEF Inv, TypeOK, Acquire, Send, BatchSent, BatchFailed, SinglesTried, Move
  <2>2. ASSUME NEW b \in Batches, NEW from, NEW to \in {"made", "queued", "held"},
               Move(b, from, to)
        PROVE  Unsent'
    BY <2>2 DEF Move, Inv, TypeOK
  <2>3. CASE Receive
    <3>1. Head(queue) \in Batches
      BY <2>3 DEF Receive, Inv, TypeOK
    <3> QED
      BY <2>2, <2>3, <3>1 DEF Receive
  <2>4. CASE \E c \in Collectors : Collect(c) \/ Enqueue(c)
    BY <2>2, <2>4 DEF Collect, Enqueue, Batches
  <2>5. CASE Cancel \/ Quiet \/ UNCHANGED vars \/ \E c \in Collectors : Stop(c)
    BY <2>5 DEF Cancel, Quiet, Stop, vars
  <2> QED
    BY <2>1, <2>3, <2>4, <2>5 DEF Next
<1> QED
  BY <1>1, <1>2, InvInit, InvNext, PTL DEF Spec
=============================================================================
