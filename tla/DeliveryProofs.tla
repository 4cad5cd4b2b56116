--------------------------- MODULE DeliveryProofs ---------------------------
(***************************************************************************)
(* Proofs about Delivery, for a batch of any size, any number of attempts  *)
(* and any keys.                                                           *)
(***************************************************************************)
EXTENDS Delivery, FiniteSetTheorems, TLAPS

\* The keys let single metrics through.
KeysAgree == serverKey = NoKey \/ agentKey = NoKey \/ agentKey = serverKey

LEMMA ItemsNeedKeys ==
    ASSUME NEW req, Accepts(req)
    PROVE  KeysAgree /\ req[1] # Whole
<1>1. req[1] # Whole /\ Route(req) = "updateJSON"
  BY DEF Accepts, Unpacks, Route
<1> QED
  BY <1>1 DEF Accepts, HashAccepted, HashRefused, HashHeader, KeysAgree

\* Only a request with an accepted hash changes the store or is answered 200,
\* only metrics are, and what the agent has gone past is settled.
Told ==
    /\ waiting => item <= Count
    /\ waiting /\ answer = 200 => item # Whole /\ KeysAgree
    /\ \A i \in Items :
          /\ applied[i] # 0 => KeysAgree
          /\ outcome[i] = "sent" => KeysAgree

Inv == TypeOK /\ Told

\* Applying a request adds one to what it carries.
LEMMA AppliedGrows ==
    ASSUME NEW req, Apply(req), applied \in [Items -> Nat]
    PROVE  /\ applied' \in [Items -> Nat]
           /\ \A i \in Items : applied'[i] >= applied[i]
           /\ \A i \in Items : i \in Carried(req) => applied'[i] > 0
<1> DEFINE add(i) == IF i \in Carried(req) THEN 1 ELSE 0
<1>1. \A i \in Items : add(i) \in Nat /\ (i \in Carried(req) => add(i) = 1)
  OBVIOUS
<1>2. applied' = [i \in Items |-> applied[i] + add(i)]
  BY DEF Apply
<1> HIDE DEF add
<1>3. \A i \in Items : applied[i] + add(i) \in Nat /\ applied[i] + add(i) >= applied[i]
  BY <1>1
<1>4. \A i \in Items : i \in Carried(req) => applied[i] + add(i) > 0
  BY <1>1
<1> QED
  BY <1>2, <1>3, <1>4

LEMMA InvInit == Init => Inv
<1> SUFFICES ASSUME Init PROVE Inv
  OBVIOUS
<1>1. item \in 0 .. Count + 1 /\ attempt \in 1 .. Attempts
  BY DeliveryAssumption DEF Init, Whole
<1>2. applied \in [Items -> Nat] /\ outcome \in [Items -> {"pending", "sent", "dropped"}]
  BY DEF Init
<1>3. TypeOK
  BY <1>1, <1>2 DEF Init, TypeOK
<1>4. Told
  BY DeliveryAssumption DEF Init, Told, Items, Whole
<1> QED
  BY <1>3, <1>4 DEF Inv

\* Going past an item leaves it settled and the others as they were.
LEMMA SettleTells ==
    ASSUME Inv, NEW o \in {"sent", "dropped"}, item <= Count,
           Settle(item + 1, o), o = "sent" => item = Whole \/ KeysAgree
    PROVE  /\ item' \in 0 .. Count + 1 /\ attempt' \in 1 .. Attempts
           /\ outcome' \in [Items -> {"pending", "sent", "dropped"}]
           /\ \A i \in Items : outcome'[i] = "sent" => KeysAgree
<1>0. Count \in Nat /\ Attempts \in Nat /\ Attempts > 0
  BY DeliveryAssumption
<1>1. item' = item + 1 /\ attempt' = 1 /\ item \in 0 .. Count + 1
  BY DEF Settle, Inv, TypeOK
<1>2. CASE item = Whole
  <2>1. outcome' = outcome /\ item' = 1
    BY <1>1, <1>2 DEF Settle, Whole
  <2> QED
    BY <1>0, <1>1, <2>1 DEF Inv, TypeOK, Told, Items
<1>3. CASE item # Whole
  <2>1. item \in Items
    BY <1>0, <1>1, <1>3 DEF Items, Whole
  <2>2. outcome' = [outcome EXCEPT ![item] = o]
    BY <1>3 DEF Settle
  <2>3. outcome \in [Items -> {"pending", "sent", "dropped"}]
    BY DEF Inv, TypeOK
  <2>4. \A i \in Items : outcome'[i] = IF i = item THEN o ELSE outcome[i]
    BY <2>2, <2>3
  <2>5. outcome' \in [Items -> {"pending", "sent", "dropped"}]
    BY <2>2, <2>3
  <2> QED
    BY <1>0, <1>1, <1>3, <2>1, <2>4, <2>5 DEF Inv, Told
<1> QED
  BY <1>2, <1>3

LEMMA InvNext == Inv /\ [Next]_vars => Inv'
<1> SUFFICES ASSUME Inv, [Next]_vars PROVE Inv'
  OBVIOUS
<1>0. Count \in Nat /\ Attempts \in Nat /\ Attempts > 0
  BY DeliveryAssumption
<1> USE <1>0 DEF Inv, TypeOK, Told, Items, Whole, keyVars, clientVars, KeysAgree
<1>1. CASE Post
  BY <1>1 DEF Post, Requests
<1>2. CASE Accepted
  <2>1. item # Whole /\ KeysAgree
    BY <1>2 DEF Accepted
  <2>2. item <= Count /\ Settle(item + 1, "sent")
    BY <1>2, <2>1 DEF Accepted
  <2>3. /\ item' \in 0 .. Count + 1 /\ attempt' \in 1 .. Attempts
        /\ outcome' \in [Items -> {"pending", "sent", "dropped"}]
        /\ \A i \in Items : outcome'[i] = "sent" => KeysAgree
    BY <2>1, <2>2, SettleTells
  <2>4. UNCHANGED <<keyVars, answer, net, applied>> /\ waiting' = FALSE
    BY <1>2 DEF Accepted
  <2>5. TypeOK'
    BY <2>3, <2>4
  <2>6. Told'
    BY <2>3, <2>4
  <2> QED
    BY <2>5, <2>6
<1>3. CASE Failed
  <2>1. CASE attempt < Attempts
    <3>1. UNCHANGED <<keyVars, item, outcome, answer, net, applied>> /\ waiting' = FALSE
      BY <1>3, <2>1 DEF Failed
    <3>2. attempt' \in 1 .. Attempts
      BY <1>3, <2>1 DEF Failed
    <3>3. TypeOK'
      BY <3>1, <3>2
    <3>4. Told'
      BY <3>1
    <3> QED
      BY <3>3, <3>4
  <2>2. CASE ~(attempt < Attempts)
    <3>1. item <= Count /\ Settle(item + 1, "dropped")
      BY <1>3, <2>2 DEF Failed
    <3>2. /\ item' \in 0 .. Count + 1 /\ attempt' \in 1 .. Attempts
          /\ outcome' \in [Items -> {"pending", "sent", "dropped"}]
          /\ \A i \in Items : outcome'[i] = "sent" => KeysAgree
      BY <3>1, SettleTells
    <3>3. UNCHANGED <<keyVars, answer, net, applied>> /\ waiting' = FALSE
      BY <1>3 DEF Failed
    <3>4. TypeOK'
      BY <3>2, <3>3
    <3>5. Told'
      BY <3>2, <3>3
    <3> QED
      BY <3>4, <3>5
  <2> QED
    BY <2>1, <2>2
<1>4. ASSUME NEW req \in Requests, Lose(req) PROVE Inv'
  BY <1>4 DEF Lose
<1>5. ASSUME NEW req \in Requests, Handle(req) PROVE Inv'
  <2>1. applied' \in [Items -> Nat]
    BY <1>5, AppliedGrows DEF Handle
  <2>2. UNCHANGED <<keyVars, clientVars>> /\ net' \subseteq net /\ KeysAgree /\ req[1] # Whole
    BY <1>5, ItemsNeedKeys DEF Handle
  <2>3. answer' = answer \/ (answer' = 200 /\ waiting /\ item # Whole)
    BY <1>5, <2>2 DEF Handle, Reply, Awaited
  <2>4. TypeOK'
    BY <2>1, <2>2, <2>3
  <2>5. Told'
    BY <2>2, <2>3
  <2> QED
    BY <2>4, <2>5
<1>6. ASSUME NEW req \in Requests, Reject(req) PROVE Inv'
  BY <1>6 DEF Reject, Reply, Awaited
<1>7. CASE UNCHANGED vars
  BY <1>7 DEF vars
<1> HIDE DEF Inv, TypeOK, Told, Items, Whole, KeysAgree
<1> QED
  BY <1>1, <1>2, <1>3, <1>4, <1>5, <1>6, <1>7 DEF Next, Serve, Over

\* Every variable keeps its type: in particular the attempts stay in bounds.
THEOREM TypeCorrect == Spec => []TypeOK
<1>1. Inv => TypeOK
  BY DEF Inv
<1> QED
  BY <1>1, InvInit, InvNext, PTL DEF Spec

\* A server with another key stores nothing of what the agent sends.
THEOREM OtherKeyStoresNothing == Spec => []OtherKeyLeavesNoTrace
<1>1. Inv => OtherKeyLeavesNoTrace
  BY DEF Inv, Told, OtherKeyLeavesNoTrace, KeysAgree
<1> QED
  BY <1>1, InvInit, InvNext, PTL DEF Spec

-----------------------------------------------------------------------------
(* Handlers within their 2 seconds.                                        *)

Kept ==
    /\ waiting /\ answer = 200 => applied[item] > 0
    /\ AckedIsApplied

LEMMA KeptNext ==
    ASSUME ~MayExpire, Inv, Kept, [Next]_vars
    PROVE  Kept'
<1>0. Count \in Nat /\ Attempts \in Nat /\ Attempts > 0
  BY DeliveryAssumption
<1> USE <1>0 DEF Inv, TypeOK, Told, Items, Whole, keyVars, clientVars, Kept, AckedIsApplied
<1>1. CASE Post
  BY <1>1 DEF Post
<1>2. CASE Accepted
  <2>1. item # Whole /\ item \in Items /\ applied[item] > 0
    BY <1>2 DEF Accepted
  <2>2. outcome' = [outcome EXCEPT ![item] = "sent"] /\ applied' = applied /\ waiting' = FALSE
    BY <1>2, <2>1 DEF Accepted, Settle
  <2> QED
    BY <2>1, <2>2
<1>3. CASE Failed
  BY <1>3 DEF Failed, Settle
<1>4. ASSUME NEW req \in Requests, Lose(req) PROVE Kept'
  BY <1>4 DEF Lose
<1>5. ASSUME NEW req \in Requests, Handle(req) PROVE Kept'
  <2>1. UNCHANGED <<keyVars, clientVars>> /\ req[1] # Whole
    BY <1>5 DEF Handle, Accepts, Unpacks
  <2>2. CASE Apply(req)
    <3>1. answer' = answer \/ (waiting /\ item = req[1])
      BY <1>5 DEF Handle, Reply, Awaited
    <3>2. item = req[1] => item \in Carried(req)
      BY <2>1 DEF Carried
    <3>3. waiting /\ item # Whole => item \in Items
      OBVIOUS
    <3> QED
      BY <2>1, <2>2, <3>1, <3>2, <3>3, AppliedGrows
  <2>3. CASE ~Awaited(req) /\ UNCHANGED applied
    BY <1>5, <2>1, <2>3 DEF Handle, Reply
  <2> QED
    BY <1>5, <2>2, <2>3 DEF Handle
<1>6. ASSUME NEW req \in Requests, Reject(req) PROVE Kept'
  BY <1>6 DEF Reject, Reply, Awaited
<1>7. CASE UNCHANGED vars
  BY <1>7 DEF vars
<1> QED
  BY <1>1, <1>2, <1>3, <1>4, <1>5, <1>6, <1>7 DEF Next, Serve, Over

\* What the agent believes to be sent is in the store, provided no handler takes
\* longer than its context allows.
THEOREM AcknowledgedIsApplied == ASSUME ~MayExpire PROVE Spec => []AckedIsApplied
<1>1. Init => Kept
  BY DEF Init, Kept, AckedIsApplied
<1>2. Inv /\ Kept /\ [Next]_vars => Kept'
  BY KeptNext
<1>3. Kept => AckedIsApplied
  BY DEF Kept
<1> QED
  BY <1>1, <1>2, <1>3, InvInit, InvNext, PTL DEF Spec
-----------------------------------------------------------------------------
(* Duplicates.  Every request under way has been posted, so a post adds a  *)
(* request to those that may still be applied, and nothing else does.      *)

Inflight(i) == {req \in net : req[1] = i}

IsPosted(req) ==
    \/ req[1] < item
    \/ req[1] = item /\ req[2] < attempt
    \/ req[1] = item /\ req[2] = attempt /\ waiting

Bounded ==
    /\ IsFiniteSet(net)
    /\ \A req \in net : IsPosted(req)
    /\ BoundedDuplicates

\* Counting the requests that carry item i.
LEMMA Counting ==
    ASSUME IsFiniteSet(net), NEW i
    PROVE  /\ IsFiniteSet(Inflight(i)) /\ Cardinality(Inflight(i)) \in Nat
           /\ \A req : /\ IsFiniteSet(net \cup {req}) /\ IsFiniteSet(net \ {req})
                       /\ req \in Inflight(i) =>
                             Cardinality(Inflight(i) \ {req}) = Cardinality(Inflight(i)) - 1
                       /\ req \notin Inflight(i) =>
                             Cardinality(Inflight(i) \cup {req}) = Cardinality(Inflight(i)) + 1
<1>1. IsFiniteSet(Inflight(i))
  BY FS_Subset DEF Inflight
<1> QED
  BY <1>1, FS_CardinalityType, FS_AddElement, FS_RemoveElement

\* A request that leaves the network makes room for one application.
LEMMA LeavingCounts ==
    ASSUME IsFiniteSet(net), NEW req \in net, net' = net \ {req}, NEW i
    PROVE  /\ IsFiniteSet(net')
           /\ Cardinality(Inflight(i)') =
                 Cardinality(Inflight(i)) - (IF req[1] = i THEN 1 ELSE 0)
<1>1. IsFiniteSet(net')
  BY Counting
<1>2. CASE req[1] = i
  <2>1. req \in Inflight(i) /\ Inflight(i)' = Inflight(i) \ {req}
    BY <1>2 DEF Inflight
  <2> QED
    BY <1>1, <1>2, <2>1, Counting
<1>3. CASE req[1] # i
  <2>1. Inflight(i)' = Inflight(i)
    BY <1>3 DEF Inflight
  <2> QED
    BY <1>1, <1>3, <2>1, Counting
<1> QED
  BY <1>2, <1>3

LEMMA BoundedNext ==
    ASSUME Inv, Inv', Bounded, [Next]_vars
    PROVE  Bounded'
<1>0. Count \in Nat /\ Attempts \in Nat /\ Attempts > 0
  BY DeliveryAssumption
<1>a. /\ item \in 0 .. Count + 1 /\ attempt \in 1 .. Attempts /\ waiting \in BOOLEAN
      /\ net \subseteq Requests /\ applied \in [Items -> Nat]
      /\ waiting => item <= Count
  BY DEF Inv, TypeOK, Told
<1>b. IsFiniteSet(net) /\ \A req \in net : IsPosted(req)
  BY DEF Bounded
<1>c. \A i \in Items : /\ applied[i] + Cardinality(Inflight(i)) <= Posted(i)
                       /\ Cardinality(Inflight(i)) \in Nat /\ applied[i] \in Nat
                       /\ i \in Nat /\ i # Whole
  <2>1. \A i \in Items : applied[i] + Cardinality(Inflight(i)) <= Posted(i)
    BY DEF Bounded, BoundedDuplicates, Inflight
  <2>2. \A i \in Items : Cardinality(Inflight(i)) \in Nat
    BY <1>b, Counting
  <2>3. \A i \in Items : applied[i] \in Nat /\ i \in Nat /\ i # Whole
    BY <1>a DEF Items, Whole
  <2> QED
    BY <2>1, <2>2, <2>3
<1>d. \A req \in net : req[1] \in Nat /\ req[2] \in Nat
  BY <1>0, <1>a DEF Requests
<1> DEFINE Fits(i) == applied'[i] + Cardinality(Inflight(i)') <= Posted(i)'
<1>e. IsFiniteSet(net') /\ (\A req \in net' : IsPosted(req)') /\ (\A i \in Items : Fits(i))
      => Bounded'
  BY DEF Bounded, BoundedDuplicates, Inflight
<1>1. CASE Post
  <2> DEFINE new == <<item, attempt>>
  <2>1. /\ item <= Count /\ ~waiting /\ waiting' = TRUE /\ net' = net \cup {new}
        /\ UNCHANGED <<item, attempt, applied>>
    BY <1>1 DEF Post
  <2>2. new \notin net /\ new[1] = item /\ new[2] = attempt
    BY <1>a, <1>b, <2>1 DEF IsPosted
  <2>3. \A req \in net' : IsPosted(req)'
    BY <1>b, <2>1, <2>2 DEF IsPosted
  <2>4. ASSUME NEW i \in Items PROVE Fits(i)
    <3>1. CASE i = item
      <4>1. Inflight(i)' = Inflight(i) \cup {new} /\ new \notin Inflight(i)
        BY <2>1, <2>2, <3>1 DEF Inflight
      <4>2. Cardinality(Inflight(i)') = Cardinality(Inflight(i)) + 1
        BY <1>b, <4>1, Counting
      <4>3. Posted(i) = attempt - 1 /\ Posted(i)' = attempt
        BY <1>a, <2>1, <3>1 DEF Posted
      <4> QED
        BY <1>a, <1>c, <2>1, <4>2, <4>3
    <3>2. CASE i # item
      <4>1. Inflight(i)' = Inflight(i)
        BY <2>1, <2>2, <3>2 DEF Inflight
      <4>2. Posted(i)' = Posted(i)
        BY <2>1, <3>2 DEF Posted
      <4> QED
        BY <1>c, <2>1, <4>1, <4>2
    <3> QED
      BY <3>1, <3>2
  <2> QED
    BY <1>b, <1>e, <2>1, <2>3, <2>4, Counting
<1>2. ASSUME waiting, waiting' = FALSE, UNCHANGED <<net, applied>>,
             \/ item' = item /\ attempt' = attempt + 1 /\ attempt < Attempts
             \/ item' \in {item + 1, Count + 1} /\ attempt' = 1
      PROVE  Bounded'
  <2>1. item' \in 0 .. Count + 1
    BY DEF Inv, TypeOK
  <2>2. \A req \in net' : IsPosted(req)'
    BY <1>0, <1>a, <1>b, <1>d, <1>2, <2>1 DEF IsPosted
  <2>3. ASSUME NEW i \in Items PROVE Fits(i)
    <3>1. Inflight(i)' = Inflight(i)
      BY <1>2 DEF Inflight
    <3>2. Posted(i) <= Posted(i)'
      BY <1>0, <1>a, <1>c, <1>2, <2>1 DEF Posted
    <3>3. Posted(i) \in Int /\ Posted(i)' \in Int
      BY <1>0, <1>a, <1>2, <2>1 DEF Posted
    <3> QED
      BY <1>c, <1>2, <3>1, <3>2, <3>3
  <2> QED
    BY <1>b, <1>e, <1>2, <2>2, <2>3
<1>3. CASE Accepted
  BY <1>2, <1>3 DEF Accepted, Settle
<1>4. CASE Failed
  BY <1>2, <1>4 DEF Failed, Settle
<1>5. ASSUME NEW req \in net, net' = net \ {req}, UNCHANGED clientVars,
             \A i \in Items : applied'[i] \in {applied[i], applied[i] + (IF req[1] = i THEN 1 ELSE 0)}
      PROVE  Bounded'
  <2>1. IsFiniteSet(net') /\ \A r \in net' : IsPosted(r)'
    BY <1>b, <1>5, LeavingCounts DEF IsPosted, clientVars
  <2>2. ASSUME NEW i \in Items PROVE Fits(i)
    <3>1. Cardinality(Inflight(i)') = Cardinality(Inflight(i)) - (IF req[1] = i THEN 1 ELSE 0)
      BY <1>b, <1>5, LeavingCounts
    <3>2. Posted(i)' = Posted(i) /\ Posted(i) \in Int
      BY <1>0, <1>a, <1>5 DEF Posted, clientVars
    <3> QED
      BY <1>c, <1>5, <3>1, <3>2
  <2> QED
    BY <1>e, <2>1, <2>2
<1>6. ASSUME NEW req, Lose(req) \/ Reject(req) PROVE Bounded'
  BY <1>5, <1>6 DEF Lose, Reject
<1>7. ASSUME NEW req, Handle(req) PROVE Bounded'
  <2>1. req \in net /\ net' = net \ {req} /\ UNCHANGED clientVars
    BY <1>7 DEF Handle
  <2>2. Carried(req) = {req[1]}
    BY <1>7, ItemsNeedKeys DEF Handle, Carried
  <2>3. \A i \in Items : applied'[i] \in {applied[i], applied[i] + (IF req[1] = i THEN 1 ELSE 0)}
    BY <1>7, <2>2 DEF Handle, Apply
  <2> QED
    BY <1>5, <2>1, <2>3
<1>8. CASE UNCHANGED vars
  BY <1>8 DEF vars, clientVars, Bounded, BoundedDuplicates, IsPosted, Posted
<1> QED
  BY <1>1, <1>3, <1>4, <1>6, <1>7, <1>8 DEF Next, Serve, Over

\* A metric is added as often as it was posted at the most, for any number of
\* metrics and attempts, whatever gets lost or comes late.
THEOREM DuplicatesAreBounded == Spec => []BoundedDuplicates
<1>1. Init => Bounded
  <2> SUFFICES ASSUME Init PROVE Bounded
    OBVIOUS
  <2>1. net = {} /\ \A i \in Items : applied[i] = 0 /\ i > item
    BY DEF Init, Items, Whole
  <2>2. \A i \in Items : {req \in net : req[1] = i} = {} /\ Posted(i) = 0
    BY <2>1, DeliveryAssumption DEF Init, Posted, Items, Whole
  <2> QED
    BY <2>1, <2>2, FS_EmptySet DEF Bounded, BoundedDuplicates
<1>2. Bounded => BoundedDuplicates
  BY DEF Bounded
<1>3. Inv /\ Inv' /\ Bounded /\ [Next]_vars => Bounded'
  BY BoundedNext
<1> QED
  BY <1>1, <1>2, <1>3, InvInit, InvNext, PTL DEF Spec
=============================================================================
