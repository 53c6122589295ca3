------------------------- MODULE PayloadSyncProofs -------------------------
(***************************************************************************)
(* The synchronizer of the mempool keeps its requests and its waiters      *)
(* together, whatever blocks share payloads and whenever cleanups come.    *)
(***************************************************************************)
EXTENDS PayloadSync, TLAPS

(* A message or a waiter names every payload of its block that is missing. *)
Covers(x) ==
    /\ x.missing \subseteq PayloadOf[x.block]
    /\ PayloadOf[x.block] \ x.missing \subseteq store

Messages ==
    \A i \in 1..Len(inner) :
        /\ inner[i].op = "Sync" => Covers(inner[i])
        /\ inner[i].op = "Clean" => inner[i].round \in cleaned

(* A waiter that has not been cancelled belongs to a pending block, unless *)
(* a cancelled one of the same block was faster.                           *)
Waiters ==
    \A w \in waiting :
        /\ Covers(w)
        /\ ~w.cancelled => w.block \in pending \/ w.missing \subseteq store

(* A request carries the height of a block that waits for the payload. *)
RequestsFit ==
    \A p \in Payload : requests[p] # 0 =>
        \E w \in waiting : ~w.cancelled /\ p \in w.missing /\ Height[w.block] = requests[p]

Inv == TypeOK /\ Messages /\ Waiters /\ RequestsFit /\ MissingIsRequested
-----------------------------------------------------------------------------
SyncMessage == [op : {"Sync"}, missing : SUBSET Payload, block : Block]
CleanMessage == [op : {"Clean"}, round : Round]
Waiter == [block : Block, missing : SUBSET Payload, cancelled : BOOLEAN]

(* The head of the channel is a message, and the others follow it. *)
LEMMA HeadTail ==
    ASSUME TypeOK, inner # <<>>
    PROVE  /\ Head(inner) = inner[1] /\ 1 \in 1..Len(inner)
           /\ Head(inner).op = "Sync" => Head(inner) \in SyncMessage
           /\ Head(inner).op = "Clean" => Head(inner) \in CleanMessage
           /\ Tail(inner) \in Seq(SyncMessage \cup CleanMessage)
           /\ \A i \in 1..Len(Tail(inner)) :
                 i + 1 \in 1..Len(inner) /\ Tail(inner)[i] = inner[i + 1]
<1>1. inner \in Seq(SyncMessage \cup CleanMessage)
  BY DEF TypeOK, SyncMessage, CleanMessage
<1>2. Head(inner) \in SyncMessage \cup CleanMessage /\ Head(inner) = inner[1]
      /\ Len(inner) \in Nat /\ Len(inner) > 0
  BY <1>1
<1>3. Head(inner) \in CleanMessage => Head(inner).op = "Clean"
  BY DEF CleanMessage
<1>4. Head(inner) \in SyncMessage => Head(inner).op = "Sync"
  BY DEF SyncMessage
<1>5. Tail(inner) \in Seq(SyncMessage \cup CleanMessage)
  BY <1>1
<1>6. \A i \in 1..Len(Tail(inner)) :
         i + 1 \in 1..Len(inner) /\ Tail(inner)[i] = inner[i + 1]
  BY <1>1
<1> QED
  BY <1>2, <1>3, <1>4, <1>5, <1>6

(* What a message appended to the channel changes. *)
LEMMA Appended ==
    ASSUME TypeOK, NEW m \in SyncMessage \cup CleanMessage, inner' = Append(inner, m)
    PROVE  /\ inner' \in Seq(SyncMessage \cup CleanMessage)
           /\ \A i \in 1..Len(inner') :
                 (i \in 1..Len(inner) /\ inner'[i] = inner[i]) \/ inner'[i] = m
<1>1. inner \in Seq(SyncMessage \cup CleanMessage)
  BY DEF TypeOK, SyncMessage, CleanMessage
<1> QED
  BY <1>1

(* What Sync does when the block is not pending. *)
LEMMA SyncStep ==
    ASSUME TypeOK, Sync
    PROVE  /\ inner # <<>> /\ Head(inner) \in SyncMessage /\ Head(inner).op = "Sync"
           /\ inner' = Tail(inner) /\ UNCHANGED <<store, accepted, cleaned, looped>>
           /\ \/ UNCHANGED <<pending, waiting, requests, asked>>
              \/ \E b \in Block, missing \in SUBSET Payload :
                    /\ b = Head(inner).block /\ missing = Head(inner).missing
                    /\ pending' = pending \cup {b}
                    /\ waiting' = waiting \cup
                           {[block |-> b, missing |-> missing, cancelled |-> FALSE]}
                    /\ \A p \in Payload : requests'[p] =
                          IF p \in missing /\ requests[p] = 0 THEN Height[b] ELSE requests[p]
                    /\ requests' \in [Payload -> 0..MaxHeight]
                    /\ asked' \subseteq Payload
<1>1. inner # <<>> /\ Head(inner).op = "Sync"
      /\ inner' = Tail(inner) /\ UNCHANGED <<store, accepted, cleaned, looped>>
  BY Zenon DEF Sync
<1>2. Head(inner) \in SyncMessage
  BY <1>1, HeadTail
<1>3. CASE UNCHANGED <<pending, waiting, requests, asked>>
  BY <1>1, <1>2, <1>3
<1>4. CASE ~UNCHANGED <<pending, waiting, requests, asked>>
  <2> DEFINE b == Head(inner).block
             missing == Head(inner).missing
             ask == {p \in missing : requests[p] = 0}
  <2>1. /\ pending' = pending \cup {b}
        /\ waiting' = waiting \cup {[block |-> b, missing |-> missing, cancelled |-> FALSE]}
        /\ requests' = [p \in Payload |-> IF p \in ask THEN Height[b] ELSE requests[p]]
        /\ asked' = asked \cup ask
    BY <1>4, Zenon DEF Sync
  <2>2. b \in Block /\ missing \in SUBSET Payload
    BY <1>2 DEF SyncMessage
  <2>3. Height[b] \in 0..MaxHeight
    BY <2>2, PayloadSyncAssumption
  <2>4. requests' \in [Payload -> 0..MaxHeight]
    BY <2>1, <2>3 DEF TypeOK
  <2>5. asked' \subseteq Payload
    BY <2>1, <2>2 DEF TypeOK
  <2>6. \A p \in Payload : requests'[p] =
          IF p \in missing /\ requests[p] = 0 THEN Height[b] ELSE requests[p]
    BY <2>1
  <2> HIDE DEF b, missing, ask
  <2>7. b = Head(inner).block /\ missing = Head(inner).missing
    BY DEF b, missing
  <2> QED
    BY <1>1, <1>2, <2>1, <2>2, <2>4, <2>5, <2>6, <2>7
<1> QED
  BY <1>3, <1>4

(* What Clean does to a waiter. *)
After(w, r) ==
    [w EXCEPT !.cancelled = w.cancelled \/ (w.block \in pending /\ Height[w.block] <= r)]

LEMMA CleanStep ==
    ASSUME TypeOK, Clean
    PROVE  /\ inner # <<>> /\ inner' = Tail(inner)
           /\ UNCHANGED <<store, accepted, cleaned, asked, looped>>
           /\ \E r \in Round :
                 /\ Head(inner).op = "Clean" /\ r = Head(inner).round
                 /\ waiting' = {After(w, r) : w \in waiting}
                 /\ pending' = {b \in pending : Height[b] > r}
                 /\ requests' = [p \in Payload |-> IF requests[p] > r THEN requests[p] ELSE 0]
<1>1. /\ inner # <<>> /\ inner' = Tail(inner) /\ Head(inner).op = "Clean"
      /\ UNCHANGED <<store, accepted, cleaned, asked, looped>>
  BY Zenon DEF Clean
<1>2. Head(inner).round \in Round
  BY <1>1, HeadTail DEF CleanMessage
<1> QED
  BY <1>1, <1>2 DEF Clean, After

(* A cleaned waiter is as before but for its flag. *)
LEMMA AfterFields ==
    ASSUME NEW w \in Waiter, NEW r
    PROVE  /\ After(w, r) \in Waiter
           /\ After(w, r).block = w.block /\ After(w, r).missing = w.missing
           /\ After(w, r).cancelled <=>
                 w.cancelled \/ (w.block \in pending /\ Height[w.block] <= r)
BY DEF After, Waiter
-----------------------------------------------------------------------------
(* What one waiter's end does. *)
LEMMA EndStep ==
    ASSUME TypeOK, NEW w \in waiting, LoopBack(w) \/ Cancelled(w)
    PROVE  /\ w \in Waiter /\ waiting' = waiting \ {w}
           /\ UNCHANGED <<store, accepted, inner, cleaned, asked>>
           /\ \/ /\ w.cancelled /\ UNCHANGED <<pending, requests, looped>>
              \/ /\ w.missing \subseteq store /\ pending' = pending \ {w.block}
                 /\ looped' = looped \cup {w.block}
                 /\ requests' = [p \in Payload |->
                        IF p \in PayloadOf[w.block] THEN 0 ELSE requests[p]]
<1>1. w \in Waiter
  BY DEF TypeOK, Waiter
<1> QED
  BY <1>1 DEF LoopBack, Cancelled

(* Every step keeps the types. *)
LEMMA NextType == TypeOK /\ [Next]_vars => TypeOK'
<1> SUFFICES ASSUME TypeOK, [Next]_vars PROVE TypeOK'
  OBVIOUS
<1> DEFINE Inner == inner' \in Seq(SyncMessage \cup CleanMessage)
<1>1. ASSUME NEW b \in Block, verify_payload(b) PROVE TypeOK'
  <2> DEFINE m == [op |-> "Sync", missing |-> PayloadOf[b] \ store, block |-> b]
  <2>1. m \in SyncMessage
    BY PayloadSyncAssumption DEF SyncMessage
  <2>2. UNCHANGED inner \/ inner' = Append(inner, m)
    BY <1>1 DEF verify_payload
  <2>3. Inner
    BY <2>1, <2>2, Appended DEF TypeOK, SyncMessage, CleanMessage
  <2> QED
    BY <1>1, <2>3 DEF verify_payload, TypeOK, SyncMessage, CleanMessage
<1>2. ASSUME NEW r \in Round, cleanup(r) PROVE TypeOK'
  <2> DEFINE m == [op |-> "Clean", round |-> r]
  <2>1. m \in CleanMessage
    BY DEF CleanMessage
  <2>2. Inner
    BY <1>2, <2>1, Appended DEF cleanup
  <2> QED
    BY <1>2, <2>2 DEF cleanup, TypeOK, SyncMessage, CleanMessage
<1>3. CASE Sync
  <2>1. Inner /\ UNCHANGED <<store, accepted, cleaned, looped>>
    BY <1>3, SyncStep, HeadTail
  <2>2. CASE UNCHANGED <<pending, waiting, requests, asked>>
    BY <2>1, <2>2 DEF TypeOK, SyncMessage, CleanMessage
  <2>3. CASE ~UNCHANGED <<pending, waiting, requests, asked>>
    <3>1. PICK b \in Block, missing \in SUBSET Payload :
             /\ pending' = pending \cup {b}
             /\ waiting' = waiting \cup
                    {[block |-> b, missing |-> missing, cancelled |-> FALSE]}
             /\ requests' \in [Payload -> 0..MaxHeight]
             /\ asked' \subseteq Payload
      BY <1>3, <2>3, SyncStep
    <3>2. waiting' \subseteq Waiter
      <4>1. [block |-> b, missing |-> missing, cancelled |-> FALSE] \in Waiter
        BY DEF Waiter
      <4>2. waiting \subseteq Waiter
        BY DEF TypeOK, Waiter
      <4> QED
        BY <3>1, <4>1, <4>2
    <3>3. pending' \subseteq Block
      BY <3>1 DEF TypeOK
    <3>4. requests' \in [Payload -> 0..MaxHeight] /\ asked' \subseteq Payload
      BY <3>1
    <3> QED
      BY <2>1, <3>2, <3>3, <3>4 DEF TypeOK, SyncMessage, CleanMessage, Waiter
  <2> QED
    BY <2>2, <2>3
<1>4. CASE Clean
  <2>1. Inner /\ UNCHANGED <<store, accepted, cleaned, asked, looped>>
    BY <1>4, CleanStep, HeadTail
  <2>2. PICK r \in Round :
           /\ waiting' = {After(w, r) : w \in waiting}
           /\ pending' = {b \in pending : Height[b] > r}
           /\ requests' = [p \in Payload |-> IF requests[p] > r THEN requests[p] ELSE 0]
    BY <1>4, CleanStep
  <2>3. waiting' \subseteq Waiter
    BY <2>2, AfterFields DEF TypeOK, Waiter
  <2>4. requests' \in [Payload -> 0..MaxHeight]
    BY <2>2, PayloadSyncAssumption DEF TypeOK
  <2>5. pending' \subseteq Block
    BY <2>2 DEF TypeOK
  <2> QED
    BY <2>1, <2>3, <2>4, <2>5 DEF TypeOK, SyncMessage, CleanMessage, Waiter
<1>5. ASSUME NEW w \in waiting, LoopBack(w) \/ Cancelled(w) PROVE TypeOK'
  <2>1. /\ w \in Waiter /\ waiting' \subseteq waiting
        /\ UNCHANGED <<store, accepted, inner, cleaned, asked>>
    BY <1>5, EndStep
  <2>2. pending' \subseteq Block /\ looped' \subseteq Block
    BY <1>5, EndStep DEF TypeOK, Waiter
  <2>3. requests' \in [Payload -> 0..MaxHeight]
    <3>1. 0 \in 0..MaxHeight
      BY PayloadSyncAssumption
    <3>2. UNCHANGED requests \/ requests' = [p \in Payload |->
                        IF p \in PayloadOf[w.block] THEN 0 ELSE requests[p]]
      BY <1>5, EndStep
    <3> QED
      BY <3>1, <3>2 DEF TypeOK
  <2> QED
    BY <2>1, <2>2, <2>3 DEF TypeOK
<1>6. CASE Retry
  BY <1>6 DEF Retry, TypeOK
<1>7. ASSUME NEW p \in Payload, ReceivePayload(p) \/ LoseRequest(p) PROVE TypeOK'
  BY <1>7 DEF ReceivePayload, LoseRequest, TypeOK
<1>8. CASE UNCHANGED vars
  BY <1>8 DEF vars, TypeOK
<1> QED
  BY <1>1, <1>2, <1>3, <1>4, <1>5, <1>6, <1>7, <1>8, Zenon DEF Next
-----------------------------------------------------------------------------
(* A payload that arrives, a height that is cleaned up: what was covered or *)
(* shadowed stays so.                                                      *)
LEMMA Stays ==
    ASSUME store \subseteq store', cleaned \subseteq cleaned'
    PROVE  /\ \A x : Covers(x) => Covers(x)'
           /\ \A b, p : Shadowed(b, p) => Shadowed(b, p)'
BY DEF Covers, Shadowed

(* The channel holds what it held, without its head. *)
LEMMA TailMessages ==
    ASSUME TypeOK, Messages, inner # <<>>, inner' = Tail(inner), UNCHANGED <<store, cleaned>>
    PROVE  Messages'
<1> SUFFICES ASSUME NEW i \in 1..Len(inner')
             PROVE  /\ inner'[i].op = "Sync" => Covers(inner'[i])
                    /\ inner'[i].op = "Clean" => inner'[i].round \in cleaned
  BY DEF Messages, Covers
<1>1. i + 1 \in 1..Len(inner) /\ inner'[i] = inner[i + 1]
  BY HeadTail
<1> QED
  BY <1>1 DEF Messages

(* Steps that leave the tables of the synchronizer alone. *)
LEMMA QuietStep ==
    ASSUME Inv, TypeOK', Messages', UNCHANGED <<pending, waiting, requests>>,
           store \subseteq store', cleaned \subseteq cleaned'
    PROVE  Inv'
<1>1. Waiters'
  BY Stays DEF Inv, Waiters
<1>2. RequestsFit'
  BY DEF Inv, RequestsFit
<1>3. MissingIsRequested'
  BY Stays DEF Inv, MissingIsRequested
<1> QED
  BY <1>1, <1>2, <1>3 DEF Inv

(* verify_payload and cleanup only send a message. *)
LEMMA SendStep ==
    ASSUME Inv, TypeOK', NEW m \in SyncMessage \cup CleanMessage, inner' = Append(inner, m),
           UNCHANGED store, cleaned \subseteq cleaned',
           m \in SyncMessage => Covers(m),
           m \in CleanMessage => m.round \in cleaned'
    PROVE  Messages'
<1> SUFFICES ASSUME NEW i \in 1..Len(inner')
             PROVE  /\ inner'[i].op = "Sync" => Covers(inner'[i])
                    /\ inner'[i].op = "Clean" => inner'[i].round \in cleaned'
  BY DEF Messages, Covers
<1>1. CASE i \in 1..Len(inner) /\ inner'[i] = inner[i]
  BY <1>1 DEF Inv, Messages
<1>2. CASE inner'[i] = m
  <2>1. m.op = "Sync" => m \in SyncMessage
    BY DEF SyncMessage, CleanMessage
  <2>2. m.op = "Clean" => m \in CleanMessage
    BY DEF SyncMessage, CleanMessage
  <2> QED
    BY <1>2, <2>1, <2>2
<1> QED
  BY <1>1, <1>2, Appended DEF Inv

(* Sync registers the waiter together with its requests. *)
LEMMA SyncInv ==
    ASSUME Inv, TypeOK', Sync
    PROVE  Inv'
<1>t. TypeOK /\ Messages /\ Waiters /\ RequestsFit /\ MissingIsRequested
  BY DEF Inv
<1>1. /\ inner # <<>> /\ Head(inner).op = "Sync"
      /\ inner' = Tail(inner) /\ UNCHANGED <<store, cleaned>>
  BY <1>t, SyncStep
<1>2. Messages'
  BY <1>t, <1>1, TailMessages
<1>3. CASE UNCHANGED <<pending, waiting, requests, asked>>
  BY <1>1, <1>2, <1>3, QuietStep
<1>4. CASE ~UNCHANGED <<pending, waiting, requests, asked>>
  <2>1. PICK b \in Block, missing \in SUBSET Payload :
           /\ b = Head(inner).block /\ missing = Head(inner).missing
           /\ pending' = pending \cup {b}
           /\ waiting' = waiting \cup {[block |-> b, missing |-> missing, cancelled |-> FALSE]}
           /\ \A p \in Payload : requests'[p] =
                 IF p \in missing /\ requests[p] = 0 THEN Height[b] ELSE requests[p]
    BY <1>t, <1>4, SyncStep
  <2> DEFINE n == [block |-> b, missing |-> missing, cancelled |-> FALSE]
  <2>2. Covers(Head(inner))
    BY <1>t, <1>1, HeadTail DEF Messages
  <2>3. /\ waiting' = waiting \cup {n} /\ n.block = b /\ n.missing = missing /\ ~n.cancelled
        /\ Covers(n)
    BY <2>1, <2>2 DEF Covers
  <2> HIDE DEF n
  <2>4. Height[b] # 0
    BY PayloadSyncAssumption
  <2>5. Waiters'
    <3> SUFFICES ASSUME NEW w \in waiting'
                 PROVE  /\ Covers(w)
                        /\ ~w.cancelled => w.block \in pending' \/ w.missing \subseteq store
      BY <1>1 DEF Waiters, Covers
    <3>1. CASE w \in waiting
      BY <1>t, <2>1, <3>1 DEF Waiters
    <3>2. CASE w = n
      BY <2>1, <2>3, <3>2
    <3> QED
      BY <2>3, <3>1, <3>2
  <2>6. RequestsFit'
    <3> SUFFICES ASSUME NEW p \in Payload, requests'[p] # 0
                 PROVE  \E w \in waiting' : /\ ~w.cancelled /\ p \in w.missing
                                            /\ Height[w.block] = requests'[p]
      BY DEF RequestsFit
    <3>1. CASE requests[p] # 0
      BY <1>t, <2>1, <2>3, <3>1 DEF RequestsFit
    <3>2. CASE requests[p] = 0
      BY <2>1, <2>3, <3>2
    <3> QED
      BY <3>1, <3>2
  <2>7. MissingIsRequested'
    <3> SUFFICES ASSUME NEW w \in waiting', ~w.cancelled, NEW p \in w.missing \ store
                 PROVE  requests'[p] # 0 \/ Shadowed(w.block, p)
      BY <1>1 DEF MissingIsRequested, Shadowed
    <3>1. p \in Payload
      BY DEF TypeOK
    <3>2. requests[p] # 0 => requests'[p] # 0
      BY <2>1, <3>1
    <3>3. CASE w \in waiting
      BY <1>t, <3>2, <3>3 DEF MissingIsRequested
    <3>4. CASE w = n
      BY <2>1, <2>3, <2>4, <3>1, <3>4
    <3> QED
      BY <2>3, <3>3, <3>4
  <2> QED
    BY <1>2, <2>5, <2>6, <2>7 DEF Inv
<1> QED
  BY <1>3, <1>4

(* Clean drops a request together with every waiter it was made for; who     *)
(* still waits is shadowed.                                                *)
LEMMA CleanInv ==
    ASSUME Inv, TypeOK', Clean
    PROVE  Inv'
<1>t. TypeOK /\ Messages /\ Waiters /\ RequestsFit /\ MissingIsRequested
  BY DEF Inv
<1>1. inner # <<>> /\ inner' = Tail(inner) /\ UNCHANGED <<store, cleaned>>
  BY <1>t, CleanStep
<1>2. Messages'
  BY <1>t, <1>1, TailMessages
<1>3. PICK r \in Round :
         /\ Head(inner).op = "Clean" /\ r = Head(inner).round
         /\ waiting' = {After(w, r) : w \in waiting}
         /\ pending' = {b \in pending : Height[b] > r}
         /\ requests' = [p \in Payload |-> IF requests[p] > r THEN requests[p] ELSE 0]
  BY <1>t, CleanStep
<1>4. r \in cleaned
  BY <1>t, <1>1, <1>3, HeadTail DEF Messages
<1>n. /\ r \in Nat /\ waiting \subseteq Waiter
      /\ \A b \in Block : Height[b] \in Nat /\ Height[b] # 0
      /\ \A p \in Payload : requests[p] \in Nat
  BY <1>t, PayloadSyncAssumption DEF TypeOK, Round, Waiter
<1>5. \A w \in waiting :
         /\ After(w, r) \in waiting'
         /\ w.block \in Block
         /\ After(w, r).block = w.block /\ After(w, r).missing = w.missing
         /\ After(w, r).cancelled <=>
               w.cancelled \/ (w.block \in pending /\ Height[w.block] <= r)
  BY <1>3, <1>n, AfterFields DEF Waiter
<1>6. \A x \in waiting' : \E w \in waiting : x = After(w, r)
  BY <1>3
<1>7. ASSUME NEW w \in waiting, ~After(w, r).cancelled, ~(w.missing \subseteq store)
      PROVE  w.block \in pending /\ Height[w.block] > r
  <2>1. ~w.cancelled /\ ~(w.block \in pending /\ Height[w.block] <= r)
    BY <1>5, <1>7
  <2>2. w.block \in pending
    BY <1>t, <1>7, <2>1 DEF Waiters
  <2> QED
    BY <1>5, <1>n, <2>1, <2>2
<1>8. Waiters'
  <2> SUFFICES ASSUME NEW w \in waiting
               PROVE  /\ Covers(After(w, r))
                      /\ ~After(w, r).cancelled =>
                            After(w, r).block \in pending' \/ After(w, r).missing \subseteq store
    BY <1>1, <1>6 DEF Waiters, Covers
  <2>1. Covers(After(w, r))
    BY <1>t, <1>5 DEF Waiters, Covers
  <2>2. ~After(w, r).cancelled => w.block \in pending' \/ w.missing \subseteq store
    BY <1>3, <1>7
  <2> QED
    BY <1>5, <2>1, <2>2
<1>9. RequestsFit'
  <2> SUFFICES ASSUME NEW p \in Payload, requests'[p] # 0
               PROVE  \E x \in waiting' : /\ ~x.cancelled /\ p \in x.missing
                                          /\ Height[x.block] = requests'[p]
    BY DEF RequestsFit
  <2>1. requests'[p] = requests[p] /\ requests[p] > r
    BY <1>3
  <2>2. PICK w \in waiting : ~w.cancelled /\ p \in w.missing /\ Height[w.block] = requests[p]
    BY <1>t, <1>n, <2>1 DEF RequestsFit
  <2>3. ~(Height[w.block] <= r)
    BY <1>n, <2>1, <2>2
  <2> QED
    BY <1>5, <2>1, <2>2, <2>3
<1>10. MissingIsRequested'
  <2> SUFFICES ASSUME NEW w \in waiting, ~After(w, r).cancelled, NEW p \in w.missing \ store
               PROVE  requests'[p] # 0 \/ Shadowed(w.block, p)
    BY <1>1, <1>5, <1>6 DEF MissingIsRequested, Shadowed
  <2>1. w.block \in pending /\ Height[w.block] > r /\ ~w.cancelled
    BY <1>5, <1>7
  <2>2. p \in Payload
    BY <1>n DEF Waiter
  <2>3. CASE requests[p] # 0 /\ ~(requests[p] > r)
    <3>1. PICK c \in waiting : p \in c.missing /\ Height[c.block] = requests[p]
      BY <1>t, <2>2, <2>3 DEF RequestsFit
    <3>2. c.block \in Block /\ p \in PayloadOf[c.block]
      BY <1>t, <1>5, <3>1 DEF Waiters, Covers
    <3>3. Height[c.block] <= r /\ r < Height[w.block]
      BY <1>5, <1>n, <2>1, <2>2, <2>3, <3>1
    <3> QED
      BY <1>4, <3>2, <3>3 DEF Shadowed
  <2>4. CASE requests[p] > r
    BY <1>3, <1>n, <2>2, <2>4
  <2>5. CASE requests[p] = 0
    BY <1>t, <2>1, <2>5 DEF MissingIsRequested
  <2> QED
    BY <2>3, <2>4, <2>5
<1> QED
  BY <1>2, <1>8, <1>9, <1>10 DEF Inv

(* The end of a waiter takes the requests for all payloads of its block     *)
(* along, which have arrived.                                              *)
LEMMA EndInv ==
    ASSUME Inv, TypeOK', NEW e \in waiting, LoopBack(e) \/ Cancelled(e)
    PROVE  Inv'
<1>t. TypeOK /\ Messages /\ Waiters /\ RequestsFit /\ MissingIsRequested
  BY DEF Inv
<1>1. /\ e \in Waiter /\ waiting' = waiting \ {e} /\ UNCHANGED <<store, inner, cleaned>>
      /\ \/ e.cancelled /\ UNCHANGED <<pending, requests>>
         \/ /\ e.missing \subseteq store /\ pending' = pending \ {e.block}
            /\ requests' = [p \in Payload |->
                   IF p \in PayloadOf[e.block] THEN 0 ELSE requests[p]]
  BY <1>t, EndStep
<1>2. Messages'
  BY <1>t, <1>1 DEF Messages, Covers
<1>3. CASE e.cancelled /\ UNCHANGED <<pending, requests>>
  <2>1. Waiters'
    BY <1>t, <1>1, <1>3 DEF Waiters, Covers
  <2>2. RequestsFit'
    BY <1>t, <1>1, <1>3 DEF RequestsFit
  <2>3. MissingIsRequested'
    BY <1>t, <1>1, <1>3 DEF MissingIsRequested, Shadowed
  <2> QED
    BY <1>2, <2>1, <2>2, <2>3 DEF Inv
<1>4. CASE /\ e.missing \subseteq store /\ pending' = pending \ {e.block}
           /\ requests' = [p \in Payload |->
                  IF p \in PayloadOf[e.block] THEN 0 ELSE requests[p]]
  <2>1. PayloadOf[e.block] \subseteq store
    BY <1>t, <1>4 DEF Waiters, Covers
  <2>2. Waiters'
    <3> SUFFICES ASSUME NEW w \in waiting
                 PROVE  /\ Covers(w)
                        /\ ~w.cancelled => w.block \in pending' \/ w.missing \subseteq store
      BY <1>1 DEF Waiters, Covers
    <3>1. Covers(w) /\ (~w.cancelled => w.block \in pending \/ w.missing \subseteq store)
      BY <1>t DEF Waiters
    <3>2. w.block = e.block => w.missing \subseteq store
      BY <2>1, <3>1 DEF Covers
    <3> QED
      BY <1>4, <3>1, <3>2
  <2>3. RequestsFit'
    <3> SUFFICES ASSUME NEW p \in Payload, requests'[p] # 0
                 PROVE  \E w \in waiting' : /\ ~w.cancelled /\ p \in w.missing
                                            /\ Height[w.block] = requests'[p]
      BY DEF RequestsFit
    <3>1. p \notin PayloadOf[e.block] /\ requests'[p] = requests[p]
      BY <1>4
    <3>2. PICK w \in waiting : ~w.cancelled /\ p \in w.missing /\ Height[w.block] = requests[p]
      BY <1>t, <3>1 DEF RequestsFit
    <3>3. w # e
      BY <1>t, <3>1, <3>2 DEF Waiters, Covers
    <3> QED
      BY <1>1, <3>1, <3>2, <3>3
  <2>4. MissingIsRequested'
    <3> SUFFICES ASSUME NEW w \in waiting, ~w.cancelled, NEW p \in w.missing \ store
                 PROVE  requests'[p] # 0 \/ Shadowed(w.block, p)
      BY <1>1 DEF MissingIsRequested, Shadowed
    <3>1. p \in Payload /\ p \notin PayloadOf[e.block]
      BY <1>t, <2>1 DEF TypeOK
    <3>2. requests'[p] = requests[p]
      BY <1>4, <3>1
    <3> QED
      BY <1>t, <3>2 DEF MissingIsRequested
  <2> QED
    BY <1>2, <2>2, <2>3, <2>4 DEF Inv
<1> QED
  BY <1>1, <1>3, <1>4
-----------------------------------------------------------------------------
(* Inv is inductive. *)
LEMMA Invariance == Spec => []Inv
<1>1. Init => Inv
  <2> SUFFICES ASSUME Init PROVE Inv
    OBVIOUS
  <2>1. TypeOK
    BY PayloadSyncAssumption DEF Init, TypeOK
  <2>2. Messages
    BY DEF Init, Messages
  <2>3. Waiters /\ RequestsFit /\ MissingIsRequested
    BY DEF Init, Waiters, RequestsFit, MissingIsRequested
  <2> QED
    BY <2>1, <2>2, <2>3 DEF Inv
<1>2. Inv /\ [Next]_vars => Inv'
  <2> SUFFICES ASSUME Inv, [Next]_vars PROVE Inv'
    OBVIOUS
  <2>t. TypeOK /\ TypeOK'
    BY NextType DEF Inv
  <2>1. ASSUME NEW b \in Block, verify_payload(b) PROVE Inv'
    <3> DEFINE m == [op |-> "Sync", missing |-> PayloadOf[b] \ store, block |-> b]
    <3>1. m \in SyncMessage /\ Covers(m) /\ m.op = "Sync"
      BY PayloadSyncAssumption DEF SyncMessage, Covers
    <3>2. /\ UNCHANGED <<store, cleaned, pending, waiting, requests>>
          /\ UNCHANGED inner \/ inner' = Append(inner, m)
      BY <2>1 DEF verify_payload
    <3>3. m \notin CleanMessage
      BY DEF CleanMessage
    <3> HIDE DEF m
    <3>4. CASE UNCHANGED inner
      BY <2>t, <3>2, <3>4, QuietStep DEF Inv, Messages, Covers
    <3>5. CASE inner' = Append(inner, m)
      BY <2>t, <3>1, <3>2, <3>3, <3>5, SendStep, QuietStep
    <3> QED
      BY <3>2, <3>4, <3>5
  <2>2. ASSUME NEW r \in Round, cleanup(r) PROVE Inv'
    <3> DEFINE m == [op |-> "Clean", round |-> r]
    <3>1. m \in CleanMessage /\ m.round = r
      BY DEF CleanMessage
    <3>2. m \notin SyncMessage
      BY DEF SyncMessage
    <3>3. /\ UNCHANGED <<store, pending, waiting, requests>>
          /\ cleaned' = cleaned \cup {r} /\ inner' = Append(inner, m)
      BY <2>2 DEF cleanup
    <3> HIDE DEF m
    <3> QED
      BY <2>t, <3>1, <3>2, <3>3, SendStep, QuietStep
  <2>3. CASE Sync
    BY <2>t, <2>3, SyncInv
  <2>4. CASE Clean
    BY <2>t, <2>4, CleanInv
  <2>5. ASSUME NEW w \in waiting, LoopBack(w) \/ Cancelled(w) PROVE Inv'
    BY <2>t, <2>5, EndInv
  <2>6. ASSUME UNCHANGED <<inner, cleaned, pending, waiting, requests>>, store \subseteq store'
        PROVE  Inv'
    <3>1. Messages'
      BY <2>6, Stays DEF Inv, Messages
    <3> QED
      BY <2>t, <2>6, <3>1, QuietStep
  <2>7. CASE Retry \/ UNCHANGED vars
    BY <2>6, <2>7 DEF Retry, vars
  <2>8. ASSUME NEW p \in Payload, ReceivePayload(p) \/ LoseRequest(p) PROVE Inv'
    BY <2>6, <2>8 DEF ReceivePayload, LoseRequest
  <2> QED
    BY <2>1, <2>2, <2>3, <2>4, <2>5, <2>7, <2>8, Zenon DEF Next
<1> QED
  BY <1>1, <1>2, PTL DEF Spec

(* Every step keeps the types of the synchronizer's state. *)
THEOREM PayloadSyncTypeCorrect == Spec => []TypeOK
<1>1. Inv => TypeOK
  BY DEF Inv
<1> QED
  BY <1>1, Invariance, PTL

(* A payload that a live waiter misses stays under request, but for the      *)
(* cleanup of an older block that shares it: whatever payloads blocks      *)
(* share, and also when a cancelled waiter still sends its block back.     *)
THEOREM MissingStaysRequested == Spec => []MissingIsRequested
<1>1. Inv => MissingIsRequested
  BY DEF Inv
<1> QED
  BY <1>1, Invariance, PTL

(* The timer never repeats a request that no live waiter is behind: a        *)
(* request carries the height of such a waiter's block, so cleanups take   *)
(* both or neither.                                                        *)
THEOREM RequestsAreWaitedFor == Spec => []RequestsHaveWaiter
<1>1. Inv => RequestsHaveWaiter
  BY DEF Inv, RequestsFit, RequestsHaveWaiter
<1> QED
  BY <1>1, Invariance, PTL
=============================================================================
