-------------------------- MODULE BlockSyncProofs --------------------------
(***************************************************************************)
(* The bookkeeping of the consensus synchronizer for any tree of blocks    *)
(* and any capacity of the channels.                                       *)
(***************************************************************************)
EXTENDS BlockSync, TLAPS

(* Steps of Core and of the network leave the synchronizer's tables alone, *)
(* and Core never removes a block from the store.                          *)
LEMMA OtherSteps ==
    ASSUME Next
    PROVE  \/ SyncReceive
           \/ \E b \in Block : WaiterDone(b)
           \/ UNCHANGED <<waiting, requests, pending>> /\ store \subseteq store'
BY DEF Next, DeliverProposal, LoseProposal, AnswerRequest, LoseRequest, DeliverReply,
       CoreReceive, CoreHandOver, LoopBack, Retry, coreVars, syncVars, netVars

(* A missing parent stays under request until it is stored, even when a     *)
(* sibling's waiter clears the request they share.                         *)
THEOREM MissingStaysRequested == Spec => []MissingIsRequested
<1>1. Init => MissingIsRequested
  BY DEF Init, MissingIsRequested
<1>2. MissingIsRequested /\ [Next]_vars => MissingIsRequested'
  <2> SUFFICES ASSUME MissingIsRequested, [Next]_vars PROVE MissingIsRequested'
    OBVIOUS
  <2>1. CASE SyncReceive
    BY <2>1 DEF SyncReceive, MissingIsRequested, coreVars
  <2>2. ASSUME NEW b \in Block, WaiterDone(b) PROVE MissingIsRequested'
    BY <2>2 DEF WaiterDone, MissingIsRequested, coreVars
  <2>3. CASE UNCHANGED <<waiting, requests, pending>> /\ store \subseteq store'
    BY <2>3 DEF MissingIsRequested
  <2>4. CASE UNCHANGED vars
    BY <2>4 DEF vars, coreVars, syncVars, MissingIsRequested
  <2> QED
    BY <2>1, <2>2, <2>3, <2>4, OtherSteps
<1> QED
  BY <1>1, <1>2, PTL DEF Spec

(* A request disappears with the first waiter it serves, so the timer never *)
(* repeats one that nobody waits for.                                      *)
THEOREM RequestsAreWaitedFor == Spec => []RequestsHaveWaiter
<1>1. Init => RequestsHaveWaiter
  BY DEF Init, RequestsHaveWaiter
<1>2. RequestsHaveWaiter /\ [Next]_vars => RequestsHaveWaiter'
  <2> SUFFICES ASSUME RequestsHaveWaiter, [Next]_vars PROVE RequestsHaveWaiter'
    OBVIOUS
  <2>1. CASE SyncReceive
    BY <2>1 DEF SyncReceive, RequestsHaveWaiter
  <2>2. ASSUME NEW b \in Block, WaiterDone(b) PROVE RequestsHaveWaiter'
    BY <2>2 DEF WaiterDone, RequestsHaveWaiter
  <2>3. CASE UNCHANGED <<waiting, requests, pending>> /\ store \subseteq store'
    BY <2>3 DEF RequestsHaveWaiter
  <2>4. CASE UNCHANGED vars
    BY <2>4 DEF vars, syncVars, RequestsHaveWaiter
  <2> QED
    BY <2>1, <2>2, <2>3, <2>4, OtherSteps
<1> QED
  BY <1>1, <1>2, PTL DEF Spec

(* Core hands over only blocks whose parent is a block. *)
WithParent == {b \in Block : Parent[b] \in Block}
HandedOver == inner \in Seq(WithParent) /\ handing \in WithParent \cup {NoBlock}

(* The types of the state; above all, the synchronizer never asks its peers *)
(* for genesis, which no peer could answer.                                *)
THEOREM BlockSyncTypeCorrect == Spec => []TypeOK
<1>1. Init => TypeOK /\ HandedOver
  BY DEF Init, TypeOK, HandedOver
<1>2. TypeOK /\ HandedOver /\ [Next]_vars => TypeOK' /\ HandedOver'
  <2> SUFFICES ASSUME TypeOK, HandedOver, [Next]_vars PROVE TypeOK' /\ HandedOver'
    OBVIOUS
  <2>0. /\ core \in Seq(Block) /\ inner \in Seq(WithParent) /\ handing \in WithParent \cup {NoBlock}
        /\ WithParent \subseteq Block
    BY DEF TypeOK, HandedOver, WithParent
  <2>1. ASSUME NEW b \in Block, DeliverProposal(b) \/ DeliverReply(b)
        PROVE  TypeOK' /\ HandedOver'
    <3>1. core' \in Seq(Block)
      BY <2>0, <2>1 DEF DeliverProposal, DeliverReply
    <3> QED
      BY <2>1, <3>1 DEF DeliverProposal, DeliverReply, TypeOK, HandedOver, syncVars
  <2>2. ASSUME NEW b \in Block, LoseProposal(b) \/ AnswerRequest(b) \/ LoseRequest(b)
        PROVE  TypeOK' /\ HandedOver'
    BY <2>2 DEF LoseProposal, AnswerRequest, LoseRequest, TypeOK, HandedOver, coreVars, syncVars
  <2>3. CASE CoreReceive
    <3> DEFINE b == Head(core)
    <3>1. core # <<>> /\ core' = Tail(core) /\ seen' = seen \cup {b}
          /\ UNCHANGED <<syncVars, netVars>>
          /\ \/ store' = store \cup {b} /\ UNCHANGED handing
             \/ Parent[b] # Genesis /\ handing' = b /\ UNCHANGED store
      BY <2>3 DEF CoreReceive
    <3>2. b \in Block /\ core' \in Seq(Block)
      BY <2>0, <3>1
    <3>3. Parent[b] # Genesis => b \in WithParent
      BY <3>2, BlockTreeAssumption DEF WithParent
    <3> HIDE DEF b
    <3>4. handing' \in WithParent \cup {NoBlock} /\ store' \subseteq Block /\ seen' \subseteq Block
      BY <2>0, <3>1, <3>2, <3>3 DEF TypeOK
    <3> QED
      BY <2>0, <3>1, <3>2, <3>4 DEF TypeOK, HandedOver, syncVars, netVars
  <2>4. CASE CoreHandOver
    <3>1. handing # NoBlock /\ inner' = Append(inner, handing) /\ handing' = NoBlock
      BY <2>4 DEF CoreHandOver
    <3>2. inner' \in Seq(WithParent) /\ inner' \in Seq(Block)
      BY <2>0, <3>1
    <3> QED
      BY <2>4, <3>1, <3>2 DEF CoreHandOver, TypeOK, HandedOver, netVars
  <2>5. CASE SyncReceive
    <3> DEFINE b == Head(inner)
    <3>1. inner # <<>> /\ inner' = Tail(inner)
      BY <2>5 DEF SyncReceive
    <3>2. b \in WithParent /\ inner' \in Seq(WithParent) /\ inner' \in Seq(Block)
      BY <2>0, <3>1
    <3>3. Parent[b] \in Block /\ b \in Block
      BY <3>2 DEF WithParent
    <3>4. /\ pending' \subseteq pending \cup {b} /\ waiting' \subseteq waiting \cup {b}
          /\ requests' \subseteq requests \cup {Parent[b]}
          /\ asked' \subseteq asked \cup {Parent[b]}
          /\ UNCHANGED <<looping, coreVars, proposed, replies>>
      BY <2>5 DEF SyncReceive
    <3> HIDE DEF b
    <3>5. {pending', waiting', requests', asked'} \subseteq SUBSET Block
      BY <3>3, <3>4 DEF TypeOK
    <3> QED
      BY <3>2, <3>4, <3>5 DEF TypeOK, HandedOver, coreVars
  <2>6. ASSUME NEW b \in Block, WaiterDone(b) PROVE TypeOK' /\ HandedOver'
    BY <2>6 DEF WaiterDone, TypeOK, HandedOver, coreVars, netVars
  <2>7. CASE LoopBack
    <3>1. core' \in Seq(Block)
      BY <2>0, <2>7 DEF LoopBack, TypeOK
    <3> QED
      BY <2>7, <3>1 DEF LoopBack, TypeOK, HandedOver, netVars
  <2>8. CASE Retry
    BY <2>8 DEF Retry, TypeOK, HandedOver, coreVars, syncVars
  <2>9. CASE UNCHANGED vars
    BY <2>9 DEF vars, coreVars, syncVars, netVars, TypeOK, HandedOver
  <2> QED
    BY <2>1, <2>2, <2>3, <2>4, <2>5, <2>6, <2>7, <2>8, <2>9, Zenon DEF Next
<1> QED
  BY <1>1, <1>2, PTL DEF Spec
=============================================================================
