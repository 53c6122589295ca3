----------------------------- MODULE BlockSync -----------------------------
(***************************************************************************)
(* How a node gets the missing ancestors of a block: Core and the          *)
(* Synchronizer of consensus/src/synchronizer.rs, two tasks of one node    *)
(* that exchange blocks over two bounded channels, and peers that answer   *)
(* sync requests over links that lose messages.                            *)
(*                                                                         *)
(* Core's handlers are cut down to what concerns ancestors: a block whose  *)
(* parent is stored is stored, any other goes to the synchronizer.  Every  *)
(* block passes Core's other checks (they are in OptPath), and its peers   *)
(* have it.                                                                *)
(***************************************************************************)
EXTENDS Naturals, Sequences, FiniteSets

CONSTANTS
    Block, Parent,         \* the blocks and the parent of each
    Genesis,               \* the parent of first blocks, never missing
    CoreCapacity,          \* of core_channel (10000 in the code)
    InnerCapacity,         \* of inner_channel (10000 in the code)
    NoBlock

ASSUME BlockTreeAssumption ==
    /\ Genesis \notin Block /\ NoBlock \notin Block
    /\ Parent \in [Block -> Block \cup {Genesis}]

VARIABLES
    proposed,   \* HsPropose blocks on their way to the node
    core,       \* core_channel: blocks proposed, replied or looped back
    handing,    \* the block Core is sending on inner_channel, or NoBlock
    inner,      \* inner_channel
    pending,    \* blocks the synchronizer deals with
    waiting,    \* blocks whose waiter awaits their parent
    requests,   \* digests requested and not yet received
    looping,    \* the block the synchronizer is sending on core_channel, or NoBlock
    store,      \* the blocks in the node's store
    asked,      \* SyncRequest messages on their way to the peers
    replies,    \* SyncReply messages that wait for room in core_channel
    seen        \* blocks Core has taken from its channel at least once

coreVars == <<core, handing, store, seen>>
syncVars == <<inner, pending, waiting, requests, looping>>
netVars == <<proposed, asked, replies>>
vars == <<coreVars, syncVars, netVars>>

Init ==
    /\ proposed = Block /\ asked = {} /\ replies = {}
    /\ core = <<>> /\ handing = NoBlock /\ seen = {} /\ store = {}
    /\ inner = <<>> /\ pending = {} /\ waiting = {} /\ requests = {} /\ looping = NoBlock

-----------------------------------------------------------------------------
(* The network delivers or loses a message.  A full core_channel makes the  *)
(* receiving worker wait.                                                  *)
DeliverProposal(b) ==
    /\ b \in proposed /\ Len(core) < CoreCapacity
    /\ core' = Append(core, b)
    /\ proposed' = proposed \ {b}
    /\ UNCHANGED <<handing, store, seen, syncVars, asked, replies>>

LoseProposal(b) ==
    /\ b \in proposed
    /\ proposed' = proposed \ {b}
    /\ UNCHANGED <<coreVars, syncVars, asked, replies>>

(* handle_sync_request at a peer whose SyncReply reaches the node. *)
AnswerRequest(d) ==
    /\ d \in asked
    /\ asked' = asked \ {d}
    /\ replies' = replies \cup {d}
    /\ UNCHANGED <<coreVars, syncVars, proposed>>

(* No peer's reply reaches the node, or no peer got the request. *)
LoseRequest(d) ==
    /\ d \in asked
    /\ asked' = asked \ {d}
    /\ UNCHANGED <<coreVars, syncVars, proposed, replies>>

DeliverReply(d) ==
    /\ d \in replies /\ Len(core) < CoreCapacity
    /\ core' = Append(core, d)
    /\ replies' = replies \ {d}
    /\ UNCHANGED <<handing, store, seen, syncVars, proposed, asked>>

-----------------------------------------------------------------------------
(* Core takes a block from its channel: process_opt_block up to             *)
(* store_block; get_parent_block hands a block without parent over.        *)
CoreReceive_genesis ==
    /\ core # <<>> /\ handing = NoBlock
    /\ LET b == Head(core)
       IN  /\ core' = Tail(core)
           /\ seen' = seen \cup {b}
           /\ IF Parent[b] \in store
              THEN store' = store \cup {b} /\ UNCHANGED handing
              ELSE handing' = b /\ UNCHANGED store
    /\ UNCHANGED <<syncVars, netVars>>
CoreReceive ==
    /\ core # <<>> /\ handing = NoBlock
    /\ LET b == Head(core)
       IN  /\ core' = Tail(core)
           /\ seen' = seen \cup {b}
           /\ IF Parent[b] \in store \cup {Genesis}
              THEN store' = store \cup {b} /\ UNCHANGED handing
              ELSE handing' = b /\ UNCHANGED store
    /\ UNCHANGED <<syncVars, netVars>>

(* inner_channel.send(block).await completes. *)
CoreHandOver ==
    /\ handing # NoBlock /\ Len(inner) < InnerCapacity
    /\ inner' = Append(inner, handing)
    /\ handing' = NoBlock
    /\ UNCHANGED <<core, store, seen, pending, waiting, requests, looping, netVars>>

(* The synchronizer takes a block to wait for, once. *)
SyncReceive_silent ==
    /\ inner # <<>> /\ looping = NoBlock
    /\ inner' = Tail(inner)
    /\ pending' = pending \cup {Head(inner)}
    /\ waiting' = waiting \cup {Head(inner)}
    /\ UNCHANGED <<requests, asked, looping, coreVars, proposed, replies>>
SyncReceive ==
    /\ inner # <<>> /\ looping = NoBlock
    /\ inner' = Tail(inner)
    /\ LET b == Head(inner)
           new == b \notin pending
           ask == IF new /\ Parent[b] \notin requests THEN {Parent[b]} ELSE {}
       IN  /\ pending' = pending \cup {b}
           /\ waiting' = IF new THEN waiting \cup {b} ELSE waiting
           /\ requests' = requests \cup ask
           /\ asked' = asked \cup ask
    /\ UNCHANGED <<looping, coreVars, proposed, replies>>

(* A waiter returns: the parent of its block is in the store. *)
WaiterDone_keep(b) ==
    /\ b \in waiting /\ Parent[b] \in store /\ looping = NoBlock
    /\ waiting' = waiting \ {b}
    /\ pending' = pending \ {b}
    /\ looping' = b
    /\ UNCHANGED <<inner, requests, coreVars, netVars>>
WaiterDone(b) ==
    /\ b \in waiting /\ Parent[b] \in store /\ looping = NoBlock
    /\ waiting' = waiting \ {b}
    /\ pending' = pending \ {b}
    /\ requests' = requests \ {Parent[b]}
    /\ looping' = b
    /\ UNCHANGED <<inner, coreVars, netVars>>

(* core_channel.send(HsLoopBack(block)).await completes. *)
LoopBack ==
    /\ looping # NoBlock /\ Len(core) < CoreCapacity
    /\ core' = Append(core, looping)
    /\ looping' = NoBlock
    /\ UNCHANGED <<handing, store, seen, inner, pending, waiting, requests, netVars>>

(* The timer of the synchronizer: requests older than sync_retry_delay are  *)
(* broadcast again.                                                        *)
Retry_never == FALSE /\ UNCHANGED vars
Retry ==
    /\ requests # {} /\ looping = NoBlock
    /\ asked' = asked \cup requests
    /\ UNCHANGED <<coreVars, syncVars, proposed, replies>>

Next ==
    \/ \E b \in Block : DeliverProposal(b) \/ LoseProposal(b)
    \/ \E d \in Block :
          AnswerRequest(d) \/ LoseRequest(d) \/ DeliverReply(d)
    \/ CoreReceive \/ CoreHandOver
    \/ SyncReceive \/ \E b \in Block : WaiterDone(b)
    \/ LoopBack \/ Retry

Spec == Init /\ [][Next]_vars

(* Both tasks and every waiter are scheduled; of what is sent again and     *)
(* again, something arrives.                                               *)
Fairness ==
    /\ WF_vars(CoreReceive) /\ WF_vars(CoreHandOver)
    /\ SF_vars(SyncReceive) /\ WF_vars(LoopBack) /\ WF_vars(Retry)
    /\ \A b \in Block : SF_vars(WaiterDone(b))
    /\ \A d \in Block : SF_vars(AnswerRequest(d)) /\ SF_vars(DeliverReply(d))

FairSpec == Spec /\ Fairness
-----------------------------------------------------------------------------
TypeOK ==
    /\ {proposed, asked, replies, pending, waiting, requests, store, seen} \subseteq SUBSET Block
    /\ core \in Seq(Block) /\ inner \in Seq(Block)
    /\ handing \in Block \cup {NoBlock} /\ looping \in Block \cup {NoBlock}

(* A block whose parent is still missing has the parent under request, so   *)
(* the timer keeps asking for it, however the waiters of its siblings end. *)
MissingIsRequested == \A b \in waiting : Parent[b] \in store \cup requests

(* Every request has a waiter that will clear it: the timer does not ask    *)
(* forever for a block nobody waits for.                                   *)
RequestsHaveWaiter == \A d \in requests : \E b \in waiting : Parent[b] = d

(* "finally make us resume processing this block": a block Core has seen is *)
(* stored in the end, its missing ancestors first.                         *)
Resumed == \A b \in Block : b \in seen ~> b \in store
=============================================================================
