---------------------------- MODULE PayloadSync ----------------------------
(***************************************************************************)
(* How a node gets the missing payloads of a block: the mempool's          *)
(* Synchronizer (mempool/src/synchronizer.rs) and the part of the mempool  *)
(* Core that calls it and writes payloads to the store.  A request goes    *)
(* to the block's author first and to everybody when it is repeated; the   *)
(* links lose messages.                                                    *)
(***************************************************************************)
EXTENDS Naturals, Sequences, FiniteSets

CONSTANTS
    Block, Payload,
    PayloadOf, Height,   \* the payload digests and the height of each block
    Capacity,            \* of the synchronizer's channel (10000 in the code)
    MaxHeight            \* bound on the heights

ASSUME PayloadSyncAssumption ==
    /\ MaxHeight \in Nat
    /\ PayloadOf \in [Block -> SUBSET Payload]
    /\ Height \in [Block -> 1..MaxHeight]

VARIABLES
    store,      \* payloads in the store
    accepted,   \* blocks verify_payload accepted at once
    inner,      \* the synchronizer's channel
    cleaned,    \* heights for which consensus has sent a Cleanup
    pending,    \* blocks registered with the synchronizer
    waiting,    \* waiters: [block, missing, cancelled]
    requests,   \* per payload, the round of its request; 0: none
    asked,      \* payload requests on their way to other nodes
    looped      \* blocks sent back to consensus

vars == <<store, accepted, inner, cleaned, pending, waiting, requests, asked, looped>>

Round == 1..MaxHeight

Init ==
    /\ store = {} /\ accepted = {} /\ cleaned = {}
    /\ inner = <<>> /\ pending = {} /\ waiting = {} /\ looped = {}
    /\ requests = [p \in Payload |-> 0]
    /\ asked = {}

(* Synchronizer::verify_payload, called by consensus for a proposal, and    *)
(* again when the proposal is delivered again.                             *)
verify_payload(b) ==
    /\ b \notin accepted \cup looped
    /\ LET missing == PayloadOf[b] \ store
       IN  \/ /\ missing = {}
              /\ accepted' = accepted \cup {b}
              /\ UNCHANGED inner
           \/ /\ missing # {} /\ Len(inner) < Capacity
              /\ inner' = Append(inner, [op |-> "Sync", missing |-> missing, block |-> b])
              /\ UNCHANGED accepted
    /\ UNCHANGED <<store, cleaned, pending, waiting, requests, asked, looped>>

(* Synchronizer::cleanup: consensus committed a block of height r. *)
cleanup(r) ==
    /\ r \notin cleaned /\ Len(inner) < Capacity
    /\ cleaned' = cleaned \cup {r}
    /\ inner' = Append(inner, [op |-> "Clean", round |-> r])
    /\ UNCHANGED <<store, accepted, pending, waiting, requests, asked, looped>>

(* SynchronizerMessage::Sync *)
Sync_again ==
    /\ inner # <<>> /\ Head(inner).op = "Sync"
    /\ inner' = Tail(inner)
    /\ LET b == Head(inner).block
       IN  /\ pending' = pending \cup {b}
           /\ waiting' = waiting \cup
                  {[block |-> b, missing |-> Head(inner).missing, cancelled |-> FALSE]}
    /\ UNCHANGED <<store, accepted, cleaned, looped, requests, asked>>
Sync_replace ==
    /\ inner # <<>> /\ Head(inner).op = "Sync"
    /\ inner' = Tail(inner)
    /\ LET b == Head(inner).block
           ask == {p \in Head(inner).missing : p \notin DOMAIN requests \/ requests[p] = 0}
       IN  /\ pending' = pending \cup {b}
           /\ waiting' = waiting \cup
                  {[block |-> b, missing |-> Head(inner).missing, cancelled |-> FALSE]}
           /\ requests' = [p \in ask |-> Height[b]]
           /\ asked' = asked \cup ask
    /\ UNCHANGED <<store, accepted, cleaned, looped>>
Sync ==
    /\ inner # <<>> /\ Head(inner).op = "Sync"
    /\ inner' = Tail(inner)
    /\ LET b == Head(inner).block
           missing == Head(inner).missing
           ask == {p \in missing : requests[p] = 0}
       IN  IF b \in pending
           THEN UNCHANGED <<pending, waiting, requests, asked>>
           ELSE /\ pending' = pending \cup {b}
                /\ waiting' = waiting \cup
                       {[block |-> b, missing |-> missing, cancelled |-> FALSE]}
                /\ requests' = [p \in Payload |-> IF p \in ask THEN Height[b] ELSE requests[p]]
                /\ asked' = asked \cup ask
    /\ UNCHANGED <<store, accepted, cleaned, looped>>

(* SynchronizerMessage::Clean: what belongs to rounds up to r is dropped. *)
Clean_pending ==
    /\ inner # <<>> /\ Head(inner).op = "Clean"
    /\ inner' = Tail(inner)
    /\ LET r == Head(inner).round
       IN  /\ waiting' = {[w EXCEPT !.cancelled = @ \/ (w.block \in pending /\ Height[w.block] <= r)] :
                             w \in waiting}
           /\ pending' = {b \in pending : Height[b] > r}
    /\ UNCHANGED <<store, accepted, cleaned, requests, asked, looped>>
Clean ==
    /\ inner # <<>> /\ Head(inner).op = "Clean"
    /\ inner' = Tail(inner)
    /\ LET r == Head(inner).round
       IN  /\ waiting' = {[w EXCEPT !.cancelled = @ \/ (w.block \in pending /\ Height[w.block] <= r)] :
                             w \in waiting}
           /\ pending' = {b \in pending : Height[b] > r}
           /\ requests' = [p \in Payload |-> IF requests[p] > r THEN requests[p] ELSE 0]
    /\ UNCHANGED <<store, accepted, cleaned, asked, looped>>

(* A waiter whose payloads have all arrived sends its block back, even when *)
(* it has been cancelled: select! takes either of two ready branches.      *)
LoopBack(w) ==
    /\ w.missing \subseteq store
    /\ waiting' = waiting \ {w}
    /\ pending' = pending \ {w.block}
    /\ requests' = [p \in Payload |-> IF p \in PayloadOf[w.block] THEN 0 ELSE requests[p]]
    /\ looped' = looped \cup {w.block}
    /\ UNCHANGED <<store, accepted, inner, cleaned, asked>>

Cancelled(w) ==
    /\ w.cancelled
    /\ waiting' = waiting \ {w}
    /\ UNCHANGED <<store, accepted, inner, cleaned, pending, requests, asked, looped>>

(* The timer repeats the requests older than sync_retry_delay. *)
Retry_never == FALSE /\ UNCHANGED vars
Retry ==
    /\ \E p \in Payload : requests[p] # 0
    /\ asked' = asked \cup {p \in Payload : requests[p] # 0}
    /\ UNCHANGED <<store, accepted, inner, cleaned, pending, waiting, requests, looped>>

(* handle_others_payload: an answer to a request, or the author's broadcast. *)
ReceivePayload(p) ==
    /\ store' = store \cup {p}
    /\ asked' = asked \ {p}
    /\ UNCHANGED <<accepted, inner, cleaned, pending, waiting, requests, looped>>

LoseRequest(p) ==
    /\ p \in asked
    /\ asked' = asked \ {p}
    /\ UNCHANGED <<store, accepted, inner, cleaned, pending, waiting, requests, looped>>

Next ==
    \/ \E b \in Block : verify_payload(b)
    \/ \E r \in Round : cleanup(r)
    \/ Sync \/ Clean \/ Retry
    \/ \E w \in waiting : LoopBack(w) \/ Cancelled(w)
    \/ \E p \in Payload : ReceivePayload(p) \/ LoseRequest(p)

Spec == Init /\ [][Next]_vars

(* The synchronizer's task is scheduled and its timer fires; a request that *)
(* is repeated forever is answered in the end.                             *)
Fairness ==
    /\ WF_vars(Sync \/ Clean) /\ WF_vars(Retry)
    /\ \A b \in Block : WF_vars(\E w \in waiting : w.block = b /\ (LoopBack(w) \/ Cancelled(w)))
    /\ \A p \in Payload : SF_vars(p \in asked /\ ReceivePayload(p))

FairSpec == Spec /\ Fairness
-----------------------------------------------------------------------------
TypeOK ==
    /\ store \subseteq Payload /\ asked \subseteq Payload
    /\ {accepted, pending, looped} \subseteq SUBSET Block
    /\ cleaned \subseteq Round
    /\ inner \in Seq([op : {"Sync"}, missing : SUBSET Payload, block : Block]
                        \cup [op : {"Clean"}, round : Round])
    /\ waiting \subseteq [block : Block, missing : SUBSET Payload, cancelled : BOOLEAN]
    /\ requests \in [Payload -> 0..MaxHeight]

(* A request is repeated only while a live waiter misses the payload.      *)
RequestsHaveWaiter ==
    \A p \in Payload : requests[p] # 0 =>
        \E w \in waiting : ~w.cancelled /\ p \in w.missing

(* The request for p may carry the height of an older block that wants it    *)
(* too, and has gone with that block's cleanup.                            *)
Shadowed(b, p) ==
    \E r \in cleaned : \E c \in Block :
        p \in PayloadOf[c] /\ Height[c] <= r /\ r < Height[b]

(* "After the timeout, repeat the request": a payload that a live waiter     *)
(* misses and that has not arrived is under request, so the timer repeats  *)
(* the request until it is answered.  The one exception is the cleanup of  *)
(* an older block that shares the payload.                                 *)
MissingIsRequested ==
    \A w \in waiting : ~w.cancelled =>
        \A p \in w.missing \ store : requests[p] # 0 \/ Shadowed(w.block, p)

(* A suspended block is sent back to consensus, unless a block of its        *)
(* height or above has been committed, or one below that shares a payload. *)
Resumed ==
    \A b \in Block :
        (b \in pending) ~> \/ b \in looped
                          \/ \E r \in cleaned : Height[b] <= r
                          \/ \E p \in PayloadOf[b] : Shadowed(b, p)
=============================================================================
