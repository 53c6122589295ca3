------------------------------ MODULE Mempool ------------------------------
(***************************************************************************)
(* The mempool of one node: the Runner that batches client transactions    *)
(* into payloads (mempool/src/payload.rs) and the Core that stores and     *)
(* queues payloads and serves consensus (mempool/src/core.rs).  They are   *)
(* two tasks: the Runner sends its payloads on core_channel, which the     *)
(* network fills too, and Core asks the Runner for a payload when it has   *)
(* none queued, waiting for the answer.                                    *)
(*                                                                         *)
(* A payload is its set of transactions and stands for its digest.         *)
(***************************************************************************)
EXTENDS Integers, Sequences, FiniteSets, FiniteSetsExt

CONSTANTS
    Tx, Size,          \* client transactions and their sizes
    max_size,          \* Parameters.max_payload_size of the mempool
    queue_capacity,    \* Parameters.queue_capacity
    Take,              \* digests that fit in a block
    PeerPayload,       \* payloads of other nodes
    Copies,            \* bound on the deliveries of one of them
    Capacity,          \* of core_channel (10000 in the code)
    MaxGets            \* bound on the calls of consensus

(* Nothing is assumed of the sizes: a client may send an empty transaction, *)
(* or one larger than a payload.  A digest covers the author, so no payload *)
(* of another node is one of this node's.                                  *)
ASSUME MempoolAssumption ==
    /\ Size \in [Tx -> Nat] /\ max_size \in Nat
    /\ PeerPayload \cap SUBSET Tx = {}
    /\ Copies \in Nat /\ MaxGets \in Nat

OPT == "OPT"
PES == "PES"
Tag == {OPT, PES}
NoTag == "none"

VARIABLES
    submitted,     \* transactions clients have sent
    transactions,  \* the Runner's buffer
    size,          \* Runner.size, the bytes in the buffer
    sending,       \* the payload the Runner is sending on core_channel, if any
    core_channel,  \* messages [own, payload]
    arrivals,      \* per payload of another node, how often it was delivered
    store,         \* payloads in the store
    queue,         \* opt_queue and pes_queue
    getting,       \* the tag Core asks the Runner a payload for, or NoTag
    handed,        \* per tag, payloads given to consensus to propose
    committed,     \* payloads consensus has cleaned up
    dropped,       \* own payloads refused because the mempool was full
    gets           \* number of calls of consensus

vars == <<submitted, transactions, size, sending, core_channel, arrivals, store, queue,
          getting, handed, committed, dropped, gets>>

SizeOf(s) == MapThenSumSet(LAMBDA t : Size[t], s)

Init ==
    /\ submitted = {} /\ transactions = {} /\ size = 0 /\ sending = {}
    /\ core_channel = <<>> /\ arrivals = [p \in PeerPayload |-> 0]
    /\ store = {} /\ queue = [tag \in Tag |-> {}] /\ getting = NoTag
    /\ handed = [tag \in Tag |-> {}] /\ committed = {} /\ dropped = {} /\ gets = 0

coreVars == <<store, queue, getting, handed, committed, dropped, gets>>

(* Runner::run on a client's transaction: Runner::add makes a payload when  *)
(* the transaction does not fit in the buffer any more.                    *)
Add_overfull(t) ==
    /\ sending = {} /\ t \notin submitted
    /\ submitted' = submitted \cup {t}
    /\ IF size > max_size
       THEN sending' = {transactions} /\ transactions' = {t} /\ size' = Size[t]
       ELSE transactions' = transactions \cup {t} /\ size' = size + Size[t] /\ UNCHANGED sending
    /\ UNCHANGED <<core_channel, arrivals, coreVars>>
Add_unawaited(t) ==
    /\ t \notin submitted
    /\ submitted' = submitted \cup {t}
    /\ IF size + Size[t] > max_size
       THEN sending' = sending \cup {transactions} /\ transactions' = {t} /\ size' = Size[t]
       ELSE transactions' = transactions \cup {t} /\ size' = size + Size[t] /\ UNCHANGED sending
    /\ UNCHANGED <<core_channel, arrivals, coreVars>>
Add_replace(t) ==
    /\ sending = {} /\ t \notin submitted
    /\ submitted' = submitted \cup {t}
    /\ IF size + Size[t] > max_size
       THEN sending' = {transactions} /\ transactions' = {} /\ size' = 0
       ELSE transactions' = transactions \cup {t} /\ size' = size + Size[t] /\ UNCHANGED sending
    /\ UNCHANGED <<core_channel, arrivals, coreVars>>
Add(t) ==
    /\ sending = {} /\ t \notin submitted
    /\ submitted' = submitted \cup {t}
    /\ IF size + Size[t] > max_size
       THEN sending' = {transactions} /\ transactions' = {t} /\ size' = Size[t]
       ELSE transactions' = transactions \cup {t} /\ size' = size + Size[t] /\ UNCHANGED sending
    /\ UNCHANGED <<core_channel, arrivals, coreVars>>

(* core_channel.send(OwnPayload(payload)).await completes. *)
RunnerSend ==
    /\ Len(core_channel) < Capacity
    /\ \E p \in sending :
          core_channel' = Append(core_channel, [own |-> TRUE, payload |-> p])
    /\ sending' = {}
    /\ UNCHANGED <<submitted, transactions, size, arrivals, coreVars>>

(* Another node's payload, broadcast or sent in answer to a request. *)
PeerSends(p) ==
    /\ arrivals[p] < Copies /\ Len(core_channel) < Capacity
    /\ arrivals' = [arrivals EXCEPT ![p] = @ + 1]
    /\ core_channel' = Append(core_channel, [own |-> FALSE, payload |-> p])
    /\ UNCHANGED <<submitted, transactions, size, sending, coreVars>>

(* The checks "if our mempool is full": HashSet::capacity is at least what  *)
(* with_capacity asked for, and grows when the set does.                   *)
MayBeFull ==
    \/ Cardinality(queue[OPT]) >= queue_capacity
    \/ Cardinality(queue[PES]) >= (queue_capacity * 3) \div 2

(* handle_own_payload, handle_others_payload *)
handle_own_payload(p) ==
    \/ /\ Cardinality(queue[OPT]) < queue_capacity
       /\ store' = store \cup {p}
       /\ queue' = [tag \in Tag |-> queue[tag] \cup {p}]
       /\ UNCHANGED dropped
    \/ /\ MayBeFull
       /\ dropped' = dropped \cup {p}
       /\ UNCHANGED <<store, queue>>

handle_others_payload(p) ==
    /\ store' = store \cup {p}
    /\ queue' = [tag \in Tag |-> queue[tag] \cup {p}]
    /\ UNCHANGED dropped

CoreReceive ==
    /\ getting = NoTag /\ core_channel # <<>>
    /\ core_channel' = Tail(core_channel)
    /\ LET m == Head(core_channel)
       IN  \/ m.own /\ handle_own_payload(m.payload)
           \/ ~m.own /\ handle_others_payload(m.payload)
    /\ UNCHANGED <<submitted, transactions, size, sending, arrivals, getting, handed,
                   committed, gets>>

(* Core::get_payload: digests of the queue leave it; with an empty queue    *)
(* Core asks the Runner and waits.                                         *)
get_payload_kept(tag) ==
    /\ getting = NoTag /\ gets < MaxGets /\ gets' = gets + 1
    /\ \/ queue[tag] = {} /\ getting' = tag /\ UNCHANGED handed
       \/ /\ \E p \in queue[tag] : handed' = [handed EXCEPT ![tag] = @ \cup {p}]
          /\ UNCHANGED getting
    /\ UNCHANGED <<submitted, transactions, size, sending, core_channel, arrivals, store, queue,
                   committed, dropped>>
get_payload(tag) ==
    /\ getting = NoTag /\ gets < MaxGets /\ gets' = gets + 1
    /\ \/ /\ queue[tag] = {}
          /\ getting' = tag
          /\ UNCHANGED <<queue, handed>>
       \/ /\ queue[tag] # {}
          /\ \E digests \in SUBSET queue[tag] :
                /\ Cardinality(digests) =
                       (IF Take < Cardinality(queue[tag]) THEN Take ELSE Cardinality(queue[tag]))
                /\ queue' = [queue EXCEPT ![tag] = @ \ digests]
                /\ handed' = [handed EXCEPT ![tag] = @ \cup digests]
          /\ UNCHANGED getting
    /\ UNCHANGED <<submitted, transactions, size, sending, core_channel, arrivals, store,
                   committed, dropped>>

(* The Runner answers with what it has buffered; Core stores and hands out  *)
(* the payload, or nothing when it is empty or the mempool is full.        *)
MakePayload_early ==
    /\ getting # NoTag /\ sending = {}
    /\ transactions' = {} /\ size' = 0
    /\ IF SizeOf(transactions) = 0
       THEN UNCHANGED <<store, handed, dropped>>
       ELSE /\ handed' = [handed EXCEPT ![getting] = @ \cup {transactions}]
            /\ \/ store' = store \cup {transactions} /\ UNCHANGED dropped
               \/ MayBeFull /\ dropped' = dropped \cup {transactions} /\ UNCHANGED store
    /\ getting' = NoTag
    /\ UNCHANGED <<submitted, sending, core_channel, arrivals, queue, committed, gets>>
MakePayload_some ==
    /\ getting # NoTag /\ sending = {} /\ SizeOf(transactions) > 0
    /\ transactions' = {} /\ size' = 0
    /\ store' = store \cup {transactions}
    /\ handed' = [handed EXCEPT ![getting] = @ \cup {transactions}]
    /\ getting' = NoTag
    /\ UNCHANGED <<submitted, sending, core_channel, arrivals, queue, committed, dropped, gets>>
MakePayload ==
    /\ getting # NoTag /\ sending = {}
    /\ transactions' = {} /\ size' = 0
    /\ \/ /\ SizeOf(transactions) > 0
          /\ store' = store \cup {transactions}
          /\ handed' = [handed EXCEPT ![getting] = @ \cup {transactions}]
          /\ UNCHANGED dropped
       \/ /\ SizeOf(transactions) > 0 /\ MayBeFull
          /\ dropped' = dropped \cup {transactions}
          /\ UNCHANGED <<store, handed>>
       \/ /\ SizeOf(transactions) = 0
          /\ UNCHANGED <<store, handed, dropped>>
    /\ getting' = NoTag
    /\ UNCHANGED <<submitted, sending, core_channel, arrivals, queue, committed, gets>>

(* Core::cleanup: consensus committed a block with payload p. *)
cleanup_opt(p) ==
    /\ getting = NoTag
    /\ p \in store \ committed
    /\ committed' = committed \cup {p}
    /\ queue' = [queue EXCEPT ![OPT] = @ \ {p}]
    /\ UNCHANGED <<submitted, transactions, size, sending, core_channel, arrivals, store,
                   getting, handed, dropped, gets>>
cleanup(p) ==
    /\ getting = NoTag
    /\ p \in store \ committed
    /\ committed' = committed \cup {p}
    /\ queue' = [tag \in Tag |-> queue[tag] \ {p}]
    /\ UNCHANGED <<submitted, transactions, size, sending, core_channel, arrivals, store,
                   getting, handed, dropped, gets>>

Next ==
    \/ \E t \in Tx : Add(t)
    \/ RunnerSend \/ CoreReceive \/ MakePayload
    \/ \E p \in PeerPayload : PeerSends(p)
    \/ \E tag \in Tag : get_payload(tag)
    \/ \E p \in store : cleanup(p)

Spec == Init /\ [][Next]_vars

(* Both tasks are scheduled; the channel serves its senders in turn. *)
FairSpec ==
    /\ Spec
    /\ SF_vars(RunnerSend) /\ WF_vars(CoreReceive) /\ WF_vars(MakePayload)
-----------------------------------------------------------------------------
(* Payloads of this node, and the messages of core_channel. *)
OwnPayload == SUBSET Tx
MempoolMessage ==
    [own : {TRUE}, payload : OwnPayload] \cup [own : {FALSE}, payload : PeerPayload]

TypeOK ==
    /\ submitted \subseteq Tx /\ transactions \subseteq Tx /\ size \in Nat
    /\ sending \subseteq OwnPayload /\ Cardinality(sending) <= 1
    /\ core_channel \in Seq(MempoolMessage)
    /\ arrivals \in [PeerPayload -> 0..Copies]
    /\ queue \in [Tag -> SUBSET (OwnPayload \cup PeerPayload)]
    /\ handed \in [Tag -> SUBSET (OwnPayload \cup PeerPayload)]
    /\ {store, committed, dropped} \subseteq SUBSET (OwnPayload \cup PeerPayload)
    /\ getting \in Tag \cup {NoTag} /\ gets \in 0..MaxGets

(* The payloads in core_channel. *)
Channelled == {core_channel[i].payload : i \in DOMAIN core_channel}

(* No transaction is lost on its way through the two tasks: each is         *)
(* buffered, in a payload under way or stored, or in a payload that was    *)
(* refused because the mempool was full.  Empty ones may be: PayloadMaker  *)
(* makes nothing of a buffer of size 0.                                    *)
NoTxLost ==
    \A t \in submitted :
        \/ Size[t] = 0 \/ t \in transactions
        \/ \E p \in Channelled \cup sending \cup store \cup dropped : t \in p

(* What consensus proposes is in the store, so that this node can answer    *)
(* the peers that ask for it.                                              *)
HandedAreStored == \A tag \in Tag : handed[tag] \subseteq store

(* Peers accept the payloads of this node: none exceeds max_size, unless it *)
(* is a single transaction that does.                                      *)
Fits(p) == SizeOf(p) <= max_size \/ \E t \in Tx : p = {t} /\ Size[t] > max_size
OwnPayloadsFit == \A p \in store : p \subseteq Tx => Fits(p)

(* Payloads that Core may receive twice: those another node sent again, and *)
(* the empty one, which the Runner makes whenever a transaction larger     *)
(* than max_size finds its buffer empty.                                   *)
SentAgain(p) == p = {} \/ (p \in PeerPayload /\ arrivals[p] > 1)

(* A queued payload waits to be proposed for the first time: of what         *)
(* consensus has committed, only a payload sent again is back in a queue.  *)
CommittedNotQueued == \A tag \in Tag : \A p \in queue[tag] \cap committed : SentAgain(p)

(* get_payload removes what it hands out so that no digest is proposed       *)
(* twice for the same path, unless it was sent again.                      *)
HandedNotQueued == \A tag \in Tag : \A p \in queue[tag] \cap handed[tag] : SentAgain(p)

(* The Runner waits for room in core_channel and Core for the Runner. *)
Stuck == getting # NoTag /\ sending # {} /\ Len(core_channel) = Capacity

(* Consensus gets an answer when it asks for a payload, unless Core and the  *)
(* Runner wait for each other: a full core_channel is the only obstacle.   *)
AnsweredOrStuck == getting # NoTag ~> (getting = NoTag \/ Stuck)
=============================================================================
