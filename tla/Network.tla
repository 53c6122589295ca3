------------------------------ MODULE Network ------------------------------
(***************************************************************************)
(* How a node sends messages: the Filter delays them                       *)
(* (consensus/src/filter.rs), the NetSender hands each one to a worker per *)
(* address, and the worker writes it to a TCP connection that a worker of  *)
(* the receiver's NetReceiver reads (network/src/lib.rs).  A worker dies   *)
(* with its connection, and what is in its channel with it; NetSender      *)
(* finds out at its next send to that address, and spawns another.  Each   *)
(* of the two paths of consensus and the mempool have a sender of their    *)
(* own; this is one of them.                                               *)
(***************************************************************************)
EXTENDS Integers, Sequences, Functions

CONSTANTS
    Peer,
    Message,
    Addresses,     \* Addresses[m]: peers that message m is sent to
    Capacity,      \* of the channel to NetSender (10000 in the code)
    WorkerCap,     \* of a worker's channel (10000 in the code)
    MaxFailures    \* bound on the connections to one peer that fail

NoMessage == "none"

(* Channels have room, and a message has receivers (Committee gives the       *)
(* addresses of the others, or that of one node).                          *)
ASSUME NetworkAssumption ==
    /\ NoMessage \notin Message
    /\ Addresses \in [Message -> (SUBSET Peer) \ {{}}]
    /\ Capacity \in Nat \ {0} /\ WorkerCap \in Nat \ {0} /\ MaxFailures \in Nat

VARIABLES
    pending,     \* messages in the Filter
    transmit,    \* the channel to NetSender
    current,     \* the message NetSender is sending
    left,        \* addresses it has not been handed to
    worker,      \* per peer: "none", "connecting", "up" or "dead"
    rx,          \* per peer, the channel of its worker
    conns,       \* per peer, the frames under way on each connection made
    broken,      \* peers whose last connection has failed
    failures,    \* per peer, connections that failed
    taken,       \* per peer, messages handed to its last worker (history)
    got,         \* per peer, messages delivered from the last worker (history)
    delivered    \* per peer, messages in its deliver channel

vars == <<pending, transmit, current, left, worker, rx, conns, broken, failures, taken, got,
          delivered>>
front == <<pending, transmit, current, left>>

(* The frames under way on the last connection to p. *)
Newest(p) == conns[p][Len(conns[p])]

Init ==
    /\ pending = Message /\ transmit = <<>> /\ current = NoMessage /\ left = {}
    /\ worker = [p \in Peer |-> "none"] /\ rx = [p \in Peer |-> <<>>]
    /\ conns = [p \in Peer |-> <<>>] /\ broken = {}
    /\ failures = [p \in Peer |-> 0]
    /\ taken = [p \in Peer |-> <<>>] /\ got = [p \in Peer |-> <<>>]
    /\ delivered = [p \in Peer |-> <<>>]

(* Filter::run: a message whose delay is over, in any order. *)
Transmit(m) ==
    /\ m \in pending /\ Len(transmit) < Capacity
    /\ pending' = pending \ {m} /\ transmit' = Append(transmit, m)
    /\ UNCHANGED <<current, left, worker, rx, conns, broken, failures, taken, got, delivered>>

(* NetSender::run takes the next message. *)
Take ==
    /\ current = NoMessage /\ transmit # <<>>
    /\ current' = Head(transmit) /\ transmit' = Tail(transmit)
    /\ left' = Addresses[Head(transmit)]
    /\ UNCHANGED <<pending, worker, rx, conns, broken, failures, taken, got, delivered>>

(* It hands it to the worker of one address, waiting for room, or spawns a  *)
(* worker when there is none or its channel is closed.                     *)
Send_unbounded(p) ==
    /\ p \in left
    /\ left' = left \ {p} /\ current' = IF left = {p} THEN NoMessage ELSE current
    /\ \/ /\ worker[p] \in {"connecting", "up"}
          /\ rx' = [rx EXCEPT ![p] = Append(@, current)]
          /\ taken' = [taken EXCEPT ![p] = Append(@, current)]
          /\ UNCHANGED <<worker, got>>
       \/ /\ worker[p] \in {"none", "dead"}
          /\ worker' = [worker EXCEPT ![p] = "connecting"]
          /\ rx' = [rx EXCEPT ![p] = <<current>>]
          /\ taken' = [taken EXCEPT ![p] = <<current>>] /\ got' = [got EXCEPT ![p] = <<>>]
    /\ UNCHANGED <<pending, transmit, conns, broken, failures, delivered>>
Send_try(p) ==
    /\ p \in left
    /\ left' = left \ {p} /\ current' = IF left = {p} THEN NoMessage ELSE current
    /\ \/ /\ worker[p] \in {"connecting", "up"}
          /\ rx' = IF Len(rx[p]) < WorkerCap THEN [rx EXCEPT ![p] = Append(@, current)] ELSE rx
          /\ taken' = [taken EXCEPT ![p] = Append(@, current)]
          /\ UNCHANGED <<worker, got>>
       \/ /\ worker[p] \in {"none", "dead"}
          /\ worker' = [worker EXCEPT ![p] = "connecting"]
          /\ rx' = [rx EXCEPT ![p] = <<current>>]
          /\ taken' = [taken EXCEPT ![p] = <<current>>] /\ got' = [got EXCEPT ![p] = <<>>]
    /\ UNCHANGED <<pending, transmit, conns, broken, failures, delivered>>
Send_again(p) ==
    /\ p \in left
    /\ \/ /\ worker[p] \in {"connecting", "up"} /\ Len(rx[p]) < WorkerCap
          /\ left' = left \ {p} /\ current' = IF left = {p} THEN NoMessage ELSE current
          /\ rx' = [rx EXCEPT ![p] = Append(@, current)]
          /\ taken' = [taken EXCEPT ![p] = Append(@, current)]
          /\ UNCHANGED <<worker, got>>
       \/ /\ worker[p] \in {"none", "dead"}
          /\ worker' = [worker EXCEPT ![p] = "connecting"]
          /\ rx' = [rx EXCEPT ![p] = <<current>>]
          /\ taken' = [taken EXCEPT ![p] = <<current>>] /\ got' = [got EXCEPT ![p] = <<>>]
          /\ UNCHANGED <<left, current>>
    /\ UNCHANGED <<pending, transmit, conns, broken, failures, delivered>>
Send(p) ==
    /\ p \in left
    /\ left' = left \ {p} /\ current' = IF left = {p} THEN NoMessage ELSE current
    /\ \/ /\ worker[p] \in {"connecting", "up"} /\ Len(rx[p]) < WorkerCap
          /\ rx' = [rx EXCEPT ![p] = Append(@, current)]
          /\ taken' = [taken EXCEPT ![p] = Append(@, current)]
          /\ UNCHANGED <<worker, got>>
       \/ /\ worker[p] \in {"none", "dead"}
          /\ worker' = [worker EXCEPT ![p] = "connecting"]
          /\ rx' = [rx EXCEPT ![p] = <<current>>]
          /\ taken' = [taken EXCEPT ![p] = <<current>>] /\ got' = [got EXCEPT ![p] = <<>>]
    /\ UNCHANGED <<pending, transmit, conns, broken, failures, delivered>>

(* TcpStream::connect *)
Connect(p) ==
    /\ worker[p] = "connecting"
    /\ \/ /\ worker' = [worker EXCEPT ![p] = "up"]
          /\ conns' = [conns EXCEPT ![p] = Append(@, <<>>)]
          /\ broken' = broken \ {p}
          /\ UNCHANGED <<rx, failures>>
       \/ /\ failures[p] < MaxFailures
          /\ failures' = [failures EXCEPT ![p] = @ + 1]
          /\ worker' = [worker EXCEPT ![p] = "dead"] /\ rx' = [rx EXCEPT ![p] = <<>>]
          /\ UNCHANGED <<conns, broken>>
    /\ UNCHANGED <<front, taken, got, delivered>>

(* The connection fails: frames after the first k never arrive. *)
Break(p) ==
    /\ worker[p] = "up" /\ p \notin broken /\ failures[p] < MaxFailures
    /\ failures' = [failures EXCEPT ![p] = @ + 1] /\ broken' = broken \cup {p}
    /\ \E k \in 0..Len(Newest(p)) :
          conns' = [conns EXCEPT ![p][Len(conns[p])] = SubSeq(@, 1, k)]
    /\ UNCHANGED <<front, worker, rx, taken, got, delivered>>

(* transport.send in the worker.  On a connection that failed the frame is  *)
(* lost, and the worker may learn of it, now or at a later frame.          *)
WriteFrame_retry(p) ==
    /\ worker[p] = "up" /\ rx[p] # <<>>
    /\ \/ /\ p \notin broken
          /\ conns' = [conns EXCEPT ![p][Len(conns[p])] = Append(@, Head(rx[p]))]
          /\ rx' = [rx EXCEPT ![p] = Tail(@)]
       \/ p \in broken /\ UNCHANGED <<conns, rx>>
    /\ UNCHANGED <<front, worker, broken, failures, taken, got, delivered>>
WriteFrame(p) ==
    /\ worker[p] = "up" /\ rx[p] # <<>>
    /\ \/ /\ p \notin broken
          /\ conns' = [conns EXCEPT ![p][Len(conns[p])] = Append(@, Head(rx[p]))]
          /\ rx' = [rx EXCEPT ![p] = Tail(@)]
          /\ UNCHANGED worker
       \/ /\ p \in broken
          /\ rx' = [rx EXCEPT ![p] = Tail(@)]
          /\ UNCHANGED <<conns, worker>>
       \/ /\ p \in broken
          /\ worker' = [worker EXCEPT ![p] = "dead"] /\ rx' = [rx EXCEPT ![p] = <<>>]
          /\ UNCHANGED conns
    /\ UNCHANGED <<front, broken, failures, taken, got, delivered>>

(* NetReceiver::spawn_worker: the reader of the peer's i-th connection. *)
Deliver(p, i) ==
    /\ conns[p][i] # <<>>
    /\ conns' = [conns EXCEPT ![p][i] = Tail(@)]
    /\ delivered' = [delivered EXCEPT ![p] = Append(@, Head(conns[p][i]))]
    /\ got' = IF i = Len(conns[p]) /\ worker[p] = "up"
              THEN [got EXCEPT ![p] = Append(@, Head(conns[p][i]))] ELSE got
    /\ UNCHANGED <<front, worker, rx, broken, failures, taken>>

Next ==
    \/ \E m \in Message : Transmit(m)
    \/ Take
    \/ \E p \in Peer :
          \/ Send(p) \/ Connect(p) \/ Break(p) \/ WriteFrame(p)
          \/ \E i \in DOMAIN conns[p] : Deliver(p, i)

(* Every task is scheduled, receivers read their connections, and a          *)
(* connection attempt ends.                                                *)
Spec ==
    /\ Init /\ [][Next]_vars
    /\ \A m \in Message : WF_vars(Transmit(m))
    /\ WF_vars(Take)
    /\ \A p \in Peer :
          /\ WF_vars(Send(p)) /\ WF_vars(Connect(p)) /\ WF_vars(WriteFrame(p))
          /\ WF_vars(\E i \in DOMAIN conns[p] : Deliver(p, i))
-----------------------------------------------------------------------------
TypeOK ==
    /\ pending \subseteq Message
    /\ transmit \in Seq(Message) /\ Len(transmit) <= Capacity
    /\ current \in Message \cup {NoMessage} /\ left \subseteq Peer
    /\ worker \in [Peer -> {"none", "connecting", "up", "dead"}]
    /\ rx \in [Peer -> Seq(Message)] /\ \A p \in Peer : Len(rx[p]) <= WorkerCap
    /\ conns \in [Peer -> Seq(Seq(Message))]
    /\ broken \subseteq Peer /\ failures \in [Peer -> 0..MaxFailures]
    /\ taken \in [Peer -> Seq(Message)] /\ got \in [Peer -> Seq(Message)]
    /\ delivered \in [Peer -> Seq(Message)]

(* A peer gets a message at most once, and only if it was addressed to it,   *)
(* however often its connection is made again.                             *)
AtMostOnce ==
    \A p \in Peer :
        /\ IsInjective(delivered[p])
        /\ \A i \in DOMAIN delivered[p] : p \in Addresses[delivered[p][i]]

(* As long as its connection holds, a worker loses nothing and delivers in   *)
(* the order in which it was handed the messages, also after earlier       *)
(* connections failed and whatever happens to those of other peers.        *)
IntactInOrder ==
    \A p \in Peer :
        worker[p] \in {"connecting", "up"} /\ (p \in broken => worker[p] = "connecting")
        => taken[p] = got[p] \o (IF worker[p] = "up" THEN Newest(p) ELSE <<>>) \o rx[p]

(* A message reaches every peer whose connections hold, even when those to   *)
(* other peers fail: NetSender waits for no worker forever.                *)
Arrives ==
    \A m \in Message : \A p \in Addresses[m] :
        <>(failures[p] > 0 \/ \E i \in DOMAIN delivered[p] : delivered[p][i] = m)
=============================================================================
