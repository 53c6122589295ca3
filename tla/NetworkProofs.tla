--------------------------- MODULE NetworkProofs ---------------------------
(***************************************************************************)
(* What Network keeps, for any peers, messages, addresses and capacities.  *)
(***************************************************************************)
EXTENDS Network, SequenceTheorems, TLAPS

(* A message is in a channel or on a connection. *)
On(s, m) == \E i \in DOMAIN s : s[i] = m

(* Queues are read at the head and written at the end; a connection that     *)
(* fails keeps a prefix.                                                   *)
LEMMA OnEmpty ==
    /\ IsInjective(<<>>) /\ \A m : ~On(<<>>, m)
BY DEF IsInjective, On

(* A worker's channel starts with one message. *)
LEMMA OnSingle ==
    ASSUME NEW x
    PROVE  IsInjective(<<x>>) /\ \A m : On(<<x>>, m) <=> m = x
BY DEF IsInjective, On

(* Sending puts a message at the end. *)
LEMMA OnAppend ==
    ASSUME NEW s \in Seq(Message), NEW x \in Message
    PROVE  /\ \A m : On(Append(s, x), m) <=> On(s, m) \/ m = x
           /\ IsInjective(s) /\ ~On(s, x) => IsInjective(Append(s, x))
<1>1. /\ Append(s, x) \in Seq(Message) /\ Len(Append(s, x)) = Len(s) + 1
      /\ \A i \in 1..Len(s) : Append(s, x)[i] = s[i]
      /\ Append(s, x)[Len(s) + 1] = x
  BY AppendProperties
<1>2. /\ Len(s) \in Nat /\ DOMAIN s = 1..Len(s)
      /\ DOMAIN Append(s, x) = 1..(Len(s) + 1)
  BY <1>1, LenProperties
<1> DEFINE t == Append(s, x)
           n == Len(s)
<1> HIDE DEF t, n
<1>3. /\ n \in Nat /\ DOMAIN s = 1..n /\ DOMAIN t = 1..(n + 1)
      /\ \A i \in 1..n : t[i] = s[i]
      /\ t[n + 1] = x
  BY <1>1, <1>2 DEF t, n
<1>4. \A i : i \in DOMAIN t <=> i \in DOMAIN s \/ i = n + 1
  BY <1>3
<1>5. \A m : On(t, m) <=> On(s, m) \/ m = x
  BY <1>3, <1>4, Zenon DEF On
<1>6. ASSUME IsInjective(s), ~On(s, x)
      PROVE  IsInjective(t)
  <2> SUFFICES ASSUME NEW i \in DOMAIN t, NEW j \in DOMAIN t, t[i] = t[j]
               PROVE  i = j
    BY DEF IsInjective
  <2>1. \A k \in DOMAIN s : t[k] = s[k] /\ s[k] # x
    BY <1>3, <1>6, Zenon DEF On
  <2>2. CASE i \in DOMAIN s /\ j \in DOMAIN s
    BY <1>6, <2>1, <2>2 DEF IsInjective
  <2> QED
    BY <1>3, <1>4, <2>1, <2>2, Zenon
<1> QED
  BY <1>5, <1>6 DEF t

(* Taking removes the first message, for good if no other equals it. *)
LEMMA OnTail ==
    ASSUME NEW s \in Seq(Message), s # <<>>
    PROVE  /\ On(s, Head(s))
           /\ \A m : On(Tail(s), m) => On(s, m)
           /\ IsInjective(s) => IsInjective(Tail(s)) /\ ~On(Tail(s), Head(s))
<1> DEFINE t == Tail(s)
           n == Len(s)
<1>1. /\ n \in Nat \ {0} /\ DOMAIN s = 1..n /\ Head(s) = s[1]
      /\ DOMAIN t = 1..(n - 1) /\ \A i \in 1..(n - 1) : t[i] = s[i + 1]
  <2>1. /\ Tail(s) \in Seq(Message) /\ Len(Tail(s)) = Len(s) - 1
        /\ \A i \in 1..Len(Tail(s)) : Tail(s)[i] = s[i + 1]
    BY HeadTailProperties
  <2>2. Len(s) \in Nat \ {0} /\ DOMAIN s = 1..Len(s) /\ DOMAIN Tail(s) = 1..Len(Tail(s))
    BY <2>1, EmptySeq, LenProperties
  <2> QED
    BY <2>1, <2>2
<1> HIDE DEF t, n
<1>2. 1 \in DOMAIN s /\ \A i \in DOMAIN t : i + 1 \in DOMAIN s /\ t[i] = s[i + 1] /\ i + 1 # 1
  BY <1>1
<1>3. On(s, Head(s)) /\ \A m : On(t, m) => On(s, m)
  BY <1>1, <1>2, Zenon DEF On
<1>4. ASSUME IsInjective(s)
      PROVE  IsInjective(t) /\ ~On(t, Head(s))
  <2>1. ~On(t, Head(s))
    BY <1>1, <1>2, <1>4, Zenon DEF On, IsInjective
  <2>2. ASSUME NEW i \in DOMAIN t, NEW j \in DOMAIN t, t[i] = t[j]
        PROVE  i = j
    <3>1. i + 1 = j + 1
      BY <1>2, <1>4, <2>2, Zenon DEF IsInjective
    <3> QED
      BY <1>1, <3>1
  <2> QED
    BY <2>1, <2>2, Zenon DEF IsInjective
<1> QED
  BY <1>3, <1>4 DEF t

(* A prefix is what a failed connection still delivers. *)
LEMMA OnPrefix ==
    ASSUME NEW s \in Seq(Message), NEW k \in 0..Len(s)
    PROVE  /\ SubSeq(s, 1, k) \in Seq(Message)
           /\ \A m : On(SubSeq(s, 1, k), m) => On(s, m)
           /\ IsInjective(s) => IsInjective(SubSeq(s, 1, k))
<1> DEFINE t == SubSeq(s, 1, k)
<1>1. Len(s) \in Nat /\ DOMAIN s = 1..Len(s) /\ \A i \in 1..Len(s) : s[i] \in Message
  BY LenProperties, ElementOfSeq
<1>2. k \in Nat /\ k <= Len(s) /\ \A i \in 1..k : i \in DOMAIN s /\ s[i] \in Message
  BY <1>1
<1>3. /\ t \in Seq(Message) /\ Len(t) = IF 1 <= k THEN k - 1 + 1 ELSE 0
      /\ \A i \in 1..(k - 1 + 1) : t[i] = s[1 + i - 1]
  BY <1>2, SubSeqProperties
<1> HIDE DEF t
<1>4. DOMAIN t = 1..k /\ \A i \in 1..k : t[i] = s[i]
  <2>1. Len(t) = k /\ \A i \in 1..k : t[i] = s[i]
    BY <1>2, <1>3
  <2> QED
    BY <1>3, <2>1, LenProperties
<1>5. \A m : On(t, m) => On(s, m)
  BY <1>2, <1>4, Zenon DEF On
<1>6. IsInjective(s) => IsInjective(t)
  BY <1>2, <1>4, Zenon DEF IsInjective
<1> QED
  BY <1>3, <1>5, <1>6 DEF t
-----------------------------------------------------------------------------
(* A sequence is its head and its tail. *)
LEMMA HeadAndTail ==
    ASSUME NEW S, NEW s \in Seq(S), s # <<>>
    PROVE  s = <<Head(s)>> \o Tail(s)
<1>1. Len(s) \in Nat \ {0}
  BY EmptySeq
<1>2. SubSeq(s, 1, Len(s)) = <<s[1]>> \o SubSeq(s, 2, Len(s))
  <2>1. 1 \in 1..Len(s) /\ Len(s) \in 1..Len(s) /\ 1 + 1 = 2
    BY <1>1
  <2> QED
    BY <2>1, SubSeqRecursiveFirst
<1>3. SubSeq(s, 1, Len(s)) = s /\ SubSeq(s, 2, Len(s)) = Tail(s) /\ Head(s) = s[1]
  BY SubSeqFull, TailIsSubSeq
<1> QED
  BY <1>2, <1>3

(* The first message of one queue goes to the end of the queue before it. *)
LEMMA MoveOn ==
    ASSUME NEW s \in Seq(Message), NEW t \in Seq(Message), t # <<>>
    PROVE  Append(s, Head(t)) \o Tail(t) = s \o t
<1>1. Head(t) \in Message /\ Tail(t) \in Seq(Message) /\ <<Head(t)>> \in Seq(Message)
  BY HeadTailProperties
<1>2. Append(s, Head(t)) = s \o <<Head(t)>>
  BY <1>1, AppendIsConcat
<1>3. (s \o <<Head(t)>>) \o Tail(t) = s \o (<<Head(t)>> \o Tail(t))
  BY <1>1, ConcatAssociative
<1> QED
  BY <1>2, <1>3, HeadAndTail

(* What is appended to the last of two queues is appended to both. *)
LEMMA AppendLast ==
    ASSUME NEW s \in Seq(Message), NEW t \in Seq(Message), NEW x \in Message
    PROVE  Append(s \o t, x) = s \o Append(t, x)
<1>1. s \o t \in Seq(Message) /\ <<x>> \in Seq(Message)
  BY ConcatProperties
<1>2. Append(s \o t, x) = (s \o t) \o <<x>> /\ Append(t, x) = t \o <<x>>
  BY <1>1, AppendIsConcat
<1> QED
  BY <1>1, <1>2, ConcatAssociative
-----------------------------------------------------------------------------
(* A worker that is up has made a connection. *)
UpHasConnection == \A p \in Peer : worker[p] = "up" => conns[p] # <<>>

(* The last connection of a peer, while its worker is up. *)
LEMMA LastConnection ==
    ASSUME TypeOK, UpHasConnection, NEW p \in Peer, worker[p] = "up"
    PROVE  /\ Len(conns[p]) \in Nat \ {0} /\ Len(conns[p]) \in DOMAIN conns[p]
           /\ Newest(p) = conns[p][Len(conns[p])]
           /\ Newest(p) \in Seq(Message)
<1>1. conns[p] \in Seq(Seq(Message)) /\ conns[p] # <<>>
  BY DEF TypeOK, UpHasConnection
<1>2. Len(conns[p]) \in Nat \ {0} /\ DOMAIN conns[p] = 1..Len(conns[p])
  BY <1>1, EmptySeq, LenProperties
<1> QED
  BY <1>1, <1>2, ElementOfSeq DEF Newest

(* Replacing the frames under way on one connection. *)
LEMMA OneConnection ==
    ASSUME TypeOK, NEW p \in Peer, NEW i \in DOMAIN conns[p], NEW s \in Seq(Message),
           conns' = [conns EXCEPT ![p] = [conns[p] EXCEPT ![i] = s]]
    PROVE  /\ conns' \in [Peer -> Seq(Seq(Message))]
           /\ \A q \in Peer : q # p => conns'[q] = conns[q]
           /\ DOMAIN conns'[p] = DOMAIN conns[p] /\ Len(conns'[p]) = Len(conns[p])
           /\ conns'[p][i] = s
           /\ \A j \in DOMAIN conns[p] : j # i => conns'[p][j] = conns[p][j]
           /\ conns'[p] # <<>>
<1>1. conns \in [Peer -> Seq(Seq(Message))] /\ conns[p] \in Seq(Seq(Message))
  BY DEF TypeOK
<1>2. DOMAIN conns[p] = 1..Len(conns[p]) /\ Len(conns[p]) \in Nat
  BY <1>1, LenProperties
<1> DEFINE t == [conns[p] EXCEPT ![i] = s]
<1>3. /\ t \in Seq(Seq(Message)) /\ Len(t) = Len(conns[p])
      /\ \A j \in 1..Len(conns[p]) : t[j] = IF j = i THEN s ELSE conns[p][j]
  BY <1>1, <1>2, ExceptSeq
<1> HIDE DEF t
<1>4. conns' = [conns EXCEPT ![p] = t]
  BY DEF t
<1>5. conns' \in [Peer -> Seq(Seq(Message))] /\ conns'[p] = t
  BY <1>1, <1>3, <1>4
<1>6. \A q \in Peer : q # p => conns'[q] = conns[q]
  BY <1>1, <1>4
<1>7. DOMAIN t = 1..Len(t)
  BY <1>3, LenProperties
<1>8. t # <<>>
  BY <1>2, <1>3, EmptySeq
<1> QED
  BY <1>2, <1>3, <1>5, <1>6, <1>7, <1>8
-----------------------------------------------------------------------------
(* The part of the invariant that says a connection which holds is intact. *)
IntactInv == TypeOK /\ UpHasConnection /\ IntactInOrder

(* The order holds for a peer whose worker, connection and histories stay. *)
OrderKept(q) ==
    /\ worker'[q] = worker[q] /\ conns'[q] = conns[q] /\ rx'[q] = rx[q]
    /\ taken'[q] = taken[q] /\ got'[q] = got[q]
    /\ (q \in broken' <=> q \in broken)

(* The order that IntactInOrder asks for at one peer. *)
InOrder(p) ==
    worker[p] \in {"connecting", "up"} /\ (p \in broken => worker[p] = "connecting")
    => taken[p] = got[p] \o (IF worker[p] = "up" THEN Newest(p) ELSE <<>>) \o rx[p]

(* It is enough to look at the one peer that a step is about. *)
LEMMA OnePeer ==
    ASSUME IntactInOrder, NEW p, InOrder(p)', \A q \in Peer : q # p => OrderKept(q)
    PROVE  IntactInOrder'
<1>1. \A q \in Peer : InOrder(q)
  BY Zenon DEF IntactInOrder, InOrder
<1>2. \A q \in Peer : q # p => InOrder(q)'
  BY <1>1 DEF InOrder, OrderKept, Newest
<1>3. \A q \in Peer : InOrder(q)'
  BY <1>2
<1> QED
  BY <1>3, Zenon DEF IntactInOrder, InOrder

(* Filter::run *)
LEMMA TransmitIntact ==
    ASSUME IntactInv, NEW m \in Message, Transmit(m)
    PROVE  IntactInv'
<1>1. /\ Len(transmit) < Capacity /\ transmit' = Append(transmit, m) /\ pending' \subseteq pending
      /\ UNCHANGED <<current, left, worker, rx, conns, broken, failures, taken, got, delivered>>
  BY DEF Transmit
<1>2. transmit' \in Seq(Message) /\ Len(transmit') <= Capacity
  <2>1. transmit \in Seq(Message)
    BY DEF IntactInv, TypeOK
  <2>2. transmit' \in Seq(Message) /\ Len(transmit') = Len(transmit) + 1 /\ Len(transmit) \in Nat
    BY <1>1, <2>1, AppendProperties, LenProperties
  <2> QED
    BY <1>1, <2>2, NetworkAssumption
<1>3. TypeOK'
  BY <1>1, <1>2 DEF IntactInv, TypeOK
<1> QED
  BY <1>1, <1>3 DEF IntactInv, UpHasConnection, IntactInOrder, Newest

(* NetSender::run takes a message. *)
LEMMA TakeIntact ==
    ASSUME IntactInv, Take
    PROVE  IntactInv'
<1>1. /\ transmit # <<>> /\ current' = Head(transmit) /\ transmit' = Tail(transmit)
      /\ left' = Addresses[Head(transmit)]
      /\ UNCHANGED <<pending, worker, rx, conns, broken, failures, taken, got, delivered>>
  BY DEF Take
<1>2. /\ transmit' \in Seq(Message) /\ Len(transmit') <= Capacity
      /\ current' \in Message /\ left' \subseteq Peer
  <2>1. transmit \in Seq(Message) /\ Len(transmit) <= Capacity
    BY DEF IntactInv, TypeOK
  <2>2. /\ Head(transmit) \in Message /\ Tail(transmit) \in Seq(Message)
        /\ Len(Tail(transmit)) = Len(transmit) - 1 /\ Len(transmit) \in Nat
    BY <1>1, <2>1, HeadTailProperties, LenProperties
  <2> QED
    BY <1>1, <2>1, <2>2, NetworkAssumption
<1>3. TypeOK'
  BY <1>1, <1>2 DEF IntactInv, TypeOK
<1> QED
  BY <1>1, <1>3 DEF IntactInv, UpHasConnection, IntactInOrder, Newest

(* NetSender::run hands a message to a worker or to a new one; a message is   *)
(* being sent as long as addresses are left.                               *)
LEMMA SendIntact ==
    ASSUME IntactInv, left # {} => current \in Message, NEW p \in Peer, Send(p)
    PROVE  IntactInv'
<1>1. /\ p \in left /\ left' = left \ {p}
      /\ current' = (IF left = {p} THEN NoMessage ELSE current)
      /\ UNCHANGED <<pending, transmit, conns, broken, failures, delivered>>
  BY DEF Send
<1>2. /\ current \in Message /\ rx \in [Peer -> Seq(Message)] /\ taken \in [Peer -> Seq(Message)]
      /\ got \in [Peer -> Seq(Message)]
      /\ worker \in [Peer -> {"none", "connecting", "up", "dead"}]
      /\ \A q \in Peer : Len(rx[q]) <= WorkerCap
  BY <1>1 DEF IntactInv, TypeOK
<1>3. left' \subseteq Peer /\ current' \in Message \cup {NoMessage}
  BY <1>1, <1>2 DEF IntactInv, TypeOK
<1>4. CASE /\ worker[p] \in {"connecting", "up"} /\ Len(rx[p]) < WorkerCap
           /\ rx' = [rx EXCEPT ![p] = Append(@, current)]
           /\ taken' = [taken EXCEPT ![p] = Append(@, current)]
           /\ UNCHANGED <<worker, got>>
  <2>1. /\ rx'[p] = Append(rx[p], current) /\ taken'[p] = Append(taken[p], current)
        /\ \A q \in Peer : q # p => rx'[q] = rx[q] /\ taken'[q] = taken[q]
    BY <1>2, <1>4
  <2>2. /\ Append(rx[p], current) \in Seq(Message) /\ Append(taken[p], current) \in Seq(Message)
        /\ Len(Append(rx[p], current)) = Len(rx[p]) + 1 /\ Len(rx[p]) \in Nat
    BY <1>2, AppendProperties, LenProperties
  <2>3. rx' \in [Peer -> Seq(Message)] /\ taken' \in [Peer -> Seq(Message)]
    BY <1>2, <1>4, <2>2
  <2>4. \A q \in Peer : Len(rx'[q]) <= WorkerCap
    BY <1>2, <1>4, <2>1, <2>2, NetworkAssumption
  <2>5. TypeOK'
    BY <1>1, <1>3, <1>4, <2>3, <2>4 DEF IntactInv, TypeOK
  <2>6. InOrder(p)'
    <3> DEFINE c == IF worker[p] = "up" THEN Newest(p) ELSE <<>>
    <3>1. c \in Seq(Message)
      BY LastConnection DEF IntactInv
    <3>2. got[p] \in Seq(Message) /\ rx[p] \in Seq(Message)
      BY <1>2
    <3> HIDE DEF c
    <3>3. got[p] \o c \in Seq(Message)
      BY <3>1, <3>2, ConcatProperties
    <3>4. Append((got[p] \o c) \o rx[p], current) = (got[p] \o c) \o Append(rx[p], current)
      BY <1>2, <3>2, <3>3, AppendLast
    <3> SUFFICES ASSUME p \in broken => worker[p] = "connecting"
                 PROVE  taken'[p] = got[p] \o c \o rx'[p]
      BY <1>1, <1>4 DEF InOrder, Newest, c
    <3>5. taken[p] = got[p] \o c \o rx[p]
      BY <1>4 DEF IntactInv, IntactInOrder, c
    <3> QED
      BY <2>1, <3>4, <3>5
  <2>7. \A q \in Peer : q # p => OrderKept(q)
    BY <1>1, <1>4, <2>1 DEF OrderKept
  <2>8. UpHasConnection'
    BY <1>1, <1>4 DEF IntactInv, UpHasConnection
  <2> QED
    BY <2>5, <2>6, <2>7, <2>8, OnePeer DEF IntactInv
<1>5. CASE /\ worker[p] \in {"none", "dead"}
           /\ worker' = [worker EXCEPT ![p] = "connecting"]
           /\ rx' = [rx EXCEPT ![p] = <<current>>]
           /\ taken' = [taken EXCEPT ![p] = <<current>>] /\ got' = [got EXCEPT ![p] = <<>>]
  <2>1. /\ rx'[p] = <<current>> /\ taken'[p] = <<current>> /\ got'[p] = <<>>
        /\ worker'[p] = "connecting"
    BY <1>2, <1>5
  <2>2. \A q \in Peer : q # p => /\ rx'[q] = rx[q] /\ taken'[q] = taken[q]
                                 /\ got'[q] = got[q] /\ worker'[q] = worker[q]
    BY <1>2, <1>5
  <2>3. <<current>> \in Seq(Message) /\ Len(<<current>>) = 1 /\ <<>> \in Seq(Message)
    BY <1>2
  <2>4. /\ rx' \in [Peer -> Seq(Message)] /\ taken' \in [Peer -> Seq(Message)]
        /\ got' \in [Peer -> Seq(Message)]
        /\ worker' \in [Peer -> {"none", "connecting", "up", "dead"}]
    BY <1>2, <1>5, <2>3
  <2>5. \A q \in Peer : Len(rx'[q]) <= WorkerCap
    <3>1. Len(rx'[p]) <= WorkerCap
      BY <2>1, <2>3, NetworkAssumption
    <3>2. \A q \in Peer : q # p => Len(rx'[q]) <= WorkerCap
      BY <1>2, <2>2, Zenon
    <3> QED
      BY <3>1, <3>2, Zenon
  <2>6. TypeOK'
    BY <1>1, <1>3, <2>4, <2>5 DEF IntactInv, TypeOK
  <2>7. InOrder(p)'
    <3>1. <<>> \o <<>> \o <<current>> = <<current>>
      BY <2>3, ConcatEmptySeq
    <3> QED
      BY <2>1, <3>1 DEF InOrder
  <2>8. \A q \in Peer : q # p => OrderKept(q)
    BY <1>1, <2>2 DEF OrderKept
  <2>9. UpHasConnection'
    BY <1>1, <2>1, <2>2 DEF IntactInv, UpHasConnection
  <2> QED
    BY <2>6, <2>7, <2>8, <2>9, OnePeer DEF IntactInv
<1> QED
  BY <1>4, <1>5 DEF Send

(* TcpStream::connect *)
LEMMA ConnectIntact ==
    ASSUME IntactInv, NEW p \in Peer, Connect(p)
    PROVE  IntactInv'
<1>1. /\ worker[p] = "connecting"
      /\ UNCHANGED <<pending, transmit, current, left, taken, got, delivered>>
  BY DEF Connect, front
<1>2. /\ conns \in [Peer -> Seq(Seq(Message))] /\ rx \in [Peer -> Seq(Message)]
      /\ worker \in [Peer -> {"none", "connecting", "up", "dead"}] /\ broken \subseteq Peer
      /\ failures \in [Peer -> 0..MaxFailures] /\ \A q \in Peer : Len(rx[q]) <= WorkerCap
      /\ got \in [Peer -> Seq(Message)]
  BY DEF IntactInv, TypeOK
<1>3. CASE /\ worker' = [worker EXCEPT ![p] = "up"]
           /\ conns' = [conns EXCEPT ![p] = Append(@, <<>>)]
           /\ broken' = broken \ {p}
           /\ UNCHANGED <<rx, failures>>
  <2>1. /\ worker'[p] = "up" /\ conns'[p] = Append(conns[p], <<>>)
        /\ \A q \in Peer : q # p => worker'[q] = worker[q] /\ conns'[q] = conns[q]
    BY <1>2, <1>3
  <2>2. conns[p] \in Seq(Seq(Message)) /\ <<>> \in Seq(Message)
    BY <1>2
  <2>3. /\ conns'[p] \in Seq(Seq(Message)) /\ conns'[p] # <<>>
        /\ Newest(p)' = <<>>
    BY <2>1, <2>2, AppendProperties DEF Newest
  <2>4. /\ conns' \in [Peer -> Seq(Seq(Message))] /\ broken' \subseteq Peer
        /\ worker' \in [Peer -> {"none", "connecting", "up", "dead"}]
    BY <1>2, <1>3, <2>1, <2>3
  <2>5. TypeOK'
    BY <1>1, <1>3, <2>4 DEF IntactInv, TypeOK
  <2>6. InOrder(p)'
    <3>1. p \in broken => worker[p] = "connecting"
      BY <1>1
    <3>2. taken[p] = got[p] \o <<>> \o rx[p]
      BY <1>1 DEF IntactInv, IntactInOrder
    <3> QED
      BY <1>1, <1>3, <2>1, <2>3, <3>2 DEF InOrder
  <2>7. \A q \in Peer : q # p => OrderKept(q)
    BY <1>1, <1>3, <2>1 DEF OrderKept
  <2>8. UpHasConnection'
    BY <2>1, <2>3 DEF IntactInv, UpHasConnection
  <2> QED
    BY <2>5, <2>6, <2>7, <2>8, OnePeer DEF IntactInv
<1>4. CASE /\ failures[p] < MaxFailures
           /\ failures' = [failures EXCEPT ![p] = @ + 1]
           /\ worker' = [worker EXCEPT ![p] = "dead"] /\ rx' = [rx EXCEPT ![p] = <<>>]
           /\ UNCHANGED <<conns, broken>>
  <2>1. /\ worker'[p] = "dead" /\ rx'[p] = <<>>
        /\ \A q \in Peer : q # p => worker'[q] = worker[q] /\ rx'[q] = rx[q]
    BY <1>2, <1>4
  <2>2. /\ rx' \in [Peer -> Seq(Message)]
        /\ worker' \in [Peer -> {"none", "connecting", "up", "dead"}]
    BY <1>2, <1>4
  <2>3. failures' \in [Peer -> 0..MaxFailures]
    BY <1>2, <1>4, NetworkAssumption
  <2>4. \A q \in Peer : Len(rx'[q]) <= WorkerCap
    <3>1. Len(rx'[p]) <= WorkerCap
      BY <2>1, NetworkAssumption
    <3> QED
      BY <1>2, <2>1, <3>1, Zenon
  <2>5. TypeOK'
    BY <1>1, <1>4, <2>2, <2>3, <2>4 DEF IntactInv, TypeOK
  <2>6. InOrder(p)'
    BY <2>1 DEF InOrder
  <2>7. \A q \in Peer : q # p => OrderKept(q)
    BY <1>1, <1>4, <2>1 DEF OrderKept
  <2>8. UpHasConnection'
    BY <1>4, <2>1 DEF IntactInv, UpHasConnection
  <2> QED
    BY <2>5, <2>6, <2>7, <2>8, OnePeer DEF IntactInv
<1> QED
  BY <1>3, <1>4 DEF Connect

(* The connection of a worker fails. *)
LEMMA BreakIntact ==
    ASSUME IntactInv, NEW p \in Peer, Break(p)
    PROVE  IntactInv'
<1> DEFINE i == Len(conns[p])
<1>1. /\ worker[p] = "up" /\ failures[p] < MaxFailures
      /\ failures' = [failures EXCEPT ![p] = @ + 1] /\ broken' = broken \cup {p}
      /\ UNCHANGED <<pending, transmit, current, left, worker, rx, taken, got, delivered>>
  BY DEF Break, front
<1>2. i \in DOMAIN conns[p] /\ conns[p][i] \in Seq(Message) /\ Newest(p) = conns[p][i]
  BY <1>1, LastConnection DEF IntactInv
<1>3. PICK k \in 0..Len(conns[p][i]) :
          conns' = [conns EXCEPT ![p] = [conns[p] EXCEPT ![i] = SubSeq(conns[p][i], 1, k)]]
  BY <1>2 DEF Break
<1>4. SubSeq(conns[p][i], 1, k) \in Seq(Message)
  BY <1>2, OnPrefix
<1> HIDE DEF i
<1>5. /\ conns' \in [Peer -> Seq(Seq(Message))] /\ conns'[p] # <<>>
      /\ \A q \in Peer : q # p => conns'[q] = conns[q]
  BY <1>2, <1>3, <1>4, OneConnection DEF IntactInv
<1>6. failures' \in [Peer -> 0..MaxFailures] /\ broken' \subseteq Peer
  <2>1. failures \in [Peer -> 0..MaxFailures] /\ broken \subseteq Peer
    BY DEF IntactInv, TypeOK
  <2> QED
    BY <1>1, <2>1, NetworkAssumption
<1>7. TypeOK'
  BY <1>1, <1>5, <1>6 DEF IntactInv, TypeOK
<1>8. InOrder(p)'
  BY <1>1 DEF InOrder
<1>9. \A q \in Peer : q # p => OrderKept(q)
  BY <1>1, <1>5 DEF OrderKept
<1>10. UpHasConnection'
  BY <1>1, <1>5 DEF IntactInv, UpHasConnection
<1> QED
  BY <1>7, <1>8, <1>9, <1>10, OnePeer DEF IntactInv

(* The worker of a connection writes a frame. *)
LEMMA WriteIntact ==
    ASSUME IntactInv, NEW p \in Peer, WriteFrame(p)
    PROVE  IntactInv'
<1> DEFINE i == Len(conns[p])
<1>1. /\ worker[p] = "up" /\ rx[p] # <<>>
      /\ UNCHANGED <<pending, transmit, current, left, broken, failures, taken, got, delivered>>
  BY DEF WriteFrame, front
<1>2. i \in DOMAIN conns[p] /\ conns[p][i] \in Seq(Message) /\ Newest(p) = conns[p][i]
  BY <1>1, LastConnection DEF IntactInv
<1>3. /\ rx \in [Peer -> Seq(Message)] /\ \A q \in Peer : Len(rx[q]) <= WorkerCap
      /\ worker \in [Peer -> {"none", "connecting", "up", "dead"}]
      /\ got \in [Peer -> Seq(Message)] /\ rx[p] \in Seq(Message) /\ got[p] \in Seq(Message)
  BY DEF IntactInv, TypeOK
<1>4. /\ Head(rx[p]) \in Message /\ Tail(rx[p]) \in Seq(Message)
      /\ Len(Tail(rx[p])) = Len(rx[p]) - 1 /\ Len(rx[p]) \in Nat
  BY <1>1, <1>3, HeadTailProperties, LenProperties
<1>5. ASSUME NEW s \in Seq(Message), Len(s) <= WorkerCap, rx' = [rx EXCEPT ![p] = s]
      PROVE  /\ rx' \in [Peer -> Seq(Message)] /\ \A q \in Peer : Len(rx'[q]) <= WorkerCap
             /\ rx'[p] = s /\ \A q \in Peer : q # p => rx'[q] = rx[q]
  BY <1>3, <1>5
<1>6. Len(Tail(rx[p])) <= WorkerCap
  BY <1>3, <1>4, NetworkAssumption
<1>7. CASE /\ p \notin broken
           /\ conns' = [conns EXCEPT ![p][i] = Append(@, Head(rx[p]))]
           /\ rx' = [rx EXCEPT ![p] = Tail(@)]
           /\ UNCHANGED worker
  <2> DEFINE c == conns[p][i]
  <2>1. conns' = [conns EXCEPT ![p] = [conns[p] EXCEPT ![i] = Append(conns[p][i], Head(rx[p]))]]
    BY <1>7
  <2>2. Append(conns[p][i], Head(rx[p])) \in Seq(Message)
    BY <1>2, <1>4, AppendProperties
  <2> HIDE DEF i
  <2>3. /\ conns' \in [Peer -> Seq(Seq(Message))] /\ conns'[p] # <<>>
        /\ \A q \in Peer : q # p => conns'[q] = conns[q]
        /\ conns'[p][i] = Append(c, Head(rx[p])) /\ Len(conns'[p]) = Len(conns[p])
    BY <1>2, <2>1, <2>2, OneConnection DEF IntactInv
  <2>4. /\ rx' \in [Peer -> Seq(Message)] /\ \A q \in Peer : Len(rx'[q]) <= WorkerCap
        /\ rx'[p] = Tail(rx[p]) /\ \A q \in Peer : q # p => rx'[q] = rx[q]
    BY <1>4, <1>5, <1>6, <1>7
  <2>5. TypeOK'
    BY <1>1, <1>7, <2>3, <2>4 DEF IntactInv, TypeOK
  <2>6. InOrder(p)'
    <3>1. taken[p] = got[p] \o c \o rx[p]
      BY <1>1, <1>2, <1>7 DEF IntactInv, IntactInOrder
    <3>2. Newest(p)' = Append(c, Head(rx[p]))
      BY <2>3 DEF Newest, i
    <3>3. c \in Seq(Message) /\ got[p] \o c \in Seq(Message)
      BY <1>2, <1>3, ConcatProperties
    <3> HIDE DEF c
    <3>4. got[p] \o Append(c, Head(rx[p])) = Append(got[p] \o c, Head(rx[p]))
      BY <1>3, <1>4, <3>3, AppendLast
    <3>5. Append(got[p] \o c, Head(rx[p])) \o Tail(rx[p]) = (got[p] \o c) \o rx[p]
      BY <1>1, <1>3, <3>3, MoveOn, Zenon
    <3> QED
      BY <1>1, <1>7, <2>4, <3>1, <3>2, <3>4, <3>5 DEF InOrder
  <2>7. \A q \in Peer : q # p => OrderKept(q)
    BY <1>1, <1>7, <2>3, <2>4 DEF OrderKept
  <2>8. UpHasConnection'
    BY <1>7, <2>3 DEF IntactInv, UpHasConnection
  <2> QED
    BY <2>5, <2>6, <2>7, <2>8, OnePeer DEF IntactInv
<1>8. CASE /\ p \in broken /\ UNCHANGED conns
           /\ \E s \in Seq(Message) : Len(s) <= WorkerCap /\ rx' = [rx EXCEPT ![p] = s]
           /\ worker' = worker \/ worker' = [worker EXCEPT ![p] = "dead"]
  <2>1. /\ rx' \in [Peer -> Seq(Message)] /\ \A q \in Peer : Len(rx'[q]) <= WorkerCap
        /\ \A q \in Peer : q # p => rx'[q] = rx[q]
    BY <1>5, <1>8
  <2>2. /\ worker' \in [Peer -> {"none", "connecting", "up", "dead"}]
        /\ worker'[p] \in {"up", "dead"} /\ \A q \in Peer : q # p => worker'[q] = worker[q]
        /\ \A q \in Peer : worker'[q] = "up" => worker[q] = "up"
    BY <1>1, <1>3, <1>8
  <2>3. TypeOK'
    BY <1>1, <1>8, <2>1, <2>2 DEF IntactInv, TypeOK
  <2>4. InOrder(p)'
    BY <1>1, <1>8, <2>2 DEF InOrder
  <2>5. \A q \in Peer : q # p => OrderKept(q)
    BY <1>1, <1>8, <2>1, <2>2 DEF OrderKept
  <2>6. UpHasConnection'
    BY <1>8, <2>2 DEF IntactInv, UpHasConnection
  <2> QED
    BY <2>3, <2>4, <2>5, <2>6, OnePeer DEF IntactInv
<1>9. <<>> \in Seq(Message) /\ Len(<<>>) <= WorkerCap
  BY NetworkAssumption
<1> QED
  BY <1>4, <1>6, <1>7, <1>8, <1>9 DEF WriteFrame

(* A reader of the receiver delivers a frame of the peer's i-th connection. *)
LEMMA DeliverIntact ==
    ASSUME IntactInv, NEW p \in Peer, NEW i \in DOMAIN conns[p], Deliver(p, i)
    PROVE  IntactInv'
<1> DEFINE c == conns[p][i]
<1>1. /\ c # <<>>
      /\ delivered' = [delivered EXCEPT ![p] = Append(@, Head(c))]
      /\ got' = IF i = Len(conns[p]) /\ worker[p] = "up"
                THEN [got EXCEPT ![p] = Append(@, Head(c))] ELSE got
      /\ UNCHANGED <<pending, transmit, current, left, worker, rx, broken, failures, taken>>
  BY DEF Deliver, front
<1>2. conns' = [conns EXCEPT ![p] = [conns[p] EXCEPT ![i] = Tail(c)]]
  BY DEF Deliver
<1>3. /\ conns[p] \in Seq(Seq(Message)) /\ delivered \in [Peer -> Seq(Message)]
      /\ got \in [Peer -> Seq(Message)] /\ rx[p] \in Seq(Message)
  BY DEF IntactInv, TypeOK
<1>4. DOMAIN conns[p] = 1..Len(conns[p]) /\ Len(conns[p]) \in Nat
  BY <1>3, LenProperties
<1>5. c \in Seq(Message)
  BY <1>3, <1>4, ElementOfSeq
<1> HIDE DEF c
<1>6. Head(c) \in Message /\ Tail(c) \in Seq(Message)
  BY <1>1, <1>5, HeadTailProperties
<1>7. /\ conns' \in [Peer -> Seq(Seq(Message))] /\ conns'[p] # <<>>
      /\ \A q \in Peer : q # p => conns'[q] = conns[q]
      /\ Len(conns'[p]) = Len(conns[p]) /\ conns'[p][i] = Tail(c)
      /\ \A j \in DOMAIN conns[p] : j # i => conns'[p][j] = conns[p][j]
  BY <1>2, <1>6, OneConnection DEF IntactInv
<1>8. delivered' \in [Peer -> Seq(Message)]
  <2>1. Append(delivered[p], Head(c)) \in Seq(Message)
    BY <1>3, <1>6, AppendProperties
  <2> QED
    BY <1>1, <1>3, <2>1
<1>9. /\ got' \in [Peer -> Seq(Message)] /\ \A q \in Peer : q # p => got'[q] = got[q]
      /\ got'[p] = IF i = Len(conns[p]) /\ worker[p] = "up"
                   THEN Append(got[p], Head(c)) ELSE got[p]
  <2>1. Append(got[p], Head(c)) \in Seq(Message)
    BY <1>3, <1>6, AppendProperties
  <2> QED
    BY <1>1, <1>3, <2>1
<1>10. TypeOK'
  BY <1>1, <1>7, <1>8, <1>9 DEF IntactInv, TypeOK
<1>11. InOrder(p)'
  <2>1. CASE worker[p] = "up" /\ p \notin broken /\ i = Len(conns[p])
    <3>1. taken[p] = got[p] \o c \o rx[p]
      BY <2>1 DEF IntactInv, IntactInOrder, Newest, c
    <3>2. Newest(p)' = Tail(c) /\ got'[p] = Append(got[p], Head(c))
      BY <1>7, <1>9, <2>1 DEF Newest
    <3>3. Append(got[p], Head(c)) \o Tail(c) = got[p] \o c
      BY <1>1, <1>3, <1>5, MoveOn
    <3>4. taken[p] = got'[p] \o Newest(p)' \o rx[p]
      BY <3>1, <3>2, <3>3, Zenon
    <3> QED
      BY <1>1, <2>1, <3>4 DEF InOrder
  <2>2. CASE worker[p] = "up" /\ p \notin broken /\ i # Len(conns[p])
    <3>1. taken[p] = got[p] \o Newest(p) \o rx[p]
      BY <2>2 DEF IntactInv, IntactInOrder
    <3>2. Newest(p)' = Newest(p) /\ got'[p] = got[p]
      <4>1. Len(conns[p]) \in DOMAIN conns[p]
        BY <1>4
      <4> QED
        BY <1>7, <1>9, <2>2, <4>1 DEF Newest
    <3>3. taken[p] = got'[p] \o Newest(p)' \o rx[p]
      BY <3>1, <3>2, Zenon
    <3> QED
      BY <1>1, <2>2, <3>3 DEF InOrder
  <2>3. CASE worker[p] = "connecting"
    <3>1. taken[p] = got[p] \o <<>> \o rx[p] /\ got'[p] = got[p]
      BY <1>9, <2>3 DEF IntactInv, IntactInOrder
    <3> QED
      BY <1>1, <2>3, <3>1 DEF InOrder
  <2> QED
    BY <1>1, <2>1, <2>2, <2>3 DEF InOrder
<1>12. \A q \in Peer : q # p => OrderKept(q)
  BY <1>1, <1>7, <1>9 DEF OrderKept
<1>13. UpHasConnection'
  BY <1>1, <1>7 DEF IntactInv, UpHasConnection
<1> QED
  BY <1>10, <1>11, <1>12, <1>13, OnePeer DEF IntactInv
-----------------------------------------------------------------------------
(* NetSender has a message in hand while it has addresses left, one that is   *)
(* nowhere else in the sender.                                             *)
FrontOnce ==
    /\ IsInjective(transmit)
    /\ \A m \in pending : ~On(transmit, m)
    /\ left # {} => /\ current \in Message /\ current \notin pending /\ ~On(transmit, current)
                    /\ left \subseteq Addresses[current]

(* Message m has not been handed to a worker of p yet. *)
Ahead(p, m) == m \in pending \/ On(transmit, m) \/ (p \in left /\ m = current)

(* A message for p that is no longer ahead is in one place at most: the     *)
(* worker's channel, one of the connections, or delivered.                 *)
OnePlace(p) ==
    /\ IsInjective(rx[p]) /\ IsInjective(delivered[p])
    /\ \A i \in DOMAIN conns[p] : IsInjective(conns[p][i])
    /\ \A m \in Message :
          /\ On(delivered[p], m) => ~Ahead(p, m) /\ p \in Addresses[m]
          /\ On(rx[p], m) => ~Ahead(p, m) /\ p \in Addresses[m] /\ ~On(delivered[p], m)
          /\ \A i \in DOMAIN conns[p] : On(conns[p][i], m) =>
                /\ ~Ahead(p, m) /\ p \in Addresses[m]
                /\ ~On(delivered[p], m) /\ ~On(rx[p], m)
                /\ \A j \in DOMAIN conns[p] : On(conns[p][j], m) => i = j

(* The inductive invariant. *)
NetInv == IntactInv /\ FrontOnce /\ \A p \in Peer : OnePlace(p)

(* What p has not received moves nowhere but out. *)
PlaceKept(p) ==
    /\ delivered'[p] = delivered[p] /\ IsInjective(rx'[p])
    /\ \A i \in DOMAIN conns'[p] : IsInjective(conns'[p][i])
    /\ \A m \in Message :
          /\ Ahead(p, m)' => Ahead(p, m)
          /\ On(rx'[p], m) => On(rx[p], m)
          /\ \A i \in DOMAIN conns'[p] :
                On(conns'[p][i], m) => i \in DOMAIN conns[p] /\ On(conns[p][i], m)

(* A step that moves nothing forward at p. *)
LEMMA KeepPlace ==
    ASSUME NEW p, OnePlace(p), PlaceKept(p)
    PROVE  OnePlace(p)'
<1>1. /\ IsInjective(rx'[p]) /\ IsInjective(delivered'[p])
      /\ \A i \in DOMAIN conns'[p] : IsInjective(conns'[p][i])
  BY Zenon DEF OnePlace, PlaceKept
<1>2. ASSUME NEW m \in Message
      PROVE  /\ On(delivered'[p], m) => ~Ahead(p, m)' /\ p \in Addresses[m]
             /\ On(rx'[p], m) => ~Ahead(p, m)' /\ p \in Addresses[m] /\ ~On(delivered'[p], m)
  BY Zenon DEF OnePlace, PlaceKept
<1>3. ASSUME NEW m \in Message, NEW i \in DOMAIN conns'[p], On(conns'[p][i], m)
      PROVE  /\ ~Ahead(p, m)' /\ p \in Addresses[m]
             /\ ~On(delivered'[p], m) /\ ~On(rx'[p], m)
             /\ \A j \in DOMAIN conns'[p] : On(conns'[p][j], m) => i = j
  BY <1>3, Zenon DEF OnePlace, PlaceKept
<1> QED
  BY <1>1, <1>2, <1>3, Zenon DEF OnePlace

(* What is sent, held, under way or delivered are messages, in sequences. *)
LEMMA Queues ==
    ASSUME IntactInv, NEW p \in Peer
    PROVE  /\ transmit \in Seq(Message) /\ rx[p] \in Seq(Message) /\ delivered[p] \in Seq(Message)
           /\ conns[p] \in Seq(Seq(Message))
           /\ \A i \in DOMAIN conns[p] : conns[p][i] \in Seq(Message)
<1>1. /\ transmit \in Seq(Message) /\ rx[p] \in Seq(Message) /\ delivered[p] \in Seq(Message)
      /\ conns[p] \in Seq(Seq(Message))
  BY DEF IntactInv, TypeOK
<1>2. DOMAIN conns[p] = 1..Len(conns[p])
  BY <1>1, LenProperties
<1> QED
  BY <1>1, <1>2, ElementOfSeq

(* A peer whose channel, connections and deliveries stay the same. *)
LEMMA SamePlace ==
    ASSUME NEW p, OnePlace(p), \A m \in Message : Ahead(p, m)' => Ahead(p, m),
           rx'[p] = rx[p], conns'[p] = conns[p], delivered'[p] = delivered[p]
    PROVE  OnePlace(p)'
<1>1. PlaceKept(p)
  BY Zenon DEF PlaceKept, OnePlace
<1> QED
  BY <1>1, KeepPlace

(* Filter::run *)
LEMMA TransmitOnce ==
    ASSUME NetInv, NEW m \in Message, Transmit(m)
    PROVE  NetInv'
<1>1. /\ m \in pending /\ pending' = pending \ {m} /\ transmit' = Append(transmit, m)
      /\ UNCHANGED <<current, left, rx, conns, delivered>>
  BY DEF Transmit
<1>2. IntactInv'
  BY TransmitIntact DEF NetInv
<1>3. transmit \in Seq(Message) /\ pending \subseteq Message
  BY DEF NetInv, IntactInv, TypeOK
<1>4. /\ \A x : On(transmit', x) <=> On(transmit, x) \/ x = m
      /\ IsInjective(transmit) /\ ~On(transmit, m) => IsInjective(transmit')
  BY <1>1, <1>3, OnAppend
<1>5. FrontOnce'
  BY <1>1, <1>3, <1>4 DEF NetInv, FrontOnce
<1>6. ASSUME NEW p \in Peer
      PROVE  OnePlace(p)'
  <2>1. \A x \in Message : Ahead(p, x)' => Ahead(p, x)
    BY <1>1, <1>4 DEF Ahead
  <2>2. rx'[p] = rx[p] /\ conns'[p] = conns[p] /\ delivered'[p] = delivered[p] /\ OnePlace(p)
    BY <1>1 DEF NetInv
  <2> QED
    BY <2>1, <2>2, SamePlace
<1> QED
  BY <1>2, <1>5, <1>6 DEF NetInv

(* NetSender::run takes a message. *)
LEMMA TakeOnce ==
    ASSUME NetInv, Take
    PROVE  NetInv'
<1> DEFINE h == Head(transmit)
<1>1. /\ current = NoMessage /\ transmit # <<>> /\ current' = h /\ transmit' = Tail(transmit)
      /\ left' = Addresses[h] /\ UNCHANGED <<pending, rx, conns, delivered>>
  BY DEF Take
<1>2. IntactInv'
  BY TakeIntact DEF NetInv
<1>3. transmit \in Seq(Message) /\ IsInjective(transmit) /\ left = {}
  BY <1>1, NetworkAssumption DEF NetInv, IntactInv, TypeOK, FrontOnce
<1>4. /\ On(transmit, h) /\ \A x : On(transmit', x) => On(transmit, x)
      /\ IsInjective(transmit') /\ ~On(transmit', h)
  BY <1>1, <1>3, OnTail
<1>5. h \in Message
  BY <1>1, <1>3, HeadTailProperties
<1> HIDE DEF h
<1>6. FrontOnce'
  BY <1>1, <1>4, <1>5 DEF NetInv, FrontOnce
<1>7. ASSUME NEW p \in Peer
      PROVE  OnePlace(p)'
  <2>1. \A x \in Message : Ahead(p, x)' => Ahead(p, x)
    BY <1>1, <1>4 DEF Ahead
  <2>2. rx'[p] = rx[p] /\ conns'[p] = conns[p] /\ delivered'[p] = delivered[p] /\ OnePlace(p)
    BY <1>1 DEF NetInv
  <2> QED
    BY <2>1, <2>2, SamePlace
<1> QED
  BY <1>2, <1>6, <1>7 DEF NetInv

(* NetSender::run hands its message over once per address. *)
LEMMA SendOnce ==
    ASSUME NetInv, NEW p \in Peer, Send(p)
    PROVE  NetInv'
<1>1. /\ p \in left /\ left' = left \ {p}
      /\ current' = (IF left = {p} THEN NoMessage ELSE current)
      /\ UNCHANGED <<pending, transmit, conns, delivered>>
  BY DEF Send
<1>2. /\ current \in Message /\ current \notin pending /\ ~On(transmit, current)
      /\ left \subseteq Addresses[current]
  BY <1>1 DEF NetInv, FrontOnce
<1>3. IntactInv'
  BY <1>2, SendIntact DEF NetInv
<1>4. FrontOnce'
  <2>1. left' # {} => current' = current
    BY <1>1
  <2> QED
    BY <1>1, <1>2, <2>1 DEF NetInv, FrontOnce
<1>5. \A q \in Peer, x \in Message : Ahead(q, x)' => Ahead(q, x)
  BY <1>1 DEF Ahead
<1>6. /\ \A q \in Peer : q # p => rx'[q] = rx[q]
      /\ rx'[p] = Append(rx[p], current) \/ rx'[p] = <<current>>
  <2>1. rx \in [Peer -> Seq(Message)]
    BY DEF NetInv, IntactInv, TypeOK
  <2>2. \/ rx' = [rx EXCEPT ![p] = Append(@, current)]
        \/ rx' = [rx EXCEPT ![p] = <<current>>]
    BY Zenon DEF Send
  <2> QED
    BY <2>1, <2>2
<1>7. ASSUME NEW q \in Peer, q # p
      PROVE  OnePlace(q)'
  <2>1. rx'[q] = rx[q] /\ conns'[q] = conns[q] /\ delivered'[q] = delivered[q] /\ OnePlace(q)
    BY <1>1, <1>6, <1>7 DEF NetInv
  <2> QED
    BY <1>5, <2>1, SamePlace
<1>8. OnePlace(p)'
  <2>1. /\ OnePlace(p) /\ Ahead(p, current) /\ p \in Addresses[current]
        /\ \A x \in Message : x = current => ~Ahead(p, x)'
    BY <1>1, <1>2 DEF NetInv, Ahead
  <2>2. /\ ~On(rx[p], current) /\ ~On(delivered[p], current)
        /\ \A i \in DOMAIN conns[p] : ~On(conns[p][i], current)
    BY <1>2, <2>1, Zenon DEF OnePlace
  <2>3. IsInjective(rx'[p]) /\ \A x : On(rx'[p], x) => On(rx[p], x) \/ x = current
    <3>1. rx[p] \in Seq(Message) /\ IsInjective(rx[p])
      BY <2>1, Queues DEF NetInv, OnePlace
    <3>2. CASE rx'[p] = Append(rx[p], current)
      <4>1. /\ \A x : On(Append(rx[p], current), x) <=> On(rx[p], x) \/ x = current
            /\ IsInjective(Append(rx[p], current))
        BY <1>2, <2>2, <3>1, OnAppend
      <4> QED
        BY <3>2, <4>1, Zenon
    <3>3. CASE rx'[p] = <<current>>
      <4>1. IsInjective(<<current>>) /\ \A x : On(<<current>>, x) <=> x = current
        BY OnSingle
      <4> QED
        BY <3>3, <4>1, Zenon
    <3> QED
      BY <1>6, <3>2, <3>3
  <2>4. conns'[p] = conns[p] /\ delivered'[p] = delivered[p]
    BY <1>1
  <2>5. ASSUME NEW x \in Message
        PROVE  /\ On(delivered'[p], x) => ~Ahead(p, x)' /\ p \in Addresses[x]
               /\ On(rx'[p], x) => ~Ahead(p, x)' /\ p \in Addresses[x] /\ ~On(delivered'[p], x)
    BY <1>5, <2>1, <2>2, <2>3, <2>4, Zenon DEF OnePlace
  <2>6. ASSUME NEW x \in Message, NEW i \in DOMAIN conns'[p], On(conns'[p][i], x)
        PROVE  /\ ~Ahead(p, x)' /\ p \in Addresses[x]
               /\ ~On(delivered'[p], x) /\ ~On(rx'[p], x)
               /\ \A j \in DOMAIN conns'[p] : On(conns'[p][j], x) => i = j
    BY <1>5, <2>1, <2>2, <2>3, <2>4, <2>6, Zenon DEF OnePlace
  <2>7. IsInjective(delivered'[p]) /\ \A i \in DOMAIN conns'[p] : IsInjective(conns'[p][i])
    BY <2>1, <2>4, Zenon DEF OnePlace
  <2> QED
    BY <2>3, <2>5, <2>6, <2>7, Zenon DEF OnePlace
<1> QED
  BY <1>3, <1>4, <1>7, <1>8 DEF NetInv

(* The workers leave the sender's queues alone. *)
LEMMA FrontKept ==
    ASSUME NetInv, UNCHANGED front
    PROVE  FrontOnce' /\ \A q, x : Ahead(q, x)' <=> Ahead(q, x)
BY DEF front, NetInv, FrontOnce, Ahead

(* TcpStream::connect *)
LEMMA ConnectOnce ==
    ASSUME NetInv, NEW p \in Peer, Connect(p)
    PROVE  NetInv'
<1>1. UNCHANGED front /\ UNCHANGED delivered
  BY DEF Connect
<1>2. IntactInv'
  BY ConnectIntact DEF NetInv
<1>3. FrontOnce' /\ \A q, x : Ahead(q, x)' <=> Ahead(q, x)
  BY <1>1, FrontKept
<1>4. conns \in [Peer -> Seq(Seq(Message))] /\ rx \in [Peer -> Seq(Message)]
  BY DEF NetInv, IntactInv, TypeOK
<1>5. \/ conns' = [conns EXCEPT ![p] = Append(@, <<>>)] /\ rx' = rx
      \/ rx' = [rx EXCEPT ![p] = <<>>] /\ conns' = conns
  BY DEF Connect
<1>6. ASSUME NEW q \in Peer
      PROVE  OnePlace(q)'
  <2>1. OnePlace(q)
    BY DEF NetInv
  <2>2. CASE rx'[q] = rx[q] /\ conns'[q] = conns[q]
    BY <1>1, <1>3, <2>1, <2>2, SamePlace
  <2>3. CASE conns'[q] = Append(conns[q], <<>>) /\ rx'[q] = rx[q]
    <3>1. conns[q] \in Seq(Seq(Message)) /\ <<>> \in Seq(Message)
      BY <1>4
    <3>2. /\ conns'[q] \in Seq(Seq(Message)) /\ Len(conns'[q]) = Len(conns[q]) + 1
          /\ \A i \in 1..Len(conns[q]) : conns'[q][i] = conns[q][i]
          /\ conns'[q][Len(conns[q]) + 1] = <<>>
      BY <2>3, <3>1, AppendProperties
    <3>3. DOMAIN conns[q] = 1..Len(conns[q]) /\ DOMAIN conns'[q] = 1..Len(conns'[q])
      BY <3>1, <3>2, LenProperties
    <3>4. Len(conns[q]) \in Nat
      BY <3>1, LenProperties
    <3>5. \A i \in DOMAIN conns'[q] :
              \/ i \in DOMAIN conns[q] /\ conns'[q][i] = conns[q][i]
              \/ conns'[q][i] = <<>>
      <4>1. \A l \in Nat : \A i \in 1..(l + 1) : i \in 1..l \/ i = l + 1
        OBVIOUS
      <4>2. \A i \in DOMAIN conns'[q] : i \in DOMAIN conns[q] \/ i = Len(conns[q]) + 1
        BY <3>2, <3>3, <3>4, <4>1, Zenon
      <4> QED
        BY <3>2, <3>3, <4>2, Zenon
    <3>6. PlaceKept(q)
      BY <1>1, <1>3, <2>1, <2>3, <3>5, OnEmpty, Zenon DEF PlaceKept, OnePlace
    <3> QED
      BY <2>1, <3>6, KeepPlace
  <2>4. CASE rx'[q] = <<>> /\ conns'[q] = conns[q]
    <3>1. PlaceKept(q)
      BY <1>1, <1>3, <2>1, <2>4, OnEmpty, Zenon DEF PlaceKept, OnePlace
    <3> QED
      BY <2>1, <3>1, KeepPlace
  <2> QED
    BY <1>4, <1>5, <2>2, <2>3, <2>4
<1> QED
  BY <1>2, <1>3, <1>6 DEF NetInv

(* A failed connection keeps a prefix of its frames. *)
LEMMA BreakOnce ==
    ASSUME NetInv, NEW p \in Peer, Break(p)
    PROVE  NetInv'
<1> DEFINE i == Len(conns[p])
<1>1. UNCHANGED front /\ UNCHANGED <<rx, delivered>> /\ worker[p] = "up"
  BY DEF Break
<1>2. IntactInv' /\ IntactInv
  BY BreakIntact DEF NetInv
<1>3. FrontOnce' /\ \A q, x : Ahead(q, x)' <=> Ahead(q, x)
  BY <1>1, FrontKept
<1>4. i \in DOMAIN conns[p] /\ conns[p][i] \in Seq(Message) /\ Newest(p) = conns[p][i]
  BY <1>1, <1>2, LastConnection DEF IntactInv
<1>5. PICK k \in 0..Len(conns[p][i]) :
          conns' = [conns EXCEPT ![p] = [conns[p] EXCEPT ![i] = SubSeq(conns[p][i], 1, k)]]
  BY <1>4 DEF Break
<1> DEFINE s == SubSeq(conns[p][i], 1, k)
<1>6. /\ s \in Seq(Message) /\ \A m : On(s, m) => On(conns[p][i], m)
      /\ IsInjective(conns[p][i]) => IsInjective(s)
  BY <1>4, OnPrefix
<1> HIDE DEF i, s
<1>7. /\ \A q \in Peer : q # p => conns'[q] = conns[q]
      /\ DOMAIN conns'[p] = DOMAIN conns[p] /\ conns'[p][i] = s
      /\ \A j \in DOMAIN conns[p] : j # i => conns'[p][j] = conns[p][j]
  BY <1>2, <1>4, <1>5, <1>6, OneConnection DEF IntactInv, s
<1>8. ASSUME NEW q \in Peer, q # p
      PROVE  OnePlace(q)'
  <2>1. rx'[q] = rx[q] /\ conns'[q] = conns[q] /\ delivered'[q] = delivered[q] /\ OnePlace(q)
    BY <1>1, <1>7, <1>8 DEF NetInv
  <2> QED
    BY <1>3, <2>1, SamePlace
<1>9. OnePlace(p)'
  <2>1. OnePlace(p)
    BY DEF NetInv
  <2>2. \A j \in DOMAIN conns'[p] :
            /\ j \in DOMAIN conns[p] /\ IsInjective(conns'[p][j])
            /\ \A m : On(conns'[p][j], m) => On(conns[p][j], m)
    BY <1>4, <1>6, <1>7, <2>1, Zenon DEF OnePlace
  <2>3. PlaceKept(p)
    BY <1>1, <1>3, <2>1, <2>2, Zenon DEF PlaceKept, OnePlace
  <2> QED
    BY <2>1, <2>3, KeepPlace
<1> QED
  BY <1>2, <1>3, <1>8, <1>9 DEF NetInv

(* A frame that is written leaves the worker's channel. *)
LEMMA WriteOnce ==
    ASSUME NetInv, NEW p \in Peer, WriteFrame(p)
    PROVE  NetInv'
<1> DEFINE i == Len(conns[p])
           h == Head(rx[p])
<1>1. UNCHANGED front /\ UNCHANGED delivered /\ worker[p] = "up" /\ rx[p] # <<>>
  BY DEF WriteFrame
<1>2. IntactInv' /\ IntactInv
  BY WriteIntact DEF NetInv
<1>3. FrontOnce' /\ \A q, x : Ahead(q, x)' <=> Ahead(q, x)
  BY <1>1, FrontKept
<1>4. i \in DOMAIN conns[p] /\ conns[p][i] \in Seq(Message)
  BY <1>1, <1>2, LastConnection DEF IntactInv
<1>5. rx \in [Peer -> Seq(Message)] /\ rx[p] \in Seq(Message) /\ OnePlace(p)
  BY <1>2 DEF IntactInv, TypeOK, NetInv
<1>6. /\ h \in Message /\ On(rx[p], h) /\ \A m : On(Tail(rx[p]), m) => On(rx[p], m)
      /\ IsInjective(Tail(rx[p])) /\ ~On(Tail(rx[p]), h)
  <2>1. h \in Message
    BY <1>1, <1>5, HeadTailProperties
  <2>2. IsInjective(rx[p])
    BY <1>5 DEF OnePlace
  <2> QED
    BY <1>1, <1>5, <2>1, <2>2, OnTail
<1>7. \A q \in Peer : q # p => rx'[q] = rx[q]
  <2>1. rx' = [rx EXCEPT ![p] = Tail(@)] \/ rx' = [rx EXCEPT ![p] = <<>>]
    BY DEF WriteFrame
  <2> QED
    BY <1>5, <2>1
<1>8. CASE /\ conns' = [conns EXCEPT ![p] = [conns[p] EXCEPT ![i] = Append(conns[p][i], h)]]
           /\ rx' = [rx EXCEPT ![p] = Tail(@)]
  <2> DEFINE s == Append(conns[p][i], h)
  <2>1. s \in Seq(Message)
    BY <1>4, <1>6, AppendProperties
  <2>2. /\ \A m : On(s, m) <=> On(conns[p][i], m) \/ m = h
        /\ IsInjective(conns[p][i]) /\ ~On(conns[p][i], h) => IsInjective(s)
    BY <1>4, <1>6, OnAppend
  <2>3. rx'[p] = Tail(rx[p])
    BY <1>5, <1>8
  <2> HIDE DEF i, h, s
  <2>4. /\ \A q \in Peer : q # p => conns'[q] = conns[q]
        /\ DOMAIN conns'[p] = DOMAIN conns[p] /\ conns'[p][i] = s
        /\ \A j \in DOMAIN conns[p] : j # i => conns'[p][j] = conns[p][j]
    BY <1>2, <1>4, <1>8, <2>1, OneConnection DEF IntactInv, s
  <2>5. ASSUME NEW q \in Peer, q # p
        PROVE  OnePlace(q)'
    <3>1. rx'[q] = rx[q] /\ conns'[q] = conns[q] /\ delivered'[q] = delivered[q] /\ OnePlace(q)
      BY <1>1, <1>7, <2>4, <2>5 DEF NetInv
    <3> QED
      BY <1>3, <3>1, SamePlace
  <2>6. OnePlace(p)'
    <3>1. /\ ~Ahead(p, h) /\ p \in Addresses[h] /\ ~On(delivered[p], h)
          /\ \A j \in DOMAIN conns[p] : ~On(conns[p][j], h)
      BY <1>5, <1>6, Zenon DEF OnePlace
    <3>2. /\ IsInjective(rx'[p]) /\ ~On(rx'[p], h)
          /\ \A m : On(rx'[p], m) => On(rx[p], m)
      BY <1>6, <2>3
    <3>3. \A j \in DOMAIN conns'[p] :
              /\ j \in DOMAIN conns[p] /\ IsInjective(conns'[p][j])
              /\ \A m : On(conns'[p][j], m) => On(conns[p][j], m) \/ (m = h /\ j = i)
      BY <1>4, <1>5, <2>2, <2>4, <3>1, Zenon DEF OnePlace
    <3>4. delivered'[p] = delivered[p]
      BY <1>1
    <3>5. ASSUME NEW m \in Message
          PROVE  /\ On(delivered'[p], m) => ~Ahead(p, m)' /\ p \in Addresses[m]
                 /\ On(rx'[p], m) =>
                       ~Ahead(p, m)' /\ p \in Addresses[m] /\ ~On(delivered'[p], m)
      BY <1>3, <1>5, <3>2, <3>4, Zenon DEF OnePlace
    <3>6. ASSUME NEW m \in Message, NEW j \in DOMAIN conns'[p], On(conns'[p][j], m)
          PROVE  /\ ~Ahead(p, m)' /\ p \in Addresses[m]
                 /\ ~On(delivered'[p], m) /\ ~On(rx'[p], m)
                 /\ \A l \in DOMAIN conns'[p] : On(conns'[p][l], m) => j = l
      <4>1. CASE m = h
        BY <1>3, <3>1, <3>2, <3>3, <3>4, <3>6, <4>1, Zenon
      <4>2. CASE m # h
        BY <1>3, <1>5, <3>2, <3>3, <3>4, <3>6, <4>2, Zenon DEF OnePlace
      <4> QED
        BY <4>1, <4>2
    <3>7. IsInjective(delivered'[p])
      BY <1>5, <3>4 DEF OnePlace
    <3> QED
      BY <3>2, <3>3, <3>5, <3>6, <3>7, Zenon DEF OnePlace
  <2> QED
    BY <1>2, <1>3, <2>5, <2>6 DEF NetInv
<1>9. CASE /\ conns' = conns
           /\ rx' = [rx EXCEPT ![p] = Tail(@)] \/ rx' = [rx EXCEPT ![p] = <<>>]
  <2>1. rx'[p] = Tail(rx[p]) \/ rx'[p] = <<>>
    BY <1>5, <1>9
  <2>2. IsInjective(rx'[p]) /\ \A m : On(rx'[p], m) => On(rx[p], m)
    BY <1>6, <2>1, OnEmpty
  <2>3. PlaceKept(p)
    BY <1>1, <1>3, <1>5, <1>9, <2>2, Zenon DEF PlaceKept, OnePlace
  <2>4. OnePlace(p)'
    BY <1>5, <2>3, KeepPlace
  <2>5. ASSUME NEW q \in Peer, q # p
        PROVE  OnePlace(q)'
    <3>1. rx'[q] = rx[q] /\ conns'[q] = conns[q] /\ delivered'[q] = delivered[q] /\ OnePlace(q)
      BY <1>1, <1>7, <1>9, <2>5 DEF NetInv
    <3> QED
      BY <1>3, <3>1, SamePlace
  <2> QED
    BY <1>2, <1>3, <2>4, <2>5 DEF NetInv
<1> QED
  BY <1>8, <1>9 DEF WriteFrame

(* A frame that is delivered leaves its connection. *)
LEMMA DeliverOnce ==
    ASSUME NetInv, NEW p \in Peer, NEW i \in DOMAIN conns[p], Deliver(p, i)
    PROVE  NetInv'
<1> DEFINE c == conns[p][i]
           h == Head(c)
<1>1. /\ UNCHANGED front /\ UNCHANGED rx /\ c # <<>>
      /\ delivered' = [delivered EXCEPT ![p] = Append(@, h)]
  BY DEF Deliver
<1>2. conns' = [conns EXCEPT ![p] = [conns[p] EXCEPT ![i] = Tail(c)]]
  BY DEF Deliver
<1>3. IntactInv' /\ IntactInv
  BY DeliverIntact DEF NetInv
<1>4. FrontOnce' /\ \A q, x : Ahead(q, x)' <=> Ahead(q, x)
  BY <1>1, FrontKept
<1>5. c \in Seq(Message) /\ delivered[p] \in Seq(Message) /\ OnePlace(p)
  BY <1>3, Queues DEF NetInv
<1> HIDE DEF c
<1>6. h \in Message /\ Tail(c) \in Seq(Message)
  BY <1>1, <1>5, HeadTailProperties
<1>7. IsInjective(c)
  BY <1>5, Zenon DEF OnePlace, c
<1>8. /\ On(c, h) /\ \A m : On(Tail(c), m) => On(c, m)
      /\ IsInjective(Tail(c)) /\ ~On(Tail(c), h)
  BY <1>1, <1>5, <1>7, OnTail
<1>9. /\ delivered'[p] = Append(delivered[p], h)
      /\ \A q \in Peer : q # p => delivered'[q] = delivered[q]
  BY <1>1, <1>3 DEF IntactInv, TypeOK
<1>10. /\ \A m : On(delivered'[p], m) <=> On(delivered[p], m) \/ m = h
       /\ IsInjective(delivered[p]) /\ ~On(delivered[p], h) => IsInjective(delivered'[p])
  <2> DEFINE d == Append(delivered[p], h)
  <2>1. /\ \A m : On(d, m) <=> On(delivered[p], m) \/ m = h
        /\ IsInjective(delivered[p]) /\ ~On(delivered[p], h) => IsInjective(d)
    BY <1>5, <1>6, OnAppend
  <2> QED
    BY <1>9, <2>1, Zenon
<1> HIDE DEF h
<1>11. /\ \A q \in Peer : q # p => conns'[q] = conns[q]
       /\ DOMAIN conns'[p] = DOMAIN conns[p] /\ conns'[p][i] = Tail(c)
       /\ \A j \in DOMAIN conns[p] : j # i => conns'[p][j] = conns[p][j]
  BY <1>2, <1>3, <1>6, OneConnection DEF IntactInv
<1>12. ASSUME NEW q \in Peer, q # p
       PROVE  OnePlace(q)'
  <2>1. rx'[q] = rx[q] /\ conns'[q] = conns[q] /\ delivered'[q] = delivered[q] /\ OnePlace(q)
    BY <1>1, <1>9, <1>11, <1>12 DEF NetInv
  <2> QED
    BY <1>4, <2>1, SamePlace
<1>13. OnePlace(p)'
  <2>1. /\ ~Ahead(p, h) /\ p \in Addresses[h] /\ ~On(delivered[p], h) /\ ~On(rx[p], h)
        /\ \A j \in DOMAIN conns[p] : On(conns[p][j], h) => i = j
    BY <1>5, <1>6, <1>8, Zenon DEF OnePlace, c
  <2>2. ASSUME NEW j \in DOMAIN conns'[p]
        PROVE  /\ j \in DOMAIN conns[p] /\ IsInjective(conns'[p][j]) /\ ~On(conns'[p][j], h)
               /\ \A m : On(conns'[p][j], m) => On(conns[p][j], m)
    <3>1. CASE j = i
      BY <1>8, <1>11, <3>1, Zenon DEF c
    <3>2. CASE j # i
      <4>1. j \in DOMAIN conns[p] /\ conns'[p][j] = conns[p][j]
        BY <1>11, <3>2
      <4>2. IsInjective(conns[p][j])
        BY <1>5, <4>1, Zenon DEF OnePlace
      <4> QED
        BY <2>1, <3>2, <4>1, <4>2, Zenon
    <3> QED
      BY <3>1, <3>2
  <2>3. IsInjective(delivered'[p]) /\ IsInjective(rx'[p]) /\ rx'[p] = rx[p]
    BY <1>1, <1>5, <1>10, <2>1, Zenon DEF OnePlace
  <2>4. ASSUME NEW m \in Message
        PROVE  /\ On(delivered'[p], m) => ~Ahead(p, m)' /\ p \in Addresses[m]
               /\ On(rx'[p], m) => ~Ahead(p, m)' /\ p \in Addresses[m] /\ ~On(delivered'[p], m)
    BY <1>4, <1>5, <1>10, <2>1, <2>3, Zenon DEF OnePlace
  <2>5. ASSUME NEW m \in Message, NEW j \in DOMAIN conns'[p], On(conns'[p][j], m)
        PROVE  /\ ~Ahead(p, m)' /\ p \in Addresses[m]
               /\ ~On(delivered'[p], m) /\ ~On(rx'[p], m)
               /\ \A l \in DOMAIN conns'[p] : On(conns'[p][l], m) => j = l
    <3>1. j \in DOMAIN conns[p] /\ On(conns[p][j], m) /\ m # h
      BY <2>2, <2>5, Zenon
    <3>2. \A l \in DOMAIN conns'[p] : On(conns'[p][l], m) =>
              l \in DOMAIN conns[p] /\ On(conns[p][l], m)
      BY <2>2, Zenon
    <3>3. /\ ~Ahead(p, m) /\ p \in Addresses[m] /\ ~On(delivered[p], m) /\ ~On(rx[p], m)
          /\ \A l \in DOMAIN conns[p] : On(conns[p][l], m) => j = l
      BY <1>5, <3>1, Zenon DEF OnePlace
    <3> QED
      BY <1>4, <1>10, <2>3, <3>1, <3>2, <3>3, Zenon
  <2> QED
    BY <2>2, <2>3, <2>4, <2>5, Zenon DEF OnePlace
<1> QED
  BY <1>3, <1>4, <1>12, <1>13 DEF NetInv
-----------------------------------------------------------------------------
(* The sender and its receivers start empty. *)
LEMMA NetInvInit == Init => NetInv
<1> SUFFICES ASSUME Init
             PROVE  NetInv
  OBVIOUS
<1>1. /\ pending = Message /\ transmit = <<>> /\ current = NoMessage /\ left = {}
      /\ worker = [p \in Peer |-> "none"] /\ rx = [p \in Peer |-> <<>>]
      /\ conns = [p \in Peer |-> <<>>] /\ broken = {}
      /\ failures = [p \in Peer |-> 0]
      /\ taken = [p \in Peer |-> <<>>] /\ got = [p \in Peer |-> <<>>]
      /\ delivered = [p \in Peer |-> <<>>]
  BY DEF Init
<1>2. TypeOK
  <2>1. <<>> \in Seq(Message) /\ <<>> \in Seq(Seq(Message)) /\ Len(<<>>) = 0
    OBVIOUS
  <2>2. /\ transmit \in Seq(Message) /\ Len(transmit) <= Capacity
        /\ rx \in [Peer -> Seq(Message)] /\ \A p \in Peer : Len(rx[p]) <= WorkerCap
    BY <1>1, <2>1, NetworkAssumption
  <2>3. /\ conns \in [Peer -> Seq(Seq(Message))] /\ delivered \in [Peer -> Seq(Message)]
        /\ taken \in [Peer -> Seq(Message)] /\ got \in [Peer -> Seq(Message)]
    BY <1>1, <2>1
  <2>4. failures \in [Peer -> 0..MaxFailures]
    BY <1>1, NetworkAssumption
  <2> QED
    BY <1>1, <2>2, <2>3, <2>4 DEF TypeOK
<1>3. UpHasConnection /\ IntactInOrder
  <2>1. \A p \in Peer : worker[p] = "none"
    BY <1>1
  <2> QED
    BY <2>1 DEF UpHasConnection, IntactInOrder
<1>4. FrontOnce
  BY <1>1, OnEmpty DEF FrontOnce
<1>5. ASSUME NEW p \in Peer
      PROVE  OnePlace(p)
  <2>1. rx[p] = <<>> /\ delivered[p] = <<>> /\ conns[p] = <<>>
    BY <1>1
  <2>2. DOMAIN conns[p] = {}
    BY <2>1
  <2> QED
    BY <2>1, <2>2, OnEmpty DEF OnePlace
<1> QED
  BY <1>2, <1>3, <1>4, <1>5 DEF NetInv, IntactInv

(* Every step of the sender, its workers and the readers keeps the invariant. *)
LEMMA NetInvStep == NetInv /\ [Next]_vars => NetInv'
<1> SUFFICES ASSUME NetInv, [Next]_vars
             PROVE  NetInv'
  OBVIOUS
<1>1. ASSUME NEW m \in Message, Transmit(m)
      PROVE  NetInv'
  BY <1>1, TransmitOnce
<1>2. CASE Take
  BY <1>2, TakeOnce
<1>3. ASSUME NEW p \in Peer, Send(p) \/ Connect(p) \/ Break(p) \/ WriteFrame(p)
      PROVE  NetInv'
  BY <1>3, SendOnce, ConnectOnce, BreakOnce, WriteOnce
<1>4. ASSUME NEW p \in Peer, NEW i \in DOMAIN conns[p], Deliver(p, i)
      PROVE  NetInv'
  BY <1>4, DeliverOnce
<1>5. CASE UNCHANGED vars
  <2>1. IntactInv'
    <3>1. TypeOK' /\ UpHasConnection'
      BY <1>5 DEF vars, NetInv, IntactInv, TypeOK, UpHasConnection
    <3>2. IntactInOrder'
      BY <1>5 DEF vars, NetInv, IntactInv, IntactInOrder, Newest
    <3> QED
      BY <3>1, <3>2 DEF IntactInv
  <2>2. FrontOnce' /\ \A q, x : Ahead(q, x)' <=> Ahead(q, x)
    BY <1>5, FrontKept DEF vars, front
  <2>3. ASSUME NEW p \in Peer
        PROVE  OnePlace(p)'
    <3>1. rx'[p] = rx[p] /\ conns'[p] = conns[p] /\ delivered'[p] = delivered[p] /\ OnePlace(p)
      BY <1>5 DEF vars, NetInv
    <3> QED
      BY <2>2, <3>1, SamePlace
  <2> QED
    BY <2>1, <2>2, <2>3 DEF NetInv
<1> QED
  BY <1>1, <1>2, <1>3, <1>4, <1>5 DEF Next

(* The invariant holds in every reachable state. *)
THEOREM NetworkInvariance == Spec => []NetInv
BY NetInvInit, NetInvStep, PTL DEF Spec

(* Every variable keeps its type, and no channel exceeds its capacity. *)
THEOREM NetworkTypeCorrect == Spec => []TypeOK
<1>1. NetInv => TypeOK
  BY DEF NetInv, IntactInv
<1> QED
  BY <1>1, NetworkInvariance, PTL

(* As long as a connection holds, its worker loses and reorders nothing. *)
THEOREM HeldConnectionIntact == Spec => []IntactInOrder
<1>1. NetInv => IntactInOrder
  BY DEF NetInv, IntactInv
<1> QED
  BY <1>1, NetworkInvariance, PTL

(* However often connections fail and workers are spawned again, a peer gets  *)
(* a message at most once, and only when it was addressed to it.           *)
THEOREM DeliveredAtMostOnce == Spec => []AtMostOnce
<1>1. NetInv => AtMostOnce
  <2> SUFFICES ASSUME NetInv, NEW p \in Peer
               PROVE  /\ IsInjective(delivered[p])
                      /\ \A i \in DOMAIN delivered[p] : p \in Addresses[delivered[p][i]]
    BY DEF AtMostOnce
  <2>1. OnePlace(p) /\ delivered[p] \in Seq(Message)
    BY Queues DEF NetInv
  <2>2. \A i \in DOMAIN delivered[p] : delivered[p][i] \in Message
    BY <2>1, LenProperties, ElementOfSeq
  <2> QED
    BY <2>1, <2>2, Zenon DEF OnePlace, On
<1> QED
  BY <1>1, NetworkInvariance, PTL
=============================================================================
