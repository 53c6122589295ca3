---------------------------- MODULE StoreProofs ----------------------------
(***************************************************************************)
(* Safety of the store's task for any keys, values, callers and capacity.  *)
(***************************************************************************)
EXTENDS StoreRefinement, FiniteSetTheorems, TLAPS

(* The command the task serves, and what stays queued. *)
LEMMA Served ==
    ASSUME TypeOK, channel # <<>>, channel' = Tail(channel)
    PROVE  /\ Head(channel) \in Command /\ Head(channel) = channel[1]
           /\ channel' \in Seq(Command)
           /\ \A i \in DOMAIN channel : i # 1 => i - 1 \in DOMAIN channel' /\ channel'[i - 1] = channel[i]
BY DEF TypeOK

(* The states of a call differ. *)
LEMMA CallStates == NotCalled # Sent /\ Dropped # Sent
<1>1. NotCalled[1] # Sent[1] /\ Dropped[1] # Sent[1]
  BY DEF NotCalled, Sent, Dropped
<1> QED
  BY <1>1

(* Answering callers keeps the type of the replies. *)
LEMMA Answered ==
    ASSUME TypeOK, NEW s, NEW v \in Value \cup {None}, Answer(s, v)
    PROVE  reply' \in [Call -> {NotCalled, Sent, Dropped, None} \cup Value]
BY DEF TypeOK, Answer

(* Every variable keeps its type whatever command is queued or served. *)
LEMMA NextTypeOK == TypeOK /\ [Next]_vars => TypeOK'
<1> SUFFICES ASSUME TypeOK, [Next]_vars PROVE TypeOK'
  OBVIOUS
<1>1. ASSUME NEW k \in Key, NEW v \in Value, write(k, v) PROVE TypeOK'
  BY <1>1 DEF TypeOK, write, Send, Command
<1>2. ASSUME NEW k \in Key, NEW c \in Reader, read(c, k) PROVE TypeOK'
  BY <1>2 DEF TypeOK, read, Send, Command, Call
<1>3. ASSUME NEW k \in Key, NEW c \in Waiter, notify_read(c, k) PROVE TypeOK'
  BY <1>3 DEF TypeOK, notify_read, Send, Command, Call
<1>4. ASSUME NEW c \in Waiter, Drop(c) PROVE TypeOK'
  BY <1>4 DEF TypeOK, Drop
<1>5. CASE Serve
  <2> DEFINE cmd == Head(channel)
  <2>1. cmd \in Command /\ channel' \in Seq(Command) /\ writes' \in Nat
    BY <1>5, Served DEF Serve, TypeOK
  <2>2. CASE ServeWrite(cmd)
    <3>1. cmd.key \in Key /\ cmd.value \in Value
      BY <2>1, <2>2 DEF ServeWrite, Command
    <3>2. reply' \in [Call -> {NotCalled, Sent, Dropped, None} \cup Value]
      BY <2>2, <3>1, Answered DEF ServeWrite
    <3> QED
      BY <2>1, <2>2, <3>1, <3>2 DEF ServeWrite, TypeOK
  <2>3. CASE ServeRead(cmd)
    <3>1. db[cmd.key] \in Value \cup {None}
      BY <2>1, <2>3 DEF ServeRead, Command, TypeOK
    <3>2. reply' \in [Call -> {NotCalled, Sent, Dropped, None} \cup Value]
      BY <2>3, <3>1, Answered DEF ServeRead
    <3> QED
      BY <2>1, <2>3, <3>2 DEF ServeRead, TypeOK
  <2>4. CASE ServeNotifyRead(cmd)
    <3>1. cmd.key \in Key /\ cmd.sender \in Waiter /\ db[cmd.key] \in Value \cup {None}
      BY <2>1, <2>4 DEF ServeNotifyRead, Command, TypeOK
    <3>2. reply' \in [Call -> {NotCalled, Sent, Dropped, None} \cup Value]
      BY <2>4, <3>1, Answered DEF ServeNotifyRead, TypeOK
    <3>3. obligations' \in [Key -> Seq(Waiter)]
      <4>1. Append(obligations[cmd.key], cmd.sender) \in Seq(Waiter)
        BY <3>1 DEF TypeOK
      <4> QED
        BY <2>4, <4>1 DEF ServeNotifyRead, TypeOK
    <3> QED
      BY <2>1, <2>4, <3>2, <3>3 DEF ServeNotifyRead, TypeOK
  <2> QED
    BY <1>5, <2>2, <2>3, <2>4 DEF Serve
<1>6. CASE UNCHANGED vars
  BY <1>6 DEF vars, TypeOK
<1> QED
  BY <1>1, <1>2, <1>3, <1>4, <1>5, <1>6 DEF Next

(* The store's variables have their types in every reachable state. *)
THEOREM StoreTypeCorrect == Spec => []TypeOK
<1>1. Init => TypeOK
  BY DEF Init, TypeOK, Call
<1> QED
  BY <1>1, NextTypeOK, PTL DEF Spec

(* Only ServeNotifyRead leaves an obligation, after it found no value, and  *)
(* the write that provides the value discharges all of them: no wake-up is *)
(* lost, whatever the capacity of the channel.                             *)
THEOREM WakeupsKept == Spec => []NoLostWakeup
<1>1. Init => NoLostWakeup
  BY DEF Init, NoLostWakeup
<1>2. TypeOK /\ NoLostWakeup /\ [Next]_vars => NoLostWakeup'
  <2> SUFFICES ASSUME TypeOK, NoLostWakeup, [Next]_vars PROVE NoLostWakeup'
    OBVIOUS
  <2>1. CASE Serve
    <3> DEFINE cmd == Head(channel)
    <3>1. cmd \in Command
      BY <2>1, Served DEF Serve
    <3>2. CASE ServeWrite(cmd)
      BY <3>1, <3>2 DEF ServeWrite, NoLostWakeup, TypeOK, Command
    <3>3. CASE ServeRead(cmd)
      BY <3>3 DEF ServeRead, NoLostWakeup
    <3>4. CASE ServeNotifyRead(cmd)
      BY <3>1, <3>4 DEF ServeNotifyRead, NoLostWakeup, TypeOK, Command
    <3> QED
      BY <2>1, <3>2, <3>3, <3>4 DEF Serve
  <2>2. CASE UNCHANGED <<db, obligations>>
    BY <2>2 DEF NoLostWakeup
  <2> QED
    BY <2>1, <2>2 DEF Next, vars, write, read, notify_read, Drop
<1> QED
  BY <1>1, <1>2, StoreTypeCorrect, PTL DEF Spec

(* A waiting notify_read is never forgotten: serving a command moves its    *)
(* caller to the obligations or answers it, and only the write that answers *)
(* a caller removes its obligation.                                        *)
THEOREM WaitersNeverForgotten == Spec => []WaitersKnown
<1>1. Init => WaitersKnown
  BY CallStates DEF Init, WaitersKnown, Call
<1>2. TypeOK /\ WaitersKnown /\ [Next]_vars => WaitersKnown'
  <2> SUFFICES ASSUME TypeOK, WaitersKnown, [Next]_vars,
                      NEW c \in Waiter, reply'[c] = Sent
               PROVE  \/ \E i \in DOMAIN channel' :
                            channel'[i].op = "NotifyRead" /\ channel'[i].sender = c
                      \/ \E k \in Key : \E i \in DOMAIN obligations'[k] : obligations'[k][i] = c
    BY DEF WaitersKnown
  <2> DEFINE Asked(i) == channel[i].op = "NotifyRead" /\ channel[i].sender = c
  <2>1. ASSUME UNCHANGED obligations, NEW cmd, channel' = Append(channel, cmd),
               \/ reply[c] = Sent
               \/ cmd.op = "NotifyRead" /\ cmd.sender = c
        PROVE  \/ \E i \in DOMAIN channel' :
                     channel'[i].op = "NotifyRead" /\ channel'[i].sender = c
               \/ \E k \in Key : \E i \in DOMAIN obligations'[k] : obligations'[k][i] = c
    <3>1. /\ Len(channel) + 1 \in DOMAIN channel' /\ channel'[Len(channel) + 1] = cmd
          /\ \A i \in DOMAIN channel : i \in DOMAIN channel' /\ channel'[i] = channel[i]
      BY <2>1 DEF TypeOK
    <3> QED
      BY <2>1, <3>1 DEF WaitersKnown
  <2>2. CASE \E k \in Key, v \in Value : write(k, v)
    BY <2>1, <2>2 DEF write, Send
  <2>3. CASE \E k \in Key : \E r \in Reader : read(r, k)
    <3>1. PICK k \in Key, r \in Reader : read(r, k)
      BY <2>3
    <3>2. c # r
      BY StoreAssumption
    <3>3. reply[c] = Sent
      BY <3>1, <3>2 DEF read, TypeOK, Call
    <3> QED
      BY <2>1, <3>1, <3>3 DEF read, Send
  <2>4. CASE \E k \in Key : \E w \in Waiter : notify_read(w, k)
    <3>1. PICK k \in Key, w \in Waiter : notify_read(w, k)
      BY <2>4
    <3>2. reply[c] = Sent \/ w = c
      BY <3>1 DEF notify_read, TypeOK, Call
    <3> QED
      BY <2>1, <3>1, <3>2 DEF notify_read, Send
  <2>5. CASE \E w \in Waiter : Drop(w)
    BY <2>5, CallStates DEF Drop, WaitersKnown, TypeOK, Call
  <2>6. CASE Serve
    <3> DEFINE cmd == Head(channel)
    <3>1. /\ cmd \in Command /\ cmd = channel[1]
          /\ \A i \in DOMAIN channel :
                i # 1 => i - 1 \in DOMAIN channel' /\ channel'[i - 1] = channel[i]
      BY <2>6, Served DEF Serve
    <3>2. reply[c] = Sent
      <4>1. ASSUME NEW q, NEW v \in Value \cup {None}, Answer(q, v) PROVE reply[c] = Sent
        BY <4>1, StoreAssumption DEF Answer, Call
      <4> QED
        BY <2>6, <3>1, <4>1
        DEF Serve, ServeWrite, ServeRead, ServeNotifyRead, TypeOK, Command
    <3>3. CASE \E i \in DOMAIN channel : i # 1 /\ Asked(i)
      BY <3>1, <3>3
    <3>4. CASE Asked(1)
      <4>1. cmd.op = "NotifyRead" /\ cmd.sender = c /\ cmd.key \in Key
        BY <3>1, <3>4 DEF Command
      <4>2. CASE db[cmd.key] = None
        <5>1. obligations' = [obligations EXCEPT ![cmd.key] = Append(@, c)]
          BY <2>6, <4>1, <4>2 DEF Serve, ServeWrite, ServeRead, ServeNotifyRead
        <5>2. /\ Len(obligations[cmd.key]) + 1 \in DOMAIN obligations'[cmd.key]
              /\ obligations'[cmd.key][Len(obligations[cmd.key]) + 1] = c
          BY <4>1, <5>1 DEF TypeOK
        <5> QED
          BY <4>1, <5>2
      <4>3. CASE db[cmd.key] # None
        <5>1. Answer(<<c>>, db[cmd.key]) /\ db[cmd.key] \in Value
          BY <2>6, <4>1, <4>3 DEF Serve, ServeWrite, ServeRead, ServeNotifyRead, TypeOK
        <5>2. reply'[c] = db[cmd.key]
          BY <3>2, <5>1 DEF Answer, Call
        <5> QED
          BY <5>1, <5>2, StoreAssumption
      <4> QED
        BY <4>2, <4>3
    <3>5. CASE \E k \in Key : \E i \in DOMAIN obligations[k] : obligations[k][i] = c
      <4>1. PICK k \in Key : \E i \in DOMAIN obligations[k] : obligations[k][i] = c
        BY <3>5
      <4>2. CASE ServeWrite(cmd) /\ cmd.key = k
        <5>1. Answer(obligations[k], cmd.value) /\ cmd.value \in Value
          BY <3>1, <4>2 DEF ServeWrite, Command
        <5>2. reply'[c] = cmd.value
          BY <3>2, <4>1, <5>1 DEF Answer, Call
        <5> QED
          BY <5>1, <5>2, StoreAssumption
      <4>3. CASE ServeWrite(cmd) /\ cmd.key # k
        <5>1. obligations'[k] = obligations[k]
          BY <4>3 DEF ServeWrite, TypeOK
        <5> QED
          BY <4>1, <5>1
      <4>4. CASE ServeRead(cmd)
        BY <4>1, <4>4 DEF ServeRead
      <4>5. CASE ServeNotifyRead(cmd)
        <5>1. cmd.sender \in Waiter
          BY <3>1, <4>5 DEF ServeNotifyRead, Command
        <5>2. \/ obligations'[k] = obligations[k]
              \/ obligations'[k] = Append(obligations[k], cmd.sender)
          BY <4>5 DEF ServeNotifyRead, TypeOK
        <5>3. \A i \in DOMAIN obligations[k] :
                i \in DOMAIN obligations'[k] /\ obligations'[k][i] = obligations[k][i]
          BY <5>1, <5>2 DEF TypeOK
        <5> QED
          BY <4>1, <5>3
      <4> QED
        BY <2>6, <4>2, <4>3, <4>4, <4>5 DEF Serve
    <3> QED
      BY <3>2, <3>3, <3>4, <3>5 DEF WaitersKnown
  <2>7. CASE UNCHANGED vars
    BY <2>7 DEF vars, WaitersKnown
  <2> QED
    BY <2>2, <2>3, <2>4, <2>5, <2>6, <2>7 DEF Next
<1> QED
  BY <1>1, <1>2, StoreTypeCorrect, PTL DEF Spec
-----------------------------------------------------------------------------
(* The refinement: what Seen and Awaited are when the channel grows at one  *)
(* end or shrinks at the other.                                            *)

(* A non-empty set of naturals has a least element. *)
LEMMA LeastNat ==
    ASSUME NEW T \in SUBSET Nat, T # {}
    PROVE  \E n \in T : \A m \in T : n <= m
<1>1. PICK n \in T : \A m \in T : ~(<<m, n>> \in OpToRel(<, Nat))
  BY NatLessThanWellFounded, WFMin, Zenon
<1>2. \A m \in T : ~(m < n)
  BY <1>1 DEF OpToRel
<1> QED
  BY <1>2

(* Max and Min of positions, and where they are found. *)
LEMMA MaxIs == ASSUME NEW S \in SUBSET Nat, NEW m \in S, \A j \in S : j <= m PROVE Max(S) = m
<1>1. \A x \in S : (\A y \in S : x >= y) => x = m
  OBVIOUS
<1>2. \A y \in S : m >= y
  OBVIOUS
<1> QED
  BY <1>1, <1>2 DEF Max

(* An element that none is below is the least one. *)
LEMMA MinIs == ASSUME NEW S \in SUBSET Nat, NEW m \in S, \A j \in S : m <= j PROVE Min(S) = m
<1>1. \A x \in S : (\A y \in S : x =< y) => x = m
  OBVIOUS
<1> QED
  BY <1>1 DEF Min

(* A non-empty set of positions has a greatest one. *)
LEMMA HasMax ==
    ASSUME NEW n \in Nat, NEW S \in SUBSET (1..n), S # {}
    PROVE  \E m \in S : \A j \in S : j <= m
<1> DEFINE T == {n - j : j \in S}
<1>1. T \in SUBSET Nat /\ T # {}
  <2>1. \A j \in S : j \in Nat /\ j <= n
    OBVIOUS
  <2>2. \A j \in S : n - j \in Nat
    BY <2>1
  <2> QED
    BY <2>2
<1>2. PICK l \in T : \A m \in T : l <= m
  <2> HIDE DEF T
  <2> QED
    BY <1>1, LeastNat
<1>3. PICK m \in S : l = n - m
  OBVIOUS
<1>4. \A j \in S : n - m <= n - j
  BY <1>2, <1>3
<1> QED
  BY <1>3, <1>4

(* The last write to k before position i gives the value seen there. *)
LEMMA SeenFrom ==
    ASSUME NEW d, NEW s \in Seq(Command), NEW k, NEW i \in Nat,
           NEW j \in Writes(s, k), j < i, \A l \in Writes(s, k) : l < i => l <= j
    PROVE  Seen(d, s, k, i) = s[j].value
<1> DEFINE ws == {l \in Writes(s, k) : l < i}
<1>1. ws \in SUBSET Nat /\ j \in ws /\ \A l \in ws : l <= j
  BY DEF Writes
<1>2. Max(ws) = j
  <2> HIDE DEF ws
  <2> QED
    BY <1>1, MaxIs
<1> QED
  BY <1>1, <1>2, Zenon DEF Seen

(* Without one the database decides. *)
LEMMA SeenNone ==
    ASSUME NEW d, NEW s, NEW k, NEW i, \A l \in Writes(s, k) : ~(l < i)
    PROVE  Seen(d, s, k, i) = d[k]
<1>1. {l \in Writes(s, k) : l < i} = {}
  OBVIOUS
<1> QED
  BY <1>1, Zenon DEF Seen

(* One of the two is the case. *)
LEMMA SeenCases ==
    ASSUME NEW s \in Seq(Command), NEW k, NEW i \in Nat
    PROVE  \/ \A l \in Writes(s, k) : ~(l < i)
           \/ \E j \in Writes(s, k) : j < i /\ \A l \in Writes(s, k) : l < i => l <= j
<1> DEFINE ws == {l \in Writes(s, k) : l < i}
<1>1. CASE ws = {}
  BY <1>1
<1>2. CASE ws # {}
  <2>1. ws \in SUBSET (1..Len(s)) /\ Len(s) \in Nat
    BY DEF Writes
  <2>2. \E m \in ws : \A j \in ws : j <= m
    <3> HIDE DEF ws
    <3> QED
      BY <1>2, <2>1, HasMax
  <2> QED
    BY <2>2
<1> QED
  BY <1>1, <1>2

(* The first write to k after position i answers a caller waiting there. *)
LEMMA AwaitedFrom ==
    ASSUME NEW s \in Seq(Command), NEW k, NEW i \in Nat,
           NEW j \in Writes(s, k), j > i, \A l \in Writes(s, k) : l > i => j <= l
    PROVE  Awaited(s, k, i) = s[j].value
<1> DEFINE ws == {l \in Writes(s, k) : l > i}
<1>1. ws \in SUBSET Nat /\ j \in ws /\ \A l \in ws : j <= l
  BY DEF Writes
<1>2. Min(ws) = j
  <2> HIDE DEF ws
  <2> QED
    BY <1>1, MinIs
<1> QED
  BY <1>1, <1>2, Zenon DEF Awaited

(* Without one it goes on waiting. *)
LEMMA AwaitedNone ==
    ASSUME NEW s, NEW k, NEW i, \A l \in Writes(s, k) : ~(l > i)
    PROVE  Awaited(s, k, i) = WaitsFor(k)
<1>1. {l \in Writes(s, k) : l > i} = {}
  OBVIOUS
<1> QED
  BY <1>1, Zenon DEF Awaited

(* One of the two is the case. *)
LEMMA AwaitedCases ==
    ASSUME NEW s \in Seq(Command), NEW k, NEW i \in Nat
    PROVE  \/ \A l \in Writes(s, k) : ~(l > i)
           \/ \E j \in Writes(s, k) : j > i /\ \A l \in Writes(s, k) : l > i => j <= l
<1> DEFINE ws == {l \in Writes(s, k) : l > i}
<1>1. CASE ws = {}
  BY <1>1
<1>2. CASE ws # {}
  <2>1. ws \in SUBSET Nat
    BY DEF Writes
  <2>2. \E m \in ws : \A j \in ws : m <= j
    <3> HIDE DEF ws
    <3> QED
      BY <1>2, <2>1, LeastNat
  <2> QED
    BY <2>2
<1> QED
  BY <1>1, <1>2

(* The writes of a channel that a command was appended to. *)
LEMMA WritesAppend ==
    ASSUME NEW s \in Seq(Command), NEW cmd \in Command, NEW k
    PROVE  /\ \A j \in Nat : j <= Len(s) =>
                 (j \in Writes(Append(s, cmd), k) <=> j \in Writes(s, k))
           /\ Len(s) + 1 \in Writes(Append(s, cmd), k) <=> cmd.op = "Write" /\ cmd.key = k
           /\ \A j \in Writes(Append(s, cmd), k) : j \in Nat /\ j <= Len(s) + 1
           /\ \A j \in Writes(s, k) : j \in 1..Len(s) /\ Append(s, cmd)[j] = s[j]
<1> DEFINE a == Append(s, cmd)
<1>1. a \in Seq(Command) /\ Len(s) \in Nat /\ DOMAIN s = 1..Len(s) /\ DOMAIN a = 1..(Len(s) + 1)
  OBVIOUS
<1>2. (\A j \in 1..Len(s) : a[j] = s[j]) /\ a[Len(s) + 1] = cmd
  OBVIOUS
<1> HIDE DEF a
<1>3. \A j \in Nat : j <= Len(s) => (j \in Writes(a, k) <=> j \in Writes(s, k))
  BY <1>1, <1>2 DEF Writes
<1>4. Len(s) + 1 \in Writes(a, k) <=> cmd.op = "Write" /\ cmd.key = k
  BY <1>1, <1>2 DEF Writes
<1>5. \A j \in Writes(a, k) : j \in Nat /\ j <= Len(s) + 1
  BY <1>1 DEF Writes
<1>6. \A j \in Writes(s, k) : j \in 1..Len(s) /\ a[j] = s[j]
  BY <1>1, <1>2 DEF Writes
<1> QED
  BY <1>3, <1>4, <1>5, <1>6 DEF a

(* A new command does not change what the earlier ones see. *)
LEMMA SeenAppend ==
    ASSUME NEW d, NEW s \in Seq(Command), NEW cmd \in Command, NEW k, NEW i \in 1..(Len(s) + 1)
    PROVE  Seen(d, Append(s, cmd), k, i) = Seen(d, s, k, i)
<1> DEFINE a == Append(s, cmd)
<1>0. a \in Seq(Command) /\ i \in Nat /\ Len(s) \in Nat
  OBVIOUS
<1>1. \A j \in Nat : j < i => (j \in Writes(a, k) <=> j \in Writes(s, k))
  BY <1>0, WritesAppend
<1>2. /\ \A j \in Writes(s, k) : j \in Nat /\ a[j] = s[j]
      /\ \A j \in Writes(a, k) : j \in Nat
  BY WritesAppend
<1> HIDE DEF a
<1>3. CASE \A l \in Writes(s, k) : ~(l < i)
  <2>1. \A l \in Writes(a, k) : ~(l < i)
    BY <1>1, <1>2, <1>3
  <2> QED
    BY <1>3, <2>1, SeenNone DEF a
<1>4. CASE \E j \in Writes(s, k) : j < i /\ \A l \in Writes(s, k) : l < i => l <= j
  <2>1. PICK j \in Writes(s, k) : j < i /\ \A l \in Writes(s, k) : l < i => l <= j
    BY <1>4
  <2>2. j \in Writes(a, k) /\ \A l \in Writes(a, k) : l < i => l <= j
    BY <1>1, <1>2, <2>1
  <2>3. Seen(d, a, k, i) = a[j].value
    BY <1>0, <2>1, <2>2, SeenFrom
  <2>4. Seen(d, s, k, i) = s[j].value
    BY <1>0, <2>1, SeenFrom
  <2> QED
    BY <1>2, <2>3, <2>4 DEF a
<1> QED
  BY <1>0, <1>3, <1>4, SeenCases

(* A write at the end of the channel is what later commands see. *)
LEMMA SeenLast ==
    ASSUME NEW d, NEW s \in Seq(Command), NEW cmd \in Command, NEW k
    PROVE  Seen(d, Append(s, cmd), k, Len(s) + 2) =
               IF cmd.op = "Write" /\ cmd.key = k THEN cmd.value
               ELSE Seen(d, s, k, Len(s) + 1)
<1> DEFINE a == Append(s, cmd)
           n == Len(s)
<1>0. a \in Seq(Command) /\ n \in Nat /\ n + 2 \in Nat /\ a[n + 1] = cmd
  OBVIOUS
<1>1. /\ \A j \in Nat : j <= n => (j \in Writes(a, k) <=> j \in Writes(s, k))
      /\ n + 1 \in Writes(a, k) <=> cmd.op = "Write" /\ cmd.key = k
      /\ \A j \in Writes(a, k) : j \in Nat /\ j <= n + 1
      /\ \A j \in Writes(s, k) : j \in 1..n /\ a[j] = s[j]
  BY WritesAppend
<1> HIDE DEF a, n
<1>2. CASE cmd.op = "Write" /\ cmd.key = k
  <2>1. n + 1 \in Writes(a, k) /\ n + 1 < n + 2
    BY <1>0, <1>1, <1>2
  <2>2. \A l \in Writes(a, k) : l < n + 2 => l <= n + 1
    BY <1>1
  <2>3. Seen(d, a, k, n + 2) = a[n + 1].value
    BY <1>0, <2>1, <2>2, SeenFrom
  <2> QED
    BY <1>0, <1>2, <2>3 DEF a, n
<1>3. CASE ~(cmd.op = "Write" /\ cmd.key = k)
  <2>0. \A j : j \in Writes(a, k) <=> j \in Writes(s, k)
    <3>1. \A j \in Writes(a, k) : j # n + 1
      BY <1>1, <1>3
    <3>2. \A j \in Writes(a, k) : j \in Nat /\ j <= n
      BY <1>0, <1>1, <3>1
    <3>3. \A j \in Writes(s, k) : j \in Nat /\ j <= n
      BY <1>0, <1>1
    <3> QED
      BY <1>1, <3>2, <3>3
  <2>1. CASE \A l \in Writes(s, k) : ~(l < n + 1)
    <3>1. \A l \in Writes(a, k) : ~(l < n + 2)
      BY <1>0, <1>1, <2>0, <2>1
    <3> QED
      BY <1>3, <2>1, <3>1, SeenNone DEF a, n
  <2>2. CASE \E j \in Writes(s, k) : j < n + 1 /\ \A l \in Writes(s, k) : l < n + 1 => l <= j
    <3>1. PICK j \in Writes(s, k) : j < n + 1 /\ \A l \in Writes(s, k) : l < n + 1 => l <= j
      BY <2>2
    <3>2. /\ j \in Writes(a, k) /\ j < n + 2
          /\ \A l \in Writes(a, k) : l < n + 2 => l <= j
      BY <1>0, <1>1, <2>0, <3>1
    <3>3. Seen(d, a, k, n + 2) = a[j].value
      BY <1>0, <3>2, SeenFrom
    <3>4. Seen(d, s, k, n + 1) = s[j].value
      BY <1>0, <3>1, SeenFrom
    <3> QED
      BY <1>1, <1>3, <3>3, <3>4 DEF a, n
  <2> QED
    BY <1>0, <2>1, <2>2, SeenCases
<1> QED
  BY <1>2, <1>3

(* A caller that waits gets its value from a new write, if none came before. *)
LEMMA AwaitedAppend ==
    ASSUME NEW s \in Seq(Command), NEW cmd \in Command, NEW k, NEW i \in 0..Len(s)
    PROVE  \/ /\ \A l \in Writes(s, k) : ~(l > i)
              /\ Awaited(s, k, i) = WaitsFor(k)
              /\ Awaited(Append(s, cmd), k, i) =
                     IF cmd.op = "Write" /\ cmd.key = k THEN cmd.value ELSE WaitsFor(k)
           \/ /\ \E j \in Writes(s, k) : Awaited(s, k, i) = s[j].value
              /\ Awaited(Append(s, cmd), k, i) = Awaited(s, k, i)
<1> DEFINE a == Append(s, cmd)
           n == Len(s)
<1>0. a \in Seq(Command) /\ n \in Nat /\ i \in Nat /\ i <= n /\ a[n + 1] = cmd
  OBVIOUS
<1>1. /\ \A j \in Nat : j <= n => (j \in Writes(a, k) <=> j \in Writes(s, k))
      /\ n + 1 \in Writes(a, k) <=> cmd.op = "Write" /\ cmd.key = k
      /\ \A j \in Writes(a, k) : j \in Nat /\ j <= n + 1
      /\ \A j \in Writes(s, k) : j \in 1..n /\ a[j] = s[j]
  BY WritesAppend
<1> HIDE DEF a, n
<1>2. CASE \A l \in Writes(s, k) : ~(l > i)
  <2>1. Awaited(s, k, i) = WaitsFor(k)
    BY <1>2, AwaitedNone
  <2>2. \A l \in Writes(a, k) : l > i => l = n + 1
    <3> TAKE l \in Writes(a, k)
    <3>1. l <= n => l \in Writes(s, k)
      BY <1>1
    <3> QED
      BY <1>0, <1>1, <1>2, <3>1
  <2>3. CASE cmd.op = "Write" /\ cmd.key = k
    <3>1. n + 1 \in Writes(a, k) /\ n + 1 > i /\ \A l \in Writes(a, k) : l > i => n + 1 <= l
      BY <1>0, <1>1, <2>2, <2>3
    <3>2. Awaited(a, k, i) = a[n + 1].value
      BY <1>0, <3>1, AwaitedFrom
    <3> QED
      BY <1>0, <1>2, <2>1, <2>3, <3>2 DEF a
  <2>4. CASE ~(cmd.op = "Write" /\ cmd.key = k)
    <3>1. \A l \in Writes(a, k) : ~(l > i)
      BY <1>1, <2>2, <2>4
    <3>2. Awaited(a, k, i) = WaitsFor(k)
      BY <3>1, AwaitedNone
    <3> QED
      BY <1>2, <2>1, <2>4, <3>2 DEF a
  <2> QED
    BY <2>3, <2>4
<1>3. CASE \E j \in Writes(s, k) : j > i /\ \A l \in Writes(s, k) : l > i => j <= l
  <2>1. PICK j \in Writes(s, k) : j > i /\ \A l \in Writes(s, k) : l > i => j <= l
    BY <1>3
  <2>2. j \in Writes(a, k) /\ \A l \in Writes(a, k) : l > i => j <= l
    <3>1. j \in Nat /\ j <= n /\ j \in Writes(a, k)
      BY <1>0, <1>1, <2>1
    <3>2. ASSUME NEW l \in Writes(a, k), l > i PROVE j <= l
      <4>1. l \in Nat /\ (l <= n => l \in Writes(s, k))
        BY <1>1
      <4> QED
        BY <1>0, <2>1, <3>1, <3>2, <4>1
    <3> QED
      BY <3>1, <3>2
  <2>3. Awaited(a, k, i) = a[j].value
    BY <1>0, <2>1, <2>2, AwaitedFrom
  <2>4. Awaited(s, k, i) = s[j].value
    BY <1>0, <2>1, AwaitedFrom
  <2>5. a[j] = s[j]
    BY <1>1
  <2> QED
    BY <2>3, <2>4, <2>5 DEF a
<1> QED
  BY <1>0, <1>2, <1>3, AwaitedCases

(* A caller whose command is the last one waits for a write to come. *)
LEMMA AwaitedLast ==
    ASSUME NEW s \in Seq(Command), NEW cmd \in Command, NEW k
    PROVE  Awaited(Append(s, cmd), k, Len(s) + 1) = WaitsFor(k)
<1>1. \A l \in Writes(Append(s, cmd), k) : ~(l > Len(s) + 1)
  <2>1. Len(s) \in Nat /\ \A l \in Writes(Append(s, cmd), k) : l \in Nat /\ l <= Len(s) + 1
    BY WritesAppend
  <2> QED
    BY <2>1
<1> QED
  BY <1>1, AwaitedNone

(* The writes of a channel whose first command was taken. *)
LEMMA WritesTail ==
    ASSUME NEW s \in Seq(Command), s # <<>>, NEW k
    PROVE  /\ \A j \in Writes(Tail(s), k) : j \in Nat \ {0} /\ j + 1 \in Writes(s, k)
           /\ \A j \in Writes(s, k) : j \in Nat \ {0} /\ (j # 1 => j - 1 \in Writes(Tail(s), k))
           /\ \A j \in Writes(s, k) : j # 1 => Tail(s)[j - 1] = s[j]
           /\ 1 \in Writes(s, k) <=> s[1].op = "Write" /\ s[1].key = k
<1> DEFINE r == Tail(s)
           n == Len(s)
<1>1. n \in Nat \ {0} /\ DOMAIN s = 1..n /\ DOMAIN r = 1..(n - 1)
  OBVIOUS
<1>2. \A j \in 1..(n - 1) : r[j] = s[j + 1]
  OBVIOUS
<1> HIDE DEF r, n
<1>3. \A j \in Writes(r, k) : j \in Nat \ {0} /\ j + 1 \in Writes(s, k)
  BY <1>1, <1>2 DEF Writes
<1>4. \A j \in Writes(s, k) : j \in Nat \ {0}
  BY <1>1 DEF Writes
<1>5. \A j \in Writes(s, k) : j # 1 => j - 1 \in Writes(r, k) /\ r[j - 1] = s[j]
  <2> SUFFICES ASSUME NEW j \in Writes(s, k), j # 1
               PROVE  j - 1 \in Writes(r, k) /\ r[j - 1] = s[j]
    OBVIOUS
  <2>1. j \in 2..n /\ s[j].op = "Write" /\ s[j].key = k
    BY <1>1 DEF Writes
  <2>2. j - 1 \in 1..(n - 1) /\ (j - 1) + 1 = j
    BY <1>1, <2>1
  <2>3. r[j - 1] = s[j]
    BY <1>2, <2>2
  <2> QED
    BY <1>1, <2>1, <2>2, <2>3 DEF Writes
<1>6. 1 \in Writes(s, k) <=> s[1].op = "Write" /\ s[1].key = k
  BY <1>1 DEF Writes
<1> QED
  BY <1>3, <1>4, <1>5, <1>6 DEF r

(* Taking the first command, with its effect on the database, leaves what   *)
(* the others see.                                                         *)
LEMMA SeenTail ==
    ASSUME NEW d, NEW e, NEW s \in Seq(Command), s # <<>>, NEW k,
           NEW i \in Nat, i > 1,
           e[k] = IF s[1].op = "Write" /\ s[1].key = k THEN s[1].value ELSE d[k]
    PROVE  Seen(e, Tail(s), k, i - 1) = Seen(d, s, k, i)
<1> DEFINE r == Tail(s)
<1>0. r \in Seq(Command) /\ i - 1 \in Nat
  OBVIOUS
<1>1. /\ \A j \in Writes(r, k) : j \in Nat \ {0} /\ j + 1 \in Writes(s, k)
      /\ \A j \in Writes(s, k) : j \in Nat \ {0} /\ (j # 1 => j - 1 \in Writes(r, k))
      /\ \A j \in Writes(s, k) : j # 1 => r[j - 1] = s[j]
      /\ 1 \in Writes(s, k) <=> s[1].op = "Write" /\ s[1].key = k
  BY WritesTail
<1> HIDE DEF r
<1>2. CASE \A l \in Writes(s, k) : ~(l < i)
  <2>1. \A l \in Writes(r, k) : ~(l < i - 1)
    BY <1>1, <1>2
  <2>2. 1 \notin Writes(s, k)
    BY <1>2
  <2>3. e[k] = d[k]
    BY <1>1, <2>2
  <2> QED
    BY <1>2, <2>1, <2>3, SeenNone DEF r
<1>3. CASE \E j \in Writes(s, k) : j < i /\ \A l \in Writes(s, k) : l < i => l <= j
  <2>1. PICK j \in Writes(s, k) : j < i /\ \A l \in Writes(s, k) : l < i => l <= j
    BY <1>3
  <2>2. Seen(d, s, k, i) = s[j].value
    BY <2>1, SeenFrom
  <2>3. CASE j = 1
    <3>1. \A l \in Writes(r, k) : ~(l < i - 1)
      <4> TAKE l \in Writes(r, k)
      <4>1. l \in Nat \ {0} /\ l + 1 \in Writes(s, k)
        BY <1>1
      <4>2. ~(l + 1 < i)
        BY <2>1, <2>3, <4>1
      <4> QED
        BY <4>1, <4>2
    <3>2. e[k] = s[1].value
      BY <1>1, <2>1, <2>3
    <3>3. Seen(e, r, k, i - 1) = e[k]
      BY <3>1, SeenNone
    <3> QED
      BY <2>2, <2>3, <3>2, <3>3 DEF r
  <2>4. CASE j # 1
    <3>1. /\ j \in Nat /\ j - 1 \in Nat /\ j - 1 \in Writes(r, k)
          /\ r[j - 1] = s[j] /\ j - 1 < i - 1
      BY <1>1, <2>1, <2>4
    <3>2. \A l \in Writes(r, k) : l < i - 1 => l <= j - 1
      <4> TAKE l \in Writes(r, k)
      <4>1. l \in Nat \ {0} /\ l + 1 \in Writes(s, k)
        BY <1>1
      <4>2. l + 1 < i => l + 1 <= j
        BY <2>1, <4>1
      <4> QED
        BY <3>1, <4>1, <4>2
    <3>3. Seen(e, r, k, i - 1) = r[j - 1].value
      BY <1>0, <3>1, <3>2, SeenFrom
    <3> QED
      BY <2>2, <3>1, <3>3 DEF r
  <2> QED
    BY <2>3, <2>4
<1> QED
  BY <1>2, <1>3, SeenCases

(* Taking the first command leaves what the callers behind it wait for. *)
LEMMA AwaitedTail ==
    ASSUME NEW s \in Seq(Command), s # <<>>, NEW k, NEW i \in Nat \ {0}
    PROVE  Awaited(Tail(s), k, i - 1) = Awaited(s, k, i)
<1> DEFINE r == Tail(s)
<1>0. r \in Seq(Command) /\ i - 1 \in Nat
  OBVIOUS
<1>1. /\ \A j \in Writes(r, k) : j \in Nat \ {0} /\ j + 1 \in Writes(s, k)
      /\ \A j \in Writes(s, k) : j \in Nat \ {0} /\ (j # 1 => j - 1 \in Writes(r, k))
      /\ \A j \in Writes(s, k) : j # 1 => r[j - 1] = s[j]
  BY WritesTail
<1> HIDE DEF r
<1>2. CASE \A l \in Writes(s, k) : ~(l > i)
  <2>1. \A l \in Writes(r, k) : ~(l > i - 1)
    BY <1>1, <1>2
  <2> QED
    BY <1>2, <2>1, AwaitedNone DEF r
<1>3. CASE \E j \in Writes(s, k) : j > i /\ \A l \in Writes(s, k) : l > i => j <= l
  <2>1. PICK j \in Writes(s, k) : j > i /\ \A l \in Writes(s, k) : l > i => j <= l
    BY <1>3
  <2>2. Awaited(s, k, i) = s[j].value
    BY <2>1, AwaitedFrom
  <2>3. j \in Nat /\ j # 1
    BY <1>1, <2>1
  <2>4. j - 1 \in Writes(r, k) /\ r[j - 1] = s[j] /\ j - 1 > i - 1
    BY <1>1, <2>1, <2>3
  <2>5. \A l \in Writes(r, k) : l > i - 1 => j - 1 <= l
    <3> TAKE l \in Writes(r, k)
    <3>1. l \in Nat \ {0} /\ l + 1 \in Writes(s, k)
      BY <1>1
    <3>2. l + 1 > i => j <= l + 1
      BY <2>1, <3>1
    <3> QED
      BY <2>3, <3>1, <3>2
  <2>6. Awaited(r, k, i - 1) = r[j - 1].value
    BY <1>0, <2>4, <2>5, AwaitedFrom
  <2> QED
    BY <2>2, <2>4, <2>6 DEF r
<1> QED
  BY <1>2, <1>3, AwaitedCases

(* A caller that waits is answered by the first command if it is a write of *)
(* its key, and waits on otherwise.                                        *)
LEMMA AwaitedHead ==
    ASSUME NEW s \in Seq(Command), s # <<>>, NEW k
    PROVE  Awaited(s, k, 0) = IF s[1].op = "Write" /\ s[1].key = k THEN s[1].value
                              ELSE Awaited(Tail(s), k, 0)
<1>1. /\ \A j \in Writes(s, k) : j \in Nat \ {0}
      /\ 1 \in Writes(s, k) <=> s[1].op = "Write" /\ s[1].key = k
  BY WritesTail
<1>2. CASE s[1].op = "Write" /\ s[1].key = k
  <2>1. 1 \in Writes(s, k) /\ 1 > 0 /\ \A l \in Writes(s, k) : l > 0 => 1 <= l
    BY <1>1, <1>2
  <2>2. Awaited(s, k, 0) = s[1].value
    BY <2>1, AwaitedFrom
  <2> QED
    BY <1>2, <2>2
<1>3. CASE ~(s[1].op = "Write" /\ s[1].key = k)
  <2>1. Awaited(Tail(s), k, 1 - 1) = Awaited(s, k, 1)
    BY AwaitedTail
  <2>2. {j \in Writes(s, k) : j > 0} = {j \in Writes(s, k) : j > 1}
    BY <1>1, <1>3
  <2>3. Awaited(s, k, 0) = Awaited(s, k, 1)
    BY <2>2, Zenon DEF Awaited
  <2>4. 1 - 1 = 0
    OBVIOUS
  <2> QED
    BY <1>3, <2>1, <2>3, <2>4
<1> QED
  BY <1>2, <1>3

(* What is seen is a value or None; what is awaited is a value or a mark. *)
LEMMA SeenType ==
    ASSUME NEW d \in [Key -> Value \cup {None}], NEW s \in Seq(Command), NEW k \in Key,
           NEW i \in Nat
    PROVE  Seen(d, s, k, i) \in Value \cup {None}
<1>1. \A j \in Writes(s, k) : s[j].value \in Value
  BY DEF Writes, Command
<1>2. CASE \A l \in Writes(s, k) : ~(l < i)
  BY <1>2, SeenNone
<1>3. CASE \E j \in Writes(s, k) : j < i /\ \A l \in Writes(s, k) : l < i => l <= j
  BY <1>1, <1>3, SeenFrom
<1> QED
  BY <1>2, <1>3, SeenCases

(* A caller that waits for k gets a value, or still waits. *)
LEMMA AwaitedType ==
    ASSUME NEW s \in Seq(Command), NEW k \in Key, NEW i \in Nat
    PROVE  Awaited(s, k, i) \in Value \cup {WaitsFor(k)}
<1>1. \A j \in Writes(s, k) : s[j].value \in Value
  BY DEF Writes, Command
<1>2. CASE \A l \in Writes(s, k) : ~(l > i)
  BY <1>2, AwaitedNone
<1>3. CASE \E j \in Writes(s, k) : j > i /\ \A l \in Writes(s, k) : l > i => j <= l
  BY <1>1, <1>3, AwaitedFrom
<1> QED
  BY <1>2, <1>3, AwaitedCases
-----------------------------------------------------------------------------
(* Each call has one command: it is queued, or the task owes it an answer,  *)
(* or it was answered.                                                     *)
CallInv ==
    \A c \in Call :
        /\ \A i, j \in Queued(c) : i = j
        /\ \A k, l \in Owed(c) : k = l
        /\ Queued(c) = {} \/ Owed(c) = {}
        /\ reply[c] = NotCalled => Queued(c) = {} /\ Owed(c) = {}
        /\ reply[c] = Sent => Queued(c) # {} \/ Owed(c) # {}

(* The three things the task may do with the first command: write, answer   *)
(* its caller, or leave an obligation.                                     *)
Writing ==
    LET cmd == channel[1]
    IN  /\ cmd.op = "Write" /\ cmd.key \in Key /\ cmd.value \in Value
        /\ db' = [db EXCEPT ![cmd.key] = cmd.value]
        /\ obligations' = [obligations EXCEPT ![cmd.key] = <<>>]
        /\ \A c \in Call :
              reply'[c] = IF cmd.key \in Owed(c) /\ reply[c] = Sent THEN cmd.value ELSE reply[c]

Answering ==
    LET cmd == channel[1]
    IN  /\ cmd.op # "Write" /\ cmd.key \in Key /\ cmd.sender \in Call
        /\ cmd.op = "NotifyRead" => db[cmd.key] # None
        /\ db' = db /\ obligations' = obligations
        /\ \A c \in Call :
              reply'[c] = IF c = cmd.sender /\ reply[c] = Sent THEN db[cmd.key] ELSE reply[c]

Registering ==
    LET cmd == channel[1]
    IN  /\ cmd.op = "NotifyRead" /\ cmd.key \in Key /\ cmd.sender \in Waiter
        /\ db[cmd.key] = None /\ db' = db /\ reply' = reply
        /\ obligations' = [obligations EXCEPT ![cmd.key] = Append(@, cmd.sender)]

(* Serve does one of them. *)
LEMMA ServeEffect ==
    ASSUME TypeOK, Serve
    PROVE  /\ channel # <<>> /\ channel' = Tail(channel)
           /\ Writing \/ Answering \/ Registering
<1> DEFINE cmd == Head(channel)
<1>1. channel # <<>> /\ channel' = Tail(channel)
  BY DEF Serve
<1>2. cmd \in Command /\ cmd = channel[1]
  BY <1>1, Served
<1> HIDE DEF cmd
<1>3. CASE ServeWrite(cmd)
  <2>1. cmd.op = "Write" /\ cmd.key \in Key /\ cmd.value \in Value
    BY <1>2, <1>3 DEF ServeWrite, Command
  <2>2. Answer(obligations[cmd.key], cmd.value)
    BY <1>3 DEF ServeWrite
  <2>3. \A c \in Call : cmd.key \in Owed(c) <=>
            \E i \in DOMAIN obligations[cmd.key] : obligations[cmd.key][i] = c
    BY <2>1 DEF Owed
  <2>4. \A c \in Call :
            reply'[c] = IF cmd.key \in Owed(c) /\ reply[c] = Sent THEN cmd.value ELSE reply[c]
    BY <2>2, <2>3 DEF Answer
  <2>5. /\ db' = [db EXCEPT ![cmd.key] = cmd.value]
        /\ obligations' = [obligations EXCEPT ![cmd.key] = <<>>]
    BY <1>3, Zenon DEF ServeWrite
  <2> QED
    BY <1>1, <1>2, <2>1, <2>4, <2>5, Zenon DEF Writing
<1>4. ASSUME NEW q \in Call, NEW v, Answer(<<q>>, v), NEW c \in Call
      PROVE  reply'[c] = IF c = q /\ reply[c] = Sent THEN v ELSE reply[c]
  <2>1. (\E i \in DOMAIN <<q>> : <<q>>[i] = c) <=> c = q
    OBVIOUS
  <2> QED
    BY <1>4, <2>1 DEF Answer
<1>5. CASE ServeRead(cmd)
  <2>1. cmd.op = "Read" /\ cmd.key \in Key /\ cmd.sender \in Call
    BY <1>2, <1>5 DEF ServeRead, Command, Call
  <2>2. Answer(<<cmd.sender>>, db[cmd.key]) /\ db' = db /\ obligations' = obligations
    BY <1>5 DEF ServeRead
  <2>3. \A c \in Call :
            reply'[c] = IF c = cmd.sender /\ reply[c] = Sent THEN db[cmd.key] ELSE reply[c]
    BY <1>4, <2>1, <2>2
  <2>4. cmd.op # "Write" /\ cmd.op # "NotifyRead"
    BY <2>1
  <2> QED
    BY <1>1, <1>2, <2>1, <2>2, <2>3, <2>4, Zenon DEF Answering
<1>6. CASE ServeNotifyRead(cmd)
  <2>1. cmd.op = "NotifyRead" /\ cmd.key \in Key /\ cmd.sender \in Waiter
    BY <1>2, <1>6 DEF ServeNotifyRead, Command
  <2>2. CASE db[cmd.key] = None
    <3>1. /\ db' = db /\ reply' = reply
          /\ obligations' = [obligations EXCEPT ![cmd.key] = Append(@, cmd.sender)]
      BY <1>6, <2>2, Zenon DEF ServeNotifyRead
    <3> QED
      BY <1>1, <1>2, <2>1, <2>2, <3>1, Zenon DEF Registering
  <2>3. CASE db[cmd.key] # None
    <3>1. Answer(<<cmd.sender>>, db[cmd.key]) /\ db' = db /\ obligations' = obligations
      BY <1>6, <2>3, Zenon DEF ServeNotifyRead
    <3>2. cmd.sender \in Call /\ cmd.op # "Write"
      BY <2>1 DEF Call
    <3>3. \A c \in Call :
              reply'[c] = IF c = cmd.sender /\ reply[c] = Sent THEN db[cmd.key] ELSE reply[c]
      BY <1>4, <3>1, <3>2
    <3> QED
      BY <1>1, <1>2, <2>1, <2>3, <3>1, <3>2, <3>3, Zenon DEF Answering
  <2> QED
    BY <2>2, <2>3
<1> QED
  BY <1>3, <1>5, <1>6 DEF Serve, cmd

(* A call is queued where its command is appended. *)
LEMMA QueuedAppend ==
    ASSUME TypeOK, NEW cmd \in Command, channel' = Append(channel, cmd), NEW c
    PROVE  Queued(c)' = Queued(c) \cup
               (IF cmd.op # "Write" /\ cmd.sender = c THEN {Len(channel) + 1} ELSE {})
<1> DEFINE n == Len(channel)
<1>1. n \in Nat /\ DOMAIN channel = 1..n /\ DOMAIN channel' = 1..(n + 1)
  BY DEF TypeOK
<1>2. (\A j \in 1..n : channel'[j] = channel[j]) /\ channel'[n + 1] = cmd
  BY DEF TypeOK
<1> HIDE DEF n
<1>3. \A i \in 1..n : i \in Queued(c)' <=> i \in Queued(c)
  BY <1>1, <1>2 DEF Queued
<1>4. n + 1 \in Queued(c)' <=> cmd.op # "Write" /\ cmd.sender = c
  BY <1>1, <1>2 DEF Queued
<1>5. Queued(c) \subseteq 1..n /\ Queued(c)' \subseteq 1..(n + 1)
  BY <1>1 DEF Queued
<1> QED
  BY <1>1, <1>3, <1>4, <1>5 DEF n

(* The others move up when the first command is taken. *)
LEMMA QueuedTail ==
    ASSUME TypeOK, channel # <<>>, channel' = Tail(channel), NEW c
    PROVE  /\ \A i \in Queued(c)' : i \in Nat \ {0} /\ i + 1 \in Queued(c)
           /\ \A i \in Queued(c) : i \in Nat \ {0} /\ (i # 1 => i - 1 \in Queued(c)')
           /\ \A i \in Queued(c) : i # 1 => channel'[i - 1] = channel[i]
           /\ 1 \in Queued(c) <=> channel[1].op # "Write" /\ channel[1].sender = c
<1> DEFINE n == Len(channel)
<1>1. n \in Nat \ {0} /\ DOMAIN channel = 1..n /\ DOMAIN channel' = 1..(n - 1)
  BY DEF TypeOK
<1>2. \A j \in 1..(n - 1) : channel'[j] = channel[j + 1]
  BY DEF TypeOK
<1> HIDE DEF n
<1>3. \A i \in Queued(c)' : i \in Nat \ {0} /\ i + 1 \in Queued(c)
  BY <1>1, <1>2 DEF Queued
<1>4. \A i \in Queued(c) : i \in Nat \ {0}
  BY <1>1 DEF Queued
<1>5. \A i \in Queued(c) : i # 1 => i - 1 \in Queued(c)' /\ channel'[i - 1] = channel[i]
  <2> SUFFICES ASSUME NEW i \in Queued(c), i # 1
               PROVE  i - 1 \in Queued(c)' /\ channel'[i - 1] = channel[i]
    OBVIOUS
  <2>1. i \in 2..n /\ channel[i].op # "Write" /\ channel[i].sender = c
    BY <1>1 DEF Queued
  <2>2. i - 1 \in 1..(n - 1) /\ (i - 1) + 1 = i
    BY <1>1, <2>1
  <2>3. channel'[i - 1] = channel[i]
    BY <1>2, <2>2
  <2> QED
    BY <1>1, <2>1, <2>2, <2>3 DEF Queued
<1>6. 1 \in Queued(c) <=> channel[1].op # "Write" /\ channel[1].sender = c
  BY <1>1 DEF Queued
<1> QED
  BY <1>3, <1>4, <1>5, <1>6

(* A write discharges the obligations of its key. *)
LEMMA OwedWriting ==
    ASSUME TypeOK, Writing, NEW c
    PROVE  Owed(c)' = Owed(c) \ {channel[1].key}
<1> DEFINE k == channel[1].key
<1>1. k \in Key /\ obligations' = [obligations EXCEPT ![k] = <<>>]
  BY Zenon DEF Writing
<1> HIDE DEF k
<1>2. obligations'[k] = <<>> /\ \A l \in Key : l # k => obligations'[l] = obligations[l]
  BY <1>1 DEF TypeOK
<1>3. k \notin Owed(c)'
  BY <1>2 DEF Owed
<1>4. \A l \in Key : l # k => (l \in Owed(c)' <=> l \in Owed(c))
  BY <1>2 DEF Owed
<1>5. Owed(c) \subseteq Key /\ Owed(c)' \subseteq Key
  BY DEF Owed
<1> QED
  BY <1>3, <1>4, <1>5 DEF k

(* A notify_read of an absent key leaves one. *)
LEMMA OwedRegistering ==
    ASSUME TypeOK, Registering, NEW c
    PROVE  Owed(c)' = Owed(c) \cup
               (IF c = channel[1].sender THEN {channel[1].key} ELSE {})
<1> DEFINE k == channel[1].key
           w == channel[1].sender
<1>1. k \in Key /\ w \in Waiter /\ obligations' = [obligations EXCEPT ![k] = Append(@, w)]
  BY Zenon DEF Registering
<1> HIDE DEF k, w
<1> DEFINE o == obligations[k]
<1>2. o \in Seq(Waiter) /\ obligations'[k] = Append(o, w)
  BY <1>1 DEF TypeOK
<1>3. \A l \in Key : l # k => obligations'[l] = obligations[l]
  BY <1>1 DEF TypeOK
<1> HIDE DEF o
<1>4. (\E i \in DOMAIN Append(o, w) : Append(o, w)[i] = c)
          <=> (\E i \in DOMAIN o : o[i] = c) \/ w = c
  <2>1. Len(o) \in Nat /\ DOMAIN o = 1..Len(o) /\ DOMAIN Append(o, w) = 1..(Len(o) + 1)
    BY <1>1, <1>2
  <2>2. (\A i \in 1..Len(o) : Append(o, w)[i] = o[i]) /\ Append(o, w)[Len(o) + 1] = w
    BY <1>1, <1>2
  <2> QED
    BY <2>1, <2>2
<1>5. k \in Owed(c)' <=> k \in Owed(c) \/ w = c
  BY <1>1, <1>2, <1>4 DEF Owed, o
<1>6. \A l \in Key : l # k => (l \in Owed(c)' <=> l \in Owed(c))
  BY <1>3 DEF Owed
<1>7. Owed(c) \subseteq Key /\ Owed(c)' \subseteq Key
  BY DEF Owed
<1> QED
  BY <1>1, <1>5, <1>6, <1>7 DEF k, w

(* The answers that Serve gives end the wait. *)
LEMMA AnswersEnd == \A v \in Value \cup {None} : v # Sent /\ v # NotCalled /\ v # Dropped
BY StoreAssumption

(* A call that is made appends its command. *)
LEMMA CallQueues ==
    ASSUME TypeOK, CallInv, NEW q \in Call, NEW cmd \in Command,
           cmd.op # "Write", cmd.sender = q,
           reply[q] = NotCalled, reply' = [reply EXCEPT ![q] = Sent],
           channel' = Append(channel, cmd), obligations' = obligations
    PROVE  CallInv'
<1> SUFFICES ASSUME NEW c \in Call
             PROVE  /\ \A i, j \in Queued(c)' : i = j
                    /\ \A k, l \in Owed(c)' : k = l
                    /\ Queued(c)' = {} \/ Owed(c)' = {}
                    /\ reply'[c] = NotCalled => Queued(c)' = {} /\ Owed(c)' = {}
                    /\ reply'[c] = Sent => Queued(c)' # {} \/ Owed(c)' # {}
  BY DEF CallInv
<1>1. Owed(c)' = Owed(c)
  BY DEF Owed
<1>2. CASE c = q
  <2>1. Queued(c) = {} /\ Owed(c) = {}
    BY <1>2 DEF CallInv
  <2>2. Queued(c)' = {Len(channel) + 1} /\ reply'[c] = Sent
    BY <1>2, <2>1, QueuedAppend DEF TypeOK
  <2> QED
    BY <1>1, <2>1, <2>2, CallStates
<1>3. CASE c # q
  <2>1. Queued(c)' = Queued(c) \cup
             (IF cmd.op # "Write" /\ cmd.sender = c THEN {Len(channel) + 1} ELSE {})
    BY QueuedAppend
  <2>2. Queued(c)' = Queued(c) \cup {}
    BY <1>3, <2>1, Zenon
  <2>3. reply'[c] = reply[c]
    BY <1>3 DEF TypeOK
  <2> QED
    BY <1>1, <2>2, <2>3 DEF CallInv
<1> QED
  BY <1>2, <1>3

(* Serve moves a call from the channel to its answer or to the obligations. *)
LEMMA ServeCalls == ASSUME TypeOK, CallInv, Serve PROVE CallInv'
<1>0. channel # <<>> /\ channel' = Tail(channel) /\ (Writing \/ Answering \/ Registering)
  BY ServeEffect
<1> SUFFICES ASSUME NEW c \in Call
             PROVE  /\ \A i, j \in Queued(c)' : i = j
                    /\ \A k, l \in Owed(c)' : k = l
                    /\ Queued(c)' = {} \/ Owed(c)' = {}
                    /\ reply'[c] = NotCalled => Queued(c)' = {} /\ Owed(c)' = {}
                    /\ reply'[c] = Sent => Queued(c)' # {} \/ Owed(c)' # {}
  BY DEF CallInv
<1>1. /\ \A i \in Queued(c)' : i \in Nat \ {0} /\ i + 1 \in Queued(c)
      /\ \A i \in Queued(c) : i \in Nat \ {0} /\ (i # 1 => i - 1 \in Queued(c)')
      /\ 1 \in Queued(c) <=> channel[1].op # "Write" /\ channel[1].sender = c
  BY <1>0, QueuedTail
<1>2. /\ \A i, j \in Queued(c) : i = j
      /\ \A k, l \in Owed(c) : k = l
      /\ Queued(c) = {} \/ Owed(c) = {}
      /\ reply[c] = NotCalled => Queued(c) = {} /\ Owed(c) = {}
      /\ reply[c] = Sent => Queued(c) # {} \/ Owed(c) # {}
  BY DEF CallInv
<1>3. \A i, j \in Queued(c)' : i = j
  <2> SUFFICES ASSUME NEW i \in Queued(c)', NEW j \in Queued(c)' PROVE i = j
    OBVIOUS
  <2>1. i \in Nat /\ j \in Nat /\ i + 1 = j + 1
    BY <1>1, <1>2
  <2> QED
    BY <2>1
<1>4. Queued(c) = {} => Queued(c)' = {}
  BY <1>1
<1>5. 1 \in Queued(c) => Queued(c)' = {} /\ Owed(c) = {}
  <2> SUFFICES ASSUME 1 \in Queued(c) PROVE Queued(c)' = {} /\ Owed(c) = {}
    OBVIOUS
  <2>1. \A i \in Queued(c)' : i \in Nat \ {0} /\ i + 1 = 1
    BY <1>1, <1>2
  <2> QED
    BY <1>2, <2>1
<1>6. 1 \notin Queued(c) /\ Queued(c) # {} => Queued(c)' # {}
  BY <1>1
<1>7. CASE Writing
  <2>1. Owed(c)' = Owed(c) \ {channel[1].key}
    BY <1>7, OwedWriting
  <2>2. 1 \notin Queued(c)
    BY <1>1, <1>7 DEF Writing
  <2>3. /\ channel[1].value \in Value
        /\ reply'[c] = IF channel[1].key \in Owed(c) /\ reply[c] = Sent
                       THEN channel[1].value ELSE reply[c]
    BY <1>7, Zenon DEF Writing
  <2>4. channel[1].value # Sent /\ channel[1].value # NotCalled
    BY <2>3, AnswersEnd
  <2> QED
    BY <1>2, <1>3, <1>4, <1>6, <2>1, <2>2, <2>3, <2>4
<1>8. CASE Answering
  <2>1. Owed(c)' = Owed(c)
    BY <1>8 DEF Answering, Owed
  <2>2. /\ channel[1].key \in Key /\ channel[1].op # "Write"
        /\ reply'[c] = IF c = channel[1].sender /\ reply[c] = Sent
                       THEN db[channel[1].key] ELSE reply[c]
    BY <1>8, Zenon DEF Answering
  <2>3. db[channel[1].key] # Sent /\ db[channel[1].key] # NotCalled
    BY <2>2, AnswersEnd DEF TypeOK
  <2>4. 1 \in Queued(c) <=> c = channel[1].sender
    BY <1>1, <2>2
  <2>5. CASE 1 \in Queued(c)
    BY <1>2, <1>5, <2>1, <2>2, <2>3, <2>4, <2>5
  <2>6. CASE 1 \notin Queued(c)
    BY <1>2, <1>3, <1>4, <1>6, <2>1, <2>2, <2>4, <2>6
  <2> QED
    BY <2>5, <2>6
<1>9. CASE Registering
  <2>1. Owed(c)' = Owed(c) \cup (IF c = channel[1].sender THEN {channel[1].key} ELSE {})
    BY <1>9, OwedRegistering
  <2>2. reply' = reply /\ channel[1].op # "Write"
    BY <1>9 DEF Registering
  <2>3. 1 \in Queued(c) <=> c = channel[1].sender
    BY <1>1, <2>2
  <2>4. CASE 1 \in Queued(c)
    BY <1>2, <1>5, <2>1, <2>2, <2>3, <2>4
  <2>5. CASE 1 \notin Queued(c)
    BY <1>2, <1>3, <1>4, <1>6, <2>1, <2>2, <2>3, <2>5
  <2> QED
    BY <2>4, <2>5
<1> QED
  BY <1>0, <1>7, <1>8, <1>9

(* CallInv is inductive. *)
LEMMA CallInvariance == Spec => []CallInv
<1>1. Init => CallInv
  <2> SUFFICES ASSUME Init PROVE CallInv
    OBVIOUS
  <2>1. channel = <<>> /\ \A k \in Key : obligations[k] = <<>>
    BY DEF Init
  <2>2. \A c \in Call : reply[c] = NotCalled
    BY DEF Init
  <2>3. \A c \in Call : Queued(c) = {} /\ Owed(c) = {}
    BY <2>1 DEF Queued, Owed
  <2> QED
    BY <2>2, <2>3, CallStates DEF CallInv
<1>2. TypeOK /\ CallInv /\ [Next]_vars => CallInv'
  <2> SUFFICES ASSUME TypeOK, CallInv, [Next]_vars PROVE CallInv'
    OBVIOUS
  <2>1. ASSUME NEW k \in Key, NEW v \in Value, write(k, v) PROVE CallInv'
    <3> DEFINE cmd == [op |-> "Write", key |-> k, value |-> v]
    <3>1. cmd \in Command /\ cmd.op = "Write"
      BY DEF Command
    <3>2. channel' = Append(channel, cmd) /\ obligations' = obligations /\ reply' = reply
      BY <2>1, Zenon DEF write, Send
    <3> HIDE DEF cmd
    <3>3. ASSUME NEW c \in Call PROVE Queued(c)' = Queued(c)
      <4>1. Queued(c)' = Queued(c) \cup
                 (IF cmd.op # "Write" /\ cmd.sender = c THEN {Len(channel) + 1} ELSE {})
        BY <3>1, <3>2, QueuedAppend
      <4>2. Queued(c)' = Queued(c) \cup {}
        BY <3>1, <4>1, Zenon
      <4> QED
        BY <4>2
    <3>4. \A c \in Call : Owed(c)' = Owed(c)
      BY <3>2 DEF Owed
    <3> QED
      BY <3>2, <3>3, <3>4 DEF CallInv
  <2>2. ASSUME NEW k \in Key, NEW q \in Reader, read(q, k) PROVE CallInv'
    <3> DEFINE cmd == [op |-> "Read", key |-> k, sender |-> q]
    <3>1. cmd \in Command /\ cmd.op # "Write" /\ cmd.sender = q /\ q \in Call
      BY DEF Command, Call
    <3>2. /\ channel' = Append(channel, cmd) /\ obligations' = obligations
          /\ reply[q] = NotCalled /\ reply' = [reply EXCEPT ![q] = Sent]
      BY <2>2, Zenon DEF read, Send
    <3> HIDE DEF cmd
    <3> QED
      BY <3>1, <3>2, CallQueues
  <2>3. ASSUME NEW k \in Key, NEW q \in Waiter, notify_read(q, k) PROVE CallInv'
    <3> DEFINE cmd == [op |-> "NotifyRead", key |-> k, sender |-> q]
    <3>1. cmd \in Command /\ cmd.op # "Write" /\ cmd.sender = q /\ q \in Call
      BY DEF Command, Call
    <3>2. /\ channel' = Append(channel, cmd) /\ obligations' = obligations
          /\ reply[q] = NotCalled /\ reply' = [reply EXCEPT ![q] = Sent]
      BY <2>3, Zenon DEF notify_read, Send
    <3> HIDE DEF cmd
    <3> QED
      BY <3>1, <3>2, CallQueues
  <2>4. ASSUME NEW q \in Waiter, Drop(q) PROVE CallInv'
    <3>1. /\ reply' = [reply EXCEPT ![q] = Dropped] /\ channel' = channel
          /\ obligations' = obligations
      BY <2>4, Zenon DEF Drop
    <3>2. \A c \in Call : Queued(c)' = Queued(c) /\ Owed(c)' = Owed(c)
      BY <3>1 DEF Queued, Owed
    <3>3. \A c \in Call : reply'[c] = reply[c] \/ reply'[c] = Dropped
      BY <3>1 DEF TypeOK
    <3>4. Dropped # NotCalled /\ Dropped # Sent
      <4>1. Dropped[1] # NotCalled[1]
        BY DEF Dropped, NotCalled
      <4> QED
        BY <4>1, CallStates
    <3> QED
      BY <3>2, <3>3, <3>4 DEF CallInv
  <2>5. CASE Serve
    BY <2>5, ServeCalls
  <2>6. CASE UNCHANGED vars
    <3>1. reply' = reply /\ \A c \in Call : Queued(c)' = Queued(c) /\ Owed(c)' = Owed(c)
      BY <2>6 DEF vars, Queued, Owed
    <3> QED
      BY <3>1 DEF CallInv
  <2> QED
    BY <2>1, <2>2, <2>3, <2>4, <2>5, <2>6, Zenon DEF Next
<1> QED
  BY <1>1, <1>2, StoreTypeCorrect, PTL DEF Spec
-----------------------------------------------------------------------------
(* The marks of waiting callers differ from each other and from the other   *)
(* states of a call.                                                       *)
LEMMA MarksDiffer ==
    /\ \A k, l : WaitsFor(k) = WaitsFor(l) => k = l
    /\ \A k : WaitsFor(k) # NotCalled /\ WaitsFor(k) # Dropped /\ WaitsFor(k) # Sent
<1>1. \A k, l : WaitsFor(k) = WaitsFor(l) => k = l
  BY DEF WaitsFor
<1>2. \A k : Len(WaitsFor(k)) = 2
  BY DEF WaitsFor
<1>3. Len(NotCalled) = 1 /\ Len(Dropped) = 1 /\ Len(Sent) = 1
  BY DEF NotCalled, Dropped, Sent
<1> QED
  BY <1>1, <1>2, <1>3

(* The settled answer of a call, by where the call is. *)
LEMMA SettledReply == ASSUME NEW c \in Call, reply[c] # Sent PROVE Settled(c) = reply[c]
BY DEF Settled

(* Of a call whose command is queued, what the queue says. *)
LEMMA SettledQueued ==
    ASSUME CallInv, NEW c \in Call, reply[c] = Sent, NEW i \in Queued(c)
    PROVE  Settled(c) = FromQueue(i)
<1>1. Settled(c) = FromQueue(CHOOSE j \in Queued(c) : TRUE)
  BY DEF Settled
<1>2. (CHOOSE j \in Queued(c) : TRUE) = i
  BY DEF CallInv
<1> QED
  BY <1>1, <1>2

(* Of a call the task owes an answer, the next write to its key. *)
LEMMA SettledOwed ==
    ASSUME CallInv, NEW c \in Call, reply[c] = Sent, NEW k \in Owed(c)
    PROVE  Settled(c) = Awaited(channel, k, 0)
<1>0. Queued(c) = {}
  BY DEF CallInv
<1>1. Settled(c) = Awaited(channel, CHOOSE l \in Owed(c) : TRUE, 0)
  BY <1>0 DEF Settled
<1>2. (CHOOSE l \in Owed(c) : TRUE) = k
  BY DEF CallInv
<1> QED
  BY <1>1, <1>2

(* The same after a step. *)
LEMMA SettledReplyNext == ASSUME NEW c \in Call, reply'[c] # Sent PROVE Settled(c)' = reply'[c]
BY DEF Settled

(* After a step, of a call whose command is then queued. *)
LEMMA SettledQueuedNext ==
    ASSUME CallInv', NEW c \in Call, reply'[c] = Sent, NEW i \in Queued(c)'
    PROVE  Settled(c)' = FromQueue(i)'
<1>1. \A j \in Queued(c)' : j = i
  BY DEF CallInv
<1>2. (CHOOSE j \in Queued(c)' : TRUE) = i
  BY <1>1
<1>3. Settled(c)' = FromQueue(CHOOSE j \in Queued(c) : TRUE)'
  BY DEF Settled
<1> QED
  BY <1>2, <1>3 DEF FromQueue

(* After a step, of a call the task then owes an answer. *)
LEMMA SettledOwedNext ==
    ASSUME CallInv', NEW c \in Call, reply'[c] = Sent, NEW k \in Owed(c)'
    PROVE  Settled(c)' = Awaited(channel', k, 0)
<1>0. Queued(c)' = {}
  BY DEF CallInv
<1>1. \A l \in Owed(c)' : l = k
  BY DEF CallInv
<1>2. (CHOOSE l \in Owed(c)' : TRUE) = k
  BY <1>1
<1>3. Settled(c)' = Awaited(channel', CHOOSE l \in Owed(c)' : TRUE, 0)
  BY <1>0 DEF Settled
<1> QED
  BY <1>2, <1>3

(* A waiting call is queued or owed an answer. *)
LEMMA WaitingCall ==
    ASSUME CallInv, NEW c \in Call, reply[c] = Sent
    PROVE  (\E i \in Queued(c) : TRUE) \/ (\E k \in Owed(c) : TRUE)
BY DEF CallInv

(* The command of a queued call. *)
LEMMA QueuedCommand ==
    ASSUME TypeOK, NEW c, NEW i \in Queued(c)
    PROVE  /\ i \in 1..Len(channel) /\ Len(channel) \in Nat
           /\ channel[i] \in Command /\ channel[i].key \in Key
           /\ channel[i].op # "Write" /\ channel[i].sender = c
<1>1. i \in DOMAIN channel /\ channel[i].op # "Write" /\ channel[i].sender = c
  BY DEF Queued
<1>2. DOMAIN channel = 1..Len(channel) /\ Len(channel) \in Nat /\ channel[i] \in Command
  BY <1>1 DEF TypeOK
<1>3. channel[i].key \in Key
  BY <1>2 DEF Command
<1> QED
  BY <1>1, <1>2, <1>3

(* A waiting call is settled on a value, None or the wait for some key. *)
LEMMA SettledType ==
    ASSUME TypeOK, CallInv, NEW c \in Call, reply[c] = Sent
    PROVE  Settled(c) \in Value \cup {None} \/ \E k \in Key : Settled(c) = WaitsFor(k)
<1>0. db \in [Key -> Value \cup {None}] /\ channel \in Seq(Command)
  BY DEF TypeOK
<1>1. ASSUME NEW i \in Queued(c)
      PROVE  Settled(c) \in Value \cup {None} \/ \E k \in Key : Settled(c) = WaitsFor(k)
  <2> DEFINE k == channel[i].key
  <2>1. i \in Nat /\ k \in Key
    BY QueuedCommand
  <2>2. Settled(c) = FromQueue(i)
    BY SettledQueued
  <2> HIDE DEF k
  <2>3. Settled(c) = Seen(db, channel, k, i) \/ Settled(c) = Awaited(channel, k, i)
    BY <2>2 DEF FromQueue, k
  <2> QED
    BY <1>0, <2>1, <2>3, SeenType, AwaitedType
<1>2. ASSUME NEW k \in Owed(c)
      PROVE  Settled(c) \in Value \cup {None} \/ \E l \in Key : Settled(c) = WaitsFor(l)
  <2>1. k \in Key
    BY DEF Owed
  <2> QED
    BY <1>0, <2>1, SettledOwed, AwaitedType
<1> QED
  BY <1>1, <1>2, WaitingCall

(* A command at the end of the channel changes what a caller waits for only *)
(* if it is a write, and the caller was waiting for its key.               *)
LEMMA GrowAwaited ==
    ASSUME NEW s \in Seq(Command), NEW cmd \in Command, NEW k \in Key, NEW i \in 0..Len(s)
    PROVE  Awaited(Append(s, cmd), k, i) =
               IF cmd.op = "Write" /\ Awaited(s, k, i) = WaitsFor(cmd.key) THEN cmd.value
               ELSE Awaited(s, k, i)
<1>1. CASE /\ Awaited(s, k, i) = WaitsFor(k)
           /\ Awaited(Append(s, cmd), k, i) =
                  IF cmd.op = "Write" /\ cmd.key = k THEN cmd.value ELSE WaitsFor(k)
  <2>1. Awaited(s, k, i) = WaitsFor(cmd.key) <=> cmd.key = k
    BY <1>1, MarksDiffer
  <2> QED
    BY <1>1, <2>1
<1>2. CASE /\ \E j \in Writes(s, k) : Awaited(s, k, i) = s[j].value
           /\ Awaited(Append(s, cmd), k, i) = Awaited(s, k, i)
  <2>1. Awaited(s, k, i) \in Value
    BY <1>2 DEF Writes, Command
  <2>2. cmd.op = "Write" => cmd.key \in Key
    BY DEF Command
  <2>3. cmd.op = "Write" => Awaited(s, k, i) # WaitsFor(cmd.key)
    BY <2>1, <2>2, ValueAssumption
  <2> QED
    BY <1>2, <2>3
<1> QED
  BY <1>1, <1>2, AwaitedAppend, Zenon

(* The same for the settled answers of the calls made before. *)
LEMMA GrowSettled ==
    ASSUME TypeOK, CallInv, CallInv', NEW cmd \in Command,
           channel' = Append(channel, cmd), db' = db, obligations' = obligations,
           NEW c \in Call, reply'[c] = reply[c]
    PROVE  Settled(c)' =
               IF cmd.op = "Write" /\ Settled(c) = WaitsFor(cmd.key) THEN cmd.value
               ELSE Settled(c)
<1>0. channel \in Seq(Command) /\ Len(channel) \in Nat
  BY DEF TypeOK
<1>key. cmd.op = "Write" => cmd.key \in Key
  BY DEF Command
<1>1. CASE reply[c] # Sent
  <2>1. Settled(c) = reply[c] /\ Settled(c)' = reply[c]
    BY <1>1, SettledReply, SettledReplyNext
  <2>2. reply[c] \in {NotCalled, Sent, Dropped} \cup (Value \cup {None})
    BY DEF TypeOK
  <2>3. cmd.op = "Write" => reply[c] # WaitsFor(cmd.key)
    BY <1>key, <2>2, MarksDiffer, ValueAssumption
  <2> QED
    BY <2>1, <2>3
<1>2. ASSUME reply[c] = Sent, NEW i \in Queued(c)
      PROVE  Settled(c)' =
                 IF cmd.op = "Write" /\ Settled(c) = WaitsFor(cmd.key) THEN cmd.value
                 ELSE Settled(c)
  <2> DEFINE k == channel[i].key
             found == Seen(db, channel, k, i)
  <2>1. i \in 1..Len(channel) /\ k \in Key
    BY QueuedCommand
  <2>2. i \in Queued(c)'
    BY QueuedAppend
  <2>3. channel'[i] = channel[i]
    BY <1>0, <2>1
  <2>4. Settled(c) = FromQueue(i) /\ Settled(c)' = FromQueue(i)'
    BY <1>2, <2>2, SettledQueued, SettledQueuedNext
  <2>5. Seen(db', channel', k, i) = found
    BY <1>0, <2>1, SeenAppend
  <2>6. Settled(c) = IF channel[i].op = "NotifyRead" /\ found = None
                     THEN Awaited(channel, k, i) ELSE found
    BY <2>4, Zenon DEF FromQueue
  <2>7. FromQueue(i)' = IF channel'[i].op = "NotifyRead"
                             /\ Seen(db', channel', channel'[i].key, i) = None
                        THEN Awaited(channel', channel'[i].key, i)
                        ELSE Seen(db', channel', channel'[i].key, i)
    BY DEF FromQueue
  <2>8. Settled(c)' = IF channel[i].op = "NotifyRead" /\ found = None
                      THEN Awaited(channel', k, i) ELSE found
    BY <2>3, <2>4, <2>5, <2>7, Zenon
  <2>9. found \in Value \cup {None}
    BY <1>0, <2>1, SeenType DEF TypeOK
  <2>10. cmd.op = "Write" => found # WaitsFor(cmd.key)
    BY <1>key, <2>9, ValueAssumption
  <2>11. Awaited(channel', k, i) =
             IF cmd.op = "Write" /\ Awaited(channel, k, i) = WaitsFor(cmd.key)
             THEN cmd.value ELSE Awaited(channel, k, i)
    BY <1>0, <2>1, GrowAwaited
  <2> HIDE DEF found, k
  <2>12. CASE channel[i].op = "NotifyRead" /\ found = None
    BY <2>6, <2>8, <2>11, <2>12, Zenon
  <2>13. CASE ~(channel[i].op = "NotifyRead" /\ found = None)
    BY <2>6, <2>8, <2>10, <2>13, Zenon
  <2> QED
    BY <2>12, <2>13
<1>3. ASSUME reply[c] = Sent, NEW k \in Owed(c)
      PROVE  Settled(c)' =
                 IF cmd.op = "Write" /\ Settled(c) = WaitsFor(cmd.key) THEN cmd.value
                 ELSE Settled(c)
  <2>1. k \in Key /\ k \in Owed(c)' /\ 0 \in 0..Len(channel)
    BY <1>0 DEF Owed
  <2>2. Settled(c) = Awaited(channel, k, 0) /\ Settled(c)' = Awaited(channel', k, 0)
    BY <1>3, <2>1, SettledOwed, SettledOwedNext
  <2>3. Awaited(channel', k, 0) =
            IF cmd.op = "Write" /\ Awaited(channel, k, 0) = WaitsFor(cmd.key)
            THEN cmd.value ELSE Awaited(channel, k, 0)
    BY <1>0, <2>1, GrowAwaited
  <2> QED
    BY <2>2, <2>3, Zenon
<1> QED
  BY <1>1, <1>2, <1>3, WaitingCall

(* Store::write takes effect when it is queued. *)
LEMMA WriteRefines ==
    ASSUME TypeOK, CallInv, CallInv', NEW k \in Key, NEW v \in Value, write(k, v)
    PROVE  Atomic!Write(k, v)
<1> DEFINE cmd == [op |-> "Write", key |-> k, value |-> v]
<1>1. cmd \in Command /\ cmd.op = "Write" /\ cmd.key = k /\ cmd.value = v
  BY DEF Command
<1>2. /\ channel' = Append(channel, cmd) /\ db' = db /\ obligations' = obligations
      /\ reply' = reply
  BY Zenon DEF write, Send
<1> HIDE DEF cmd
<1>3. channel \in Seq(Command) /\ Len(channel) \in Nat /\ Len(channel') + 1 = Len(channel) + 2
  BY <1>1, <1>2 DEF TypeOK
<1>4. \A l \in Key : Seen(db', channel', l, Len(channel') + 1) = IF l = k THEN v ELSE mem[l]
  <2> TAKE l \in Key
  <2>1. Seen(db, Append(channel, cmd), l, Len(channel) + 2) =
            IF cmd.op = "Write" /\ cmd.key = l THEN cmd.value
            ELSE Seen(db, channel, l, Len(channel) + 1)
    BY <1>1, <1>3, SeenLast
  <2>2. mem[l] = Seen(db, channel, l, Len(channel) + 1)
    BY DEF mem
  <2> QED
    BY <1>1, <1>2, <1>3, <2>1, <2>2
<1>5. mem' = [mem EXCEPT ![k] = v]
  <2>1. mem' = [l \in Key |-> Seen(db', channel', l, Len(channel') + 1)]
    BY DEF mem
  <2>2. mem = [l \in Key |-> mem[l]]
    BY DEF mem
  <2> QED
    BY <1>4, <2>1, <2>2
<1>6. \A c \in Call : Settled(c)' = IF Settled(c) = WaitsFor(k) THEN v ELSE Settled(c)
  BY <1>1, <1>2, GrowSettled
<1>7. answer' = [c \in DOMAIN answer |->
                    IF answer[c] = Atomic!WaitsFor(k) THEN v ELSE answer[c]]
  <2>1. DOMAIN answer = Call /\ \A c \in Call : answer[c] = Settled(c)
    BY DEF answer
  <2>2. answer' = [c \in Call |-> Settled(c)']
    BY DEF answer
  <2>3. Atomic!WaitsFor(k) = WaitsFor(k)
    BY DEF Atomic!WaitsFor, WaitsFor
  <2> QED
    BY <1>6, <2>1, <2>2, <2>3
<1> QED
  BY <1>5, <1>7 DEF Atomic!Write

(* What the atomic map answers the caller that queues cmd. *)
Got(cmd) ==
    IF cmd.op = "NotifyRead" /\ mem[cmd.key] = None THEN WaitsFor(cmd.key) ELSE mem[cmd.key]

(* A call takes effect when its command is queued: a read gets what the map *)
(* has, and so does a notify_read unless it has to wait.                   *)
LEMMA CallRefines ==
    ASSUME TypeOK, CallInv, CallInv', NEW k \in Key, NEW q \in Call,
           NEW cmd \in Command, cmd.op # "Write", cmd.key = k, cmd.sender = q,
           reply[q] = NotCalled, reply' = [reply EXCEPT ![q] = Sent],
           channel' = Append(channel, cmd), db' = db, obligations' = obligations
    PROVE  /\ mem' = mem /\ answer[q] = Atomic!NotCalled
           /\ answer' = [answer EXCEPT ![q] = Got(cmd)]
<1>0. PICK n \in Nat : n = Len(channel)
  BY DEF TypeOK
<1>1. /\ channel \in Seq(Command) /\ Len(channel') + 1 = n + 2
      /\ channel'[n + 1] = cmd
  BY <1>0 DEF TypeOK
<1>2. \A l \in Key : Seen(db', channel', l, Len(channel') + 1) = mem[l]
  <2> TAKE l \in Key
  <2>1. Seen(db, Append(channel, cmd), l, n + 2) =
            IF cmd.op = "Write" /\ cmd.key = l THEN cmd.value
            ELSE Seen(db, channel, l, n + 1)
    BY <1>0, <1>1, SeenLast
  <2>2. mem[l] = Seen(db, channel, l, n + 1)
    BY <1>0 DEF mem
  <2> QED
    BY <1>1, <2>1, <2>2
<1>3. mem' = mem
  <2>1. mem' = [l \in Key |-> Seen(db', channel', l, Len(channel') + 1)]
    BY DEF mem
  <2>2. mem = [l \in Key |-> mem[l]]
    BY DEF mem
  <2> QED
    BY <1>2, <2>1, <2>2
<1>4. \A c \in Call : c # q => Settled(c)' = Settled(c)
  <2> SUFFICES ASSUME NEW c \in Call, c # q PROVE Settled(c)' = Settled(c)
    OBVIOUS
  <2>1. reply'[c] = reply[c]
    BY DEF TypeOK
  <2> QED
    BY <2>1, GrowSettled
<1>5. Settled(q)' = Got(cmd)
  <2>1. reply'[q] = Sent
    BY DEF TypeOK
  <2>2. n + 1 \in Queued(q)'
    BY <1>0, QueuedAppend
  <2>3. Settled(q)' = FromQueue(n + 1)'
    BY <2>1, <2>2, SettledQueuedNext
  <2>4. FromQueue(n + 1)' = IF cmd.op = "NotifyRead" /\ Seen(db, channel', k, n + 1) = None
                            THEN Awaited(channel', k, n + 1)
                            ELSE Seen(db, channel', k, n + 1)
    BY <1>1 DEF FromQueue
  <2>5. Seen(db, channel', k, n + 1) = Seen(db, channel, k, n + 1)
    BY <1>0, <1>1, SeenAppend
  <2>6. Awaited(channel', k, n + 1) = WaitsFor(k)
    BY <1>0, <1>1, AwaitedLast
  <2>7. mem[k] = Seen(db, channel, k, n + 1)
    BY <1>0 DEF mem
  <2> QED
    BY <2>3, <2>4, <2>5, <2>6, <2>7 DEF Got
<1>6. answer[q] = Atomic!NotCalled
  <2>1. Settled(q) = NotCalled
    BY CallStates, SettledReply
  <2> QED
    BY <2>1, Zenon DEF answer, NotCalled, Atomic!NotCalled
<1>7. answer' = [answer EXCEPT ![q] = Got(cmd)]
  <2>1. answer' = [c \in Call |-> Settled(c)']
    BY DEF answer
  <2>2. answer = [c \in Call |-> Settled(c)]
    BY DEF answer
  <2> QED
    BY <1>4, <1>5, <2>1, <2>2
<1> QED
  BY <1>3, <1>6, <1>7

(* What is settled depends on the database, the queue, the obligations and *)
(* the caller's own reply.                                                 *)
LEMMA SettledSame ==
    ASSUME CallInv, CallInv', NEW c \in Call, reply'[c] = reply[c], db' = db,
           channel' = channel, obligations' = obligations
    PROVE  Settled(c)' = Settled(c)
<1>1. Queued(c)' = Queued(c) /\ Owed(c)' = Owed(c)
  BY DEF Queued, Owed
<1>2. CASE reply[c] # Sent
  BY <1>2, SettledReply, SettledReplyNext
<1>3. ASSUME reply[c] = Sent, NEW i \in Queued(c) PROVE Settled(c)' = Settled(c)
  <2>1. Settled(c) = FromQueue(i)
    BY <1>3, SettledQueued
  <2>2. Settled(c)' = FromQueue(i)'
    BY <1>1, <1>3, SettledQueuedNext
  <2>3. FromQueue(i)' = FromQueue(i)
    BY DEF FromQueue
  <2> QED
    BY <2>1, <2>2, <2>3
<1>4. ASSUME reply[c] = Sent, NEW k \in Owed(c) PROVE Settled(c)' = Settled(c)
  <2>1. Settled(c) = Awaited(channel, k, 0)
    BY <1>4, SettledOwed
  <2>2. Settled(c)' = Awaited(channel', k, 0)
    BY <1>1, <1>4, SettledOwedNext
  <2> QED
    BY <2>1, <2>2
<1> QED
  BY <1>2, <1>3, <1>4, WaitingCall

(* A caller that gives up had not been answered. *)
LEMMA DropRefines ==
    ASSUME TypeOK, CallInv, CallInv', NEW q \in Waiter, Drop(q)
    PROVE  Atomic!Drop(q)
<1>1. /\ reply[q] = Sent /\ reply' = [reply EXCEPT ![q] = Dropped]
      /\ db' = db /\ channel' = channel /\ obligations' = obligations /\ q \in Call
  BY DEF Drop, Call
<1>2. mem' = mem
  BY <1>1 DEF mem
<1>3. Settled(q)' = Dropped
  BY <1>1, CallStates, SettledReplyNext DEF TypeOK
<1>4. \A c \in Call : c # q => Settled(c)' = Settled(c)
  <2> SUFFICES ASSUME NEW c \in Call, c # q PROVE Settled(c)' = Settled(c)
    OBVIOUS
  <2>1. reply'[c] = reply[c]
    BY <1>1 DEF TypeOK
  <2> QED
    BY <1>1, <2>1, SettledSame
<1>5. answer' = [answer EXCEPT ![q] = Dropped]
  <2>1. answer' = [c \in Call |-> Settled(c)']
    BY DEF answer
  <2>2. answer = [c \in Call |-> Settled(c)]
    BY DEF answer
  <2> QED
    BY <1>3, <1>4, <2>1, <2>2
<1>6. answer[q] # NotCalled /\ answer[q] # Dropped
  <2>1. answer[q] = Settled(q)
    BY <1>1 DEF answer
  <2>2. Settled(q) \in Value \cup {None} \/ \E k \in Key : Settled(q) = WaitsFor(k)
    BY <1>1, SettledType
  <2> QED
    BY <2>1, <2>2, MarksDiffer, AnswersEnd
<1>7. Atomic!NotCalled = NotCalled /\ Atomic!Dropped = Dropped
  BY DEF Atomic!NotCalled, Atomic!Dropped, NotCalled, Dropped
<1> QED
  BY <1>2, <1>5, <1>6, <1>7 DEF Atomic!Drop

(* Serving a command carries out what was settled when it was queued. *)
LEMMA ServeRefines ==
    ASSUME TypeOK, TypeOK', CallInv, CallInv', Serve
    PROVE  mem' = mem /\ answer' = answer
<1> DEFINE n == Len(channel)
           cmd == channel[1]
<1>0. /\ channel # <<>> /\ channel' = Tail(channel) /\ channel \in Seq(Command)
      /\ n \in Nat \ {0} /\ Len(channel') = n - 1
  BY ServeEffect DEF TypeOK
<1>1. Writing \/ Answering \/ Registering
  BY ServeEffect
<1> HIDE DEF n
<1>2. \A k \in Key : db'[k] = IF cmd.op = "Write" /\ cmd.key = k THEN cmd.value ELSE db[k]
  <2>1. CASE Writing
    <3>1. /\ cmd.op = "Write" /\ cmd.key \in Key
          /\ db' = [db EXCEPT ![cmd.key] = cmd.value]
      BY <2>1, Zenon DEF Writing
    <3> QED
      BY <3>1 DEF TypeOK
  <2>2. CASE Answering \/ Registering
    <3>1. cmd.op # "Write" /\ db' = db
      BY <2>2 DEF Answering, Registering
    <3> QED
      BY <3>1
  <2> QED
    BY <1>1, <2>1, <2>2
<1>3. \A k \in Key : \A i \in Nat :
          i > 1 => Seen(db', channel', k, i - 1) = Seen(db, channel, k, i)
  BY <1>0, <1>2, SeenTail
<1>4. \A k \in Key : \A i \in Nat \ {0} : Awaited(channel', k, i - 1) = Awaited(channel, k, i)
  BY <1>0, AwaitedTail
<1>5. mem' = mem
  <2>1. mem' = [k \in Key |-> Seen(db', channel', k, Len(channel') + 1)]
    BY DEF mem
  <2>2. mem = [k \in Key |-> Seen(db, channel, k, n + 1)]
    BY DEF mem, n
  <2>3. n + 1 \in Nat /\ n + 1 > 1 /\ Len(channel') + 1 = (n + 1) - 1
    BY <1>0
  <2>4. \A k \in Key : Seen(db', channel', k, Len(channel') + 1) = Seen(db, channel, k, n + 1)
    BY <1>3, <2>3
  <2> QED
    BY <2>1, <2>2, <2>4
<1>6. ASSUME NEW c \in Call PROVE Settled(c)' = Settled(c)
  <2>1. CASE reply[c] # Sent
    <3>1. reply'[c] = reply[c]
      BY <1>1, <2>1 DEF Writing, Answering, Registering
    <3> QED
      BY <2>1, <3>1, SettledReply, SettledReplyNext
  <2>2. ASSUME reply[c] = Sent, NEW i \in Queued(c), i # 1 PROVE Settled(c)' = Settled(c)
    <3> DEFINE k == channel[i].key
    <3>1. i \in Nat /\ i > 1 /\ i - 1 \in Queued(c)' /\ channel'[i - 1] = channel[i]
      <4>1. i \in Nat \ {0} /\ i - 1 \in Queued(c)' /\ channel'[i - 1] = channel[i]
        BY <1>0, <2>2, QueuedTail, Zenon
      <4> QED
        BY <2>2, <4>1
    <3>2. k \in Key
      BY QueuedCommand
    <3>3. reply'[c] = Sent
      <4>1. Owed(c) = {} /\ 1 \notin Queued(c)
        BY <2>2 DEF CallInv
      <4>2. cmd.op # "Write" => cmd.sender # c
        BY <1>0, <4>1, QueuedTail
      <4>3. CASE Writing
        BY <2>2, <4>1, <4>3 DEF Writing
      <4>4. CASE Answering
        BY <2>2, <4>2, <4>4 DEF Answering
      <4>5. CASE Registering
        BY <2>2, <4>5 DEF Registering
      <4> QED
        BY <1>1, <4>3, <4>4, <4>5
    <3>4. Settled(c) = FromQueue(i) /\ Settled(c)' = FromQueue(i - 1)'
      BY <2>2, <3>1, <3>3, SettledQueued, SettledQueuedNext
    <3>5. /\ Seen(db', channel', k, i - 1) = Seen(db, channel, k, i)
          /\ Awaited(channel', k, i - 1) = Awaited(channel, k, i)
      BY <1>3, <1>4, <3>1, <3>2
    <3>6. FromQueue(i) = IF channel[i].op = "NotifyRead" /\ Seen(db, channel, k, i) = None
                         THEN Awaited(channel, k, i) ELSE Seen(db, channel, k, i)
      BY Zenon DEF FromQueue
    <3>7. FromQueue(i - 1)' =
              IF channel'[i - 1].op = "NotifyRead"
                   /\ Seen(db', channel', channel'[i - 1].key, i - 1) = None
              THEN Awaited(channel', channel'[i - 1].key, i - 1)
              ELSE Seen(db', channel', channel'[i - 1].key, i - 1)
      BY DEF FromQueue
    <3> QED
      BY <3>1, <3>4, <3>5, <3>6, <3>7, Zenon
  <2>3. ASSUME reply[c] = Sent, 1 \in Queued(c) PROVE Settled(c)' = Settled(c)
    <3>1. cmd.op # "Write" /\ cmd.sender = c /\ cmd.key \in Key
      BY <1>0, <2>3, QueuedTail, QueuedCommand
    <3>2. Settled(c) = FromQueue(1)
      BY <2>3, SettledQueued
    <3>3. Seen(db, channel, cmd.key, 1) = db[cmd.key]
      <4>1. \A l \in Writes(channel, cmd.key) : ~(l < 1)
        BY <1>0, WritesTail
      <4> QED
        BY <4>1, SeenNone
    <3>4. Settled(c) = IF cmd.op = "NotifyRead" /\ db[cmd.key] = None
                       THEN Awaited(channel, cmd.key, 1) ELSE db[cmd.key]
      BY <3>2, <3>3, Zenon DEF FromQueue
    <3>5. CASE Answering
      <4>1. /\ cmd.op = "NotifyRead" => db[cmd.key] # None
            /\ reply'[c] = db[cmd.key]
        BY <2>3, <3>1, <3>5 DEF Answering
      <4>2. db[cmd.key] # Sent
        BY <3>1, AnswersEnd DEF TypeOK
      <4>3. Settled(c)' = db[cmd.key]
        BY <4>1, <4>2, SettledReplyNext
      <4> QED
        BY <3>4, <4>1, <4>3
    <3>6. CASE Registering
      <4>1. reply'[c] = Sent /\ cmd.op = "NotifyRead" /\ db[cmd.key] = None
        BY <2>3, <3>6 DEF Registering
      <4>2. cmd.key \in Owed(c)'
        BY <3>1, <3>6, OwedRegistering
      <4>3. Settled(c)' = Awaited(channel', cmd.key, 0)
        BY <4>1, <4>2, SettledOwedNext
      <4>4. Awaited(channel', cmd.key, 1 - 1) = Awaited(channel, cmd.key, 1) /\ 1 - 1 = 0
        BY <1>4, <3>1
      <4> QED
        BY <3>4, <4>1, <4>3, <4>4
    <3>7. ~Writing
      BY <3>1 DEF Writing
    <3> QED
      BY <1>1, <3>5, <3>6, <3>7
  <2>4. ASSUME reply[c] = Sent, NEW k \in Owed(c) PROVE Settled(c)' = Settled(c)
    <3>1. k \in Key /\ \A l \in Owed(c) : l = k
      BY DEF CallInv, Owed
    <3>2. Settled(c) = Awaited(channel, k, 0)
      BY <2>4, SettledOwed
    <3>3. Awaited(channel, k, 0) = IF cmd.op = "Write" /\ cmd.key = k THEN cmd.value
                                   ELSE Awaited(channel', k, 0)
      BY <1>0, AwaitedHead
    <3>4. CASE Writing /\ cmd.key = k
      <4>1. reply'[c] = cmd.value /\ cmd.value \in Value /\ cmd.op = "Write"
        BY <2>4, <3>4 DEF Writing
      <4>2. Settled(c)' = cmd.value
        BY <4>1, AnswersEnd, SettledReplyNext
      <4> QED
        BY <3>2, <3>3, <3>4, <4>1, <4>2
    <3>5. CASE ~(Writing /\ cmd.key = k)
      <4>1. ~(cmd.op = "Write" /\ cmd.key = k)
        BY <1>1, <3>5 DEF Answering, Registering
      <4>2. k \in Owed(c)'
        <5>1. CASE Writing
          BY <3>5, <5>1, OwedWriting
        <5>2. CASE Answering
          BY <5>2 DEF Answering, Owed
        <5>3. CASE Registering
          BY <5>3, OwedRegistering
        <5> QED
          BY <1>1, <5>1, <5>2, <5>3
      <4>3. reply'[c] = Sent
        <5>1. 1 \notin Queued(c)
          BY DEF CallInv
        <5>2. cmd.op # "Write" => cmd.sender # c
          BY <1>0, <5>1, QueuedTail
        <5>3. CASE Writing
          <6>1. cmd.key \notin Owed(c)
            BY <3>1, <3>5, <5>3
          <6> QED
            BY <2>4, <5>3, <6>1 DEF Writing
        <5>4. CASE Answering
          BY <2>4, <5>2, <5>4 DEF Answering
        <5>5. CASE Registering
          BY <2>4, <5>5 DEF Registering
        <5> QED
          BY <1>1, <5>3, <5>4, <5>5
      <4>4. Settled(c)' = Awaited(channel', k, 0)
        BY <4>2, <4>3, SettledOwedNext
      <4> QED
        BY <3>2, <3>3, <4>1, <4>4
    <3> QED
      BY <3>4, <3>5
  <2> QED
    BY <2>1, <2>2, <2>3, <2>4, WaitingCall
<1>7. answer' = answer
  BY <1>6 DEF answer
<1> QED
  BY <1>5, <1>7

(* Each step of the store's program is a step of the atomic map: a call acts *)
(* when its command enters the channel, and serving it changes nothing that *)
(* the map's users can tell.                                               *)
LEMMA StepRefines ==
    ASSUME TypeOK, TypeOK', CallInv, CallInv', [Next]_vars
    PROVE  [Atomic!Next]_(Atomic!vars)
<1>1. ASSUME NEW k \in Key, NEW v \in Value, write(k, v)
      PROVE  Atomic!Next
  BY <1>1, WriteRefines DEF Atomic!Next
<1>2. ASSUME NEW k \in Key, NEW c \in Reader, read(c, k)
      PROVE  Atomic!Next
  <2> DEFINE cmd == [op |-> "Read", key |-> k, sender |-> c]
  <2>1. cmd \in Command /\ cmd.op # "Write" /\ cmd.key = k /\ cmd.sender = c /\ c \in Call
    BY DEF Command, Call
  <2>2. /\ channel' = Append(channel, cmd) /\ db' = db /\ obligations' = obligations
        /\ reply[c] = NotCalled /\ reply' = [reply EXCEPT ![c] = Sent]
    BY <1>2, Zenon DEF read, Send
  <2>3. cmd.op # "NotifyRead"
    OBVIOUS
  <2> HIDE DEF cmd
  <2>4. /\ mem' = mem /\ answer[c] = Atomic!NotCalled
        /\ answer' = [answer EXCEPT ![c] = Got(cmd)]
    BY <2>1, <2>2, CallRefines, Zenon
  <2>5. answer' = [answer EXCEPT ![c] = mem[k]]
    BY <2>1, <2>3, <2>4 DEF Got
  <2>6. Atomic!Read(c, k)
    BY <2>4, <2>5 DEF Atomic!Read
  <2> QED
    BY <2>6 DEF Atomic!Next
<1>3. ASSUME NEW k \in Key, NEW c \in Waiter, notify_read(c, k)
      PROVE  Atomic!Next
  <2> DEFINE cmd == [op |-> "NotifyRead", key |-> k, sender |-> c]
  <2>1. cmd \in Command /\ cmd.op # "Write" /\ cmd.key = k /\ cmd.sender = c /\ c \in Call
    BY DEF Command, Call
  <2>2. /\ channel' = Append(channel, cmd) /\ db' = db /\ obligations' = obligations
        /\ reply[c] = NotCalled /\ reply' = [reply EXCEPT ![c] = Sent]
    BY <1>3, Zenon DEF notify_read, Send
  <2>3. cmd.op = "NotifyRead"
    OBVIOUS
  <2> HIDE DEF cmd
  <2>4. /\ mem' = mem /\ answer[c] = Atomic!NotCalled
        /\ answer' = [answer EXCEPT ![c] = Got(cmd)]
    BY <2>1, <2>2, CallRefines, Zenon
  <2>5. Atomic!WaitsFor(k) = WaitsFor(k)
    BY DEF WaitsFor, Atomic!WaitsFor
  <2>6. answer' = [answer EXCEPT ![c] =
                      IF mem[k] = None THEN Atomic!WaitsFor(k) ELSE mem[k]]
    BY <2>1, <2>3, <2>4, <2>5 DEF Got
  <2>7. Atomic!NotifyRead(c, k)
    BY <2>4, <2>6 DEF Atomic!NotifyRead
  <2> QED
    BY <2>7 DEF Atomic!Next
<1>4. ASSUME NEW c \in Waiter, Drop(c) PROVE Atomic!Next
  BY <1>4, DropRefines DEF Atomic!Next
<1>5. CASE Serve
  BY <1>5, ServeRefines DEF Atomic!vars
<1>6. CASE UNCHANGED vars
  <2>1. /\ db' = db /\ channel' = channel /\ obligations' = obligations /\ reply' = reply
    BY <1>6 DEF vars
  <2>2. mem' = mem
    BY <2>1 DEF mem
  <2>3. \A c \in Call : Settled(c)' = Settled(c)
    BY <2>1, SettledSame
  <2>4. answer' = answer
    BY <2>3 DEF answer
  <2> QED
    BY <2>2, <2>4 DEF Atomic!vars
<1> QED
  BY <1>1, <1>2, <1>3, <1>4, <1>5, <1>6 DEF Next

(* The store's task implements the atomic map, for any sets of keys, values *)
(* and callers and any capacity of the channel: its calls take effect in   *)
(* the order their commands were queued, each read sees every write queued *)
(* before it, and a notify_read gets the first value of its key.           *)
THEOREM StoreIsAtomic == Spec => ImplementsAtomicStore
<1>1. Init => Atomic!Init
  <2> SUFFICES ASSUME Init PROVE Atomic!Init
    OBVIOUS
  <2>1. channel = <<>> /\ db \in [Key -> Value \cup {None}]
    BY DEF Init
  <2>2. \A k \in Key : Writes(channel, k) = {}
    BY <2>1 DEF Writes
  <2>3. \A k \in Key : mem[k] = db[k]
    BY <2>2 DEF mem, Seen
  <2>4. mem \in [Key -> Value \cup {None}]
    <3>1. mem = [k \in Key |-> mem[k]]
      BY DEF mem
    <3> QED
      BY <2>1, <2>3, <3>1
  <2>5. \A c \in Call : Settled(c) = NotCalled
    <3>1. \A c \in Call : reply[c] = NotCalled
      BY DEF Init
    <3> QED
      BY <3>1, CallStates, SettledReply
  <2>6. answer = [c \in Reader \cup Waiter |-> Atomic!NotCalled]
    BY <2>5, Zenon DEF answer, Call, NotCalled, Atomic!NotCalled
  <2> QED
    BY <2>4, <2>6 DEF Atomic!Init
<1>2. TypeOK /\ TypeOK' /\ CallInv /\ CallInv' /\ [Next]_vars => [Atomic!Next]_(Atomic!vars)
  BY StepRefines
<1> QED
  BY <1>1, <1>2, StoreTypeCorrect, CallInvariance, PTL
     DEF Spec, Atomic!Spec, ImplementsAtomicStore
=============================================================================
