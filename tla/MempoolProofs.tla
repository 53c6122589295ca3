--------------------------- MODULE MempoolProofs ---------------------------
(***************************************************************************)
(* What the mempool keeps, for all transactions of any sizes, all payloads *)
(* of other nodes and all capacities.  Payload::size is a sum over a set;  *)
(* the first part shows what the rest uses of such sums, by looking at a   *)
(* smallest counterexample.                                                *)
(***************************************************************************)
EXTENDS Mempool, FiniteSetTheorems, TLAPS

(* A non-empty set of naturals has a least element. *)
LEMMA LeastNat ==
    ASSUME NEW T \in SUBSET Nat, T # {}
    PROVE  \E n \in T : \A m \in T : n <= m
<1>1. PICK n \in T : \A m \in T : ~(<<m, n>> \in OpToRel(<, Nat))
  BY NatLessThanWellFounded, WFMin, Zenon
<1>2. \A m \in T : ~(m < n)
  BY <1>1 DEF OpToRel
<1> QED
  BY <1>2

(* The element of s that the sum takes first. *)
First(s) == CHOOSE t \in s : TRUE

(* One unfolding of the sum over the subsets of S. *)
Sums(S, f) ==
    [s \in SUBSET S |-> IF s = {} THEN 0 ELSE Size[First(s)] + f[s \ {First(s)}]]

(* SizeOf is defined by a function that unfolds to itself. *)
LEMMA SizeOfUnfolds == ASSUME NEW S PROVE SizeOf(S) = (CHOOSE f : f = Sums(S, f))[S]
BY Zenon DEF SizeOf, MapThenSumSet, MapThenFoldSet, Sums, First

(* First(s) is an element of s, and one is left fewer without it. *)
LEMMA FirstRemoved ==
    ASSUME NEW s, IsFiniteSet(s), s # {}
    PROVE  /\ First(s) \in s
           /\ IsFiniteSet(s \ {First(s)})
           /\ Cardinality(s) \in Nat
           /\ Cardinality(s \ {First(s)}) \in Nat
           /\ Cardinality(s \ {First(s)}) < Cardinality(s)
<1>1. First(s) \in s
  BY DEF First
<1>2. IsFiniteSet(s \ {First(s)}) /\ Cardinality(s \ {First(s)}) = Cardinality(s) - 1
  BY <1>1, FS_RemoveElement
<1>3. Cardinality(s) \in Nat /\ Cardinality(s \ {First(s)}) \in Nat
  BY <1>2, FS_CardinalityType
<1> QED
  BY <1>1, <1>2, <1>3

(* Two functions that unfold to themselves agree where both are defined. *)
LEMMA SumsUnique ==
    ASSUME NEW S, NEW R, NEW f, NEW g, f = Sums(S, f), g = Sums(R, g)
    PROVE  \A s : IsFiniteSet(s) /\ s \subseteq S /\ s \subseteq R => f[s] = g[s]
<1> DEFINE Bad(s) == IsFiniteSet(s) /\ s \subseteq S /\ s \subseteq R /\ f[s] # g[s]
<1> DEFINE T == {n \in Nat : \E s \in SUBSET S : Bad(s) /\ Cardinality(s) = n}
<1>1. SUFFICES ASSUME NEW s \in SUBSET S, Bad(s) PROVE FALSE
  OBVIOUS
<1>2. T # {}
  BY <1>1, FS_CardinalityType
<1>3. PICK n \in T : \A m \in T : n <= m
  <2> HIDE DEF T
  <2> QED
    BY <1>2, LeastNat DEF T
<1>4. PICK u \in SUBSET S : Bad(u) /\ Cardinality(u) = n
  BY <1>3
<1>5. f[u] = IF u = {} THEN 0 ELSE Size[First(u)] + f[u \ {First(u)}]
  BY <1>4, Zenon DEF Sums
<1>6. g[u] = IF u = {} THEN 0 ELSE Size[First(u)] + g[u \ {First(u)}]
  BY <1>4, Zenon DEF Sums
<1>7. u # {}
  BY <1>4, <1>5, <1>6
<1>8. f[u \ {First(u)}] # g[u \ {First(u)}]
  BY <1>4, <1>5, <1>6, <1>7
<1>9. Bad(u \ {First(u)})
  BY <1>4, <1>7, <1>8, FirstRemoved
<1>10. Cardinality(u \ {First(u)}) \in T
  BY <1>9, <1>4, <1>7, FirstRemoved
<1> QED
  BY <1>10, <1>3, <1>4, <1>7, FirstRemoved

(* A finite set has such a function. *)
LEMMA SumsExist ==
    ASSUME NEW S, IsFiniteSet(S)
    PROVE  \E f : f = Sums(S, f)
<1> DEFINE Bad(s) == IsFiniteSet(s) /\ ~\E f : f = Sums(s, f)
<1> DEFINE T == {n \in Nat : \E s \in SUBSET S : Bad(s) /\ Cardinality(s) = n}
<1>1. SUFFICES ASSUME Bad(S) PROVE FALSE
  OBVIOUS
<1>2. T # {}
  BY <1>1, FS_CardinalityType
<1>3. PICK n \in T : \A m \in T : n <= m
  <2> HIDE DEF T
  <2> QED
    BY <1>2, LeastNat DEF T
<1>4. PICK u \in SUBSET S : Bad(u) /\ Cardinality(u) = n
  BY <1>3
<1>5. ASSUME NEW s \in SUBSET u, s # u
      PROVE  \E f : f = Sums(s, f) /\ SizeOf(s) = f[s]
  <2>1. IsFiniteSet(s) /\ Cardinality(s) < n /\ Cardinality(s) \in Nat
    BY <1>4, <1>5, FS_Subset, FS_CardinalityType
  <2>2. ~Bad(s)
    BY <2>1, <1>3
  <2>3. PICK f : f = Sums(s, f)
    BY <2>1, <2>2
  <2>4. (CHOOSE h : h = Sums(s, h)) = Sums(s, CHOOSE h : h = Sums(s, h))
    BY <2>3, Zenon
  <2> QED
    BY <2>4, SizeOfUnfolds, Zenon
<1> DEFINE total(s) == IF s = {} THEN 0 ELSE Size[First(s)] + SizeOf(s \ {First(s)})
           F == [s \in SUBSET u |-> IF s = u THEN total(u) ELSE SizeOf(s)]
<1>6. ASSUME NEW s \in SUBSET u, s # u PROVE SizeOf(s) = total(s)
  <2>1. PICK f : f = Sums(s, f) /\ SizeOf(s) = f[s]
    BY <1>5, <1>6
  <2>2. SizeOf(s) = IF s = {} THEN 0 ELSE Size[First(s)] + f[s \ {First(s)}]
    BY <2>1, Zenon DEF Sums
  <2>3. CASE s = {}
    BY <2>2, <2>3
  <2>4. CASE s # {}
    <3>1. IsFiniteSet(s) /\ First(s) \in s /\ IsFiniteSet(s \ {First(s)})
      BY <1>4, <2>4, FS_Subset, FirstRemoved
    <3>2. s \ {First(s)} \in SUBSET u /\ s \ {First(s)} # u
      BY <3>1, <1>6
    <3>3. PICK g : g = Sums(s \ {First(s)}, g) /\ SizeOf(s \ {First(s)}) = g[s \ {First(s)}]
      BY <1>5, <3>2
    <3>4. f[s \ {First(s)}] = g[s \ {First(s)}]
      BY <2>1, <3>1, <3>3, SumsUnique
    <3> QED
      BY <2>2, <2>4, <3>3, <3>4
  <2> QED
    BY <2>3, <2>4
<1>7. \A s \in SUBSET u : F[s] = total(s)
  BY <1>6
<1>8. \A s \in SUBSET u : s # {} => F[s \ {First(s)}] = SizeOf(s \ {First(s)})
  <2> TAKE s \in SUBSET u
  <2> HAVE s # {}
  <2>1. First(s) \in s
    BY DEF First
  <2>2. s \ {First(s)} \in SUBSET u /\ s \ {First(s)} # u
    BY <2>1
  <2> QED
    BY <2>2
<1>9. F = Sums(u, F)
  <2> HIDE DEF F
  <2>1. \A s \in SUBSET u :
          F[s] = IF s = {} THEN 0 ELSE Size[First(s)] + F[s \ {First(s)}]
    BY <1>7, <1>8
  <2>2. F = [s \in SUBSET u |-> F[s]]
    BY DEF F
  <2> QED
    BY <2>1, <2>2, Zenon DEF Sums
<1> QED
  BY <1>9, <1>4

(* Hence the size of a set is that of one element more than of the rest. *)
LEMMA SizeOfRest ==
    ASSUME NEW S, IsFiniteSet(S)
    PROVE  SizeOf(S) = IF S = {} THEN 0 ELSE Size[First(S)] + SizeOf(S \ {First(S)})
<1> DEFINE Fun(s) == CHOOSE f : f = Sums(s, f)
<1>1. ASSUME NEW s, IsFiniteSet(s) PROVE Fun(s) = Sums(s, Fun(s)) /\ SizeOf(s) = Fun(s)[s]
  BY <1>1, SumsExist, SizeOfUnfolds, Zenon
<1> HIDE DEF Fun
<1>2. SizeOf(S) = IF S = {} THEN 0 ELSE Size[First(S)] + Fun(S)[S \ {First(S)}]
  <2>1. Fun(S) = Sums(S, Fun(S)) /\ SizeOf(S) = Fun(S)[S]
    BY <1>1
  <2> QED
    BY <2>1, Zenon DEF Sums
<1>3. CASE S = {}
  BY <1>2, <1>3
<1>4. CASE S # {}
  <2>1. IsFiniteSet(S \ {First(S)})
    BY <1>4, FirstRemoved
  <2>2. Fun(S)[S \ {First(S)}] = Fun(S \ {First(S)})[S \ {First(S)}]
    BY <2>1, <1>1, SumsUnique
  <2> QED
    BY <1>1, <1>2, <1>4, <2>1, <2>2
<1> QED
  BY <1>3, <1>4

(* Payload::size is a natural number. *)
LEMMA SizeOfType ==
    ASSUME NEW S \in SUBSET Tx, IsFiniteSet(S)
    PROVE  SizeOf(S) \in Nat
<1> DEFINE Bad(s) == IsFiniteSet(s) /\ SizeOf(s) \notin Nat
<1> DEFINE T == {n \in Nat : \E s \in SUBSET S : Bad(s) /\ Cardinality(s) = n}
<1>1. SUFFICES ASSUME Bad(S) PROVE FALSE
  OBVIOUS
<1>2. T # {}
  BY <1>1, FS_CardinalityType
<1>3. PICK n \in T : \A m \in T : n <= m
  <2> HIDE DEF T
  <2> QED
    BY <1>2, LeastNat DEF T
<1>4. PICK u \in SUBSET S : Bad(u) /\ Cardinality(u) = n
  BY <1>3
<1>5. u # {} /\ SizeOf(u) = Size[First(u)] + SizeOf(u \ {First(u)})
  BY <1>4, SizeOfRest
<1>6. Size[First(u)] \in Nat
  BY <1>4, <1>5, FirstRemoved, MempoolAssumption
<1>7. Bad(u \ {First(u)})
  BY <1>4, <1>5, <1>6, FirstRemoved
<1>8. Cardinality(u \ {First(u)}) \in T
  BY <1>4, <1>5, <1>7, FirstRemoved
<1> QED
  BY <1>8, <1>3, <1>4, <1>5, FirstRemoved

(* The order in which the transactions are summed does not matter. *)
LEMMA SizeOfRemove ==
    ASSUME NEW S \in SUBSET Tx, IsFiniteSet(S), NEW t \in S
    PROVE  SizeOf(S) = Size[t] + SizeOf(S \ {t})
<1> DEFINE Bad(s) == IsFiniteSet(s) /\ \E y \in s : SizeOf(s) # Size[y] + SizeOf(s \ {y})
<1> DEFINE T == {n \in Nat : \E s \in SUBSET S : Bad(s) /\ Cardinality(s) = n}
<1>1. SUFFICES ASSUME Bad(S) PROVE FALSE
  OBVIOUS
<1>2. T # {}
  BY <1>1, FS_CardinalityType
<1>3. PICK n \in T : \A m \in T : n <= m
  <2> HIDE DEF T
  <2> QED
    BY <1>2, LeastNat DEF T
<1>4. PICK u \in SUBSET S : Bad(u) /\ Cardinality(u) = n
  BY <1>3
<1>5. PICK y \in u : SizeOf(u) # Size[y] + SizeOf(u \ {y})
  BY <1>4
<1> DEFINE x == First(u)
<1>6. x \in u /\ IsFiniteSet(u \ {x}) /\ SizeOf(u) = Size[x] + SizeOf(u \ {x})
  BY <1>4, <1>5, FirstRemoved, SizeOfRest
<1> HIDE DEF x
<1>7. x # y
  BY <1>5, <1>6
<1>8. ASSUME NEW z \in u, NEW w \in u \ {z}
      PROVE  SizeOf(u \ {z}) = Size[w] + SizeOf((u \ {z}) \ {w})
  <2>1. IsFiniteSet(u \ {z}) /\ Cardinality(u \ {z}) = n - 1
    BY <1>4, FS_RemoveElement
  <2>2. Cardinality(u \ {z}) \in Nat
    BY <2>1, FS_CardinalityType
  <2>3. n - 1 \notin T
    BY <1>3
  <2>4. ~Bad(u \ {z})
    BY <2>1, <2>2, <2>3
  <2> QED
    BY <2>1, <2>4
<1>9. SizeOf(u \ {x}) = Size[y] + SizeOf((u \ {x}) \ {y})
  BY <1>6, <1>7, <1>8
<1>10. SizeOf(u \ {y}) = Size[x] + SizeOf((u \ {y}) \ {x})
  BY <1>6, <1>7, <1>8
<1>11. (u \ {x}) \ {y} = (u \ {y}) \ {x}
  OBVIOUS
<1>12. Size[x] \in Nat /\ Size[y] \in Nat
  BY <1>6, MempoolAssumption
<1>13. IsFiniteSet((u \ {x}) \ {y}) /\ (u \ {x}) \ {y} \in SUBSET Tx
  BY <1>6, FS_RemoveElement
<1>14. SizeOf((u \ {x}) \ {y}) \in Nat
  BY <1>13, SizeOfType
<1> QED
  BY <1>5, <1>6, <1>9, <1>10, <1>11, <1>12, <1>14

(* Runner::add counts a transaction once it is in the buffer. *)
LEMMA SizeOfAdd ==
    ASSUME NEW S \in SUBSET Tx, IsFiniteSet(S), NEW t \in Tx, t \notin S
    PROVE  SizeOf(S \cup {t}) = SizeOf(S) + Size[t]
<1>1. IsFiniteSet(S \cup {t})
  BY FS_AddElement
<1>2. SizeOf(S \cup {t}) = Size[t] + SizeOf((S \cup {t}) \ {t})
  BY <1>1, SizeOfRemove
<1>3. (S \cup {t}) \ {t} = S
  OBVIOUS
<1>4. Size[t] \in Nat /\ SizeOf(S) \in Nat
  BY SizeOfType, MempoolAssumption
<1> QED
  BY <1>2, <1>3, <1>4

(* The empty payload has size 0. *)
LEMMA SizeOfNone == SizeOf({}) = 0
BY SizeOfRest, FS_EmptySet

(* A payload of one transaction has the size of the transaction. *)
LEMMA SizeOfOne ==
    ASSUME NEW t \in Tx
    PROVE  SizeOf({t}) = Size[t]
<1>1. SizeOf({} \cup {t}) = SizeOf({}) + Size[t]
  BY SizeOfAdd, FS_EmptySet
<1>2. {} \cup {t} = {t} /\ Size[t] \in Nat
  BY MempoolAssumption
<1> QED
  BY <1>1, <1>2, SizeOfNone

(* What PayloadMaker::make takes for nothing holds empty transactions only. *)
LEMMA SizeOfZero ==
    ASSUME NEW S \in SUBSET Tx, IsFiniteSet(S), SizeOf(S) = 0, NEW t \in S
    PROVE  Size[t] = 0
<1>1. SizeOf(S) = Size[t] + SizeOf(S \ {t})
  BY SizeOfRemove
<1>2. SizeOf(S \ {t}) \in Nat
  BY SizeOfType, FS_RemoveElement
<1> QED
  BY <1>1, <1>2, MempoolAssumption
-----------------------------------------------------------------------------
(* The counter of the Runner is the size of its buffer, which fits in a     *)
(* payload; the Runner sends one payload at a time.                        *)
BufferInv ==
    /\ transactions \subseteq submitted /\ IsFiniteSet(transactions)
    /\ size = SizeOf(transactions) /\ Fits(transactions)
    /\ \A p, q \in sending : p = q

(* A payload this node made fits, and shares nothing with the buffer. *)
MadeInv ==
    \A p \in sending \cup Channelled \cup store :
        p \subseteq Tx => p \subseteq submitted /\ p \cap transactions = {} /\ Fits(p)

(* What is queued, handed out or committed was stored before. *)
StoredInv ==
    committed \subseteq store /\ \A tag \in Tag : queue[tag] \cup handed[tag] \subseteq store

(* Payloads that are in core_channel more than once. *)
Repeated ==
    {p \in Channelled : \E i, j \in DOMAIN core_channel :
        i # j /\ core_channel[i].payload = p /\ core_channel[j].payload = p}

(* A payload is in one place on its way to the store, unless it was sent    *)
(* again; payloads of other nodes have been delivered.                     *)
OnceInv ==
    /\ \A p \in sending \cap (Channelled \cup store) : SentAgain(p)
    /\ \A p \in Channelled \cap store : SentAgain(p)
    /\ \A p \in Repeated : SentAgain(p)
    /\ \A p \in PeerPayload \cap (Channelled \cup store) : arrivals[p] > 0

(* The inductive invariant. *)
MempoolInv ==
    /\ TypeOK /\ BufferInv /\ MadeInv /\ StoredInv /\ OnceInv
    /\ NoTxLost /\ CommittedNotQueued /\ HandedNotQueued

(* A message appended to core_channel. *)
LEMMA Appended ==
    ASSUME TypeOK, NEW m \in MempoolMessage, core_channel' = Append(core_channel, m)
    PROVE  /\ Channelled' = Channelled \cup {m.payload}
           /\ Repeated' \subseteq Repeated \cup (Channelled \cap {m.payload})
<1> DEFINE n == Len(core_channel)
<1>1. core_channel \in Seq(MempoolMessage) /\ n \in Nat /\ DOMAIN core_channel = 1..n
  BY DEF TypeOK
<1>2. DOMAIN core_channel' = 1..(n + 1)
  BY <1>1
<1>3. \A i \in 1..(n + 1) : core_channel'[i] = IF i = n + 1 THEN m ELSE core_channel[i]
  BY <1>1
<1> HIDE DEF n
<1>4. Channelled' \subseteq Channelled \cup {m.payload}
  BY <1>1, <1>2, <1>3 DEF Channelled
<1>5. Channelled \subseteq Channelled'
  BY <1>1, <1>2, <1>3 DEF Channelled
<1>6. m.payload \in Channelled'
  BY <1>1, <1>2, <1>3 DEF Channelled
<1>7. ASSUME NEW p \in Repeated' PROVE p \in Repeated \cup (Channelled \cap {m.payload})
  <2>1. PICK i \in 1..(n + 1), j \in 1..(n + 1) :
            i # j /\ core_channel'[i].payload = p /\ core_channel'[j].payload = p
    BY <1>2, <1>7 DEF Repeated
  <2>2. CASE i = n + 1
    BY <1>1, <1>3, <2>1, <2>2 DEF Channelled
  <2>3. CASE j = n + 1
    BY <1>1, <1>3, <2>1, <2>3 DEF Channelled
  <2>4. CASE i \in 1..n /\ j \in 1..n
    BY <1>1, <1>3, <2>1, <2>4 DEF Channelled, Repeated
  <2> QED
    BY <1>1, <2>2, <2>3, <2>4
<1> QED
  BY <1>4, <1>5, <1>6, <1>7

(* The first message leaves core_channel. *)
LEMMA Received ==
    ASSUME TypeOK, core_channel # <<>>, core_channel' = Tail(core_channel)
    PROVE  /\ Head(core_channel) \in MempoolMessage
           /\ Channelled = Channelled' \cup {Head(core_channel).payload}
           /\ Repeated' \subseteq Repeated
           /\ Head(core_channel).payload \in Channelled' => Head(core_channel).payload \in Repeated
<1> DEFINE n == Len(core_channel)
           m == Head(core_channel)
<1>1. core_channel \in Seq(MempoolMessage) /\ n \in Nat \ {0} /\ DOMAIN core_channel = 1..n
  BY DEF TypeOK
<1>2. DOMAIN core_channel' = 1..(n - 1)
  BY <1>1
<1>3. \A i \in 1..(n - 1) : core_channel'[i] = core_channel[i + 1]
  BY <1>1
<1>4. m = core_channel[1] /\ m \in MempoolMessage
  BY <1>1
<1> HIDE DEF n, m
<1>5. Channelled' \subseteq Channelled
  BY <1>1, <1>2, <1>3 DEF Channelled
<1>6. m.payload \in Channelled
  BY <1>1, <1>4 DEF Channelled
<1>7. ASSUME NEW p \in Channelled PROVE p \in Channelled' \cup {m.payload}
  <2>1. PICK i \in 1..n : core_channel[i].payload = p
    BY <1>1, <1>7 DEF Channelled
  <2>2. CASE i = 1
    BY <1>4, <2>1, <2>2
  <2>3. CASE i # 1
    <3>1. i - 1 \in 1..(n - 1) /\ core_channel'[i - 1] = core_channel[i]
      BY <1>1, <1>3, <2>3
    <3> QED
      BY <1>2, <2>1, <3>1 DEF Channelled
  <2> QED
    BY <2>2, <2>3
<1>8. ASSUME NEW p \in Repeated' PROVE p \in Repeated
  <2>1. PICK i \in 1..(n - 1), j \in 1..(n - 1) :
            i # j /\ core_channel'[i].payload = p /\ core_channel'[j].payload = p
    BY <1>2, <1>8 DEF Repeated
  <2>2. /\ i + 1 \in 1..n /\ j + 1 \in 1..n /\ i + 1 # j + 1
        /\ core_channel[i + 1].payload = p /\ core_channel[j + 1].payload = p
    BY <1>1, <1>3, <2>1
  <2> QED
    BY <1>1, <2>2 DEF Channelled, Repeated
<1>9. ASSUME m.payload \in Channelled' PROVE m.payload \in Repeated
  <2>1. PICK i \in 1..(n - 1) : core_channel'[i].payload = m.payload
    BY <1>2, <1>9 DEF Channelled
  <2>2. i + 1 \in 1..n /\ 1 \in 1..n /\ i + 1 # 1 /\ core_channel[i + 1].payload = m.payload
    BY <1>1, <1>3, <2>1
  <2> QED
    BY <1>1, <1>4, <1>6, <2>2 DEF Repeated
<1> QED
  BY <1>4, <1>5, <1>6, <1>7, <1>8, <1>9 DEF m

(* Nothing else changes what is in core_channel. *)
LEMMA ChannelKept == core_channel' = core_channel => Channelled' = Channelled /\ Repeated' = Repeated
BY DEF Channelled, Repeated
-----------------------------------------------------------------------------
(* Core's variables stay as they are. *)
LEMMA CoreKept ==
    UNCHANGED coreVars <=>
        /\ UNCHANGED <<store, queue, getting, handed>>
        /\ UNCHANGED <<committed, dropped, gets>>
BY DEF coreVars

(* The types hold at the start. *)
LEMMA TypeInit == Init => TypeOK
<1> SUFFICES ASSUME Init PROVE TypeOK
  OBVIOUS
<1>1. Cardinality({}) = 0
  BY FS_EmptySet
<1>2. core_channel \in Seq(MempoolMessage)
  BY DEF Init
<1>3. arrivals \in [PeerPayload -> 0..Copies] /\ gets \in 0..MaxGets
  BY MempoolAssumption DEF Init
<1>4. queue \in [Tag -> SUBSET (OwnPayload \cup PeerPayload)]
      /\ handed \in [Tag -> SUBSET (OwnPayload \cup PeerPayload)]
  BY DEF Init
<1> QED
  BY <1>1, <1>2, <1>3, <1>4 DEF Init, TypeOK

(* Runner::add keeps the types. *)
LEMMA AddTypes == ASSUME TypeOK, NEW t \in Tx, Add(t) PROVE TypeOK'
<1>1. Size[t] \in Nat
  BY MempoolAssumption
<1>2. /\ submitted' = submitted \cup {t}
      /\ UNCHANGED <<core_channel, arrivals>> /\ UNCHANGED coreVars
  BY Zenon DEF Add
<1>3. \/ sending' = {transactions} /\ transactions' = {t} /\ size' = Size[t]
      \/ sending' = sending /\ transactions' = transactions \cup {t} /\ size' = size + Size[t]
  BY Zenon DEF Add
<1>4. sending' \subseteq OwnPayload /\ transactions' \subseteq Tx /\ size' \in Nat
  BY <1>1, <1>3 DEF TypeOK, OwnPayload
<1>5. Cardinality(sending') <= 1
  <2>1. Cardinality({transactions}) = 1
    BY FS_Singleton, Zenon
  <2>2. CASE sending' = {transactions}
    BY <2>1, <2>2
  <2>3. CASE sending' = sending
    BY <2>3 DEF TypeOK
  <2> QED
    BY <1>3, <2>2, <2>3, Zenon
<1> QED
  BY <1>2, <1>4, <1>5, CoreKept DEF TypeOK

(* The send of the Runner keeps the types. *)
LEMMA RunnerSendTypes == ASSUME TypeOK, RunnerSend PROVE TypeOK'
<1>1. PICK p \in sending : core_channel' = Append(core_channel, [own |-> TRUE, payload |-> p])
  BY Zenon DEF RunnerSend
<1>2. /\ sending' = {} /\ UNCHANGED <<submitted, transactions, size, arrivals>>
      /\ UNCHANGED coreVars
  BY Zenon DEF RunnerSend
<1>3. [own |-> TRUE, payload |-> p] \in MempoolMessage
  BY DEF TypeOK, MempoolMessage
<1>4. core_channel' \in Seq(MempoolMessage)
  BY <1>1, <1>3 DEF TypeOK
<1>5. Cardinality(sending') <= 1
  BY <1>2, FS_EmptySet
<1> QED
  BY <1>2, <1>4, <1>5, CoreKept DEF TypeOK

(* So does the arrival of another node's payload. *)
LEMMA PeerSendsTypes == ASSUME TypeOK, NEW p \in PeerPayload, PeerSends(p) PROVE TypeOK'
<1>1. /\ core_channel' = Append(core_channel, [own |-> FALSE, payload |-> p])
      /\ arrivals' = [arrivals EXCEPT ![p] = @ + 1] /\ arrivals[p] < Copies
      /\ UNCHANGED <<submitted, transactions, size, sending>> /\ UNCHANGED coreVars
  BY Zenon DEF PeerSends
<1>2. [own |-> FALSE, payload |-> p] \in MempoolMessage
  BY DEF MempoolMessage
<1>3. core_channel' \in Seq(MempoolMessage)
  BY <1>1, <1>2 DEF TypeOK
<1>4. arrivals' \in [PeerPayload -> 0..Copies]
  BY <1>1, MempoolAssumption DEF TypeOK
<1> QED
  BY <1>1, <1>3, <1>4, CoreKept DEF TypeOK

(* What a payload received by Core changes: it is stored and queued, or     *)
(* dropped if it is this node's.                                           *)
LEMMA ReceiveEffect ==
    ASSUME CoreReceive
    PROVE  LET p == Head(core_channel).payload
           IN  /\ core_channel # <<>> /\ core_channel' = Tail(core_channel)
               /\ \/ /\ store' = store \cup {p} /\ dropped' = dropped
                     /\ queue' = [tag \in Tag |-> queue[tag] \cup {p}]
                  \/ store' = store /\ queue' = queue /\ dropped' = dropped \cup {p}
               /\ UNCHANGED <<submitted, transactions, size, sending, arrivals>>
               /\ UNCHANGED <<getting, handed, committed, gets>>
BY Zenon DEF CoreReceive, handle_own_payload, handle_others_payload

(* A message received by Core keeps the types. *)
LEMMA CoreReceiveTypes == ASSUME TypeOK, CoreReceive PROVE TypeOK'
<1> DEFINE p == Head(core_channel).payload
<1>1. p \in OwnPayload \cup PeerPayload
  BY Received, ReceiveEffect DEF MempoolMessage
<1> HIDE DEF p
<1>2. core_channel' \in Seq(MempoolMessage)
  <2>1. core_channel # <<>> /\ core_channel' = Tail(core_channel)
    BY ReceiveEffect, Zenon
  <2> QED
    BY <2>1 DEF TypeOK
<1>3. /\ \/ /\ store' = store \cup {p} /\ dropped' = dropped
            /\ queue' = [tag \in Tag |-> queue[tag] \cup {p}]
         \/ store' = store /\ queue' = queue /\ dropped' = dropped \cup {p}
      /\ UNCHANGED <<submitted, transactions, size, sending, arrivals>>
      /\ UNCHANGED <<getting, handed, committed, gets>>
  BY ReceiveEffect, Zenon DEF p
<1>4. queue' \in [Tag -> SUBSET (OwnPayload \cup PeerPayload)]
  BY <1>1, <1>3 DEF TypeOK
<1>5. {store, committed, dropped}' \subseteq SUBSET (OwnPayload \cup PeerPayload)
  BY <1>1, <1>3 DEF TypeOK
<1> QED
  BY <1>2, <1>3, <1>4, <1>5 DEF TypeOK

(* What get_payload changes: digests move from the queue to consensus, or   *)
(* Core asks the Runner.                                                   *)
LEMMA GetEffect ==
    ASSUME NEW tag \in Tag, get_payload(tag)
    PROVE  /\ \/ getting' = tag /\ UNCHANGED <<queue, handed>>
              \/ /\ getting' = getting
                 /\ \E digests \in SUBSET queue[tag] :
                       /\ queue' = [queue EXCEPT ![tag] = @ \ digests]
                       /\ handed' = [handed EXCEPT ![tag] = @ \cup digests]
           /\ gets < MaxGets /\ gets' = gets + 1
           /\ UNCHANGED <<submitted, transactions, size, sending, core_channel, arrivals>>
           /\ UNCHANGED <<store, committed, dropped>>
BY Zenon DEF get_payload

(* A call of get_payload keeps the types. *)
LEMMA GetTypes == ASSUME TypeOK, NEW tag \in Tag, get_payload(tag) PROVE TypeOK'
<1>1. /\ gets < MaxGets /\ gets' = gets + 1
      /\ UNCHANGED <<submitted, transactions, size, sending, core_channel, arrivals>>
      /\ UNCHANGED <<store, committed, dropped>>
  BY GetEffect, Zenon
<1>2. getting' \in Tag \cup {NoTag}
  BY GetEffect DEF TypeOK
<1>3. /\ queue' \in [Tag -> SUBSET (OwnPayload \cup PeerPayload)]
      /\ handed' \in [Tag -> SUBSET (OwnPayload \cup PeerPayload)]
  <2>1. CASE UNCHANGED <<queue, handed>>
    BY <2>1 DEF TypeOK
  <2>2. CASE \E digests \in SUBSET queue[tag] :
                /\ queue' = [queue EXCEPT ![tag] = @ \ digests]
                /\ handed' = [handed EXCEPT ![tag] = @ \cup digests]
    <3>1. PICK digests \in SUBSET queue[tag] :
                /\ queue' = [queue EXCEPT ![tag] = @ \ digests]
                /\ handed' = [handed EXCEPT ![tag] = @ \cup digests]
      BY <2>2
    <3>2. digests \subseteq OwnPayload \cup PeerPayload
      BY DEF TypeOK
    <3> QED
      BY <3>1, <3>2 DEF TypeOK
  <2> QED
    BY <2>1, <2>2, GetEffect
<1>4. gets' \in 0..MaxGets
  BY <1>1, MempoolAssumption DEF TypeOK
<1> QED
  BY <1>1, <1>2, <1>3, <1>4 DEF TypeOK

(* What the answer of the Runner changes: the buffer is stored and handed   *)
(* out, or dropped, or holds nothing.                                      *)
LEMMA MakeEffect ==
    ASSUME TypeOK, MakePayload
    PROVE  /\ getting \in Tag /\ getting' = NoTag /\ sending = {}
           /\ transactions' = {} /\ size' = 0
           /\ \/ /\ SizeOf(transactions) > 0
                 /\ store' = store \cup {transactions} /\ dropped' = dropped
                 /\ handed' = [handed EXCEPT ![getting] = @ \cup {transactions}]
              \/ dropped' = dropped \cup {transactions} /\ UNCHANGED <<store, handed>>
              \/ SizeOf(transactions) = 0 /\ UNCHANGED <<store, handed, dropped>>
           /\ UNCHANGED <<submitted, sending, core_channel, arrivals, queue, committed, gets>>
<1>1. getting \in Tag
  BY Zenon DEF MakePayload, TypeOK
<1> QED
  BY <1>1, Zenon DEF MakePayload

(* The answer of the Runner keeps the types. *)
LEMMA MakeTypes == ASSUME TypeOK, MakePayload PROVE TypeOK'
<1>1. /\ getting \in Tag /\ getting' = NoTag /\ transactions' = {} /\ size' = 0
      /\ UNCHANGED <<submitted, sending, core_channel, arrivals, queue, committed, gets>>
  BY MakeEffect, Zenon
<1>2. transactions \in OwnPayload
  BY DEF TypeOK, OwnPayload
<1>3. \/ /\ store' = store \cup {transactions} /\ dropped' = dropped
         /\ handed' = [handed EXCEPT ![getting] = @ \cup {transactions}]
      \/ dropped' = dropped \cup {transactions} /\ UNCHANGED <<store, handed>>
      \/ UNCHANGED <<store, handed, dropped>>
  BY MakeEffect, Zenon
<1>4. handed' \in [Tag -> SUBSET (OwnPayload \cup PeerPayload)]
  BY <1>1, <1>2, <1>3 DEF TypeOK
<1>5. {store, committed, dropped}' \subseteq SUBSET (OwnPayload \cup PeerPayload)
  BY <1>1, <1>2, <1>3 DEF TypeOK
<1> QED
  BY <1>1, <1>4, <1>5 DEF TypeOK

(* A cleanup keeps the types. *)
LEMMA CleanupTypes == ASSUME TypeOK, NEW p \in store, cleanup(p) PROVE TypeOK'
<1>1. /\ committed' = committed \cup {p}
      /\ queue' = [tag \in Tag |-> queue[tag] \ {p}]
      /\ UNCHANGED <<submitted, transactions, size, sending, core_channel, arrivals>>
      /\ UNCHANGED <<store, getting, handed, dropped, gets>>
  BY Zenon DEF cleanup
<1>2. queue' \in [Tag -> SUBSET (OwnPayload \cup PeerPayload)]
  BY <1>1 DEF TypeOK
<1>3. {store, committed, dropped}' \subseteq SUBSET (OwnPayload \cup PeerPayload)
  BY <1>1 DEF TypeOK
<1> QED
  BY <1>1, <1>2, <1>3 DEF TypeOK

(* No step breaks the types. *)
LEMMA TypeStep == TypeOK /\ [Next]_vars => TypeOK'
<1> SUFFICES ASSUME TypeOK, [Next]_vars PROVE TypeOK'
  OBVIOUS
<1>1. CASE Next
  <2>1. CASE \E t \in Tx : Add(t)
    BY <2>1, AddTypes
  <2>2. CASE RunnerSend
    BY <2>2, RunnerSendTypes
  <2>3. CASE CoreReceive
    BY <2>3, CoreReceiveTypes
  <2>4. CASE MakePayload
    BY <2>4, MakeTypes
  <2>5. CASE \E p \in PeerPayload : PeerSends(p)
    BY <2>5, PeerSendsTypes
  <2>6. CASE \E tag \in Tag : get_payload(tag)
    BY <2>6, GetTypes
  <2>7. CASE \E p \in store : cleanup(p)
    BY <2>7, CleanupTypes
  <2> QED
    BY <1>1, <2>1, <2>2, <2>3, <2>4, <2>5, <2>6, <2>7, Zenon DEF Next
<1>2. CASE UNCHANGED vars
  BY <1>2 DEF vars, TypeOK
<1> QED
  BY <1>1, <1>2

(* Every variable of the mempool keeps its type; in particular the Runner   *)
(* sends one payload at a time.                                            *)
THEOREM MempoolTypeCorrect == Spec => []TypeOK
<1> QED
  BY TypeInit, TypeStep, PTL DEF Spec
-----------------------------------------------------------------------------
(* Whether a payload fits is the same in every state. *)
LEMMA FitsKept == \A p : Fits(p)' <=> Fits(p)
BY DEF Fits

(* Nothing was sent at the start. *)
LEMMA InvInit == Init => MempoolInv
<1> SUFFICES ASSUME Init PROVE MempoolInv
  OBVIOUS
<1>1. /\ submitted = {} /\ transactions = {} /\ size = 0 /\ sending = {} /\ core_channel = <<>>
      /\ store = {} /\ committed = {}
      /\ queue = [tag \in Tag |-> {}] /\ handed = [tag \in Tag |-> {}]
  BY Zenon DEF Init
<1>2. BufferInv
  BY <1>1, FS_EmptySet, SizeOfNone, MempoolAssumption DEF BufferInv, Fits
<1>3. Channelled = {}
  BY <1>1 DEF Channelled
<1>4. MadeInv /\ OnceInv
  BY <1>1, <1>3 DEF MadeInv, OnceInv, Repeated
<1>5. StoredInv /\ CommittedNotQueued /\ HandedNotQueued
  BY <1>1 DEF StoredInv, CommittedNotQueued, HandedNotQueued
<1>6. NoTxLost
  BY <1>1 DEF NoTxLost
<1> QED
  BY <1>2, <1>4, <1>5, <1>6, TypeInit DEF MempoolInv

(* The buffer is in no payload; a payload equal to it has nothing in it. *)
LEMMA BufferNotMade ==
    ASSUME TypeOK, MadeInv, transactions \in sending \cup Channelled \cup store
    PROVE  transactions = {}
BY DEF MadeInv, TypeOK

(* Runner::add keeps the invariant. *)
LEMMA AddInv == ASSUME MempoolInv, NEW t \in Tx, Add(t) PROVE MempoolInv'
<1>0. TypeOK /\ TypeOK'
  BY AddTypes DEF MempoolInv
<1>1. /\ sending = {} /\ t \notin submitted /\ submitted' = submitted \cup {t}
      /\ core_channel' = core_channel /\ arrivals' = arrivals
      /\ store' = store /\ queue' = queue /\ handed' = handed
      /\ committed' = committed /\ dropped' = dropped
  BY Zenon DEF Add, coreVars
<1>2. \/ sending' = {transactions} /\ transactions' = {t} /\ size' = Size[t]
      \/ /\ ~(size + Size[t] > max_size)
         /\ sending' = sending /\ transactions' = transactions \cup {t} /\ size' = size + Size[t]
  BY Zenon DEF Add
<1>3. Channelled' = Channelled /\ Repeated' = Repeated
  BY <1>1, ChannelKept
<1>4. \A p : SentAgain(p)' <=> SentAgain(p)
  BY <1>1 DEF SentAgain
<1>5. Size[t] \in Nat /\ max_size \in Nat /\ t \notin transactions
  BY <1>1, MempoolAssumption DEF MempoolInv, BufferInv
<1>6. BufferInv'
  <2>1. CASE sending' = {transactions} /\ transactions' = {t} /\ size' = Size[t]
    <3>1. IsFiniteSet({t}) /\ SizeOf({t}) = Size[t]
      BY SizeOfOne, FS_Singleton
    <3>2. Fits({t})
      BY <3>1, <1>5 DEF Fits
    <3>3. transactions' \subseteq submitted' /\ \A p, q \in sending' : p = q
      BY <1>1, <2>1
    <3>4. IsFiniteSet(transactions') /\ size' = SizeOf(transactions') /\ Fits(transactions')
      BY <2>1, <3>1, <3>2
    <3> QED
      BY <3>3, <3>4 DEF BufferInv, Fits
  <2>2. CASE /\ ~(size + Size[t] > max_size)
             /\ sending' = sending /\ transactions' = transactions \cup {t}
             /\ size' = size + Size[t]
    <3>1. /\ IsFiniteSet(transactions \cup {t})
          /\ SizeOf(transactions \cup {t}) = SizeOf(transactions) + Size[t]
      BY <1>0, <1>5, FS_AddElement, SizeOfAdd DEF MempoolInv, BufferInv, TypeOK
    <3>2. size = SizeOf(transactions) /\ size \in Nat
      BY <1>0 DEF MempoolInv, BufferInv, TypeOK
    <3>3. Fits(transactions \cup {t})
      BY <2>2, <3>1, <3>2, <1>5 DEF Fits
    <3>4. transactions' \subseteq submitted' /\ \A p, q \in sending' : p = q
      BY <1>1, <2>2 DEF MempoolInv, BufferInv
    <3>5. IsFiniteSet(transactions') /\ size' = SizeOf(transactions') /\ Fits(transactions')
      BY <2>2, <3>1, <3>2, <3>3
    <3> QED
      BY <3>4, <3>5 DEF BufferInv, Fits
  <2> QED
    BY <1>2, <2>1, <2>2, Zenon
<1>7. sending' \subseteq {transactions} /\ transactions' \subseteq transactions \cup {t}
  BY <1>1, <1>2
<1>8. \/ sending' = {transactions} /\ transactions' = {t}
      \/ transactions' = transactions \cup {t}
  BY <1>2
<1>9. MadeInv'
  <2> SUFFICES ASSUME NEW p \in sending' \cup Channelled \cup store, p \subseteq Tx
               PROVE  p \subseteq submitted' /\ p \cap transactions' = {} /\ Fits(p)
    BY <1>1, <1>3, FitsKept DEF MadeInv
  <2>1. CASE p \in Channelled \cup store
    BY <2>1, <1>1, <1>7 DEF MempoolInv, MadeInv
  <2>2. CASE p \in sending'
    <3>1. p = transactions /\ transactions' = {t}
      BY <2>2, <1>1, <1>2
    <3> QED
      BY <3>1, <1>1, <1>5 DEF MempoolInv, BufferInv
  <2> QED
    BY <2>1, <2>2
<1>10. OnceInv'
  <2>1. \A p \in sending' \cap (Channelled \cup store) : SentAgain(p)
    BY <1>0, <1>7, BufferNotMade DEF SentAgain, MempoolInv
  <2> QED
    BY <2>1, <1>1, <1>3, <1>4 DEF MempoolInv, OnceInv
<1>11. NoTxLost'
  BY <1>1, <1>3, <1>8 DEF MempoolInv, NoTxLost
<1>12. StoredInv' /\ CommittedNotQueued' /\ HandedNotQueued'
  BY <1>1, <1>4 DEF MempoolInv, StoredInv, CommittedNotQueued, HandedNotQueued
<1> QED
  BY <1>0, <1>6, <1>9, <1>10, <1>11, <1>12 DEF MempoolInv

(* The Runner's payload enters core_channel. *)
LEMMA RunnerSendInv == ASSUME MempoolInv, RunnerSend PROVE MempoolInv'
<1>0. TypeOK /\ TypeOK'
  BY RunnerSendTypes DEF MempoolInv
<1>1. PICK p \in sending : core_channel' = Append(core_channel, [own |-> TRUE, payload |-> p])
  BY Zenon DEF RunnerSend
<1>2. /\ sending' = {} /\ submitted' = submitted /\ transactions' = transactions /\ size' = size
      /\ arrivals' = arrivals /\ store' = store /\ queue' = queue /\ handed' = handed
      /\ committed' = committed /\ dropped' = dropped
  BY Zenon DEF RunnerSend, coreVars
<1>3. p \in OwnPayload /\ p \notin PeerPayload
  BY <1>0, MempoolAssumption DEF TypeOK, OwnPayload
<1>4. Channelled' = Channelled \cup {p} /\ Repeated' \subseteq Repeated \cup (Channelled \cap {p})
  <2> DEFINE m == [own |-> TRUE, payload |-> p]
  <2>1. m \in MempoolMessage /\ m.payload = p
    BY <1>3 DEF MempoolMessage
  <2> HIDE DEF m
  <2> QED
    BY <1>0, <1>1, <2>1, Appended DEF m
<1>5. \A q : SentAgain(q)' <=> SentAgain(q)
  BY <1>2 DEF SentAgain
<1>6. BufferInv'
  BY <1>2, FitsKept DEF MempoolInv, BufferInv
<1>7. MadeInv'
  BY <1>2, <1>4, FitsKept DEF MempoolInv, MadeInv
<1>8. OnceInv'
  <2>1. \A q \in Channelled' \cap store : SentAgain(q)
    BY <1>4 DEF MempoolInv, OnceInv
  <2>2. \A q \in Repeated' : SentAgain(q)
    BY <1>4 DEF MempoolInv, OnceInv
  <2>3. \A q \in PeerPayload \cap (Channelled' \cup store) : arrivals[q] > 0
    BY <1>3, <1>4 DEF MempoolInv, OnceInv
  <2> QED
    BY <1>2, <1>5, <2>1, <2>2, <2>3 DEF OnceInv
<1>9. NoTxLost'
  <2>1. sending = {p}
    BY DEF MempoolInv, BufferInv
  <2> QED
    BY <1>2, <1>4, <2>1 DEF MempoolInv, NoTxLost
<1>10. StoredInv' /\ CommittedNotQueued' /\ HandedNotQueued'
  BY <1>2, <1>5 DEF MempoolInv, StoredInv, CommittedNotQueued, HandedNotQueued
<1> QED
  BY <1>0, <1>6, <1>7, <1>8, <1>9, <1>10 DEF MempoolInv

(* Another node's payload enters core_channel. *)
LEMMA PeerSendsInv == ASSUME MempoolInv, NEW p \in PeerPayload, PeerSends(p) PROVE MempoolInv'
<1>0. TypeOK /\ TypeOK'
  BY PeerSendsTypes DEF MempoolInv
<1>1. /\ core_channel' = Append(core_channel, [own |-> FALSE, payload |-> p])
      /\ arrivals' = [arrivals EXCEPT ![p] = @ + 1]
      /\ sending' = sending /\ submitted' = submitted
      /\ transactions' = transactions /\ size' = size
      /\ store' = store /\ queue' = queue /\ handed' = handed
      /\ committed' = committed /\ dropped' = dropped
  BY Zenon DEF PeerSends, coreVars
<1>2. p \notin OwnPayload /\ ~(p \subseteq Tx)
  BY MempoolAssumption DEF OwnPayload
<1>3. Channelled' = Channelled \cup {p} /\ Repeated' \subseteq Repeated \cup (Channelled \cap {p})
  <2> DEFINE m == [own |-> FALSE, payload |-> p]
  <2>1. m \in MempoolMessage /\ m.payload = p
    BY DEF MempoolMessage
  <2> HIDE DEF m
  <2> QED
    BY <1>0, <1>1, <2>1, Appended DEF m
<1>4. /\ \A q \in PeerPayload : arrivals[q] \in Nat /\ arrivals'[q] \in Nat
      /\ \A q \in PeerPayload : arrivals'[q] >= arrivals[q]
      /\ arrivals'[p] = arrivals[p] + 1
  BY <1>0, <1>1, MempoolAssumption DEF TypeOK
<1>5. \A q : SentAgain(q) => SentAgain(q)'
  BY <1>4 DEF SentAgain
<1>6. p \in Channelled \cup store => SentAgain(p)'
  BY <1>4 DEF SentAgain, MempoolInv, OnceInv
<1>7. BufferInv'
  BY <1>1, FitsKept DEF MempoolInv, BufferInv
<1>8. MadeInv'
  BY <1>1, <1>2, <1>3, FitsKept DEF MempoolInv, MadeInv
<1>9. OnceInv'
  <2>1. \A q \in sending \cap (Channelled' \cup store) : SentAgain(q)'
    <3>1. p \notin sending
      BY <1>0, <1>2 DEF TypeOK
    <3> QED
      BY <3>1, <1>3, <1>5 DEF MempoolInv, OnceInv
  <2>2. \A q \in Channelled' \cap store : SentAgain(q)'
    BY <1>3, <1>5, <1>6 DEF MempoolInv, OnceInv
  <2>3. \A q \in Repeated' : SentAgain(q)'
    BY <1>3, <1>5, <1>6 DEF MempoolInv, OnceInv
  <2>4. \A q \in PeerPayload \cap (Channelled' \cup store) : arrivals'[q] > 0
    <3>1. \A q \in PeerPayload \cap (Channelled \cup store) : arrivals[q] > 0
      BY DEF MempoolInv, OnceInv
    <3> QED
      BY <3>1, <1>3, <1>4
  <2> QED
    BY <1>1, <2>1, <2>2, <2>3, <2>4 DEF OnceInv
<1>10. NoTxLost'
  BY <1>1, <1>3 DEF MempoolInv, NoTxLost
<1>11. StoredInv' /\ CommittedNotQueued' /\ HandedNotQueued'
  BY <1>1, <1>5 DEF MempoolInv, StoredInv, CommittedNotQueued, HandedNotQueued
<1> QED
  BY <1>0, <1>7, <1>8, <1>9, <1>10, <1>11 DEF MempoolInv

(* Core stores and queues a payload, or drops it. *)
LEMMA CoreReceiveInv == ASSUME MempoolInv, CoreReceive PROVE MempoolInv'
<1> DEFINE p == Head(core_channel).payload
<1>0. TypeOK /\ TypeOK'
  BY CoreReceiveTypes DEF MempoolInv
<1>1. /\ core_channel # <<>> /\ core_channel' = Tail(core_channel)
      /\ \/ /\ store' = store \cup {p} /\ dropped' = dropped
            /\ queue' = [tag \in Tag |-> queue[tag] \cup {p}]
         \/ store' = store /\ queue' = queue /\ dropped' = dropped \cup {p}
      /\ sending' = sending /\ submitted' = submitted
      /\ transactions' = transactions /\ size' = size
      /\ arrivals' = arrivals /\ handed' = handed /\ committed' = committed
  BY ReceiveEffect, Zenon
<1>2. /\ Channelled = Channelled' \cup {p} /\ Repeated' \subseteq Repeated
      /\ p \in Channelled' => p \in Repeated
  BY <1>0, <1>1, Received
<1> HIDE DEF p
<1>3. \A q : SentAgain(q)' <=> SentAgain(q)
  BY <1>1 DEF SentAgain
<1>4. store \subseteq store' /\ store' \subseteq store \cup {p}
  BY <1>1
<1>5. BufferInv'
  BY <1>1, FitsKept DEF MempoolInv, BufferInv
<1>6. MadeInv'
  BY <1>1, <1>2, <1>4, FitsKept DEF MempoolInv, MadeInv
<1>7. \A tag \in Tag : queue'[tag] \subseteq queue[tag] \cup (store' \cap {p})
  BY <1>0, <1>1 DEF TypeOK
<1>8. StoredInv'
  BY <1>1, <1>4, <1>7 DEF MempoolInv, StoredInv
<1>9. OnceInv'
  <2>1. \A q \in sending \cap (Channelled' \cup store') : SentAgain(q)
    BY <1>2, <1>4 DEF MempoolInv, OnceInv
  <2>2. \A q \in Channelled' \cap store' : SentAgain(q)
    BY <1>2, <1>4 DEF MempoolInv, OnceInv
  <2>3. \A q \in Repeated' : SentAgain(q)
    BY <1>2 DEF MempoolInv, OnceInv
  <2>4. \A q \in PeerPayload \cap (Channelled' \cup store') : arrivals[q] > 0
    BY <1>2, <1>4 DEF MempoolInv, OnceInv
  <2> QED
    BY <1>1, <1>3, <2>1, <2>2, <2>3, <2>4 DEF OnceInv
<1>10. NoTxLost'
  <2>1. /\ Channelled \subseteq Channelled' \cup store' \cup dropped'
        /\ store \subseteq store' /\ dropped \subseteq dropped'
    BY <1>1, <1>2
  <2> QED
    BY <1>1, <2>1 DEF MempoolInv, NoTxLost
<1>11. p \in store => SentAgain(p)
  BY <1>2 DEF MempoolInv, OnceInv
<1>12. CommittedNotQueued'
  BY <1>1, <1>3, <1>7, <1>11 DEF MempoolInv, StoredInv, CommittedNotQueued
<1>13. HandedNotQueued'
  BY <1>1, <1>3, <1>7, <1>11 DEF MempoolInv, StoredInv, HandedNotQueued
<1> QED
  BY <1>0, <1>5, <1>6, <1>8, <1>9, <1>10, <1>12, <1>13 DEF MempoolInv

(* get_payload hands out of the queue, or asks the Runner. *)
LEMMA GetInv == ASSUME MempoolInv, NEW tag \in Tag, get_payload(tag) PROVE MempoolInv'
<1>0. TypeOK /\ TypeOK'
  BY GetTypes DEF MempoolInv
<1>1. /\ sending' = sending /\ submitted' = submitted
      /\ transactions' = transactions /\ size' = size
      /\ core_channel' = core_channel /\ arrivals' = arrivals
      /\ store' = store /\ committed' = committed /\ dropped' = dropped
  BY GetEffect, Zenon
<1>2. PICK digests \in SUBSET queue[tag] :
         /\ queue' = [queue EXCEPT ![tag] = @ \ digests]
         /\ handed' = [handed EXCEPT ![tag] = @ \cup digests]
  <2>1. CASE UNCHANGED <<queue, handed>>
    <3>1. /\ queue = [queue EXCEPT ![tag] = @ \ {}]
          /\ handed = [handed EXCEPT ![tag] = @ \cup {}]
      BY <1>0 DEF TypeOK
    <3> QED
      BY <2>1, <3>1
  <2> QED
    BY <2>1, GetEffect
<1>3. \A g \in Tag : queue'[g] \subseteq queue[g] /\ (g = tag => queue'[g] \cap digests = {})
  BY <1>0, <1>2 DEF TypeOK
<1>4. \A g \in Tag : handed'[g] \subseteq handed[g] \cup (IF g = tag THEN digests ELSE {})
  BY <1>0, <1>2 DEF TypeOK
<1>5. Channelled' = Channelled /\ Repeated' = Repeated
  BY <1>1, ChannelKept
<1>6. \A q : SentAgain(q)' <=> SentAgain(q)
  BY <1>1 DEF SentAgain
<1>7. BufferInv' /\ MadeInv'
  BY <1>1, <1>5, FitsKept DEF MempoolInv, BufferInv, MadeInv
<1>8. OnceInv'
  BY <1>1, <1>5, <1>6 DEF MempoolInv, OnceInv
<1>9. NoTxLost'
  BY <1>1, <1>5 DEF MempoolInv, NoTxLost
<1>10. StoredInv'
  BY <1>1, <1>3, <1>4 DEF MempoolInv, StoredInv
<1>11. CommittedNotQueued'
  BY <1>1, <1>3, <1>6 DEF MempoolInv, CommittedNotQueued
<1>12. HandedNotQueued'
  BY <1>3, <1>4, <1>6 DEF MempoolInv, HandedNotQueued
<1> QED
  BY <1>0, <1>7, <1>8, <1>9, <1>10, <1>11, <1>12 DEF MempoolInv

(* The Runner answers Core with its buffer. *)
LEMMA MakeInv == ASSUME MempoolInv, MakePayload PROVE MempoolInv'
<1>0. TypeOK /\ TypeOK'
  BY MakeTypes DEF MempoolInv
<1>1. /\ getting \in Tag /\ sending = {} /\ transactions' = {} /\ size' = 0
      /\ sending' = sending /\ submitted' = submitted
      /\ core_channel' = core_channel /\ arrivals' = arrivals
      /\ queue' = queue /\ committed' = committed
  BY <1>0, MakeEffect, Zenon
<1>2. \/ /\ SizeOf(transactions) > 0
         /\ store' = store \cup {transactions} /\ dropped' = dropped
         /\ handed' = [handed EXCEPT ![getting] = @ \cup {transactions}]
      \/ /\ dropped' = dropped \cup {transactions}
         /\ store' = store /\ handed' = handed
      \/ /\ SizeOf(transactions) = 0
         /\ store' = store /\ handed' = handed /\ dropped' = dropped
  BY <1>0, MakeEffect, Zenon
<1>3. Channelled' = Channelled /\ Repeated' = Repeated
  BY <1>1, ChannelKept
<1>4. \A q : SentAgain(q)' <=> SentAgain(q)
  BY <1>1 DEF SentAgain
<1>5. transactions \in SUBSET Tx /\ transactions \notin PeerPayload
  BY <1>0, MempoolAssumption DEF TypeOK
<1>6. SizeOf(transactions) > 0 => transactions \notin sending \cup Channelled \cup store
  <2>1. transactions = {} => SizeOf(transactions) = 0
    BY SizeOfNone
  <2> QED
    BY <1>0, <2>1, BufferNotMade DEF MempoolInv
<1>7. \/ store' = store
      \/ /\ store' = store \cup {transactions}
         /\ transactions \notin sending \cup Channelled \cup store
  BY <1>2, <1>6
<1>8. \A tag \in Tag : handed'[tag] \subseteq handed[tag] \cup (store' \ store)
  BY <1>0, <1>1, <1>2, <1>6 DEF TypeOK
<1>9. BufferInv'
  <2>1. IsFiniteSet({}) /\ SizeOf({}) = 0 /\ Fits({})
    BY SizeOfNone, FS_EmptySet, MempoolAssumption DEF Fits
  <2>2. IsFiniteSet(transactions') /\ size' = SizeOf(transactions') /\ Fits(transactions')
    BY <1>1, <2>1
  <2> QED
    BY <1>1, <2>2 DEF BufferInv, Fits
<1>10. MadeInv'
  <2>1. transactions \subseteq submitted /\ Fits(transactions)
    BY DEF MempoolInv, BufferInv
  <2> QED
    BY <1>1, <1>3, <1>7, <2>1, FitsKept DEF MempoolInv, MadeInv
<1>11. StoredInv'
  <2>1. store \subseteq store'
    BY <1>7
  <2> QED
    BY <1>1, <1>8, <2>1 DEF MempoolInv, StoredInv
<1>12. OnceInv'
  <2>1. \A q \in sending \cap (Channelled \cup store') : SentAgain(q)
    BY <1>1
  <2>2. \A q \in Channelled \cap store' : SentAgain(q)
    BY <1>7 DEF MempoolInv, OnceInv
  <2>3. \A q \in PeerPayload \cap (Channelled \cup store') : arrivals[q] > 0
    BY <1>5, <1>7 DEF MempoolInv, OnceInv
  <2> QED
    BY <1>1, <1>3, <1>4, <2>1, <2>2, <2>3 DEF MempoolInv, OnceInv
<1>13. NoTxLost'
  <2>1. \A t \in transactions : Size[t] = 0 \/ \E p \in store' \cup dropped' : t \in p
    <3>1. CASE SizeOf(transactions) = 0
      BY <3>1, <1>5, SizeOfZero DEF MempoolInv, BufferInv
    <3>2. CASE transactions \in store' \cup dropped'
      BY <3>2
    <3> QED
      BY <1>2, <3>1, <3>2
  <2>2. store \subseteq store' /\ dropped \subseteq dropped'
    BY <1>2
  <2> QED
    BY <1>1, <1>3, <2>1, <2>2 DEF MempoolInv, NoTxLost
<1>14. CommittedNotQueued'
  BY <1>1, <1>4 DEF MempoolInv, CommittedNotQueued
<1>15. HandedNotQueued'
  BY <1>1, <1>4, <1>8 DEF MempoolInv, StoredInv, HandedNotQueued
<1> QED
  BY <1>0, <1>9, <1>10, <1>11, <1>12, <1>13, <1>14, <1>15 DEF MempoolInv

(* A committed payload leaves both queues. *)
LEMMA CleanupInv == ASSUME MempoolInv, NEW p \in store, cleanup(p) PROVE MempoolInv'
<1>0. TypeOK /\ TypeOK'
  BY CleanupTypes DEF MempoolInv
<1>1. /\ committed' = committed \cup {p}
      /\ queue' = [tag \in Tag |-> queue[tag] \ {p}]
      /\ sending' = sending /\ submitted' = submitted
      /\ transactions' = transactions /\ size' = size
      /\ core_channel' = core_channel /\ arrivals' = arrivals
      /\ store' = store /\ handed' = handed /\ dropped' = dropped
  BY Zenon DEF cleanup
<1>2. \A tag \in Tag : queue'[tag] = queue[tag] \ {p}
  BY <1>1
<1>3. Channelled' = Channelled /\ Repeated' = Repeated
  BY <1>1, ChannelKept
<1>4. \A q : SentAgain(q)' <=> SentAgain(q)
  BY <1>1 DEF SentAgain
<1>5. BufferInv' /\ MadeInv'
  BY <1>1, <1>3, FitsKept DEF MempoolInv, BufferInv, MadeInv
<1>6. OnceInv'
  BY <1>1, <1>3, <1>4 DEF MempoolInv, OnceInv
<1>7. NoTxLost'
  BY <1>1, <1>3 DEF MempoolInv, NoTxLost
<1>8. StoredInv' /\ CommittedNotQueued' /\ HandedNotQueued'
  BY <1>1, <1>2, <1>4 DEF MempoolInv, StoredInv, CommittedNotQueued, HandedNotQueued
<1> QED
  BY <1>0, <1>5, <1>6, <1>7, <1>8 DEF MempoolInv

(* No step breaks the invariant. *)
LEMMA InvStep == MempoolInv /\ [Next]_vars => MempoolInv'
<1> SUFFICES ASSUME MempoolInv, [Next]_vars PROVE MempoolInv'
  OBVIOUS
<1>1. CASE Next
  <2>1. CASE \E t \in Tx : Add(t)
    BY <2>1, AddInv
  <2>2. CASE RunnerSend
    BY <2>2, RunnerSendInv
  <2>3. CASE CoreReceive
    BY <2>3, CoreReceiveInv
  <2>4. CASE MakePayload
    BY <2>4, MakeInv
  <2>5. CASE \E p \in PeerPayload : PeerSends(p)
    BY <2>5, PeerSendsInv
  <2>6. CASE \E tag \in Tag : get_payload(tag)
    BY <2>6, GetInv
  <2>7. CASE \E p \in store : cleanup(p)
    BY <2>7, CleanupInv
  <2> QED
    BY <1>1, <2>1, <2>2, <2>3, <2>4, <2>5, <2>6, <2>7, Zenon DEF Next
<1>2. CASE UNCHANGED vars
  <2>1. /\ TypeOK' /\ Channelled' = Channelled /\ Repeated' = Repeated
        /\ \A q : SentAgain(q)' <=> SentAgain(q)
    BY <1>2, TypeStep, ChannelKept DEF MempoolInv, vars, SentAgain
  <2>2. BufferInv' /\ MadeInv' /\ StoredInv'
    BY <1>2, <2>1, FitsKept DEF vars, MempoolInv, BufferInv, MadeInv, StoredInv
  <2>3. OnceInv' /\ NoTxLost'
    BY <1>2, <2>1 DEF vars, MempoolInv, OnceInv, NoTxLost
  <2>4. CommittedNotQueued' /\ HandedNotQueued'
    BY <1>2, <2>1 DEF vars, MempoolInv, CommittedNotQueued, HandedNotQueued
  <2> QED
    BY <2>1, <2>2, <2>3, <2>4 DEF MempoolInv
<1> QED
  BY <1>1, <1>2

(* The inductive invariant of the two tasks of the mempool. *)
THEOREM MempoolInvariance == Spec => []MempoolInv
<1> QED
  BY InvInit, InvStep, PTL DEF Spec

(* No transaction disappears between client_channel and the store, whether  *)
(* add, a request of Core or a full mempool moves it on.                   *)
THEOREM TransactionsKept == Spec => []NoTxLost
<1>1. MempoolInv => NoTxLost
  BY DEF MempoolInv
<1> QED
  BY <1>1, MempoolInvariance, PTL

(* Whatever get_payload gave to consensus, this node can send to the peers   *)
(* that miss it.                                                           *)
THEOREM HandedOutIsStored == Spec => []HandedAreStored
<1>1. MempoolInv => HandedAreStored
  BY DEF MempoolInv, StoredInv, HandedAreStored
<1> QED
  BY <1>1, MempoolInvariance, PTL

(* Runner::add closes payloads in time: a stored payload of this node passes *)
(* the size check of its peers, or is one transaction that cannot pass it. *)
THEOREM PayloadsFit == Spec => []OwnPayloadsFit
<1>1. MempoolInv => OwnPayloadsFit
  BY DEF MempoolInv, MadeInv, OwnPayloadsFit
<1> QED
  BY <1>1, MempoolInvariance, PTL

(* cleanup is final: a committed payload is queued again only if it was     *)
(* sent again.                                                             *)
THEOREM CommittedLeavesQueue == Spec => []CommittedNotQueued
<1>1. MempoolInv => CommittedNotQueued
  BY DEF MempoolInv
<1> QED
  BY <1>1, MempoolInvariance, PTL

(* get_payload hands a payload out once per path, unless it was sent again. *)
THEOREM HandedOutOnce == Spec => []HandedNotQueued
<1>1. MempoolInv => HandedNotQueued
  BY DEF MempoolInv
<1> QED
  BY <1>1, MempoolInvariance, PTL
=============================================================================
