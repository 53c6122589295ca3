--------------------------- MODULE OptPathProofs ---------------------------
(***************************************************************************)
(* Safety of the optimistic path for every committee of 3f + 1 authorities, *)
(* every leader window and every universe of blocks.                       *)
(***************************************************************************)
EXTENDS OptPath, FiniteSetTheorems, TLAPS

(* The authorities are finitely many. *)
LEMMA AuthoritiesFinite ==
    ASSUME NEW n \in Nat, n > 0
    PROVE  IsFiniteSet(0..n-1) /\ Cardinality(0..n-1) = n
BY FS_Interval

(* quorum_threshold is 2f + 1 when there are 3f + 1 authorities. *)
LEMMA QuorumIs2fPlus1 ==
    ASSUME NEW n \in Nat, n % 3 = 1
    PROVE  \E f \in Nat : n = 3 * f + 1 /\ quorum_threshold(n) = 2 * f + 1
<1> DEFINE f == n \div 3
<1>1. f \in Nat /\ n = 3 * f + 1
  OBVIOUS
<1>2. (n - 1) \div 3 = f
  BY <1>1
<1> QED
  BY <1>1, <1>2 DEF quorum_threshold

(* Any two quorums share an authority that is not faulty: two certificates *)
(* always have a correct voter in common.                                  *)
THEOREM QuorumIntersection ==
    ASSUME NEW n \in Nat, n % 3 = 1,
           NEW F \in SUBSET (0..n-1), 3 * Cardinality(F) < n,
           NEW P \in SUBSET (0..n-1), Cardinality(P) >= quorum_threshold(n),
           NEW Q \in SUBSET (0..n-1), Cardinality(Q) >= quorum_threshold(n)
    PROVE  \E x \in (0..n-1) \ F : x \in P /\ x \in Q
<1> DEFINE S == 0..n-1
<1>1. PICK f \in Nat : n = 3 * f + 1 /\ quorum_threshold(n) = 2 * f + 1
  BY QuorumIs2fPlus1
<1>2. IsFiniteSet(S) /\ Cardinality(S) = n
  BY <1>1, AuthoritiesFinite
<1>3. /\ IsFiniteSet(P) /\ IsFiniteSet(Q) /\ IsFiniteSet(F)
      /\ IsFiniteSet(P \cup Q) /\ Cardinality(P \cup Q) <= n
      /\ IsFiniteSet(P \cap Q)
  <2>1. P \cup Q \in SUBSET S /\ P \cap Q \in SUBSET S
    OBVIOUS
  <2> QED
    BY <1>2, <2>1, FS_Subset
<1>4. /\ Cardinality(P) \in Nat /\ Cardinality(Q) \in Nat /\ Cardinality(F) \in Nat
      /\ Cardinality(P \cup Q) \in Nat /\ Cardinality(P \cap Q) \in Nat
  BY <1>3, FS_CardinalityType
<1>5. Cardinality(P \cup Q) = Cardinality(P) + Cardinality(Q) - Cardinality(P \cap Q)
  BY <1>3, FS_Union
<1>6. Cardinality(P \cap Q) >= f + 1 /\ Cardinality(F) <= f
  BY <1>1, <1>3, <1>4, <1>5
<1>7. ~(P \cap Q \subseteq F)
  <2> SUFFICES ASSUME P \cap Q \subseteq F
               PROVE  FALSE
    OBVIOUS
  <2>1. Cardinality(P \cap Q) <= Cardinality(F)
    BY <1>3, FS_Subset
  <2> QED
    BY <1>4, <1>6, <2>1
<1> QED
  BY <1>7

(* What Certified needs to know of the two sets of voters. *)
LEMMA VotersFinite ==
    ASSUME NEW S \in SUBSET Node
    PROVE  IsFiniteSet(S) /\ Cardinality(S) \in Nat /\ Cardinality(S) <= Cardinality(Node)
<1>1. IsFiniteSet(Node)
  BY AuthoritiesFinite, CommitteeAssumption DEF Node
<1> QED
  BY <1>1, FS_Subset, FS_CardinalityType

(* Two certified blocks have a correct voter in common. *)
LEMMA CommonVoter ==
    ASSUME NEW b, NEW c, Certified(b), Certified(c)
    PROVE  \E n \in Correct : <<n, b>> \in votes /\ <<n, c>> \in votes
<1> DEFINE P == {u \in Node : Voted(u, b)}
           Q == {u \in Node : Voted(u, c)}
<1>1. P \in SUBSET (0..N-1) /\ Q \in SUBSET (0..N-1)
  BY DEF Node
<1>2. Cardinality(P) >= quorum_threshold(N) /\ Cardinality(Q) >= quorum_threshold(N)
  BY DEF Certified
<1> HIDE DEF P, Q
<1>3. \E n \in (0..N-1) \ Faulty : n \in P /\ n \in Q
  BY <1>1, <1>2, QuorumIntersection, CommitteeAssumption DEF Node
<1> QED
  BY <1>3 DEF P, Q, Voted, Correct, Node

(* A certificate stays valid as more votes are sent. *)
LEMMA CertifiedStable ==
    ASSUME NEW b, votes \subseteq votes', Certified(b)
    PROVE  Certified(b)'
<1> DEFINE P == {u \in Node : Voted(u, b)}
           Q == {u \in Node : Voted(u, b)'}
<1>1. P \in SUBSET Q /\ Q \in SUBSET Node /\ P \in SUBSET Node
  BY DEF Voted
<1>2. Cardinality(P) <= Cardinality(Q) /\ Cardinality(P) \in Nat /\ Cardinality(Q) \in Nat
  <2> HIDE DEF P, Q
  <2> QED
    BY <1>1, VotersFinite, FS_Subset
<1>3. quorum_threshold(N) \in Int
  BY CommitteeAssumption DEF quorum_threshold
<1> QED
  BY <1>2, <1>3 DEF Certified, Voted

(* A valid QC stays valid, the genesis QC included. *)
LEMMA ValidQCStable ==
    ASSUME NEW b, votes \subseteq votes', ValidQC(b)
    PROVE  ValidQC(b)'
BY CertifiedStable DEF ValidQC

(* The facts about blocks that every step uses. *)
LEMMA BlockFacts ==
    /\ \A b \in Tree : Height[b] \in Nat /\ QC[b] \in Tree
    /\ \A b \in Block : b \in Tree /\ b # Genesis /\ Height[b] > 0
    /\ Genesis \in Tree /\ Height[Genesis] = 0 /\ QC[Genesis] = Genesis
    /\ Chain[Genesis] = {} /\ \A b \in Block : Chain[b] = {b} \cup Chain[QC[b]]
<1>1. /\ \A b \in Tree : Height[b] \in Nat /\ QC[b] \in Tree
      /\ \A b \in Tree : Height[b] = 0 <=> b = Genesis
      /\ Genesis \in Tree /\ QC[Genesis] = Genesis
  BY BlockAssumption DEF Tree
<1>2. \A b \in Block : b \in Tree /\ b # Genesis
  BY BlockAssumption DEF Tree
<1>3. \A b \in Block : Height[b] > 0
  BY <1>1, <1>2
<1>4. Chain[Genesis] = {} /\ \A b \in Block : Chain[b] = {b} \cup Chain[QC[b]]
  BY <1>1, <1>2, ChainAssumption
<1> QED
  BY <1>1, <1>2, <1>3, <1>4
-----------------------------------------------------------------------------
(* At most one block of a height is certified: a common correct voter would *)
(* have voted twice at that height.                                        *)
LEMMA UniqueCertificate ==
    ASSUME IInv
    PROVE  OneCertifiedPerHeight
<1> SUFFICES ASSUME NEW b \in Block, NEW c \in Block, Certified(b), Certified(c),
                    Height[b] = Height[c]
             PROVE  b = c
  BY DEF OneCertifiedPerHeight
<1>1. PICK n \in Correct : <<n, b>> \in votes /\ <<n, c>> \in votes
  BY CommonVoter
<1> QED
  BY <1>1 DEF IInv, OneVotePerHeight

(* Below a certificate no height is skipped and all is certified. *)
LEMMA CertifiedChains ==
    ASSUME IInv
    PROVE  CertifiedChain /\ \A b \in Block : Certified(b) => Chain[b] \subseteq Block
<1> SUFFICES ASSUME NEW b \in Block, Certified(b)
             PROVE  /\ {Height[c] : c \in Chain[b]} = 1..Height[b]
                    /\ \A c \in Chain[b] : Certified(c)
                    /\ Chain[b] \subseteq Block
  BY DEF CertifiedChain
<1>1. PICK n \in Correct : <<n, b>> \in votes
  BY CommonVoter
<1>2. b \in store[n] /\ {Height[c] : c \in Chain[b]} = 1..Height[b]
  BY <1>1 DEF IInv, VotesExtend
<1>3. Chain[b] \subseteq store[n] /\ \A c \in Chain[b] : c = b \/ Certified(c)
  BY <1>2 DEF IInv, StoreClosed
<1>4. store[n] \subseteq Block
  BY DEF IInv, TypeOK, Correct
<1> QED
  BY <1>2, <1>3, <1>4

(* Of two certified blocks, the chain of the higher one, cut at the height  *)
(* of the lower one, is the chain of the lower one.                        *)
LEMMA ChainPrefix ==
    ASSUME IInv, NEW b \in Tree, NEW c \in Tree, ValidQC(b), ValidQC(c), Height[b] <= Height[c]
    PROVE  /\ Chain[b] \subseteq Chain[c]
           /\ \A d \in Chain[c] : Height[d] <= Height[b] => d \in Chain[b]
<1>1. \A a \in Tree : ValidQC(a) =>
         /\ {Height[d] : d \in Chain[a]} = 1..Height[a]
         /\ \A d \in Chain[a] : Certified(d) /\ d \in Block
  <2> SUFFICES ASSUME NEW a \in Tree, ValidQC(a)
               PROVE  /\ {Height[d] : d \in Chain[a]} = 1..Height[a]
                      /\ \A d \in Chain[a] : Certified(d) /\ d \in Block
    OBVIOUS
  <2>1. CASE a = Genesis
    BY <2>1, BlockFacts
  <2>2. CASE a # Genesis
    <3>1. a \in Block /\ Certified(a)
      BY <2>2 DEF Tree, ValidQC
    <3> QED
      BY <3>1, CertifiedChains DEF CertifiedChain
  <2> QED
    BY <2>1, <2>2
<1>2. ASSUME NEW x \in Tree, NEW y \in Tree, ValidQC(x), ValidQC(y),
             NEW d \in Chain[x], Height[d] <= Height[y]
      PROVE  d \in Chain[y]
  <2>1. Height[d] \in 1..Height[x] /\ Certified(d) /\ d \in Block
    BY <1>1, <1>2
  <2>2. Height[d] \in 1..Height[y]
    BY <1>2, <2>1, BlockFacts
  <2>3. PICK e \in Chain[y] : Height[e] = Height[d]
    BY <1>1, <1>2, <2>2
  <2>4. e \in Block /\ Certified(e)
    BY <1>1, <1>2, <2>3
  <2> QED
    BY <2>1, <2>3, <2>4, UniqueCertificate DEF OneCertifiedPerHeight
<1>3. \A d \in Chain[b] : Height[d] <= Height[c]
  <2> SUFFICES ASSUME NEW d \in Chain[b]
               PROVE  Height[d] <= Height[c]
    OBVIOUS
  <2>1. Height[d] \in 1..Height[b]
    BY <1>1
  <2> QED
    BY <2>1, BlockFacts
<1> QED
  BY <1>2, <1>3

(* Whatever is committed is certified. *)
LEMMA LoggedCertified ==
    ASSUME IInv, NEW n \in Correct, NEW b \in log[n]
    PROVE  Certified(b) /\ b \in Block
<1>1. PICK a \in Tree : ValidQC(a) /\ log[n] = Chain[a]
  BY DEF IInv, LogCertified
<1>2. a # Genesis
  BY <1>1, BlockFacts
<1>3. a \in Block /\ Certified(a)
  BY <1>1, <1>2 DEF Tree, ValidQC
<1> QED
  BY <1>1, <1>3, CertifiedChains DEF CertifiedChain
-----------------------------------------------------------------------------
(* A step that neither stores, votes nor commits keeps the parts of the     *)
(* invariant about stores, votes and logs.                                 *)
LEMMA KeepStep ==
    ASSUME IInv, UNCHANGED <<votes, store, log, last_committed_height>>
    PROVE  OneVotePerHeight' /\ VotesExtend' /\ StoreClosed' /\ LogCertified'
<1>1. \A b : Certified(b) => Certified(b)'
  BY CertifiedStable
<1>2. \A b : ValidQC(b) => ValidQC(b)'
  BY ValidQCStable
<1>3. OneVotePerHeight' /\ VotesExtend'
  BY DEF IInv, OneVotePerHeight, VotesExtend
<1>4. StoreClosed'
  BY <1>1 DEF IInv, StoreClosed
<1>5. LogCertified'
  BY <1>2 DEF IInv, LogCertified
<1> QED
  BY <1>3, <1>4, <1>5

(* Storing b, committing its grandparent and voting for b keeps those       *)
(* parts, when b carries a valid QC.                                       *)
LEMMA StoreStep ==
    ASSUME IInv, NEW n \in Correct, NEW b \in Block, ValidQC(QC[b]),
           NEW h, StoreCommitVote(n, b, h)
    PROVE  /\ votes \subseteq votes'
           /\ \A v \in votes' : v \in votes \/ (v = <<n, b>> /\ last_voted_height'[n] = Height[b])
           /\ last_voted_height' \in [Node -> Nat]
           /\ \A m \in Node : last_voted_height[m] <= last_voted_height'[m]
           /\ OneVotePerHeight' /\ VotesExtend' /\ StoreClosed' /\ LogCertified'
<1> DEFINE b0 == QC[QC[b]]
           commits == Consecutive(b) /\ Height[b0] > last_committed_height[n]
           voting == Consecutive(b) /\ make_opt_vote(n, b, h)
<1>0. n \in Node /\ Correct \subseteq Node
  BY DEF Correct
<1>1. /\ HasParent(n, b)
      /\ store' = [store EXCEPT ![n] = @ \cup {b}]
      /\ log' = IF commits THEN [log EXCEPT ![n] = @ \cup Committable(n, b0)] ELSE log
      /\ last_committed_height' =
               IF commits THEN [last_committed_height EXCEPT ![n] = Height[b0]]
               ELSE last_committed_height
      /\ last_voted_height' =
               IF voting THEN [last_voted_height EXCEPT ![n] = Height[b]] ELSE last_voted_height
      /\ votes' = IF voting THEN votes \cup {<<n, b>>} ELSE votes
  BY DEF StoreCommitVote, GrandParent
<1>2. /\ last_voted_height \in [Node -> Nat] /\ last_committed_height \in [Node -> Nat]
      /\ store \in [Node -> SUBSET Block] /\ log \in [Node -> SUBSET Block]
  BY DEF IInv, TypeOK
<1>3. voting => Height[b] > last_voted_height[n] /\ Height[QC[b]] + 1 = Height[b]
  BY DEF make_opt_vote
<1>4. QC[b] = Genesis \/ (QC[b] \in store[n] /\ QC[b] \in Block)
  BY <1>0, <1>1, <1>2 DEF HasParent
<1> HIDE DEF commits, voting, b0
<1>5. votes \subseteq votes'
  BY <1>1
<1>6. /\ \A c : Certified(c) => Certified(c)'
      /\ \A c : ValidQC(c) => ValidQC(c)'
  BY <1>5, CertifiedStable, ValidQCStable
<1>7. \A v \in votes' : v \in votes \/ (v = <<n, b>> /\ last_voted_height'[n] = Height[b])
  BY <1>0, <1>1, <1>2
<1>8. /\ last_voted_height' \in [Node -> Nat]
      /\ \A m \in Node : last_voted_height[m] <= last_voted_height'[m]
  BY <1>0, <1>1, <1>2, <1>3, BlockFacts
<1>9. OneVotePerHeight'
  BY <1>0, <1>1, <1>2, <1>3, BlockFacts DEF IInv, OneVotePerHeight, VotesSent
<1>10. VotesExtend'
  <2>1. ASSUME NEW v \in votes
        PROVE  /\ v[2] \in store'[v[1]]
               /\ {Height[c] : c \in Chain[v[2]]} = 1..Height[v[2]]
    BY <1>0, <1>1, <1>2, <2>1 DEF IInv, VotesExtend, VotesSent
  <2>2. ASSUME voting
        PROVE  {Height[c] : c \in Chain[b]} = 1..Height[b]
    <3>1. Chain[b] = {b} \cup Chain[QC[b]] /\ Height[QC[b]] \in Nat
      BY BlockFacts
    <3>2. {Height[c] : c \in Chain[QC[b]]} = 1..Height[QC[b]]
      <4>1. CASE QC[b] = Genesis
        BY <4>1, BlockFacts
      <4>2. CASE QC[b] # Genesis
        BY <1>4, <4>2, CertifiedChains DEF CertifiedChain, ValidQC
      <4> QED
        BY <4>1, <4>2
    <3>3. 1..Height[b] = {Height[b]} \cup 1..Height[QC[b]]
      BY <1>3, <2>2, <3>1
    <3> QED
      BY <3>1, <3>2, <3>3
  <2>3. b \in store'[n]
    BY <1>0, <1>1, <1>2
  <2> QED
    BY <1>1, <2>1, <2>2, <2>3 DEF VotesExtend
<1>11. StoreClosed'
  <2> DEFINE P(m, c) == /\ Chain[c] \subseteq store'[m]
                        /\ \A d \in Chain[c] : Chain[d] \subseteq Chain[c] /\ (d = c \/ Certified(d))
  <2>1. ASSUME NEW m \in Correct, NEW c \in store[m]
        PROVE  P(m, c)
    BY <1>0, <1>1, <1>2, <2>1 DEF IInv, StoreClosed
  <2>2. P(n, b)
    <3>1. Chain[b] = {b} \cup Chain[QC[b]]
      BY BlockFacts
    <3>2. b \in store'[n]
      BY <1>0, <1>1, <1>2
    <3>3. CASE QC[b] = Genesis
      BY <3>1, <3>2, <3>3, BlockFacts
    <3>4. CASE QC[b] # Genesis
      <4>1. QC[b] \in store[n] /\ Certified(QC[b])
        BY <1>4, <3>4 DEF ValidQC
      <4>2. P(n, QC[b])
        BY <2>1, <4>1
      <4> QED
        BY <3>1, <3>2, <4>1, <4>2
    <3> QED
      BY <3>3, <3>4
  <2>3. ASSUME NEW m \in Correct, NEW c \in store'[m]
        PROVE  P(m, c)
    BY <1>0, <1>1, <1>2, <2>1, <2>2
  <2> QED
    BY <1>6, <2>3 DEF StoreClosed
<1>12. LogCertified'
  <2> SUFFICES ASSUME NEW m \in Correct
               PROVE  \E c \in Tree : /\ ValidQC(c)'
                                      /\ Height[c] = last_committed_height'[m]
                                      /\ log'[m] = Chain[c]
    BY DEF LogCertified
  <2>1. PICK a \in Tree : /\ ValidQC(a) /\ Height[a] = last_committed_height[m]
                          /\ log[m] = Chain[a]
    BY DEF IInv, LogCertified
  <2>2. CASE commits /\ m = n
    <3>1. b0 \in Tree /\ ValidQC(b0) /\ Height[b0] > Height[a]
      <4>1. Height[b0] > last_committed_height[n]
        BY <2>2 DEF commits
      <4>2. QC[b] # Genesis
        BY <1>0, <1>2, <4>1, BlockFacts DEF b0
      <4>3. ValidQC(b0)
        BY <1>4, <4>2 DEF IInv, QCsValid, b0
      <4> QED
        BY <1>4, <2>1, <2>2, <4>1, <4>2, <4>3, BlockFacts DEF b0
    <3>2. /\ Chain[a] \subseteq Chain[b0]
          /\ \A d \in Chain[b0] : Height[d] <= Height[a] => d \in Chain[a]
      BY <2>1, <3>1, ChainPrefix, BlockFacts
    <3>3. \A d \in Chain[b0] : Height[d] \in Nat
      <4>1. b0 \in Block /\ Certified(b0)
        BY <3>1, BlockFacts DEF ValidQC, Tree
      <4> QED
        BY <4>1, CertifiedChains, BlockFacts
    <3>4. Chain[a] \cup Committable(n, b0) = Chain[b0]
      BY <2>1, <2>2, <3>1, <3>2, <3>3, BlockFacts DEF Committable
    <3>5. log'[n] = Chain[b0] /\ last_committed_height'[n] = Height[b0]
      BY <1>0, <1>1, <1>2, <2>1, <2>2, <3>4
    <3> QED
      BY <1>6, <2>2, <3>1, <3>5
  <2>3. CASE ~(commits /\ m = n)
    <3>1. log'[m] = log[m] /\ last_committed_height'[m] = last_committed_height[m]
      BY <1>0, <1>1, <1>2, <2>3
    <3> QED
      BY <1>6, <2>1, <3>1
  <2> QED
    BY <2>2, <2>3
<1> QED
  BY <1>5, <1>7, <1>8, <1>9, <1>10, <1>11, <1>12
-----------------------------------------------------------------------------
(* What processing a block guarantees, for the variables it assigns. *)
BlockStep ==
    /\ timer' \in [Node -> BOOLEAN] /\ panicked' \in [Node -> BOOLEAN]
    /\ store' \in [Node -> SUBSET Block] /\ parentWait' \in [Node -> SUBSET Block]
    /\ log' \in [Node -> SUBSET Block] /\ last_committed_height' \in [Node -> Nat]
    /\ last_voted_height' \in [Node -> Nat] /\ votes' \subseteq Node \X Block
    /\ \/ cont' = Idle
       \/ cont' \in [fn : {"opt_propose", "handle_opt_vote"}, node : Correct, arg : Tree]
    /\ cont'.fn = "handle_opt_vote" => <<cont'.node, cont'.arg>> \in votes'
    /\ votes \subseteq votes'
    /\ \A v \in votes' : v[1] \in Correct /\ Height[v[2]] <= last_voted_height'[v[1]]
    /\ \A m \in Correct : \A c \in store'[m] \cup parentWait'[m] : ValidQC(QC[c])
    /\ OneVotePerHeight' /\ VotesExtend' /\ StoreClosed' /\ LogCertified'

(* The types that the steps below read off the invariant. *)
LEMMA TypeFacts ==
    ASSUME IInv
    PROVE  /\ timer \in [Node -> BOOLEAN] /\ panicked \in [Node -> BOOLEAN]
           /\ store \in [Node -> SUBSET Block] /\ parentWait \in [Node -> SUBSET Block]
           /\ log \in [Node -> SUBSET Block] /\ last_committed_height \in [Node -> Nat]
           /\ last_voted_height \in [Node -> Nat] /\ votes \subseteq Node \X Block
           /\ Correct \subseteq Node
BY DEF IInv, TypeOK, Correct

(* The branch that finds no parent. *)
LEMMA SuspendStep ==
    ASSUME IInv, NEW n \in Correct, NEW b \in Block, ValidQC(QC[b]),
           StopTimer(n, b), SuspendBlock(n, b)
    PROVE  BlockStep
<1>1. /\ parentWait' = [parentWait EXCEPT ![n] = @ \cup {b}] /\ cont' = Idle
      /\ UNCHANGED <<store, last_voted_height, last_committed_height, log, panicked, votes>>
  BY DEF SuspendBlock
<1>2. OneVotePerHeight' /\ VotesExtend' /\ StoreClosed' /\ LogCertified'
  BY <1>1, KeepStep
<1>3. timer' \in [Node -> BOOLEAN] /\ parentWait' \in [Node -> SUBSET Block]
  BY <1>1, TypeFacts DEF StopTimer
<1>4. \A m \in Correct : \A c \in store'[m] \cup parentWait'[m] : ValidQC(QC[c])
  BY <1>1, TypeFacts DEF IInv, QCsValid
<1>5. \A v \in votes' : v[1] \in Correct /\ Height[v[2]] <= last_voted_height'[v[1]]
  BY <1>1 DEF IInv, VotesSent
<1>6. cont'.fn # "handle_opt_vote"
  BY <1>1 DEF Idle
<1> QED
  BY <1>1, <1>2, <1>3, <1>4, <1>5, <1>6, TypeFacts DEF BlockStep

(* The branch that stores, commits and votes. *)
LEMMA StoreBlockStep ==
    ASSUME IInv, NEW n \in Correct, NEW b \in Block, ValidQC(QC[b]), NEW h,
           StopTimer(n, b), StoreCommitVote(n, b, h),
           \A m \in Node : parentWait'[m] \subseteq parentWait[m],
           parentWait' \in [Node -> SUBSET Block]
    PROVE  BlockStep
<1>1. /\ votes \subseteq votes'
      /\ \A v \in votes' : v \in votes \/ (v = <<n, b>> /\ last_voted_height'[n] = Height[b])
      /\ last_voted_height' \in [Node -> Nat]
      /\ \A m \in Node : last_voted_height[m] <= last_voted_height'[m]
      /\ OneVotePerHeight' /\ VotesExtend' /\ StoreClosed' /\ LogCertified'
  BY StoreStep
<1>2. /\ store' = [store EXCEPT ![n] = @ \cup {b}]
      /\ UNCHANGED panicked
      /\ log' = log \/ log' = [log EXCEPT ![n] = @ \cup Committable(n, QC[QC[b]])]
      /\ \/ last_committed_height' = last_committed_height
         \/ last_committed_height' = [last_committed_height EXCEPT ![n] = Height[QC[QC[b]]]]
      /\ cont' = Idle \/ (cont' = Call("handle_opt_vote", n, b) /\ <<n, b>> \in votes')
      /\ HasParent(n, b)
  BY DEF StoreCommitVote, GrandParent
<1>3. timer' \in [Node -> BOOLEAN] /\ store' \in [Node -> SUBSET Block]
  <2>1. timer' = [timer EXCEPT ![n] = FALSE] \/ timer' = [timer EXCEPT ![n] = @]
    BY DEF StopTimer
  <2>2. timer' \in [Node -> BOOLEAN]
    BY <2>1, TypeFacts
  <2>3. store' \in [Node -> SUBSET Block]
    BY <1>2, TypeFacts
  <2> QED
    BY <2>2, <2>3
<1>4. last_committed_height' \in [Node -> Nat]
  <2>1. Height[QC[QC[b]]] \in Nat
    BY BlockFacts
  <2> QED
    BY <1>2, <2>1, TypeFacts
<1>5. log' \in [Node -> SUBSET Block]
  <2>1. Chain[QC[QC[b]]] \subseteq Block
    <3>1. CASE QC[b] = Genesis
      BY <3>1, BlockFacts
    <3>2. CASE QC[b] # Genesis
      <4>1. QC[b] \in Block /\ QC[b] \in store[n]
        BY <1>2, <3>2, TypeFacts DEF HasParent
      <4>2. Chain[QC[b]] \subseteq Block
        BY <4>1, TypeFacts DEF IInv, StoreClosed
      <4>3. Chain[QC[b]] = {QC[b]} \cup Chain[QC[QC[b]]]
        BY <4>1, BlockFacts, Zenon
      <4> QED
        BY <4>2, <4>3
    <3> QED
      BY <3>1, <3>2
  <2>2. Committable(n, QC[QC[b]]) \subseteq Block
    BY <2>1 DEF Committable
  <2>3. log \in [Node -> SUBSET Block]
    BY TypeFacts
  <2>4. [log EXCEPT ![n] = @ \cup Committable(n, QC[QC[b]])] \in [Node -> SUBSET Block]
    BY <2>2, <2>3
  <2> QED
    BY <1>2, <2>3, <2>4, Zenon
<1>6. votes' \subseteq Node \X Block
  BY <1>1, TypeFacts
<1>7. \A v \in votes' : v[1] \in Correct /\ Height[v[2]] <= last_voted_height'[v[1]]
  <2> SUFFICES ASSUME NEW v \in votes'
               PROVE  v[1] \in Correct /\ Height[v[2]] <= last_voted_height'[v[1]]
    OBVIOUS
  <2>1. CASE v \in votes
    <3>1. v[1] \in Correct /\ v[2] \in Block /\ Height[v[2]] <= last_voted_height[v[1]]
      BY <2>1, TypeFacts DEF IInv, VotesSent
    <3>2. last_voted_height[v[1]] <= last_voted_height'[v[1]]
      BY <1>1, <3>1, TypeFacts, Zenon
    <3>3. /\ Height[v[2]] \in Nat /\ last_voted_height[v[1]] \in Nat
          /\ last_voted_height'[v[1]] \in Nat
      BY <1>1, <3>1, TypeFacts, BlockFacts
    <3> QED
      BY <3>1, <3>2, <3>3
  <2>2. CASE v = <<n, b>> /\ last_voted_height'[n] = Height[b]
    <3>1. v[1] = n /\ v[2] = b
      BY <2>2
    <3>2. Height[b] \in Nat
      BY BlockFacts
    <3> QED
      BY <2>2, <3>1, <3>2
  <2> QED
    BY <1>1, <2>1, <2>2
<1>8. \A m \in Correct : \A c \in store'[m] \cup parentWait'[m] : ValidQC(QC[c])
  BY <1>2, TypeFacts DEF IInv, QCsValid
<1>9. /\ \/ cont' = Idle
         \/ cont' \in [fn : {"opt_propose", "handle_opt_vote"}, node : Correct, arg : Tree]
      /\ cont'.fn = "handle_opt_vote" => <<cont'.node, cont'.arg>> \in votes'
  <2>1. b \in Tree
    BY BlockFacts
  <2>2. CASE cont' = Idle
    BY <2>2 DEF Idle
  <2>3. CASE cont' = Call("handle_opt_vote", n, b) /\ <<n, b>> \in votes'
    BY <2>1, <2>3 DEF Call
  <2> QED
    BY <1>2, <2>2, <2>3
<1> QED
  BY <1>1, <1>2, <1>3, <1>4, <1>5, <1>6, <1>7, <1>8, <1>9, TypeFacts DEF BlockStep

(* process_opt_block, with either outcome. *)
LEMMA ProcessStep ==
    ASSUME IInv, NEW n \in Correct, NEW b \in Block, ValidQC(QC[b]), process_opt_block(n, b)
    PROVE  BlockStep
<1>1. CASE SuspendBlock(n, b)
  BY <1>1, SuspendStep DEF process_opt_block
<1>2. CASE StoreCommitVote(n, b, height'[n]) /\ UNCHANGED parentWait
  BY <1>2, StoreBlockStep, TypeFacts DEF process_opt_block
<1> QED
  BY <1>1, <1>2 DEF process_opt_block
-----------------------------------------------------------------------------
(* What a step guarantees for the variables process_block leaves alone. *)
QCStep ==
    /\ height' \in [Node -> Nat \ {0}]
    /\ high_qc' \in [Node -> Tree]
    /\ \A n \in Correct : ValidQC(high_qc'[n])
    /\ aggregator' \in [Node -> SUBSET (Node \X Block)]
    /\ \A n \in Correct : \A v \in aggregator'[n] : Voted(v[1], v[2])

MessageStep ==
    /\ payloadWait' \in [Node -> SUBSET Block]
    /\ \A n \in Correct : \A b \in payloadWait'[n] : ValidQC(QC[b])
    /\ proposals' \subseteq Block

(* The parts add up to the invariant. *)
LEMMA Combine ==
    ASSUME IInv, BlockStep, QCStep, MessageStep
    PROVE  IInv'
<1>1. votes \subseteq votes'
  BY DEF BlockStep
<1>2. TypeOK'
  BY DEF TypeOK, BlockStep, QCStep, MessageStep
<1>3. VotesSent'
  BY <1>1 DEF VotesSent, BlockStep, QCStep, Voted
<1>4. \A b : ValidQC(b) => ValidQC(b)'
  BY <1>1, ValidQCStable
<1>5. QCsValid'
  BY <1>4 DEF QCsValid, BlockStep, QCStep, MessageStep
<1> QED
  BY <1>2, <1>3, <1>5 DEF IInv, BlockStep

(* process_qc on a valid QC, with votes that were sent. *)
LEMMA ProcessQC ==
    ASSUME IInv, NEW n \in Correct, NEW b \in Tree, ValidQC(b),
           NEW held \in SUBSET (Node \X Block), \A v \in held : Voted(v[1], v[2]),
           process_qc(n, b, held)
    PROVE  QCStep
<1>1. /\ height \in [Node -> Nat \ {0}] /\ high_qc \in [Node -> Tree]
      /\ aggregator \in [Node -> SUBSET (Node \X Block)] /\ n \in Node /\ Correct \subseteq Node
  BY DEF IInv, TypeOK, Correct
<1>2. Height[b] \in Nat
  BY BlockFacts
<1>3. height' \in [Node -> Nat \ {0}]
  BY <1>1, <1>2 DEF process_qc
<1>4. high_qc' \in [Node -> Tree] /\ \A m \in Correct : ValidQC(high_qc'[m])
  BY <1>1 DEF process_qc, IInv, QCsValid
<1>5. /\ aggregator' \in [Node -> SUBSET (Node \X Block)]
      /\ \A m \in Correct : \A v \in aggregator'[m] : Voted(v[1], v[2])
  <2>1. PICK kept \in SUBSET held : aggregator' = [aggregator EXCEPT ![n] = kept]
    BY DEF process_qc
  <2> QED
    BY <1>1, <2>1 DEF IInv, VotesSent
<1> QED
  BY <1>3, <1>4, <1>5 DEF QCStep

(* A step that leaves height, high_qc and the aggregator alone. *)
LEMMA KeepQC ==
    ASSUME IInv, UNCHANGED <<height, high_qc, aggregator>>
    PROVE  QCStep
BY DEF IInv, TypeOK, VotesSent, QCsValid, QCStep

(* A step that leaves stores, waiting blocks, votes and logs alone. *)
LEMMA KeepBlocks ==
    ASSUME IInv, timer' \in [Node -> BOOLEAN], panicked' \in [Node -> BOOLEAN],
           \/ cont' = Idle
           \/ cont' \in [fn : {"opt_propose"}, node : Correct, arg : Tree]
           \/ cont' = cont,
           UNCHANGED <<store, parentWait, log, last_committed_height, last_voted_height, votes>>
    PROVE  BlockStep
<1>1. OneVotePerHeight' /\ VotesExtend' /\ StoreClosed' /\ LogCertified'
  BY KeepStep
<1>2. /\ \/ cont' = Idle
         \/ cont' \in [fn : {"opt_propose", "handle_opt_vote"}, node : Correct, arg : Tree]
      /\ cont'.fn = "handle_opt_vote" => <<cont'.node, cont'.arg>> \in votes'
  <2>1. /\ \/ cont = Idle
           \/ cont \in [fn : {"opt_propose", "handle_opt_vote"}, node : Correct, arg : Tree]
        /\ cont.fn = "handle_opt_vote" => <<cont.node, cont.arg>> \in votes
    BY DEF IInv, TypeOK, VotesSent
  <2>2. CASE cont' = cont
    BY <2>1, <2>2
  <2>3. CASE cont' = Idle
    BY <2>3 DEF Idle
  <2>4. CASE cont' \in [fn : {"opt_propose"}, node : Correct, arg : Tree]
    BY <2>4
  <2> QED
    BY <2>2, <2>3, <2>4
<1>3. /\ \A v \in votes' : v[1] \in Correct /\ Height[v[2]] <= last_voted_height'[v[1]]
      /\ \A m \in Correct : \A c \in store'[m] \cup parentWait'[m] : ValidQC(QC[c])
  BY DEF IInv, VotesSent, QCsValid
<1> QED
  BY <1>1, <1>2, <1>3, TypeFacts DEF BlockStep

(* A step that broadcasts nothing and suspends no payload. *)
LEMMA KeepMessages ==
    ASSUME IInv, UNCHANGED <<payloadWait, proposals>>
    PROVE  MessageStep
BY DEF IInv, TypeOK, QCsValid, MessageStep
-----------------------------------------------------------------------------
(* handle_opt_proposal keeps the invariant. *)
LEMMA ProposalStep ==
    ASSUME IInv, NEW n \in Correct, NEW b \in Block, handle_opt_proposal(n, b)
    PROVE  IInv'
<1>1. /\ ValidQC(QC[b]) /\ process_qc(n, QC[b], aggregator[n]) /\ UNCHANGED proposals
      /\ n \in Node /\ QC[b] \in Tree
  BY BlockFacts DEF handle_opt_proposal, Correct
<1>2. /\ aggregator[n] \in SUBSET (Node \X Block) /\ \A v \in aggregator[n] : Voted(v[1], v[2])
      /\ payloadWait \in [Node -> SUBSET Block] /\ proposals \subseteq Block
  BY <1>1 DEF IInv, TypeOK, VotesSent
<1>3. QCStep
  BY <1>1, <1>2, ProcessQC
<1>4. CASE process_opt_block(n, b) /\ UNCHANGED payloadWait
  BY <1>1, <1>3, <1>4, ProcessStep, KeepMessages, Combine
<1>5. CASE /\ payloadWait' = [payloadWait EXCEPT ![n] = @ \cup {b}]
           /\ UNCHANGED <<timer, parentWait, store, last_voted_height, last_committed_height,
                          log, panicked, votes, cont>>
  <2>1. BlockStep
    BY <1>5, TypeFacts, KeepBlocks
  <2>2. MessageStep
    BY <1>1, <1>2, <1>5 DEF IInv, QCsValid, MessageStep, Correct
  <2> QED
    BY <1>3, <2>1, <2>2, Combine
<1> QED
  BY <1>4, <1>5 DEF handle_opt_proposal

(* A payload that arrives keeps the invariant. *)
LEMMA PayloadLoopBackStep ==
    ASSUME IInv, NEW n \in Correct, NEW b \in Block, PayloadLoopBack(n, b)
    PROVE  IInv'
<1>1. /\ ValidQC(QC[b]) /\ payloadWait' = [payloadWait EXCEPT ![n] = @ \ {b}]
      /\ UNCHANGED <<height, high_qc, aggregator, proposals>> /\ process_opt_block(n, b)
  BY DEF PayloadLoopBack, IInv, QCsValid
<1>2. MessageStep
  BY <1>1 DEF IInv, TypeOK, QCsValid, MessageStep, Correct
<1> QED
  BY <1>1, <1>2, ProcessStep, KeepQC, Combine

(* A parent that arrives keeps the invariant. *)
LEMMA ParentLoopBackStep ==
    ASSUME IInv, NEW n \in Correct, NEW b \in Block, ParentLoopBack(n, b)
    PROVE  IInv'
<1>1. /\ ValidQC(QC[b]) /\ parentWait' = [parentWait EXCEPT ![n] = @ \ {b}]
      /\ UNCHANGED <<height, high_qc, aggregator, payloadWait, proposals>>
      /\ StopTimer(n, b) /\ StoreCommitVote(n, b, height[n])
  BY DEF ParentLoopBack, IInv, QCsValid
<1>2. /\ \A m \in Node : parentWait'[m] \subseteq parentWait[m]
      /\ parentWait' \in [Node -> SUBSET Block]
  BY <1>1, TypeFacts
<1>3. BlockStep
  BY <1>1, <1>2, StoreBlockStep
<1> QED
  BY <1>1, <1>3, KeepQC, KeepMessages, Combine

(* A cancelled waiter keeps the invariant. *)
LEMMA PayloadCancelStep ==
    ASSUME IInv, NEW n \in Correct, NEW b, PayloadCancel(n, b)
    PROVE  IInv'
<1>1. MessageStep
  BY DEF PayloadCancel, IInv, TypeOK, QCsValid, MessageStep, Correct
<1>2. BlockStep
  BY TypeFacts, KeepBlocks DEF PayloadCancel
<1>3. QCStep
  BY KeepQC DEF PayloadCancel
<1> QED
  BY <1>1, <1>2, <1>3, Combine

(* handle_opt_vote keeps the invariant, with or without a new QC. *)
LEMMA VoteStep ==
    ASSUME IInv, NEW n \in Correct, NEW u \in Node, NEW b \in Block, Voted(u, b),
           handle_opt_vote(n, u, b)
    PROVE  IInv'
<1> DEFINE held == aggregator[n] \cup {<<u, b>>}
           weight == Cardinality({w \in Node : <<w, b>> \in held})
<1>1. /\ n \in Node /\ timer \in [Node -> BOOLEAN] /\ panicked \in [Node -> BOOLEAN]
      /\ aggregator \in [Node -> SUBSET (Node \X Block)] /\ b \in Tree /\ Genesis \in Tree
  BY BlockFacts DEF IInv, TypeOK, Correct
<1>2. held \in SUBSET (Node \X Block) /\ \A v \in held : Voted(v[1], v[2])
  <2>1. \A v \in aggregator[n] : Voted(v[1], v[2])
    BY Zenon DEF IInv, VotesSent
  <2> QED
    BY <1>1, <2>1
<1>3. UNCHANGED <<last_voted_height, last_committed_height, store, payloadWait,
                  parentWait, log, panicked, proposals, votes>>
  BY DEF handle_opt_vote
<1>4. MessageStep
  BY <1>3, KeepMessages
<1>5. CASE /\ weight >= quorum_threshold(N) /\ process_qc(n, b, held)
           /\ timer' \in [Node -> BOOLEAN]
           /\ cont' = Idle \/ cont' = Call("opt_propose", n, Genesis)
  <2> DEFINE P == {w \in Node : <<w, b>> \in held}
             Q == {w \in Node : Voted(w, b)}
  <2>1. P \in SUBSET Q /\ P \in SUBSET Node /\ Q \in SUBSET Node
    BY <1>2
  <2>2. Cardinality(P) <= Cardinality(Q) /\ Cardinality(P) \in Nat /\ Cardinality(Q) \in Nat
    <3> HIDE DEF P, Q
    <3> QED
      BY <2>1, VotersFinite, FS_Subset
  <2>3. quorum_threshold(N) \in Int
    BY CommitteeAssumption DEF quorum_threshold
  <2>4. ValidQC(b)
    <3>1. Cardinality(P) >= quorum_threshold(N)
      BY <1>5
    <3> HIDE DEF P, Q
    <3>2. Cardinality(Q) >= quorum_threshold(N)
      BY <2>2, <2>3, <3>1
    <3> QED
      BY <3>2, Zenon DEF ValidQC, Certified, Q
  <2>5. QCStep
    <3> HIDE DEF held
    <3> QED
      BY <1>1, <1>2, <1>5, <2>4, ProcessQC
  <2>6. \/ cont' = Idle
        \/ cont' \in [fn : {"opt_propose"}, node : Correct, arg : Tree]
    BY <1>1, <1>5 DEF Call
  <2>7. BlockStep
    BY <1>1, <1>3, <1>5, <2>6, KeepBlocks
  <2> QED
    BY <1>4, <2>5, <2>7, Combine
<1>6. CASE /\ aggregator' = [aggregator EXCEPT ![n] = held]
           /\ cont' = Idle /\ UNCHANGED <<height, high_qc, timer>>
  <2>1. QCStep
    <3> HIDE DEF held
    <3>1. aggregator' \in [Node -> SUBSET (Node \X Block)]
      BY <1>1, <1>2, <1>6
    <3>2. \A m \in Correct : \A v \in aggregator'[m] : Voted(v[1], v[2])
      <4>1. \A m \in Correct : aggregator'[m] = aggregator[m] \/ aggregator'[m] = held
        BY <1>1, <1>6 DEF Correct
      <4>2. \A m \in Correct : \A v \in aggregator[m] : Voted(v[1], v[2])
        BY Zenon DEF IInv, VotesSent
      <4> QED
        BY <1>2, <4>1, <4>2, Zenon
    <3> QED
      BY <1>6, <3>1, <3>2 DEF IInv, TypeOK, QCsValid, QCStep
  <2>2. BlockStep
    BY <1>1, <1>3, <1>6, KeepBlocks
  <2> QED
    BY <1>4, <2>1, <2>2, Combine
<1> QED
  BY <1>1, <1>5, <1>6 DEF handle_opt_vote

(* opt_propose keeps the invariant: panic, bound reached or new block. *)
LEMMA ProposeStep ==
    ASSUME IInv, NEW n \in Correct, opt_propose(n)
    PROVE  IInv'
<1>1. UNCHANGED <<height, high_qc, payloadWait, aggregator>>
  BY DEF opt_propose
<1>2. QCStep
  BY <1>1, KeepQC
<1>3. CASE /\ cont' = Idle /\ panicked' \in [Node -> BOOLEAN]
           /\ UNCHANGED <<timer, store, parentWait, last_voted_height,
                          last_committed_height, log, proposals, votes>>
  <2>1. BlockStep
    BY <1>3, TypeFacts, KeepBlocks
  <2> QED
    BY <1>1, <1>2, <1>3, <2>1, KeepMessages, Combine
<1>4. CASE \E b \in NewBlocks(n) : proposals' = proposals \cup {b} /\ process_opt_block(n, b)
  <2>1. PICK b \in NewBlocks(n) : proposals' = proposals \cup {b} /\ process_opt_block(n, b)
    BY <1>4
  <2>2. b \in Block /\ ValidQC(QC[b])
    BY DEF NewBlocks, IInv, QCsValid
  <2>3. MessageStep
    BY <1>1, <2>1, <2>2 DEF IInv, TypeOK, QCsValid, MessageStep
  <2> QED
    BY <1>2, <2>1, <2>2, <2>3, ProcessStep, Combine
<1> QED
  BY <1>3, <1>4, TypeFacts DEF opt_propose
-----------------------------------------------------------------------------
(* Core::new and booting establish the invariant. *)
LEMMA InitIInv == Init => IInv
<1> SUFFICES ASSUME Init
             PROVE  IInv
  OBVIOUS
<1>1. TypeOK
  <2>1. \/ cont = Idle
        \/ cont \in [fn : {"opt_propose", "handle_opt_vote"}, node : Correct, arg : Tree]
    <3>1. cont = Idle \/ \E n \in Correct : cont = Call("opt_propose", n, Genesis)
      BY Zenon DEF Init
    <3> QED
      BY <3>1, BlockFacts DEF Call
  <2>2. /\ height \in [Node -> Nat \ {0}] /\ high_qc \in [Node -> Tree]
        /\ last_voted_height \in [Node -> Nat] /\ last_committed_height \in [Node -> Nat]
        /\ timer \in [Node -> BOOLEAN] /\ panicked \in [Node -> BOOLEAN]
    <3>0. height = [n \in Node |-> 1] /\ high_qc = [n \in Node |-> Genesis]
      BY Zenon DEF Init
    <3>1. height \in [Node -> Nat \ {0}] /\ high_qc \in [Node -> Tree]
      BY <3>0, BlockFacts
    <3>2. last_voted_height \in [Node -> Nat] /\ last_committed_height \in [Node -> Nat]
      BY DEF Init
    <3>3. timer \in [Node -> BOOLEAN] /\ panicked \in [Node -> BOOLEAN]
      BY DEF Init
    <3> QED
      BY <3>1, <3>2, <3>3
  <2>3. /\ store \in [Node -> SUBSET Block] /\ payloadWait \in [Node -> SUBSET Block]
        /\ parentWait \in [Node -> SUBSET Block] /\ log \in [Node -> SUBSET Block]
        /\ aggregator \in [Node -> SUBSET (Node \X Block)]
    BY DEF Init
  <2>4. proposals = {} /\ votes = {}
    BY DEF Init
  <2> QED
    BY <2>1, <2>2, <2>3, <2>4 DEF TypeOK
<1>2. VotesSent
  <2>1. votes = {} /\ \A n \in Correct : aggregator[n] = {}
    BY DEF Init, Correct
  <2>2. cont.fn # "handle_opt_vote"
    <3>1. cont = Idle \/ \E n \in Correct : cont = Call("opt_propose", n, Genesis)
      BY Zenon DEF Init
    <3> QED
      BY <3>1 DEF Idle, Call
  <2> QED
    BY <2>1, <2>2 DEF VotesSent
<1>3. OneVotePerHeight /\ VotesExtend
  BY DEF Init, OneVotePerHeight, VotesExtend
<1>4. QCsValid /\ StoreClosed
  BY DEF Init, QCsValid, StoreClosed, ValidQC, Correct
<1>5. LogCertified
  BY BlockFacts DEF Init, LogCertified, ValidQC, Correct
<1> QED
  BY <1>1, <1>2, <1>3, <1>4, <1>5 DEF IInv

(* Every step of Core::run keeps the invariant. *)
LEMMA NextIInv == IInv /\ [Next]_vars => IInv'
<1> SUFFICES ASSUME IInv, [Next]_vars
             PROVE  IInv'
  OBVIOUS
<1>1. ASSUME NEW n \in Correct, NEW b \in Block, handle_opt_proposal(n, b)
      PROVE  IInv'
  BY <1>1, ProposalStep
<1>2. ASSUME NEW n \in Correct, NEW b \in payloadWait[n],
             PayloadLoopBack(n, b) \/ PayloadCancel(n, b)
      PROVE  IInv'
  <2>1. b \in Block
    BY <1>2 DEF IInv, TypeOK, Correct
  <2> QED
    BY <1>2, <2>1, PayloadLoopBackStep, PayloadCancelStep
<1>3. ASSUME NEW n \in Correct, NEW b \in parentWait[n], ParentLoopBack(n, b)
      PROVE  IInv'
  <2>1. b \in Block
    BY <1>3 DEF IInv, TypeOK, Correct
  <2> QED
    BY <1>3, <2>1, ParentLoopBackStep
<1>4. ASSUME NEW n \in Correct, NEW v \in votes \cup (Faulty \X Block), ReceiveVote(n, v[1], v[2])
      PROVE  IInv'
  <2>1. v[1] \in Node /\ v[2] \in Block
    BY CommitteeAssumption DEF IInv, TypeOK
  <2> QED
    BY <1>4, <2>1, VoteStep DEF ReceiveVote
<1>5. ASSUME NEW n \in Correct, Timeout(n)
      PROVE  IInv'
  BY <1>5, ProposeStep DEF Timeout
<1>6. CASE OwnVote
  <2>1. /\ cont.node \in Correct /\ cont.node \in Node /\ cont.arg \in Block
        /\ Voted(cont.node, cont.arg)
    BY <1>6 DEF OwnVote, IInv, TypeOK, VotesSent, Idle, Correct, Voted
  <2> QED
    BY <1>6, <2>1, VoteStep DEF OwnVote
<1>7. CASE ProposeAtOnce
  <2>1. cont.node \in Correct
    BY <1>7 DEF ProposeAtOnce, IInv, TypeOK, Idle
  <2> QED
    BY <1>7, <2>1, ProposeStep DEF ProposeAtOnce
<1>8. CASE UNCHANGED vars
  <2>1. BlockStep
    BY <1>8, TypeFacts, KeepBlocks DEF vars, nodeVars
  <2> QED
    BY <1>8, <2>1, KeepQC, KeepMessages, Combine DEF vars, nodeVars
<1> QED
  BY <1>1, <1>2, <1>3, <1>4, <1>5, <1>6, <1>7, <1>8 DEF Next, Receive, LoopBack, LocalEvent

(* The invariant holds in every reachable state. *)
THEOREM Invariance == Spec => []IInv
BY InitIInv, NextIInv, PTL DEF Spec

(* Every variable keeps its type, the pending call of a handler included. *)
THEOREM TypeCorrect == Spec => []TypeOK
<1>1. IInv => TypeOK
  BY DEF IInv
<1> QED
  BY <1>1, Invariance, PTL

(* last_voted_height and quorum_threshold let at most one block per height  *)
(* be certified, whatever the faulty authorities sign.                     *)
THEOREM CertificatesUnique == Spec => []OneCertifiedPerHeight
<1>1. IInv => OneCertifiedPerHeight
  BY UniqueCertificate
<1> QED
  BY <1>1, Invariance, PTL

(* The two safety rules of make_opt_vote leave no gap below a certificate. *)
THEOREM CertifiedWithoutGap == Spec => []CertifiedChain
<1>1. IInv => CertifiedChain
  BY CertifiedChains
<1> QED
  BY <1>1, Invariance, PTL

(* The `expect` of get_ancestors never fails. *)
THEOREM AncestorsFound == Spec => []AncestorsDelivered
<1>1. IInv => AncestorsDelivered
  <2> SUFFICES ASSUME IInv, NEW n \in Correct, NEW b \in store[n]
               PROVE  QC[b] \in store[n] \cup {Genesis}
    BY DEF AncestorsDelivered
  <2>1. b \in Block /\ Chain[b] \subseteq store[n]
    BY TypeFacts DEF IInv, StoreClosed
  <2>2. CASE QC[b] # Genesis
    <3>1. QC[b] \in Chain[QC[b]]
      BY <2>1, <2>2, BlockFacts DEF Tree
    <3> QED
      BY <2>1, <3>1, BlockFacts
  <2> QED
    BY <2>2
<1> QED
  BY <1>1, Invariance, PTL

(* The logs of any two correct nodes are prefixes of one another. *)
THEOREM Agreement == Spec => []CommitAgreement
<1>1. IInv => CommitAgreement
  <2> SUFFICES ASSUME IInv, NEW m \in Correct, NEW n \in Correct,
                      NEW b \in log[m], NEW c \in log[n], Height[b] = Height[c]
               PROVE  b = c
    BY DEF CommitAgreement
  <2>1. Certified(b) /\ Certified(c) /\ b \in Block /\ c \in Block
    BY LoggedCertified
  <2> QED
    BY <2>1, UniqueCertificate DEF OneCertifiedPerHeight
<1> QED
  BY <1>1, Invariance, PTL

(* No certificate ever contradicts a committed block. *)
THEOREM Finality == Spec => []CommittedIsFinal
<1>1. IInv => CommittedIsFinal
  <2> SUFFICES ASSUME IInv, NEW n \in Correct, NEW c \in log[n], NEW b \in Block,
                      Certified(b), Height[b] >= Height[c]
               PROVE  c \in Chain[b]
    BY DEF CommittedIsFinal
  <2>1. Certified(c) /\ c \in Block
    BY LoggedCertified
  <2>2. c \in Tree /\ b \in Tree /\ ValidQC(c) /\ ValidQC(b) /\ Height[c] <= Height[b]
    BY <2>1, BlockFacts DEF ValidQC
  <2>3. c \in Chain[c]
    BY <2>1, BlockFacts
  <2> QED
    BY <2>2, <2>3, ChainPrefix
<1> QED
  BY <1>1, Invariance, PTL

(* A log has one block per height up to last_committed_height, each the     *)
(* parent of the next.                                                     *)
THEOREM LogWithoutGap == Spec => []LogIsChain
<1>1. IInv => LogIsChain
  <2> SUFFICES ASSUME IInv, NEW n \in Correct
               PROVE  /\ {Height[b] : b \in log[n]} = 1..last_committed_height[n]
                      /\ \A b \in log[n] : QC[b] \in log[n] \cup {Genesis}
    BY DEF LogIsChain
  <2>1. PICK a \in Tree : ValidQC(a) /\ Height[a] = last_committed_height[n] /\ log[n] = Chain[a]
    BY DEF IInv, LogCertified
  <2>2. CASE a = Genesis
    <3>1. log[n] = {} /\ last_committed_height[n] = 0
      BY <2>1, <2>2, BlockFacts
    <3> QED
      BY <3>1
  <2>3. CASE a # Genesis
    <3>1. a \in Block /\ Certified(a)
      BY <2>1, <2>3 DEF Tree, ValidQC
    <3>2. {Height[b] : b \in Chain[a]} = 1..Height[a] /\ Chain[a] \subseteq Block
      BY <3>1, CertifiedChains DEF CertifiedChain
    <3>3. PICK m \in Correct : <<m, a>> \in votes
      BY <3>1, CommonVoter
    <3>4. a \in store[m]
      BY <3>3 DEF IInv, VotesExtend
    <3>5. ASSUME NEW b \in Chain[a], QC[b] # Genesis
          PROVE  QC[b] \in Chain[a]
      <4>1. b \in Block /\ Chain[b] \subseteq Chain[a]
        BY <3>2, <3>4 DEF IInv, StoreClosed
      <4>2. QC[b] \in Chain[QC[b]]
        BY <3>5, <4>1, BlockFacts DEF Tree
      <4> QED
        BY <4>1, <4>2, BlockFacts
    <3> QED
      BY <2>1, <3>2, <3>5
  <2> QED
    BY <2>2, <2>3
<1> QED
  BY <1>1, Invariance, PTL
-----------------------------------------------------------------------------
(* One proposal per height: a height at which a node has proposed is spent,  *)
(* neither its timer nor a pending opt_propose can propose there again, and  *)
(* only a QC for that height or a later one arms them anew.                *)
HeightsSpent ==
    \A b \in proposals :
        /\ Author[b] \in Correct
        /\ Height[b] <= height[Author[b]]
        /\ Height[b] = height[Author[b]] =>
              ~timer[Author[b]] /\ ~(cont.fn = "opt_propose" /\ cont.node = Author[b])

(* The part of the invariant that is about proposing. *)
ProposeInv == HeightsSpent /\ OneProposalPerHeight

(* What a step may do to a node's chances to propose. *)
NoNewChance ==
    \A m \in Correct :
        /\ height[m] <= height'[m]
        /\ height'[m] = height[m] =>
              /\ timer'[m] => timer[m]
              /\ cont'.fn = "opt_propose" /\ cont'.node = m =>
                    cont.fn = "opt_propose" /\ cont.node = m

(* The fields of a pending call. *)
LEMMA CallFields ==
    /\ Idle.fn # "opt_propose" /\ Idle.fn # "handle_opt_vote"
    /\ \A n, a : Call("opt_propose", n, a).node = n
    /\ \A n, a : Call("handle_opt_vote", n, a).fn # "opt_propose"
BY DEF Idle, Call

(* A step that proposes nothing and arms nothing at a height already reached. *)
LEMMA KeepProposals ==
    ASSUME IInv, IInv', ProposeInv, NoNewChance, UNCHANGED proposals
    PROVE  ProposeInv'
<1>1. OneProposalPerHeight'
  BY DEF ProposeInv, OneProposalPerHeight
<1>2. ASSUME NEW b \in proposals
      PROVE  /\ Author[b] \in Correct
             /\ Height[b] <= height'[Author[b]]
             /\ Height[b] = height'[Author[b]] =>
                   ~timer'[Author[b]] /\ ~(cont'.fn = "opt_propose" /\ cont'.node = Author[b])
  <2> DEFINE m == Author[b]
  <2>1. /\ m \in Correct /\ Height[b] <= height[m]
        /\ Height[b] = height[m] => ~timer[m] /\ ~(cont.fn = "opt_propose" /\ cont.node = m)
    BY DEF ProposeInv, HeightsSpent
  <2>2. /\ height[m] <= height'[m]
        /\ height'[m] = height[m] =>
              /\ timer'[m] => timer[m]
              /\ cont'.fn = "opt_propose" /\ cont'.node = m =>
                    cont.fn = "opt_propose" /\ cont.node = m
    BY <2>1, Zenon DEF NoNewChance
  <2>3. Height[b] \in Nat /\ height[m] \in Nat /\ height'[m] \in Nat
    <3>1. b \in Block /\ height \in [Node -> Nat] /\ height' \in [Node -> Nat] /\ m \in Node
      BY <2>1 DEF IInv, TypeOK, Correct
    <3> QED
      BY <3>1, BlockFacts
  <2> HIDE DEF m
  <2>4. Height[b] <= height'[m] /\ (Height[b] = height'[m] => height'[m] = height[m])
    <3>1. Height[b] <= height[m] /\ height[m] <= height'[m]
      BY <2>1, <2>2, Zenon
    <3> QED
      BY <2>3, <3>1
  <2>5. Height[b] = height'[m] =>
            ~timer'[m] /\ ~(cont'.fn = "opt_propose" /\ cont'.node = m)
    BY <2>1, <2>2, <2>4, Zenon
  <2> QED
    BY <2>1, <2>4, <2>5, Zenon DEF m
<1>3. HeightsSpent'
  BY <1>2, Zenon DEF HeightsSpent
<1> QED
  BY <1>1, <1>3 DEF ProposeInv

(* process_qc never lowers a height. *)
LEMMA HeightGrows ==
    ASSUME IInv, NEW n \in Correct, NEW b \in Tree, NEW held, process_qc(n, b, held)
    PROVE  \A m \in Correct : height[m] <= height'[m]
<1>1. height \in [Node -> Nat] /\ n \in Node /\ Height[b] \in Nat /\ Correct \subseteq Node
  BY BlockFacts DEF IInv, TypeOK, Correct
<1>2. height' = [height EXCEPT ![n] = IF Height[b] < @ THEN @ ELSE Height[b] + 1]
  BY DEF process_qc
<1> QED
  BY <1>1, <1>2

(* Processing a block stops timers and leads to no opt_propose. *)
LEMMA BlockProposesNothing ==
    ASSUME IInv, NEW n \in Correct, NEW b, StopTimer(n, b),
           SuspendBlock(n, b) \/ \E h : StoreCommitVote(n, b, h)
    PROVE  /\ \A m \in Correct : timer'[m] => timer[m]
           /\ IsLeader(n, Height[b]) => ~timer'[n]
           /\ cont'.fn # "opt_propose"
<1>1. timer \in [Node -> BOOLEAN] /\ n \in Node /\ Correct \subseteq Node
  BY DEF IInv, TypeOK, Correct
<1>2. timer' = [timer EXCEPT ![n] = IF IsLeader(n, Height[b]) THEN FALSE ELSE @]
  BY DEF StopTimer
<1>3. /\ \A m \in Correct : timer'[m] => timer[m]
      /\ IsLeader(n, Height[b]) => ~timer'[n]
  BY <1>1, <1>2
<1>4. cont' = Idle \/ cont' = Call("handle_opt_vote", n, b)
  BY Zenon DEF SuspendBlock, StoreCommitVote
<1>5. cont'.fn # "opt_propose"
  <2>1. CASE cont' = Idle
    BY <2>1, CallFields
  <2>2. CASE cont' = Call("handle_opt_vote", n, b)
    BY <2>2, CallFields
  <2> QED
    BY <1>4, <2>1, <2>2
<1> QED
  BY <1>3, <1>5

(* handle_opt_proposal, whether or not the payload is there. *)
LEMMA ProposalArmsNothing ==
    ASSUME IInv, NEW n \in Correct, NEW b \in Block, handle_opt_proposal(n, b)
    PROVE  NoNewChance /\ UNCHANGED proposals
<1>1. process_qc(n, QC[b], aggregator[n]) /\ UNCHANGED proposals /\ QC[b] \in Tree
  BY BlockFacts DEF handle_opt_proposal
<1>2. \A m \in Correct : height[m] <= height'[m]
  BY <1>1, HeightGrows
<1>3. CASE process_opt_block(n, b)
  <2>1. (\A m \in Correct : timer'[m] => timer[m]) /\ cont'.fn # "opt_propose"
    BY <1>3, BlockProposesNothing, Zenon DEF process_opt_block
  <2> QED
    BY <1>1, <1>2, <2>1, Zenon DEF NoNewChance
<1>4. CASE UNCHANGED <<timer, parentWait, store, last_voted_height, last_committed_height,
                       log, panicked, votes, cont>>
  BY <1>1, <1>2, <1>4, Zenon DEF NoNewChance
<1> QED
  BY <1>3, <1>4, Zenon DEF handle_opt_proposal

(* A block that comes back from the mempool or the synchronizer. *)
LEMMA LoopBackArmsNothing ==
    ASSUME IInv, NEW n \in Correct, NEW b, PayloadLoopBack(n, b) \/ ParentLoopBack(n, b)
    PROVE  NoNewChance /\ UNCHANGED proposals
<1>1. /\ UNCHANGED <<height, proposals>> /\ StopTimer(n, b)
      /\ SuspendBlock(n, b) \/ \E h : StoreCommitVote(n, b, h)
  BY Zenon DEF PayloadLoopBack, ParentLoopBack, process_opt_block
<1>2. (\A m \in Correct : timer'[m] => timer[m]) /\ cont'.fn # "opt_propose"
  BY <1>1, BlockProposesNothing, Zenon
<1>3. \A m \in Correct : height[m] <= height'[m]
  <2>1. \A m \in Correct : height[m] \in Nat
    BY DEF IInv, TypeOK, Correct
  <2> QED
    BY <1>1, <2>1
<1> QED
  BY <1>1, <1>2, <1>3, Zenon DEF NoNewChance

(* handle_opt_vote arms the timer, or proposes, only at a height it enters. *)
LEMMA VoteArmsNewHeight ==
    ASSUME IInv, NEW n \in Correct, NEW u, NEW b \in Block, handle_opt_vote(n, u, b)
    PROVE  NoNewChance /\ UNCHANGED proposals
<1> DEFINE held == aggregator[n] \cup {<<u, b>>}
<1>1. /\ height \in [Node -> Nat] /\ timer \in [Node -> BOOLEAN] /\ n \in Node
      /\ Correct \subseteq Node /\ Height[b] \in Nat /\ b \in Tree
  BY BlockFacts DEF IInv, TypeOK, Correct
<1>2. Height[b] >= height[n] /\ UNCHANGED proposals
  BY DEF handle_opt_vote
<1>3. CASE /\ process_qc(n, b, held)
           /\ \/ cont' = Call("opt_propose", n, Genesis) /\ UNCHANGED timer
              \/ timer' = [timer EXCEPT ![n] = TRUE] /\ cont' = Idle
  <2>1. height' = [height EXCEPT ![n] = IF Height[b] < @ THEN @ ELSE Height[b] + 1]
    BY <1>3 DEF process_qc
  <2>2. /\ height[n] < height'[n] /\ height[n] <= height'[n] /\ height'[n] # height[n]
        /\ \A m \in Correct : m # n => height'[m] = height[m] /\ height[m] <= height'[m]
    BY <1>1, <1>2, <2>1
  <2>3. \A m \in Correct : height[m] <= height'[m] /\ (height'[m] = height[m] => m # n)
    BY <2>2, Zenon
  <2>4. \A m \in Correct : m # n =>
            timer'[m] = timer[m] /\ ~(cont'.fn = "opt_propose" /\ cont'.node = m)
    <3>1. \A m \in Correct : m # n => timer'[m] = timer[m]
      BY <1>1, <1>3
    <3>2. \A m \in Correct : m # n => ~(cont'.fn = "opt_propose" /\ cont'.node = m)
      BY <1>3, CallFields, Zenon
    <3> QED
      BY <3>1, <3>2, Zenon
  <2> QED
    BY <1>2, <2>3, <2>4, Zenon DEF NoNewChance
<1>4. CASE cont' = Idle /\ UNCHANGED <<height, high_qc, timer>>
  <2>1. cont'.fn # "opt_propose" /\ \A m \in Correct : height[m] <= height'[m]
    BY <1>1, <1>4 DEF Idle
  <2> QED
    BY <1>2, <1>4, <2>1, Zenon DEF NoNewChance
<1> QED
  BY <1>3, <1>4, Zenon DEF handle_opt_vote

(* opt_propose at a height that is not spent: the new block is the node's    *)
(* first there, and processing it stops the timer.                         *)
LEMMA ProposeOnceStep ==
    ASSUME IInv, IInv', ProposeInv, NEW n \in Correct, opt_propose(n),
           \A c \in proposals : Author[c] = n => Height[c] # height[n]
    PROVE  ProposeInv'
<1>1. UNCHANGED height
  BY DEF opt_propose
<1>2. CASE cont' = Idle /\ UNCHANGED <<timer, proposals>>
  <2>1. cont'.fn # "opt_propose" /\ \A m \in Correct : height[m] <= height'[m]
    <3>1. \A m \in Correct : height[m] \in Nat
      BY DEF IInv, TypeOK, Correct
    <3>2. cont'.fn # "opt_propose"
      BY <1>2, CallFields, Zenon
    <3> QED
      BY <1>1, <3>1, <3>2
  <2>2. NoNewChance
    BY <1>2, <2>1, Zenon DEF NoNewChance
  <2> QED
    BY <1>2, <2>2, KeepProposals
<1>3. CASE /\ IsLeader(n, height[n])
           /\ \E b \in NewBlocks(n) : proposals' = proposals \cup {b} /\ process_opt_block(n, b)
  <2>1. PICK b \in NewBlocks(n) : proposals' = proposals \cup {b} /\ process_opt_block(n, b)
    BY <1>3
  <2>2. b \in Block /\ Author[b] = n /\ Height[b] = height[n]
    BY DEF NewBlocks
  <2>3. /\ \A m \in Correct : timer'[m] => timer[m]
        /\ ~timer'[n] /\ cont'.fn # "opt_propose"
    BY <1>3, <2>1, <2>2, BlockProposesNothing, Zenon DEF process_opt_block
  <2>4. OneProposalPerHeight'
    <3> SUFFICES ASSUME NEW c \in proposals', NEW d \in proposals',
                        Author[c] = Author[d], Height[c] = Height[d]
                 PROVE  c = d
      BY DEF OneProposalPerHeight
    <3>1. CASE c \in proposals /\ d \in proposals
      BY <3>1 DEF ProposeInv, OneProposalPerHeight
    <3>2. CASE c = b \/ d = b
      BY <2>1, <2>2, <3>2
    <3> QED
      BY <2>1, <3>1, <3>2
  <2>5. ASSUME NEW c \in proposals'
        PROVE  /\ Author[c] \in Correct /\ Height[c] <= height'[Author[c]]
               /\ Height[c] = height'[Author[c]] =>
                     ~timer'[Author[c]] /\ ~(cont'.fn = "opt_propose" /\ cont'.node = Author[c])
    <3>1. CASE c = b
      <4>1. height[n] \in Nat
        BY DEF IInv, TypeOK, Correct
      <4>2. height[n] <= height[n]
        BY <4>1
      <4> QED
        BY <1>1, <2>2, <2>3, <3>1, <4>2, Zenon
    <3>2. CASE c \in proposals
      BY <1>1, <2>3, <3>2, Zenon DEF ProposeInv, HeightsSpent
    <3> QED
      BY <2>1, <3>1, <3>2
  <2>6. HeightsSpent'
    BY <2>5, Zenon DEF HeightsSpent
  <2> QED
    BY <2>4, <2>6 DEF ProposeInv
<1> QED
  BY <1>2, <1>3, Zenon DEF opt_propose

(* Booting, the QCs and the timers give a node at most one chance to propose  *)
(* at each height.                                                         *)
THEOREM ProposesOnce == Spec => []OneProposalPerHeight
<1>1. Init => ProposeInv
  BY DEF Init, ProposeInv, HeightsSpent, OneProposalPerHeight
<1>2. IInv /\ IInv' /\ ProposeInv /\ [Next]_vars => ProposeInv'
  <2> SUFFICES ASSUME IInv, IInv', ProposeInv, [Next]_vars
               PROVE  ProposeInv'
    OBVIOUS
  <2>1. ASSUME NEW n \in Correct, NEW b \in Block, handle_opt_proposal(n, b)
        PROVE  ProposeInv'
    BY <2>1, ProposalArmsNothing, KeepProposals
  <2>2. ASSUME NEW n \in Correct, NEW b, PayloadLoopBack(n, b) \/ ParentLoopBack(n, b)
        PROVE  ProposeInv'
    BY <2>2, LoopBackArmsNothing, KeepProposals
  <2>3. ASSUME UNCHANGED <<height, timer, cont, proposals>>
        PROVE  ProposeInv'
    <3>1. \A m \in Correct : height[m] \in Nat
      BY DEF IInv, TypeOK, Correct
    <3>2. NoNewChance
      BY <2>3, <3>1 DEF NoNewChance
    <3> QED
      BY <2>3, <3>2, KeepProposals
  <2>4. ASSUME NEW n \in Correct, NEW v \in votes \cup (Faulty \X Block),
               ReceiveVote(n, v[1], v[2])
        PROVE  ProposeInv'
    <3>1. v[2] \in Block
      BY DEF IInv, TypeOK
    <3> QED
      BY <2>4, <3>1, VoteArmsNewHeight, KeepProposals DEF ReceiveVote
  <2>5. ASSUME NEW n \in Correct, Timeout(n)
        PROVE  ProposeInv'
    <3>1. \A c \in proposals : Author[c] = n => Height[c] # height[n]
      BY <2>5, Zenon DEF Timeout, ProposeInv, HeightsSpent
    <3> QED
      BY <2>5, <3>1, ProposeOnceStep DEF Timeout
  <2>6. CASE OwnVote
    <3>1. cont.node \in Correct /\ cont.arg \in Block
      BY <2>6 DEF OwnVote, IInv, TypeOK, VotesSent, Idle
    <3> QED
      BY <2>6, <3>1, VoteArmsNewHeight, KeepProposals DEF OwnVote
  <2>7. CASE ProposeAtOnce
    <3>1. cont.node \in Correct
      <4>1. cont.fn = "opt_propose" /\ cont # Idle
        BY <2>7, CallFields, Zenon DEF ProposeAtOnce
      <4> QED
        BY <4>1 DEF IInv, TypeOK
    <3>2. \A c \in proposals : Author[c] = cont.node => Height[c] # height[cont.node]
      BY <2>7, Zenon DEF ProposeAtOnce, ProposeInv, HeightsSpent
    <3> QED
      BY <2>7, <3>1, <3>2, ProposeOnceStep DEF ProposeAtOnce
  <2>8. CASE UNCHANGED vars
    BY <2>3, <2>8 DEF vars, nodeVars
  <2>9. ASSUME NEW n \in Correct, NEW b, PayloadCancel(n, b)
        PROVE  ProposeInv'
    BY <2>3, <2>9 DEF PayloadCancel
  <2> QED
    BY <2>1, <2>2, <2>4, <2>5, <2>6, <2>7, <2>8, <2>9, Zenon
    DEF Next, Receive, LoopBack, LocalEvent
<1>3. ProposeInv => OneProposalPerHeight
  BY DEF ProposeInv
<1> QED
  BY <1>1, <1>2, <1>3, Invariance, PTL DEF Spec
=============================================================================
