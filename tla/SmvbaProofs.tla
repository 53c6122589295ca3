---------------------------- MODULE SmvbaProofs ----------------------------
(***************************************************************************)
(* A leader that finishes before its coin is revealed decides its round,   *)
(* for every number of nodes 3f + 1 and any number of rounds.              *)
(***************************************************************************)
EXTENDS Smvba, FiniteSetTheorems, TLAPS

(* Someone went on from round r. *)
Left(r) == \E m \in Node : <<m, r>> \in advanced

(* A round follows the one before it, and its messages follow one another. *)
RoundsFollow ==
    /\ \A n \in Node : cur[n] > 1 => Left(cur[n] - 1)
    /\ \A r \in Round : proposed[r] # {} /\ r > 1 => Left(r - 1)
    /\ \A q \in Round : Left(q) => \A r \in 1..q : Left(r)

MessagesFollow ==
    /\ \A r \in Round : dones[r] # {} => proposed[r] # {}
    /\ \A r \in Round : coin[r] # {} => dones[r] # {}
    /\ \A v \in prevotes : coin[v[2]] # {}
    /\ \A v \in votes : coin[v[2]] # {}
    /\ \A v \in advanced : Voters(v[2], No) # {}
    /\ \A n \in Node : output[n] # 0 => coin[output[n]] # {}

(* The locks behind an early finish: a quorum that never prevotes No. *)
LockedQuorum ==
    \A r \in early :
        /\ Cardinality(locks[r] \ PreVoters(r, No)) >= quorum
        /\ Voters(r, No) = {}

Inv == TypeOK /\ RoundsFollow /\ MessagesFollow /\ LockedQuorum
-----------------------------------------------------------------------------
(* With 3f + 1 nodes the thresholds are positive, and two quorums overlap.  *)
LEMMA Thresholds ==
    /\ quorum \in Nat /\ quorum > 0 /\ quorum + quorum > Cardinality(Node)
    /\ coins \in Nat /\ coins > 0
<1>1. Cardinality(Node) \in Nat /\ Cardinality(Node) % 3 = 1
  BY SmvbaAssumption, FS_CardinalityType
<1> DEFINE f == Cardinality(Node) \div 3
<1>2. f \in Nat /\ Cardinality(Node) = 3 * f + 1
  BY <1>1
<1>3. (Cardinality(Node) - 1) \div 3 = f
  BY <1>2
<1> HIDE DEF f
<1> QED
  BY <1>2, <1>3 DEF quorum, coins, quorum_threshold, random_coin_threshold

(* Sets of nodes have cardinalities that grow with them. *)
LEMMA Monotone ==
    ASSUME NEW S \in SUBSET Node, NEW T \in SUBSET S
    PROVE  /\ Cardinality(S) \in Nat /\ Cardinality(T) \in Nat
           /\ Cardinality(T) <= Cardinality(S)
<1>1. IsFiniteSet(S)
  BY SmvbaAssumption, FS_Subset
<1> QED
  BY <1>1, FS_Subset, FS_CardinalityType

(* A set that reaches a threshold has a member. *)
LEMMA NotEmpty ==
    ASSUME NEW S \in SUBSET Node, NEW k \in Nat, k > 0, Cardinality(S) >= k
    PROVE  S # {}
BY FS_EmptySet

(* The state in which an instance is invoked. *)
LEMMA InitInv == Init => Inv
<1> SUFFICES ASSUME Init PROVE Inv
  OBVIOUS
<1> USE SmvbaAssumption
<1>1. TypeOK
  BY DEF Init, TypeOK, Round
<1>2. RoundsFollow
  BY DEF Init, RoundsFollow, Left, Round
<1>3. MessagesFollow
  BY DEF Init, MessagesFollow
<1>4. LockedQuorum
  BY DEF Init, LockedQuorum
<1> QED
  BY <1>1, <1>2, <1>3, <1>4 DEF Inv

(* An output is a round. *)
LEMMA OutputType ==
    ASSUME TypeOK, NEW n \in Node, NEW r \in Round, NEW knows, Output(n, r, knows)
    PROVE  output' \in [Node -> 0..MaxRound]
<1>1. r \in 0..MaxRound
  BY SmvbaAssumption DEF Round
<1> QED
  BY <1>1 DEF TypeOK, Output

(* A vote has a node, a round and a tag. *)
LEMMA CastVoteType ==
    ASSUME TypeOK, NEW n \in Node, NEW r \in Round, NEW t \in {Yes, No}, CastVote(n, r, t)
    PROVE  /\ flag' \in [Node -> [Round -> {None, Yes, No}]]
           /\ votes' \subseteq Node \X Round \X {Yes, No}
           /\ counted' \subseteq Node \X Round
BY DEF TypeOK, CastVote

(* Every handler keeps the types. *)
LEMMA NextType == TypeOK /\ [Next]_vars => TypeOK'
<1> SUFFICES ASSUME TypeOK, [Next]_vars PROVE TypeOK'
  OBVIOUS
<1>1. ASSUME NEW n \in Node, invoke_smvba(n) PROVE TypeOK'
  BY <1>1, SmvbaAssumption DEF TypeOK, invoke_smvba, Propose
<1>2. ASSUME NEW r \in Round, handle_spb_vote(r) PROVE TypeOK'
  <2>1. {Leader[r]} \subseteq Node
    BY SmvbaAssumption DEF TypeOK
  <2>2. locks' \in [Round -> SUBSET Node]
    BY <1>2, <2>1 DEF TypeOK, handle_spb_vote
  <2>3. finishs' \in [Round -> SUBSET Node]
    BY <1>2, <2>1 DEF TypeOK, handle_spb_vote
  <2>4. early' \subseteq Round
    BY <1>2 DEF TypeOK, handle_spb_vote
  <2> QED
    BY <1>2, <2>2, <2>3, <2>4 DEF TypeOK, handle_spb_vote
<1> SUFFICES ASSUME NEW n \in Node, NEW r \in Round,
                    \/ process_spb_propose(n, r) \/ handle_spb_finish(n, r)
                    \/ invoke_done_and_share(n, r) \/ handle_smvba_rs(n, r)
                    \/ handle_smvba_prevote(n, r) \/ VotedYes(n, r)
                    \/ smvba_round_advance(n, r) \/ handle_smvba_halt(n, r)
             PROVE  TypeOK'
  BY <1>1, <1>2 DEF Next, vars, TypeOK
<1>3. CASE process_spb_propose(n, r)
  BY <1>3 DEF TypeOK, process_spb_propose
<1>4. CASE handle_spb_finish(n, r)
  BY <1>4 DEF TypeOK, handle_spb_finish
<1>5. CASE invoke_done_and_share(n, r)
  BY <1>5 DEF TypeOK, invoke_done_and_share
<1>6. CASE handle_smvba_rs(n, r)
  <2>1. output' \in [Node -> 0..MaxRound]
    BY <1>6, OutputType DEF handle_smvba_rs, TypeOK
  <2>2. /\ flag' \in [Node -> [Round -> {None, Yes, No}]]
        /\ votes' \subseteq Node \X Round \X {Yes, No}
        /\ counted' \subseteq Node \X Round
    BY <1>6, CastVoteType DEF handle_smvba_rs, TypeOK
  <2>3. prevotes' \subseteq Node \X Round \X {Yes, No} /\ halts' \subseteq Round
    BY <1>6 DEF handle_smvba_rs, TypeOK
  <2> QED
    BY <1>6, <2>1, <2>2, <2>3 DEF handle_smvba_rs, TypeOK, spb
<1>7. CASE handle_smvba_prevote(n, r)
  <2>1. /\ flag' \in [Node -> [Round -> {None, Yes, No}]]
        /\ votes' \subseteq Node \X Round \X {Yes, No}
        /\ counted' \subseteq Node \X Round
    BY <1>7, CastVoteType DEF handle_smvba_prevote
  <2> QED
    BY <1>7, <2>1 DEF handle_smvba_prevote, TypeOK, spb
<1>8. CASE VotedYes(n, r)
  <2>1. output' \in [Node -> 0..MaxRound]
    BY <1>8, OutputType DEF VotedYes
  <2> QED
    BY <1>8, <2>1 DEF VotedYes, TypeOK, spb
<1>9. CASE smvba_round_advance(n, r)
  <2>1. r + 1 \in Round
    BY <1>9, SmvbaAssumption DEF smvba_round_advance, Round
  <2>2. proposed' \in [Round -> SUBSET Node] /\ ready' \subseteq Round
    <3>1. Propose(n, r + 1) \/ UNCHANGED <<proposed, ready>>
      BY <1>9 DEF smvba_round_advance
    <3> QED
      BY <2>1, <3>1 DEF Propose, TypeOK
  <2>3. cur' \in [Node -> Round] /\ flag' \in [Node -> [Round -> {None, Yes, No}]]
    <3>1. cur' = [cur EXCEPT ![n] = r + 1] /\ flag' = [flag EXCEPT ![n][r + 1] = None]
      BY <1>9, Zenon DEF smvba_round_advance
    <3>2. cur' \in [Node -> Round]
      BY <2>1, <3>1 DEF TypeOK
    <3>3. flag' \in [Node -> [Round -> {None, Yes, No}]]
      BY <2>1, <3>1 DEF TypeOK
    <3> QED
      BY <3>2, <3>3
  <2>4. counted' \subseteq Node \X Round /\ advanced' \subseteq Node \X Round
    BY <1>9 DEF smvba_round_advance, TypeOK
  <2> QED
    BY <1>9, <2>2, <2>3, <2>4 DEF smvba_round_advance, TypeOK
<1>10. CASE handle_smvba_halt(n, r)
  <2>1. output' \in [Node -> 0..MaxRound]
    BY <1>10, OutputType DEF handle_smvba_halt
  <2> QED
    BY <1>10, <2>1 DEF handle_smvba_halt, TypeOK, spb
<1> QED
  BY <1>3, <1>4, <1>5, <1>6, <1>7, <1>8, <1>9, <1>10

-----------------------------------------------------------------------------
(* What the share that reveals the coin makes a node send: at most one       *)
(* prevote, No only without the leader's lock, and no vote but Yes.        *)
LEMMA ShareVotes ==
    ASSUME NEW n, NEW r, handle_smvba_rs(n, r)
    PROVE  /\ \/ prevotes' = prevotes
              \/ prevotes' = prevotes \cup {<<n, r, Yes>>}
              \/ prevotes' = prevotes \cup {<<n, r, No>>} /\ n \notin locks[r]
           /\ votes' = votes \/ votes' = votes \cup {<<n, r, Yes>>}
<1>1. \/ UNCHANGED <<prevotes, flag, votes, counted>>
      \/ /\ prevotes' = prevotes \cup {<<n, r, Yes>>}
         /\ CastVote(n, r, Yes) \/ UNCHANGED <<flag, votes, counted>>
      \/ /\ prevotes' = prevotes \cup {<<n, r, No>>} /\ n \notin locks[r] \cup finishs[r]
         /\ UNCHANGED <<halts, output, flag, votes, counted>>
  BY Zenon DEF handle_smvba_rs
<1> QED
  BY <1>1, Zenon DEF CastVote

(* The rounds keep following one another. *)
LEMMA NextRounds == Inv /\ [Next]_vars => RoundsFollow'
<1> SUFFICES ASSUME Inv, [Next]_vars PROVE RoundsFollow'
  OBVIOUS
<1>4. \/ UNCHANGED <<cur, proposed, advanced>>
      \/ \E n \in Node : invoke_smvba(n)
      \/ \E n \in Node, r \in Round : smvba_round_advance(n, r)
  <2>1. ASSUME NEW r \in Round, handle_spb_vote(r)
        PROVE  UNCHANGED <<cur, proposed, advanced>>
    BY <2>1 DEF handle_spb_vote
  <2>2. ASSUME NEW n \in Node, NEW r \in Round,
               \/ process_spb_propose(n, r) \/ handle_spb_finish(n, r)
               \/ invoke_done_and_share(n, r) \/ handle_smvba_rs(n, r)
               \/ handle_smvba_prevote(n, r) \/ VotedYes(n, r) \/ handle_smvba_halt(n, r)
        PROVE  UNCHANGED <<cur, proposed, advanced>>
    BY <2>2 DEF process_spb_propose, handle_spb_finish, invoke_done_and_share,
                handle_smvba_rs, handle_smvba_prevote, VotedYes, handle_smvba_halt
  <2> QED
    BY <2>1, <2>2 DEF Next, vars
<1> USE DEF Inv, TypeOK
<1>1. ASSUME UNCHANGED <<cur, proposed, advanced>> PROVE RoundsFollow'
  BY <1>1 DEF RoundsFollow, Left
<1>2. ASSUME NEW n \in Node, invoke_smvba(n) PROVE RoundsFollow'
  <2>1. cur[n] \in Round /\ (cur[n] > 1 => Left(cur[n] - 1))
    BY DEF RoundsFollow
  <2>2. /\ UNCHANGED <<cur, advanced>>
        /\ \A r \in Round : r # cur[n] => proposed'[r] = proposed[r]
    BY <1>2 DEF invoke_smvba, Propose
  <2> QED
    BY <2>1, <2>2 DEF RoundsFollow, Left
<1>3. ASSUME NEW n \in Node, NEW r \in Round, smvba_round_advance(n, r)
      PROVE  RoundsFollow'
  <2> DEFINE L(q) == \E m \in Node : <<m, q>> \in advanced'
  <2>1. r + 1 \in Round /\ r \in Nat \ {0}
    BY <1>3, SmvbaAssumption DEF smvba_round_advance, Round
  <2>2. advanced' = advanced \cup {<<n, r>>} /\ cur' = [cur EXCEPT ![n] = r + 1]
    BY <1>3 DEF smvba_round_advance
  <2>3. \A s \in Round : s # r + 1 => proposed'[s] = proposed[s]
    <3>1. Propose(n, r + 1) \/ UNCHANGED <<proposed, ready>>
      BY <1>3 DEF smvba_round_advance
    <3> QED
      BY <2>1, <3>1 DEF Propose
  <2>4. \A s \in Round : L(s) <=> Left(s) \/ s = r
    BY <2>2 DEF Left
  <2>5. \A s \in 1..r : L(s)
    <3>1. Voters(r, Yes) \cup Voters(r, No) # {}
      <4>1. PICK s \in SUBSET (Voters(r, Yes) \cup Voters(r, No)) : s \cap Voters(r, No) # {}
        BY <1>3 DEF smvba_round_advance
      <4> QED
        BY <4>1
    <3>2. \E v \in votes : v[2] = r
      BY <3>1 DEF Voters
    <3>3. proposed[r] # {}
      BY <3>2 DEF MessagesFollow
    <3>4. r > 1 => r - 1 \in Round /\ Left(r - 1)
      BY <2>1, <3>3, SmvbaAssumption DEF RoundsFollow, Round
    <3>5. r > 1 => \A s \in 1..r - 1 : Left(s)
      BY <3>4 DEF RoundsFollow
    <3>6. \A s \in 1..r : s \in Round /\ (s = r \/ s \in 1..r - 1)
      <4>1. r \in Nat /\ MaxRound \in Nat /\ r <= MaxRound
        BY <2>1, SmvbaAssumption DEF Round
      <4> QED
        BY <4>1 DEF Round
    <3> HIDE DEF L
    <3> QED
      BY <2>1, <2>4, <3>5, <3>6
  <2> HIDE DEF L
  <2>6. \A m \in Node : cur'[m] > 1 => L(cur'[m] - 1)
    <3> TAKE m \in Node
    <3>1. CASE m = n
      BY <2>1, <2>2, <2>4, <3>1
    <3>2. CASE m # n
      <4>1. cur'[m] = cur[m] /\ cur[m] \in 1..MaxRound
        BY <2>2, <3>2 DEF Round
      <4>2. \A s \in 1..MaxRound : s > 1 => s - 1 \in Round
        BY SmvbaAssumption DEF Round
      <4>3. cur[m] > 1 => Left(cur[m] - 1)
        BY DEF RoundsFollow
      <4> QED
        BY <2>4, <4>1, <4>2, <4>3
    <3> QED
      BY <3>1, <3>2
  <2>7. \A s \in Round : proposed'[s] # {} /\ s > 1 => L(s - 1)
    <3> SUFFICES ASSUME NEW s \in Round, proposed'[s] # {}, s > 1 PROVE L(s - 1)
      OBVIOUS
    <3>1. CASE s = r + 1
      BY <2>1, <2>4, <3>1
    <3>2. CASE s # r + 1
      <4>1. s - 1 \in Round
        BY SmvbaAssumption DEF Round
      <4> QED
        BY <2>3, <2>4, <3>2, <4>1 DEF RoundsFollow
    <3> QED
      BY <3>1, <3>2
  <2>8. \A q \in Round : L(q) => \A s \in 1..q : L(s)
    <3> SUFFICES ASSUME NEW q \in Round, L(q), NEW s \in 1..q PROVE L(s)
      OBVIOUS
    <3>1. s \in Round
      BY SmvbaAssumption DEF Round
    <3> QED
      BY <2>4, <2>5, <3>1 DEF RoundsFollow
  <2> QED
    BY <2>6, <2>7, <2>8 DEF RoundsFollow, Left, L
<1> QED
  BY <1>1, <1>2, <1>3, <1>4

(* A message needs the ones it answers. *)
LEMMA NextMessages == Inv /\ [Next]_vars => MessagesFollow'
<1> SUFFICES ASSUME Inv, [Next]_vars PROVE MessagesFollow'
  OBVIOUS
<1> USE DEF Inv
<1>1. ASSUME NEW n \in Node, invoke_smvba(n) PROVE MessagesFollow'
  <2>1. \A r \in Round : proposed[r] # {} => proposed'[r] # {}
    BY <1>1 DEF invoke_smvba, Propose, TypeOK
  <2> QED
    BY <1>1, <2>1 DEF invoke_smvba, MessagesFollow, Voters
<1>2. ASSUME NEW r \in Round, handle_spb_vote(r) PROVE MessagesFollow'
  BY <1>2 DEF handle_spb_vote, MessagesFollow, Voters
<1> SUFFICES ASSUME NEW n \in Node, NEW r \in Round,
                    \/ process_spb_propose(n, r) \/ handle_spb_finish(n, r)
                    \/ invoke_done_and_share(n, r) \/ handle_smvba_rs(n, r)
                    \/ handle_smvba_prevote(n, r) \/ VotedYes(n, r)
                    \/ smvba_round_advance(n, r) \/ handle_smvba_halt(n, r)
             PROVE  MessagesFollow'
  BY <1>1, <1>2 DEF Next, vars, MessagesFollow, Voters
<1>3. CASE process_spb_propose(n, r)
  BY <1>3 DEF process_spb_propose, MessagesFollow, Voters
<1>4. CASE handle_spb_finish(n, r)
  BY <1>4 DEF handle_spb_finish, MessagesFollow, Voters
<1>5. CASE invoke_done_and_share(n, r)
  <2>1. proposed[r] # {}
    <3> DEFINE S == {m \in proposed[r] : m = Leader[r] => n \in finishs[r]}
    <3>1. Cardinality(S) >= quorum /\ S \in SUBSET Node
      BY <1>5 DEF invoke_done_and_share, TypeOK
    <3> HIDE DEF S
    <3>2. S # {}
      BY <3>1, NotEmpty, Thresholds
    <3> QED
      BY <3>2 DEF S
  <2> QED
    BY <1>5, <2>1 DEF invoke_done_and_share, MessagesFollow, Voters, TypeOK
<1>6. CASE handle_smvba_rs(n, r)
  <2>1. dones[r] # {}
    <3>1. n \notin dones[r] => Cardinality(dones[r] \ {n}) >= coins
      BY <1>6 DEF handle_smvba_rs
    <3>2. dones[r] \ {n} \in SUBSET Node
      BY DEF TypeOK
    <3> QED
      BY <3>1, <3>2, NotEmpty, Thresholds
  <2>2. /\ dones' = [dones EXCEPT ![r] = @ \cup {n}]
        /\ coin' = [coin EXCEPT ![r] = @ \cup {n}]
        /\ UNCHANGED <<proposed, advanced>>
    BY <1>6 DEF handle_smvba_rs
  <2>3. \A s \in Round : (coin[s] # {} \/ s = r) => coin'[s] # {}
    BY <2>2 DEF TypeOK
  <2>4. \A v \in prevotes' : v \in prevotes \/ v[2] = r
    BY <1>6, ShareVotes
  <2>5. votes \subseteq votes' /\ \A v \in votes' : v \in votes \/ v[2] = r
    BY <1>6, ShareVotes
  <2>6. \A m \in Node : output'[m] = output[m] \/ output'[m] = r
    BY <1>6 DEF handle_smvba_rs, Output, TypeOK
  <2>7. \A s \in Round : (dones'[s] # {} => proposed'[s] # {}) /\ (coin'[s] # {} => dones'[s] # {})
    BY <2>1, <2>2 DEF MessagesFollow, TypeOK
  <2>8. (\A v \in prevotes' : coin'[v[2]] # {}) /\ \A v \in votes' : coin'[v[2]] # {}
    BY <2>3, <2>4, <2>5 DEF MessagesFollow, TypeOK
  <2>9. \A v \in advanced' : Voters(v[2], No)' # {}
    BY <2>2, <2>5 DEF MessagesFollow, Voters
  <2>10. \A m \in Node : output'[m] # 0 => coin'[output'[m]] # {}
    <3>1. \A m \in Node : output[m] # 0 => output[m] \in Round
      BY SmvbaAssumption DEF TypeOK, Round
    <3> QED
      BY <2>3, <2>6, <3>1 DEF MessagesFollow
  <2> QED
    BY <2>7, <2>8, <2>9, <2>10 DEF MessagesFollow
<1>7. CASE handle_smvba_prevote(n, r)
  <2>1. coin[r] # {}
    <3>1. PreVoters(r, Yes) # {} \/ Cardinality(PreVoters(r, No)) >= quorum
      BY <1>7 DEF handle_smvba_prevote
    <3>2. PreVoters(r, No) \in SUBSET Node
      BY DEF PreVoters
    <3>3. PreVoters(r, Yes) # {} \/ PreVoters(r, No) # {}
      BY <3>1, <3>2, NotEmpty, Thresholds
    <3>4. \E v \in prevotes : v[2] = r
      BY <3>3 DEF PreVoters
    <3> QED
      BY <3>4 DEF MessagesFollow
  <2>2. votes \subseteq votes' /\ \A v \in votes' : v \in votes \/ v[2] = r
    BY <1>7 DEF handle_smvba_prevote, CastVote
  <2>3. UNCHANGED <<proposed, dones, coin, prevotes, advanced, output>>
    BY <1>7 DEF handle_smvba_prevote
  <2>4. \A v \in advanced' : Voters(v[2], No)' # {}
    BY <2>2, <2>3 DEF MessagesFollow, Voters
  <2> QED
    BY <2>1, <2>2, <2>3, <2>4 DEF MessagesFollow
<1>8. CASE VotedYes(n, r) \/ handle_smvba_halt(n, r)
  <2>1. \A m \in Node : output'[m] = output[m] \/ (output'[m] = r /\ coin[r] # {})
    BY <1>8 DEF VotedYes, handle_smvba_halt, Output, TypeOK
  <2>2. UNCHANGED <<proposed, dones, coin, prevotes, votes, advanced>>
    BY <1>8 DEF VotedYes, handle_smvba_halt
  <2> QED
    BY <2>1, <2>2 DEF MessagesFollow, Voters
<1>9. CASE smvba_round_advance(n, r)
  <2>1. Voters(r, No) # {}
    BY <1>9 DEF smvba_round_advance
  <2>2. advanced' = advanced \cup {<<n, r>>} /\ UNCHANGED <<dones, coin, prevotes, votes, output>>
    BY <1>9 DEF smvba_round_advance
  <2>3. \A s \in Round : proposed[s] # {} => proposed'[s] # {}
    <3>1. Propose(n, r + 1) \/ UNCHANGED <<proposed, ready>>
      BY <1>9 DEF smvba_round_advance
    <3> QED
      BY <3>1 DEF Propose, TypeOK
  <2>4. \A v \in advanced' : Voters(v[2], No)' # {}
    <3>1. \A s : Voters(s, No)' = Voters(s, No)
      BY <2>2 DEF Voters
    <3>2. \A v \in advanced' : v \in advanced \/ v[2] = r
      BY <2>2
    <3> QED
      BY <2>1, <3>1, <3>2 DEF MessagesFollow
  <2> QED
    BY <2>2, <2>3, <2>4 DEF MessagesFollow
<1> QED
  BY <1>3, <1>4, <1>5, <1>6, <1>7, <1>8, <1>9

(* The locks behind an early finish stay, and keep No votes from forming. *)
LEMMA NextLocked == Inv /\ [Next]_vars => LockedQuorum'
<1> SUFFICES ASSUME Inv, [Next]_vars, NEW q \in early'
             PROVE  /\ Cardinality(locks'[q] \ PreVoters(q, No)') >= quorum
                    /\ Voters(q, No)' = {}
  BY DEF LockedQuorum
<1> USE DEF Inv
<1> DEFINE Safe == locks[q] \ PreVoters(q, No)
<1>1. early \subseteq Round /\ early' \subseteq Round
  BY NextType DEF TypeOK
<1>2. ASSUME q \in early, Safe \subseteq locks'[q] \ PreVoters(q, No)'
      PROVE  Cardinality(locks'[q] \ PreVoters(q, No)') >= quorum
  <2>1. locks'[q] \ PreVoters(q, No)' \in SUBSET Node /\ Cardinality(Safe) >= quorum
    BY <1>1, <1>2, NextType DEF TypeOK, LockedQuorum
  <2> QED
    BY <1>2, <2>1, Monotone, Thresholds
<1>3. ASSUME q \in early, UNCHANGED <<locks, prevotes, votes>>
      PROVE  /\ Cardinality(locks'[q] \ PreVoters(q, No)') >= quorum
             /\ Voters(q, No)' = {}
  BY <1>3 DEF LockedQuorum, PreVoters, Voters
<1>4. ASSUME NEW r \in Round, handle_spb_vote(r)
      PROVE  /\ Cardinality(locks'[q] \ PreVoters(q, No)') >= quorum
             /\ Voters(q, No)' = {}
  <2>1. UNCHANGED <<prevotes, votes>>
    BY <1>4 DEF handle_spb_vote
  <2>2. CASE q \in early
    <3>1. Safe # {}
      BY <2>2, NotEmpty, Thresholds, <1>1 DEF LockedQuorum, TypeOK
    <3>2. locks[q] \subseteq locks'[q]
      BY <1>1, <1>4, <2>2, <3>1 DEF handle_spb_vote, TypeOK
    <3> QED
      BY <1>2, <2>1, <2>2, <3>2 DEF LockedQuorum, PreVoters, Voters
  <2>3. CASE q \notin early
    <3>1. q = r /\ coin[r] = {} /\ Cardinality(locks[r]) >= quorum /\ locks' = locks
      BY <1>4, <2>3 DEF handle_spb_vote
    <3>2. PreVoters(q, No) = {} /\ Voters(q, No) = {}
      BY <3>1 DEF MessagesFollow, PreVoters, Voters
    <3>3. locks'[q] \ PreVoters(q, No)' = locks[r]
      BY <2>1, <3>1, <3>2 DEF PreVoters
    <3> QED
      BY <2>1, <3>1, <3>2, <3>3 DEF Voters
  <2> QED
    BY <2>2, <2>3
<1>5. ASSUME NEW n \in Node, NEW r \in Round, process_spb_propose(n, r)
      PROVE  /\ Cardinality(locks'[q] \ PreVoters(q, No)') >= quorum
             /\ Voters(q, No)' = {}
  <2>1. q \in early /\ UNCHANGED <<prevotes, votes>> /\ locks[q] \subseteq locks'[q]
    BY <1>1, <1>5 DEF process_spb_propose, TypeOK
  <2> QED
    BY <1>2, <2>1 DEF LockedQuorum, PreVoters, Voters
<1>6. ASSUME NEW n \in Node, NEW r \in Round, handle_smvba_rs(n, r)
      PROVE  /\ Cardinality(locks'[q] \ PreVoters(q, No)') >= quorum
             /\ Voters(q, No)' = {}
  <2>1. q \in early /\ locks' = locks
    BY <1>6 DEF handle_smvba_rs, spb
  <2>2. \A v \in prevotes' : \/ v \in prevotes \/ v = <<n, r, Yes>>
                             \/ v[1] = n /\ v[2] = r /\ n \notin locks[r]
    BY <1>6, ShareVotes
  <2>3. Safe \subseteq locks'[q] \ PreVoters(q, No)'
    BY <2>1, <2>2 DEF PreVoters, Yes, No
  <2>4. \A v \in votes' : v \in votes \/ v = <<n, r, Yes>>
    BY <1>6, ShareVotes
  <2>5. Voters(q, No)' = {}
    BY <2>1, <2>4 DEF LockedQuorum, Voters, Yes, No
  <2> QED
    BY <1>2, <2>1, <2>3, <2>5
<1>7. ASSUME NEW n \in Node, NEW r \in Round, handle_smvba_prevote(n, r)
      PROVE  /\ Cardinality(locks'[q] \ PreVoters(q, No)') >= quorum
             /\ Voters(q, No)' = {}
  <2>1. q \in early /\ locks' = locks /\ prevotes' = prevotes
    BY <1>7 DEF handle_smvba_prevote, spb
  <2>2. Cardinality(PreVoters(q, No)) >= quorum => FALSE
    <3> SUFFICES ASSUME Cardinality(PreVoters(q, No)) >= quorum PROVE FALSE
      OBVIOUS
    <3>1. /\ Safe \in SUBSET Node /\ Cardinality(Safe) >= quorum
          /\ PreVoters(q, No) \in SUBSET Node
      BY <1>1, <2>1 DEF TypeOK, LockedQuorum, PreVoters
    <3> HIDE DEF Safe
    <3>2. Cardinality(Safe) + Cardinality(PreVoters(q, No)) > Cardinality(Node)
      <4>1. Cardinality(Safe) \in Nat /\ Cardinality(PreVoters(q, No)) \in Nat
        BY <3>1, Monotone
      <4>2. Cardinality(Node) \in Nat
        BY SmvbaAssumption, FS_CardinalityType
      <4> QED
        BY <3>1, <4>1, <4>2, Thresholds
    <3>3. Safe \cap PreVoters(q, No) # {}
      BY <3>1, <3>2, FS_MajoritiesIntersect, SmvbaAssumption
    <3> QED
      BY <3>3 DEF Safe
  <2>3. \A v \in votes' :
            \/ v \in votes \/ v = <<n, r, Yes>>
            \/ v = <<n, r, No>> /\ Cardinality(PreVoters(r, No)) >= quorum
    BY <1>7 DEF handle_smvba_prevote, CastVote
  <2>4. Voters(q, No)' = {}
    BY <2>1, <2>2, <2>3 DEF LockedQuorum, Voters, Yes, No
  <2> QED
    BY <2>1, <2>4 DEF LockedQuorum, PreVoters
<1>8. \/ q \in early /\ UNCHANGED <<locks, prevotes, votes>>
      \/ \E r \in Round : handle_spb_vote(r)
      \/ \E n \in Node, r \in Round :
            process_spb_propose(n, r) \/ handle_smvba_rs(n, r) \/ handle_smvba_prevote(n, r)
  <2>1. ASSUME NEW n \in Node, NEW r \in Round,
               \/ handle_spb_finish(n, r) \/ invoke_done_and_share(n, r) \/ VotedYes(n, r)
               \/ smvba_round_advance(n, r) \/ handle_smvba_halt(n, r) \/ invoke_smvba(n)
        PROVE  UNCHANGED <<early, locks, prevotes, votes>>
    BY <2>1 DEF handle_spb_finish, invoke_done_and_share, VotedYes, smvba_round_advance,
                handle_smvba_halt, invoke_smvba, spb
  <2>2. ASSUME NEW n \in Node, invoke_smvba(n)
        PROVE  UNCHANGED <<early, locks, prevotes, votes>>
    BY <2>2 DEF invoke_smvba
  <2> QED
    BY <2>1, <2>2 DEF Next, vars
<1> QED
  BY <1>3, <1>4, <1>5, <1>6, <1>7, <1>8
-----------------------------------------------------------------------------
(* The invariant holds in every reachable state. *)
LEMMA Invariance == Spec => []Inv
<1>1. Inv /\ [Next]_vars => Inv'
  BY NextType, NextRounds, NextMessages, NextLocked DEF Inv
<1> QED
  BY <1>1, InitInv, PTL DEF Spec

(* Every variable of an instance keeps its type. *)
THEOREM SmvbaTypeCorrect == Spec => []TypeOK
<1>1. Inv => TypeOK
  BY DEF Inv
<1> QED
  BY <1>1, Invariance, PTL

(* A leader whose SPB finishes before its coin is revealed wins its round:  *)
(* no node votes No, goes on to the next round or outputs a later block.   *)
THEOREM EarlyFinishWins == Spec => []EarlyFinishDecides
<1>1. Inv => EarlyFinishDecides
  <2> SUFFICES ASSUME Inv, NEW r \in early
               PROVE  /\ Voters(r, No) = {}
                      /\ \A n \in Node : <<n, r>> \notin advanced /\ output[n] \in {0} \cup 1..r
    BY DEF EarlyFinishDecides
  <2> USE DEF Inv
  <2>1. Voters(r, No) = {}
    BY DEF LockedQuorum
  <2>2. r \in Round /\ ~Left(r)
    <3>1. ASSUME NEW v \in advanced PROVE v[2] # r
      BY <2>1, <3>1 DEF MessagesFollow
    <3> QED
      BY <3>1 DEF Left, TypeOK
  <2>3. ASSUME NEW n \in Node, output[n] \notin {0} \cup 1..r PROVE FALSE
    <3>1. output[n] \in Round /\ output[n] > r /\ r > 0
      <4>1. output[n] \in 0..MaxRound /\ r \in 1..MaxRound /\ MaxRound \in Nat
        BY <2>2, SmvbaAssumption DEF TypeOK, Round
      <4> QED
        BY <2>3, <4>1 DEF Round
    <3>2. proposed[output[n]] # {}
      <4>1. output[n] # 0
        BY <2>2, <3>1 DEF Round
      <4> QED
        BY <3>1, <4>1 DEF MessagesFollow
    <3>3. /\ output[n] - 1 \in Round /\ Left(output[n] - 1)
          /\ r \in 1..output[n] - 1
      BY <2>2, <3>1, <3>2, SmvbaAssumption DEF RoundsFollow, Round
    <3> QED
      BY <2>2, <3>3 DEF RoundsFollow
  <2> QED
    BY <2>1, <2>2, <2>3 DEF Left
<1> QED
  BY <1>1, Invariance, PTL
=============================================================================
