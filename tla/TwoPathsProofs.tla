--------------------------- MODULE TwoPathsProofs ---------------------------
(***************************************************************************)
(* Whichever commit rules fire, a node commits once per height; and fast   *)
(* commits and PES blocks on the optimistic chain exclude each other.  For *)
(* every number of nodes 3f + 1 and any number of heights.                 *)
(***************************************************************************)
EXTENDS TwoPaths, FiniteSetTheorems, TLAPS

(* What is committed is not above the last committed height. *)
LogBelow == \A n \in Node, h \in Heights : log[n][h] # None => h <= last_committed_height[n]
-----------------------------------------------------------------------------
(* The numbers of the state are numbers. *)
LEMMA Numbers ==
    ASSUME TypeOK
    PROVE  /\ \A h \in Heights : h \in Nat /\ h > 0 /\ h <= MaxHeight
           /\ MaxHeight \in Nat
           /\ \A m \in Node : height[m] \in Nat /\ stored[m] \in Nat
           /\ \A m \in Node : \A k \in tag[m] : k \in Heights /\ k \in Nat
<1>1. MaxHeight \in Nat /\ \A h \in Heights : h \in Nat /\ h > 0 /\ h <= MaxHeight
  BY TwoPathsAssumption DEF Heights
<1>2. \A m \in Node : height[m] \in 1..MaxHeight + 1 /\ stored[m] \in 0..MaxHeight
  BY DEF TypeOK
<1>3. \A m \in Node : tag[m] \in SUBSET Heights
  BY DEF TypeOK
<1> QED
  BY <1>1, <1>2, <1>3

(* What processing block h does to the state the invariant speaks of. *)
LEMMA BlockStep ==
    ASSUME TypeOK, NEW n \in Node, NEW h \in Heights, process_opt_block(n, h),
           NEW hn, hn = Larger(height[n], h)
    PROVE  /\ h = stored[n] + 1 /\ (h > 1 => Certified(h - 1))
           /\ height' = [height EXCEPT ![n] = hn]
           /\ stored' = [stored EXCEPT ![n] = h]
           /\ tag' = [tag EXCEPT ![n] = tag'[n]] /\ tag'[n] \subseteq tag[n] \cup {h - 1}
           /\ \A i \in tag[n] : i \in tag'[n] \/ i + 2 <= hn
           /\ \/ prepares' = prepares /\ tag'[n] \subseteq tag[n]
              \/ /\ prepares' = prepares \cup {<<n, h - 1, OPT>>}
                 /\ h > 1 /\ h - 1 \in tag'[n] /\ (h - 1 \in tag[n] => h + 1 <= hn)
           /\ \/ votes' = votes
              \/ h = hn /\ votes' = [votes EXCEPT ![h] = @ \cup {n}]
<1> DEFINE kept == IF h > 2 THEN {i \in tag[n] : i > hn - 2} ELSE tag[n]
           preparing == h > 1 /\ h - 1 \notin kept
<1>1. h \in Nat /\ h > 0 /\ height[n] \in Nat /\ hn \in Nat /\ tag[n] \subseteq Nat
  BY TwoPathsAssumption DEF TypeOK, Heights, Larger
<1>2. /\ h = stored[n] + 1 /\ (h > 1 => Certified(h - 1))
      /\ height' = [height EXCEPT ![n] = hn]
      /\ stored' = [stored EXCEPT ![n] = h]
      /\ tag' = [tag EXCEPT ![n] = IF preparing THEN kept \cup {h - 1} ELSE kept]
      /\ prepares' = IF preparing THEN prepares \cup {<<n, h - 1, OPT>>} ELSE prepares
  BY DEF process_opt_block
<1>3. votes' = votes \/ (h = hn /\ votes' = [votes EXCEPT ![h] = @ \cup {n}])
  BY DEF process_opt_block
<1>4. /\ kept \subseteq tag[n]
      /\ \A i \in tag[n] : i \in kept \/ i + 2 <= hn
  BY <1>1
<1>5. tag'[n] = IF preparing THEN kept \cup {h - 1} ELSE kept
  BY <1>2 DEF TypeOK
<1>6. tag' = [tag EXCEPT ![n] = tag'[n]]
  BY <1>2, <1>5, Zenon
<1>7. preparing => h > 1 /\ h - 1 \in tag'[n] /\ (h - 1 \in tag[n] => h + 1 <= hn)
  BY <1>1, <1>4, <1>5
<1>8. tag'[n] \subseteq tag[n] \cup {h - 1} /\ \A i \in tag[n] : i \in tag'[n] \/ i + 2 <= hn
  BY <1>4, <1>5
<1>9. ~preparing => tag'[n] \subseteq tag[n]
  BY <1>4, <1>5
<1> HIDE DEF kept, preparing
<1> QED
  BY <1>2, <1>3, <1>6, <1>7, <1>8, <1>9, Zenon

(* Core::commit of optimistic blocks writes OPT into free places. *)
LEMMA CommitStep ==
    ASSUME TypeOK, NEW n \in Node, NEW b0 \in Int, b0 <= MaxHeight, CommitOpt(n, b0)
    PROVE  /\ log' \in [Node -> [Heights -> {None, OPT, PES}]]
           /\ last_committed_height' \in [Node -> 0..MaxHeight]
           /\ \A m \in Node, h \in Heights : log'[m][h] \in {log[m][h], OPT}
           /\ \A m \in Node, h \in Heights :
                 h <= last_committed_height[m] => log'[m][h] = log[m][h]
           /\ LogBelow => LogBelow'
<1> DEFINE row == [h \in Heights |->
                     IF last_committed_height[n] < h /\ h <= b0 THEN OPT ELSE log[n][h]]
           top == Larger(last_committed_height[n], b0)
<1>1. log' = [log EXCEPT ![n] = row]
      /\ last_committed_height' = [last_committed_height EXCEPT ![n] = top]
  BY DEF CommitOpt
<1>2. row \in [Heights -> {None, OPT, PES}]
  BY DEF TypeOK
<1>3. last_committed_height[n] \in 0..MaxHeight /\ MaxHeight \in Nat
  BY TwoPathsAssumption DEF TypeOK
<1>4. top \in 0..MaxHeight /\ top >= last_committed_height[n] /\ top >= b0
  BY <1>3 DEF Larger
<1>5. \A h \in Heights : /\ row[h] \in {log[n][h], OPT}
                         /\ h <= last_committed_height[n] => row[h] = log[n][h]
                         /\ row[h] # log[n][h] => h <= b0
  BY <1>3 DEF Heights
<1> HIDE DEF row, top
<1>6. \A m \in Node : /\ log'[m] = IF m = n THEN row ELSE log[m]
                      /\ last_committed_height'[m] =
                            IF m = n THEN top ELSE last_committed_height[m]
  BY <1>1 DEF TypeOK
<1>7. LogBelow => LogBelow'
  <2> SUFFICES ASSUME LogBelow, NEW m \in Node, NEW h \in Heights, log'[m][h] # None
               PROVE  h <= last_committed_height'[m]
    BY DEF LogBelow
  <2>1. h \in Nat
    BY TwoPathsAssumption DEF Heights
  <2>2. CASE m # n
    BY <1>6, <2>2 DEF LogBelow
  <2>3. CASE m = n
    <3>1. h <= b0 \/ h <= last_committed_height[n]
      BY <1>5, <1>6, <2>3 DEF LogBelow
    <3> QED
      BY <1>3, <1>4, <1>6, <2>1, <2>3, <3>1
  <2> QED
    BY <2>2, <2>3
<1> QED
  BY <1>1, <1>2, <1>4, <1>5, <1>6, <1>7 DEF TypeOK
-----------------------------------------------------------------------------
Chains == [Node -> [Heights -> Dead..fallback_length + 1]]

(* Fallback chains keep their type when a round or a chain starts. *)
LEMMA FallbackType ==
    ASSUME TypeOK, NEW n \in Node, NEW h \in Heights, NEW W
    PROVE  /\ StartFallback(n, h, W) \in Chains
           /\ \A k \in 1..fallback_length + 1 :
                 FallbackRound(n, h, k, W) \in Dead..fallback_length + 1
<1>1. \A k \in 1..fallback_length + 1 : FallbackRound(n, h, k, W) \in Dead..fallback_length + 1
  BY TwoPathsAssumption DEF FallbackRound, Dead
<1>2. 1 \in 1..fallback_length + 1
  BY TwoPathsAssumption
<1>3. FallbackRound(n, h, 1, W) \in Dead..fallback_length + 1
  BY <1>1, <1>2
<1> QED
  BY <1>1, <1>3 DEF StartFallback, Chains, TypeOK

(* So do inputs. *)
LEMMA InputType ==
    ASSUME TypeOK, NEW n \in Node, NEW h \in Heights, NEW val \in {OPT, PES},
           invoke_smvba(n, h, val)
    PROVE  /\ input' \in [Node -> [Heights -> {None, OPT, PES}]]
           /\ \A m \in Node, k \in Heights : input'[m][k] \in {input[m][k], val}
           /\ \A m \in Node, k \in Heights : k # h => input'[m][k] = input[m][k]
BY DEF TypeOK, invoke_smvba

(* Every handler keeps the types. *)
LEMMA NextType == TypeOK /\ [Next]_vars => TypeOK'
<1> SUFFICES ASSUME TypeOK, [Next]_vars PROVE TypeOK'
  OBVIOUS
<1>1. ASSUME NEW h \in Heights, SmvbaOutput(h) PROVE TypeOK'
  <2>1. output' \in [Heights -> {None, OPT, PES, Orphan}]
    BY <1>1 DEF SmvbaOutput, Proposal, TypeOK
  <2> QED
    BY <1>1, <2>1 DEF SmvbaOutput, TypeOK
<1> SUFFICES ASSUME NEW n \in Node, NEW h \in Heights,
                    \/ advance_height(n, h) \/ process_opt_block(n, h)
                    \/ handle_fallback_vote(n, h)
                    \/ PreparePes(n, h) \/ PrepareOpt(n, h) \/ FastCommit(n, h)
                    \/ HaltOpt(n, h) \/ HaltPes(n, h)
             PROVE  TypeOK'
  BY <1>1 DEF Next, vars, TypeOK
<1>h. h \in 1..MaxHeight /\ MaxHeight \in Nat /\ fallback_length \in Nat \ {0}
  BY TwoPathsAssumption DEF Heights
<1>2. CASE advance_height(n, h)
  <2>1. height' \in [Node -> 1..MaxHeight + 1]
    BY <1>2, <1>h DEF advance_height, TypeOK
  <2>2. tag' \in [Node -> SUBSET Heights]
    <3>1. tag' = tag \/ tag' = [tag EXCEPT ![n] = {i \in tag[n] : i > h - 1}]
      BY <1>2 DEF advance_height
    <3>2. {i \in tag[n] : i > h - 1} \in SUBSET Heights
      BY DEF TypeOK
    <3> QED
      BY <3>1, <3>2, Zenon DEF TypeOK
  <2> QED
    BY <1>2, <2>1, <2>2 DEF advance_height, TypeOK
<1>3. CASE process_opt_block(n, h)
  <2> DEFINE hn == Larger(height[n], h)
  <2>1. hn \in 1..MaxHeight + 1
    BY <1>h DEF Larger, TypeOK
  <2>2. /\ height' = [height EXCEPT ![n] = hn] /\ stored' = [stored EXCEPT ![n] = h]
        /\ votes' = votes \/ votes' = [votes EXCEPT ![h] = @ \cup {n}]
    BY <1>3, BlockStep
  <2> HIDE DEF hn
  <2>3. height' \in [Node -> 1..MaxHeight + 1] /\ stored' \in [Node -> 0..MaxHeight]
    BY <1>h, <2>1, <2>2 DEF TypeOK
  <2>4. tag' \in [Node -> SUBSET Heights] /\ prepares' \subseteq Node \X Heights \X {OPT, PES}
    <3>1. h > 1 => h - 1 \in Heights
      BY <1>h DEF Heights
    <3>2. /\ tag' = [tag EXCEPT ![n] = tag'[n]] /\ tag'[n] \subseteq tag[n] \cup {h - 1}
          /\ \/ prepares' = prepares /\ tag'[n] \subseteq tag[n]
             \/ prepares' = prepares \cup {<<n, h - 1, OPT>>} /\ h > 1
      BY <1>3, BlockStep
    <3>3. tag'[n] \in SUBSET Heights
      BY <3>1, <3>2 DEF TypeOK
    <3>4. tag' \in [Node -> SUBSET Heights]
      <4> DEFINE t == tag'[n]
      <4>1. tag' = [tag EXCEPT ![n] = t] /\ t \in SUBSET Heights
        BY <3>2, <3>3
      <4> HIDE DEF t
      <4> QED
        BY <4>1 DEF TypeOK
    <3>5. prepares' \subseteq Node \X Heights \X {OPT, PES}
      BY <3>1, <3>2 DEF TypeOK
    <3> QED
      BY <3>4, <3>5
  <2>5. votes' \in [Heights -> SUBSET Node]
    <3>1. [votes EXCEPT ![h] = @ \cup {n}] \in [Heights -> SUBSET Node]
      BY DEF TypeOK
    <3>2. votes \in [Heights -> SUBSET Node]
      BY DEF TypeOK
    <3> QED
      BY <2>2, <3>1, <3>2
  <2>6. input' \in [Node -> [Heights -> {None, OPT, PES}]]
    <3>1. UNCHANGED input \/ (h > 1 /\ invoke_smvba(n, h - 1, OPT))
      BY <1>3 DEF process_opt_block
    <3>2. h > 1 => h - 1 \in Heights
      BY <1>h DEF Heights
    <3> QED
      BY <3>1, <3>2, InputType DEF TypeOK
  <2>7. fb' \in Chains
    <3>1. \/ fb' = fb \/ fb' = [fb EXCEPT ![n][h] = Dead]
          \/ fb' = StartFallback(n, h, {m \in Node : Accepts(m, h)})
      BY <1>3 DEF process_opt_block
    <3>2. Dead \in Dead..fallback_length + 1
      BY <1>h DEF Dead
    <3>3. StartFallback(n, h, {m \in Node : Accepts(m, h)}) \in Chains
      BY FallbackType
    <3>4. [fb EXCEPT ![n][h] = Dead] \in Chains
      BY <3>2 DEF TypeOK, Chains
    <3> QED
      BY <3>1, <3>3, <3>4 DEF TypeOK, Chains
  <2>8. /\ log' \in [Node -> [Heights -> {None, OPT, PES}]]
        /\ last_committed_height' \in [Node -> 0..MaxHeight]
    <3>1. UNCHANGED <<log, last_committed_height>> \/ CommitOpt(n, h - 2)
      BY <1>3 DEF process_opt_block
    <3>2. h - 2 \in Int /\ h - 2 <= MaxHeight
      BY <1>h
    <3>3. CASE CommitOpt(n, h - 2)
      BY <3>2, <3>3, CommitStep
    <3>4. CASE UNCHANGED <<log, last_committed_height>>
      BY <3>4 DEF TypeOK
    <3> QED
      BY <3>1, <3>3, <3>4
  <2>9. UNCHANGED <<orphan, fast, output, halted, ended>>
    BY <1>3 DEF process_opt_block
  <2> QED
    BY <2>3, <2>4, <2>5, <2>6, <2>7, <2>8, <2>9 DEF TypeOK, Chains
<1>4. CASE handle_fallback_vote(n, h)
  <2>1. prepares' \subseteq Node \X Heights \X {OPT, PES} /\ tag' \in [Node -> SUBSET Heights]
    BY <1>4 DEF handle_fallback_vote, TypeOK
  <2>2. fb' \in Chains
    <3>1. fb[n][h] \in 1..fallback_length
      BY <1>4 DEF handle_fallback_vote
    <3>2. \A k \in 1..fallback_length : k + 1 \in 1..fallback_length + 1
      BY <1>h
    <3>3. fallback_length + 1 \in Dead..fallback_length + 1
      BY <1>h DEF Dead
    <3> DEFINE v == IF fb[n][h] < fallback_length
                    THEN FallbackRound(n, h, fb[n][h] + 1, {m \in Node : Accepts(m, h)})
                    ELSE fallback_length + 1
    <3>4. v \in Dead..fallback_length + 1
      BY <3>1, <3>2, <3>3, FallbackType
    <3>5. fb' = [fb EXCEPT ![n][h] = v]
      BY <1>4 DEF handle_fallback_vote
    <3> HIDE DEF v
    <3> QED
      BY <3>4, <3>5 DEF TypeOK, Chains
  <2> QED
    BY <1>4, <2>1, <2>2 DEF handle_fallback_vote, TypeOK, Chains
<1>5. CASE PreparePes(n, h)
  <2>1. invoke_smvba(n, h, PES)
    BY <1>5, Zenon DEF PreparePes
  <2>2. input' \in [Node -> [Heights -> {None, OPT, PES}]]
    BY <2>1, InputType
  <2> QED
    BY <1>5, <2>2 DEF PreparePes, TypeOK
<1>6. CASE PrepareOpt(n, h)
  <2>1. invoke_smvba(n, h, OPT)
    BY <1>6, Zenon DEF PrepareOpt
  <2>2. input' \in [Node -> [Heights -> {None, OPT, PES}]]
    BY <2>1, InputType
  <2> QED
    BY <1>6, <2>2 DEF PrepareOpt, TypeOK
<1>7. CASE FastCommit(n, h)
  <2>1. fast' \in [Node -> SUBSET Heights] /\ tag' \in [Node -> SUBSET Heights]
    BY <1>7 DEF FastCommit, TypeOK
  <2>2. /\ log' \in [Node -> [Heights -> {None, OPT, PES}]]
        /\ last_committed_height' \in [Node -> 0..MaxHeight]
    <3>1. UNCHANGED <<log, last_committed_height>> \/ CommitOpt(n, h)
      BY <1>7, Zenon DEF FastCommit
    <3>2. h \in Int /\ h <= MaxHeight
      BY <1>h
    <3>3. CASE CommitOpt(n, h)
      BY <3>2, <3>3, CommitStep
    <3>4. CASE UNCHANGED <<log, last_committed_height>>
      BY <3>4 DEF TypeOK
    <3> QED
      BY <3>1, <3>3, <3>4
  <2>3. fb' \in Chains
    <3> DEFINE row == [i \in Heights |->
           IF i < h /\ fb[n][i] = fallback_length + 1 THEN Dead ELSE fb[n][i]]
    <3>1. fb' = [fb EXCEPT ![n] = row]
      BY <1>7, Zenon DEF FastCommit
    <3>2. row \in [Heights -> Dead..fallback_length + 1]
      <4>1. Dead \in Dead..fallback_length + 1
        BY <1>h DEF Dead
      <4>2. \A i \in Heights : fb[n][i] \in Dead..fallback_length + 1
        BY DEF TypeOK
      <4> QED
        BY <4>1, <4>2
    <3> HIDE DEF row
    <3> QED
      BY <3>1, <3>2 DEF TypeOK, Chains
  <2>4. input' \in [Node -> [Heights -> {None, OPT, PES}]]
    <3>1. invoke_smvba(n, h, OPT)
      BY <1>7, Zenon DEF FastCommit
    <3> QED
      BY <3>1, InputType
  <2> QED
    BY <1>7, <2>1, <2>2, <2>3, <2>4, Zenon DEF FastCommit, TypeOK, Chains
<1>8. CASE HaltOpt(n, h)
  <2>1. h < MaxFallback => h + 1 \in Heights
    BY <1>h, TwoPathsAssumption DEF Heights
  <2>2. fb' \in Chains
    <3>1. \/ fb' = fb
          \/ h < MaxFallback /\ fb' = StartFallback(n, h + 1, {m \in Node : Accepts(m, h + 1)})
      BY <1>8, Zenon DEF HaltOpt
    <3>2. fb \in Chains
      BY DEF TypeOK, Chains
    <3>3. h < MaxFallback => StartFallback(n, h + 1, {m \in Node : Accepts(m, h + 1)}) \in Chains
      BY <2>1, FallbackType
    <3> QED
      BY <3>1, <3>2, <3>3
  <2>3. orphan' \subseteq Node \X Heights
    <3>1. orphan' = orphan \/ (h < MaxFallback /\ orphan' = orphan \cup {<<n, h + 1>>})
      BY <1>8, Zenon DEF HaltOpt
    <3>2. orphan \subseteq Node \X Heights /\ (h < MaxFallback => <<n, h + 1>> \in Node \X Heights)
      BY <2>1 DEF TypeOK
    <3> QED
      BY <3>1, <3>2
  <2>4. halted' \in [Node -> SUBSET Heights]
    <3>1. halted' = [halted EXCEPT ![n] = @ \cup {h}]
      BY <1>8, Zenon DEF HaltOpt
    <3> QED
      BY <3>1 DEF TypeOK
  <2> QED
    BY <1>8, <2>2, <2>3, <2>4, Zenon DEF HaltOpt, TypeOK, Chains
<1>9. CASE HaltPes(n, h)
  <2>1. /\ log' \in [Node -> [Heights -> {None, OPT, PES}]]
        /\ last_committed_height' \in [Node -> 0..MaxHeight]
    <3>1. CASE UNCHANGED <<log, last_committed_height, ended>>
      BY <3>1 DEF TypeOK
    <3>2. CASE ~UNCHANGED <<log, last_committed_height, ended>>
      <4>1. PICK walked \in {TRUE, FALSE} :
              log' = [log EXCEPT ![n] = [i \in Heights |->
                    IF i = h THEN PES
                    ELSE IF walked /\ output[h] = PES
                            /\ last_committed_height[n] < i /\ i < h
                    THEN OPT ELSE @[i]]]
        BY <1>9, <3>2 DEF HaltPes
      <4>2. log' \in [Node -> [Heights -> {None, OPT, PES}]]
        <5> DEFINE row == [i \in Heights |->
                              IF i = h THEN PES
                              ELSE IF walked /\ output[h] = PES
                                      /\ last_committed_height[n] < i /\ i < h
                              THEN OPT ELSE log[n][i]]
        <5>1. log \in [Node -> [Heights -> {None, OPT, PES}]]
          BY DEF TypeOK
        <5>2. row \in [Heights -> {None, OPT, PES}]
          <6>1. \A i \in Heights : log[n][i] \in {None, OPT, PES}
            BY <5>1
          <6> QED
            BY <6>1
        <5>3. log' = [log EXCEPT ![n] = row]
          BY <4>1, <5>1
        <5> HIDE DEF row
        <5> QED
          BY <5>1, <5>2, <5>3
      <4>3. last_committed_height' = [last_committed_height EXCEPT ![n] = h]
        BY <1>9, <3>2 DEF HaltPes
      <4>4. last_committed_height \in [Node -> 0..MaxHeight] /\ h \in 0..MaxHeight
        BY <1>h DEF TypeOK
      <4>5. last_committed_height' \in [Node -> 0..MaxHeight]
        BY <4>3, <4>4
      <4> QED
        BY <4>2, <4>5
    <3> QED
      BY <3>1, <3>2
  <2>2. halted' \in [Node -> SUBSET Heights] /\ ended' \in [Node -> BOOLEAN]
    <3>1. /\ halted' = [halted EXCEPT ![n] = @ \cup {h}]
          /\ ended' = ended \/ ended' = [ended EXCEPT ![n] = TRUE]
      BY <1>9, Zenon DEF HaltPes
    <3>2. halted' \in [Node -> SUBSET Heights]
      BY <3>1 DEF TypeOK
    <3>3. ended' \in [Node -> BOOLEAN]
      BY <3>1, Zenon DEF TypeOK
    <3> QED
      BY <3>2, <3>3
  <2> QED
    BY <1>9, <2>1, <2>2, Zenon DEF HaltPes, TypeOK
<1> QED
  BY <1>2, <1>3, <1>4, <1>5, <1>6, <1>7, <1>8, <1>9

(* Commits fill free places only, and PES comes from an sMVBA output. *)
LEMMA NextLog ==
    ASSUME TypeOK, LogBelow, [Next]_vars
    PROVE  /\ LogBelow'
           /\ \A m \in Node, k \in Heights : log[m][k] # None => log'[m][k] = log[m][k]
           /\ \A m \in Node, k \in Heights :
                 log'[m][k] = PES => log[m][k] = PES \/ output[k] \in {PES, Orphan}
<1> DEFINE Goal == /\ LogBelow'
                   /\ \A m \in Node, k \in Heights :
                         log[m][k] # None => log'[m][k] = log[m][k]
                   /\ \A m \in Node, k \in Heights :
                         log'[m][k] = PES => log[m][k] = PES \/ output[k] \in {PES, Orphan}
<1> SUFFICES Goal
  OBVIOUS
<1>1. ASSUME UNCHANGED <<log, last_committed_height>> PROVE Goal
  BY <1>1 DEF LogBelow
<1>2. ASSUME NEW n \in Node, NEW b0 \in Int, b0 <= MaxHeight, CommitOpt(n, b0) PROVE Goal
  <2>1. /\ \A m \in Node, k \in Heights : log'[m][k] \in {log[m][k], OPT}
        /\ \A m \in Node, k \in Heights :
              k <= last_committed_height[m] => log'[m][k] = log[m][k]
        /\ LogBelow'
    BY <1>2, CommitStep
  <2>2. \A m \in Node, k \in Heights : log[m][k] # None => log'[m][k] = log[m][k]
    BY <2>1 DEF LogBelow
  <2>3. \A m \in Node, k \in Heights : log'[m][k] = PES => log[m][k] = PES
    BY <2>1 DEF OPT, PES
  <2> QED
    BY <2>1, <2>2, <2>3
<1>3. CASE \E n \in Node, h \in Heights : process_opt_block(n, h)
  <2>1. PICK n \in Node, h \in Heights : process_opt_block(n, h)
    BY <1>3
  <2>2. UNCHANGED <<log, last_committed_height>> \/ CommitOpt(n, h - 2)
    BY <2>1 DEF process_opt_block
  <2>3. h - 2 \in Int /\ h - 2 <= MaxHeight
    BY Numbers
  <2> QED
    BY <1>1, <1>2, <2>2, <2>3
<1>4. CASE \E n \in Node, h \in Heights : FastCommit(n, h)
  <2>1. PICK n \in Node, h \in Heights : FastCommit(n, h)
    BY <1>4
  <2>2. UNCHANGED <<log, last_committed_height>> \/ CommitOpt(n, h)
    BY <2>1 DEF FastCommit
  <2>3. h \in Int /\ h <= MaxHeight
    BY Numbers
  <2> QED
    BY <1>1, <1>2, <2>2, <2>3
<1>5. CASE \E n \in Node, h \in Heights : HaltPes(n, h)
  <2>1. PICK n \in Node, h \in Heights : HaltPes(n, h)
    BY <1>5
  <2>2. CASE h <= last_committed_height[n] /\ UNCHANGED <<log, last_committed_height>>
    BY <1>1, <2>2
  <2>3. CASE h > last_committed_height[n]
             /\ last_committed_height' = [last_committed_height EXCEPT ![n] = h]
    <3>1. PICK walked \in {TRUE, FALSE} :
            log' = [log EXCEPT ![n] = [i \in Heights |->
                    IF i = h THEN PES
                    ELSE IF walked /\ output[h] = PES
                            /\ last_committed_height[n] < i /\ i < h
                    THEN OPT ELSE @[i]]]
      <4>1. last_committed_height[n] \in Nat /\ h \in Nat
        BY Numbers DEF TypeOK
      <4> QED
        BY <2>1, <2>3, <4>1 DEF HaltPes
    <3>2. output[h] \in {PES, Orphan}
      BY <2>1 DEF HaltPes
    <3> DEFINE row == [i \in Heights |->
                    IF i = h THEN PES
                    ELSE IF walked /\ output[h] = PES
                            /\ last_committed_height[n] < i /\ i < h
                    THEN OPT ELSE log[n][i]]
           top == last_committed_height[n]
    <3>3. log' = [log EXCEPT ![n] = row]
      BY <3>1
    <3>4. \A k \in Heights :
             row[k] = log[n][k] \/ (k = h /\ row[k] = PES) \/ (top < k /\ k < h /\ row[k] = OPT)
      OBVIOUS
    <3>n. top \in Nat /\ \A k \in Heights : k \in Nat
      BY Numbers DEF TypeOK
    <3> HIDE DEF row
    <3>5. \A m \in Node : /\ log'[m] = IF m = n THEN row ELSE log[m]
                          /\ last_committed_height'[m] =
                                IF m = n THEN h ELSE last_committed_height[m]
      BY <2>3, <3>3 DEF TypeOK
    <3>b. \A k \in Heights : log[n][k] # None => k <= top
      BY DEF LogBelow
    <3>6. LogBelow'
      <4> SUFFICES ASSUME NEW m \in Node, NEW k \in Heights, log'[m][k] # None
                   PROVE  k <= last_committed_height'[m]
        BY DEF LogBelow
      <4>1. CASE m # n
        BY <3>5, <4>1 DEF LogBelow
      <4>2. CASE m = n
        <5>1. k <= top \/ k = h \/ k < h
          BY <3>4, <3>5, <3>b, <4>2
        <5> QED
          BY <2>3, <3>5, <3>n, <4>2, <5>1
      <4> QED
        BY <4>1, <4>2
    <3>7. \A m \in Node, k \in Heights : log[m][k] # None => log'[m][k] = log[m][k]
      <4> SUFFICES ASSUME NEW m \in Node, NEW k \in Heights, log[m][k] # None
                   PROVE  log'[m][k] = log[m][k]
        OBVIOUS
      <4>1. m = n => k <= top
        BY <3>b
      <4>2. m = n => ~(k = h) /\ ~(top < k)
        BY <2>3, <3>n, <4>1
      <4> QED
        BY <3>4, <3>5, <4>2
    <3>8. \A m \in Node, k \in Heights :
             log'[m][k] = PES => log[m][k] = PES \/ output[k] \in {PES, Orphan}
      <4> SUFFICES ASSUME NEW m \in Node, NEW k \in Heights, log'[m][k] = PES
                   PROVE  log[m][k] = PES \/ output[k] \in {PES, Orphan}
        OBVIOUS
      <4>1. OPT # PES
        BY DEF OPT, PES
      <4> QED
        BY <3>2, <3>4, <3>5, <4>1
    <3> QED
      BY <3>6, <3>7, <3>8
  <2> QED
    BY <2>1, <2>2, <2>3 DEF HaltPes
<1>6. CASE \/ \E n \in Node, h \in Heights :
                 \/ advance_height(n, h) \/ handle_fallback_vote(n, h)
                 \/ PreparePes(n, h) \/ PrepareOpt(n, h) \/ HaltOpt(n, h)
           \/ \E h \in Heights : SmvbaOutput(h)
           \/ UNCHANGED vars
  <2>1. ASSUME NEW n \in Node, NEW h \in Heights,
               \/ advance_height(n, h) \/ handle_fallback_vote(n, h)
               \/ PreparePes(n, h) \/ PrepareOpt(n, h) \/ HaltOpt(n, h)
        PROVE  UNCHANGED <<log, last_committed_height>>
    BY <2>1 DEF advance_height, handle_fallback_vote, PreparePes, PrepareOpt, HaltOpt
  <2>2. ASSUME NEW h \in Heights, SmvbaOutput(h)
        PROVE  UNCHANGED <<log, last_committed_height>>
    BY <2>2 DEF SmvbaOutput
  <2>3. UNCHANGED vars => UNCHANGED <<log, last_committed_height>>
    BY DEF vars
  <2>4. UNCHANGED <<log, last_committed_height>>
    BY <1>6, <2>1, <2>2, <2>3
  <2> QED
    BY <1>1, <2>4
<1> HIDE DEF Goal
<1> QED
  BY <1>3, <1>4, <1>5, <1>6 DEF Next

(* The initial state has its types and nothing committed. *)
LEMMA InitTypeLog == Init => TypeOK /\ LogBelow
<1> SUFFICES ASSUME Init PROVE TypeOK /\ LogBelow
  OBVIOUS
<1>1. MaxHeight \in Nat /\ fallback_length \in Nat /\ MaxHeight + 1 \in Nat
  BY TwoPathsAssumption
<1>2. 1 \in 1..MaxHeight + 1 /\ 0 \in 0..MaxHeight /\ 0 \in Dead..fallback_length + 1
  BY <1>1 DEF Dead
<1>3. TypeOK
  BY <1>2 DEF Init, TypeOK
<1>4. LogBelow
  BY DEF Init, LogBelow
<1> QED
  BY <1>3, <1>4

(* Both are kept. *)
LEMMA TypeLogInvariance == Spec => [](TypeOK /\ LogBelow)
<1>1. (TypeOK /\ LogBelow) /\ [Next]_vars => (TypeOK /\ LogBelow)'
  BY NextType, NextLog
<1> QED
  BY <1>1, InitTypeLog, PTL DEF Spec

(* Every handler keeps the types of the state. *)
THEOREM TwoPathsTypeCorrect == Spec => []TypeOK
BY TypeLogInvariance, PTL

(* No commit rule writes over what another one committed: every commit is   *)
(* at or below the node's last committed height, and each rule checks it.  *)
THEOREM CommitsStay == Spec => CommittedStays
<1>1. (TypeOK /\ LogBelow) /\ [Next]_vars
      => [\A n \in Node, h \in Heights : log[n][h] # None => log'[n][h] = log[n][h]]_vars
  BY NextLog
<1> QED
  BY <1>1, TypeLogInvariance, PTL DEF Spec, CommittedStays
-----------------------------------------------------------------------------
(* A node prepared both ways. *)
Double(n, h) == <<n, h, OPT>> \in prepares /\ <<n, h, PES>> \in prepares

(* The OPT prepares of a later height reached a quorum. *)
Passed(h) == \E k \in Heights : k > h /\ Cardinality(Preparers(k, OPT)) >= quorum

(* Heights grow along the certified chain. *)
Ordered ==
    /\ \A n \in Node : stored[n] <= height[n]
    /\ \A h \in Heights : \A n \in votes[h] : stored[n] >= h
    /\ \A n \in Node, h \in Heights : <<n, h, OPT>> \in prepares => stored[n] > h
    /\ \A h, k \in Heights : votes[h] # {} /\ k < h => Certified(k)
    /\ \A n \in Node, k \in Heights : k < height[n] => Certified(k)

(* A node remembers what it prepared, until it is beyond the height or may  *)
(* know that others are.                                                   *)
TagKept ==
    \A n \in Node, h \in Heights, v \in {OPT, PES} : <<n, h, v>> \in prepares =>
        h \in tag[n] \/ height[n] >= h + 2 \/ Passed(h)

(* Who prepares both ways is late: the next height is certified, and by     *)
(* nodes that do not, as long as no later height is prepared.              *)
DoubleIsLate ==
    \A n \in Node, h \in Heights : Double(n, h) => h + 1 \in Heights /\ Certified(h + 1)
VotersPrepareOnce ==
    \A h \in Heights : h + 1 \in Heights /\ Certified(h + 1) /\ ~Passed(h) =>
        Cardinality({x \in votes[h + 1] : ~Double(x, h)}) >= quorum

(* The quorums behind inputs, outputs and fast commits. *)
Quorums ==
    /\ \A n \in Node, h \in Heights : input[n][h] = PES => Cardinality(Preparers(h, PES)) >= quorum
    /\ \A h \in Heights : output[h] = PES => Cardinality(Preparers(h, PES)) >= quorum
    /\ \A n \in Node : \A h \in fast[n] : Cardinality(Preparers(h, OPT)) >= quorum
    /\ \A n \in Node, h \in Heights : log[n][h] = PES => output[h] \in {PES, Orphan}

(* Where an instance output PES, a quorum prepared PES, and those of it that *)
(* made the next certificate never prepare OPT.                            *)
OutputKept ==
    \A h \in Heights : output[h] = PES /\ h + 1 \in Heights /\ Certified(h + 1) =>
        \E P \in SUBSET Preparers(h, PES), Q \in SUBSET votes[h + 1] :
            /\ Cardinality(P) >= quorum /\ Cardinality(Q) >= quorum
            /\ P \cap Q \cap Preparers(h, OPT) = {}

(* The part about prepares, votes and heights, and the whole invariant. *)
PathInv == TypeOK /\ Ordered /\ TagKept /\ DoubleIsLate /\ VotersPrepareOnce
Inv == PathInv /\ Quorums /\ OutputKept /\ LogBelow
-----------------------------------------------------------------------------
(* quorum_threshold is 2f + 1 when there are 3f + 1 authorities. *)
LEMMA QuorumIs2fPlus1 ==
    ASSUME NEW n \in Nat, n % 3 = 1
    PROVE  \E f \in Nat : n = 3 * f + 1 /\ quorum_threshold(n) = 2 * f + 1
<1> DEFINE f == n \div 3
<1>1. f \in Nat /\ n = 3 * f + 1
  OBVIOUS
<1>2. (n - 1) \div 3 = f
  BY <1>1
<1> QED
  BY <1>1, <1>2 DEF quorum_threshold

(* Three quorums of correct nodes share a node, whatever the nodes are.     *)
LEMMA QuorumsMeet ==
    ASSUME NEW S, IsFiniteSet(S), Cardinality(S) % 3 = 1,
           NEW P \in SUBSET S, Cardinality(P) >= quorum_threshold(Cardinality(S)),
           NEW Q \in SUBSET S, Cardinality(Q) >= quorum_threshold(Cardinality(S)),
           NEW R \in SUBSET S, Cardinality(R) >= quorum_threshold(Cardinality(S))
    PROVE  \E x \in S : x \in P /\ x \in Q /\ x \in R
<1> DEFINE n == Cardinality(S)
           M == P \cap Q
<1>1. n \in Nat
  BY FS_CardinalityType
<1>2. PICK f \in Nat : n = 3 * f + 1 /\ quorum_threshold(n) = 2 * f + 1
  BY <1>1, QuorumIs2fPlus1
<1>3. /\ IsFiniteSet(P) /\ IsFiniteSet(Q) /\ IsFiniteSet(R)
      /\ IsFiniteSet(P \cup Q) /\ Cardinality(P \cup Q) <= n
      /\ IsFiniteSet(M) /\ IsFiniteSet(M \cap R)
      /\ IsFiniteSet(M \cup R) /\ Cardinality(M \cup R) <= n
  <2>1. /\ P \cup Q \in SUBSET S /\ M \in SUBSET S
        /\ M \cap R \in SUBSET S /\ M \cup R \in SUBSET S
    OBVIOUS
  <2> QED
    BY <2>1, FS_Subset
<1>4. /\ Cardinality(P) \in Nat /\ Cardinality(Q) \in Nat /\ Cardinality(R) \in Nat
      /\ Cardinality(P \cup Q) \in Nat /\ Cardinality(M) \in Nat
      /\ Cardinality(M \cup R) \in Nat /\ Cardinality(M \cap R) \in Nat
  BY <1>3, FS_CardinalityType
<1>5. /\ Cardinality(P \cup Q) = Cardinality(P) + Cardinality(Q) - Cardinality(M)
      /\ Cardinality(M \cup R) = Cardinality(M) + Cardinality(R) - Cardinality(M \cap R)
  BY <1>3, FS_Union
<1>6. Cardinality(M \cap R) > 0
  BY <1>1, <1>2, <1>3, <1>4, <1>5
<1> HIDE DEF M
<1>7. M \cap R # {}
  <2>1. Cardinality({}) = 0
    BY FS_EmptySet, Zenon
  <2>2. Cardinality(M \cap R) # 0
    BY <1>4, <1>6
  <2> QED
    BY <2>1, <2>2, Zenon
<1> USE DEF M
<1> QED
  BY <1>7

(* The quorum of a committee is a positive number. *)
LEMMA QuorumPositive == quorum \in Nat /\ quorum > 0
<1>1. Cardinality(Node) \in Nat
  BY TwoPathsAssumption, FS_CardinalityType
<1> QED
  BY <1>1, TwoPathsAssumption, QuorumIs2fPlus1 DEF quorum

(* Sets of nodes have cardinalities that grow with them. *)
LEMMA Monotone ==
    ASSUME NEW S \in SUBSET Node, NEW T \in SUBSET S, Cardinality(T) >= quorum
    PROVE  Cardinality(S) >= quorum
<1>1. IsFiniteSet(S)
  BY TwoPathsAssumption, FS_Subset
<1>2. /\ Cardinality(S) \in Nat /\ Cardinality(T) \in Nat
      /\ Cardinality(T) <= Cardinality(S)
  BY <1>1, FS_Subset, FS_CardinalityType
<1> QED
  BY <1>2, QuorumPositive

(* Two, or three, quorums of nodes meet. *)
LEMMA Meet ==
    ASSUME NEW P \in SUBSET Node, Cardinality(P) >= quorum,
           NEW Q \in SUBSET Node, Cardinality(Q) >= quorum,
           NEW R \in SUBSET Node, Cardinality(R) >= quorum
    PROVE  \E x \in Node : x \in P /\ x \in Q /\ x \in R
BY TwoPathsAssumption, QuorumsMeet DEF quorum

(* Someone voted for a certified block. *)
LEMMA CertifiedVoted ==
    ASSUME TypeOK, NEW h \in Heights, Certified(h)
    PROVE  votes[h] # {}
<1>1. votes[h] \in SUBSET Node /\ Cardinality(votes[h]) >= quorum
  BY DEF TypeOK, Certified
<1> QED
  BY <1>1, Meet

(* A height that has been passed has a certificate above it. *)
LEMMA PassedCertified ==
    ASSUME TypeOK, Ordered, NEW h \in Heights, Passed(h)
    PROVE  h + 1 \in Heights /\ Certified(h + 1)
<1>1. PICK k \in Heights : k > h /\ Cardinality(Preparers(k, OPT)) >= quorum
  BY DEF Passed
<1>2. Preparers(k, OPT) \in SUBSET Node
  BY DEF Preparers
<1>3. PICK m \in Node : <<m, k, OPT>> \in prepares
  <2>1. PICK m \in Node : m \in Preparers(k, OPT)
    BY <1>1, <1>2, Meet
  <2> QED
    BY <2>1 DEF Preparers
<1>4. stored[m] > k /\ stored[m] <= height[m]
  BY <1>3 DEF Ordered
<1>5. /\ stored[m] \in 0..MaxHeight /\ height[m] \in Nat /\ MaxHeight \in Nat
      /\ h \in 1..MaxHeight /\ k \in 1..MaxHeight
  BY TwoPathsAssumption DEF TypeOK, Heights
<1>6. h + 1 \in Heights /\ h + 1 < height[m]
  BY <1>1, <1>4, <1>5 DEF Heights
<1> QED
  BY <1>6 DEF Ordered

(* Prepares and votes are never taken back, so quorums stay. *)
LEMMA Stable ==
    ASSUME TypeOK, TypeOK', prepares \subseteq prepares',
           \A k \in Heights : votes[k] \subseteq votes'[k],
           NEW h \in Heights
    PROVE  /\ Certified(h) => Certified(h)'
           /\ \A v \in {OPT, PES} : Cardinality(Preparers(h, v)) >= quorum
                                    => Cardinality(Preparers(h, v)') >= quorum
           /\ Passed(h) => Passed(h)'
<1>1. Certified(h) => Certified(h)'
  <2>1. votes'[h] \in SUBSET Node /\ votes[h] \in SUBSET votes'[h]
    BY DEF TypeOK
  <2> QED
    BY <2>1, Monotone DEF Certified, quorum
<1>2. ASSUME NEW k \in Heights, NEW v \in {OPT, PES}, Cardinality(Preparers(k, v)) >= quorum
      PROVE  Cardinality(Preparers(k, v)') >= quorum
  <2>1. Preparers(k, v)' \in SUBSET Node /\ Preparers(k, v) \in SUBSET Preparers(k, v)'
    BY DEF Preparers
  <2> QED
    BY <1>2, <2>1, Monotone
<1>3. Passed(h) => Passed(h)'
  BY <1>2 DEF Passed, quorum
<1> QED
  BY <1>1, <1>2, <1>3

(* Where prepares, votes and stored blocks stay, only heights and tags can  *)
(* disturb the invariant.                                                  *)
LEMMA SameMessages ==
    ASSUME PathInv, TypeOK', UNCHANGED <<prepares, votes, stored>>,
           \A n \in Node : height'[n] >= height[n],
           \A n \in Node, k \in Heights : k < height'[n] => Certified(k),
           \A n \in Node : \A h \in tag[n] : h \in tag'[n] \/ height'[n] >= h + 2 \/ Passed(h)
    PROVE  PathInv'
<1> USE DEF PathInv
<1>1. \A h : Certified(h)' <=> Certified(h)
  BY DEF Certified, quorum
<1>2. \A h : Passed(h)' <=> Passed(h)
  BY DEF Passed, Preparers, quorum
<1>3. \A n, h : Double(n, h)' <=> Double(n, h)
  BY DEF Double
<1>4. Ordered'
  <2>1. \A n \in Node : stored'[n] <= height'[n]
    <3>1. \A n \in Node : stored[n] \in Int /\ height[n] \in Int /\ height'[n] \in Int
      BY TwoPathsAssumption DEF TypeOK
    <3> QED
      BY <3>1 DEF Ordered
  <2> QED
    BY <1>1, <2>1 DEF Ordered
<1>5. TagKept'
  <2> SUFFICES ASSUME NEW n \in Node, NEW h \in Heights, NEW v \in {OPT, PES},
                      <<n, h, v>> \in prepares
               PROVE  h \in tag'[n] \/ height'[n] >= h + 2 \/ Passed(h)
    BY <1>2, Zenon DEF TagKept
  <2>1. height[n] \in Int /\ height'[n] \in Int /\ h \in Int
    BY TwoPathsAssumption DEF TypeOK, Heights
  <2>2. h \in tag[n] \/ height[n] >= h + 2 \/ Passed(h)
    BY Zenon DEF TagKept
  <2>3. height'[n] >= height[n]
    OBVIOUS
  <2>4. h \in tag[n] => h \in tag'[n] \/ height'[n] >= h + 2 \/ Passed(h)
    OBVIOUS
  <2> QED
    BY <2>1, <2>2, <2>3, <2>4
<1>6. DoubleIsLate'
  BY <1>1, <1>3 DEF DoubleIsLate
<1>7. VotersPrepareOnce'
  <2> SUFFICES ASSUME NEW h \in Heights, h + 1 \in Heights, Certified(h + 1), ~Passed(h)
               PROVE  Cardinality({x \in votes'[h + 1] : ~Double(x, h)'}) >= quorum
    BY <1>1, <1>2 DEF VotersPrepareOnce
  <2>1. {x \in votes'[h + 1] : ~Double(x, h)'} = {x \in votes[h + 1] : ~Double(x, h)}
    BY <1>3
  <2> QED
    BY <2>1 DEF VotersPrepareOnce
<1> QED
  BY <1>4, <1>5, <1>6, <1>7

(* process_qc *)
LEMMA AdvanceStep ==
    ASSUME PathInv, TypeOK', NEW n \in Node, NEW h \in Heights, advance_height(n, h)
    PROVE  PathInv'
<1> USE DEF PathInv
<1>1. h \in Nat /\ \A m \in Node : height[m] \in Nat /\ \A k \in tag[m] : k \in Nat
  BY Numbers
<1>2. \A m \in Node : height'[m] = IF m = n THEN h + 1 ELSE height[m]
  <2>1. height' = [height EXCEPT ![n] = h + 1]
    BY DEF advance_height
  <2> QED
    BY <2>1 DEF TypeOK
<1>3. \A k \in Heights : k <= h => Certified(k)
  <2>1. votes[h] # {} /\ Certified(h)
    BY CertifiedVoted DEF advance_height
  <2> QED
    BY <1>1, <2>1 DEF Ordered, Heights
<1>4. height[n] <= h /\ UNCHANGED <<prepares, votes, stored>>
  BY DEF advance_height
<1>5. \A m \in Node : height'[m] >= height[m]
  BY <1>1, <1>2, <1>4
<1>6. \A m \in Node, k \in Heights : k < height'[m] => Certified(k)
  <2>1. \A k \in Heights : k \in Nat
    BY DEF Heights
  <2> QED
    BY <1>1, <1>2, <1>3, <2>1 DEF Ordered
<1>7. \A m \in Node : \A k \in tag[m] : k \in tag'[m] \/ height'[m] >= k + 2
  <2>1. tag' = tag \/ tag' = [tag EXCEPT ![n] = {i \in tag[n] : i > h - 1}]
    BY DEF advance_height
  <2>2. \A m \in Node : tag'[m] = tag[m] \/ (m = n /\ tag'[m] = {i \in tag[m] : i > h - 1})
    BY <2>1 DEF TypeOK
  <2> QED
    BY <1>1, <1>2, <2>2
<1> QED
  BY <1>4, <1>5, <1>6, <1>7, SameMessages

(* The fast commit: what it forgets lies below a height prepared OPT. *)
LEMMA FastStep ==
    ASSUME PathInv, TypeOK', NEW n \in Node, NEW h \in Heights, FastCommit(n, h)
    PROVE  PathInv'
<1> USE DEF PathInv
<1>1. UNCHANGED <<prepares, votes, stored, height>> /\ Cardinality(Preparers(h, OPT)) >= quorum
  BY DEF FastCommit
<1>2. h \in Nat /\ \A m \in Node : height[m] \in Nat /\ \A k \in tag[m] : k \in Heights
  BY Numbers
<1>3. \A m \in Node : tag'[m] = tag[m] \/ tag'[m] = {i \in tag[m] : i >= h}
  <2>1. tag' = [tag EXCEPT ![n] = {i \in tag[n] : i >= h}]
    BY Zenon DEF FastCommit
  <2> QED
    BY <2>1 DEF TypeOK
<1>4. \A k \in Heights : k < h => Passed(k)
  BY <1>1 DEF Passed, Heights
<1>5. \A m \in Node : \A k \in tag[m] : k \in tag'[m] \/ Passed(k)
  <2> SUFFICES ASSUME NEW m \in Node, NEW k \in tag[m], k \notin tag'[m] PROVE Passed(k)
    OBVIOUS
  <2>1. k \in Heights /\ k \in Nat
    BY <1>2 DEF Heights
  <2> QED
    BY <1>2, <1>3, <1>4, <2>1
<1>6. \A m \in Node, k \in Heights : k < height'[m] => Certified(k)
  BY <1>1 DEF Ordered
<1>7. \A m \in Node : height'[m] >= height[m]
  BY <1>1, <1>2
<1>8. \A m \in Node : \A k \in tag[m] : k \in tag'[m] \/ height'[m] >= k + 2 \/ Passed(k)
  BY <1>5, Zenon
<1> QED
  BY <1>1, <1>6, <1>7, <1>8, SameMessages, Zenon

(* handle_fallback_vote: a node that forgot its OPT prepare was passed. *)
LEMMA VoteStep ==
    ASSUME PathInv, TypeOK', NEW n \in Node, NEW h \in Heights, handle_fallback_vote(n, h)
    PROVE  PathInv'
<1>t. TypeOK /\ Ordered /\ TagKept /\ DoubleIsLate /\ VotersPrepareOnce
  BY DEF PathInv
<1>1. /\ UNCHANGED <<height, stored, votes>> /\ height[n] < h + 2
      /\ \/ UNCHANGED <<prepares, tag>>
         \/ /\ h \notin tag[n] /\ prepares' = prepares \cup {<<n, h, PES>>}
            /\ tag' = [tag EXCEPT ![n] = tag[n] \cup {h}]
  BY DEF handle_fallback_vote, Accepts
<1>2. CASE UNCHANGED <<prepares, tag>>
  <2>1. \A m \in Node : height'[m] >= height[m]
    BY <1>t, <1>1, Numbers
  <2>2. \A m \in Node, k \in Heights : k < height'[m] => Certified(k)
    BY <1>t, <1>1 DEF Ordered
  <2> QED
    BY <1>1, <1>2, <2>1, <2>2, SameMessages
<1>3. CASE /\ h \notin tag[n] /\ prepares' = prepares \cup {<<n, h, PES>>}
           /\ tag' = [tag EXCEPT ![n] = tag[n] \cup {h}]
  <2>1. \A m \in Node : tag[m] \subseteq tag'[m] /\ h \in tag'[n]
    BY <1>t, <1>3 DEF TypeOK
  <2>2. \A m, k : <<m, k, OPT>> \in prepares' <=> <<m, k, OPT>> \in prepares
    BY <1>3 DEF OPT, PES
  <2>3. \A k : Preparers(k, OPT)' = Preparers(k, OPT)
    BY <2>2 DEF Preparers
  <2>4. \A k : (Passed(k)' <=> Passed(k)) /\ (Certified(k)' <=> Certified(k))
    BY <1>1, <2>3 DEF Passed, Certified, quorum
  <2>5. ASSUME NEW m \in Node, NEW k \in Heights, Double(m, k)', ~Double(m, k)
        PROVE  Passed(k)
    <3>1. m = n /\ k = h /\ <<n, h, OPT>> \in prepares
      BY <1>3, <2>2, <2>5 DEF Double
    <3>2. height[n] \in Nat /\ h \in Nat
      BY <1>t, Numbers
    <3>3. h \in tag[n] \/ height[n] >= h + 2 \/ Passed(h)
      BY <1>t, <3>1, Zenon DEF TagKept
    <3> QED
      BY <1>1, <1>3, <3>1, <3>2, <3>3
  <2>6. Ordered'
    BY <1>t, <1>1, <2>2, <2>4, Zenon DEF Ordered
  <2>7. TagKept'
    <3> SUFFICES ASSUME NEW m \in Node, NEW k \in Heights, NEW v \in {OPT, PES},
                        <<m, k, v>> \in prepares'
                 PROVE  k \in tag'[m] \/ height[m] >= k + 2 \/ Passed(k)
      BY <1>1, <2>4, Zenon DEF TagKept
    <3>1. <<m, k, v>> \in prepares \/ (m = n /\ k = h)
      BY <1>3
    <3> QED
      BY <1>t, <2>1, <3>1, Zenon DEF TagKept
  <2>8. DoubleIsLate'
    <3> SUFFICES ASSUME NEW m \in Node, NEW k \in Heights, Double(m, k)'
                 PROVE  k + 1 \in Heights /\ Certified(k + 1)
      BY <2>4 DEF DoubleIsLate
    <3>1. CASE Double(m, k)
      BY <1>t, <3>1 DEF DoubleIsLate
    <3>2. CASE ~Double(m, k)
      BY <1>t, <2>5, <3>2, PassedCertified
    <3> QED
      BY <3>1, <3>2
  <2>9. VotersPrepareOnce'
    <3> SUFFICES ASSUME NEW k \in Heights, k + 1 \in Heights, Certified(k + 1), ~Passed(k)
                 PROVE  Cardinality({x \in votes'[k + 1] : ~Double(x, k)'}) >= quorum
      BY <2>4 DEF VotersPrepareOnce, quorum
    <3>1. votes[k + 1] \subseteq Node
      BY <1>t DEF TypeOK
    <3>2. \A x \in Node : Double(x, k)' <=> Double(x, k)
      BY <1>3, <2>5 DEF Double
    <3>3. {x \in votes'[k + 1] : ~Double(x, k)'} = {x \in votes[k + 1] : ~Double(x, k)}
      BY <1>1, <3>1, <3>2
    <3> QED
      BY <1>t, <3>3 DEF VotersPrepareOnce
  <2> QED
    BY <2>6, <2>7, <2>8, <2>9 DEF PathInv
<1> QED
  BY <1>1, <1>2, <1>3

(* process_opt_block: who prepares OPT after PES is behind the certificate  *)
(* of the block, and has not voted for it.                                 *)
LEMMA ProcessStep ==
    ASSUME PathInv, TypeOK', NEW n \in Node, NEW h \in Heights, process_opt_block(n, h)
    PROVE  PathInv'
<1> DEFINE hn == Larger(height[n], h)
<1>t. TypeOK /\ Ordered /\ TagKept /\ DoubleIsLate /\ VotersPrepareOnce
  BY DEF PathInv
<1>h. /\ h \in Nat /\ height[n] \in Nat /\ hn \in Nat /\ hn >= h /\ hn >= height[n]
      /\ hn = h \/ hn = height[n]
  BY <1>t, Numbers DEF Larger
<1>1. /\ h = stored[n] + 1 /\ (h > 1 => Certified(h - 1))
      /\ height' = [height EXCEPT ![n] = hn]
      /\ stored' = [stored EXCEPT ![n] = h]
      /\ tag' = [tag EXCEPT ![n] = tag'[n]]
      /\ \A i \in tag[n] : i \in tag'[n] \/ i + 2 <= hn
      /\ \/ prepares' = prepares
         \/ /\ prepares' = prepares \cup {<<n, h - 1, OPT>>}
            /\ h > 1 /\ h - 1 \in tag'[n] /\ (h - 1 \in tag[n] => h + 1 <= hn)
      /\ \/ votes' = votes
         \/ h = hn /\ votes' = [votes EXCEPT ![h] = @ \cup {n}]
  BY <1>t, BlockStep
<1> HIDE DEF hn
<1>2. \A m \in Node : /\ height'[m] = IF m = n THEN hn ELSE height[m]
                      /\ stored'[m] = IF m = n THEN h ELSE stored[m]
                      /\ m # n => tag'[m] = tag[m]
  BY <1>t, <1>1 DEF TypeOK
<1>3. /\ prepares \subseteq prepares'
      /\ \A m, k, v : <<m, k, v>> \in prepares' /\ <<m, k, v>> \notin prepares =>
            /\ m = n /\ k = h - 1 /\ v = OPT /\ h > 1 /\ h - 1 \in tag'[n]
            /\ h - 1 \in tag[n] => h + 1 <= hn
  BY <1>1
<1>4. \A k \in Heights : /\ votes[k] \subseteq votes'[k]
                         /\ \A m \in votes'[k] : m \in votes[k] \/ (m = n /\ k = h)
                         /\ k # h => votes'[k] = votes[k]
  BY <1>t, <1>1 DEF TypeOK
<1>5. \A k \in Heights : (Certified(k) => Certified(k)') /\ (Passed(k) => Passed(k)')
  BY <1>t, <1>3, <1>4, Stable
<1>6. \A k \in Heights : k < h => Certified(k)
  <2> SUFFICES ASSUME NEW k \in Heights, k < h PROVE Certified(k)
    OBVIOUS
  <2>1. k \in Nat /\ k > 0 /\ h > 1 /\ h - 1 \in Heights
    BY <1>t, <1>h, Numbers DEF Heights
  <2>2. Certified(h - 1) /\ votes[h - 1] # {}
    BY <1>t, <1>1, <2>1, CertifiedVoted, Zenon
  <2>3. k = h - 1 \/ k < h - 1
    BY <1>h, <2>1
  <2> QED
    BY <1>t, <2>1, <2>2, <2>3 DEF Ordered
<1>7. \A m \in Node, k \in Heights : Double(m, k)' /\ ~Double(m, k) =>
         m = n /\ k = h - 1 /\ Certified(h)
  <2> SUFFICES ASSUME NEW m \in Node, NEW k \in Heights, Double(m, k)', ~Double(m, k)
               PROVE  m = n /\ k = h - 1 /\ Certified(h)
    OBVIOUS
  <2>1. /\ m = n /\ k = h - 1 /\ <<n, k, PES>> \in prepares
        /\ k \in tag[n] => h + 1 <= hn
    BY <1>3 DEF Double, OPT, PES
  <2>2. k \in tag[n] \/ height[n] >= k + 2 \/ Passed(k)
    BY <1>t, <2>1, Zenon DEF TagKept
  <2>3. CASE Passed(k)
    <3>1. k + 1 = h
      BY <1>h, <2>1
    <3> QED
      BY <1>t, <2>1, <2>3, <3>1, PassedCertified
  <2>4. CASE k \in tag[n] \/ height[n] >= k + 2
    <3>1. h < height[n]
      BY <1>h, <2>1, <2>4
    <3> QED
      BY <1>t, <2>1, <3>1 DEF Ordered
  <2> QED
    BY <2>2, <2>3, <2>4
<1>8. Ordered'
  <2>n. \A m \in Node : height[m] \in Nat /\ stored[m] \in Nat /\ stored[m] <= height[m]
    BY <1>t, Numbers DEF Ordered
  <2>1. \A m \in Node : stored'[m] <= height'[m] /\ stored'[m] >= stored[m]
    BY <1>h, <1>1, <1>2, <2>n
  <2>2. ASSUME NEW k \in Heights, NEW m \in votes'[k] PROVE stored'[m] >= k
    <3>1. votes'[k] \subseteq Node
      BY DEF TypeOK
    <3>2. CASE m \in votes[k]
      <4>1. stored[m] >= k /\ k \in Nat
        BY <1>t, <3>2, Numbers DEF Ordered
      <4>2. stored'[m] \in Nat
        BY <1>h, <1>2, <2>n, <3>1
      <4> QED
        BY <2>1, <2>n, <3>1, <4>1, <4>2
    <3>3. CASE m = n /\ k = h
      BY <1>2, <1>h, <3>3
    <3> QED
      BY <1>4, <3>2, <3>3
  <2>3. ASSUME NEW m \in Node, NEW k \in Heights, <<m, k, OPT>> \in prepares'
        PROVE  stored'[m] > k
    <3>1. CASE <<m, k, OPT>> \in prepares
      <4>1. stored[m] > k /\ k \in Nat /\ stored'[m] \in Nat
        BY <1>t, <1>h, <1>2, <3>1, Numbers DEF Ordered
      <4> QED
        BY <2>1, <2>n, <4>1
    <3>2. CASE <<m, k, OPT>> \notin prepares
      BY <1>2, <1>3, <1>h, <2>3, <3>2
    <3> QED
      BY <3>1, <3>2
  <2>4. ASSUME NEW j \in Heights, NEW k \in Heights, votes'[j] # {}, k < j
        PROVE  Certified(k)'
    <3>1. CASE votes[j] # {}
      BY <1>t, <1>5, <2>4, <3>1, Zenon DEF Ordered
    <3>2. CASE votes[j] = {}
      BY <1>4, <1>5, <1>6, <2>4, <3>2
    <3> QED
      BY <3>1, <3>2
  <2>5. ASSUME NEW m \in Node, NEW k \in Heights, k < height'[m] PROVE Certified(k)'
    <3>1. k < height[m] \/ k < h
      BY <1>h, <1>2, <2>5
    <3> QED
      BY <1>t, <1>5, <1>6, <3>1, Zenon DEF Ordered
  <2> QED
    BY <2>1, <2>2, <2>3, <2>4, <2>5 DEF Ordered
<1>9. TagKept'
  <2> SUFFICES ASSUME NEW m \in Node, NEW k \in Heights, NEW v \in {OPT, PES},
                      <<m, k, v>> \in prepares'
               PROVE  k \in tag'[m] \/ height'[m] >= k + 2 \/ Passed(k)'
    BY Zenon DEF TagKept
  <2>1. CASE <<m, k, v>> \notin prepares
    BY <1>3, <2>1
  <2>2. CASE <<m, k, v>> \in prepares
    <3>1. k \in tag[m] \/ height[m] >= k + 2 \/ Passed(k)
      BY <1>t, <2>2, Zenon DEF TagKept
    <3>2. k \in Nat /\ height[m] \in Nat
      BY <1>t, Numbers
    <3>3. height[m] >= k + 2 => height'[m] >= k + 2
      BY <1>h, <1>2, <3>2
    <3>4. k \in tag[m] => k \in tag'[m] \/ height'[m] >= k + 2
      BY <1>h, <1>1, <1>2, <3>2
    <3> QED
      BY <1>5, <3>1, <3>3, <3>4
  <2> QED
    BY <2>1, <2>2
<1>10. DoubleIsLate'
  <2> SUFFICES ASSUME NEW m \in Node, NEW k \in Heights, Double(m, k)'
               PROVE  k + 1 \in Heights /\ Certified(k + 1)'
    BY DEF DoubleIsLate
  <2>1. CASE Double(m, k)
    BY <1>t, <1>5, <2>1 DEF DoubleIsLate
  <2>2. CASE ~Double(m, k)
    <3>1. k + 1 = h /\ Certified(h)
      BY <1>h, <1>7, <2>2
    <3> QED
      BY <1>5, <3>1
  <2> QED
    BY <2>1, <2>2
<1>11. VotersPrepareOnce'
  <2> SUFFICES ASSUME NEW k \in Heights, k + 1 \in Heights, Certified(k + 1)', ~Passed(k)'
               PROVE  Cardinality({x \in votes'[k + 1] : ~Double(x, k)'}) >= quorum
    BY DEF VotersPrepareOnce, quorum
  <2>n. k \in Nat /\ votes'[k + 1] \in SUBSET Node
    BY <1>t, Numbers DEF TypeOK
  <2>1. CASE Certified(k + 1)
    <3>1. Cardinality({x \in votes[k + 1] : ~Double(x, k)}) >= quorum
      BY <1>t, <1>5, <2>1 DEF VotersPrepareOnce
    <3>2. \A x \in votes[k + 1] : ~Double(x, k) => ~Double(x, k)'
      <4> SUFFICES ASSUME NEW x \in votes[k + 1], ~Double(x, k), Double(x, k)' PROVE FALSE
        OBVIOUS
      <4>1. x \in Node
        BY <1>4, <2>n
      <4>2. x = n /\ k + 1 = h
        BY <1>7, <1>h, <4>1
      <4>3. stored[n] >= h /\ stored[n] \in Nat
        BY <1>t, <4>1, <4>2, Numbers, Zenon DEF Ordered
      <4>4. stored[n] + 1 = h
        BY <1>1, Zenon
      <4> QED
        BY <4>3, <4>4
    <3>3. {x \in votes[k + 1] : ~Double(x, k)} \in SUBSET {x \in votes'[k + 1] : ~Double(x, k)'}
      BY <1>4, <3>2
    <3>4. {x \in votes'[k + 1] : ~Double(x, k)'} \in SUBSET Node
      BY <2>n
    <3> QED
      BY <3>1, <3>3, <3>4, Monotone
  <2>2. CASE ~Certified(k + 1)
    <3>1. \A x \in Node : ~Double(x, k)'
      <4> SUFFICES ASSUME NEW x \in Node, Double(x, k)' PROVE FALSE
        OBVIOUS
      <4>1. ~Double(x, k)
        BY <1>t, <2>2 DEF DoubleIsLate
      <4> QED
        BY <1>7, <1>h, <2>2, <4>1
    <3>2. {x \in votes'[k + 1] : ~Double(x, k)'} = votes'[k + 1]
      BY <2>n, <3>1
    <3> QED
      BY <3>2 DEF Certified, quorum
  <2> QED
    BY <2>1, <2>2
<1> QED
  BY <1>8, <1>9, <1>10, <1>11 DEF PathInv


(* What no handler does: take back a prepare, a vote or an output; prepare  *)
(* or vote at a height other than the block's.                             *)
LEMMA NextMessages ==
    ASSUME TypeOK, [Next]_vars
    PROVE  /\ prepares \subseteq prepares'
           /\ \A k \in Heights : votes[k] \subseteq votes'[k]
           /\ \A k \in Heights : output[k] # None => output'[k] = output[k]
           /\ \A m \in Node, k \in Heights :
                 <<m, k, OPT>> \in prepares' /\ <<m, k, OPT>> \notin prepares =>
                     stored[m] = k /\ \A j \in Heights : j # k + 1 => votes'[j] = votes[j]
           /\ \A k \in Heights : votes'[k] # votes[k] =>
                 \A m \in Node, j \in Heights :
                     <<m, j, OPT>> \in prepares' => <<m, j, OPT>> \in prepares \/ k = j + 1
<1>1. ASSUME NEW n \in Node, NEW h \in Heights, process_opt_block(n, h)
      PROVE  /\ stored[n] = h - 1 /\ h \in Nat
             /\ prepares' = prepares \/ prepares' = prepares \cup {<<n, h - 1, OPT>>}
             /\ \A k \in Heights : votes[k] \subseteq votes'[k] /\ (k # h => votes'[k] = votes[k])
             /\ output' = output
  <2>1. stored[n] \in Nat /\ h \in Nat
    BY Numbers
  <2>2. /\ h = stored[n] + 1
        /\ prepares' = prepares \/ prepares' = prepares \cup {<<n, h - 1, OPT>>}
        /\ votes' = votes \/ votes' = [votes EXCEPT ![h] = @ \cup {n}]
    BY <1>1, BlockStep, Zenon
  <2>3. output' = output
    BY <1>1 DEF process_opt_block
  <2>4. \A k \in Heights : votes[k] \subseteq votes'[k] /\ (k # h => votes'[k] = votes[k])
    BY <2>2 DEF TypeOK
  <2> QED
    BY <2>1, <2>2, <2>3, <2>4
<1>2. CASE \E n \in Node, h \in Heights : process_opt_block(n, h)
  <2>1. PICK n \in Node, h \in Heights : process_opt_block(n, h)
    BY <1>2
  <2>2. \A k \in Heights : k \in Nat
    BY Numbers
  <2>3. \A m \in Node, k \in Heights :
          <<m, k, OPT>> \in prepares' /\ <<m, k, OPT>> \notin prepares => m = n /\ h = k + 1
    BY <1>1, <2>1, <2>2
  <2>4. prepares \subseteq prepares' /\ stored[n] = h - 1 /\ h \in Nat
    BY <1>1, <2>1
  <2>5. \A m \in Node, k \in Heights :
          <<m, k, OPT>> \in prepares' /\ <<m, k, OPT>> \notin prepares => stored[m] = k
    BY <2>2, <2>3, <2>4
  <2>6. /\ \A k \in Heights : votes[k] \subseteq votes'[k] /\ (k # h => votes'[k] = votes[k])
        /\ output' = output
    BY <1>1, <2>1
  <2> QED
    BY <2>3, <2>4, <2>5, <2>6, Zenon
<1>3. CASE \E n \in Node, h \in Heights : handle_fallback_vote(n, h)
  <2>1. PICK n \in Node, h \in Heights : handle_fallback_vote(n, h)
    BY <1>3
  <2>2. /\ prepares' = prepares \/ prepares' = prepares \cup {<<n, h, PES>>}
        /\ UNCHANGED <<votes, output>>
    BY <2>1 DEF handle_fallback_vote
  <2> QED
    BY <2>2 DEF OPT, PES
<1>4. CASE \E h \in Heights : SmvbaOutput(h)
  <2>1. PICK h \in Heights : SmvbaOutput(h)
    BY <1>4
  <2>2. output[h] = None /\ UNCHANGED <<votes, prepares>>
    BY <2>1, Zenon DEF SmvbaOutput
  <2>3. \A k \in Heights : k # h => output'[k] = output[k]
    BY <2>1 DEF SmvbaOutput, TypeOK
  <2> QED
    BY <2>2, <2>3
<1>5. CASE \E n \in Node, h \in Heights :
              \/ advance_height(n, h) \/ PreparePes(n, h) \/ PrepareOpt(n, h)
              \/ FastCommit(n, h) \/ HaltOpt(n, h) \/ HaltPes(n, h)
  <2>1. PICK n \in Node, h \in Heights :
              \/ advance_height(n, h) \/ PreparePes(n, h) \/ PrepareOpt(n, h)
              \/ FastCommit(n, h) \/ HaltOpt(n, h) \/ HaltPes(n, h)
    BY <1>5
  <2>2. advance_height(n, h) \/ FastCommit(n, h) => UNCHANGED <<prepares, votes, output>>
    BY Zenon DEF advance_height, FastCommit
  <2>3. PreparePes(n, h) \/ PrepareOpt(n, h) => UNCHANGED <<prepares, votes, output>>
    BY Zenon DEF PreparePes, PrepareOpt
  <2>4. HaltOpt(n, h) \/ HaltPes(n, h) => UNCHANGED <<prepares, votes, output>>
    BY Zenon DEF HaltOpt, HaltPes
  <2>5. UNCHANGED <<prepares, votes, output>>
    BY <2>1, <2>2, <2>3, <2>4, Zenon
  <2> QED
    BY <2>5
<1>6. CASE UNCHANGED vars
  BY <1>6, Zenon DEF vars
<1> QED
  BY <1>2, <1>3, <1>4, <1>5, <1>6, Zenon DEF Next

(* Every handler keeps the part about prepares, votes and heights. *)
LEMMA NextPath ==
    ASSUME PathInv, [Next]_vars
    PROVE  PathInv'
<1>t. TypeOK /\ TypeOK'
  BY NextType DEF PathInv
<1>1. ASSUME UNCHANGED <<prepares, votes, stored, height, tag>> PROVE PathInv'
  <2>1. \A m \in Node : height'[m] >= height[m]
    <3>1. \A m \in Node : height[m] \in Nat
      BY <1>t, Numbers, Zenon
    <3> QED
      BY <1>1, <3>1
  <2>2. \A m \in Node, k \in Heights : k < height'[m] => Certified(k)
    BY <1>1 DEF PathInv, Ordered
  <2> QED
    BY <1>t, <1>1, <2>1, <2>2, SameMessages, Zenon
<1>2. CASE \E n \in Node, h \in Heights : advance_height(n, h)
  BY <1>t, <1>2, AdvanceStep
<1>3. CASE \E n \in Node, h \in Heights : process_opt_block(n, h)
  BY <1>t, <1>3, ProcessStep
<1>4. CASE \E n \in Node, h \in Heights : handle_fallback_vote(n, h)
  BY <1>t, <1>4, VoteStep
<1>5. CASE \E n \in Node, h \in Heights : FastCommit(n, h)
  BY <1>t, <1>5, FastStep
<1>6. CASE \E n \in Node, h \in Heights :
              PreparePes(n, h) \/ PrepareOpt(n, h) \/ HaltOpt(n, h) \/ HaltPes(n, h)
  <2>1. PICK n \in Node, h \in Heights :
              PreparePes(n, h) \/ PrepareOpt(n, h) \/ HaltOpt(n, h) \/ HaltPes(n, h)
    BY <1>6
  <2>2. PreparePes(n, h) \/ PrepareOpt(n, h)
        => UNCHANGED <<prepares, votes, stored, height, tag>>
    BY Zenon DEF PreparePes, PrepareOpt
  <2>3. HaltOpt(n, h) \/ HaltPes(n, h)
        => UNCHANGED <<prepares, votes, stored, height, tag>>
    BY Zenon DEF HaltOpt, HaltPes
  <2>4. UNCHANGED <<prepares, votes, stored, height, tag>>
    BY <2>1, <2>2, <2>3, Zenon
  <2> QED
    BY <1>1, <2>4
<1>7. CASE (\E h \in Heights : SmvbaOutput(h)) \/ UNCHANGED vars
  <2>1. UNCHANGED <<prepares, votes, stored, height, tag>>
    BY <1>7, Zenon DEF SmvbaOutput, vars
  <2> QED
    BY <1>1, <2>1
<1> QED
  BY <1>2, <1>3, <1>4, <1>5, <1>6, <1>7 DEF Next

(* Only an sMVBA instance writes its output. *)
LEMMA OutputBySmvba ==
    ASSUME [Next]_vars, output' # output
    PROVE  \E h \in Heights : SmvbaOutput(h)
<1>1. ASSUME NEW n \in Node, NEW h \in Heights,
             \/ advance_height(n, h) \/ process_opt_block(n, h)
             \/ handle_fallback_vote(n, h)
             \/ PreparePes(n, h) \/ PrepareOpt(n, h) \/ FastCommit(n, h)
             \/ HaltOpt(n, h) \/ HaltPes(n, h)
      PROVE  UNCHANGED output
  BY <1>1, Zenon DEF advance_height, process_opt_block, handle_fallback_vote, PreparePes,
                     PrepareOpt, FastCommit, HaltOpt, HaltPes
<1>2. UNCHANGED vars => UNCHANGED output
  BY Zenon DEF vars
<1> QED
  BY <1>1, <1>2, Zenon DEF Next

(* Inputs, outputs and fast commits rest on quorums of prepares. *)
LEMMA NextQuorums ==
    ASSUME TypeOK, TypeOK', Quorums, LogBelow, [Next]_vars
    PROVE  Quorums'
<1>1. /\ prepares \subseteq prepares'
      /\ \A k \in Heights : votes[k] \subseteq votes'[k]
      /\ \A k \in Heights : output[k] # None => output'[k] = output[k]
  BY NextMessages, Zenon
<1>2. \A k \in Heights, v \in {OPT, PES} : Cardinality(Preparers(k, v)) >= quorum
                                           => Cardinality(Preparers(k, v)') >= quorum
  BY <1>1, Stable
<1>p. OPT # PES /\ None # PES /\ Orphan # PES /\ None # Orphan
  BY DEF OPT, PES, None, Orphan
<1>3. ASSUME NEW m \in Node, NEW k \in Heights, input'[m][k] = PES
      PROVE  Cardinality(Preparers(k, PES)) >= quorum
  <2>1. CASE input[m][k] = PES
    BY <2>1 DEF Quorums
  <2>2. CASE input[m][k] # PES
    <3>1. \A h \in Heights, n \in Node : invoke_smvba(n, h, OPT) => input'[m][k] # PES
      BY <1>p, <2>2, InputType
    <3>2. ~UNCHANGED input
      BY <1>3, <2>2
    <3>4. ASSUME NEW n \in Node, NEW h \in Heights, process_opt_block(n, h) PROVE FALSE
      <4>1. h > 1 /\ invoke_smvba(n, h - 1, OPT)
        BY <3>2, <3>4 DEF process_opt_block
      <4>2. h - 1 \in Heights
        BY <4>1, Numbers DEF Heights
      <4> QED
        BY <1>3, <3>1, <4>1, <4>2
    <3>5. ASSUME NEW n \in Node, NEW h \in Heights, PrepareOpt(n, h) \/ FastCommit(n, h)
          PROVE  FALSE
      <4>1. invoke_smvba(n, h, OPT)
        BY <3>5, Zenon DEF PrepareOpt, FastCommit
      <4> QED
        BY <1>3, <3>1, <4>1
    <3>6. ASSUME NEW n \in Node, NEW h \in Heights,
                 \/ advance_height(n, h) \/ handle_fallback_vote(n, h)
                 \/ HaltOpt(n, h) \/ HaltPes(n, h) \/ SmvbaOutput(h)
          PROVE  FALSE
      <4>1. UNCHANGED input
        BY <3>6, Zenon DEF advance_height, handle_fallback_vote, HaltOpt, HaltPes, SmvbaOutput
      <4> QED
        BY <3>2, <4>1
    <3>v. ~UNCHANGED vars
      BY <3>2, Zenon DEF vars
    <3>n. \A h \in Heights : SmvbaOutput(h) => FALSE
      BY <3>6, Zenon
    <3>7. PICK n \in Node, h \in Heights : PreparePes(n, h)
      BY <3>4, <3>5, <3>6, <3>n, <3>v, Zenon DEF Next
    <3>8. invoke_smvba(n, h, PES) /\ Cardinality(Preparers(h, PES)) >= quorum
      BY <3>7, Zenon DEF PreparePes
    <3>9. k = h
      BY <1>3, <2>2, <3>8, InputType
    <3> QED
      BY <3>8, <3>9
  <2> QED
    BY <2>1, <2>2
<1>4. ASSUME NEW k \in Heights, output'[k] = PES
      PROVE  Cardinality(Preparers(k, PES)) >= quorum
  <2>1. CASE output[k] = PES
    BY <2>1 DEF Quorums
  <2>2. CASE output[k] # PES
    <3>1. PICK h \in Heights : SmvbaOutput(h)
      BY <1>4, <2>2, OutputBySmvba
    <3>2. PICK m \in Node, first \in {TRUE, FALSE} :
            output' = [output EXCEPT ![h] = Proposal(m, h, first)]
      BY <3>1, Zenon DEF SmvbaOutput
    <3>3. k = h /\ Proposal(m, h, first) = PES
      BY <1>4, <2>2, <3>2 DEF TypeOK
    <3>4. input[m][k] = PES
      BY <1>p, <3>3 DEF Proposal
    <3> QED
      BY <3>4 DEF Quorums
  <2> QED
    BY <2>1, <2>2
<1>5. ASSUME NEW m \in Node, NEW k \in fast'[m]
      PROVE  Cardinality(Preparers(k, OPT)) >= quorum
  <2>1. CASE k \in fast[m]
    BY <2>1 DEF Quorums
  <2>2. CASE k \notin fast[m]
    <3>1. PICK n \in Node, h \in Heights : FastCommit(n, h)
      <4>1. ASSUME NEW n \in Node, NEW h \in Heights,
                   \/ advance_height(n, h) \/ process_opt_block(n, h)
                   \/ handle_fallback_vote(n, h)
                   \/ PreparePes(n, h) \/ PrepareOpt(n, h)
                   \/ HaltOpt(n, h) \/ HaltPes(n, h)
            PROVE  UNCHANGED fast
        BY <4>1, Zenon DEF advance_height, process_opt_block, handle_fallback_vote, PreparePes,
                    PrepareOpt, HaltOpt, HaltPes
      <4>2. ASSUME NEW h \in Heights, SmvbaOutput(h) PROVE UNCHANGED fast
        BY <4>2, Zenon DEF SmvbaOutput
      <4>3. ~UNCHANGED fast /\ (UNCHANGED vars => UNCHANGED fast)
        BY <1>5, <2>2, Zenon DEF vars
      <4> QED
        BY <4>1, <4>2, <4>3, Zenon DEF Next
    <3>2. fast' = [fast EXCEPT ![n] = fast[n] \cup {h}]
          /\ Cardinality(Preparers(h, OPT)) >= quorum
      BY <3>1, Zenon DEF FastCommit
    <3>3. k = h
      BY <1>5, <2>2, <3>2 DEF TypeOK
    <3> QED
      BY <3>2, <3>3
  <2> QED
    BY <2>1, <2>2
<1>6. ASSUME NEW m \in Node, NEW k \in Heights, log'[m][k] = PES
      PROVE  output'[k] \in {PES, Orphan}
  <2>1. log[m][k] = PES \/ output[k] \in {PES, Orphan}
    BY <1>6, NextLog
  <2>2. output[k] \in {PES, Orphan}
    BY <2>1 DEF Quorums
  <2> QED
    BY <1>1, <1>p, <2>2
<1>7. \A m \in Node : fast'[m] \subseteq Heights
  BY DEF TypeOK
<1>8. \A m \in Node : \A k \in fast'[m] : Cardinality(Preparers(k, OPT)') >= quorum
  BY <1>2, <1>5, <1>7
<1>9. /\ \A m \in Node, k \in Heights :
            input'[m][k] = PES => Cardinality(Preparers(k, PES)') >= quorum
      /\ \A k \in Heights : output'[k] = PES => Cardinality(Preparers(k, PES)') >= quorum
  BY <1>2, <1>3, <1>4
<1> QED
  BY <1>6, <1>8, <1>9, Zenon DEF Quorums, quorum

(* The instance of a height outputs while a quorum has not passed it, and   *)
(* who made the certificate above the height prepares no more.             *)
LEMMA NextOutput ==
    ASSUME Inv, PathInv', [Next]_vars
    PROVE  OutputKept'
<1>t. /\ TypeOK /\ Ordered /\ VotersPrepareOnce /\ Quorums /\ OutputKept /\ LogBelow
      /\ TypeOK' /\ VotersPrepareOnce'
  BY DEF Inv, PathInv
<1>1. /\ prepares \subseteq prepares'
      /\ \A k \in Heights : votes[k] \subseteq votes'[k]
      /\ \A k \in Heights : output[k] # None => output'[k] = output[k]
      /\ \A m \in Node, k \in Heights :
            <<m, k, OPT>> \in prepares' /\ <<m, k, OPT>> \notin prepares => stored[m] = k
      /\ \A k \in Heights : votes'[k] # votes[k] =>
            \A m \in Node, j \in Heights :
                <<m, j, OPT>> \in prepares' => <<m, j, OPT>> \in prepares \/ k = j + 1
  BY <1>t, NextMessages
<1>2. Quorums'
  BY <1>t, NextQuorums
<1> SUFFICES ASSUME NEW h \in Heights, output'[h] = PES, h + 1 \in Heights, Certified(h + 1)'
             PROVE  \E P \in SUBSET Preparers(h, PES)', Q \in SUBSET votes'[h + 1] :
                       /\ Cardinality(P) >= quorum /\ Cardinality(Q) >= quorum
                       /\ P \cap Q \cap Preparers(h, OPT)' = {}
  BY DEF OutputKept, quorum
<1>h. h \in Nat /\ votes[h + 1] \subseteq Node /\ votes'[h + 1] \subseteq Node
  BY <1>t, Numbers DEF TypeOK
<1>3. ASSUME ~Passed(h)' PROVE \E P \in SUBSET Preparers(h, PES)', Q \in SUBSET votes'[h + 1] :
                       /\ Cardinality(P) >= quorum /\ Cardinality(Q) >= quorum
                       /\ P \cap Q \cap Preparers(h, OPT)' = {}
  <2> DEFINE P == Preparers(h, PES)'
             Q == {x \in votes'[h + 1] : ~Double(x, h)'}
  <2>1. Cardinality(P) >= quorum
    BY <1>2 DEF Quorums, quorum
  <2>2. Cardinality(Q) >= quorum
    BY <1>t, <1>3 DEF VotersPrepareOnce, quorum
  <2>3. P \cap Q \cap Preparers(h, OPT)' = {}
    BY DEF Preparers, Double
  <2>4. Q \in SUBSET votes'[h + 1] /\ P \in SUBSET Preparers(h, PES)'
    OBVIOUS
  <2> HIDE DEF P, Q
  <2> QED
    BY <2>1, <2>2, <2>3, <2>4
<1>4. CASE output[h] # PES
  <2>1. PICK i \in Heights : SmvbaOutput(i)
    BY <1>4, OutputBySmvba
  <2>2. i = h
    <3>1. PICK v : output' = [output EXCEPT ![i] = v]
      BY <2>1, Zenon DEF SmvbaOutput
    <3>2. DOMAIN output = Heights
      BY <1>t DEF TypeOK
    <3> QED
      BY <1>4, <3>1, <3>2
  <2> DEFINE A == {m \in Node : Accepts(m, h) /\ input[m][h] # None}
  <2>3. Cardinality(A) >= quorum /\ UNCHANGED prepares
    BY <2>1, <2>2 DEF SmvbaOutput
  <2>4. ASSUME Passed(h) PROVE FALSE
    <3>1. PICK k \in Heights : k > h /\ Cardinality(Preparers(k, OPT)) >= quorum
      BY <2>4 DEF Passed
    <3>2. A \in SUBSET Node /\ Preparers(k, OPT) \in SUBSET Node
      BY DEF Preparers
    <3>3. \A m \in A : height[m] < h + 2
      BY DEF Accepts
    <3> HIDE DEF A
    <3>4. PICK m \in Node : m \in A /\ m \in Preparers(k, OPT)
      BY <2>3, <3>1, <3>2, Meet
    <3>5. stored[m] > k /\ stored[m] <= height[m] /\ height[m] < h + 2
      BY <1>t, <3>3, <3>4, Zenon DEF Preparers, Ordered
    <3> QED
      BY <1>t, <1>h, <3>1, <3>5, Numbers
  <2>5. ~Passed(h)'
    BY <2>3, <2>4 DEF Passed, Preparers, quorum
  <2> QED
    BY <1>3, <2>5
<1>5. CASE output[h] = PES /\ ~Certified(h + 1)
  <2>1. ~Passed(h)
    BY <1>t, <1>5, PassedCertified
  <2>2. votes'[h + 1] # votes[h + 1]
    BY <1>5 DEF Certified, quorum
  <2>3. \A k \in Heights : k > h => Preparers(k, OPT)' = Preparers(k, OPT)
    <3> SUFFICES ASSUME NEW k \in Heights, k > h
                 PROVE  \A m \in Node : <<m, k, OPT>> \in prepares' <=> <<m, k, OPT>> \in prepares
      BY DEF Preparers
    <3>1. h + 1 # k + 1
      BY <1>t, <1>h, Numbers
    <3> QED
      BY <1>1, <2>2, <3>1
  <2>4. ~Passed(h)'
    BY <2>1, <2>3 DEF Passed, quorum
  <2> QED
    BY <1>3, <2>4
<1>6. CASE output[h] = PES /\ Certified(h + 1)
  <2>1. PICK P \in SUBSET Preparers(h, PES), Q \in SUBSET votes[h + 1] :
           /\ Cardinality(P) >= quorum /\ Cardinality(Q) >= quorum
           /\ P \cap Q \cap Preparers(h, OPT) = {}
    BY <1>t, <1>6 DEF OutputKept
  <2>2. P \in SUBSET Preparers(h, PES)' /\ Q \in SUBSET votes'[h + 1]
    BY <1>1 DEF Preparers
  <2>3. P \cap Q \cap Preparers(h, OPT)' = {}
    <3> SUFFICES ASSUME NEW x \in P, x \in Q, x \in Preparers(h, OPT)' PROVE FALSE
      OBVIOUS
    <3>1. x \in Node /\ <<x, h, OPT>> \in prepares' /\ <<x, h, OPT>> \notin prepares
      BY <2>1 DEF Preparers
    <3>2. stored[x] = h
      BY <1>1, <3>1
    <3>3. stored[x] >= h + 1
      BY <1>t, <2>1 DEF Ordered
    <3>4. ~(h >= h + 1)
      BY <1>h
    <3> QED
      BY <3>2, <3>3, <3>4, Zenon
  <2> QED
    BY <2>1, <2>2, <2>3
<1> QED
  BY <1>4, <1>5, <1>6

(* At the start nobody has prepared, voted or committed. *)
LEMMA InitInv == Init => Inv
<1> SUFFICES ASSUME Init PROVE Inv
  OBVIOUS
<1>1. TypeOK /\ LogBelow
  BY InitTypeLog
<1>c. \A h \in Heights : votes[h] = {} /\ ~Certified(h)
  <2>1. \A h \in Heights : votes[h] = {}
    BY DEF Init
  <2> QED
    BY <1>1, <2>1, CertifiedVoted
<1>2. Ordered
  <2>1. \A n \in Node : stored[n] = 0 /\ height[n] = 1
    BY DEF Init
  <2>2. \A k \in Heights : k \in Nat /\ k > 0
    BY <1>1, Numbers
  <2>3. prepares = {}
    BY DEF Init
  <2>4. \A n \in Node, k \in Heights : ~(k < height[n])
    BY <2>1, <2>2
  <2>5. \A n \in Node : stored[n] <= height[n]
    BY <2>1
  <2> QED
    BY <1>c, <2>3, <2>4, <2>5 DEF Ordered
<1>3. TagKept /\ DoubleIsLate
  BY DEF Init, TagKept, DoubleIsLate, Double
<1>4. VotersPrepareOnce /\ OutputKept
  BY <1>c DEF VotersPrepareOnce, OutputKept
<1>5. Quorums
  <2>1. /\ \A n \in Node, h \in Heights : input[n][h] = None /\ log[n][h] = None
        /\ \A h \in Heights : output[h] = None
        /\ \A n \in Node : fast[n] = {}
    BY DEF Init
  <2> QED
    BY <2>1 DEF Quorums, None, PES
<1> QED
  BY <1>1, <1>2, <1>3, <1>4, <1>5 DEF Inv, PathInv

(* Inv is inductive. *)
LEMMA Invariance == Spec => []Inv
<1>1. Inv /\ [Next]_vars => Inv'
  <2> SUFFICES ASSUME Inv, [Next]_vars PROVE Inv'
    OBVIOUS
  <2>1. PathInv' /\ TypeOK /\ TypeOK'
    BY NextPath, NextType DEF Inv, PathInv
  <2> QED
    BY <2>1, NextQuorums, NextOutput, NextLog DEF Inv
<1> QED
  BY <1>1, InitInv, PTL DEF Spec

(* A fast commit and a PES block on the optimistic chain never meet at a    *)
(* height: a node that prepared both ways is behind a certificate whose    *)
(* makers prepared once, and the three quorums share a node.               *)
THEOREM FastCommitsFinal == Spec => []FastCommitFinal
<1>1. Inv => FastCommitFinal
  <2> SUFFICES ASSUME Inv, NEW n \in Node, NEW m \in Node, NEW h \in fast[n],
                      log[m][h] = PES, output[h] # Orphan
               PROVE  FALSE
    BY Zenon DEF FastCommitFinal
  <2>1. h \in Heights
    BY DEF Inv, PathInv, TypeOK
  <2>2. /\ output[h] = PES
        /\ Cardinality(Preparers(h, PES)) >= quorum
        /\ Cardinality(Preparers(h, OPT)) >= quorum
    BY <2>1 DEF Inv, Quorums
  <2>3. Preparers(h, PES) \in SUBSET Node /\ Preparers(h, OPT) \in SUBSET Node
    BY DEF Preparers
  <2>4. PICK x \in Node : x \in Preparers(h, PES) /\ x \in Preparers(h, OPT)
    BY <2>2, <2>3, Meet
  <2>5. Double(x, h)
    BY <2>4 DEF Preparers, Double
  <2>6. h + 1 \in Heights /\ Certified(h + 1)
    BY <2>1, <2>5 DEF Inv, PathInv, DoubleIsLate
  <2>7. PICK P \in SUBSET Preparers(h, PES), Q \in SUBSET votes[h + 1] :
           /\ Cardinality(P) >= quorum /\ Cardinality(Q) >= quorum
           /\ P \cap Q \cap Preparers(h, OPT) = {}
    BY <2>1, <2>2, <2>6 DEF Inv, OutputKept
  <2>8. P \in SUBSET Node /\ Q \in SUBSET Node
    BY <2>3, <2>6 DEF Inv, PathInv, TypeOK
  <2>9. \E y \in Node : y \in P /\ y \in Q /\ y \in Preparers(h, OPT)
    BY <2>2, <2>3, <2>7, <2>8, Meet
  <2> QED
    BY <2>7, <2>9
<1> QED
  BY <1>1, Invariance, PTL

=============================================================================
