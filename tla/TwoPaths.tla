------------------------------ MODULE TwoPaths ------------------------------
(***************************************************************************)
(* How the two paths of Protocol::HotStuffAndSMVBA meet (core.rs), in one  *)
(* epoch.  A node that processes the optimistic block of a height starts   *)
(* its fallback chain there and prepares OPT for the height below; when    *)
(* the chain is complete first, it prepares PES.  An OPT prepare, or a     *)
(* quorum of PES prepares, starts the height's sMVBA instance.  A height   *)
(* is committed by the two-chain rule, by a quorum of OPT prepares (the    *)
(* fast path) or by an sMVBA instance that outputs a PES block.            *)
(*                                                                         *)
(* The components stand for what they promise: the optimistic path for one *)
(* certified block per height (OptPath), sMVBA for one output per height,  *)
(* the block some participant proposed.  Nodes are correct, one block is   *)
(* proposed per height, and messages are late or never arrive.  A quorum   *)
(* of votes or prepares is counted in one step, since a message has no     *)
(* effect before the one that completes it; a prepare that                 *)
(* update_prepare_state erases counts as one that never came, and a node   *)
(* that leaves the epoch for a later one as one that nothing reaches.      *)
(***************************************************************************)
EXTENDS Committee

CONSTANTS
    Node,
    Ahead,            \* nodes that may learn a QC before they process its block
    Hears,            \* nodes that the OPT prepares and the halts of others reach
    MaxHeight,        \* bound on the heights of optimistic blocks
    MaxFallback,      \* bound on the heights with fallback chains and sMVBA instances
    fallback_length   \* Parameters.fallback_length

Heights == 1..MaxHeight
OPT == "OPT"
PES == "PES"
None == "none"
Orphan == "orphan"    \* a PES block that extends genesis
Dead == -1            \* a fallback chain that will not go on

ASSUME TwoPathsAssumption ==
    /\ IsFiniteSet(Node) /\ Cardinality(Node) % 3 = 1
    /\ Ahead \subseteq Node /\ Hears \subseteq Node
    /\ MaxHeight \in Nat /\ MaxFallback \in 0..MaxHeight /\ fallback_length \in Nat \ {0}

VARIABLES
    height, last_committed_height,
    stored,     \* the optimistic blocks 1..stored[n] are processed and stored
    log,        \* per height, the tag of the committed block
    votes,      \* per height, who voted for the optimistic block
    fb,         \* per height, the fallback chain: 0, its round, its length + 1, or Dead
    orphan,     \* fallback chains <<n, h>> that extend genesis
    tag,        \* heights in prepare_tag
    prepares,   \* ParPrePare messages <<author, height, val>>
    fast,       \* heights whose OPT prepares reached a quorum at the node
    input,      \* per height, the node's sMVBA input
    output,     \* per height, the sMVBA output: None, OPT, PES or Orphan
    halted,     \* heights in smvba_halt_falg
    ended       \* TRUE: the node has left the epoch

vars == <<height, last_committed_height, stored, log, votes, fb, orphan, tag, prepares,
          fast, input, output, halted, ended>>

quorum == quorum_threshold(Cardinality(Node))
Certified(h) == Cardinality(votes[h]) >= quorum
Larger(i, j) == IF i > j THEN i ELSE j

(* fallback_message_filter, smvba_msg_filter, the first check on a PrePare *)
Accepts(n, h) == ~ended[n] /\ height[n] < h + 2

Preparers(h, val) == {m \in Node : <<m, h, val>> \in prepares}

Init ==
    /\ height = [n \in Node |-> 1]
    /\ last_committed_height = [n \in Node |-> 0]
    /\ stored = [n \in Node |-> 0]
    /\ log = [n \in Node |-> [h \in Heights |-> None]]
    /\ votes = [h \in Heights |-> {}]
    /\ fb = [n \in Node |-> [h \in Heights |-> 0]]
    /\ orphan = {} /\ prepares = {}
    /\ tag = [n \in Node |-> {}]
    /\ fast = [n \in Node |-> {}]
    /\ input = [n \in Node |-> [h \in Heights |-> None]]
    /\ output = [h \in Heights |-> None]
    /\ halted = [n \in Node |-> {}]
    /\ ended = [n \in Node |-> FALSE]

(* Core::commit of an optimistic block at height b0: nothing when the       *)
(* height is committed already.                                            *)
CommitOpt_lower(n, b0) ==
    /\ log' = [log EXCEPT ![n] = [h \in Heights |-> IF h <= b0 THEN OPT ELSE @[h]]]
    /\ last_committed_height' = [last_committed_height EXCEPT ![n] = b0]
CommitOpt(n, b0) ==
    /\ log' = [log EXCEPT ![n] = [h \in Heights |->
           IF last_committed_height[n] < h /\ h <= b0 THEN OPT ELSE @[h]]]
    /\ last_committed_height' = [last_committed_height EXCEPT ![n] = Larger(@, b0)]

(* broadcast_fallback_propose: round k of n's chain at height h.  Voting    *)
(* has no other condition than the filter, so the round gets its QC, late  *)
(* or early, if a quorum would vote at once.                               *)
FallbackRound(n, h, k, willAccept) ==
    IF input[n][h] = None /\ Cardinality(willAccept) >= quorum THEN k ELSE Dead

(* invoke_fallback(h): once per height. *)
StartFallback(n, h, willAccept) ==
    [fb EXCEPT ![n][h] = IF @ = 0 /\ h <= MaxFallback
                         THEN FallbackRound(n, h, 1, willAccept) ELSE @]

(* invoke_smvba(h, val): once per height. *)
invoke_smvba(n, h, val) ==
    input' = [input EXCEPT ![n][h] = IF @ = None /\ h <= MaxFallback THEN val ELSE @]

-----------------------------------------------------------------------------
(* process_qc on the QC of height h: a leader of the next height assembled  *)
(* it, or it came with block h + 1, whose parent or payload is missing.    *)
advance_height(n, h) ==
    /\ n \in Ahead /\ ~ended[n] /\ Certified(h) /\ height[n] <= h
    /\ height' = [height EXCEPT ![n] = h + 1]
    /\ \/ UNCHANGED tag
       \/ h + 1 > 2 /\ tag' = [tag EXCEPT ![n] = {i \in @ : i > h - 1}]
    /\ UNCHANGED <<last_committed_height, stored, log, votes, fb, orphan, prepares, fast,
                   input, output, halted, ended>>

(* A node at height hn that is ahead of block h refuses its own prepare for *)
(* the height below, or its own fallback block; the error ends             *)
(* process_opt_block.                                                      *)
TooLate(n, h, hn, preparing) ==
    \/ preparing /\ hn > h
    \/ hn >= h + 2 /\ fb[n][h] = 0 /\ input[n][h] = None

(* handle_opt_proposal and process_opt_block for block h, its parent being  *)
(* stored: the old sMVBA state is dropped, OPT prepared for the height     *)
(* below, the fallback chain started, the grandparent committed and the    *)
(* block voted for.                                                        *)
process_opt_block(n, h) ==
    LET hn == Larger(height[n], h)
        kept == IF h > 2 THEN {i \in tag[n] : i > hn - 2} ELSE tag[n]
        preparing == h > 1 /\ h - 1 \notin kept
    IN  /\ ~ended[n] /\ h = stored[n] + 1
        /\ h > 1 => Certified(h - 1)
        /\ height' = [height EXCEPT ![n] = hn]
        /\ stored' = [stored EXCEPT ![n] = h]
        /\ tag' = [tag EXCEPT ![n] = IF preparing THEN kept \cup {h - 1} ELSE kept]
        /\ prepares' = IF preparing THEN prepares \cup {<<n, h - 1, OPT>>} ELSE prepares
        /\ \/ /\ TooLate(n, h, hn, preparing)
              /\ fb' = IF preparing THEN fb ELSE [fb EXCEPT ![n][h] = Dead]
              /\ UNCHANGED <<last_committed_height, log, votes, input>>
           \/ /\ ~TooLate(n, h, hn, preparing)
              /\ IF preparing THEN invoke_smvba(n, h - 1, OPT) ELSE UNCHANGED input
              /\ fb' = StartFallback(n, h, {m \in Node : Accepts(m, h)})
              /\ CommitOpt(n, h - 2)
              /\ votes' = IF h = hn THEN [votes EXCEPT ![h] = @ \cup {n}] ELSE votes
        /\ UNCHANGED <<orphan, fast, output, halted, ended>>

(* handle_fallback_vote completes a round of n's chain; the last one makes  *)
(* the node prepare PES, unless it has prepared.                           *)
handle_fallback_vote_always(n, h) ==
    /\ Accepts(n, h)
    /\ fb[n][h] \in 1..fallback_length
    /\ fb' = [fb EXCEPT ![n][h] =
           IF @ < fallback_length
           THEN FallbackRound(n, h, @ + 1, {m \in Node : Accepts(m, h)})
           ELSE fallback_length + 1]
    /\ prepares' = IF fb[n][h] = fallback_length
                   THEN prepares \cup {<<n, h, PES>>} ELSE prepares
    /\ tag' = IF fb[n][h] = fallback_length THEN [tag EXCEPT ![n] = @ \cup {h}] ELSE tag
    /\ UNCHANGED <<height, last_committed_height, stored, log, votes, orphan, fast, input,
                   output, halted, ended>>
handle_fallback_vote(n, h) ==
    /\ Accepts(n, h)
    /\ fb[n][h] \in 1..fallback_length
    /\ LET preparing == fb[n][h] = fallback_length /\ h \notin tag[n]
       IN  /\ prepares' = IF preparing THEN prepares \cup {<<n, h, PES>>} ELSE prepares
           /\ tag' = IF preparing THEN [tag EXCEPT ![n] = @ \cup {h}] ELSE tag
    /\ fb' = [fb EXCEPT ![n][h] =
           IF @ < fallback_length
           THEN FallbackRound(n, h, @ + 1, {m \in Node : Accepts(m, h)})
           ELSE fallback_length + 1]
    /\ UNCHANGED <<height, last_committed_height, stored, log, votes, orphan, fast, input,
                   output, halted, ended>>

(* handle_par_prepare, a PES prepare: with a quorum of them and its own     *)
(* chain complete, the node enters sMVBA.                                  *)
PreparePes(n, h) ==
    /\ Accepts(n, h) /\ input[n][h] = None /\ h <= MaxFallback
    /\ fb[n][h] = fallback_length + 1
    /\ Cardinality(Preparers(h, PES)) >= quorum
    /\ invoke_smvba(n, h, PES)
    /\ UNCHANGED <<height, last_committed_height, stored, log, votes, fb, orphan, tag,
                   prepares, fast, output, halted, ended>>

(* An OPT prepare. *)
PrepareOpt(n, h) ==
    /\ n \in Hears /\ Accepts(n, h) /\ input[n][h] = None /\ h <= MaxFallback
    /\ Preparers(h, OPT) # {}
    /\ invoke_smvba(n, h, OPT)
    /\ UNCHANGED <<height, last_committed_height, stored, log, votes, fb, orphan, tag,
                   prepares, fast, output, halted, ended>>

(* The OPT prepare that completes a quorum: the fast commit, if the block   *)
(* is in the store, and terminate_smvba(h - 1).                            *)
FastCommit(n, h) ==
    /\ n \in Hears /\ Accepts(n, h) /\ h \notin fast[n]
    /\ Cardinality(Preparers(h, OPT)) >= quorum
    /\ fast' = [fast EXCEPT ![n] = @ \cup {h}]
    /\ IF h <= stored[n] THEN CommitOpt(n, h) ELSE UNCHANGED <<log, last_committed_height>>
    /\ tag' = [tag EXCEPT ![n] = {i \in @ : i >= h}]
    /\ fb' = [fb EXCEPT ![n] = [i \in Heights |->
           IF i < h /\ @[i] = fallback_length + 1 THEN Dead ELSE @[i]]]
    /\ invoke_smvba(n, h, OPT)
    /\ UNCHANGED <<height, stored, votes, orphan, prepares, output, halted, ended>>

(* The block that m proposes in an instance.  In the rounds after the first *)
(* it is generated anew, with tag PES whatever the input was; where that   *)
(* was OPT, it extends genesis.                                            *)
Proposal(m, h, first) ==
    IF input[m][h] = PES /\ <<m, h>> \notin orphan THEN PES
    ELSE IF input[m][h] = OPT /\ first THEN OPT ELSE Orphan

(* sMVBA (module Smvba), for a height at which a quorum takes part. *)
SmvbaOutput(h) ==
    /\ output[h] = None /\ h <= MaxFallback
    /\ Cardinality({m \in Node : Accepts(m, h) /\ input[m][h] # None}) >= quorum
    /\ \E m \in {i \in Node : input[i][h] # None}, first \in {TRUE, FALSE} :
          output' = [output EXCEPT ![h] = Proposal(m, h, first)]
    /\ UNCHANGED <<height, last_committed_height, stored, log, votes, fb, orphan, tag,
                   prepares, fast, input, halted, ended>>

(* process_par_out, the instance output OPT: the fallback chain of the next *)
(* height starts, without a QC to extend.                                  *)
HaltOpt(n, h) ==
    /\ n \in Hears /\ Accepts(n, h) /\ h \notin halted[n] /\ output[h] = OPT
    /\ halted' = [halted EXCEPT ![n] = @ \cup {h}]
    /\ fb' = IF h < MaxFallback
             THEN StartFallback(n, h + 1, {m \in Node : Accepts(m, h + 1)}) ELSE fb
    /\ orphan' = IF h < MaxFallback /\ fb[n][h + 1] = 0
                 THEN orphan \cup {<<n, h + 1>>} ELSE orphan
    /\ UNCHANGED <<height, last_committed_height, stored, log, votes, tag, prepares, fast,
                   input, output, ended>>

(* process_par_out, the instance output a PES block: it is committed and    *)
(* ends the epoch, unless its height is committed already.  The walk to    *)
(* its optimistic ancestors may break off at a fallback block the node     *)
(* never received.                                                         *)
HaltPes_unchecked(n, h) ==
    /\ n \in Hears /\ Accepts(n, h) /\ h \notin halted[n] /\ output[h] \in {PES, Orphan}
    /\ halted' = [halted EXCEPT ![n] = @ \cup {h}]
    /\ log' = [log EXCEPT ![n][h] = PES]
    /\ last_committed_height' = [last_committed_height EXCEPT ![n] = h]
    /\ ended' = [ended EXCEPT ![n] = TRUE]
    /\ UNCHANGED <<height, stored, votes, fb, orphan, tag, prepares, fast, input, output>>
HaltPes(n, h) ==
    /\ n \in Hears /\ Accepts(n, h) /\ h \notin halted[n] /\ output[h] \in {PES, Orphan}
    /\ halted' = [halted EXCEPT ![n] = @ \cup {h}]
    /\ \/ /\ h <= last_committed_height[n]
          /\ UNCHANGED <<log, last_committed_height, ended>>
       \/ /\ h > last_committed_height[n]
          /\ \E walked \in {TRUE, FALSE} :
                log' = [log EXCEPT ![n] = [i \in Heights |->
                    IF i = h THEN PES
                    ELSE IF walked /\ output[h] = PES
                            /\ last_committed_height[n] < i /\ i < h
                    THEN OPT ELSE @[i]]]
          /\ last_committed_height' = [last_committed_height EXCEPT ![n] = h]
          /\ ended' = [ended EXCEPT ![n] = TRUE]
    /\ UNCHANGED <<height, stored, votes, fb, orphan, tag, prepares, fast, input, output>>

Next ==
    \/ \E n \in Node, h \in Heights :
          \/ advance_height(n, h) \/ process_opt_block(n, h)
          \/ handle_fallback_vote(n, h)
          \/ PreparePes(n, h) \/ PrepareOpt(n, h) \/ FastCommit(n, h)
          \/ HaltOpt(n, h) \/ HaltPes(n, h)
    \/ \E h \in Heights : SmvbaOutput(h)

Spec == Init /\ [][Next]_vars
-----------------------------------------------------------------------------
TypeOK ==
    /\ height \in [Node -> 1..MaxHeight + 1]
    /\ last_committed_height \in [Node -> 0..MaxHeight]
    /\ stored \in [Node -> 0..MaxHeight]
    /\ log \in [Node -> [Heights -> {None, OPT, PES}]]
    /\ votes \in [Heights -> SUBSET Node]
    /\ fb \in [Node -> [Heights -> Dead..fallback_length + 1]]
    /\ orphan \subseteq Node \X Heights
    /\ tag \in [Node -> SUBSET Heights] /\ fast \in [Node -> SUBSET Heights]
    /\ prepares \subseteq Node \X Heights \X {OPT, PES}
    /\ input \in [Node -> [Heights -> {None, OPT, PES}]]
    /\ output \in [Heights -> {None, OPT, PES, Orphan}]
    /\ halted \in [Node -> SUBSET Heights] /\ ended \in [Node -> BOOLEAN]

(* Where the OPT prepares of a height reached a quorum at some node, no      *)
(* node commits a PES block that extends the optimistic chain, even though *)
(* terminate_smvba makes nodes forget what they prepared.  PES blocks that *)
(* extend genesis are not covered: see PathsAgree.                         *)
FastCommitFinal ==
    \A n, m \in Node : \A h \in fast[n] : log[m][h] = PES => output[h] = Orphan

(* No node commits twice at one height, whichever two of the three commit   *)
(* rules fire one after the other.                                         *)
CommittedStays ==
    [][\A n \in Node, h \in Heights : log[n][h] # None => log'[n][h] = log[n][h]]_vars

(* All nodes commit the same block at a height, as the end-to-end test of   *)
(* the protocol asserts.                                                   *)
PathsAgree ==
    \A n, m \in Node, h \in Heights :
        {log[n][h], log[m][h]} # {OPT, PES}
=============================================================================
