------------------------------- MODULE Smvba -------------------------------
(***************************************************************************)
(* One sMVBA instance: the handlers of core.rs between invoke_smvba and    *)
(* process_par_out, for one height of one epoch, among correct nodes that  *)
(* stay at that height.  In a round every node broadcasts its value in an  *)
(* SPB (proposal, lock, finish); once enough nodes are done a coin names   *)
(* the leader of the round, and nodes that miss the leader's finish        *)
(* prevote and vote on whether it was locked.                              *)
(*                                                                         *)
(* What a coin will say is fixed beforehand (Leader), so that only the     *)
(* leader's SPB is followed; those of other proposers may finish whenever  *)
(* their author has proposed.  A value is its author.  Messages are late   *)
(* or never arrive, in any order.  A threshold is counted in one step:     *)
(* the messages below it change nothing.  A message counted before         *)
(* update_smvba_state clears a round's sets may be counted again after.    *)
(***************************************************************************)
EXTENDS Committee

CONSTANTS
    Node,
    Crashed,     \* nodes that never take part
    Late,        \* nodes that have not invoked the instance when the others have
    MaxRound,    \* bound on the rounds
    Coins,       \* possible outcomes of the coins, one function from rounds to nodes each
    Reach        \* Reach[r]: nodes that the SPB messages of the leader of round r reach

Round == 1..MaxRound
Yes == "Yes"
No == "No"
None == "none"

ASSUME SmvbaAssumption ==
    /\ IsFiniteSet(Node) /\ Cardinality(Node) % 3 = 1
    /\ Crashed \subseteq Node /\ Late \subseteq Node
    /\ MaxRound \in Nat \ {0}
    /\ Coins \subseteq [Round -> Node] /\ Reach \in [Round -> SUBSET Node]

VARIABLES
    Leader,      \* Leader[r]: get_coin_leader once the coin of round r is known
    cur,         \* smvba_current_round
    proposed,    \* per round, the nodes with an entry in spb_proposes
    ready,       \* rounds whose leader proposed while a quorum could still vote
    locks,       \* per round, the nodes with the leader's lock in spb_locks
    finishs,     \* per round, the nodes with the leader's finish in spb_finishs
    dones,       \* per round, the nodes that sent MDoneAndShare
    coin,        \* per round, the nodes that know the coin
    prevotes,    \* MPreVote messages <<author, round, tag>>
    flag,        \* per node and round: Yes for smvba_y_flag, No for smvba_n_flag
    votes,       \* MVote messages <<author, round, tag>>
    counted,     \* <<node, round>>: its own MVote is in smvba_votes
    advanced,    \* <<node, round>>: a quorum of votes made the node leave the round
    halts,       \* rounds with an MHalt message
    output,      \* per node, the round whose leader's block it output, or 0
    early        \* rounds whose leader finished before any coin (history)

vars == <<Leader, cur, proposed, ready, locks, finishs, dones, coin, prevotes, flag,
          votes, counted, advanced, halts, output, early>>
spb == <<ready, locks, finishs, early>>

quorum == quorum_threshold(Cardinality(Node))
coins == random_coin_threshold(Cardinality(Node))

(* Nodes still in the epoch: a PES output ends it. *)
Live == {n \in Node \ Crashed : output[n] = 0}

PreVoters(r, t) == {m \in Node : <<m, r, t>> \in prevotes}
Voters(r, t) == {m \in Node : <<m, r, t>> \in votes}

Init ==
    /\ Leader \in Coins
    /\ cur = [n \in Node |-> 1]
    /\ proposed = [r \in Round |-> IF r = 1 THEN Node \ (Crashed \cup Late) ELSE {}]
    /\ ready = {r \in Round : Leader[r] \in proposed[r]
                              /\ Cardinality(Reach[r] \ Crashed) >= quorum}
    /\ early = {}
    /\ locks = [r \in Round |-> {}] /\ finishs = [r \in Round |-> {}]
    /\ dones = [r \in Round |-> {}] /\ coin = [r \in Round |-> {}]
    /\ prevotes = {} /\ votes = {} /\ counted = {} /\ advanced = {} /\ halts = {}
    /\ flag = [n \in Node |-> [r \in Round |-> None]]
    /\ output = [n \in Node |-> 0]
-----------------------------------------------------------------------------
(* broadcast_pes_propose of the INIT phase. *)
Propose(n, r) ==
    /\ proposed' = [proposed EXCEPT ![r] = @ \cup {n}]
    /\ ready' = IF n = Leader[r] /\ Cardinality(Live \cap Reach[r]) >= quorum
                THEN ready \cup {r} ELSE ready

(* Once per height, in the round the node has reached meanwhile. *)
invoke_smvba(n) ==
    /\ n \in Live /\ \A r \in Round : n \notin proposed[r]
    /\ Propose(n, cur[n])
    /\ UNCHANGED <<Leader, cur, locks, finishs, dones, coin, prevotes, flag, votes, counted,
                   advanced, halts, output, early>>

(* handle_spb_vote at the leader: votes on its proposal make the lock,      *)
(* votes on the lock make the finish.  A node votes on the lock when it    *)
(* stores it.                                                              *)
handle_spb_vote_early(r) ==
    /\ Leader[r] \in Live /\ r \in ready
    /\ \/ /\ locks[r] = {}
          /\ locks' = [locks EXCEPT ![r] = {Leader[r]}]
          /\ UNCHANGED <<finishs, early>>
       \/ /\ finishs[r] = {} /\ locks[r] # {}
          /\ finishs' = [finishs EXCEPT ![r] = {Leader[r]}]
          /\ early' = IF coin[r] = {} THEN early \cup {r} ELSE early
          /\ UNCHANGED locks
    /\ UNCHANGED <<Leader, cur, proposed, ready, dones, coin, prevotes, flag, votes, counted,
                   advanced, halts, output>>
handle_spb_vote(r) ==
    /\ Leader[r] \in Live /\ r \in ready
    /\ \/ /\ locks[r] = {}
          /\ locks' = [locks EXCEPT ![r] = {Leader[r]}]
          /\ UNCHANGED <<finishs, early>>
       \/ /\ finishs[r] = {} /\ Cardinality(locks[r]) >= quorum
          /\ finishs' = [finishs EXCEPT ![r] = {Leader[r]}]
          /\ early' = IF coin[r] = {} THEN early \cup {r} ELSE early
          /\ UNCHANGED locks
    /\ UNCHANGED <<Leader, cur, proposed, ready, dones, coin, prevotes, flag, votes, counted,
                   advanced, halts, output>>

(* process_spb_propose of the leader's lock. *)
process_spb_propose(n, r) ==
    /\ n \in (Live \cap Reach[r]) \ locks[r] /\ locks[r] # {}
    /\ locks' = [locks EXCEPT ![r] = @ \cup {n}]
    /\ UNCHANGED <<Leader, cur, proposed, ready, finishs, dones, coin, prevotes, flag, votes,
                   counted, advanced, halts, output, early>>

(* handle_spb_finish of the leader's finish, kept for the coin. *)
handle_spb_finish(n, r) ==
    /\ n \in (Live \cap Reach[r]) \ (finishs[r] \cup coin[r]) /\ finishs[r] # {}
    /\ finishs' = [finishs EXCEPT ![r] = @ \cup {n}]
    /\ UNCHANGED <<Leader, cur, proposed, ready, locks, dones, coin, prevotes, flag, votes,
                   counted, advanced, halts, output, early>>

(* handle_spb_finish of the finish that makes a quorum. *)
invoke_done_and_share(n, r) ==
    /\ n \in Live \ dones[r]
    /\ Cardinality({m \in proposed[r] : m = Leader[r] => n \in finishs[r]}) >= quorum
    /\ dones' = [dones EXCEPT ![r] = @ \cup {n}]
    /\ UNCHANGED <<Leader, cur, proposed, ready, locks, finishs, coin, prevotes, flag, votes,
                   counted, advanced, halts, output, early>>

(* handle_smvba_mvote of the node's own vote, cast under no flag. *)
CastVote(n, r, t) ==
    /\ flag' = [flag EXCEPT ![n][r] = t]
    /\ votes' = votes \cup {<<n, r, t>>}
    /\ counted' = counted \cup {<<n, r>>}

(* handle_smvba_halt: dropped unless the coin is known. *)
Output_next(n, r, knows) ==
    output' = [output EXCEPT ![n] = IF @ = 0 /\ n \in knows THEN r + 1 ELSE @]
Output(n, r, knows) ==
    output' = [output EXCEPT ![n] = IF @ = 0 /\ n \in knows THEN r ELSE @]

(* handle_smvba_done and handle_smvba_rs of the share that reveals the      *)
(* coin: a node that has not sent its own does so first.  With the finish  *)
(* of the leader the node halts; else it prevotes, and a Yes is its vote.  *)
handle_smvba_rs(n, r) ==
    /\ n \in Live \ coin[r]
    /\ Cardinality(dones[r] \ {n}) >= (IF n \in dones[r] THEN coins - 1 ELSE coins)
    /\ dones' = [dones EXCEPT ![r] = @ \cup {n}]
    /\ coin' = [coin EXCEPT ![r] = @ \cup {n}]
    /\ \/ /\ n \in finishs[r]
          /\ halts' = halts \cup {r}
          /\ Output(n, r, coin'[r])
          /\ UNCHANGED <<prevotes, flag, votes, counted>>
       \/ /\ n \in locks[r] \ finishs[r]
          /\ prevotes' = prevotes \cup {<<n, r, Yes>>}
          /\ IF flag[n][r] = None THEN CastVote(n, r, Yes)
                                  ELSE UNCHANGED <<flag, votes, counted>>
          /\ UNCHANGED <<halts, output>>
       \/ /\ n \notin locks[r] \cup finishs[r]
          /\ prevotes' = prevotes \cup {<<n, r, No>>}
          /\ UNCHANGED <<halts, output, flag, votes, counted>>
    /\ UNCHANGED <<Leader, cur, proposed, spb, advanced>>

(* A first Yes prevote, or a quorum of No prevotes. *)
handle_smvba_prevote(n, r) ==
    /\ n \in Live /\ flag[n][r] = None
    /\ \/ PreVoters(r, Yes) # {} /\ CastVote(n, r, Yes)
       \/ Cardinality(PreVoters(r, No)) >= quorum /\ CastVote(n, r, No)
    /\ UNCHANGED <<Leader, cur, proposed, spb, dones, coin, prevotes, advanced, halts, output>>

(* handle_smvba_mvote: the vote that completes a quorum of Yes. *)
VotedYes(n, r) ==
    /\ n \in Live /\ Cardinality(Voters(r, Yes)) >= quorum
    /\ r \notin halts \/ n \in coin[r]
    /\ halts' = halts \cup {r}
    /\ Output(n, r, coin[r])
    /\ UNCHANGED <<Leader, cur, proposed, spb, dones, coin, prevotes, flag, votes, counted,
                   advanced>>

(* handle_smvba_mvote, a quorum of votes that are not all Yes, and          *)
(* smvba_round_advance.                                                    *)
smvba_round_advance(n, r) ==
    /\ n \in Live /\ r < MaxRound /\ <<n, r>> \notin advanced
    /\ \E s \in SUBSET (Voters(r, Yes) \cup Voters(r, No)) :
          /\ Cardinality(s) = quorum /\ s \cap Voters(r, No) # {}
          /\ <<n, r>> \in counted => n \in s
    /\ advanced' = advanced \cup {<<n, r>>}
    /\ cur' = [cur EXCEPT ![n] = r + 1]
    /\ flag' = [flag EXCEPT ![n][r + 1] = None]
    /\ counted' = counted \ {<<n, r + 1>>}
    /\ IF n \in proposed[1] THEN Propose(n, r + 1) ELSE UNCHANGED <<proposed, ready>>
    /\ UNCHANGED <<Leader, locks, finishs, early, dones, coin, prevotes, votes, halts, output>>

handle_smvba_halt(n, r) ==
    /\ n \in Live \cap coin[r] /\ r \in halts
    /\ Output(n, r, coin[r])
    /\ UNCHANGED <<Leader, cur, proposed, spb, dones, coin, prevotes, flag, votes, counted,
                   advanced, halts>>

Next ==
    \/ \E n \in Node : invoke_smvba(n)
    \/ \E r \in Round : handle_spb_vote(r)
    \/ \E n \in Node, r \in Round :
          \/ process_spb_propose(n, r) \/ handle_spb_finish(n, r)
          \/ invoke_done_and_share(n, r) \/ handle_smvba_rs(n, r)
          \/ handle_smvba_prevote(n, r)
          \/ VotedYes(n, r) \/ smvba_round_advance(n, r) \/ handle_smvba_halt(n, r)

Spec == Init /\ [][Next]_vars
-----------------------------------------------------------------------------
TypeOK ==
    /\ Leader \in Coins /\ ready \subseteq Round /\ early \subseteq Round
    /\ cur \in [Node -> Round]
    /\ proposed \in [Round -> SUBSET Node] /\ locks \in [Round -> SUBSET Node]
    /\ finishs \in [Round -> SUBSET Node] /\ dones \in [Round -> SUBSET Node]
    /\ coin \in [Round -> SUBSET Node]
    /\ prevotes \subseteq Node \X Round \X {Yes, No}
    /\ votes \subseteq Node \X Round \X {Yes, No}
    /\ flag \in [Node -> [Round -> {None, Yes, No}]]
    /\ counted \subseteq Node \X Round /\ advanced \subseteq Node \X Round
    /\ halts \subseteq Round /\ output \in [Node -> 0..MaxRound]

(* A leader that finished before its coin was revealed wins its round: no    *)
(* node votes No, none goes on and no block of a later round is output.    *)
EarlyFinishDecides ==
    \A r \in early :
        /\ Voters(r, No) = {}
        /\ \A n \in Node : <<n, r>> \notin advanced /\ output[n] \in {0} \cup 1..r

(* All nodes output the same block, as the end-to-end test asserts of what  *)
(* they commit.                                                            *)
Agreement ==
    \A n, m \in Node : output[n] # 0 /\ output[m] # 0
                       => Leader[output[n]] = Leader[output[m]]
=============================================================================
