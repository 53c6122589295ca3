------------------------------ MODULE OptPath ------------------------------
(***************************************************************************)
(* The optimistic path of consensus/src/core.rs (Protocol::HotStuff, and   *)
(* one epoch of Protocol::HotStuffAndSMVBA without its pessimistic path):  *)
(* two-chain HotStuff with a window of leaders per height.                 *)
(*                                                                         *)
(* A block stands for its digest and a QC for the block it certifies:      *)
(* QC[b] is the parent of b.  What a correct node sends stays available    *)
(* for delivery, in any order, any number of times or never; a faulty      *)
(* node may sign any block and any vote.                                   *)
(*                                                                         *)
(* A node runs one handler at a time and handlers share nothing but the    *)
(* messages, so handlers run one after the other.  A handler that votes or *)
(* assembles a QC goes on with a call of its own: cont is that call, and   *)
(* no handler starts anywhere before it has been made.                     *)
(***************************************************************************)
EXTENDS Committee

CONSTANTS
    N,          \* number of authorities
    Window,     \* Parameters.leader_window
    Faulty,     \* authorities that need not follow the code
    Slow,       \* authorities whose mempool may miss a payload
    Genesis,    \* Block::genesis(), certified by QC::genesis()
    Block,      \* every other block anyone may create; it bounds the heights
    Author, Height, QC  \* the fields of a block, as functions

Node == 0..N-1
Correct == Node \ Faulty
Tree == Block \cup {Genesis}

(* A block and its ancestors, genesis left out: the walk of Core::commit. *)
Chain[b \in Tree] == IF b = Genesis THEN {} ELSE {b} \cup Chain[QC[b]]

(* N = 3f + 1 authorities of which at most f are faulty. *)
ASSUME CommitteeAssumption ==
    /\ N \in Nat /\ N % 3 = 1 /\ N > 1
    /\ Faulty \subseteq Node
    /\ 3 * Cardinality(Faulty) < N
    /\ Slow \subseteq Node
    /\ Window \in Nat

ASSUME BlockAssumption ==
    /\ Genesis \notin Block
    /\ Author \in [Block -> Node]
    /\ Height \in [Tree -> Nat] /\ \A b \in Tree : Height[b] = 0 <=> b = Genesis
    /\ QC \in [Tree -> Tree] /\ QC[Genesis] = Genesis

(* Digests do not loop, so the walk to genesis is defined for every block. *)
ASSUME ChainAssumption ==
    \A b \in Tree : Chain[b] = IF b = Genesis THEN {} ELSE {b} \cup Chain[QC[b]]

VARIABLES
    height, high_qc, last_voted_height, last_committed_height,
    timer,        \* TRUE: the backup leader's timer is armed
    store,        \* blocks written to the store
    payloadWait,  \* blocks suspended in the mempool, until their payload arrives
    parentWait,   \* blocks suspended in the synchronizer, until their parent arrives
    aggregator,   \* votes <<author, block>> in hs_votes_aggregators
    log,          \* blocks committed so far
    panicked,     \* TRUE: the consensus task is dead
    proposals,    \* HsPropose blocks broadcast by correct nodes
    votes,        \* HSVote messages <<author, block>> sent by correct nodes
    cont          \* the call the running handler makes next

nodeVars == <<height, high_qc, last_voted_height, last_committed_height, timer,
              store, payloadWait, parentWait, aggregator, log, panicked>>
vars == <<nodeVars, proposals, votes, cont>>

Idle == [fn |-> "idle"]
Call(fn, n, b) == [fn |-> fn, node |-> n, arg |-> b]

LeaderIndex(n, h) == index_as_leader(N, Window, n, h)
IsLeader(n, h) == LeaderIndex(n, h) # NotLeader

(* Signatures cannot be forged: a correct author sent what bears its name. *)
Proposed(b) == Author[b] \in Faulty \/ b \in proposals
Voted(u, b) == u \in Faulty \/ <<u, b>> \in votes

(* QC::verify (Block::verify skips it for the genesis QC). *)
Certified(b) == Cardinality({u \in Node : Voted(u, b)}) >= quorum_threshold(N)
ValidQC_unchecked(b) == b \in Tree
ValidQC(b) == b = Genesis \/ Certified(b)

-----------------------------------------------------------------------------
(* State after booting (Core::new, the head of Core::run): the 0-th leader *)
(* of height 1 is about to propose, the other leaders have armed timers.   *)
Init ==
    /\ height = [n \in Node |-> 1]
    /\ high_qc = [n \in Node |-> Genesis]
    /\ last_voted_height = [n \in Node |-> 0]
    /\ last_committed_height = [n \in Node |-> 0]
    /\ timer = [n \in Node |-> LeaderIndex(n, 1) > 0]
    /\ store = [n \in Node |-> {}]
    /\ payloadWait = [n \in Node |-> {}]
    /\ parentWait = [n \in Node |-> {}]
    /\ aggregator = [n \in Node |-> {}]
    /\ log = [n \in Node |-> {}]
    /\ panicked = [n \in Node |-> FALSE]
    /\ proposals = {}
    /\ votes = {}
    /\ \/ /\ \E n \in Correct : LeaderIndex(n, 1) = 0 /\ cont = Call("opt_propose", n, Genesis)
       \/ /\ \A n \in Correct : LeaderIndex(n, 1) # 0
          /\ cont = Idle

(* Core::process_qc on a QC for b, the aggregator holding `held`:          *)
(* advance_height (cleanup_hs_vote takes the old height), update_high_qc.  *)
process_qc(n, b, held) ==
    /\ height' = [height EXCEPT ![n] = IF Height[b] < @ THEN @ ELSE Height[b] + 1]
    /\ aggregator' = [aggregator EXCEPT ![n] =
           IF Height[b] < height[n] THEN held ELSE {v \in held : Height[v[2]] > height[n]}]
    /\ high_qc' = [high_qc EXCEPT ![n] = IF Height[b] > Height[@] THEN b ELSE @]

(* Synchronizer::get_parent_block finds the parent of b. *)
HasParent_unchecked(n, b) == TRUE
HasParent(n, b) == QC[b] \in store[n] \cup {Genesis}

(* The heights of the last two ancestors and of b, or a first block. *)
Consecutive(b) ==
    \/ QC[b] = Genesis
    \/ Height[QC[QC[b]]] + 1 = Height[QC[b]] /\ Height[QC[b]] + 1 = Height[b]

(* b0 of b0 <- |qc0; b1| <- |qc1; b|, the block that processing b commits. *)
GrandParent_self(b) == b
GrandParent(b) == QC[QC[b]]

(* Core::commit(b0) walks the ancestors above the last committed height. *)
Committable_from_last(n, b0) ==
    {c \in Chain[b0] \cup {Genesis} : Height[c] >= last_committed_height[n]}
Committable(n, b0) == {c \in Chain[b0] : Height[c] > last_committed_height[n]}

(* Core::make_opt_vote, called when b is at the node's height h. *)
make_opt_vote_twice(n, b, h) ==
    /\ Height[b] = h
    /\ Height[QC[b]] + 1 = Height[b]
make_opt_vote(n, b, h) ==
    /\ Height[b] = h
    /\ Height[b] > last_voted_height[n]
    /\ Height[QC[b]] + 1 = Height[b]

(* Core::process_opt_block when the parent of b is missing: the            *)
(* synchronizer keeps b.                                                   *)
SuspendBlock(n, b) ==
    /\ ~HasParent(n, b)
    /\ parentWait' = [parentWait EXCEPT ![n] = @ \cup {b}]
    /\ cont' = Idle
    /\ UNCHANGED <<store, last_voted_height, last_committed_height, log, panicked, votes>>

(* The rest of process_opt_block at height h: store b, commit its           *)
(* grandparent, vote for b; a leader of the next height then handles its   *)
(* own vote.  That get_ancestors finds the grandparent, as it expects to,  *)
(* is the property AncestorsDelivered.                                     *)
StoreCommitVote(n, b, h) ==
    LET b0 == GrandParent(b)
        commits == Consecutive(b) /\ Height[b0] > last_committed_height[n]
        voting == Consecutive(b) /\ make_opt_vote(n, b, h)
    IN  /\ HasParent(n, b)
        /\ store' = [store EXCEPT ![n] = @ \cup {b}]
        /\ log' = IF commits THEN [log EXCEPT ![n] = @ \cup Committable(n, b0)] ELSE log
        /\ last_committed_height' =
               IF commits THEN [last_committed_height EXCEPT ![n] = Height[b0]]
               ELSE last_committed_height
        /\ last_voted_height' =
               IF voting THEN [last_voted_height EXCEPT ![n] = Height[b]] ELSE last_voted_height
        /\ votes' = IF voting THEN votes \cup {<<n, b>>} ELSE votes
        /\ cont' = IF voting /\ IsLeader(n, h + 1)
                   THEN Call("handle_opt_vote", n, b) ELSE Idle
        /\ UNCHANGED panicked

(* Some leader of b's height proposed: the other leaders stop their timers. *)
StopTimer_never(n, b) == UNCHANGED timer
StopTimer(n, b) ==
    timer' = [timer EXCEPT ![n] = IF IsLeader(n, Height[b]) THEN FALSE ELSE @]

(* Core::process_opt_block, once the caller has settled the node's height. *)
process_opt_block(n, b) ==
    /\ StopTimer(n, b)
    /\ \/ SuspendBlock(n, b)
       \/ StoreCommitVote(n, b, height'[n]) /\ UNCHANGED parentWait

(* HsPropose or SyncReply: leader check, Block::verify, process_qc, then   *)
(* the mempool either has the payload or suspends the block.               *)
handle_opt_proposal(n, b) ==
    /\ cont = Idle /\ ~panicked[n]
    /\ Proposed(b)
    /\ IsLeader(Author[b], Height[b])
    /\ ValidQC(QC[b])
    /\ process_qc(n, QC[b], aggregator[n])
    /\ \/ /\ process_opt_block(n, b)
          /\ UNCHANGED payloadWait
       \/ /\ n \in Slow
          /\ payloadWait' = [payloadWait EXCEPT ![n] = @ \cup {b}]
          /\ UNCHANGED <<timer, parentWait, store, last_voted_height, last_committed_height,
                         log, panicked, votes, cont>>
    /\ UNCHANGED proposals

(* HsLoopBack from the mempool: the payload arrived. *)
PayloadLoopBack(n, b) ==
    /\ cont = Idle /\ ~panicked[n]
    /\ b \in payloadWait[n]
    /\ payloadWait' = [payloadWait EXCEPT ![n] = @ \ {b}]
    /\ UNCHANGED <<height, high_qc, aggregator, proposals>>
    /\ process_opt_block(n, b)

(* HsLoopBack from the synchronizer: the parent is in the store, so the     *)
(* block is not suspended again.                                           *)
ParentLoopBack(n, b) ==
    /\ cont = Idle /\ ~panicked[n]
    /\ b \in parentWait[n] /\ QC[b] \in store[n]
    /\ parentWait' = [parentWait EXCEPT ![n] = @ \ {b}]
    /\ UNCHANGED <<height, high_qc, aggregator, payloadWait, proposals>>
    /\ StopTimer(n, b)
    /\ StoreCommitVote(n, b, height[n])

(* The mempool drops the waiter of a block at or below a committed height   *)
(* (the Cleanup that Core::commit sends reaches it later).                  *)
PayloadCancel(n, b) ==
    /\ cont = Idle
    /\ b \in payloadWait[n] /\ Height[b] <= last_committed_height[n]
    /\ payloadWait' = [payloadWait EXCEPT ![n] = @ \ {b}]
    /\ UNCHANGED <<height, high_qc, last_voted_height, last_committed_height, timer,
                   store, parentWait, aggregator, log, panicked, proposals, votes, cont>>

(* Core::handle_opt_vote for a vote of u on b; a repeated vote is an error  *)
(* that changes nothing.                                                   *)
handle_opt_vote(n, u, b) ==
    LET held == aggregator[n] \cup {<<u, b>>}
        weight == Cardinality({w \in Node : <<w, b>> \in held})
    IN  /\ Height[b] >= height[n]
        /\ IsLeader(n, Height[b] + 1)
        /\ <<u, b>> \notin aggregator[n]
        /\ IF weight >= quorum_threshold(N)
           THEN /\ process_qc(n, b, held)
                /\ IF LeaderIndex(n, Height[b] + 1) = 0
                   THEN /\ cont' = Call("opt_propose", n, Genesis)
                        /\ UNCHANGED timer
                   ELSE /\ timer' = [timer EXCEPT ![n] = TRUE]
                        /\ cont' = Idle
           ELSE /\ aggregator' = [aggregator EXCEPT ![n] = held]
                /\ cont' = Idle
                /\ UNCHANGED <<height, high_qc, timer>>
        /\ UNCHANGED <<last_voted_height, last_committed_height, store, payloadWait,
                       parentWait, log, panicked, proposals, votes>>

(* An HSVote of another node is delivered. *)
ReceiveVote(n, u, b) ==
    /\ cont = Idle /\ ~panicked[n]
    /\ u # n /\ Voted(u, b)
    /\ handle_opt_vote(n, u, b)

(* process_opt_block handles the node's own vote. *)
OwnVote ==
    /\ cont.fn = "handle_opt_vote"
    /\ handle_opt_vote(cont.node, cont.node, cont.arg)

(* generate_proposal(height, 0, high_qc, OPT), any payload.  Where Block    *)
(* holds no such block the bound is reached and the node proposes nothing. *)
NewBlocks(n) ==
    {b \in Block : Author[b] = n /\ Height[b] = height[n] /\ QC[b] = high_qc[n]}

(* Core::opt_propose: unwrap fails outside the window; otherwise the new    *)
(* block extends high_qc and the node processes it itself.                 *)
opt_propose(n) ==
    /\ \/ /\ ~IsLeader(n, height[n])
          /\ panicked' = [panicked EXCEPT ![n] = TRUE]
          /\ cont' = Idle
          /\ UNCHANGED <<timer, store, parentWait, last_voted_height,
                         last_committed_height, log, proposals, votes>>
       \/ /\ IsLeader(n, height[n]) /\ NewBlocks(n) = {}
          /\ cont' = Idle
          /\ UNCHANGED <<timer, store, parentWait, last_voted_height,
                         last_committed_height, log, panicked, proposals, votes>>
       \/ /\ IsLeader(n, height[n])
          /\ \E b \in NewBlocks(n) :
                /\ proposals' = proposals \cup {b}
                /\ UNCHANGED height
                /\ process_opt_block(n, b)
    /\ UNCHANGED <<height, high_qc, payloadWait, aggregator>>

(* Booting or a new QC makes the 0-th leader propose at once. *)
ProposeAtOnce ==
    /\ cont.fn = "opt_propose"
    /\ opt_propose(cont.node)

(* The timer of a backup leader elapses. *)
Timeout(n) ==
    /\ cont = Idle /\ ~panicked[n]
    /\ timer[n]
    /\ opt_propose(n)

(* Delivering b to n again would change nothing. *)
Settled(n, b) == b \in store[n] /\ ~(timer[n] /\ IsLeader(n, Height[b]))

(* A suspended block comes back. *)
LoopBack(n) ==
    \/ \E b \in payloadWait[n] : PayloadLoopBack(n, b)
    \/ \E b \in parentWait[n] : ParentLoopBack(n, b)

(* The receiving branches of the select! loop of Core::run. *)
Receive(n) ==
    \/ \E b \in {c \in Block : Proposed(c) /\ ~Settled(n, c)} : handle_opt_proposal(n, b)
    \/ LoopBack(n)
    \/ \E v \in votes \cup (Faulty \X Block) : ReceiveVote(n, v[1], v[2])

(* What happens within a node. *)
LocalEvent(n) ==
    \/ \E b \in payloadWait[n] : PayloadCancel(n, b)
    \/ Timeout(n)

Next ==
    \/ \E n \in Correct :
          \/ Receive(n)
          \/ LocalEvent(n)
    \/ OwnVote
    \/ ProposeAtOnce

Spec == Init /\ [][Next]_vars

(* What correct nodes send arrives. *)
ReceiveCorrect(n) ==
    \/ \E b \in {c \in proposals : ~Settled(n, c)} : handle_opt_proposal(n, b)
    \/ LoopBack(n)
    \/ \E v \in votes : ReceiveVote(n, v[1], v[2])

(* The steps of the others when the faulty nodes have crashed. *)
SilentNext ==
    \/ \E n \in Correct :
          \/ ReceiveCorrect(n)
          \/ LocalEvent(n)
    \/ OwnVote
    \/ ProposeAtOnce

(* A running handler ends, messages between correct nodes arrive, payloads  *)
(* are found, armed timers elapse.                                         *)
Fairness ==
    /\ WF_vars(OwnVote) /\ WF_vars(ProposeAtOnce)
    /\ \A n \in Correct : WF_vars(ReceiveCorrect(n)) /\ WF_vars(Timeout(n))

FairSpec == Init /\ [][SilentNext]_vars /\ Fairness
-----------------------------------------------------------------------------
TypeOK ==
    /\ height \in [Node -> Nat \ {0}]
    /\ high_qc \in [Node -> Tree]
    /\ last_voted_height \in [Node -> Nat]
    /\ last_committed_height \in [Node -> Nat]
    /\ timer \in [Node -> BOOLEAN]
    /\ store \in [Node -> SUBSET Block]
    /\ payloadWait \in [Node -> SUBSET Block]
    /\ parentWait \in [Node -> SUBSET Block]
    /\ aggregator \in [Node -> SUBSET (Node \X Block)]
    /\ log \in [Node -> SUBSET Block]
    /\ panicked \in [Node -> BOOLEAN]
    /\ proposals \subseteq Block
    /\ votes \subseteq Node \X Block
    /\ \/ cont = Idle
       \/ cont \in [fn : {"opt_propose", "handle_opt_vote"}, node : Correct, arg : Tree]

(* The certificate of a height is unique: last_voted_height and quorum     *)
(* intersection let at most one block per height gather a QC.              *)
OneCertifiedPerHeight ==
    \A b, c \in {d \in Block : Certified(d)} : Height[b] = Height[c] => b = c

(* Any two nodes that commit a block at the same height commit the same    *)
(* block, whichever block each of them was processing.                     *)
CommitAgreement ==
    \A m, n \in Correct : \A b \in log[m], c \in log[n] : Height[b] = Height[c] => b = c

(* The chain below a certificate skips no height and is certified all along, *)
(* although leaders may sign blocks that extend any older certificate.      *)
CertifiedChain ==
    \A b \in Block : Certified(b) =>
        /\ {Height[c] : c \in Chain[b]} = 1..Height[b]
        /\ \A c \in Chain[b] : Certified(c)

(* A committed block is final: every certificate of its height or above is *)
(* for the block itself or a descendant of it, so no later leader, however *)
(* stale its high_qc, can extend another branch.                           *)
CommittedIsFinal ==
    \A n \in Correct : \A c \in log[n] : \A b \in Block :
        Certified(b) /\ Height[b] >= Height[c] => c \in Chain[b]

(* A node's log has no gap: it holds one block per height up to            *)
(* last_committed_height, each the parent of the next.                     *)
LogIsChain ==
    \A n \in Correct :
        /\ {Height[b] : b \in log[n]} = 1..last_committed_height[n]
        /\ \A b \in log[n] : QC[b] \in log[n] \cup {Genesis}

(* "We should have all ancestors of delivered blocks": the grandparent     *)
(* that get_ancestors expects is in the store whenever the parent is.      *)
AncestorsDelivered ==
    \A n \in Correct : \A b \in store[n] : QC[b] \in store[n] \cup {Genesis}

(* A correct node never proposes two blocks at one height, whichever of    *)
(* booting, a QC and its timer made it propose.                            *)
OneProposalPerHeight ==
    \A b, c \in proposals : Author[b] = Author[c] /\ Height[b] = Height[c] => b = c

(* A node that proposes is one of the leaders of its height: the unwrap in  *)
(* opt_propose succeeds whenever a timer elapses.                          *)
ProposerIsLeader == \A n \in Correct : ~panicked[n]

(* Every correct node commits, whatever the timers do and although the      *)
(* first leader may stay silent: nodes that are not split between two       *)
(* proposals of one height need no other leader than the window's.         *)
Progress == <>(\A n \in Correct : log[n] # {})
-----------------------------------------------------------------------------
(* The inductive invariant of the safety theorems, one conjunct per idea.  *)

(* Votes: the ones a node holds or is about to count were sent, and         *)
(* last_voted_height is never behind a vote already sent.                  *)
VotesSent ==
    /\ \A n \in Correct : \A v \in aggregator[n] : Voted(v[1], v[2])
    /\ \A v \in votes : v[1] \in Correct /\ Height[v[2]] <= last_voted_height[v[1]]
    /\ cont.fn = "handle_opt_vote" => <<cont.node, cont.arg>> \in votes

(* A correct node votes once per height. *)
OneVotePerHeight ==
    \A v, w \in votes : v[1] = w[1] /\ Height[v[2]] = Height[w[2]] => v[2] = w[2]

(* A voter has stored the block, which closes a chain without a gap. *)
VotesExtend ==
    \A v \in votes :
        /\ v[2] \in store[v[1]]
        /\ {Height[c] : c \in Chain[v[2]]} = 1..Height[v[2]]

(* Whatever a node keeps carries a valid QC. *)
QCsValid ==
    \A n \in Correct :
        /\ ValidQC(high_qc[n])
        /\ \A b \in store[n] \cup payloadWait[n] \cup parentWait[n] : ValidQC(QC[b])

(* A stored block has its ancestors stored, and they are certified. *)
StoreClosed ==
    \A n \in Correct : \A b \in store[n] :
        /\ Chain[b] \subseteq store[n]
        /\ \A c \in Chain[b] : Chain[c] \subseteq Chain[b] /\ (c = b \/ Certified(c))

(* A log is the chain of a certified block at last_committed_height. *)
LogCertified ==
    \A n \in Correct : \E b \in Tree :
        /\ ValidQC(b) /\ Height[b] = last_committed_height[n]
        /\ log[n] = Chain[b]

IInv ==
    /\ TypeOK /\ VotesSent /\ OneVotePerHeight /\ VotesExtend
    /\ QCsValid /\ StoreClosed /\ LogCertified
=============================================================================
