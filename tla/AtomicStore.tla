---------------------------- MODULE AtomicStore ----------------------------
(***************************************************************************)
(* What store/src/lib.rs promises its callers: a map whose operations take *)
(* effect one at a time, in the order the calls were issued, and a         *)
(* notify_read that is answered by the value it finds or, failing that, by *)
(* the first write to its key.                                             *)
(***************************************************************************)
CONSTANTS
    Key, Value,
    Reader, Waiter,   \* calls of Store::read and of Store::notify_read
    None              \* what read answers for an unknown key

VARIABLES
    mem,      \* the map
    answer    \* per call: NotCalled, WaitsFor(k), Dropped or the value answered

vars == <<mem, answer>>

NotCalled == <<"not called">>
Dropped == <<"dropped">>
WaitsFor(k) == <<"waits for", k>>

Init ==
    /\ mem \in [Key -> Value \cup {None}]
    /\ answer = [c \in Reader \cup Waiter |-> NotCalled]

Write(k, v) ==
    /\ mem' = [mem EXCEPT ![k] = v]
    /\ answer' = [c \in DOMAIN answer |-> IF answer[c] = WaitsFor(k) THEN v ELSE answer[c]]

Read(c, k) ==
    /\ answer[c] = NotCalled
    /\ answer' = [answer EXCEPT ![c] = mem[k]]
    /\ UNCHANGED mem

NotifyRead(c, k) ==
    /\ answer[c] = NotCalled
    /\ answer' = [answer EXCEPT ![c] = IF mem[k] = None THEN WaitsFor(k) ELSE mem[k]]
    /\ UNCHANGED mem

(* The caller gives up before it has received an answer. *)
Drop(c) ==
    /\ answer[c] \notin {NotCalled, Dropped}
    /\ answer' = [answer EXCEPT ![c] = Dropped]
    /\ UNCHANGED mem

Next ==
    \/ \E k \in Key, v \in Value : Write(k, v)
    \/ \E k \in Key :
          \/ \E c \in Reader : Read(c, k)
          \/ \E c \in Waiter : NotifyRead(c, k)
    \/ \E c \in Waiter : Drop(c)

Spec == Init /\ [][Next]_vars
=============================================================================
