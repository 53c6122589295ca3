-------------------------- MODULE StoreRefinement --------------------------
(***************************************************************************)
(* Store implements AtomicStore.  The order of the calls is the order of   *)
(* their commands in the channel, so the abstract map is the database with *)
(* the queued writes applied to it, and the answer of a call is settled    *)
(* as soon as the commands in front of it are known.                       *)
(***************************************************************************)
EXTENDS Store, FiniteSetsExt

(* No value looks like the mark of a caller that waits. *)
WaitsFor(k) == <<"waits for", k>>
ASSUME ValueAssumption == \A k \in Key : WaitsFor(k) \notin Value \cup {None}

(* The positions of the writes to k among the commands s. *)
Writes(s, k) == {i \in DOMAIN s : s[i].op = "Write" /\ s[i].key = k}

(* What a database d has for k after the commands of s before position i. *)
Seen(d, s, k, i) ==
    LET ws == {j \in Writes(s, k) : j < i}
    IN  IF ws = {} THEN d[k] ELSE s[Max(ws)].value

(* What a caller waiting for k gets from the commands of s after position i. *)
Awaited(s, k, i) ==
    LET ws == {j \in Writes(s, k) : j > i}
    IN  IF ws = {} THEN WaitsFor(k) ELSE s[Min(ws)].value

(* The settled answer of the call queued at position i. *)
FromQueue(i) ==
    LET cmd == channel[i]
        found == Seen(db, channel, cmd.key, i)
    IN  IF cmd.op = "NotifyRead" /\ found = None THEN Awaited(channel, cmd.key, i) ELSE found

(* Where the command of caller c is queued, and the keys it waits for. *)
Queued(c) == {i \in DOMAIN channel : channel[i].op # "Write" /\ channel[i].sender = c}
Owed(c) == {k \in Key : \E i \in DOMAIN obligations[k] : obligations[k][i] = c}

Settled(c) ==
    CASE reply[c] # Sent -> reply[c]
      [] reply[c] = Sent /\ Queued(c) # {} -> FromQueue(CHOOSE i \in Queued(c) : TRUE)
      [] reply[c] = Sent /\ Queued(c) = {} -> Awaited(channel, CHOOSE k \in Owed(c) : TRUE, 0)

mem == [k \in Key |-> Seen(db, channel, k, Len(channel) + 1)]
answer == [c \in Call |-> Settled(c)]

Atomic == INSTANCE AtomicStore

(* Every behaviour of the store's task is one of an atomic map: calls take  *)
(* effect in the order they were queued, a read sees every write queued    *)
(* before it, and a notify_read gets the first value of its key.           *)
ImplementsAtomicStore == Atomic!Spec

(* A call whose answer is settled receives it, unless the caller drops it. *)
SettledIsAnswered ==
    \A c \in Call :
        (reply[c] = Sent /\ Settled(c) \in Value \cup {None}) ~> (reply[c] # Sent)
=============================================================================
