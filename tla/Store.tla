------------------------------- MODULE Store -------------------------------
(***************************************************************************)
(* store/src/lib.rs: one task owns the database and serves the commands of *)
(* every component from a bounded channel.  A write returns as soon as its *)
(* command is queued; a notify_read of an absent key leaves an obligation  *)
(* that the next write of the key discharges.                              *)
(***************************************************************************)
EXTENDS Naturals, Sequences, FiniteSets

CONSTANTS
    Key, Value, Reader, Waiter, None,
    Capacity,    \* of the command channel (100 in the code)
    MaxWrites    \* bound on the number of writes

VARIABLES
    db,           \* the database: a value or None for every key
    channel,      \* commands not yet served
    obligations,  \* per key, the waiters to answer at the next write
    reply,        \* per call: NotCalled, Sent, Dropped or the value received
    writes        \* number of writes so far

vars == <<db, channel, obligations, reply, writes>>

Call == Reader \cup Waiter
NotCalled == <<"not called">>
Sent == <<"sent">>
Dropped == <<"dropped">>

ASSUME StoreAssumption ==
    /\ None \notin Value /\ Reader \cap Waiter = {}
    /\ Capacity \in Nat \ {0} /\ MaxWrites \in Nat
    /\ {NotCalled, Sent, Dropped} \cap (Value \cup {None}) = {}

Command ==
    [op : {"Write"}, key : Key, value : Value]
        \cup [op : {"Read"}, key : Key, sender : Reader]
        \cup [op : {"NotifyRead"}, key : Key, sender : Waiter]

Init ==
    /\ db \in [Key -> Value \cup {None}]    \* what an earlier run left on disk
    /\ channel = <<>>
    /\ obligations = [k \in Key |-> <<>>]
    /\ reply = [c \in Call |-> NotCalled]
    /\ writes = 0

Send(cmd) == Len(channel) < Capacity /\ channel' = Append(channel, cmd)

(* Store::write *)
write(k, v) ==
    /\ writes < MaxWrites /\ writes' = writes + 1
    /\ Send([op |-> "Write", key |-> k, value |-> v])
    /\ UNCHANGED <<db, obligations, reply>>

(* Store::read *)
read(c, k) ==
    /\ reply[c] = NotCalled
    /\ Send([op |-> "Read", key |-> k, sender |-> c])
    /\ reply' = [reply EXCEPT ![c] = Sent]
    /\ UNCHANGED <<db, obligations, writes>>

(* Store::notify_read *)
notify_read(c, k) ==
    /\ reply[c] = NotCalled
    /\ Send([op |-> "NotifyRead", key |-> k, sender |-> c])
    /\ reply' = [reply EXCEPT ![c] = Sent]
    /\ UNCHANGED <<db, obligations, writes>>

(* The caller drops the future of a notify_read (the mempool's waiter on    *)
(* Clean): the store's answer then goes nowhere.                           *)
Drop(c) ==
    /\ reply[c] = Sent
    /\ reply' = [reply EXCEPT ![c] = Dropped]
    /\ UNCHANGED <<db, channel, obligations, writes>>

(* Every caller in s that still waits receives v. *)
Answer(s, v) ==
    reply' = [c \in Call |->
        IF (\E i \in DOMAIN s : s[i] = c) /\ reply[c] = Sent THEN v ELSE reply[c]]

(* The first element alone. *)
FirstOf(s) == IF s = <<>> THEN <<>> ELSE <<Head(s)>>

(* The three branches of the store's task, for the command it received. *)
ServeWrite_keep(cmd) ==
    /\ cmd.op = "Write"
    /\ db' = [db EXCEPT ![cmd.key] = cmd.value]
    /\ Answer(FirstOf(obligations[cmd.key]), cmd.value)
    /\ obligations' = [obligations EXCEPT ![cmd.key] = IF @ = <<>> THEN @ ELSE Tail(@)]
ServeWrite_first(cmd) ==
    /\ cmd.op = "Write"
    /\ db' = [db EXCEPT ![cmd.key] = cmd.value]
    /\ Answer(FirstOf(obligations[cmd.key]), cmd.value)
    /\ obligations' = [obligations EXCEPT ![cmd.key] = <<>>]
ServeWrite(cmd) ==
    /\ cmd.op = "Write"
    /\ db' = [db EXCEPT ![cmd.key] = cmd.value]
    /\ Answer(obligations[cmd.key], cmd.value)
    /\ obligations' = [obligations EXCEPT ![cmd.key] = <<>>]

ServeRead_none(cmd) ==
    /\ cmd.op = "Read"
    /\ Answer(<<cmd.sender>>, None)
    /\ UNCHANGED <<db, obligations>>
ServeRead(cmd) ==
    /\ cmd.op = "Read"
    /\ Answer(<<cmd.sender>>, db[cmd.key])
    /\ UNCHANGED <<db, obligations>>

ServeNotifyRead_unread(cmd) ==
    /\ cmd.op = "NotifyRead"
    /\ obligations' = [obligations EXCEPT ![cmd.key] = Append(@, cmd.sender)]
    /\ UNCHANGED <<db, reply>>
ServeNotifyRead_single(cmd) ==
    /\ cmd.op = "NotifyRead"
    /\ obligations' = [obligations EXCEPT ![cmd.key] = cmd.sender]
    /\ UNCHANGED <<db, reply>>
ServeNotifyRead(cmd) ==
    /\ cmd.op = "NotifyRead"
    /\ IF db[cmd.key] = None
       THEN /\ obligations' = [obligations EXCEPT ![cmd.key] = Append(@, cmd.sender)]
            /\ UNCHANGED reply
       ELSE /\ Answer(<<cmd.sender>>, db[cmd.key])
            /\ UNCHANGED obligations
    /\ UNCHANGED db

Serve ==
    /\ channel # <<>>
    /\ channel' = Tail(channel)
    /\ \/ ServeWrite(Head(channel))
       \/ ServeRead(Head(channel))
       \/ ServeNotifyRead(Head(channel))
    /\ UNCHANGED writes

Next ==
    \/ \E k \in Key, v \in Value : write(k, v)
    \/ \E k \in Key :
          \/ \E c \in Reader : read(c, k)
          \/ \E c \in Waiter : notify_read(c, k)
    \/ \E c \in Waiter : Drop(c)
    \/ Serve

Spec == Init /\ [][Next]_vars

(* The runtime schedules the store's task whenever a command is queued. *)
FairSpec == Spec /\ WF_vars(Serve)
-----------------------------------------------------------------------------
TypeOK ==
    /\ db \in [Key -> Value \cup {None}]
    /\ channel \in Seq(Command)
    /\ obligations \in [Key -> Seq(Waiter)]
    /\ reply \in [Call -> {NotCalled, Sent, Dropped, None} \cup Value]
    /\ writes \in Nat

(* No lost wake-up: while a caller is left waiting for a key, the database *)
(* has no value for it, so some later write will answer the caller.        *)
NoLostWakeup == \A k \in Key : obligations[k] # <<>> => db[k] = None

(* Every waiting notify_read is known to the task: its command is queued    *)
(* or its key has an obligation towards it.                                *)
WaitersKnown ==
    \A c \in Waiter : reply[c] = Sent =>
        \/ \E i \in DOMAIN channel : channel[i].op = "NotifyRead" /\ channel[i].sender = c
        \/ \E k \in Key : \E i \in DOMAIN obligations[k] : obligations[k][i] = c
=============================================================================
