--------------------------- MODULE AtLeastOnceQueue ---------------------------
(***************************************************************************)
(* What a consumer with manual commits promises (CreateKafkaConsumerTask:  *)
(* "Manual commit for at-least-once semantics"), with nothing said of how: *)
(* an item of the log may be delivered at any time and any number of       *)
(* times, and an offset is acknowledged only when every item up to it has  *)
(* been delivered.  Acknowledged offsets never move back.                  *)
(***************************************************************************)
EXTENDS Naturals, Sequences

CONSTANTS
    Channels,   \* the logs
    Items,      \* the records that must be delivered
    Noise       \* the records that need not be

VARIABLES
    log,            \* log[c]: the records of c, in order
    delivered,      \* delivered[c]: the offsets whose item has been delivered
    acknowledged    \* acknowledged[c]: the offset c will be read from after a restart

Delivered(c, n) == \A i \in 1 .. n : log[c][i] \in Items => i \in delivered[c]

Init ==
    /\ log = [c \in Channels |-> <<>>]
    /\ delivered = [c \in Channels |-> {}]
    /\ acknowledged = [c \in Channels |-> 0]

Publish(c) ==
    /\ \E r \in Items \cup Noise : log' = [log EXCEPT ![c] = Append(@, r)]
    /\ UNCHANGED <<delivered, acknowledged>>

Deliver(c) ==
    /\ \E S \in SUBSET {i \in 1 .. Len(log[c]) : log[c][i] \in Items} :
        delivered' = [delivered EXCEPT ![c] = @ \cup S]
    /\ UNCHANGED <<log, acknowledged>>

Acknowledge(c) ==
    /\ \E n \in acknowledged[c] .. Len(log[c]) :
        /\ Delivered(c, n)
        /\ acknowledged' = [acknowledged EXCEPT ![c] = n]
    /\ UNCHANGED <<log, delivered>>

Next == \E c \in Channels : Publish(c) \/ Deliver(c) \/ Acknowledge(c)

Spec == Init /\ [][Next]_<<log, delivered, acknowledged>>
==============================================================================
