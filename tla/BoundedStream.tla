--------------------------- MODULE BoundedStream ---------------------------
(***************************************************************************)
(* What a subscription's iterator promises its consumer, whatever the      *)
(* queue behind it looks like: messages come out in the order in which     *)
(* they were accepted, each at most once; a stream that has been closed    *)
(* accepts nothing more, still hands over its whole backlog, and only then *)
(* ends, once.  A lossy stream may give up its oldest waiting message, and *)
(* only to make room for a new one.                                        *)
(***************************************************************************)
EXTENDS Naturals, Sequences

CONSTANTS Payload,      \* what can be sent
          Capacity      \* how many messages may wait

VARIABLES lossy,        \* whether a full stream gives up its oldest message
          backlog,      \* accepted messages that were not handed over yet
          handed,       \* messages handed to the consumer, in order
          phase         \* "open", then "closing", then "over"

streamVars == <<lossy, backlog, handed, phase>>

Init == lossy \in BOOLEAN /\ backlog = <<>> /\ handed = <<>> /\ phase = "open"

\* A message is accepted while there is room.
Accept == /\ phase = "open"
          /\ Len(backlog) < Capacity
          /\ \E m \in Payload : backlog' = Append(backlog, m)
          /\ UNCHANGED <<lossy, handed, phase>>

\* A message is accepted in the place of the oldest one that waits.
Displace == /\ phase = "open" /\ lossy
            /\ Len(backlog) = Capacity
            /\ \E m \in Payload : backlog' = Append(Tail(backlog), m)
            /\ UNCHANGED <<lossy, handed, phase>>

Deliver == /\ backlog # <<>>
           /\ backlog' = Tail(backlog)
           /\ handed' = Append(handed, Head(backlog))
           /\ UNCHANGED <<lossy, phase>>

Close == /\ phase = "open"
         /\ phase' = "closing"
         /\ UNCHANGED <<lossy, backlog, handed>>

End == /\ phase = "closing" /\ backlog = <<>>
       /\ phase' = "over"
       /\ UNCHANGED <<lossy, backlog, handed>>

Next == Accept \/ Displace \/ Deliver \/ Close \/ End

Spec == Init /\ [][Next]_streamVars
=============================================================================
