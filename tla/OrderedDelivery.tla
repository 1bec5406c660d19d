-------------------------- MODULE OrderedDelivery --------------------------
(***************************************************************************)
(* What a FIX session promises about the peer's application messages,      *)
(* which are numbered here in the order in which the peer made them.  A    *)
(* reliable session hands over every message, once and in order, across    *)
(* reconnects.  Any other session starts afresh at every logon: what was   *)
(* made before is gone, what comes after arrives in order without a hole.  *)
(***************************************************************************)
EXTENDS Naturals

VARIABLES reliable,     \* whether the session supports retransmission
          made,         \* messages the peer made so far
          fresh,        \* messages made before the session last started afresh
          last          \* the last message handed over

deliveryVars == <<reliable, made, fresh, last>>

Init == reliable \in BOOLEAN /\ made = 0 /\ fresh = 0 /\ last = 0

Make == made' = made + 1 /\ UNCHANGED <<reliable, fresh, last>>

StartAfresh == ~reliable /\ fresh' = made /\ UNCHANGED <<reliable, made, last>>

Expected == IF last > fresh THEN last + 1 ELSE fresh + 1

Deliver == /\ Expected <= made
           /\ last' = Expected
           /\ UNCHANGED <<reliable, made, fresh>>

Next == Make \/ StartAfresh \/ Deliver

Spec == Init /\ [][Next]_deliveryVars
=============================================================================
