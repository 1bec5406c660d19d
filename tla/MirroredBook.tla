---------------------------- MODULE MirroredBook ----------------------------
(***************************************************************************)
(* What a local order book promises its reader, whatever the connection    *)
(* behind it does: a market's book is absent or in a state the market has  *)
(* been in.  It goes through the states of the market one by one; it may   *)
(* be given up at any time, and only a book that was given up may come     *)
(* back in another state.  A state is named by the number of changes that  *)
(* led to it.                                                              *)
(***************************************************************************)
EXTENDS Integers

CONSTANT Tickers

VARIABLES version,  \* changes of each market so far
          shown     \* the state each book shows, or Absent

Absent == -1

Init == /\ version = [t \in Tickers |-> 0]
        /\ shown \in [Tickers -> {Absent, 0}]

Change(t) == /\ version' = [version EXCEPT ![t] = @ + 1]
             /\ UNCHANGED shown

\* A book shows the next state of its market.
Advance(t) == /\ shown[t] # Absent /\ shown[t] < version[t]
              /\ shown' = [shown EXCEPT ![t] = @ + 1]
              /\ UNCHANGED version

\* A book that was absent comes back in any state its market has been in.
Load(t) == /\ shown[t] = Absent
           /\ \E v \in 0..version[t] : shown' = [shown EXCEPT ![t] = v]
           /\ UNCHANGED version

\* Some books are given up.
GiveUp == /\ \E S \in SUBSET Tickers :
                shown' = [t \in Tickers |-> IF t \in S THEN Absent ELSE shown[t]]
          /\ UNCHANGED version

Next == GiveUp \/ \E t \in Tickers : Change(t) \/ Advance(t) \/ Load(t)

Spec == Init /\ [][Next]_<<version, shown>>
=============================================================================
