-------------------------- MODULE ConflatingChannel --------------------------
(***************************************************************************)
(* What the host event queue promises its users, without saying how it is  *)
(* stored: a channel that delivers ordinary values first in first out,     *)
(* each exactly once, and that keeps for every continuous key only the     *)
(* newest value.  How an ordinary value and a continuous one are ordered   *)
(* against each other is left open.                                        *)
(*                                                                         *)
(* A value is its rank among the accepted ones, so the ordinary values     *)
(* under way form a set, and the oldest of them is the least.              *)
(***************************************************************************)
EXTENDS Integers, FiniteSets

CONSTANTS Size, Keys, NoValue

VARIABLES
  open,     \* the channel has not been closed
  underway, \* the ordinary values accepted and not yet delivered
  newest,   \* newest[k]: the undelivered value of key k, or NoValue
  sent      \* number of values accepted so far

vars == <<open, underway, newest, sent>>

Occupied == {k \in Keys : newest[k] # NoValue}
HasRoom == Cardinality(underway) + Cardinality(Occupied) < Size

Init ==
  /\ open = TRUE
  /\ underway = {}
  /\ newest = [k \in Keys |-> NoValue]
  /\ sent = 0

SendOrdinary ==
  /\ open /\ HasRoom
  /\ sent' = sent + 1
  /\ underway' = underway \cup {sent'}
  /\ UNCHANGED <<open, newest>>

SendContinuous(k) ==
  /\ open /\ (k \in Occupied \/ HasRoom)
  /\ sent' = sent + 1
  /\ newest' = [newest EXCEPT ![k] = sent']
  /\ UNCHANGED <<open, underway>>

\* The oldest ordinary value is the next to be delivered.
Oldest(v) == v \in underway /\ \A w \in underway : v <= w

ReceiveOrdinary ==
  /\ \E v \in underway : Oldest(v) /\ underway' = underway \ {v}
  /\ UNCHANGED <<open, newest, sent>>

ReceiveContinuous(k) ==
  /\ k \in Occupied
  /\ newest' = [newest EXCEPT ![k] = NoValue]
  /\ UNCHANGED <<open, underway, sent>>

Close ==
  /\ open' = FALSE
  /\ underway' = {}
  /\ newest' = [k \in Keys |-> NoValue]
  /\ UNCHANGED sent

Next ==
  \/ SendOrdinary
  \/ ReceiveOrdinary
  \/ Close
  \/ \E k \in Keys : SendContinuous(k) \/ ReceiveContinuous(k)

Spec == Init /\ [][Next]_vars
=============================================================================
