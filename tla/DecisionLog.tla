----------------------------- MODULE DecisionLog -----------------------------
(***************************************************************************)
(* What the order path promises its caller: a logical decision (strategy,  *)
(* candle, side) is refused, in doubt or filled; it is filled once and for *)
(* all; and a strategy's holding moves only in the step in which one of    *)
(* its decisions becomes filled, and only in that decision's direction.    *)
(***************************************************************************)
EXTENDS Integers

CONSTANTS
  Strategies,
  Decisions   \* records with at least the fields strategy and side

VARIABLES
  fate,      \* what is known of each decision
  holding    \* the position each strategy acts upon

vars == <<fate, holding>>

Fates == {"none", "refused", "unknown", "filled"}

Init ==
  /\ fate = [d \in Decisions |-> "none"]
  /\ holding = [s \in Strategies |-> 0]

\* The risk gate turns the decision down.
Refuse(d) ==
  /\ fate[d] = "none"
  /\ fate' = [fate EXCEPT ![d] = "refused"]
  /\ UNCHANGED holding

\* It was sent and nobody knows what became of it.
Doubt(d) ==
  /\ fate[d] \in {"none", "refused"}
  /\ fate' = [fate EXCEPT ![d] = "unknown"]
  /\ UNCHANGED holding

\* The exchange has no fill for it.
Clear(d) ==
  /\ fate[d] = "unknown"
  /\ fate' = [fate EXCEPT ![d] = "refused"]
  /\ UNCHANGED holding

\* A fill is booked, at most once per decision.
Settle(d) ==
  /\ fate[d] # "filled"
  /\ fate' = [fate EXCEPT ![d] = "filled"]
  /\ holding' = [holding EXCEPT ![d.strategy] = holding'[d.strategy]]
  /\ IF d.side = "buy" THEN holding'[d.strategy] > holding[d.strategy]
                       ELSE holding'[d.strategy] < holding[d.strategy]

Next == \E d \in Decisions : Refuse(d) \/ Doubt(d) \/ Clear(d) \/ Settle(d)

Spec == Init /\ [][Next]_vars
=============================================================================
