------------------------------ MODULE MCSpending ------------------------------
(* Small instances of the model calls and their cost for TLC.              *)
EXTENDS Spending, TLC

CONSTANTS small, large, chat

(* The task asked for has no route of its own: the one of chat is taken.   *)
MCRoutes == [t \in {chat} |-> [model |-> small, fallbacks |-> <<large, small>>]]
MCSpareRoute == [model |-> large, fallbacks |-> <<>>]
MCTokenCost == [m \in {small, large} |-> IF m = small THEN 1 ELSE 2]
MCDefaultCeiling == [max |-> 1, window |-> 1]
MCCeilings == {[max |-> 2, window |-> 2]}
=============================================================================
