---------------------------- MODULE MCCoordinator ----------------------------
(* Instances of Coordinator for TLC: two or three accounts, which the selector *)
(* ranks alike (Level) or with b behind the others (BWorse).                  *)
EXTENDS Coordinator

CONSTANTS a, b, c

Level  == [x \in Accounts |-> 0]
BWorse == [x \in Accounts |-> IF x = b THEN 1 ELSE 0]

=============================================================================
