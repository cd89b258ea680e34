--------------------------- MODULE MCReplication ---------------------------
(* Two nodes that replicate and may change roles.  The budget of 6 has room for      *)
(* two writes with two compactions or kills or with a promotion, for one write with *)
(* more events, and for two promotions and two kills without any write.            *)
EXTENDS Replication
CONSTANTS a, b, k1

MCCost == [op \in Ops |-> IF op = "PutOversized" THEN 3 ELSE 2]
          @@ [compact |-> 1, kill |-> 1, promote |-> 2]
=============================================================================
