------------------------------- MODULE OrderLog -------------------------------
(***************************************************************************)
(* What readers of retail.orders may rely on: it is a log.  A batch adds   *)
(* its orders in parts at the end of the log, each part whole, and goes on *)
(* only while its own orders are the last ones.                            *)
(***************************************************************************)
EXTENDS Integers

CONSTANTS Batches, Orders, BatchSize

VARIABLE orders

Logged == UNION {orders[b] : b \in Batches}

Init == orders = [b \in Batches |-> {}]

\* The next part of batch b, whose orders so far are the last `done` of n.
Append(b, n, done) ==
    LET size == IF Orders - done < BatchSize THEN Orders - done ELSE BatchSize
    IN  /\ Logged = 1..n
        /\ orders[b] = (n - done + 1)..n
        /\ orders' = [orders EXCEPT ![b] = @ \cup (n + 1)..(n + size)]

Next == \E b \in Batches, n \in Logged \cup {0}, done \in 0..(Orders - 1) : Append(b, n, done)

Spec == Init /\ [][Next]_orders
=============================================================================
