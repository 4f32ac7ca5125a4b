------------------------------ MODULE Postgres ------------------------------
(***************************************************************************)
(* What the code in src/ relies on PostgreSQL and psycopg 3 for, as far as *)
(* the models need it: a connection sees its own uncommitted writes over   *)
(* the committed rows (READ COMMITTED), nobody else sees them, a row with  *)
(* an uncommitted write is locked against other writers, and the writes    *)
(* become visible together or not at all.                                  *)
(*                                                                         *)
(* A pending write to a row is the row it will become; NoWrite stands for  *)
(* "this connection has not written the row".                              *)
(***************************************************************************)
CONSTANT NoWrite

\* The row a connection sees: its own pending write, else the committed row.
Seen(pending, committed) == IF pending = NoWrite THEN committed ELSE pending

\* A table after a transaction's pending writes to it are committed.
Merged(pending, table) == [k \in DOMAIN table |-> Seen(pending[k], table[k])]
=============================================================================
