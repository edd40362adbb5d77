---------------------------- MODULE Transactions ----------------------------
(***************************************************************************)
(* What SQLite promises of a database on one connection: a transaction is  *)
(* there whole or not at all, for the next statement and for a process     *)
(* that opens the files after this one was killed.                         *)
(***************************************************************************)
CONSTANT Image,   \* the contents a database can have
         NoTx     \* there is no write transaction; not in Image

VARIABLES db,     \* what opening the files would find
          tx      \* what the transaction has made of it, or NoTx

vars == <<db, tx>>

Init == db \in Image /\ tx = NoTx

Begin == tx = NoTx /\ tx' = db /\ UNCHANGED db

Update == tx # NoTx /\ tx' \in Image /\ UNCHANGED db

Commit == tx # NoTx /\ db' = tx /\ tx' = NoTx

\* ROLLBACK, a failed COMMIT, and the end of the process.
Abort == tx # NoTx /\ tx' = NoTx /\ UNCHANGED db

Next == Begin \/ Update \/ Commit \/ Abort

Spec == Init /\ [][Next]_vars
=============================================================================
