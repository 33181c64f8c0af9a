--------------------------- MODULE MCSessionClients ---------------------------
(***************************************************************************)
(* SessionClients for TLC, up to renaming of everything that has no order. *)
(* The view leaves out history that neither guards nor invariants read.    *)
(***************************************************************************)
EXTENDS SessionClients, TLC

Symmetry == Permutations(Token) \cup Permutations(Family) \cup Permutations(User)
            \cup Permutations(Request) \cup Permutations(Client)

\* A token that was minted first has no parent; whose child another is, nothing reads.
First == {t \in Token : parent[t] = None}

View == <<table, delivered, req, closed, clients, ledger, left, disturbed, First>>
===============================================================================
