------------------------------ MODULE TokenChain ------------------------------
(***************************************************************************)
(* What a rotation chain of refresh tokens promises, with no tables and no *)
(* requests: a chain holds at most one thing of value, either one live     *)
(* token or the right to mint the next one.  Spending a token exchanges    *)
(* it for that right, minting exchanges the right for a token, and both    *)
(* can be lost (expiry, revocation, a failed statement, a crash) but never *)
(* multiplied.  RefreshChains implements this.                             *)
(***************************************************************************)
CONSTANTS Token, Family, None

VARIABLES chain,   \* the chain a token was minted in, None before that
          live,    \* the tokens that can still be exchanged
          owed     \* the chains whose next token has been paid for

vars == <<chain, live, owed>>

Init == /\ chain = [t \in Token |-> None]
        /\ live = {}
        /\ owed = {}

\* A sign-in opens a chain that nobody has used before.
Open(f) == /\ \A t \in Token : chain[t] # f
           /\ f \notin owed
           /\ owed' = owed \cup {f}
           /\ UNCHANGED <<chain, live>>

\* A live token is exchanged for the right to the next one.
Spend(t) == /\ t \in live
            /\ chain[t] \notin owed
            /\ live' = live \ {t}
            /\ owed' = owed \cup {chain[t]}
            /\ UNCHANGED chain

\* The right is exchanged for a token nobody has seen before.
Mint(t, f) == /\ chain[t] = None
              /\ f \in owed
              /\ \A s \in live : chain[s] # f
              /\ chain' = [chain EXCEPT ![t] = f]
              /\ live' = live \cup {t}
              /\ owed' = owed \ {f}

\* Tokens and rights are lost, possibly several at once.
Lose == /\ live' \subseteq live
        /\ owed' \subseteq owed
        /\ UNCHANGED chain

Next == \/ \E f \in Family : Open(f)
        \/ \E t \in Token : Spend(t)
        \/ \E t \in Token, f \in Family : Mint(t, f)
        \/ Lose

Spec == Init /\ [][Next]_vars
===============================================================================
