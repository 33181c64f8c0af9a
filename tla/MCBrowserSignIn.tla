---------------------------- MODULE MCBrowserSignIn ----------------------------
(***************************************************************************)
(* BrowserSignIn for TLC, with as many providers as provider accounts.     *)
(***************************************************************************)
EXTENDS BrowserSignIn, TLC

TwoProviders == CHOOSE f \in [Subject -> Provider] :
                    \A u, v \in Subject : f[u] = f[v] => u = v

\* Exchanging both providers and both of their accounts keeps TwoProviders.
ExchangeProviders ==
    [x \in Subject \cup Provider |->
        CHOOSE y \in Subject \cup Provider :
            y # x /\ (x \in Subject <=> y \in Subject)]

Symmetry ==
    Permutations(State) \cup Permutations(Request) \cup {ExchangeProviders}
===============================================================================
