-------------------------- MODULE RefreshChainsProofs --------------------------
(***************************************************************************)
(* The safety properties of RefreshChains, for any number of tokens,       *)
(* chains, users and concurrent requests.  The invariants checked by TLC   *)
(* are not inductive alone: what a half done rotation and a half done      *)
(* revocation know must be said too.                                       *)
(***************************************************************************)
EXTENDS RefreshChains, TLAPS

\* A request between its two statements is alone in its chain, the chain has
\* no token to offer, and the token it has spent has no successor yet.
RotationInProgress ==
    \A r \in Request : req[r].at = "issue" =>
        /\ \A t \in Unspent : family[t] # req[r].family
        /\ \A q \in Issuing(req[r].family) : q = r
        /\ \A t \in Minted : family[t] = req[r].family => user[t] = req[r].user
        /\ req[r].token # None =>
              /\ req[r].token \in spent
              /\ family[req[r].token] = req[r].family
              /\ \A s \in Token : parent[s] # req[r].token

ParentsAreSpent == \A s \in Token : parent[s] # None => parent[s] \in spent

ChainInv == /\ RotationInProgress
            /\ ParentsAreSpent
            /\ OneUnspentPerChain
            /\ ChainIsLinear
            /\ OneUserPerChain

\* A request on its way to a revocation has its reason.
RevocationInProgress ==
    \A r \in Request :
        /\ req[r].at = "lookup" =>
              /\ req[r].token \in presented
              /\ req[r].token \in spent => req[r].token \in forfeit
        /\ req[r].at = "revoke" =>
              /\ req[r].token \in forfeit
              /\ family[req[r].token] = req[r].family

ReasonInv == /\ RevocationInProgress
             /\ spent \subseteq presented
             /\ NoFalseRevocation

\* A chain that was revoked is not mistaken for one that was never used.
ClosedInv == /\ \A f \in closed : \E t \in Token : family[t] = f
             /\ DeadUnlessRaced

\* What is looked up could not be spent and never will be; nor will a token
\* that was presented without being forfeited, for it was spent, or lost, then.
LostForGood ==
    /\ \A r \in Request : req[r].at = "lookup" => ~Spendable(req[r].token)
    /\ \A t \in presented \ forfeit : ~Spendable(t)

DetectionInv == /\ LostForGood
                /\ \A t \in revoked : family[t] \in closed
                /\ ReuseIsNeverMissed

IInv == TypeOK /\ ChainInv /\ ReasonInv /\ ClosedInv /\ DetectionInv

-------------------------------------------------------------------------------
LEMMA InitInv == Init => IInv
  BY NoneIsFresh
  DEF Init, IInv, TypeOK, Requests, Idle, Minted, ChainInv, RotationInProgress,
      ParentsAreSpent, OneUnspentPerChain, ChainIsLinear, OneUserPerChain, Unspent,
      ReasonInv, RevocationInProgress, NoFalseRevocation, ClosedInv, DeadUnlessRaced,
      DetectionInv, LostForGood, ReuseIsNeverMissed, Examining

\* Columns and requests keep their types, whichever statement runs.
LEMMA TypeStep == TypeOK /\ [Next]_vars => TypeOK'
<1> SUFFICES ASSUME TypeOK, [Next]_vars PROVE TypeOK'
  OBVIOUS
<1> USE NoneIsFresh
    DEF TypeOK, Requests, Minted, At, Idle, table, history, Count, Examining
<1>1. ASSUME NEW r \in Request, NEW u \in User, NEW f \in Family, StartSession(r, u, f)
      PROVE  TypeOK'
  BY <1>1 DEF StartSession
<1>2. ASSUME NEW r \in Request, NEW t \in Token, UseWon(r, t)
      PROVE  TypeOK'
  <2>1. t \in rows /\ family[t] \in Family /\ user[t] \in User
    BY <1>2 DEF UseWon, Spendable
  <2>. QED BY <1>2, <2>1 DEF UseWon, Successor
<1>3. ASSUME NEW r \in Request, NEW t \in Token, UseUnanswered(r, t)
      PROVE  TypeOK'
  BY <1>3 DEF UseUnanswered, Spendable
<1>4. ASSUME NEW r \in Request, NEW t \in Token, UseLost(r, t)
      PROVE  TypeOK'
  BY <1>4 DEF UseLost
<1>5. ASSUME NEW r \in Request, NEW t \in Token, NEW b \in BOOLEAN, Issue(r, t, b)
      PROVE  TypeOK'
  BY <1>5 DEF Issue
<1>6. ASSUME NEW r \in Request, IssueFailed(r) PROVE TypeOK'
  BY <1>6 DEF IssueFailed
<1>7. ASSUME NEW r \in Request, Lookup(r) PROVE TypeOK'
  BY <1>7 DEF Lookup, Reused
<1>8. ASSUME NEW r \in Request, NEW t \in Token, Logout(r, t) PROVE TypeOK'
  BY <1>8 DEF Logout
<1>9. ASSUME NEW r \in Request, Revoke(r) PROVE TypeOK'
  BY <1>9 DEF Revoke, Issuing
<1>10. ASSUME NEW r \in Request, GiveUp(r) PROVE TypeOK'
  BY <1>10 DEF GiveUp
<1>11. ASSUME NEW t \in Token, Expire(t) PROVE TypeOK'
  BY <1>11 DEF Expire
<1>12. ASSUME NEW old \in SUBSET Token, Sweep(old) PROVE TypeOK'
  BY <1>12 DEF Sweep
<1>13. CASE Crash
  BY <1>13 DEF Crash
<1>14. CASE UNCHANGED vars
  BY <1>14 DEF vars
<1>. QED
  BY <1>1, <1>2, <1>3, <1>4, <1>5, <1>6, <1>7, <1>8, <1>9, <1>10, <1>11, <1>12,
     <1>13, <1>14 DEF Next, Step

\* A chain has one owner, one history and one thing to offer.  Only a request
\* that starts, spends or inserts can disturb that; what the others do shrinks
\* the sets it speaks of.
LEMMA ChainStep == TypeOK /\ ChainInv /\ [Next]_vars => ChainInv'
<1> SUFFICES ASSUME TypeOK, ChainInv, [Next]_vars PROVE ChainInv'
  OBVIOUS
<1>0. TypeOK'
  BY TypeStep
<1> USE NoneIsFresh, <1>0
    DEF TypeOK, Requests, Minted, Unspent, At, Idle, table, history, Count, ChainInv
<1>1. ASSUME NEW r \in Request, NEW u \in User, NEW f \in Family, StartSession(r, u, f)
      PROVE  ChainInv'
  <2>1. RotationInProgress'
    BY <1>1 DEF StartSession, FreshFamily, RotationInProgress, Issuing
  <2>2. (ParentsAreSpent /\ OneUnspentPerChain /\ ChainIsLinear /\ OneUserPerChain)'
    BY <1>1 DEF StartSession, ParentsAreSpent, OneUnspentPerChain, ChainIsLinear,
                OneUserPerChain
  <2>. QED BY <2>1, <2>2
<1>2. ASSUME NEW r \in Request, NEW t \in Token, UseWon(r, t)
      PROVE  ChainInv'
  <2>1. /\ t \in Unspent
        /\ spent' = spent \cup {t}
        /\ UNCHANGED <<rows, family, user, revoked, parent>>
        /\ req' = [req EXCEPT ![r] = At("issue", t, family[t], user[t])]
    BY <1>2 DEF UseWon, Spendable, Successor
  <2>2. \A s \in Token : parent[s] # t
    BY <2>1 DEF ParentsAreSpent
  <2>3. Issuing(family[t]) = {}
    BY <2>1 DEF RotationInProgress, Issuing
  <2>4. RotationInProgress'
    <3>1. ASSUME NEW q \in Request, q # r, req'[q].at = "issue"
          PROVE  req[q].family # family[t] /\ req'[q] = req[q]
      BY <2>1, <2>3, <3>1 DEF Issuing
    <3>. QED BY <2>1, <2>2, <2>3, <3>1
             DEF RotationInProgress, Issuing, OneUnspentPerChain, OneUserPerChain
  <2>5. (ParentsAreSpent /\ OneUnspentPerChain /\ ChainIsLinear /\ OneUserPerChain)'
    BY <2>1 DEF ParentsAreSpent, OneUnspentPerChain, ChainIsLinear, OneUserPerChain
  <2>. QED BY <2>4, <2>5
<1>3. ASSUME NEW r \in Request, NEW t \in Token, UseUnanswered(r, t)
      PROVE  ChainInv'
  <2>1. RotationInProgress'
    BY <1>3 DEF UseUnanswered, RotationInProgress, Issuing
  <2>2. (ParentsAreSpent /\ OneUnspentPerChain /\ ChainIsLinear /\ OneUserPerChain)'
    BY <1>3 DEF UseUnanswered, ParentsAreSpent, OneUnspentPerChain, ChainIsLinear,
                OneUserPerChain
  <2>. QED BY <2>1, <2>2
<1>4. ASSUME NEW r \in Request, NEW t \in Token, NEW b \in BOOLEAN, Issue(r, t, b)
      PROVE  ChainInv'
  <2> DEFINE f == req[r].family
  <2>1. /\ req[r].at = "issue"
        /\ family[t] = None
        /\ rows' = rows \cup {t}
        /\ family' = [family EXCEPT ![t] = f]
        /\ user' = [user EXCEPT ![t] = req[r].user]
        /\ parent' = [parent EXCEPT ![t] = req[r].token]
        /\ req' = [req EXCEPT ![r] = Idle]
        /\ UNCHANGED <<spent, revoked>>
    BY <1>4 DEF Issue
  <2>2. t \notin rows \cup spent \cup revoked
    BY <2>1
  <2>3. RotationInProgress'
    <3>1. ASSUME NEW q \in Request, req'[q].at = "issue"
          PROVE  q # r /\ req'[q] = req[q] /\ req[q].family # f
      BY <2>1, <3>1 DEF RotationInProgress, Issuing
    <3>2. ASSUME NEW q \in Request, req'[q].at = "issue", req[q].token # None
          PROVE  req[q].token # t /\ req[q].token # req[r].token
      BY <2>1, <2>2, <3>1, <3>2 DEF RotationInProgress
    <3>. QED BY <2>1, <2>2, <3>1, <3>2 DEF RotationInProgress, Issuing
  <2>4. ParentsAreSpent'
    BY <2>1 DEF ParentsAreSpent, RotationInProgress
  <2>5. OneUnspentPerChain'
    BY <2>1, <2>2 DEF OneUnspentPerChain, RotationInProgress
  <2>6. ChainIsLinear'
    BY <2>1 DEF ChainIsLinear, RotationInProgress
  <2>7. OneUserPerChain'
    BY <2>1 DEF OneUserPerChain, RotationInProgress
  <2>. QED BY <2>3, <2>4, <2>5, <2>6, <2>7
<1>5. ASSUME NEW r \in Request,
             UNCHANGED <<rows, family, user, spent, parent>>,
             revoked \subseteq revoked',
             req'[r].at # "issue",
             \A q \in Request \ {r} : req'[q] = req[q]
      PROVE  ChainInv'
  <2>1. RotationInProgress'
    BY <1>5 DEF RotationInProgress, Issuing
  <2>2. (ParentsAreSpent /\ OneUnspentPerChain /\ ChainIsLinear /\ OneUserPerChain)'
    BY <1>5 DEF ParentsAreSpent, OneUnspentPerChain, ChainIsLinear, OneUserPerChain
  <2>. QED BY <2>1, <2>2
<1>6. ASSUME NEW r \in Request,
             \/ \E t \in Token : UseLost(r, t)
             \/ IssueFailed(r)
             \/ Lookup(r)
             \/ \E t \in Token : Logout(r, t)
             \/ Revoke(r)
             \/ GiveUp(r)
      PROVE  ChainInv'
  BY <1>5, <1>6 DEF UseLost, IssueFailed, Lookup, Logout, Revoke, GiveUp
<1>7. ASSUME UNCHANGED <<family, user, spent, revoked, parent>>,
             rows' \subseteq rows,
             UNCHANGED req \/ req' = [r \in Request |-> Idle]
      PROVE  ChainInv'
  <2>1. RotationInProgress'
    BY <1>7 DEF RotationInProgress, Issuing
  <2>2. (ParentsAreSpent /\ OneUnspentPerChain /\ ChainIsLinear /\ OneUserPerChain)'
    BY <1>7 DEF ParentsAreSpent, OneUnspentPerChain, ChainIsLinear, OneUserPerChain
  <2>. QED BY <2>1, <2>2
<1>8. ASSUME \/ \E t \in Token : Expire(t)
             \/ \E old \in SUBSET Token : Sweep(old)
             \/ Crash
             \/ UNCHANGED vars
      PROVE  ChainInv'
  BY <1>7, <1>8 DEF Expire, Sweep, Crash, vars
<1>. QED
  BY <1>1, <1>2, <1>3, <1>4, <1>6, <1>8 DEF Next, Step

\* Every revocation, finished or under way, has a token that came back twice
\* or was handed to Logout.
LEMMA ReasonStep == TypeOK /\ ReasonInv /\ [Next]_vars => ReasonInv'
<1> SUFFICES ASSUME TypeOK, ReasonInv, [Next]_vars PROVE ReasonInv'
  OBVIOUS
<1>0. TypeOK'
  BY TypeStep
<1> USE NoneIsFresh, <1>0
    DEF TypeOK, Requests, Minted, At, Idle, table, history, Count, ReasonInv
<1>1. ASSUME NEW r \in Request, NEW u \in User, NEW f \in Family, StartSession(r, u, f)
      PROVE  ReasonInv'
  BY <1>1 DEF StartSession, RevocationInProgress, NoFalseRevocation
<1>2. ASSUME NEW r \in Request, NEW t \in Token, UseWon(r, t) \/ UseUnanswered(r, t)
      PROVE  ReasonInv'
  <2>1. /\ spent' = spent \cup {t}
        /\ presented' = presented \cup {t}
        /\ forfeit' = forfeit \cup ({t} \cap presented)
        /\ UNCHANGED <<rows, family, revoked>>
        /\ \A q \in Request : req'[q] = req[q] \/ req'[q].at = "issue"
    BY <1>2 DEF UseWon, UseUnanswered, Successor
  <2>2. RevocationInProgress'
    BY <2>1 DEF RevocationInProgress
  <2>3. NoFalseRevocation'
    BY <2>1 DEF NoFalseRevocation
  <2>. QED BY <2>1, <2>2, <2>3
<1>3. ASSUME NEW r \in Request, NEW t \in Token, UseLost(r, t)
      PROVE  ReasonInv'
  <2>1. t \in spent => t \in forfeit'
    BY <1>3 DEF UseLost
  <2>2. RevocationInProgress'
    BY <1>3, <2>1 DEF UseLost, RevocationInProgress
  <2>3. NoFalseRevocation'
    BY <1>3 DEF UseLost, NoFalseRevocation
  <2>. QED BY <1>3, <2>2, <2>3 DEF UseLost
<1>4. ASSUME NEW r \in Request, NEW t \in Token, NEW b \in BOOLEAN, Issue(r, t, b)
      PROVE  ReasonInv'
  <2>1. t \notin forfeit \cup revoked
    BY <1>4 DEF Issue
  <2>2. RevocationInProgress'
    BY <1>4, <2>1 DEF Issue, RevocationInProgress
  <2>3. NoFalseRevocation'
    BY <1>4, <2>1 DEF Issue, NoFalseRevocation
  <2>. QED BY <1>4, <2>2, <2>3 DEF Issue
<1>5. ASSUME NEW r \in Request, Lookup(r) PROVE ReasonInv'
  <2>1. RevocationInProgress'
    BY <1>5 DEF Lookup, Reused, RevocationInProgress
  <2>. QED BY <1>5, <2>1 DEF Lookup, NoFalseRevocation
<1>6. ASSUME NEW r \in Request, NEW t \in Token, Logout(r, t) PROVE ReasonInv'
  <2>1. RevocationInProgress'
    BY <1>6 DEF Logout, RevocationInProgress
  <2>. QED BY <1>6, <2>1 DEF Logout, NoFalseRevocation
<1>7. ASSUME NEW r \in Request, Revoke(r) PROVE ReasonInv'
  <2>1. RevocationInProgress'
    BY <1>7 DEF Revoke, RevocationInProgress
  <2>2. req[r].token \in forfeit /\ family[req[r].token] = req[r].family
    BY <1>7 DEF Revoke, RevocationInProgress
  <2>3. NoFalseRevocation'
    BY <1>7, <2>2 DEF Revoke, NoFalseRevocation
  <2>. QED BY <1>7, <2>1, <2>3 DEF Revoke
<1>8. ASSUME UNCHANGED <<family, user, spent, revoked, presented, forfeit>>,
             \A q \in Request : req'[q] \in {req[q], Idle}
      PROVE  ReasonInv'
  BY <1>8 DEF RevocationInProgress, NoFalseRevocation
<1>9. ASSUME \/ \E r \in Request : IssueFailed(r)
             \/ \E r \in Request : GiveUp(r)
             \/ \E t \in Token : Expire(t)
             \/ \E old \in SUBSET Token : Sweep(old)
             \/ Crash
             \/ UNCHANGED vars
      PROVE  ReasonInv'
  BY <1>8, <1>9 DEF IssueFailed, GiveUp, Expire, Sweep, Crash, vars
<1>. QED
  BY <1>1, <1>2, <1>3, <1>4, <1>5, <1>6, <1>7, <1>9 DEF Next, Step

\* A revoked chain stays as it is, unless a rotation was half done.
LEMMA ClosedStep ==
  TypeOK /\ ChainInv /\ ReasonInv /\ ClosedInv /\ [Next]_vars => ClosedInv'
<1> SUFFICES ASSUME TypeOK, ChainInv, ReasonInv, ClosedInv, [Next]_vars PROVE ClosedInv'
  OBVIOUS
<1>0. TypeOK'
  BY TypeStep
<1> USE NoneIsFresh, <1>0
    DEF TypeOK, Requests, Minted, Unspent, At, Idle, table, history, Count, ClosedInv
<1>1. ASSUME NEW r \in Request, NEW u \in User, NEW f \in Family, StartSession(r, u, f)
      PROVE  ClosedInv'
  <2>1. f \notin closed
    BY <1>1 DEF StartSession, FreshFamily
  <2>. QED BY <1>1, <2>1 DEF StartSession, DeadUnlessRaced, Issuing
<1>2. ASSUME NEW r \in Request, NEW t \in Token, UseWon(r, t)
      PROVE  ClosedInv'
  <2>1. family[t] \notin closed \ raced
    BY <1>2 DEF UseWon, Spendable, DeadUnlessRaced
  <2>. QED BY <1>2, <2>1 DEF UseWon, Successor, DeadUnlessRaced, Issuing
<1>3. ASSUME NEW r \in Request, NEW t \in Token, NEW b \in BOOLEAN, Issue(r, t, b)
      PROVE  ClosedInv'
  <2>1. req[r].family \notin closed \ raced
    BY <1>3 DEF Issue, DeadUnlessRaced, Issuing
  <2>. QED BY <1>3, <2>1 DEF Issue, DeadUnlessRaced, Issuing
<1>4. ASSUME NEW r \in Request, Revoke(r) PROVE ClosedInv'
  <2>1. family[req[r].token] = req[r].family /\ req[r].token \in Token
    BY <1>4 DEF Revoke, ReasonInv, RevocationInProgress
  <2>. QED BY <1>4, <2>1 DEF Revoke, DeadUnlessRaced, Issuing
<1>5. ASSUME UNCHANGED <<family, revoked, closed, raced>>,
             rows' \subseteq rows,
             spent \subseteq spent',
             \A q \in Request : req'[q] = req[q] \/ req'[q].at # "issue"
      PROVE  ClosedInv'
  BY <1>5 DEF DeadUnlessRaced, Issuing
<1>6. ASSUME \/ \E r \in Request : \/ \E t \in Token : UseUnanswered(r, t)
                                   \/ \E t \in Token : UseLost(r, t)
                                   \/ \E t \in Token : Logout(r, t)
                                   \/ IssueFailed(r)
                                   \/ Lookup(r)
                                   \/ GiveUp(r)
             \/ \E t \in Token : Expire(t)
             \/ \E old \in SUBSET Token : Sweep(old)
             \/ Crash
             \/ UNCHANGED vars
      PROVE  ClosedInv'
  BY <1>5, <1>6
  DEF UseUnanswered, UseLost, Logout, IssueFailed, Lookup, GiveUp, Expire, Sweep, Crash, vars
<1>. QED
  BY <1>1, <1>2, <1>3, <1>4, <1>6 DEF Next, Step

\* Detection gets on: every step leaves a forfeited token with its request, or
\* with a chain that is closed or was missed.
LEMMA DetectionStep ==
  TypeOK /\ ReasonInv /\ DetectionInv /\ [Next]_vars => DetectionInv'
<1> SUFFICES ASSUME TypeOK, ReasonInv, DetectionInv, [Next]_vars PROVE DetectionInv'
  OBVIOUS
<1>0. /\ rows \cup spent \cup revoked \cup delivered \subseteq Minted
      /\ forfeit \subseteq presented /\ presented \subseteq delivered
      /\ expired \subseteq rows /\ req \in [Request -> Requests]
      /\ family \in [Token -> Family \cup {None}]
      /\ \A r \in Examining : req[r].token \in Minted
      /\ LostForGood /\ ReuseIsNeverMissed
      /\ \A t \in revoked : family[t] \in closed
  BY DEF TypeOK, DetectionInv, Examining
<1>a. ASSUME LostForGood', (\A t \in revoked : family[t] \in closed)', ReuseIsNeverMissed'
      PROVE  DetectionInv'
  BY <1>a DEF DetectionInv
<1> USE <1>0 DEF At, Idle, table, history, Count
<1>1. ASSUME NEW r \in Request, NEW t \in Token, UseWon(r, t) \/ UseUnanswered(r, t)
      PROVE  DetectionInv'
  <2>1. /\ Spendable(t) /\ req[r].at = "idle" /\ spent' = spent \cup {t}
        /\ presented' = presented \cup {t} /\ forfeit' = forfeit \cup ({t} \cap presented)
        /\ UNCHANGED <<rows, family, revoked, expired, closed, missed>>
        /\ req' = req \/ req' = [req EXCEPT ![r] = Successor(t)]
    BY <1>1 DEF UseWon, UseUnanswered
  <2>2. forfeit' = forfeit
    BY <2>1 DEF LostForGood
  <2>3. Examining' = Examining /\ \A q \in Examining : req'[q] = req[q]
    BY <2>1 DEF Examining, Successor
  <2>4. LostForGood'
    BY <2>1, <2>3 DEF LostForGood, Spendable, Examining
  <2>5. ReuseIsNeverMissed'
    BY <2>1, <2>2, <2>3 DEF ReuseIsNeverMissed, Spendable
  <2>. QED BY <2>1, <2>4, <2>5, <1>a
<1>2. ASSUME NEW r \in Request, NEW t \in Token, UseLost(r, t) PROVE DetectionInv'
  <2>1. /\ ~Spendable(t) /\ req[r].at = "idle"
        /\ presented' = presented \cup {t} /\ forfeit' = forfeit \cup ({t} \cap presented)
        /\ UNCHANGED <<rows, family, spent, revoked, expired, closed, missed>>
        /\ req' = [req EXCEPT ![r] = At("lookup", t, None, None)]
    BY <1>2 DEF UseLost
  <2>2. /\ r \in Examining' /\ req'[r].token = t
        /\ \A q \in Examining : q \in Examining' /\ req'[q] = req[q]
    BY <2>1 DEF Examining
  <2>3. LostForGood'
    BY <2>1 DEF LostForGood, Spendable
  <2>4. ReuseIsNeverMissed'
    BY <2>1, <2>2 DEF ReuseIsNeverMissed
  <2>. QED BY <2>1, <2>3, <2>4, <1>a
<1>3. ASSUME NEW r \in Request, NEW t \in Token, NEW b \in BOOLEAN, Issue(r, t, b)
      PROVE  DetectionInv'
  <2>1. /\ req[r].at = "issue" /\ family[t] = None /\ rows' = rows \cup {t}
        /\ family' = [family EXCEPT ![t] = req[r].family]
        /\ req' = [req EXCEPT ![r] = Idle]
        /\ UNCHANGED <<spent, revoked, expired, presented, forfeit, closed, missed>>
    BY <1>3 DEF Issue
  <2>2. /\ t \notin Minted
        /\ \A q \in Minted : q # t /\ family'[q] = family[q]
    BY <2>1 DEF Minted
  <2>3. Examining' = Examining /\ \A q \in Examining : req'[q] = req[q]
    BY <2>1 DEF Examining
  <2>4. LostForGood'
    BY <2>1, <2>2, <2>3 DEF LostForGood, Spendable, Examining
  <2>5. ReuseIsNeverMissed'
    BY <2>1, <2>2, <2>3 DEF ReuseIsNeverMissed
  <2>. QED BY <2>1, <2>2, <2>4, <2>5, <1>a
<1>4. ASSUME NEW r \in Request, Lookup(r) PROVE DetectionInv'
  <2>1. /\ req[r].at = "lookup"
        /\ UNCHANGED <<rows, family, spent, revoked, expired, presented, forfeit, closed, missed>>
        /\ \A q \in Request \ {r} : req'[q] = req[q]
        /\ IF Reused(req[r].token)
           THEN req'[r] = At("revoke", req[r].token, family[req[r].token], None)
           ELSE req'[r] = Idle
    BY <1>4 DEF Lookup
  <2>2. LostForGood'
    BY <2>1 DEF LostForGood, Spendable
  <2>3. ~Reused(req[r].token) /\ req[r].token \in rows =>
            req[r].token \in revoked \cup (expired \ spent)
    BY <2>1 DEF LostForGood, Spendable, Reused
  <2>4. \A q \in Examining : \/ q \in Examining' /\ req'[q].token = req[q].token
                             \/ q = r /\ ~Reused(req[r].token)
    BY <2>1 DEF Examining
  <2>5. ReuseIsNeverMissed'
    BY <2>1, <2>3, <2>4 DEF ReuseIsNeverMissed
  <2>. QED BY <2>1, <2>2, <2>5, <1>a
<1>5. ASSUME NEW r \in Request, NEW t \in Token, Logout(r, t) PROVE DetectionInv'
  <2>1. /\ req[r].at = "idle"
        /\ presented' = presented \cup {t} /\ forfeit' = forfeit \cup {t}
        /\ UNCHANGED <<rows, family, spent, revoked, expired, closed, missed>>
        /\ req' = [req EXCEPT ![r] = At("revoke", t, family[t], None)]
    BY <1>5 DEF Logout
  <2>2. /\ r \in Examining' /\ req'[r].token = t
        /\ \A q \in Examining : q \in Examining' /\ req'[q] = req[q]
    BY <2>1 DEF Examining
  <2>3. LostForGood'
    BY <2>1 DEF LostForGood, Spendable
  <2>4. ReuseIsNeverMissed'
    BY <2>1, <2>2 DEF ReuseIsNeverMissed
  <2>. QED BY <2>1, <2>3, <2>4, <1>a
<1>6. ASSUME NEW r \in Request, Revoke(r) PROVE DetectionInv'
  <2>1. /\ req[r].at = "revoke"
        /\ revoked' = revoked \cup {t \in rows : family[t] = req[r].family}
        /\ closed' = closed \cup {req[r].family}
        /\ UNCHANGED <<rows, family, spent, expired, presented, forfeit, missed>>
        /\ req' = [req EXCEPT ![r] = Idle]
    BY <1>6 DEF Revoke
  <2>2. family[req[r].token] = req[r].family
    BY <2>1 DEF ReasonInv, RevocationInProgress
  <2>3. LostForGood'
    BY <2>1 DEF LostForGood, Spendable
  <2>4. \A q \in Examining : \/ q \in Examining' /\ req'[q] = req[q]
                             \/ q = r
    BY <2>1 DEF Examining
  <2>5. ReuseIsNeverMissed'
    BY <2>1, <2>2, <2>4 DEF ReuseIsNeverMissed
  <2>. QED BY <2>1, <2>3, <2>5, <1>a
\* Whatever else happens only ends requests, and what ends one that examines a
\* token is counted; rows expire or go.
<1>7. ASSUME UNCHANGED <<family, spent, revoked, presented, forfeit, closed>>,
             missed \subseteq missed', rows' \subseteq rows,
             \A t \in rows' : t \in expired => t \in expired',
             \A q \in Request : req'[q].at \in {"idle", "issue"} \/ req'[q] = req[q],
             \A q \in Examining : \/ q \in Examining' /\ req'[q] = req[q]
                                  \/ family[req[q].token] \in missed'
      PROVE  DetectionInv'
  <2>1. LostForGood'
    BY <1>7 DEF LostForGood, Spendable
  <2>2. ReuseIsNeverMissed'
    BY <1>7 DEF ReuseIsNeverMissed
  <2>. QED BY <1>7, <2>1, <2>2, <1>a
<1>8. ASSUME NEW r \in Request, NEW u \in User, NEW f \in Family, StartSession(r, u, f)
      PROVE  DetectionInv'
  <2>1. \A q \in Examining : q \in Examining' /\ req'[q] = req[q]
    BY <1>8 DEF StartSession, Examining
  <2>. QED BY <1>8, <2>1, <1>7 DEF StartSession
<1>9. ASSUME NEW r \in Request, IssueFailed(r) \/ GiveUp(r) PROVE DetectionInv'
  <2>1. \A q \in Examining : \/ q \in Examining' /\ req'[q] = req[q]
                             \/ family[req[q].token] \in missed'
    BY <1>9 DEF IssueFailed, GiveUp, Examining
  <2>. QED BY <1>9, <2>1, <1>7 DEF IssueFailed, GiveUp
<1>10. CASE Crash
  BY <1>10, <1>7 DEF Crash
<1>11. ASSUME NEW t \in Token, Expire(t) PROVE DetectionInv'
  BY <1>11, <1>7 DEF Expire, Examining
<1>12. ASSUME NEW old \in SUBSET Token, Sweep(old) PROVE DetectionInv'
  BY <1>12, <1>7 DEF Sweep, Examining
<1>13. CASE UNCHANGED vars
  BY <1>13, <1>7 DEF vars, Examining
<1>. QED
  BY <1>1, <1>2, <1>3, <1>4, <1>5, <1>6, <1>8, <1>9, <1>10, <1>11, <1>12, <1>13
  DEF Next, Step

THEOREM Invariant == Spec => []IInv
<1>1. Init => IInv
  BY InitInv
<1>2. IInv /\ [Next]_vars => IInv'
  BY TypeStep, ChainStep, ReasonStep, ClosedStep, DetectionStep DEF IInv
<1>. QED BY <1>1, <1>2, PTL DEF Spec

-------------------------------------------------------------------------------
(* What follows for every behaviour.                                       *)

\* TypeOK: the tables and the requests are what session.go makes them.
THEOREM Typed == Spec => []TypeOK
  BY Invariant, PTL DEF IInv

\* OneUnspentPerChain: no interleaving of refreshes, logouts, sign-ins, sweeps
\* and crashes leaves a chain with two tokens to carry on from.
THEOREM Unique == Spec => []OneUnspentPerChain
<1>1. IInv => OneUnspentPerChain
  BY DEF IInv, ChainInv
<1>. QED BY <1>1, Invariant, PTL

\* ChainIsLinear: a token has at most one successor, ever.
THEOREM Linear == Spec => []ChainIsLinear
<1>1. IInv => ChainIsLinear
  BY DEF IInv, ChainInv
<1>. QED BY <1>1, Invariant, PTL

\* OneUserPerChain: a chain belongs to one user.
THEOREM Owned == Spec => []OneUserPerChain
<1>1. IInv => OneUserPerChain
  BY DEF IInv, ChainInv
<1>. QED BY <1>1, Invariant, PTL

\* NoFalseRevocation: nobody is signed out without a replay or a logout.
THEOREM Deserved == Spec => []NoFalseRevocation
<1>1. IInv => NoFalseRevocation
  BY DEF IInv, ReasonInv
<1>. QED BY <1>1, Invariant, PTL

\* DeadUnlessRaced: only a half done rotation outlives the revocation of its
\* chain; this is as much of "Logout revokes the whole chain" as holds.
THEOREM Closed == Spec => []DeadUnlessRaced
<1>1. IInv => DeadUnlessRaced
  BY DEF IInv, ClosedInv
<1>. QED BY <1>1, Invariant, PTL

\* A chain that is dead stays so: no later sign-in, rotation or revocation ever
\* makes it one that may be alive.
THEOREM ForGood == Spec => [][closed \ raced \subseteq closed' \ raced']_vars
<1>1. IInv /\ [Next]_vars => [closed \ raced \subseteq closed' \ raced']_vars
  <2> SUFFICES ASSUME IInv, Next PROVE closed \ raced \subseteq closed' \ raced'
    OBVIOUS
  <2>1. ASSUME NEW r \in Request, Revoke(r)
        PROVE  closed \ raced \subseteq closed' \ raced'
    BY <2>1 DEF Revoke, IInv, ClosedInv, DeadUnlessRaced
  <2>2. \/ \E r \in Request : Revoke(r)
        \/ UNCHANGED <<closed, raced>>
    BY DEF Next, Step, StartSession, UseWon, UseUnanswered, UseLost, Issue, IssueFailed,
           Lookup, Logout, GiveUp, Expire, Sweep, Crash, history, Count
  <2>. QED BY <2>1, <2>2
<1>. QED BY <1>1, Invariant, PTL DEF Spec

\* ReuseIsNeverMissed: as long as its row is there, a token that comes back
\* costs its chain, or the attempt to revoke it failed.
THEOREM Detected == Spec => []ReuseIsNeverMissed
<1>1. IInv => ReuseIsNeverMissed
  BY DEF IInv, DetectionInv
<1>. QED BY <1>1, Invariant, PTL

(* Detection and revocation together.  When two parties have presented one  *)
(* token, be it the client and a thief, and the request that noticed it is  *)
(* over, neither of them has anything to go on with, nor has anyone who     *)
(* holds another token of the chain: none can be spent, and no request is   *)
(* about to insert one.  Unless a statement failed, the process died, or a  *)
(* rotation was half done when the chain was revoked.                       *)
TheftEndsTheChain ==
    \A t \in forfeit \cap rows :
        /\ family[t] \notin missed \cup raced
        /\ \A r \in Examining : req[r].token # t
        => /\ Issuing(family[t]) = {}
           /\ \A s \in Token : Spendable(s) => family[s] # family[t]

\* TheftEndsTheChain, for any number of parties, tokens and requests: by then
\* the chain is closed, or its last token expired before anybody spent it.
THEOREM TheftEnds == Spec => []TheftEndsTheChain
<1>1. IInv => TheftEndsTheChain
  <2> SUFFICES ASSUME IInv, NEW t \in forfeit \cap rows,
                      family[t] \notin missed \cup raced,
                      \A r \in Examining : req[r].token # t
               PROVE  /\ Issuing(family[t]) = {}
                      /\ \A s \in Token : Spendable(s) => family[s] # family[t]
    BY DEF TheftEndsTheChain
  <2>1. family[t] \in closed \/ t \in expired \ spent
    BY DEF IInv, DetectionInv, ReuseIsNeverMissed
  <2>2. CASE family[t] \in closed
    BY <2>2 DEF IInv, ClosedInv, DeadUnlessRaced, Unspent, Spendable
  <2>3. CASE family[t] \notin closed /\ t \in expired \ spent
    <3>1. t \in Unspent /\ ~Spendable(t)
      BY <2>3 DEF IInv, DetectionInv, Unspent, Spendable
    <3>2. Issuing(family[t]) = {}
      BY <3>1 DEF IInv, ChainInv, RotationInProgress, Issuing
    <3>3. \A s \in Token : Spendable(s) => family[s] # family[t]
      BY <3>1 DEF IInv, ChainInv, OneUnspentPerChain, Unspent, Spendable
    <3>. QED BY <3>2, <3>3
  <2>. QED BY <2>1, <2>2, <2>3
<1>. QED BY <1>1, Invariant, PTL

\* Each statement is a step of TokenChain or invisible to it.
LEMMA ChainRefinementStep == IInv /\ [Next]_vars => [Chain!Next]_(Chain!vars)
<1> SUFFICES ASSUME IInv, [Next]_vars PROVE [Chain!Next]_(Chain!vars)
  OBVIOUS
<1> DEFINE L == {t \in Token : Spendable(t)}
           O == {f \in Family : Issuing(f) # {}}
<1>0. TypeOK /\ TypeOK' /\ ChainInv
  BY TypeStep DEF IInv
<1> USE NoneIsFresh, <1>0
    DEF TypeOK, Requests, Minted, At, Idle, table, history, Count
<1>1. ASSUME NEW r \in Request, NEW u \in User, NEW f \in Family, StartSession(r, u, f)
      PROVE  Chain!Next
  <2>1. L' = L
    BY <1>1 DEF StartSession, Spendable
  <2>2. O' = O \cup {f}
    BY <1>1 DEF StartSession, Issuing
  <2>. QED BY <1>1, <2>1, <2>2 DEF StartSession, FreshFamily, Chain!Open, Chain!Next
<1>2. ASSUME NEW r \in Request, NEW t \in Token, UseWon(r, t)
      PROVE  Chain!Next
  <2>1. t \in L /\ L' = L \ {t}
    BY <1>2 DEF UseWon, Spendable
  <2>2. O' = O \cup {family[t]}
    BY <1>2 DEF UseWon, Successor, Issuing, Spendable
  <2>3. family[t] \notin O
    BY <1>2 DEF UseWon, Spendable, Issuing, ChainInv, RotationInProgress, Unspent
  <2>. QED BY <1>2, <2>1, <2>2, <2>3 DEF UseWon, Chain!Spend, Chain!Next
<1>3. ASSUME NEW r \in Request, NEW t \in Token, NEW b \in BOOLEAN, Issue(r, t, b)
      PROVE  Chain!Next
  <2>1. L' = L \cup {t}
    BY <1>3 DEF Issue, Spendable
  <2>2. O' = O \ {req[r].family} /\ req[r].family \in O
    BY <1>3 DEF Issue, Issuing, ChainInv, RotationInProgress
  <2>3. \A s \in L : family[s] # req[r].family
    BY <1>3 DEF Issue, Spendable, ChainInv, RotationInProgress, Unspent
  <2>4. Chain!Mint(t, req[r].family)
    BY <1>3, <2>1, <2>2, <2>3 DEF Issue, Chain!Mint
  <2>. QED BY <2>2, <2>4 DEF Chain!Next
<1>4. ASSUME UNCHANGED family,
             rows' \subseteq rows, spent \subseteq spent', revoked \subseteq revoked',
             expired \subseteq expired' \cup (rows \ rows'),
             \A q \in Request : req'[q] = req[q] \/ req'[q].at # "issue"
      PROVE  Chain!Next
  <2>1. L' \subseteq L
    BY <1>4 DEF Spendable
  <2>2. O' \subseteq O
    BY <1>4 DEF Issuing
  <2>. QED BY <1>4, <2>1, <2>2 DEF Chain!Lose, Chain!Next
<1>5. ASSUME \/ \E r \in Request : \/ \E t \in Token : UseUnanswered(r, t)
                                   \/ \E t \in Token : UseLost(r, t)
                                   \/ \E t \in Token : Logout(r, t)
                                   \/ IssueFailed(r)
                                   \/ Lookup(r)
                                   \/ Revoke(r)
                                   \/ GiveUp(r)
             \/ \E t \in Token : Expire(t)
             \/ \E old \in SUBSET Token : Sweep(old)
             \/ Crash
             \/ UNCHANGED vars
      PROVE  Chain!Next
  BY <1>4, <1>5
  DEF UseUnanswered, UseLost, Logout, IssueFailed, Lookup, Revoke, GiveUp, Expire,
      Sweep, Crash, vars
<1>. QED
  BY <1>1, <1>2, <1>3, <1>5 DEF Next, Step

\* ImplementsTokenChain: seen through the tokens that can be spent and the
\* rotations under way, session.go is the chain of TokenChain.
THEOREM Implements == Spec => ImplementsTokenChain
<1>1. Init => Chain!Init
  BY DEF Init, Chain!Init, Spendable, Issuing, Idle
<1>. QED BY <1>1, ChainRefinementStep, Invariant, PTL DEF Spec, Chain!Spec, ImplementsTokenChain

-------------------------------------------------------------------------------
(* What TokenChain promises, from its own steps and nothing of the tables.  *)

Live == {t \in Token : Spendable(t)}
Owed == {f \in Family : Issuing(f) # {}}

\* A chain holds one thing of value at most: a token that can be spent, or
\* the right to the next one.
OneOfValue ==
    /\ \A s, t \in Live : family[s] = family[t] => s = t
    /\ \A t \in Live : family[t] \notin Owed

PromiseInv == /\ OneOfValue
              /\ family \in [Token -> Family \cup {None}]
              /\ \A t \in Live : family[t] # None

\* Whatever implements TokenChain, session.go among others, never multiplies
\* what a chain is worth: OneOfValue follows from the steps of the chain alone,
\* a sweep, a crash or an expiry being a loss.
THEOREM ChainPromise == ImplementsTokenChain => []OneOfValue
<1>1. Chain!Init => PromiseInv
  BY DEF Chain!Init, PromiseInv, OneOfValue, Live, Owed
<1>2. PromiseInv /\ [Chain!Next]_(Chain!vars) => PromiseInv'
  <2> SUFFICES ASSUME PromiseInv, [Chain!Next]_(Chain!vars) PROVE PromiseInv'
    OBVIOUS
  <2> USE NoneIsFresh DEF PromiseInv, OneOfValue
  <2>1. ASSUME NEW f \in Family, Chain!Open(f) PROVE PromiseInv'
    <3>1. Owed' = Owed \cup {f} /\ Live' = Live /\ family' = family
      BY <2>1 DEF Chain!Open, Live, Owed
    <3>2. \A t \in Live : family[t] # f
      BY <2>1 DEF Chain!Open, Live
    <3>. QED BY <3>1, <3>2
  <2>2. ASSUME NEW t \in Token, Chain!Spend(t) PROVE PromiseInv'
    <3>1. /\ t \in Live /\ Live' = Live \ {t}
          /\ Owed' = Owed \cup {family[t]} /\ family' = family
      BY <2>2 DEF Chain!Spend, Live, Owed
    <3>. QED BY <3>1
  <2>3. ASSUME NEW t \in Token, NEW f \in Family, Chain!Mint(t, f) PROVE PromiseInv'
    <3>1. /\ family[t] = None /\ \A s \in Live : family[s] # f
          /\ Live' = Live \cup {t} /\ Owed' = Owed \ {f}
          /\ family' = [family EXCEPT ![t] = f]
      BY <2>3 DEF Chain!Mint, Live, Owed
    <3>2. t \notin Live /\ Live \subseteq Token /\ f # None
      BY <3>1 DEF Live
    <3>3. family'[t] = f /\ \A s \in Live : family'[s] = family[s]
      BY <3>1, <3>2
    <3>. QED BY <3>1, <3>2, <3>3
  <2>4. ASSUME Chain!Lose PROVE PromiseInv'
    <3>1. Live' \subseteq Live /\ Owed' \subseteq Owed /\ family' = family
      BY <2>4 DEF Chain!Lose, Live, Owed
    <3>. QED BY <3>1
  <2>5. ASSUME UNCHANGED Chain!vars PROVE PromiseInv'
    <3>1. Live' = Live /\ Owed' = Owed /\ family' = family
      BY <2>5 DEF Chain!vars, Live, Owed
    <3>. QED BY <3>1
  <2>. QED BY <2>1, <2>2, <2>3, <2>4, <2>5 DEF Chain!Next
<1>3. PromiseInv => OneOfValue
  BY DEF PromiseInv
<1>. QED BY <1>1, <1>2, <1>3, PTL DEF ImplementsTokenChain, Chain!Spec
===============================================================================
