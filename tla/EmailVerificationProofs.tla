------------------------ MODULE EmailVerificationProofs ------------------------
(***************************************************************************)
(* The safety of EmailVerification for any number of users, links and      *)
(* concurrent requests, and that it implements Accounts.                   *)
(***************************************************************************)
EXTENDS EmailVerification, TLAPS

\* A request about to insert, and that no other insert has overtaken, is right
\* to believe that its user has no working link.
NoLinkWhileInserting ==
    \A r \in Request : req[r].at = "insert" /\ r \notin outdated =>
        \A l \in LinksOf(req[r].user) : l \in used

IInv == TypeOK /\ NoLinkWhileInserting /\ OlderLinksRetired

-------------------------------------------------------------------------------
LEMMA InitInv == Init => IInv
  BY NoneIsNoUserOrLink
  DEF Init, IInv, TypeOK, Requests, Idle, NoLinkWhileInserting, OlderLinksRetired, Usable

LEMMA TypeStep == TypeOK /\ [Next]_vars => TypeOK'
<1> SUFFICES ASSUME TypeOK, [Next]_vars PROVE TypeOK'
  OBVIOUS
<1> USE NoneIsNoUserOrLink DEF TypeOK, Requests, Idle, At, table, history
<1>1. ASSUME NEW r \in Request, NEW u \in User, Register(r, u) PROVE TypeOK'
  BY <1>1 DEF Register
<1>2. ASSUME NEW r \in Request, NEW u \in User, Resend(r, u) PROVE TypeOK'
  BY <1>2 DEF Resend, Unverified
<1>3. ASSUME NEW r \in Request, InvalidateEmailVerificationTokens(r) PROVE TypeOK'
  BY <1>3 DEF InvalidateEmailVerificationTokens, LinksOf
<1>4. ASSUME NEW r \in Request, NEW l \in Link, CreateVerificationToken(r, l)
      PROVE  TypeOK'
  BY <1>4 DEF CreateVerificationToken, Inserting
<1>5. ASSUME NEW r \in Request, SendEmailVerification(r) PROVE TypeOK'
  BY <1>5 DEF SendEmailVerification
<1>6. ASSUME NEW r \in Request, GiveUp(r) PROVE TypeOK'
  BY <1>6 DEF GiveUp
<1>7. ASSUME NEW l \in Link, VerifyEmail(l) PROVE TypeOK'
  BY <1>7 DEF VerifyEmail, Usable
<1>8. ASSUME NEW l \in Link, Expire(l) PROVE TypeOK'
  BY <1>8 DEF Expire
<1>9. CASE Sweep
  BY <1>9 DEF Sweep
<1>10. CASE Crash
  BY <1>10 DEF Crash
<1>11. CASE UNCHANGED vars
  BY <1>11 DEF vars
<1>. QED
  BY <1>1, <1>2, <1>3, <1>4, <1>5, <1>6, <1>7, <1>8, <1>9, <1>10, <1>11 DEF Next

LEMMA LinkStep ==
  TypeOK /\ NoLinkWhileInserting /\ OlderLinksRetired /\ [Next]_vars
    => (NoLinkWhileInserting /\ OlderLinksRetired)'
<1> DEFINE Inv == NoLinkWhileInserting /\ OlderLinksRetired
<1> SUFFICES ASSUME TypeOK, Inv, [Next]_vars PROVE Inv'
  OBVIOUS
<1>0. TypeOK'
  BY TypeStep
<1> USE NoneIsNoUserOrLink, <1>0
    DEF TypeOK, Requests, Idle, At, table, history, NoLinkWhileInserting, OlderLinksRetired,
        LinksOf, Usable
<1>1. ASSUME NEW r \in Request, NEW u \in User, Register(r, u) PROVE Inv'
  <2>1. \A l \in Link : of[l] # u
    BY <1>1 DEF Register
  <2>. QED BY <1>1, <2>1 DEF Register
<1>2. ASSUME NEW r \in Request, InvalidateEmailVerificationTokens(r) PROVE Inv'
  BY <1>2 DEF InvalidateEmailVerificationTokens
<1>3. ASSUME NEW r \in Request, NEW l \in Link, CreateVerificationToken(r, l)
      PROVE  Inv'
  <2> DEFINE u == req[r].user
  <2>1. /\ req[r].at = "insert" /\ u \in users
        /\ of' = [of EXCEPT ![l] = u] /\ used' = used /\ expired' = expired
        /\ newest' = [newest EXCEPT ![u] = l]
        /\ outdated' = (outdated \cup Inserting(u)) \ {r}
        /\ overlapped' = IF r \in outdated THEN overlapped \cup {u} ELSE overlapped
        /\ req' = [req EXCEPT ![r] = At("mail", u, l)]
    BY <1>3 DEF CreateVerificationToken
  <2>2. NoLinkWhileInserting'
    BY <2>1 DEF Inserting
  <2>3. OlderLinksRetired'
    <3>1. ASSUME NEW k \in Link, k # l, Usable(k)'
          PROVE  Usable(k) /\ of'[k] = of[k] /\ (of[k] = u => r \in outdated)
      BY <2>1, <3>1
    <3>2. ASSUME NEW k \in Link, k # l, Usable(k)', of[k] # u
          PROVE  k = newest'[of[k]] \/ of[k] \in overlapped'
      BY <2>1, <3>1, <3>2
    <3>. QED BY <2>1, <3>1, <3>2
  <2>. QED BY <2>2, <2>3
<1>4. ASSUME UNCHANGED <<of, newest, overlapped>>,
             used \subseteq used', expired \subseteq expired',
             \A q \in Request : \/ req'[q] = req[q] /\ (q \in outdated => q \in outdated')
                                \/ req'[q].at # "insert"
      PROVE  Inv'
  BY <1>4
<1>5. ASSUME NEW r \in Request, \E u \in User : Resend(r, u) PROVE Inv'
  BY <1>4, <1>5 DEF Resend
<1>6. ASSUME NEW r \in Request, SendEmailVerification(r) PROVE Inv'
  BY <1>4, <1>6 DEF SendEmailVerification
<1>7. ASSUME NEW r \in Request, GiveUp(r) PROVE Inv'
  BY <1>4, <1>7 DEF GiveUp
<1>8. ASSUME NEW l \in Link, VerifyEmail(l) \/ Expire(l) PROVE Inv'
  BY <1>4, <1>8 DEF VerifyEmail, Expire
<1>9. CASE Sweep
  <2>1. \A l \in Link : of'[l] = of[l] \/ of'[l] = None
    BY <1>9 DEF Sweep
  <2>2. \A l \in Link : of'[l] # None => (l \in used <=> l \in used') /\ l \notin expired
    BY <1>9 DEF Sweep
  <2>3. \A q \in Request : req'[q].at = req[q].at /\ req'[q].user = req[q].user
    BY <1>9 DEF Sweep
  <2>. QED BY <1>9, <2>1, <2>2, <2>3 DEF Sweep
<1>10. CASE Crash
  BY <1>4, <1>10 DEF Crash
<1>11. CASE UNCHANGED vars
  BY <1>4, <1>11 DEF vars
<1>. QED
  BY <1>1, <1>2, <1>3, <1>5, <1>6, <1>7, <1>8, <1>9, <1>10, <1>11 DEF Next

THEOREM Invariant == Spec => []IInv
<1>1. Init => IInv
  BY InitInv
<1>2. IInv /\ [Next]_vars => IInv'
  BY TypeStep, LinkStep DEF IInv
<1>. QED BY <1>1, <1>2, PTL DEF Spec

\* TypeOK: a link has a row of an account, a request the user it serves.
THEOREM Typed == Spec => []TypeOK
  BY Invariant, PTL DEF IInv

\* OlderLinksRetired: without an overlap, the newest link is the one that works.
THEOREM Retired == Spec => []OlderLinksRetired
<1>1. IInv => OlderLinksRetired
  BY DEF IInv
<1>. QED BY <1>1, Invariant, PTL

-------------------------------------------------------------------------------
\* To Accounts, creating a user is Register, consuming a link is VerifyEmail
\* and all the rest is invisible.
LEMMA AccountStep == IInv /\ [Next]_vars => [Account!Next]_(Account!vars)
<1> SUFFICES ASSUME IInv, [Next]_vars PROVE [Account!Next]_(Account!vars)
  OBVIOUS
<1> USE DEF IInv, table, history, Account!vars, Account!table, Account!history
<1>1. ASSUME NEW r \in Request, NEW u \in User, Register(r, u) PROVE Account!Next
  <2>1. Account!Register(u)
    BY <1>1 DEF Register, Account!Register
  <2>. QED BY <2>1 DEF Account!Next
<1>2. ASSUME NEW l \in Link, VerifyEmail(l) PROVE Account!Next
  <2>1. of[l] \in users /\ of[l] \in User
    BY <1>2 DEF VerifyEmail, Usable, TypeOK
  <2>2. Account!VerifyEmail(of[l])
    BY <1>2, <2>1 DEF VerifyEmail, Account!VerifyEmail
  <2>. QED BY <2>1, <2>2 DEF Account!Next
<1>3. ASSUME \/ \E r \in Request : \/ \E u \in User : Resend(r, u)
                                   \/ InvalidateEmailVerificationTokens(r)
                                   \/ \E l \in Link : CreateVerificationToken(r, l)
                                   \/ SendEmailVerification(r)
                                   \/ GiveUp(r)
             \/ \E l \in Link : Expire(l)
             \/ Sweep
             \/ Crash
             \/ UNCHANGED vars
      PROVE  UNCHANGED Account!vars
  BY <1>3
  DEF Resend, InvalidateEmailVerificationTokens, CreateVerificationToken,
      SendEmailVerification, GiveUp, Expire, Sweep, Crash, vars
<1>. QED BY <1>1, <1>2, <1>3 DEF Next

\* ImplementsAccounts: an address is proven only by a link of an account that
\* registered it, as Accounts has it.
THEOREM Implements == Spec => ImplementsAccounts
<1>1. Init => Account!Init
  BY DEF Init, Account!Init
<1>. QED BY <1>1, AccountStep, Invariant, PTL DEF Spec, Account!Spec, ImplementsAccounts
===============================================================================
