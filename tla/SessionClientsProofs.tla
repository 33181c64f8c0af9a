------------------------- MODULE SessionClientsProofs -------------------------
(***************************************************************************)
(* The safety properties of SessionClients, for any number of clients, and *)
(* that handlers and clients ask nothing of the server that RefreshChains  *)
(* does not know: what is proved of RefreshChains holds here.              *)
(***************************************************************************)
EXTENDS SessionClients, RefreshChainsProofs

\* Every step of the system is a step of the server or invisible to it.
LEMMA ServerStep == [ClientNext]_clientVars => [Next]_vars
<1> SUFFICES ASSUME [ClientNext]_clientVars PROVE [Next]_vars
  OBVIOUS
<1>1. ASSUME NEW c \in Client, NEW r \in Request, NEW t \in Token, NEW s \in Form,
             NEW p \in {"web", "app"}, RefreshSession(c, r, t, s, p)
      PROVE  [Next]_vars
  BY <1>1 DEF RefreshSession, Next, Step
<1>2. ASSUME NEW r \in Request, NoSession(r) PROVE [Next]_vars
  <2>1. IssueFailed(r) \/ \E t \in Token : Issue(r, t, FALSE)
    BY <1>2 DEF NoSession
  <2>. QED BY <2>1 DEF Next, Step
<1>3. ASSUME NEW r \in Request, NEW t \in Token, SessionResponse(r, t)
      PROVE  [Next]_vars
  BY <1>3 DEF SessionResponse, Next, Step
<1>4. ASSUME NEW c \in Client, NEW r \in Request, NEW u \in User, NEW f \in Family,
             NEW p \in {"web", "app"}, SignIn(c, r, u, f, p)
      PROVE  [Next]_vars
  BY <1>4 DEF SignIn, Next, Step
<1>5. ASSUME NEW c \in Client, NEW r \in Request, NEW t \in Token, NEW s \in Form,
             LogoutSession(c, r, t, s)
      PROVE  [Next]_vars
  BY <1>5 DEF LogoutSession, Next, Step
<1>6. ASSUME NEW r \in Request, Examine(r) \/ EndOfChain(r) PROVE [Next]_vars
  BY <1>6 DEF Examine, EndOfChain, Next, Step
<1>7. CASE Background \/ Restart
  BY <1>7 DEF Background, Restart, Next
<1>8. ASSUME \/ \E c \in Client : LogoutNothing(c) \/ DropCookie(c)
             \/ \E m \in wire : Deliver(m) \/ Lose(m)
             \/ UNCHANGED clientVars
      PROVE  [Next]_vars
  BY <1>8 DEF LogoutNothing, DropCookie, Deliver, Lose, clientVars, clients, account
<1>. QED
  BY <1>1, <1>2, <1>3, <1>4, <1>5, <1>6, <1>7, <1>8 DEF ClientNext

(* The system implements RefreshChains: handlers and clients, at whatever   *)
(* moment they ask, lead the server through its own steps only, so that all *)
(* that RefreshChainsProofs proves of Spec holds of ClientSpec.             *)
THEOREM ClientsImplementServer == ClientSpec => Spec
<1>1. ClientInit => Init
  BY DEF ClientInit
<1>. QED BY <1>1, ServerStep, PTL DEF ClientSpec, Spec

(* And so a chain of tokens, as its clients see it through the handlers, is *)
(* the one TokenChain promises.                                             *)
THEOREM ClientsImplementChain == ClientSpec => ImplementsTokenChain
  BY ClientsImplementServer, Implements

\* The server's own invariant comes with its steps.
LEMMA ServerInv == ClientSpec => []IInv
  BY ClientsImplementServer, Invariant, PTL

(* Nor do the handlers weaken what protects a session: no two tokens of a   *)
(* chain can be carried on, a token that comes back is never overlooked,    *)
(* and a chain ended for one of these reasons is over.                      *)
THEOREM SafeBehindHandlers ==
    ClientSpec => [](/\ OneUnspentPerChain /\ ChainIsLinear /\ NoFalseRevocation
                     /\ ReuseIsNeverMissed /\ DeadUnlessRaced /\ TheftEndsTheChain)
  BY ClientsImplementServer, Unique, Linear, Deserved, Detected, Closed, TheftEnds, PTL

-------------------------------------------------------------------------------
(* Types, and the transport of a chain.                                    *)

\* A request that is to insert the next token will send it where the others went.
SameWay ==
    \A r \in Request : req[r].at = "issue" =>
        /\ asked[r].form = "cookie" => asked[r].platform = "web"
        /\ \A t \in Minted : family[t] = req[r].family =>
              holder[t] = asked[r].client /\ form[t] = asked[r].form

TransportInv == ClientTypeOK /\ SameWay /\ OneTransportPerChain

LEMMA TransportInit == ClientInit => TransportInv
  BY NoneIsFresh, NoneIsNoClient, NoneIsNoForm
  DEF ClientInit, Init, Idle, Nobody, TransportInv, ClientTypeOK, HeldOK, WireOK, AskedOK,
      LedgerOK, SameWay, OneTransportPerChain, Minted, Form

\* What was handed over stays so.
Kept == \A t \in delivered : t \in delivered' /\ holder'[t] = holder[t] /\ form'[t] = form[t]

\* No request gets as far as inserting a token, or changes its way while there.
NoNewIssue == \A r \in Request : req'[r].at = "issue" =>
                  /\ req[r].at = "issue" /\ req'[r].family = req[r].family
                  /\ asked'[r] = asked[r]

LEMMA HeldKept == HeldOK /\ Kept /\ UNCHANGED <<jar, memory>> => HeldOK'
  BY NoneIsFresh DEF HeldOK, Kept, HandedOver

LEMMA WireKept ==
    ASSUME WireOK, Kept,
           \A m \in wire' \ wire : /\ m \in [to : Client, form : Form \cup {"clear"},
                                             token : Token \cup {None}]
                                   /\ m.form \notin Form
    PROVE  WireOK'
  BY DEF WireOK, Kept, HandedOver

\* Most steps leave the ledger alone.
LEMMA Quiet ==
    ASSUME TransportInv, NoNewIssue, UNCHANGED <<family, ledger>>
    PROVE  SameWay' /\ OneTransportPerChain'
  BY DEF TransportInv, SameWay, OneTransportPerChain, NoNewIssue, ledger, Minted

LEMMA TransportStep == IInv /\ IInv' /\ TransportInv /\ [ClientNext]_clientVars
                       => TransportInv'
<1> SUFFICES ASSUME IInv, IInv', TransportInv, [ClientNext]_clientVars
             PROVE  TransportInv'
  OBVIOUS
<1>a. /\ TypeOK /\ TypeOK' /\ RotationInProgress
      /\ HeldOK /\ WireOK /\ AskedOK /\ LedgerOK /\ SameWay /\ OneTransportPerChain
  BY DEF IInv, ChainInv, TransportInv, ClientTypeOK
<1>b. req \in [Request -> Requests] /\ delivered \subseteq Token
  BY <1>a DEF TypeOK, Minted
<1>c. ASSUME HeldOK', WireOK', AskedOK', LedgerOK', SameWay', OneTransportPerChain'
      PROVE  TransportInv'
  BY <1>c DEF TransportInv, ClientTypeOK
<1> USE <1>a, <1>b, NoneIsFresh, NoneIsNoClient, NoneIsNoForm
<1>1. ASSUME NEW c \in Client, NEW r \in Request, NEW u \in User, NEW f \in Family,
             NEW p \in {"web", "app"}, SignIn(c, r, u, f, p)
      PROVE  TransportInv'
  <2>1. /\ UNCHANGED <<jar, memory, wire, ledger, left, disturbed, family, delivered>>
        /\ FreshFamily(f)
        /\ req' = [req EXCEPT ![r] = At("issue", None, f, u)]
        /\ asked' = [asked EXCEPT ![r] =
               [client |-> c, platform |-> p,
                form |-> IF p = "web" THEN "cookie" ELSE "body"]]
    BY <1>1 DEF SignIn, StartSession, table, account
  <2>2. Kept
    BY <2>1 DEF Kept, ledger
  <2>3. HeldOK' /\ WireOK' /\ LedgerOK'
    BY <2>1, <2>2, HeldKept, WireKept DEF LedgerOK, ledger
  <2>4. AskedOK'
    BY <2>1 DEF AskedOK, At, Form
  <2>5. SameWay' /\ OneTransportPerChain'
    BY <2>1 DEF SameWay, OneTransportPerChain, AskedOK, FreshFamily, Minted, At, ledger
  <2>. QED BY <2>3, <2>4, <2>5, <1>c
<1>2. ASSUME NEW c \in Client, NEW r \in Request, NEW t \in Token, NEW s \in Form,
             NEW p \in {"web", "app"}, RefreshSession(c, r, t, s, p)
      PROVE  TransportInv'
  <2>1. HandedOver(t, c, s)
    BY <1>2 DEF RefreshSession, Presents, HeldOK, Form
  <2>2. family[t] \in Family /\ t \in Minted
    BY <2>1 DEF TypeOK, HandedOver, Minted
  <2>3. /\ UNCHANGED <<jar, memory, wire, ledger, left, family, delivered>>
        /\ disturbed' \subseteq disturbed \cup {family[t]}
    BY <1>2 DEF RefreshSession, UseWon, UseLost, UseUnanswered, table
  <2>4. \/ UNCHANGED <<req, asked>>
        \/ /\ \/ req' = [req EXCEPT ![r] = At("issue", t, family[t], user[t])]
              \/ req' = [req EXCEPT ![r] = At("lookup", t, None, None)]
           /\ asked' = [asked EXCEPT ![r] =
                  [client |-> c, form |-> s,
                   platform |-> IF s = "cookie" THEN "web" ELSE p]]
    BY <1>2 DEF RefreshSession, UseWon, UseLost, UseUnanswered, Successor, Asks,
                AnswerForm, PlatformOf
  <2>5. Kept
    BY <2>3 DEF Kept, ledger
  <2>6. HeldOK' /\ WireOK' /\ LedgerOK'
    BY <2>2, <2>3, <2>5, HeldKept, WireKept DEF LedgerOK, ledger
  <2>7. AskedOK'
    <3>1. CASE UNCHANGED <<req, asked>>
      BY <3>1 DEF AskedOK
    <3>2. CASE /\ req'[r].at \in {"issue", "lookup"}
               /\ \A q \in Request \ {r} : req'[q] = req[q]
               /\ asked' = [asked EXCEPT ![r] =
                      [client |-> c, form |-> s,
                       platform |-> IF s = "cookie" THEN "web" ELSE p]]
      BY <3>2 DEF AskedOK, Form
    <3>. QED BY <2>4, <3>1, <3>2 DEF At
  <2>8. SameWay' /\ OneTransportPerChain'
    BY <2>1, <2>2, <2>3, <2>4 DEF SameWay, OneTransportPerChain, AskedOK, HandedOver, Minted,
                                  At, ledger
  <2>. QED BY <2>6, <2>7, <2>8, <1>c
<1>3. ASSUME NEW c \in Client, NEW r \in Request, NEW t \in Token, NEW s \in Form,
             LogoutSession(c, r, t, s)
      PROVE  TransportInv'
  <2>1. /\ UNCHANGED <<jar, memory, wire, ledger, left, family, delivered>>
        /\ disturbed' = disturbed \cup {family[t]} /\ t \in delivered
        /\ req' = [req EXCEPT ![r] = At("revoke", t, family[t], None)]
        /\ asked' = [asked EXCEPT ![r] =
                        [client |-> c, form |-> "clear", platform |-> None]]
    BY <1>3 DEF LogoutSession, Logout, table, Nobody
  <2>2. family[t] \in Family
    BY <2>1 DEF TypeOK, Minted
  <2>3. Kept /\ NoNewIssue
    BY <2>1 DEF Kept, NoNewIssue, At, ledger, AskedOK
  <2>4. HeldOK' /\ WireOK' /\ LedgerOK'
    BY <2>1, <2>2, <2>3, HeldKept, WireKept DEF LedgerOK, ledger
  <2>5. AskedOK'
    BY <2>1 DEF AskedOK, At, Form
  <2>. QED BY <2>1, <2>3, <2>4, <2>5, <1>c, Quiet
<1>4. ASSUME NEW r \in Request, NEW t \in Token,
             Issue(r, t, TRUE) \/ Issue(r, t, FALSE), Enter(r, t), Forget(r), UNCHANGED <<jar, memory, left>>,
             disturbed' \subseteq Family,
             \/ wire' = wire
             \/ /\ Issue(r, t, TRUE)
                /\ wire' = wire \cup {Answer(asked[r].client, asked[r].form, t)}
      PROVE  TransportInv'
  <2>1. /\ req[r].at = "issue" /\ family[t] = None
        /\ req' = [req EXCEPT ![r] = Idle]
        /\ asked' = [asked EXCEPT ![r] = Nobody]
        /\ family' = [family EXCEPT ![t] = req[r].family]
        /\ delivered' = delivered \/ delivered' = delivered \cup {t}
    BY <1>4 DEF Issue, Forget
  <2>2. /\ t \notin delivered /\ req[r].family \in Family
        /\ \A q \in Minted' : q # t => q \in Minted /\ family'[q] = family[q]
        /\ family'[t] = req[r].family
    BY <2>1 DEF TypeOK, Minted, Requests
  <2>3. /\ asked[r].client \in Client /\ asked[r].form \in Form
        /\ asked[r].platform \in {"web", "app"}
    BY <2>1 DEF AskedOK, Form
  <2>4. /\ holder' = [holder EXCEPT ![t] = asked[r].client]
        /\ form' = [form EXCEPT ![t] = asked[r].form]
        /\ lifetime' = [lifetime EXCEPT ![t] = asked[r].platform]
    BY <1>4 DEF Enter
  <2>5. Kept
    BY <2>1, <2>2, <2>4 DEF Kept, LedgerOK
  <2>6. HeldOK' /\ LedgerOK'
    <3>1. LedgerOK'
      BY <1>4, <2>3, <2>4 DEF LedgerOK
    <3>. QED BY <1>4, <2>5, <3>1, HeldKept
  <2>7. AskedOK'
    BY <2>1 DEF AskedOK, Idle, Nobody
  <2>8. WireOK'
    <3>1. CASE wire' = wire
      BY <3>1, <2>5, WireKept
    <3>2. CASE Issue(r, t, TRUE) /\ wire' = wire \cup {Answer(asked[r].client, asked[r].form, t)}
      <4>1. t \in delivered' /\ holder'[t] = asked[r].client /\ form'[t] = asked[r].form
        BY <3>2, <2>1, <2>4 DEF LedgerOK, Issue
      <4>2. \A m \in wire : m.form \in Form =>
                m.token \in delivered' /\ holder'[m.token] = m.to /\ form'[m.token] = m.form
        BY <2>5 DEF WireOK, Kept, HandedOver
      <4>3. Answer(asked[r].client, asked[r].form, t)
                \in [to : Client, form : Form \cup {"clear"}, token : Token \cup {None}]
        BY <2>3 DEF Answer
      <4>. QED BY <3>2, <4>1, <4>2, <4>3 DEF WireOK, HandedOver, Answer
    <3>. QED BY <1>4, <3>1, <3>2
  <2>9. SameWay'
    <3>1. ASSUME NEW q \in Request, req'[q].at = "issue"
          PROVE  /\ q # r /\ req'[q] = req[q] /\ asked'[q] = asked[q]
                 /\ req[q].family # req[r].family
      BY <3>1, <2>1, <2>2 DEF RotationInProgress, Issuing, Idle, AskedOK
    <3>. QED BY <3>1, <2>2, <2>4 DEF SameWay, LedgerOK, Minted
  <2>10. OneTransportPerChain'
    <3>1. /\ asked[r].form = "cookie" => asked[r].platform = "web"
          /\ \A s \in Minted : family[s] = req[r].family =>
                holder[s] = asked[r].client /\ form[s] = asked[r].form
      BY <2>1 DEF SameWay
    <3>. QED BY <3>1, <2>2, <2>4 DEF OneTransportPerChain, LedgerOK, Minted
  <2>. QED BY <2>6, <2>7, <2>8, <2>9, <2>10, <1>c
<1>5. ASSUME NEW r \in Request, NEW t \in Token, SessionResponse(r, t)
      PROVE  TransportInv'
  BY <1>4, <1>5 DEF SessionResponse, LedgerOK
<1>6. ASSUME NEW r \in Request, NoSession(r) PROVE TransportInv'
  <2>1. /\ disturbed' = disturbed \cup {req[r].family} /\ Forget(r)
        /\ UNCHANGED <<jar, memory, wire, left>> /\ req[r].at = "issue"
    BY <1>6 DEF NoSession, IssueFailed, Issue
  <2>2. disturbed' \subseteq Family
    BY <2>1 DEF LedgerOK, TypeOK, Requests
  <2>3. CASE IssueFailed(r) /\ UNCHANGED ledger
    <3>1. /\ UNCHANGED <<family, delivered, ledger>>
          /\ req' = [req EXCEPT ![r] = Idle] /\ asked' = [asked EXCEPT ![r] = Nobody]
      BY <2>1, <2>3 DEF IssueFailed, table, Forget
    <3>2. Kept /\ NoNewIssue
      BY <3>1 DEF Kept, NoNewIssue, Idle, ledger, AskedOK
    <3>3. HeldOK' /\ WireOK' /\ LedgerOK'
      BY <2>1, <2>2, <3>1, <3>2, HeldKept, WireKept DEF LedgerOK, ledger
    <3>4. AskedOK'
      BY <3>1 DEF AskedOK, Idle, Nobody
    <3>. QED BY <3>1, <3>2, <3>3, <3>4, <1>c, Quiet
  <2>4. ASSUME NEW t \in Token, Issue(r, t, FALSE), Enter(r, t) PROVE TransportInv'
    BY <1>4, <2>1, <2>2, <2>4
  <2>. QED BY <1>6, <2>3, <2>4 DEF NoSession
<1>7. ASSUME NEW r \in Request, Examine(r) PROVE TransportInv'
  <2>1. /\ UNCHANGED <<jar, memory, wire, ledger, left, disturbed, family, delivered>>
        /\ \/ /\ req' = [req EXCEPT ![r] = At("revoke", req[r].token, family[req[r].token], None)]
              /\ asked' = asked
           \/ /\ req' = [req EXCEPT ![r] = Idle]
              /\ asked' = [asked EXCEPT ![r] = Nobody]
    BY <1>7 DEF Examine, Lookup, Forget, table, account
  <2>2. Kept /\ NoNewIssue
    BY <2>1 DEF Kept, NoNewIssue, Idle, At, ledger, AskedOK
  <2>3. HeldOK' /\ WireOK' /\ LedgerOK'
    BY <2>1, <2>2, HeldKept, WireKept DEF LedgerOK, ledger
  <2>4. AskedOK'
    BY <2>1, <2>2 DEF AskedOK, NoNewIssue, Nobody
  <2>. QED BY <2>1, <2>2, <2>3, <2>4, <1>c, Quiet
<1>8. ASSUME NEW r \in Request, EndOfChain(r) PROVE TransportInv'
  <2>1. /\ UNCHANGED <<jar, memory, ledger, left, disturbed, family, delivered>>
        /\ req' = [req EXCEPT ![r] = Idle] /\ asked' = [asked EXCEPT ![r] = Nobody]
    BY <1>8 DEF EndOfChain, Revoke, GiveUp, Forget, table, account
  <2>2. Kept /\ NoNewIssue
    BY <2>1 DEF Kept, NoNewIssue, Idle, ledger, AskedOK
  <2>3. \A m \in wire' \ wire : /\ m \in [to : Client, form : Form \cup {"clear"},
                                          token : Token \cup {None}]
                                /\ m.form \notin Form
    BY <1>8 DEF EndOfChain, AskedOK, Answer, Form
  <2>4. HeldOK' /\ WireOK' /\ LedgerOK'
    BY <2>1, <2>2, <2>3, HeldKept, WireKept DEF LedgerOK, ledger
  <2>5. AskedOK'
    BY <2>1 DEF AskedOK, Idle, Nobody
  <2>. QED BY <2>1, <2>2, <2>4, <2>5, <1>c, Quiet
\* The others leave the requests alone, or put them all back.
<1>9. ASSUME UNCHANGED <<family, delivered, ledger>>,
             \/ UNCHANGED <<req, asked>>
             \/ req' = [r \in Request |-> Idle] /\ asked' = [r \in Request |-> Nobody],
             HeldOK', disturbed' \subseteq Family,
             left' \in [Client -> {"no", "yes", "overtaking"}],
             \A m \in wire' \ wire : /\ m \in [to : Client, form : Form \cup {"clear"},
                                               token : Token \cup {None}]
                                     /\ m.form \notin Form
      PROVE  TransportInv'
  <2>1. Kept /\ NoNewIssue
    BY <1>9 DEF Kept, NoNewIssue, Idle, ledger
  <2>2. WireOK' /\ LedgerOK'
    BY <1>9, <2>1, WireKept DEF LedgerOK, ledger
  <2>3. AskedOK'
    BY <1>9 DEF AskedOK, Idle, Nobody
  <2>. QED BY <1>9, <2>1, <2>2, <2>3, <1>c, Quiet
<1>10. ASSUME NEW m \in wire, Deliver(m) PROVE TransportInv'
  <2>1. /\ UNCHANGED <<family, delivered, ledger, req, asked, disturbed>>
        /\ wire' = wire \ {m}
    BY <1>10 DEF Deliver, vars, table
  <2>2. m \in [to : Client, form : Form \cup {"clear"}, token : Token \cup {None}]
    BY DEF WireOK
  <2>3. CASE m.form = "cookie"
    <3>1. /\ jar' = [jar EXCEPT ![m.to] = m.token] /\ memory' = memory
          /\ left' = left \/ left' = [left EXCEPT ![m.to] = "no"]
      BY <1>10, <2>3 DEF Deliver
    <3>2. HandedOver(m.token, m.to, "cookie")
      BY <2>3 DEF WireOK, Form
    <3>3. HeldOK'
      BY <2>1, <2>2, <3>1, <3>2 DEF HeldOK, HandedOver, ledger
    <3>. QED BY <2>1, <3>1, <3>3, <1>9 DEF LedgerOK
  <2>4. CASE m.form = "body"
    <3>1. /\ memory' = [memory EXCEPT ![m.to] = m.token] /\ jar' = jar /\ left' = left
      BY <1>10, <2>4 DEF Deliver
    <3>2. HandedOver(m.token, m.to, "body")
      BY <2>4 DEF WireOK, Form
    <3>3. HeldOK'
      BY <2>1, <2>2, <3>1, <3>2 DEF HeldOK, HandedOver, ledger
    <3>. QED BY <2>1, <3>1, <3>3, <1>9 DEF LedgerOK
  <2>5. CASE m.form = "clear"
    <3>1. /\ jar' = [jar EXCEPT ![m.to] = None] /\ memory' = memory
          /\ \/ left' = [left EXCEPT ![m.to] = "overtaking"]
             \/ left' = [left EXCEPT ![m.to] = "yes"]
      BY <1>10, <2>5 DEF Deliver, WithoutCookie
    <3>2. HeldOK'
      BY <2>1, <2>2, <3>1 DEF HeldOK, HandedOver, ledger
    <3>. QED BY <2>1, <2>2, <3>1, <3>2, <1>9 DEF LedgerOK
  <2>. QED BY <2>2, <2>3, <2>4, <2>5 DEF Form
<1>11. ASSUME NEW m \in wire, Lose(m) PROVE TransportInv'
  <2>1. /\ UNCHANGED <<family, delivered, ledger, req, asked, jar, memory, left>>
        /\ wire' = wire \ {m}
    BY <1>11 DEF Lose, vars, table
  <2>2. disturbed' \subseteq Family
    <3>1. m.form # "clear" => m.token \in Minted
      BY DEF WireOK, HandedOver, TypeOK
    <3>. QED BY <1>11, <3>1 DEF Lose, LedgerOK, TypeOK, Minted
  <2>3. HeldOK'
    BY <2>1 DEF HeldOK, HandedOver, ledger
  <2>. QED BY <2>1, <2>2, <2>3, <1>9 DEF LedgerOK
<1>12. CASE Restart
  <2>1. /\ UNCHANGED <<family, delivered, ledger, jar, memory, wire, left>>
        /\ req' = [r \in Request |-> Idle] /\ asked' = [r \in Request |-> Nobody]
    BY <1>12 DEF Restart, Crash, table
  <2>2. disturbed' \subseteq Family
    BY <1>12 DEF Restart, LedgerOK, TypeOK, Requests
  <2>3. HeldOK'
    BY <2>1 DEF HeldOK, HandedOver, ledger
  <2>. QED BY <2>1, <2>2, <2>3, <1>9 DEF LedgerOK
<1>13. CASE Background
  <2>1. UNCHANGED <<family, delivered, ledger, req, clients, left, disturbed>>
    BY <1>13 DEF Background, Expire, Sweep, account
  <2>2. HeldOK'
    BY <2>1 DEF HeldOK, HandedOver, ledger, clients
  <2>. QED BY <2>1, <2>2, <1>9 DEF LedgerOK, clients
<1>14. ASSUME NEW c \in Client, LogoutNothing(c) PROVE TransportInv'
  <2>1. /\ UNCHANGED <<family, delivered, ledger, req, asked, jar, memory, left, disturbed>>
        /\ wire' = wire \cup {Answer(c, "clear", None)}
    BY <1>14 DEF LogoutNothing, vars, table, account
  <2>2. HeldOK'
    BY <2>1 DEF HeldOK, HandedOver, ledger
  <2>. QED BY <2>1, <2>2, <1>9 DEF LedgerOK, Answer, Form
<1>15. ASSUME NEW c \in Client, DropCookie(c) PROVE TransportInv'
  <2>1. /\ UNCHANGED <<family, delivered, ledger, req, asked, memory, wire, left, disturbed>>
        /\ jar' = [jar EXCEPT ![c] = None]
    BY <1>15 DEF DropCookie, vars, table, account
  <2>2. HeldOK'
    BY <2>1 DEF HeldOK, HandedOver, ledger
  <2>. QED BY <2>1, <2>2, <1>9 DEF LedgerOK
<1>16. CASE UNCHANGED clientVars
  <2>1. UNCHANGED <<family, delivered, ledger, req, clients, left, disturbed>>
    BY <1>16 DEF clientVars, vars, table, account
  <2>2. HeldOK'
    BY <2>1 DEF HeldOK, HandedOver, ledger, clients
  <2>. QED BY <2>1, <2>2, <1>9 DEF LedgerOK, clients
<1>. QED
  BY <1>1, <1>2, <1>3, <1>5, <1>6, <1>7, <1>8, <1>10, <1>11, <1>12, <1>13, <1>14, <1>15, <1>16
  DEF ClientNext

LEMMA TransportInvariant == ClientSpec => []TransportInv
  BY ServerInv, TransportInit, TransportStep, PTL DEF ClientSpec

(* Whatever clients hold and answers carry was delivered, to them and the   *)
(* way it was handed over, for every number of clients and requests.        *)
THEOREM ClientsTyped == ClientSpec => []ClientTypeOK
<1>1. TransportInv => ClientTypeOK
  BY DEF TransportInv
<1>. QED BY <1>1, TransportInvariant, PTL

(* A chain keeps its client and its transport, and a chain in cookies the   *)
(* lifetime of the web (RefreshSession, presentedRefreshToken).             *)
THEOREM OneTransport == ClientSpec => []OneTransportPerChain
<1>1. TransportInv => OneTransportPerChain
  BY DEF TransportInv
<1>. QED BY <1>1, TransportInvariant, PTL

-------------------------------------------------------------------------------
(* Patience.                                                               *)

\* The answers of a chain that nothing has disturbed come one at a time, each
\* with a token that nobody has spent, and nobody is about to insert another.
OneAnswerAtATime ==
    \A m \in wire : m.form \in Form /\ family[m.token] \notin disturbed =>
        /\ m.token \notin spent
        /\ Issuing(family[m.token]) = {}
        /\ \A n \in wire : n.form \in Form /\ family[n.token] = family[m.token] => n = m

\* A client holds a spent token of such a chain only while it awaits the next.
SpentWhileAwaited ==
    \A c \in Client : \A t \in {jar[c], memory[c]} \ {None} :
        family[t] \in disturbed \/ Awaited(family[t]) \/ t \notin spent

\* No request will find that a token of it came back, or is to revoke it.
NothingComesBack ==
    \A r \in Request :
        /\ req[r].at = "lookup" =>
              req[r].token \notin spent \/ family[req[r].token] \in disturbed
        /\ req[r].at = "revoke" => req[r].family \in disturbed

PatienceInv == /\ closed \subseteq disturbed
               /\ OneAnswerAtATime
               /\ SpentWhileAwaited
               /\ NothingComesBack

LEMMA PatienceInit == ClientInit => PatienceInv
  BY NoneIsFresh, NoneIsNoClient
  DEF ClientInit, Init, Idle, PatienceInv, OneAnswerAtATime, SpentWhileAwaited,
      NothingComesBack

\* What clients hold and answers carry are tokens that exist.
LEMMA HeldAreMinted ==
    ASSUME IInv, TransportInv
    PROVE  /\ \A m \in wire : m.form \in Form =>
                  m.token \in Minted /\ family[m.token] \in Family
           /\ \A c \in Client : \A t \in {jar[c], memory[c]} \ {None} :
                  t \in Minted /\ family[t] \in Family
<1>1. /\ delivered \subseteq Minted /\ HeldOK /\ WireOK
      /\ family \in [Token -> Family \cup {None}]
  BY DEF IInv, TypeOK, TransportInv, ClientTypeOK
<1>2. \A t \in Minted : family[t] \in Family
  BY <1>1 DEF Minted
<1>. QED BY <1>1, <1>2 DEF HeldOK, WireOK, HandedOver

\* Most steps hand nothing over, and on the chains they do not disturb they begin
\* nothing while an answer is awaited.
LEMMA Undisturbed ==
    ASSUME IInv, TransportInv, PatienceInv,
           disturbed \subseteq disturbed', closed' \subseteq disturbed',
           \A t \in Minted : family'[t] = family[t],
           \A t \in spent' \ spent : \/ family[t] \in disturbed'
                                     \/ ~Awaited(family[t]) /\ Issuing(family[t])' # {},
           \A m \in wire' : m.form \in Form => m \in wire,
           \A m \in wire : m.form \in Form =>
               m \in wire' \/ family[m.token] \in disturbed',
           \A c \in Client : jar'[c] \in {jar[c], None} /\ memory'[c] \in {memory[c], None},
           \A t \in Minted : \/ family[t] \in disturbed'
                             \/ ~Awaited(family[t])
                             \/ Issuing(family[t])' = Issuing(family[t]),
           NothingComesBack'
    PROVE  PatienceInv'
<1> USE HeldAreMinted
<1>1. ASSUME NEW t \in Minted, family[t] \notin disturbed'
      PROVE  /\ t \in spent' => t \in spent \/ Awaited(family[t])'
             /\ Awaited(family[t]) => Awaited(family[t])'
  <2>1. family'[t] = family[t]
    OBVIOUS
  <2>2. Issuing(family[t])' # {} => Awaited(family[t])'
    BY DEF Awaited
  <2>3. t \in spent' => t \in spent \/ Awaited(family[t])'
    BY <1>1, <2>2
  <2>4. ASSUME NEW m \in wire, m.form \in Form, family[m.token] = family[t]
        PROVE  Awaited(family[t])'
    BY <1>1, <2>1, <2>4 DEF Awaited
  <2>5. ASSUME Awaited(family[t]), Issuing(family[t]) # {} PROVE Awaited(family[t])'
    BY <1>1, <2>2, <2>5
  <2>. QED BY <2>3, <2>4, <2>5 DEF Awaited
<1>2. OneAnswerAtATime'
  <2>1. ASSUME NEW m, m \in wire', m.form \in Form, family'[m.token] \notin disturbed'
        PROVE  /\ m.token \notin spent'
               /\ Issuing(family[m.token])' = {}
               /\ \A n \in wire' :
                     n.form \in Form /\ family'[n.token] = family'[m.token] => n = m
    <3>1. /\ m \in wire /\ m.token \in Minted /\ family[m.token] \in Family
          /\ family'[m.token] = family[m.token]
          /\ family[m.token] \notin disturbed
      BY <2>1
    <3>2. /\ m.token \notin spent /\ Issuing(family[m.token]) = {}
          /\ Awaited(family[m.token])
          /\ \A n \in wire :
                n.form \in Form /\ family[n.token] = family[m.token] => n = m
      BY <2>1, <3>1 DEF PatienceInv, OneAnswerAtATime, Awaited
    <3>3. m.token \notin spent'
      BY <2>1, <3>1, <3>2
    <3>4. Issuing(family[m.token])' = {}
      BY <2>1, <3>1, <3>2
    <3>5. ASSUME NEW n \in wire', n.form \in Form, family'[n.token] = family'[m.token]
          PROVE  n = m
      BY <3>1, <3>2, <3>5
    <3>. QED BY <3>3, <3>4, <3>5
  <2>. QED BY <2>1 DEF OneAnswerAtATime
<1>3. SpentWhileAwaited'
  <2>1. ASSUME NEW c \in Client, NEW t, t \in {jar'[c], memory'[c]} \ {None},
               family'[t] \notin disturbed', t \in spent'
        PROVE  Awaited(family[t])'
    <3>1. /\ t \in {jar[c], memory[c]} \ {None} /\ t \in Minted /\ family[t] \in Family
          /\ family'[t] = family[t] /\ family[t] \notin disturbed
      BY <2>1
    <3>2. t \in spent => Awaited(family[t])
      BY <3>1 DEF PatienceInv, SpentWhileAwaited
    <3>3. Awaited(family[t])'
      BY <1>1, <2>1, <3>1, <3>2
    <3>. QED BY <3>3
  <2>. QED BY <2>1 DEF SpentWhileAwaited
<1>. QED BY <1>2, <1>3 DEF PatienceInv

\* A token that a refresh finds unspendable, and its client still held, was not
\* spent behind the client's back.
LEMMA PatientRefresh ==
    ASSUME IInv, IInv', TransportInv, PatienceInv, NEW c \in Client, NEW r \in Request,
           NEW t \in Token, NEW s \in Form, NEW p \in {"web", "app"},
           RefreshSession(c, r, t, s, p)
    PROVE  PatienceInv'
<1> USE HeldAreMinted
<1>1. /\ UNCHANGED <<jar, memory, wire, family, closed>>
      /\ t \in {jar[c], memory[c]} \ {None} /\ t \in Minted
      /\ disturbed \subseteq disturbed'
  BY DEF RefreshSession, Presents, UseWon, UseLost, UseUnanswered, Count, Form, table
<1>2. closed' \subseteq disturbed' /\ \A x \in Minted : family[x] \in Family
  BY <1>1 DEF PatienceInv, Minted, IInv, TypeOK
<1>3. CASE UseWon(r, t)
  <2>1. /\ req[r].at = "idle" /\ Spendable(t) /\ spent' = spent \cup {t}
        /\ req' = [req EXCEPT ![r] = At("issue", t, family[t], user[t])]
    BY <1>3 DEF UseWon, Successor
  <2>2. r \in Issuing(family[t])'
    BY <1>1, <2>1 DEF Issuing, At, IInv, TypeOK
  <2>3. ASSUME NEW x \in Minted
        PROVE  family[x] # family[t] => Issuing(family[x])' = Issuing(family[x])
    BY <1>1, <2>1, <2>3 DEF Issuing, At, IInv, TypeOK
  <2>4. Awaited(family[t]) => family[t] \in disturbed'
    BY <1>3, <2>1 DEF RefreshSession, UseUnanswered, UseLost
  <2>5. NothingComesBack'
    <3>1. ASSUME NEW q \in Request, req'[q].at = "lookup"
          PROVE  req'[q].token \notin spent' \/ family'[req'[q].token] \in disturbed'
      <4>1. q # r /\ req[q] = req'[q]
        BY <2>1, <3>1 DEF At, IInv, TypeOK
      <4>2. req[q].token # t
        BY <2>1, <3>1, <4>1 DEF IInv, DetectionInv, LostForGood
      <4>. QED BY <1>1, <2>1, <3>1, <4>1, <4>2 DEF PatienceInv, NothingComesBack
    <3>2. ASSUME NEW q \in Request, req'[q].at = "revoke"
          PROVE  req'[q].family \in disturbed'
      <4>1. q # r /\ req[q] = req'[q]
        BY <2>1, <3>2 DEF At, IInv, TypeOK
      <4>. QED BY <1>1, <3>2, <4>1 DEF PatienceInv, NothingComesBack
    <3>. QED BY <3>1, <3>2 DEF NothingComesBack
  <2>6. ASSUME NEW x \in Minted
        PROVE  \/ family[x] \in disturbed'
               \/ ~Awaited(family[x])
               \/ Issuing(family[x])' = Issuing(family[x])
    BY <2>3, <2>4
  <2>7. ASSUME NEW x \in spent' \ spent
        PROVE  \/ family[x] \in disturbed'
               \/ ~Awaited(family[x]) /\ Issuing(family[x])' # {}
    <3>1. x = t
      BY <2>1
    <3>. QED BY <2>2, <2>4, <3>1
  <2>. QED BY <1>1, <1>2, <2>5, <2>6, <2>7, Undisturbed
<1>4. CASE UseLost(r, t)
  <2>1. /\ req[r].at = "idle" /\ UNCHANGED spent
        /\ req' = [req EXCEPT ![r] = At("lookup", t, None, None)]
    BY <1>4 DEF UseLost, table
  <2>2. \A f \in Family : Issuing(f)' = Issuing(f)
    BY <2>1 DEF Issuing, At, IInv, TypeOK
  <2>3. Awaited(family[t]) => family[t] \in disturbed'
    BY <1>1 DEF RefreshSession, UseUnanswered
  <2>4. t \in spent => family[t] \in disturbed'
    BY <1>1, <2>3 DEF PatienceInv, SpentWhileAwaited
  <2>5. NothingComesBack'
    BY <1>1, <2>1, <2>4 DEF PatienceInv, NothingComesBack, At, IInv, TypeOK
  <2>. QED BY <1>1, <1>2, <2>1, <2>2, <2>5, Undisturbed
<1>5. CASE UseUnanswered(r, t) /\ disturbed' = disturbed \cup {family[t]}
  <2>1. UNCHANGED req /\ spent' = spent \cup {t}
    BY <1>5 DEF UseUnanswered
  <2>2. NothingComesBack'
    BY <1>1, <1>5, <2>1 DEF PatienceInv, NothingComesBack
  <2>3. \A f \in Family : Issuing(f)' = Issuing(f)
    BY <2>1 DEF Issuing
  <2>. QED BY <1>1, <1>2, <1>5, <2>1, <2>2, <2>3, Undisturbed
<1>. QED BY <1>3, <1>4, <1>5 DEF RefreshSession

\* The next token of a chain goes out when no other is on its way.
LEMMA PatientResponse ==
    ASSUME IInv, TransportInv, PatienceInv, NEW r \in Request, NEW t \in Token,
           SessionResponse(r, t)
    PROVE  PatienceInv'
<1> USE HeldAreMinted
<1> DEFINE f == req[r].family
           a == Answer(asked[r].client, asked[r].form, t)
<1>1. /\ UNCHANGED <<jar, memory, disturbed, closed, spent>>
      /\ wire' = wire \cup {a} /\ family' = [family EXCEPT ![t] = f]
      /\ req' = [req EXCEPT ![r] = Idle]
      /\ req[r].at = "issue" /\ family[t] = None /\ f \in Family
  BY DEF SessionResponse, Issue, IInv, TypeOK, Requests
<1>2. t \notin Minted /\ \A x \in Minted : family'[x] = family[x] /\ family[x] \in Family
  BY <1>1 DEF Minted, IInv, TypeOK
<1>3. a.form \in Form /\ a.token = t
  BY <1>1 DEF Answer, TransportInv, ClientTypeOK, AskedOK
<1>4. family'[t] = f
  BY <1>1 DEF IInv, TypeOK
<1>5. \A q \in Issuing(f) : q = r
  BY <1>1 DEF IInv, ChainInv, RotationInProgress
<1>6. r \in Issuing(f)
  BY <1>1 DEF Issuing
<1>7. \A g \in Family : /\ g = f  => Issuing(g)' = {}
                        /\ g # f => Issuing(g)' = Issuing(g)
  <2>1. ASSUME NEW g \in Family PROVE Issuing(g)' = Issuing(g) \ {r}
    BY <1>1 DEF Issuing, Idle, IInv, TypeOK
  <2>. QED BY <1>1, <1>5, <2>1 DEF Issuing
<1>8. \A m \in wire : m.form \in Form => family[m.token] # f \/ f \in disturbed
  BY <1>6 DEF PatienceInv, OneAnswerAtATime
<1>9. OneAnswerAtATime'
  <2>1. ASSUME NEW m, m \in wire', m.form \in Form, family'[m.token] \notin disturbed'
        PROVE  /\ m.token \notin spent'
               /\ Issuing(family[m.token])' = {}
               /\ \A n \in wire' :
                     n.form \in Form /\ family'[n.token] = family'[m.token] => n = m
    <3>1. CASE m = a
      <4>1. m.token = t /\ t \notin spent /\ f \notin disturbed
        BY <1>1, <1>2, <1>3, <1>4, <2>1, <3>1 DEF IInv, TypeOK
      <4>2. Issuing(family[m.token])' = {}
        BY <1>1, <1>4, <1>7, <4>1
      <4>3. ASSUME NEW n \in wire', n.form \in Form, family'[n.token] = family'[m.token]
            PROVE  n = m
        BY <1>1, <1>2, <1>4, <1>8, <3>1, <4>1, <4>3
      <4>. QED BY <1>1, <4>1, <4>2, <4>3
    <3>2. CASE m # a
      <4>1. /\ m \in wire /\ m.token \in Minted /\ family'[m.token] = family[m.token]
            /\ family[m.token] \in Family \ disturbed
        BY <1>1, <1>2, <2>1, <3>2
      <4>2. family[m.token] # f
        BY <1>8, <2>1, <4>1
      <4>3. /\ m.token \notin spent /\ Issuing(family[m.token]) = {}
            /\ \A n \in wire :
                  n.form \in Form /\ family[n.token] = family[m.token] => n = m
        BY <2>1, <4>1 DEF PatienceInv, OneAnswerAtATime
      <4>4. Issuing(family[m.token])' = {}
        BY <1>7, <4>1, <4>2, <4>3
      <4>5. ASSUME NEW n \in wire', n.form \in Form, family'[n.token] = family'[m.token]
            PROVE  n = m
        BY <1>1, <1>2, <1>3, <1>4, <4>1, <4>2, <4>3, <4>5
      <4>. QED BY <1>1, <4>3, <4>4, <4>5
    <3>. QED BY <3>1, <3>2
  <2>. QED BY <2>1 DEF OneAnswerAtATime
<1>10. SpentWhileAwaited'
  <2>1. ASSUME NEW c \in Client, NEW x, x \in {jar'[c], memory'[c]} \ {None},
               family'[x] \notin disturbed', x \in spent'
        PROVE  Awaited(family[x])'
    <3>1. /\ x \in {jar[c], memory[c]} \ {None} /\ x \in Minted /\ family[x] \in Family
          /\ family'[x] = family[x] /\ family[x] \notin disturbed /\ x \in spent
      BY <1>1, <1>2, <2>1
    <3>2. Awaited(family[x])
      BY <3>1 DEF PatienceInv, SpentWhileAwaited
    <3>3. CASE family[x] = f
      BY <1>1, <1>3, <1>4, <3>1, <3>3 DEF Awaited
    <3>4. CASE family[x] # f /\ Issuing(family[x]) # {}
      BY <1>7, <3>1, <3>4 DEF Awaited
    <3>5. ASSUME NEW m \in wire, m.form \in Form, family[m.token] = family[x]
          PROVE  Awaited(family[x])'
      BY <1>1, <1>2, <3>1, <3>5 DEF Awaited
    <3>. QED BY <3>2, <3>3, <3>4, <3>5 DEF Awaited
  <2>. QED BY <2>1 DEF SpentWhileAwaited
<1>11. NothingComesBack'
  <2>1. \A q \in Request : req'[q].at \in {"lookup", "revoke"} =>
            /\ q # r /\ req'[q] = req[q]
            /\ req[q].token \in Minted /\ family'[req[q].token] = family[req[q].token]
    BY <1>1, <1>2 DEF Idle, IInv, TypeOK, Examining
  <2>. QED BY <1>1, <2>1 DEF PatienceInv, NothingComesBack
<1>. QED BY <1>1, <1>9, <1>10, <1>11 DEF PatienceInv

\* The token that arrives replaces the last one its client held of that chain.
LEMMA PatientDelivery ==
    ASSUME IInv, TransportInv, PatienceInv, NEW m \in wire, Deliver(m)
    PROVE  PatienceInv'
<1> USE HeldAreMinted
<1>1. /\ UNCHANGED <<vars, asked, ledger, disturbed>> /\ wire' = wire \ {m}
      /\ m \in [to : Client, form : Form \cup {"clear"}, token : Token \cup {None}]
      /\ jar \in [Client -> Token \cup {None}] /\ memory \in [Client -> Token \cup {None}]
  BY DEF Deliver, TransportInv, ClientTypeOK, WireOK, HeldOK
<1>2. UNCHANGED <<spent, family, closed, req>>
  BY <1>1 DEF vars, table, history
<1>3. NothingComesBack'
  BY <1>1, <1>2 DEF PatienceInv, NothingComesBack
<1>4. CASE m.form = "clear"
  <2>1. jar' = [jar EXCEPT ![m.to] = None] /\ memory' = memory
    BY <1>4 DEF Deliver, WithoutCookie
  <2>2. \A t \in Minted : Issuing(family[t])' = Issuing(family[t])
    BY <1>2 DEF Issuing
  <2>. QED BY <1>1, <1>2, <1>3, <1>4, <2>1, <2>2, Undisturbed DEF Form, PatienceInv
<1>5. CASE m.form \in Form
  <2> DEFINE f == family[m.token]
  <2>1. OneAnswerAtATime'
    BY <1>1, <1>2 DEF PatienceInv, OneAnswerAtATime, Issuing
  <2>2. \/ m.form = "cookie" /\ jar' = [jar EXCEPT ![m.to] = m.token] /\ memory' = memory
        \/ m.form = "body" /\ memory' = [memory EXCEPT ![m.to] = m.token] /\ jar' = jar
    BY <1>5 DEF Deliver, Form
  <2>3. SpentWhileAwaited'
    <3>1. ASSUME NEW c \in Client, NEW t, t \in {jar'[c], memory'[c]} \ {None},
                 family'[t] \notin disturbed', t \in spent'
          PROVE  Awaited(family[t])'
      <4>1. family[t] \notin disturbed /\ t \in spent
        BY <1>1, <1>2, <3>1
      <4>2. t # m.token
        BY <1>5, <4>1 DEF PatienceInv, OneAnswerAtATime
      <4>3. t \in {jar[c], memory[c]} \ {None} /\ t \in Minted
        BY <1>1, <2>2, <3>1, <4>2
      <4>4. Awaited(family[t])
        BY <4>1, <4>3 DEF PatienceInv, SpentWhileAwaited
      <4>5. family[t] # f
        <5>1. SUFFICES ASSUME family[t] = f PROVE FALSE
          OBVIOUS
        <5>2. holder[t] = holder[m.token] /\ form[t] = form[m.token]
          BY <1>5, <4>3, <5>1 DEF TransportInv, OneTransportPerChain
        <5>3. holder[m.token] = m.to /\ form[m.token] = m.form
          BY <1>5 DEF TransportInv, ClientTypeOK, WireOK, HandedOver
        <5>4. /\ t = jar[c] => holder[t] = c /\ form[t] = "cookie"
              /\ t = memory[c] => holder[t] = c /\ form[t] = "body"
          BY <4>3 DEF TransportInv, ClientTypeOK, HeldOK, HandedOver
        <5>. QED BY <1>1, <2>2, <3>1, <4>2, <4>3, <5>2, <5>3, <5>4
      <4>6. CASE Issuing(family[t]) # {}
        BY <1>2, <4>6 DEF Awaited, Issuing
      <4>7. ASSUME NEW n \in wire, n.form \in Form, family[n.token] = family[t]
            PROVE  Awaited(family[t])'
        <5>1. n \in wire'
          BY <1>1, <4>5, <4>7
        <5>. QED BY <1>2, <4>7, <5>1 DEF Awaited
      <4>. QED BY <4>4, <4>6, <4>7 DEF Awaited
    <3>. QED BY <3>1 DEF SpentWhileAwaited
  <2>. QED BY <1>1, <1>2, <1>3, <2>1, <2>3 DEF PatienceInv
<1>. QED BY <1>1, <1>4, <1>5

LEMMA PatienceStep == IInv /\ IInv' /\ TransportInv /\ PatienceInv /\ [ClientNext]_clientVars
                      => PatienceInv'
<1> SUFFICES ASSUME IInv, IInv', TransportInv, PatienceInv, [ClientNext]_clientVars
             PROVE  PatienceInv'
  OBVIOUS
<1> USE HeldAreMinted
<1>1. \A x \in Minted : family[x] \in Family
  BY DEF Minted, IInv, TypeOK
<1>2. closed \subseteq disturbed
  BY DEF PatienceInv
<1>3. ASSUME NEW c \in Client, NEW r \in Request, NEW u \in User, NEW f \in Family,
             NEW p \in {"web", "app"}, SignIn(c, r, u, f, p)
      PROVE  PatienceInv'
  <2>1. /\ UNCHANGED <<family, spent, closed, disturbed, jar, memory, wire>>
        /\ req[r].at = "idle" /\ req' = [req EXCEPT ![r] = At("issue", None, f, u)]
        /\ \A x \in Minted : family[x] # f
    BY <1>3 DEF SignIn, StartSession, FreshFamily, Minted, account, table, history
  <2>2. \A x \in Minted : Issuing(family[x])' = Issuing(family[x])
    BY <2>1 DEF Issuing, At, IInv, TypeOK
  <2>3. NothingComesBack'
    BY <2>1 DEF PatienceInv, NothingComesBack, At, IInv, TypeOK
  <2>. QED BY <1>2, <2>1, <2>2, <2>3, Undisturbed
<1>4. ASSUME NEW c \in Client, NEW r \in Request, NEW t \in Token, NEW s \in Form,
             LogoutSession(c, r, t, s)
      PROVE  PatienceInv'
  <2>1. /\ UNCHANGED <<family, spent, closed, jar, memory, wire>>
        /\ req[r].at = "idle" /\ req' = [req EXCEPT ![r] = At("revoke", t, family[t], None)]
        /\ disturbed' = disturbed \cup {family[t]}
    BY <1>4 DEF LogoutSession, Logout, table
  <2>2. \A x \in Minted : Issuing(family[x])' = Issuing(family[x])
    BY <2>1 DEF Issuing, At, IInv, TypeOK
  <2>3. NothingComesBack'
    BY <2>1 DEF PatienceInv, NothingComesBack, At, IInv, TypeOK
  <2>. QED BY <1>2, <2>1, <2>2, <2>3, Undisturbed
<1>5. ASSUME NEW c \in Client, LogoutNothing(c) \/ DropCookie(c)
      PROVE  PatienceInv'
  <2>1. /\ UNCHANGED <<family, spent, closed, disturbed, memory, req>>
        /\ jar' = jar \/ jar' = [jar EXCEPT ![c] = None]
        /\ wire' = wire \/ wire' = wire \cup {Answer(c, "clear", None)}
    BY <1>5 DEF LogoutNothing, DropCookie, account, vars, table, history
  <2>2. \A m \in wire' : m.form \in Form => m \in wire
    BY <2>1 DEF Answer, Form
  <2>3. \A d \in Client : jar'[d] \in {jar[d], None}
    BY <2>1 DEF TransportInv, ClientTypeOK, HeldOK
  <2>4. NothingComesBack' /\ \A x \in Minted : Issuing(family[x])' = Issuing(family[x])
    BY <2>1 DEF PatienceInv, NothingComesBack, Issuing
  <2>. QED BY <1>2, <2>1, <2>2, <2>3, <2>4, Undisturbed
<1>6. ASSUME NEW r \in Request, NoSession(r) PROVE PatienceInv'
  <2>1. /\ UNCHANGED <<spent, closed, jar, memory, wire>>
        /\ req[r].at = "issue" /\ req' = [req EXCEPT ![r] = Idle]
        /\ disturbed' = disturbed \cup {req[r].family}
        /\ \A x \in Minted : family'[x] = family[x]
    BY <1>6 DEF NoSession, IssueFailed, Issue, table, history, Minted, IInv, TypeOK
  <2>2. \A x \in Minted : family[x] \in disturbed' \/ Issuing(family[x])' = Issuing(family[x])
    <3>1. ASSUME NEW x \in Minted, family[x] # req[r].family
          PROVE  Issuing(family[x])' = Issuing(family[x])
      BY <2>1, <3>1 DEF Issuing, Idle, IInv, TypeOK
    <3>. QED BY <2>1, <3>1
  <2>3. NothingComesBack'
    <3>1. \A q \in Request : req'[q].at \in {"lookup", "revoke"} =>
              q # r /\ req'[q] = req[q] /\ req[q].token \in Minted
      BY <2>1 DEF Idle, IInv, TypeOK, Examining
    <3>. QED BY <2>1, <3>1 DEF PatienceInv, NothingComesBack
  <2>. QED BY <1>1, <1>2, <2>1, <2>2, <2>3, Undisturbed
<1>7. ASSUME NEW r \in Request, Examine(r) PROVE PatienceInv'
  <2>1. /\ UNCHANGED <<family, spent, closed, disturbed, jar, memory, wire>>
        /\ req[r].at = "lookup"
        /\ req' = [req EXCEPT ![r] =
                      IF Reused(req[r].token)
                      THEN At("revoke", req[r].token, family[req[r].token], None)
                      ELSE Idle]
    BY <1>7 DEF Examine, Lookup, account, table, history
  <2>2. \A x \in Minted : Issuing(family[x])' = Issuing(family[x])
    BY <2>1 DEF Issuing, At, Idle, IInv, TypeOK
  <2>3. Reused(req[r].token) => family[req[r].token] \in disturbed
    BY <2>1 DEF Reused, PatienceInv, NothingComesBack
  <2>4. NothingComesBack'
    BY <2>1, <2>3 DEF PatienceInv, NothingComesBack, At, Idle, IInv, TypeOK
  <2>. QED BY <1>2, <2>1, <2>2, <2>4, Undisturbed
<1>8. ASSUME NEW r \in Request, EndOfChain(r) PROVE PatienceInv'
  <2>1. /\ UNCHANGED <<family, spent, disturbed, jar, memory>>
        /\ r \in Examining /\ req' = [req EXCEPT ![r] = Idle]
        /\ \/ closed' = closed
           \/ closed' = closed \cup {req[r].family} /\ req[r].at = "revoke"
        /\ \/ wire' = wire
           \/ wire' = wire \cup {Answer(asked[r].client, "clear", None)}
    <3>1. CASE Revoke(r)
      BY <1>8, <3>1 DEF EndOfChain, Revoke, Examining, account
    <3>2. CASE GiveUp(r)
      BY <1>8, <3>2 DEF EndOfChain, GiveUp, account, table
    <3>. QED BY <1>8, <3>1, <3>2 DEF EndOfChain
  <2>2. closed' \subseteq disturbed'
    BY <1>2, <2>1 DEF PatienceInv, NothingComesBack
  <2>3. \A x \in Minted : Issuing(family[x])' = Issuing(family[x])
    BY <2>1 DEF Issuing, Idle, Examining, IInv, TypeOK
  <2>4. NothingComesBack'
    BY <2>1 DEF PatienceInv, NothingComesBack, Idle, IInv, TypeOK
  <2>5. \A m \in wire' : m.form \in Form => m \in wire
    BY <2>1 DEF Answer, Form
  <2>. QED BY <1>1, <2>1, <2>2, <2>3, <2>4, <2>5, Undisturbed
<1>9. ASSUME NEW m \in wire, Lose(m) PROVE PatienceInv'
  <2>1. /\ UNCHANGED <<family, spent, closed, jar, memory, req>> /\ wire' = wire \ {m}
        /\ disturbed \subseteq disturbed'
        /\ m.form \in Form => family[m.token] \in disturbed'
    BY <1>9 DEF Lose, vars, table, history, Form
  <2>2. NothingComesBack' /\ \A x \in Minted : Issuing(family[x])' = Issuing(family[x])
    BY <2>1 DEF PatienceInv, NothingComesBack, Issuing
  <2>. QED BY <1>1, <1>2, <2>1, <2>2, Undisturbed
<1>10. CASE Background
  <2>1. UNCHANGED <<family, spent, closed, disturbed, jar, memory, wire, req>>
    BY <1>10 DEF Background, Expire, Sweep, clients, account, history
  <2>2. NothingComesBack' /\ \A x \in Minted : Issuing(family[x])' = Issuing(family[x])
    BY <2>1 DEF PatienceInv, NothingComesBack, Issuing
  <2>. QED BY <1>1, <1>2, <2>1, <2>2, Undisturbed
<1>11. CASE Restart
  <2>1. /\ UNCHANGED <<family, spent, closed, jar, memory, wire>>
        /\ req' = [r \in Request |-> Idle]
        /\ disturbed' = disturbed \cup ({req[r].family : r \in Request} \ {None})
    BY <1>11 DEF Restart, Crash, table
  <2>2. NothingComesBack'
    BY <2>1 DEF NothingComesBack, Idle
  <2>3. ASSUME NEW x \in Minted, family[x] \notin disturbed'
        PROVE  Issuing(family[x])' = Issuing(family[x])
    <3>1. Issuing(family[x]) = {}
      BY <1>1, <2>1, <2>3, NoneIsFresh DEF Issuing
    <3>. QED BY <2>1, <3>1 DEF Issuing, Idle
  <2>. QED BY <1>1, <1>2, <2>1, <2>2, <2>3, Undisturbed
<1>12. CASE UNCHANGED clientVars
  <2>1. UNCHANGED <<family, spent, closed, disturbed, jar, memory, wire, req>>
    BY <1>12 DEF clientVars, clients, account, vars, table, history
  <2>2. NothingComesBack' /\ \A x \in Minted : Issuing(family[x])' = Issuing(family[x])
    BY <2>1 DEF PatienceInv, NothingComesBack, Issuing
  <2>. QED BY <1>1, <1>2, <2>1, <2>2, Undisturbed
<1>. QED
  BY <1>3, <1>4, <1>5, <1>6, <1>7, <1>8, <1>9, <1>10, <1>11, <1>12,
     PatientRefresh, PatientResponse, PatientDelivery
  DEF ClientNext

LEMMA PatienceInvariant == ClientSpec => []PatienceInv
  BY ServerInv, TransportInvariant, PatienceInit, PatienceStep, PTL DEF ClientSpec

(* A client that waits for its answers and gets them stays signed in, with  *)
(* any number of clients, tabs and requests: the chain is not revoked, and  *)
(* what the client holds can still be spent unless the next is on its way.  *)
THEOREM PatientStays == ClientSpec => []PatientClientStaysIn
<1>1. IInv /\ TransportInv /\ PatienceInv => PatientClientStaysIn
  BY HeldAreMinted
  DEF PatientClientStaysIn, PatienceInv, SpentWhileAwaited, IInv, DetectionInv
<1>. QED BY <1>1, ServerInv, TransportInvariant, PatienceInvariant, PTL

-------------------------------------------------------------------------------
(* Leaving.                                                                *)

\* A step that puts nothing into a jar and sends no cookie leaves empty hands
\* empty, if it also makes nobody go on with a session who has left.
LEMMA StillGone ==
    ASSUME TransportInv, LeavesWithNothing,
           \A c \in Client : left'[c] = left[c] /\ jar'[c] \in {jar[c], None},
           \A m \in wire' : m.form = "cookie" => m \in wire,
           \A t \in delivered : parent'[t] = parent[t],
           \A r \in Request :
               req'[r].at = "issue" /\ req'[r].token # None /\ asked'[r].form = "cookie" =>
                   \/ left[asked'[r].client] # "yes"
                   \/ req'[r] = req[r] /\ asked'[r] = asked[r]
    PROVE  LeavesWithNothing'
<1> SUFFICES ASSUME NEW c \in Client, left'[c] = "yes"
             PROVE  jar'[c] = None /\ ~UnderWay(c)'
  BY DEF LeavesWithNothing
<1>1. left[c] = "yes" /\ jar[c] = None /\ ~UnderWay(c)
  BY DEF LeavesWithNothing
<1>2. ASSUME NEW m \in wire', m.to = c, m.form = "cookie" PROVE parent'[m.token] = None
  <2>1. m \in wire /\ m.token \in delivered
    BY <1>2 DEF TransportInv, ClientTypeOK, WireOK, HandedOver, Form
  <2>. QED BY <1>1, <1>2, <2>1 DEF UnderWay
<1>3. ASSUME NEW r \in Request, req'[r].at = "issue", req'[r].token # None,
             asked'[r].client = c, asked'[r].form = "cookie"
      PROVE  FALSE
  BY <1>1, <1>3 DEF UnderWay
<1>. QED BY <1>1, <1>2, <1>3 DEF UnderWay

LEMMA GoneStep == IInv /\ IInv' /\ TransportInv /\ LeavesWithNothing /\ [ClientNext]_clientVars
                  => LeavesWithNothing'
<1> SUFFICES ASSUME IInv, IInv', TransportInv, LeavesWithNothing, [ClientNext]_clientVars
             PROVE  LeavesWithNothing'
  OBVIOUS
<1>a. /\ req \in [Request -> Requests] /\ delivered \subseteq Minted
      /\ parent \in [Token -> Token \cup {None}]
      /\ HeldOK /\ WireOK /\ AskedOK /\ LedgerOK
  BY DEF IInv, TypeOK, TransportInv, ClientTypeOK
<1> USE <1>a
<1>1. ASSUME NEW c \in Client, NEW r \in Request, NEW u \in User, NEW f \in Family,
             NEW p \in {"web", "app"}, SignIn(c, r, u, f, p)
      PROVE  LeavesWithNothing'
  <2>1. /\ UNCHANGED <<jar, wire, left, parent>>
        /\ req' = [req EXCEPT ![r] = At("issue", None, f, u)]
        /\ \A q \in Request : q # r => asked'[q] = asked[q]
    BY <1>1 DEF SignIn, StartSession, account, history, AskedOK
  <2>. QED BY <2>1, StillGone DEF At
<1>2. ASSUME NEW c \in Client, NEW r \in Request, NEW t \in Token, NEW s \in Form,
             NEW p \in {"web", "app"}, RefreshSession(c, r, t, s, p)
      PROVE  LeavesWithNothing'
  <2>1. /\ UNCHANGED <<jar, wire, left, parent>>
        /\ \A q \in Request : q # r => req'[q] = req[q] /\ asked'[q] = asked[q]
    BY <1>2 DEF RefreshSession, UseWon, UseLost, UseUnanswered, Count, Asks, AskedOK
  <2>2. s = "cookie" => left[c] # "yes"
    BY <1>2 DEF RefreshSession, Presents, LeavesWithNothing
  <2>3. \/ req'[r] = req[r] /\ asked'[r] = asked[r]
        \/ asked'[r].client = c /\ asked'[r].form = s
    BY <1>2 DEF RefreshSession, UseUnanswered, Asks, AnswerForm, AskedOK
  <2>. QED BY <2>1, <2>2, <2>3, StillGone
<1>3. ASSUME NEW c \in Client, NEW r \in Request, NEW t \in Token, NEW s \in Form,
             LogoutSession(c, r, t, s)
      PROVE  LeavesWithNothing'
  <2>1. /\ UNCHANGED <<jar, wire, left, parent>>
        /\ req' = [req EXCEPT ![r] = At("revoke", t, family[t], None)]
        /\ \A q \in Request : q # r => asked'[q] = asked[q]
    BY <1>3 DEF LogoutSession, Logout, AskedOK
  <2>. QED BY <2>1, StillGone DEF At
\* The answer to a refresh goes where the refresh was already under way.
<1>4. ASSUME NEW r \in Request, NEW t \in Token, SessionResponse(r, t)
      PROVE  LeavesWithNothing'
  <2>1. /\ UNCHANGED <<jar, left>>
        /\ req[r].at = "issue" /\ family[t] = None
        /\ req' = [req EXCEPT ![r] = Idle] /\ asked' = [asked EXCEPT ![r] = Nobody]
        /\ parent' = [parent EXCEPT ![t] = req[r].token]
        /\ wire' = wire \cup {Answer(asked[r].client, asked[r].form, t)}
    BY <1>4 DEF SessionResponse, Issue, Forget
  <2>2. t \notin delivered
    BY <2>1 DEF Minted
  <2> SUFFICES ASSUME NEW c \in Client, left'[c] = "yes"
               PROVE  jar'[c] = None /\ ~UnderWay(c)'
    BY DEF LeavesWithNothing
  <2>3. jar[c] = None /\ ~UnderWay(c)
    BY <2>1 DEF LeavesWithNothing
  <2>4. ASSUME NEW m \in wire', m.to = c, m.form = "cookie" PROVE parent'[m.token] = None
    <3>1. CASE m \in wire
      <4>1. m.token \in delivered /\ m.token \in Token
        BY <2>4, <3>1 DEF WireOK, HandedOver, Form, Minted
      <4>2. parent'[m.token] = parent[m.token]
        BY <2>1, <2>2, <4>1
      <4>. QED BY <2>3, <2>4, <3>1, <4>2 DEF UnderWay
    <3>2. CASE m = Answer(asked[r].client, asked[r].form, t)
      <4>1. asked[r].client = c /\ asked[r].form = "cookie" /\ m.token = t
        BY <2>4, <3>2 DEF Answer
      <4>2. req[r].token = None
        BY <2>1, <2>3, <4>1 DEF UnderWay
      <4>. QED BY <2>1, <4>1, <4>2
    <3>. QED BY <2>1, <3>1, <3>2
  <2>5. \A q \in Request : req'[q].at = "issue" => req'[q] = req[q] /\ asked'[q] = asked[q]
    BY <2>1 DEF Idle, AskedOK
  <2>. QED BY <2>1, <2>3, <2>4, <2>5 DEF UnderWay
<1>5. ASSUME NEW r \in Request, NoSession(r) PROVE LeavesWithNothing'
  <2>1. /\ UNCHANGED <<jar, wire, left>>
        /\ req' = [req EXCEPT ![r] = Idle] /\ asked' = [asked EXCEPT ![r] = Nobody]
        /\ \A t \in delivered : parent'[t] = parent[t]
    BY <1>5 DEF NoSession, IssueFailed, Issue, Forget, history, Minted
  <2>. QED BY <2>1, StillGone DEF Idle, AskedOK
<1>6. ASSUME NEW r \in Request, Examine(r) \/ EndOfChain(r) PROVE LeavesWithNothing'
  <2>1. /\ UNCHANGED <<jar, left, parent>>
        /\ \A q \in Request : req'[q].at = "issue" =>
               req'[q] = req[q] /\ asked'[q] = asked[q]
    BY <1>6 DEF Examine, EndOfChain, Lookup, Revoke, GiveUp, Forget, account, history,
                At, Idle, AskedOK
  <2>2. \A m \in wire' : m.form = "cookie" => m \in wire
    BY <1>6 DEF Examine, EndOfChain, Answer
  <2>. QED BY <2>1, <2>2, StillGone
\* What a logout leaves behind is what is said of it.
<1>7. ASSUME NEW m \in wire, Deliver(m) PROVE LeavesWithNothing'
  <2>1. /\ UNCHANGED <<parent, req, asked>> /\ wire' = wire \ {m}
        /\ m \in [to : Client, form : Form \cup {"clear"}, token : Token \cup {None}]
    BY <1>7 DEF Deliver, vars, history, WireOK
  <2>2. \A c \in Client : UnderWay(c)' => UnderWay(c)
    BY <2>1 DEF UnderWay
  <2>3. CASE m.form = "cookie"
    <3>1. /\ jar' = [jar EXCEPT ![m.to] = m.token]
          /\ left' = IF parent[m.token] = None THEN [left EXCEPT ![m.to] = "no"] ELSE left
      BY <1>7, <2>3 DEF Deliver
    <3>2. parent[m.token] # None => left[m.to] # "yes"
      BY <2>1, <2>3 DEF LeavesWithNothing, UnderWay
    <3>. QED BY <2>1, <2>2, <3>1, <3>2 DEF LeavesWithNothing, HeldOK, LedgerOK
  <2>4. CASE m.form = "body"
    <3>1. UNCHANGED <<jar, left>>
      BY <1>7, <2>4 DEF Deliver
    <3>. QED BY <2>2, <3>1 DEF LeavesWithNothing
  <2>5. CASE m.form = "clear"
    <3>1. /\ jar' = [jar EXCEPT ![m.to] = None]
          /\ left' = [left EXCEPT ![m.to] = IF UnderWay(m.to) THEN "overtaking" ELSE "yes"]
      BY <1>7, <2>5 DEF Deliver, WithoutCookie
    <3>. QED BY <2>1, <2>2, <3>1 DEF LeavesWithNothing, HeldOK, LedgerOK
  <2>. QED BY <2>1, <2>3, <2>4, <2>5 DEF Form
<1>8. ASSUME \/ \E m \in wire : Lose(m)
             \/ \E c \in Client : LogoutNothing(c) \/ DropCookie(c)
             \/ Background \/ Restart \/ UNCHANGED clientVars
      PROVE  LeavesWithNothing'
  <2>1. /\ UNCHANGED <<left, parent>>
        /\ \A q \in Request : req'[q].at = "issue" =>
               req'[q] = req[q] /\ asked'[q] = asked[q]
    BY <1>8 DEF Lose, LogoutNothing, DropCookie, Background, Expire, Sweep, Restart, Crash,
                clientVars, clients, account, vars, history, Idle
  <2>2. \A m \in wire' : m.form = "cookie" => m \in wire
    BY <1>8 DEF Lose, LogoutNothing, DropCookie, Background, Restart, clientVars, clients, Answer
  <2>3. \A c \in Client : jar'[c] \in {jar[c], None}
    BY <1>8 DEF Lose, LogoutNothing, DropCookie, Background, Restart, clientVars, clients, HeldOK
  <2>. QED BY <2>1, <2>2, <2>3, StillGone
<1>. QED
  BY <1>1, <1>2, <1>3, <1>4, <1>5, <1>6, <1>7, <1>8 DEF ClientNext

(* A browser that was told it is signed out, with no refresh of another tab *)
(* half done or unanswered, holds no refresh cookie and is sent none until  *)
(* it signs in again, however many tabs, requests and late answers there    *)
(* are (Logout, expiredRefreshCookie, sessionResponse).                     *)
THEOREM LeavesEmpty == ClientSpec => []LeavesWithNothing
<1>1. ClientInit => LeavesWithNothing
  BY DEF ClientInit, LeavesWithNothing
<1>. QED BY <1>1, GoneStep, ServerInv, TransportInvariant, PTL DEF ClientSpec

===============================================================================
