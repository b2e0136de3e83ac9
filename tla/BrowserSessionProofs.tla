------------------------ MODULE BrowserSessionProofs ------------------------
(***************************************************************************)
(* Theorems about BrowserSession, for every set of tabs and requests and   *)
(* every bound on pairs, timers and lost answers.                          *)
(*                                                                         *)
(* What a step may do is proved once for each variable (CallEffect,        *)
(* RenewalEffect, StorageEffect, ServerEffect), action by action; the two  *)
(* invariants then follow from these four facts.                           *)
(***************************************************************************)
EXTENDS BrowserSession, TLAPS

---------------------------------------------------------------------------
(* Types of what the actions write *)

\* The values the actions write have their types.
LEMMA Pieces ==
    ASSUME Typed
    PROVE  /\ None \in PairOrNone /\ Pairs \subseteq PairOrNone
           /\ NoCall \in Call /\ NoRenewal \in Renewal /\ Refused \in Renewal
           /\ \A kind \in {"data", "me", "logout"} : Request(kind) \in Call
           /\ \A p \in PairOrNone : StoreTokens(p) \in Storage
           /\ ClearTokens \in Storage
           /\ \A t \in Tabs : SignedOut(t) \in [Tabs -> Tab]
           /\ server.issued < MaxIssued => server.issued + 1 \in Pairs
<1>1. None \in PairOrNone /\ Pairs \subseteq PairOrNone
  BY BoundsAssumption DEF None, PairOrNone, Pairs
<1>2. NoCall \in Call /\ NoRenewal \in Renewal
  BY <1>1 DEF NoCall, NoRenewal, Call, Renewal
<1>3. Refused \in Renewal
  BY <1>2 DEF Refused, Renewal
<1>4. storage.pair \in PairOrNone
  BY DEF Typed, Storage
<1>5. \A kind \in {"data", "me", "logout"} : Request(kind) \in Call
  BY <1>1, <1>4 DEF Request, Call
<1>6. \A p \in PairOrNone : StoreTokens(p) \in Storage
  BY DEF Typed, Storage, StoreTokens
<1>7. ClearTokens \in Storage
  BY <1>1, BoundsAssumption DEF Typed, Storage, ClearTokens
<1>8. \A t \in Tabs : SignedOut(t) \in [Tabs -> Tab]
  BY DEF Typed, SignedOut, Tab
<1>9. server.issued < MaxIssued => server.issued + 1 \in Pairs
  BY BoundsAssumption DEF Typed, Server, PairOrNone, Pairs
<1> QED  BY <1>1, <1>2, <1>3, <1>5, <1>6, <1>7, <1>8, <1>9

\* A request put in its place leaves the requests typed.
LEMMA CallPut ==
    ASSUME Typed, NEW t \in Tabs, NEW c \in Slots, NEW r \in Call
    PROVE  [call EXCEPT ![t][c] = r] \in [Tabs -> [Slots -> Call]]
  BY DEF Typed

\* So does a renewal.
LEMMA RenewalPut ==
    ASSUME Typed, NEW t \in Tabs, NEW k \in Renewers, NEW r \in Renewal
    PROVE  [renewal EXCEPT ![t][k] = r] \in [Tabs -> [Renewers -> Renewal]]
  BY DEF Typed

\* What a tab, a request and a renewal are.
LEMMA Members ==
    ASSUME Typed
    PROVE  /\ \A t \in Tabs : tab[t] \in Tab
           /\ \A t \in Tabs, c \in Slots : call[t][c] \in Call
           /\ \A t \in Tabs, k \in Renewers : renewal[t][k] \in Renewal
           /\ "retry" \in Renewers /\ "timer" \in Renewers
           /\ storage.pair \in PairOrNone
  BY DEF Typed, Storage, Renewers

\* With no session anywhere the types hold.
LEMMA InitTypeOK == Init => TypeOK
<1> SUFFICES ASSUME Init PROVE TypeOK
  OBVIOUS
<1>1. None \in PairOrNone /\ 0 \in PairOrNone /\ 0 \in 0..MaxLost
  BY BoundsAssumption DEF None, PairOrNone
<1>2. NoCall \in Call /\ NoRenewal \in Renewal
  BY <1>1 DEF NoCall, NoRenewal, Call, Renewal
<1>3. server \in Server /\ storage \in Storage /\ tab \in [Tabs -> Tab]
  BY <1>1 DEF Init, Server, Storage, Tab
<1>4. call \in [Tabs -> [Slots -> Call]] /\ renewal \in [Tabs -> [Renewers -> Renewal]]
  BY <1>2 DEF Init
<1>5. OnlyIssued
  BY DEF Init, OnlyIssued, None, NoCall, NoRenewal
<1> QED  BY <1>3, <1>4, <1>5 DEF TypeOK, Typed

\* Types, one step per action of Next.
LEMMA NextTyped == Typed /\ [Next]_vars => Typed'
<1> SUFFICES ASSUME Typed, [Next]_vars PROVE Typed'
  OBVIOUS
<1> USE Pieces, Members
<1>1. ASSUME NEW t \in Tabs, OpenTab(t) PROVE Typed'
  <2>1. tab' \in [Tabs -> Tab]
    BY <1>1 DEF OpenTab, Typed, Tab, Proxied
  <2>2. call' \in [Tabs -> [Slots -> Call]]
    <3>1. CASE call' = call
      BY <3>1 DEF Typed
    <3>2. CASE \E c \in Slots : call' = [call EXCEPT ![t][c] = Request("me")]
      BY <3>2, CallPut
    <3> QED  BY <1>1, <3>1, <3>2 DEF OpenTab
  <2> QED  BY <1>1, <2>1, <2>2 DEF OpenTab, Typed
<1>2. ASSUME NEW t \in Tabs, SignIn(t) PROVE Typed'
  <2> DEFINE n == server.issued + 1
  <2>1. n \in Pairs /\ n \in PairOrNone
    BY <1>2 DEF SignIn
  <2>2. CreateSession(n) \in Server
    <3> HIDE DEF n
    <3>1. [id |-> n, hash |-> n] \in Session  BY <2>1 DEF Session
    <3>2. /\ server.good \cup {n} \in SUBSET Pairs
          /\ server.sessions \cup {[id |-> n, hash |-> n]} \in SUBSET Session
      BY <2>1, <3>1 DEF Typed, Server
    <3> QED  BY <2>1, <3>2 DEF Typed, Server, CreateSession
  <2>3. tab' \in [Tabs -> Tab]
    BY <1>2 DEF SignIn, Typed, Tab
  <2> QED  BY <1>2, <2>1, <2>2, <2>3 DEF SignIn, Typed
<1>3. ASSUME NEW t \in Tabs, SignOut(t) PROVE Typed'
  <2>1. CASE storage.pair # None
    <3>1. \E c \in Slots : call' = [call EXCEPT ![t][c] = Request("logout")]
      BY <1>3, <2>1 DEF SignOut
    <3>2. call' \in [Tabs -> [Slots -> Call]]
      BY <3>1, CallPut
    <3> QED  BY <1>3, <2>1, <3>2 DEF SignOut, Typed
  <2>2. CASE storage.pair = None
    BY <1>3, <2>2 DEF SignOut, Typed
  <2> QED  BY <2>1, <2>2
<1>4. ASSUME NEW t \in Tabs, GuardRedirects(t) PROVE Typed'
  <2>1. tab' \in [Tabs -> Tab]
    BY <1>4 DEF GuardRedirects, Typed, Tab
  <2> QED  BY <1>4, <2>1 DEF GuardRedirects, Typed
<1>5. ASSUME NEW t \in Tabs, Timer(t) PROVE Typed'
  <2> DEFINE r == [NoRenewal EXCEPT !.stage = "sent", !.token = storage.pair]
  <2>1. r \in Renewal
    BY DEF Renewal
  <2>2. renewal' = [renewal EXCEPT ![t]["timer"] = r]
    BY <1>5 DEF Timer
  <2>3. renewal' \in [Tabs -> [Renewers -> Renewal]]
    BY <2>1, <2>2, RenewalPut
  <2> QED  BY <1>5, <2>3 DEF Timer, Typed
<1>6. ASSUME NEW t \in Tabs, FinishTimer(t) PROVE Typed'
  <2>1. renewal' \in [Tabs -> [Renewers -> Renewal]]
    BY <1>6, RenewalPut DEF FinishTimer
  <2>2. renewal[t]["timer"].fresh \in PairOrNone
    BY DEF Renewal
  <2>3. storage' \in Storage
    BY <1>6, <2>2 DEF FinishTimer, Typed
  <2>4. call' \in [Tabs -> [Slots -> Call]]
    <3>1. CASE call' = call
      BY <3>1 DEF Typed
    <3>2. CASE \E c \in Slots : call' = [call EXCEPT ![t][c] = Request("logout")]
      BY <3>2, CallPut
    <3> QED  BY <1>6, <3>1, <3>2 DEF FinishTimer
  <2>5. tab' \in [Tabs -> Tab]
    BY <1>6 DEF FinishTimer, Typed
  <2> QED  BY <1>6, <2>1, <2>3, <2>4, <2>5 DEF FinishTimer, Typed
<1>7. ASSUME NEW t \in Tabs, FinishRetry(t) PROVE Typed'
  <2> DEFINE f == renewal[t]["retry"].fresh
  <2>1. renewal' \in [Tabs -> [Renewers -> Renewal]]
    BY <1>7, RenewalPut DEF FinishRetry
  <2>2. f \in PairOrNone
    BY DEF Renewal
  <2>3. \A c \in Slots : [call[t][c] EXCEPT !.stage = "resent", !.access = f] \in Call
    BY <2>2 DEF Call
  <2>4. call' \in [Tabs -> [Slots -> Call]]
    <3>1. \E row \in [Slots -> Call] : call' = [call EXCEPT ![t] = row]
      <4>1. CASE renewal[t]["retry"].stage = "renewed"
        <5> DEFINE row == [c \in Slots |->
              IF c \in Waiting(t) THEN [call[t][c] EXCEPT !.stage = "resent", !.access = f]
              ELSE call[t][c]]
        <5>1. row \in [Slots -> Call]
          BY <2>3
        <5>2. call' = [call EXCEPT ![t] = row]
          BY <1>7, <4>1 DEF FinishRetry
        <5> QED  BY <5>1, <5>2
      <4>2. CASE renewal[t]["retry"].stage # "renewed"
        <5> DEFINE row == [c \in Slots |-> IF c \in Waiting(t) THEN NoCall ELSE call[t][c]]
        <5>1. row \in [Slots -> Call]
          OBVIOUS
        <5>2. call' = [call EXCEPT ![t] = row]
          BY <1>7, <4>2 DEF FinishRetry
        <5> QED  BY <5>1, <5>2
      <4> QED  BY <4>1, <4>2
    <3> QED  BY <3>1 DEF Typed
  <2> QED  BY <1>7, <2>1, <2>2, <2>4 DEF FinishRetry, Typed
<1>8. ASSUME NEW t \in Tabs, NEW c \in Slots, Ask(t, c) PROVE Typed'
  BY <1>8, CallPut DEF Ask, Typed
<1>9. ASSUME NEW t \in Tabs, NEW c \in Slots, Answered(t, c) PROVE Typed'
  <2>1. call' \in [Tabs -> [Slots -> Call]]
    BY <1>9, CallPut DEF Answered
  <2>2. LoggedOut(call[t][c].body) \in Server
    BY DEF LoggedOut, Typed, Server
  <2>3. [tab EXCEPT ![t].user = TRUE, ![t].loading = FALSE] \in [Tabs -> Tab]
    BY DEF Typed, Tab
  <2>4. call[t][c].kind \in {"data", "me", "logout"}
    BY DEF Call
  <2>5. server' \in Server /\ storage' \in Storage /\ tab' \in [Tabs -> Tab]
    <3>1. CASE call[t][c].kind = "data"  BY <1>9, <3>1 DEF Answered, Typed
    <3>2. CASE call[t][c].kind = "me"  BY <1>9, <2>3, <3>2 DEF Answered, Typed
    <3>3. CASE call[t][c].kind = "logout"
      <4>1. server' = LoggedOut(call[t][c].body) /\ storage' = ClearTokens /\ tab' = SignedOut(t)
        BY <1>9, <3>3 DEF Answered
      <4> QED  BY <2>2, <4>1 DEF ClearTokens, SignedOut, Typed, Storage, Tab
    <3> QED  BY <2>4, <3>1, <3>2, <3>3
  <2> QED  BY <1>9, <2>1, <2>5 DEF Answered, Typed
<1>10. ASSUME NEW t \in Tabs, NEW c \in Slots, JoinRenewal(t, c) PROVE Typed'
  <2> DEFINE r == [NoRenewal EXCEPT !.stage = "sent", !.token = storage.pair]
             w == [call[t][c] EXCEPT !.stage = "waiting", !.access = None]
  <2>1. r \in Renewal
    BY DEF Renewal
  <2>2. w \in Call
    <3>1. call[t][c] \in Call
      OBVIOUS
    <3> QED  BY <3>1 DEF Call
  <2>3. CASE renewal[t]["retry"].stage # "idle" \/ storage.pair # None
    <3>1. call' = [call EXCEPT ![t][c].stage = "waiting", ![t][c].access = None]
      BY <1>10, <2>3 DEF JoinRenewal
    <3>2. call' = [call EXCEPT ![t][c] = w]
      BY <3>1 DEF Typed
    <3>3. call' \in [Tabs -> [Slots -> Call]]
      BY <2>2, <3>2, CallPut
    <3>4. renewal' \in [Tabs -> [Renewers -> Renewal]]
      <4>1. CASE renewal' = renewal
        BY <4>1 DEF Typed
      <4>2. CASE renewal' = [renewal EXCEPT ![t]["retry"] = r]
        BY <2>1, <4>2, RenewalPut
      <4> QED  BY <1>10, <2>3, <4>1, <4>2 DEF JoinRenewal
    <3> QED  BY <1>10, <2>3, <3>3, <3>4 DEF JoinRenewal, Typed
  <2>4. CASE ~(renewal[t]["retry"].stage # "idle" \/ storage.pair # None)
    <3>1. call' \in [Tabs -> [Slots -> Call]]
      <4>1. call' = [call EXCEPT ![t][c] = NoCall]
        BY <1>10, <2>4 DEF JoinRenewal
      <4> QED  BY <4>1, CallPut
    <3> QED  BY <1>10, <2>4, <3>1 DEF JoinRenewal, Typed
  <2> QED  BY <2>3, <2>4
<1>11. ASSUME NEW t \in Tabs, NEW c \in Slots, DeniedAgain(t, c) PROVE Typed'
  BY <1>11, CallPut DEF DeniedAgain, Failed, Typed
<1>12. ASSUME server.lost < MaxLost
       PROVE  [server EXCEPT !.lost = @ + 1] \in Server
  <2>1. server.lost + 1 \in 0..MaxLost
    BY <1>12, BoundsAssumption DEF Typed, Server
  <2> QED  BY <2>1 DEF Typed, Server
<1>13. ASSUME NEW t \in Tabs, NEW c \in Slots, LoseCall(t, c) PROVE Typed'
  BY <1>12, <1>13, CallPut DEF LoseCall, Failed, Typed
<1>14. ASSUME NEW t \in Tabs, NEW k \in Renewers, LoseRenewal(t, k) PROVE Typed'
  BY <1>12, <1>14, RenewalPut DEF LoseRenewal, Typed
<1>15. ASSUME NEW t \in Tabs, NEW k \in Renewers, FindToken(t, k) PROVE Typed'
  <2> DEFINE named == {s \in server.sessions : s.hash = renewal[t][k].token}
             id == IF named = {} THEN None ELSE (CHOOSE s \in named : TRUE).id
             r == [renewal[t][k] EXCEPT !.stage = "found", !.session = id]
  <2>1. id \in PairOrNone
    <3>1. \A s \in named : s.id \in PairOrNone
      BY DEF Typed, Server, Session
    <3> QED  BY <3>1
  <2>2. r \in Renewal
    BY <2>1 DEF Renewal
  <2>3. renewal' = [renewal EXCEPT ![t][k] = r] \/ renewal' = [renewal EXCEPT ![t][k] = Refused]
    BY <1>15 DEF FindToken, Typed
  <2> QED  BY <1>15, <2>2, <2>3, RenewalPut DEF FindToken, Typed
<1>16. ASSUME NEW t \in Tabs, NEW k \in Renewers, RotateToken(t, k) PROVE Typed'
  <2> DEFINE r == renewal[t][k]
             n == server.issued + 1
             back == [stage |-> "renewed", token |-> r.token, session |-> None, fresh |-> n]
  <2>1. CASE server.issued < MaxIssued
    <3>1. n \in Pairs /\ n \in PairOrNone
      BY <2>1
    <3>2. Rotated(r, n) \in Server
      <4> HIDE DEF n, r
      <4>1. \A s \in server.sessions : s \in Session /\ [s EXCEPT !.hash = n] \in Session
        BY <3>1 DEF Typed, Server, Session
      <4>2. {IF s.id = r.session THEN [s EXCEPT !.hash = n] ELSE s : s \in server.sessions}
              \in SUBSET Session
        BY <4>1
      <4>3. (server.good \ {r.token}) \cup {n} \in SUBSET Pairs
        BY <3>1 DEF Typed, Server
      <4> QED  BY <3>1, <4>2, <4>3 DEF Typed, Server, Rotated
    <3>3. back \in Renewal
      BY <3>1 DEF Renewal
    <3>4. server' = Rotated(r, n) /\ renewal' = [renewal EXCEPT ![t][k] = back]
      BY <1>16, <2>1 DEF RotateToken
    <3>5. renewal' \in [Tabs -> [Renewers -> Renewal]]
      BY <3>3, <3>4, RenewalPut
    <3> QED  BY <1>16, <3>2, <3>4, <3>5 DEF RotateToken, Typed
  <2>2. CASE ~(server.issued < MaxIssued)
    <3>1. [server EXCEPT !.good = @ \ {r.token}, !.failed = TRUE] \in Server
      BY DEF Typed, Server
    <3>2. renewal' = [renewal EXCEPT ![t][k] = Refused]
      BY <1>16, <2>2 DEF RotateToken
    <3>3. renewal' \in [Tabs -> [Renewers -> Renewal]]
      BY <3>2, RenewalPut
    <3> QED  BY <1>16, <2>2, <3>1, <3>3 DEF RotateToken, Typed
  <2> QED  BY <2>1, <2>2
<1>17. ASSUME NEW s \in server.sessions, RevokeSession(s) PROVE Typed'
  <2>1. s.hash \in Pairs
    BY DEF Typed, Server, Session
  <2>2. server' \in Server
    BY <1>17, <2>1 DEF RevokeSession, Typed, Server
  <2> QED  BY <1>17, <2>2 DEF RevokeSession, Typed
<1>18. CASE AccessExpires
  <2>1. server.expired + 1 \in PairOrNone
    BY <1>18, BoundsAssumption DEF AccessExpires, Typed, Server, PairOrNone
  <2>2. server' \in Server
    BY <1>18, <2>1 DEF AccessExpires, Typed, Server
  <2> QED  BY <1>18, <2>2 DEF AccessExpires, Typed
<1>19. CASE UNCHANGED vars
  BY <1>19 DEF Typed, vars
<1> QED
  BY <1>1, <1>2, <1>3, <1>4, <1>5, <1>6, <1>7, <1>8, <1>9, <1>10, <1>11, <1>13,
     <1>14, <1>15, <1>16, <1>17, <1>18, <1>19 DEF Next, Respond

\* The pairs are numbers.
LEMMA Numbers ==
    ASSUME Typed
    PROVE  /\ server.issued \in Nat /\ server.expired \in Nat /\ storage.pair \in Nat
           /\ \A t \in Tabs, c \in Slots : call[t][c].access \in Nat /\ call[t][c].body \in Nat
           /\ \A t \in Tabs, k \in Renewers : renewal[t][k].token \in Nat /\ renewal[t][k].fresh \in Nat
<1>1. \A p \in PairOrNone : p \in Nat
  BY BoundsAssumption DEF PairOrNone
<1> QED  BY <1>1, Members DEF Typed, Server, Call, Renewal

---------------------------------------------------------------------------
(* What a step may do to each variable, whichever action takes it *)

\* A request that is sent carries the pair stored now, or the one its tab's
\* renewal brought.
CallEffect ==
  \A t \in Tabs, c \in Slots :
    /\ call'[t][c].body \in {call[t][c].body, None, storage.pair}
    /\ call'[t][c].access \in {call[t][c].access, None, storage.pair, renewal[t]["retry"].fresh}

\* CallPut, one request at a time.
LEMMA CallAt ==
    ASSUME Typed, NEW t \in Tabs, NEW c \in Slots, NEW r, call' = [call EXCEPT ![t][c] = r]
    PROVE  \A u \in Tabs, d \in Slots : call'[u][d] = IF u = t /\ d = c THEN r ELSE call[u][d]
  BY DEF Typed

\* Of the requests: all actions, one group for each way to change them.
LEMMA NextCallEffect == Typed /\ [Next]_vars => CallEffect
<1> SUFFICES ASSUME Typed, [Next]_vars PROVE CallEffect
  OBVIOUS
<1>r. \A kind : /\ Request(kind).body \in {None, storage.pair}
                /\ Request(kind).access = storage.pair
  BY DEF Request
<1>n. NoCall.body = None /\ NoCall.access = None
  BY DEF NoCall
<1>s. ASSUME UNCHANGED call PROVE CallEffect
  BY <1>s DEF CallEffect
<1>c. ASSUME NEW t \in Tabs, NEW c \in Slots, call' = [call EXCEPT ![t][c] = NoCall]
      PROVE  CallEffect
  BY <1>c, <1>n, CallAt DEF CallEffect
<1>q. ASSUME NEW t \in Tabs, NEW c \in Slots, NEW kind, call' = [call EXCEPT ![t][c] = Request(kind)]
      PROVE  CallEffect
  BY <1>q, <1>r, CallAt DEF CallEffect
<1>1. ASSUME NEW t \in Tabs, OpenTab(t) \/ SignOut(t) \/ FinishTimer(t) PROVE CallEffect
  BY <1>1, <1>s, <1>q DEF OpenTab, SignOut, FinishTimer
<1>2. ASSUME NEW t \in Tabs, SignIn(t) \/ GuardRedirects(t) \/ Timer(t) PROVE CallEffect
  BY <1>2, <1>s DEF SignIn, GuardRedirects, Timer
<1>3. ASSUME NEW t \in Tabs, FinishRetry(t) PROVE CallEffect
  <2> DEFINE f == renewal[t]["retry"].fresh
  <2>1. CASE renewal[t]["retry"].stage = "renewed"
    <3>1. call' = [call EXCEPT ![t] = [c \in Slots |->
            IF c \in Waiting(t) THEN [call[t][c] EXCEPT !.stage = "resent", !.access = f]
            ELSE call[t][c]]]
      BY <1>3, <2>1 DEF FinishRetry
    <3>2. \A u \in Tabs, d \in Slots :
            call'[u][d] = IF u = t /\ d \in Waiting(t)
                          THEN [call[u][d] EXCEPT !.stage = "resent", !.access = f]
                          ELSE call[u][d]
      BY <3>1 DEF Typed
    <3>3. \A u \in Tabs, d \in Slots :
            /\ [call[u][d] EXCEPT !.stage = "resent", !.access = f].body = call[u][d].body
            /\ [call[u][d] EXCEPT !.stage = "resent", !.access = f].access = f
      BY DEF Typed, Call
    <3> SUFFICES ASSUME NEW u \in Tabs, NEW d \in Slots
                 PROVE  /\ call'[u][d].body \in {call[u][d].body, None, storage.pair}
                        /\ call'[u][d].access \in {call[u][d].access, None, storage.pair,
                                                  renewal[u]["retry"].fresh}
      BY DEF CallEffect
    <3>4. CASE u = t /\ d \in Waiting(t)
      <4>1. call'[u][d] = [call[u][d] EXCEPT !.stage = "resent", !.access = f]
        BY <3>2, <3>4
      <4>2. call'[u][d].body = call[u][d].body /\ call'[u][d].access = f
        BY <4>1, <3>3
      <4> QED  BY <4>2, <3>4
    <3>5. CASE ~(u = t /\ d \in Waiting(t))
      BY <3>2, <3>5
    <3> QED  BY <3>4, <3>5
  <2>2. CASE renewal[t]["retry"].stage # "renewed"
    <3>1. call' = [call EXCEPT ![t] = [c \in Slots |->
                     IF c \in Waiting(t) THEN NoCall ELSE call[t][c]]]
      BY <1>3, <2>2 DEF FinishRetry
    <3>2. \A u \in Tabs, d \in Slots :
            call'[u][d] = IF u = t /\ d \in Waiting(t) THEN NoCall ELSE call[u][d]
      BY <3>1 DEF Typed
    <3> QED  BY <3>2, <1>n DEF CallEffect
  <2> QED  BY <2>1, <2>2
<1>4. ASSUME NEW t \in Tabs, NEW c \in Slots, Ask(t, c) PROVE CallEffect
  BY <1>4, <1>q DEF Ask
<1>5. ASSUME NEW t \in Tabs, NEW c \in Slots, Answered(t, c) \/ DeniedAgain(t, c) \/ LoseCall(t, c)
      PROVE  CallEffect
  BY <1>5, <1>c DEF Answered, DeniedAgain, LoseCall, Failed
<1>6. ASSUME NEW t \in Tabs, NEW c \in Slots, JoinRenewal(t, c) PROVE CallEffect
  <2>1. CASE renewal[t]["retry"].stage # "idle" \/ storage.pair # None
    <3> DEFINE w == [call[t][c] EXCEPT !.stage = "waiting", !.access = None]
    <3>1. call' = [call EXCEPT ![t][c].stage = "waiting", ![t][c].access = None]
      BY <1>6, <2>1 DEF JoinRenewal
    <3>2. call' = [call EXCEPT ![t][c] = w]
      BY <3>1 DEF Typed
    <3>3. w.body = call[t][c].body /\ w.access = None
      BY DEF Typed, Call
    <3> QED  BY <3>2, <3>3, CallAt DEF CallEffect
  <2>2. CASE ~(renewal[t]["retry"].stage # "idle" \/ storage.pair # None)
    <3>1. call' = [call EXCEPT ![t][c] = NoCall]
      BY <1>6, <2>2 DEF JoinRenewal
    <3> QED  BY <3>1, <1>c
  <2> QED  BY <2>1, <2>2
<1>7. ASSUME NEW t \in Tabs, NEW k \in Renewers,
             FindToken(t, k) \/ RotateToken(t, k) \/ LoseRenewal(t, k)
      PROVE  CallEffect
  BY <1>7, <1>s DEF FindToken, RotateToken, LoseRenewal
<1>8. ASSUME NEW s \in server.sessions, RevokeSession(s) PROVE CallEffect
  BY <1>8, <1>s DEF RevokeSession
<1>9. CASE AccessExpires
  BY <1>9, <1>s DEF AccessExpires
<1>10. CASE UNCHANGED vars
  BY <1>10, <1>s DEF vars
<1> QED
  BY <1>1, <1>2, <1>3, <1>4, <1>5, <1>6, <1>7, <1>8, <1>9, <1>10 DEF Next, Respond

\* A renewal starts with the pair stored now, is found, brings a new pair, or
\* ends; its pair is lost or stored then.
Starts(t, k) ==
    /\ renewal[t][k].stage # "renewed" /\ renewal'[t][k].stage = "sent"
    /\ renewal'[t][k].token = storage.pair /\ renewal'[t][k].fresh = None

Finds(t, k) ==
    /\ renewal[t][k].stage = "sent" /\ renewal'[t][k].stage = "found"
    /\ renewal'[t][k].token = renewal[t][k].token
    /\ renewal'[t][k].fresh = renewal[t][k].fresh

Renews(t, k) ==
    /\ renewal[t][k].stage = "found" /\ renewal'[t][k].stage = "renewed"
    /\ renewal'[t][k].token = renewal[t][k].token
    /\ renewal'[t][k].fresh = server.issued + 1
    /\ server' = Rotated(renewal[t][k], server.issued + 1)
    /\ UNCHANGED <<storage, call>>

Ends(t, k) ==
    /\ renewal'[t][k].stage \in {"idle", "refused"}
    /\ renewal'[t][k].token = None /\ renewal'[t][k].fresh = None
    /\ renewal[t][k].stage = "renewed" =>
         server'.lost > 0 \/ (storage'.pair = renewal[t][k].fresh /\ UNCHANGED server)

Others(t, k) ==
    \A u \in Tabs, l \in Renewers : (u = t /\ l = k) \/ renewal'[u][l] = renewal[u][l]

RenewalEffect ==
    \/ UNCHANGED renewal
    \/ \E t \in Tabs, k \in Renewers :
         Others(t, k) /\ (Starts(t, k) \/ Finds(t, k) \/ Renews(t, k) \/ Ends(t, k))

\* Of the renewals.
LEMMA NextRenewalEffect == Typed /\ [Next]_vars => RenewalEffect
<1> SUFFICES ASSUME Typed, [Next]_vars PROVE RenewalEffect
  OBVIOUS
<1>n. /\ NoRenewal.stage = "idle" /\ NoRenewal.token = None /\ NoRenewal.fresh = None
      /\ Refused.stage = "refused" /\ Refused.token = None /\ Refused.fresh = None
  BY DEF NoRenewal, Refused
<1>k. "timer" \in Renewers /\ "retry" \in Renewers
  BY DEF Renewers
<1>s. ASSUME UNCHANGED renewal PROVE RenewalEffect
  BY <1>s DEF RenewalEffect
<1>p. ASSUME NEW t \in Tabs, NEW k \in Renewers, NEW r, renewal' = [renewal EXCEPT ![t][k] = r]
      PROVE  renewal'[t][k] = r /\ Others(t, k)
  <2>1. \A u \in Tabs, l \in Renewers : renewal'[u][l] = IF u = t /\ l = k THEN r ELSE renewal[u][l]
    BY <1>p DEF Typed
  <2> QED  BY <2>1 DEF Others
<1>a. ASSUME NEW t \in Tabs, NEW k \in Renewers, renewal[t][k].stage # "renewed",
             renewal' = [renewal EXCEPT ![t][k] = [NoRenewal EXCEPT !.stage = "sent", !.token = storage.pair]]
      PROVE  RenewalEffect
  <2> DEFINE r == [NoRenewal EXCEPT !.stage = "sent", !.token = storage.pair]
  <2>1. r.stage = "sent" /\ r.token = storage.pair /\ r.fresh = None
    BY DEF NoRenewal
  <2>2. renewal'[t][k] = r /\ Others(t, k)
    BY <1>a, <1>p
  <2>3. Starts(t, k)
    BY <1>a, <2>1, <2>2 DEF Starts
  <2> QED  BY <2>2, <2>3 DEF RenewalEffect
<1>e. ASSUME NEW t \in Tabs, NEW k \in Renewers, NEW r \in {NoRenewal, Refused},
             renewal' = [renewal EXCEPT ![t][k] = r],
             renewal[t][k].stage = "renewed" =>
               server'.lost > 0 \/ (storage'.pair = renewal[t][k].fresh /\ UNCHANGED server)
      PROVE  RenewalEffect
  <2>1. renewal'[t][k] = r /\ Others(t, k)
    BY <1>e, <1>p
  <2>2. Ends(t, k)
    BY <1>e, <1>n, <2>1 DEF Ends
  <2> QED  BY <2>1, <2>2 DEF RenewalEffect
<1>1. ASSUME NEW t \in Tabs, OpenTab(t) \/ SignIn(t) \/ SignOut(t) \/ GuardRedirects(t)
      PROVE  RenewalEffect
  BY <1>1, <1>s DEF OpenTab, SignIn, SignOut, GuardRedirects
<1>2. ASSUME NEW t \in Tabs, Timer(t) PROVE RenewalEffect
  BY <1>2, <1>k, <1>a DEF Timer
<1>3. ASSUME NEW t \in Tabs, FinishTimer(t) PROVE RenewalEffect
  <2>1. renewal[t]["timer"].stage = "renewed" =>
          storage'.pair = renewal[t]["timer"].fresh /\ UNCHANGED server
    BY <1>3 DEF FinishTimer, StoreTokens, Typed, Storage
  <2>2. renewal' = [renewal EXCEPT ![t]["timer"] = NoRenewal]
    BY <1>3 DEF FinishTimer
  <2> QED  BY <1>k, <1>e, <2>1, <2>2
<1>4. ASSUME NEW t \in Tabs, FinishRetry(t) PROVE RenewalEffect
  <2>1. renewal[t]["retry"].stage = "renewed" =>
          storage'.pair = renewal[t]["retry"].fresh /\ UNCHANGED server
    BY <1>4 DEF FinishRetry, StoreTokens, Typed, Storage
  <2>2. renewal' = [renewal EXCEPT ![t]["retry"] = NoRenewal]
    BY <1>4 DEF FinishRetry
  <2> QED  BY <1>k, <1>e, <2>1, <2>2
<1>5. ASSUME NEW t \in Tabs, NEW c \in Slots,
             Ask(t, c) \/ Answered(t, c) \/ DeniedAgain(t, c) \/ LoseCall(t, c)
      PROVE  RenewalEffect
  BY <1>5, <1>s DEF Ask, Answered, DeniedAgain, LoseCall
<1>6. ASSUME NEW t \in Tabs, NEW c \in Slots, JoinRenewal(t, c) PROVE RenewalEffect
  <2>1. CASE renewal' = renewal
    BY <2>1, <1>s
  <2>2. CASE renewal' # renewal
    <3>1. /\ renewal[t]["retry"].stage = "idle"
          /\ renewal' = [renewal EXCEPT ![t]["retry"] =
                           [NoRenewal EXCEPT !.stage = "sent", !.token = storage.pair]]
      BY <1>6, <2>2 DEF JoinRenewal
    <3> QED  BY <3>1, <1>k, <1>a
  <2> QED  BY <2>1, <2>2
<1>7. ASSUME NEW t \in Tabs, NEW k \in Renewers, FindToken(t, k) PROVE RenewalEffect
  <2>1. renewal[t][k].stage = "sent"
    BY <1>7 DEF FindToken
  <2>2. CASE renewal' = [renewal EXCEPT ![t][k] = Refused]
    BY <2>1, <2>2, <1>e
  <2>3. CASE \E id : renewal' = [renewal EXCEPT ![t][k] =
                                   [renewal[t][k] EXCEPT !.stage = "found", !.session = id]]
    <3>1. PICK id : renewal' = [renewal EXCEPT ![t][k] =
                                  [renewal[t][k] EXCEPT !.stage = "found", !.session = id]]
      BY <2>3
    <3> DEFINE r == [renewal[t][k] EXCEPT !.stage = "found", !.session = id]
    <3>2. renewal'[t][k] = r /\ Others(t, k)
      BY <3>1, <1>p
    <3>3. r.stage = "found" /\ r.token = renewal[t][k].token /\ r.fresh = renewal[t][k].fresh
      BY DEF Typed, Renewal
    <3>4. Finds(t, k)
      BY <2>1, <3>2, <3>3 DEF Finds
    <3> QED  BY <3>2, <3>4 DEF RenewalEffect
  <2> QED  BY <1>7, <2>2, <2>3 DEF FindToken
<1>8. ASSUME NEW t \in Tabs, NEW k \in Renewers, RotateToken(t, k) PROVE RenewalEffect
  <2>1. CASE server.issued < MaxIssued
    <3> DEFINE r == [stage |-> "renewed", token |-> renewal[t][k].token, session |-> None,
                     fresh |-> server.issued + 1]
    <3>1. renewal' = [renewal EXCEPT ![t][k] = r]
      BY <1>8, <2>1 DEF RotateToken
    <3>2. renewal'[t][k] = r /\ Others(t, k)
      BY <3>1, <1>p
    <3>3. Renews(t, k)
      BY <1>8, <2>1, <3>2 DEF RotateToken, Renews
    <3> QED  BY <3>2, <3>3 DEF RenewalEffect
  <2>2. CASE ~(server.issued < MaxIssued)
    <3>1. renewal' = [renewal EXCEPT ![t][k] = Refused] /\ renewal[t][k].stage = "found"
      BY <1>8, <2>2 DEF RotateToken
    <3> QED  BY <3>1, <1>e
  <2> QED  BY <2>1, <2>2
<1>9. ASSUME NEW t \in Tabs, NEW k \in Renewers, LoseRenewal(t, k) PROVE RenewalEffect
  <2>1. server'.lost > 0
    BY <1>9, BoundsAssumption DEF LoseRenewal, Typed, Server
  <2>2. renewal' = [renewal EXCEPT ![t][k] = Refused]
    BY <1>9 DEF LoseRenewal
  <2>3. renewal'[t][k] = Refused /\ Others(t, k)
    BY <2>2, <1>p
  <2>4. Ends(t, k)
    BY <2>1, <2>3, <1>n DEF Ends
  <2> QED  BY <2>3, <2>4 DEF RenewalEffect
<1>10. ASSUME NEW s \in server.sessions, RevokeSession(s) PROVE RenewalEffect
  BY <1>10, <1>s DEF RevokeSession
<1>11. CASE AccessExpires
  BY <1>11, <1>s DEF AccessExpires
<1>12. CASE UNCHANGED vars
  BY <1>12, <1>s DEF vars
<1> QED
  BY <1>1, <1>2, <1>3, <1>4, <1>5, <1>6, <1>7, <1>8, <1>9, <1>10, <1>11, <1>12 DEF Next, Respond

\* The stored pair changes to none, to the pair of a sign-in, or to the one a
\* renewal brought.
Brought(t, k) ==
    /\ renewal[t][k].stage = "renewed" /\ renewal'[t][k].stage # "renewed"
    /\ storage'.pair = renewal[t][k].fresh
    /\ UNCHANGED server

StorageEffect ==
    \/ storage'.pair \in {storage.pair, None}
    \/ storage'.pair = server.issued + 1 /\ server' = CreateSession(server.issued + 1)
    \/ \E t \in Tabs, k \in Renewers : Brought(t, k)

\* Of the storage.
LEMMA NextStorageEffect == Typed /\ [Next]_vars => StorageEffect
<1> SUFFICES ASSUME Typed, [Next]_vars PROVE StorageEffect
  OBVIOUS
<1>k. "timer" \in Renewers /\ "retry" \in Renewers
  BY DEF Renewers
<1>f. ClearTokens.pair = None /\ \A p : StoreTokens(p).pair = p
  BY DEF ClearTokens, StoreTokens, Typed, Storage
<1>s. ASSUME storage' = storage \/ storage' = ClearTokens PROVE StorageEffect
  BY <1>s, <1>f DEF StorageEffect
<1>b. ASSUME NEW t \in Tabs, NEW k \in Renewers, renewal[t][k].stage = "renewed",
             renewal' = [renewal EXCEPT ![t][k] = NoRenewal],
             storage' = StoreTokens(renewal[t][k].fresh), UNCHANGED server
      PROVE  StorageEffect
  <2>1. renewal'[t][k].stage # "renewed"
    <3>1. renewal'[t][k] = NoRenewal
      BY <1>b DEF Typed
    <3> QED  BY <3>1 DEF NoRenewal
  <2>2. Brought(t, k)
    BY <1>b, <1>f, <2>1 DEF Brought
  <2> QED  BY <2>2 DEF StorageEffect
<1>1. ASSUME NEW t \in Tabs, OpenTab(t) \/ SignOut(t) \/ GuardRedirects(t) \/ Timer(t)
      PROVE  StorageEffect
  BY <1>1, <1>s DEF OpenTab, SignOut, GuardRedirects, Timer
<1>2. ASSUME NEW t \in Tabs, SignIn(t) PROVE StorageEffect
  BY <1>2, <1>f DEF SignIn, StorageEffect
<1>3. ASSUME NEW t \in Tabs, FinishTimer(t) PROVE StorageEffect
  <2>1. CASE renewal[t]["timer"].stage = "renewed"
    BY <1>3, <1>k, <1>b, <2>1 DEF FinishTimer
  <2>2. CASE renewal[t]["timer"].stage # "renewed"
    BY <1>3, <1>s, <2>2 DEF FinishTimer
  <2> QED  BY <2>1, <2>2
<1>4. ASSUME NEW t \in Tabs, FinishRetry(t) PROVE StorageEffect
  <2>1. CASE renewal[t]["retry"].stage = "renewed"
    BY <1>4, <1>k, <1>b, <2>1 DEF FinishRetry
  <2>2. CASE renewal[t]["retry"].stage # "renewed"
    BY <1>4, <1>s, <2>2 DEF FinishRetry
  <2> QED  BY <2>1, <2>2
<1>5. ASSUME NEW t \in Tabs, NEW c \in Slots,
             Ask(t, c) \/ Answered(t, c) \/ DeniedAgain(t, c) \/ LoseCall(t, c) \/ JoinRenewal(t, c)
      PROVE  StorageEffect
  <2>1. storage' = storage \/ storage' = ClearTokens
    <3>1. CASE Answered(t, c)
      <4>1. call[t][c].kind \in {"data", "me", "logout"}
        BY DEF Typed, Call
      <4> QED  BY <3>1, <4>1 DEF Answered
    <3> QED  BY <1>5, <3>1 DEF Ask, DeniedAgain, LoseCall, Failed, JoinRenewal
  <2> QED  BY <2>1, <1>s
<1>6. ASSUME NEW t \in Tabs, NEW k \in Renewers,
             FindToken(t, k) \/ RotateToken(t, k) \/ LoseRenewal(t, k)
      PROVE  StorageEffect
  BY <1>6, <1>s DEF FindToken, RotateToken, LoseRenewal
<1>7. ASSUME NEW s \in server.sessions, RevokeSession(s) PROVE StorageEffect
  BY <1>7, <1>s DEF RevokeSession
<1>8. CASE AccessExpires
  BY <1>8, <1>s DEF AccessExpires
<1>9. CASE UNCHANGED vars
  BY <1>9, <1>s DEF vars
<1> QED
  BY <1>1, <1>2, <1>3, <1>4, <1>5, <1>6, <1>7, <1>8, <1>9 DEF Next, Respond

\* A pair the server accepts stays accepted or is revoked, unless a sign-out
\* took it and cleared the storage, a renewal exchanged it, or the server
\* failed to.
Kept(p) ==
    \/ p \in server'.good \cup server'.revoked
    \/ storage'.pair = None /\ \E t \in Tabs, c \in Slots : call[t][c].body = p
    \/ /\ \E t \in Tabs, k \in Renewers : renewal[t][k].token = p
       /\ \/ server'.failed
          \/ \E t \in Tabs, k \in Renewers :
               renewal'[t][k].token = p /\ renewal'[t][k].stage = "renewed"

ServerEffect ==
    /\ server'.issued \in {server.issued, server.issued + 1}
    /\ server'.expired <= server'.issued
    /\ server'.good \subseteq server.good \cup {server'.issued}
    /\ server.revoked \subseteq server'.revoked
    /\ server.failed => server'.failed
    /\ server.lost > 0 => server'.lost > 0
    /\ \A p \in server.good : Kept(p)

\* Of the server.
LEMMA NextServerEffect == TypeOK /\ [Next]_vars => ServerEffect
<1> SUFFICES ASSUME TypeOK, [Next]_vars PROVE ServerEffect
  OBVIOUS
<1>t. Typed /\ server.expired <= server.issued /\ server.issued \in Nat /\ server.expired \in Nat
  BY Numbers DEF TypeOK, OnlyIssued
<1> USE <1>t
<1>s. ASSUME UNCHANGED server PROVE ServerEffect
  BY <1>s DEF ServerEffect, Kept
<1>l. ASSUME server' = [server EXCEPT !.lost = @ + 1], server.lost < MaxLost PROVE ServerEffect
  <2>1. /\ server'.issued = server.issued /\ server'.expired = server.expired
        /\ server'.good = server.good /\ server'.revoked = server.revoked
        /\ server'.failed = server.failed /\ server'.lost = server.lost + 1
    BY <1>l DEF Typed, Server
  <2>2. server.lost \in Nat
    BY BoundsAssumption DEF Typed, Server
  <2> QED  BY <2>1, <2>2 DEF ServerEffect, Kept
<1>1. ASSUME NEW t \in Tabs, SignIn(t) PROVE ServerEffect
  <2>1. /\ server'.issued = server.issued + 1 /\ server'.expired = server.expired
        /\ server'.good = server.good \cup {server.issued + 1} /\ server'.revoked = server.revoked
        /\ server'.failed = server.failed /\ server'.lost = server.lost
    BY <1>1 DEF SignIn, CreateSession, Typed, Server
  <2> QED  BY <2>1 DEF ServerEffect, Kept
<1>2. ASSUME NEW t \in Tabs, NEW c \in Slots, Answered(t, c) PROVE ServerEffect
  <2>1. CASE call[t][c].kind # "logout"
    <3>1. UNCHANGED server
      <4>1. call[t][c].kind \in {"data", "me", "logout"}
        BY DEF Typed, Call
      <4> QED  BY <1>2, <2>1, <4>1 DEF Answered
    <3> QED  BY <3>1, <1>s
  <2>2. CASE call[t][c].kind = "logout"
    <3> DEFINE b == call[t][c].body
    <3>1. server' = LoggedOut(b) /\ storage' = ClearTokens
      BY <1>2, <2>2 DEF Answered
    <3>2. /\ server'.issued = server.issued /\ server'.expired = server.expired
          /\ server'.good = server.good \ {b} /\ server'.revoked = server.revoked
          /\ server'.failed = server.failed /\ server'.lost = server.lost
      BY <3>1 DEF LoggedOut, Typed, Server
    <3>3. storage'.pair = None
      BY <3>1 DEF ClearTokens, Typed, Storage
    <3>4. \A p \in server.good : p = b => Kept(p)
      BY <3>3 DEF Kept
    <3>5. \A p \in server.good : p # b => Kept(p)
      BY <3>2 DEF Kept
    <3> QED  BY <3>2, <3>4, <3>5 DEF ServerEffect
  <2> QED  BY <2>1, <2>2
<1>3. ASSUME NEW t \in Tabs, NEW k \in Renewers, RotateToken(t, k) PROVE ServerEffect
  <2> DEFINE p0 == renewal[t][k].token
  <2>1. CASE server.issued < MaxIssued
    <3>1. server' = Rotated(renewal[t][k], server.issued + 1)
      BY <1>3, <2>1 DEF RotateToken
    <3>2. /\ server'.issued = server.issued + 1 /\ server'.expired = server.expired
          /\ server'.good = (server.good \ {p0}) \cup {server.issued + 1}
          /\ server'.revoked = server.revoked
          /\ server'.failed = server.failed /\ server'.lost = server.lost
      BY <3>1 DEF Rotated, Typed, Server
    <3>3. renewal'[t][k].token = p0 /\ renewal'[t][k].stage = "renewed"
      <4> DEFINE r == [stage |-> "renewed", token |-> p0, session |-> None, fresh |-> server.issued + 1]
      <4>1. renewal' = [renewal EXCEPT ![t][k] = r]
        BY <1>3, <2>1 DEF RotateToken
      <4>2. renewal'[t][k] = r
        BY <4>1 DEF Typed
      <4> QED  BY <4>2
    <3>4. \A p \in server.good : p = p0 => Kept(p)
      BY <3>3 DEF Kept
    <3>5. \A p \in server.good : p # p0 => Kept(p)
      BY <3>2 DEF Kept
    <3> QED  BY <3>2, <3>4, <3>5 DEF ServerEffect
  <2>2. CASE ~(server.issued < MaxIssued)
    <3>1. server' = [server EXCEPT !.good = @ \ {p0}, !.failed = TRUE]
      BY <1>3, <2>2 DEF RotateToken
    <3>2. /\ server'.issued = server.issued /\ server'.expired = server.expired
          /\ server'.good = server.good \ {p0} /\ server'.revoked = server.revoked
          /\ server'.failed = TRUE /\ server'.lost = server.lost
      BY <3>1 DEF Typed, Server
    <3>3. \A p \in server.good : Kept(p)
      BY <3>2 DEF Kept
    <3> QED  BY <3>2, <3>3 DEF ServerEffect
  <2> QED  BY <2>1, <2>2
<1>4. ASSUME NEW s \in server.sessions, RevokeSession(s) PROVE ServerEffect
  <2>1. /\ server'.issued = server.issued /\ server'.expired = server.expired
        /\ server'.good = server.good \ {s.hash} /\ server'.revoked = server.revoked \cup {s.hash}
        /\ server'.failed = server.failed /\ server'.lost = server.lost
    BY <1>4 DEF RevokeSession, Typed, Server
  <2> QED  BY <2>1 DEF ServerEffect, Kept
<1>5. CASE AccessExpires
  <2>1. /\ server'.issued = server.issued /\ server'.expired = server.expired + 1
        /\ server'.good = server.good /\ server'.revoked = server.revoked
        /\ server'.failed = server.failed /\ server'.lost = server.lost
    BY <1>5 DEF AccessExpires, Typed, Server
  <2>2. server.expired < server.issued
    BY <1>5 DEF AccessExpires
  <2> QED  BY <2>1, <2>2 DEF ServerEffect, Kept
<1>6. ASSUME NEW t \in Tabs, NEW c \in Slots, LoseCall(t, c) PROVE ServerEffect
  BY <1>6, <1>l DEF LoseCall
<1>7. ASSUME NEW t \in Tabs, NEW k \in Renewers, LoseRenewal(t, k) PROVE ServerEffect
  BY <1>7, <1>l DEF LoseRenewal
<1>8. ASSUME NEW t \in Tabs,
             OpenTab(t) \/ SignOut(t) \/ GuardRedirects(t) \/ Timer(t) \/ FinishTimer(t) \/ FinishRetry(t)
      PROVE  ServerEffect
  BY <1>8, <1>s DEF OpenTab, SignOut, GuardRedirects, Timer, FinishTimer, FinishRetry
<1>9. ASSUME NEW t \in Tabs, NEW c \in Slots, Ask(t, c) \/ JoinRenewal(t, c) \/ DeniedAgain(t, c)
      PROVE  ServerEffect
  BY <1>9, <1>s DEF Ask, JoinRenewal, DeniedAgain
<1>10. ASSUME NEW t \in Tabs, NEW k \in Renewers, FindToken(t, k) PROVE ServerEffect
  BY <1>10, <1>s DEF FindToken
<1>11. CASE UNCHANGED vars
  BY <1>11, <1>s DEF vars
<1> QED
  BY <1>1, <1>2, <1>3, <1>4, <1>5, <1>6, <1>7, <1>8, <1>9, <1>10, <1>11 DEF Next, Respond

---------------------------------------------------------------------------
(* Types *)

\* The pairs stored or sent after a step are known before it, or issued by it.
LEMMA NextOnlyIssued == TypeOK /\ [Next]_vars => OnlyIssued'
<1> SUFFICES ASSUME TypeOK, [Next]_vars PROVE OnlyIssued'
  OBVIOUS
<1>t. Typed /\ Typed' /\ OnlyIssued
  BY NextTyped DEF TypeOK
<1>e. CallEffect /\ RenewalEffect /\ StorageEffect /\ ServerEffect
  BY <1>t, NextCallEffect, NextRenewalEffect, NextStorageEffect, NextServerEffect
<1>n. /\ server.issued \in Nat /\ storage.pair \in Nat
      /\ \A t \in Tabs, c \in Slots : call[t][c].access \in Nat /\ call[t][c].body \in Nat
      /\ \A t \in Tabs, k \in Renewers : renewal[t][k].token \in Nat /\ renewal[t][k].fresh \in Nat
  BY <1>t, Numbers
<1>i. server'.issued = server.issued \/ server'.issued = server.issued + 1
  BY <1>e DEF ServerEffect
<1>k. "retry" \in Renewers
  BY DEF Renewers
<1>m. \A p \in Nat : p <= server.issued => p <= server'.issued
  BY <1>i, <1>n
<1>a. /\ server.good \subseteq 1..server.issued /\ storage.pair <= server.issued
      /\ \A t \in Tabs, c \in Slots : /\ call[t][c].access <= server.issued
                                      /\ call[t][c].body <= server.issued
      /\ \A t \in Tabs, k \in Renewers : /\ renewal[t][k].token <= server.issued
                                         /\ renewal[t][k].fresh <= server.issued
                                         /\ renewal[t][k].stage = "renewed" => renewal[t][k].fresh # None
  BY <1>t DEF OnlyIssued
<1>o. None \in Nat /\ None <= server.issued /\ None # server.issued + 1
  BY <1>n DEF None
<1>1. server'.good \subseteq 1..server'.issued /\ server'.expired <= server'.issued
  <2>1. server'.good \subseteq server.good \cup {server'.issued} /\ server'.expired <= server'.issued
    BY <1>e DEF ServerEffect
  <2>2. ASSUME NEW p \in server'.good PROVE p \in 1..server'.issued
    <3>1. CASE p \in server.good
      BY <1>a, <1>i, <1>n, <3>1
    <3>2. CASE p = server'.issued
      <4>1. p \in Pairs
        BY <1>t, <2>2 DEF Typed, Server
      <4> QED  BY <1>i, <1>n, <3>2, <4>1 DEF Pairs
    <3> QED  BY <2>1, <3>1, <3>2
  <2> QED  BY <2>1, <2>2
<1>2. storage'.pair <= server'.issued
  <2>1. CASE storage'.pair \in {storage.pair, None}
    BY <1>a, <1>m, <1>n, <1>o, <2>1
  <2>2. CASE storage'.pair = server.issued + 1 /\ server' = CreateSession(server.issued + 1)
    <3>1. server'.issued = server.issued + 1
      BY <1>t, <2>2 DEF CreateSession, Typed, Server
    <3> QED  BY <1>n, <2>2, <3>1
  <2>3. CASE \E t \in Tabs, k \in Renewers : Brought(t, k)
    BY <1>a, <1>m, <1>n, <2>3 DEF Brought
  <2> QED  BY <1>e, <2>1, <2>2, <2>3 DEF StorageEffect
<1>3. ASSUME NEW t \in Tabs, NEW c \in Slots
      PROVE  call'[t][c].access <= server'.issued /\ call'[t][c].body <= server'.issued
  BY <1>a, <1>e, <1>k, <1>m, <1>n, <1>o DEF CallEffect
<1>4. ASSUME NEW t \in Tabs, NEW k \in Renewers
      PROVE  /\ renewal'[t][k].token <= server'.issued /\ renewal'[t][k].fresh <= server'.issued
             /\ renewal'[t][k].stage = "renewed" => renewal'[t][k].fresh # None
  <2>1. CASE renewal'[t][k] = renewal[t][k]
    BY <1>a, <1>m, <1>n, <2>1
  <2>2. CASE Starts(t, k)
    BY <1>a, <1>m, <1>n, <1>o, <2>2 DEF Starts
  <2>3. CASE Finds(t, k)
    BY <1>a, <1>m, <1>n, <2>3 DEF Finds
  <2>4. CASE Renews(t, k)
    <3>1. server'.issued = server.issued + 1
      BY <1>t, <2>4 DEF Renews, Rotated, Typed, Server
    <3> QED  BY <1>a, <1>m, <1>n, <1>o, <2>4, <3>1 DEF Renews
  <2>5. CASE Ends(t, k)
    BY <1>m, <1>o, <2>5 DEF Ends
  <2> QED  BY <1>e, <2>1, <2>2, <2>3, <2>4, <2>5 DEF RenewalEffect, Others
<1> QED  BY <1>1, <1>2, <1>3, <1>4 DEF OnlyIssued

\* Storage, requests and renewals keep their types, and no tab stores or sends
\* a pair the server did not issue, in every behaviour (http.ts,
\* auth-provider.tsx).
THEOREM SessionTypeCorrect == Spec => []TypeOK
<1>1. TypeOK /\ [Next]_vars => TypeOK'
  BY NextTyped, NextOnlyIssued DEF TypeOK
<1> QED  BY InitTypeOK, <1>1, PTL DEF Spec

---------------------------------------------------------------------------
(* The stored pair *)

Renewed(t, k) == renewal[t][k].stage = "renewed"

Unused(p) ==
    /\ p # storage.pair
    /\ \A t \in Tabs, c \in Slots : call[t][c].body # p
    /\ \A t \in Tabs, k \in Renewers : renewal[t][k].token # p

\* A pair on its way back to a tab is accepted or revoked, and nobody but that
\* renewal knows it.
FreshIsUnused ==
    \A t \in Tabs, k \in Renewers : Renewed(t, k) =>
        /\ renewal[t][k].fresh \in server.good \cup server.revoked
        /\ Unused(renewal[t][k].fresh)
        /\ \A u \in Tabs, l \in Renewers :
             Renewed(u, l) /\ renewal[u][l].fresh = renewal[t][k].fresh => u = t /\ l = k

PairInv == TypeOK /\ FreshIsUnused /\ StoredPairIsLive

\* At first no pair is stored and none is on its way.
LEMMA InitPairInv == Init => PairInv
<1> SUFFICES ASSUME Init PROVE PairInv
  OBVIOUS
<1>1. \A t \in Tabs, k \in Renewers : ~Renewed(t, k)
  BY DEF Init, Renewed, NoRenewal
<1> QED  BY <1>1, InitTypeOK DEF PairInv, FreshIsUnused, StoredPairIsLive, Init

\* A new pair on its way stays unknown to all others: requests and renewals
\* take what is stored, and what is stored comes from a renewal that ends.
LEMMA NextFreshIsUnused == PairInv /\ [Next]_vars => FreshIsUnused'
<1> SUFFICES ASSUME PairInv, [Next]_vars PROVE FreshIsUnused'
  OBVIOUS
<1>t. Typed /\ OnlyIssued /\ FreshIsUnused
  BY DEF PairInv, TypeOK
<1>e. CallEffect /\ RenewalEffect /\ StorageEffect /\ ServerEffect
  BY <1>t, NextCallEffect, NextRenewalEffect, NextStorageEffect, NextServerEffect DEF TypeOK
<1>n. /\ server.issued \in Nat /\ storage.pair \in Nat
      /\ \A t \in Tabs, c \in Slots : call[t][c].body \in Nat
      /\ \A t \in Tabs, k \in Renewers : renewal[t][k].token \in Nat /\ renewal[t][k].fresh \in Nat
  BY <1>t, Numbers
<1>a. /\ storage.pair <= server.issued
      /\ \A t \in Tabs, c \in Slots : call[t][c].body <= server.issued
      /\ \A t \in Tabs, k \in Renewers : /\ renewal[t][k].token <= server.issued
                                         /\ renewal[t][k].fresh <= server.issued
                                         /\ Renewed(t, k) => renewal[t][k].fresh # None
  BY <1>t DEF OnlyIssued, Renewed
\* Every renewed renewal of the next state was one already, or is the one that
\* renews in this step.
<1>o. ASSUME NEW t \in Tabs, NEW k \in Renewers, Renewed(t, k)', ~Renews(t, k)
      PROVE  Renewed(t, k) /\ renewal'[t][k] = renewal[t][k]
  BY <1>e, <1>o DEF RenewalEffect, Others, Starts, Finds, Ends, Renewed
<1>u. ASSUME NEW t \in Tabs, NEW k \in Renewers
      PROVE  renewal'[t][k].token \in {renewal[t][k].token, None, storage.pair}
  BY <1>e DEF RenewalEffect, Others, Starts, Finds, Renews, Ends
<1>b. ASSUME NEW t \in Tabs, NEW c \in Slots
      PROVE  call'[t][c].body \in {call[t][c].body, None, storage.pair}
  BY <1>e DEF CallEffect
\* A pair that nobody knew stays unknown while it is not stored.
<1>v. ASSUME NEW p, p # None, Unused(p), storage'.pair # p PROVE Unused(p)'
  BY <1>u, <1>b, <1>v DEF Unused
\* The pair a renewal still holds is stored by no other step.
<1>p. ASSUME NEW t \in Tabs, NEW k \in Renewers, Renewed(t, k),
             renewal'[t][k] = renewal[t][k]
      PROVE  storage'.pair # renewal[t][k].fresh
  <2> DEFINE f == renewal[t][k].fresh
  <2>1. f # storage.pair /\ f # None /\ f <= server.issued /\ f \in Nat
    BY <1>t, <1>a, <1>n, <1>p DEF FreshIsUnused, Unused
  <2>2. CASE storage'.pair \in {storage.pair, None}
    BY <2>1, <2>2
  <2>3. CASE storage'.pair = server.issued + 1
    BY <1>n, <2>1, <2>3
  <2>4. CASE \E u \in Tabs, l \in Renewers : Brought(u, l)
    <3>1. PICK u \in Tabs, l \in Renewers : Brought(u, l)
      BY <2>4
    <3>2. Renewed(u, l) /\ ~(u = t /\ l = k) /\ storage'.pair = renewal[u][l].fresh
      BY <1>p, <3>1 DEF Brought, Renewed
    <3> QED  BY <1>t, <1>p, <3>2 DEF FreshIsUnused
  <2> QED  BY <1>e, <2>2, <2>3, <2>4 DEF StorageEffect
\* The pair of a new renewal is new to everybody.
<1>r. ASSUME NEW t \in Tabs, NEW k \in Renewers, Renews(t, k), NEW n, n = server.issued + 1
      PROVE  renewal'[t][k].fresh = n /\ n \in server'.good /\ Unused(n)'
  <2>1. n \in server'.good
    BY <1>t, <1>r DEF Renews, Rotated, Typed, Server
  <2>2. Unused(n)
    BY <1>a, <1>n, <1>r DEF Unused
  <2>3. n # None /\ storage'.pair # n
    BY <1>a, <1>n, <1>r DEF Renews, None
  <2> QED  BY <1>r, <1>v, <2>1, <2>2, <2>3 DEF Renews
<1>1. ASSUME NEW t \in Tabs, NEW k \in Renewers, Renewed(t, k)', NEW f, f = renewal'[t][k].fresh
      PROVE  f \in server'.good \cup server'.revoked /\ Unused(f)'
  <2>1. CASE Renews(t, k)
    BY <1>1, <1>r, <2>1
  <2>2. CASE ~Renews(t, k)
    <3>1. Renewed(t, k) /\ renewal'[t][k] = renewal[t][k]
      BY <1>1, <1>o, <2>2
    <3>2. f \in server.good \cup server.revoked /\ Unused(f) /\ f # None
      BY <1>1, <1>a, <1>t, <3>1 DEF FreshIsUnused
    <3>3. f \in server'.good \cup server'.revoked
      BY <1>e, <3>2 DEF ServerEffect, Kept, Unused
    <3>4. storage'.pair # f
      BY <1>1, <1>p, <3>1
    <3> QED  BY <1>v, <3>2, <3>3, <3>4
  <2> QED  BY <2>1, <2>2
<1>2. ASSUME NEW t \in Tabs, NEW k \in Renewers, Renewed(t, k)',
             NEW u \in Tabs, NEW l \in Renewers, Renewed(u, l)',
             renewal'[u][l].fresh = renewal'[t][k].fresh
      PROVE  u = t /\ l = k
  <2>1. CASE Renews(t, k) /\ Renews(u, l)
    BY <1>e, <2>1 DEF RenewalEffect, Others, Renews
  <2>2. CASE Renews(t, k) /\ ~Renews(u, l)
    <3>1. Renewed(u, l) /\ renewal'[u][l] = renewal[u][l]
      BY <1>2, <1>o, <2>2
    <3> QED  BY <1>a, <1>n, <1>2, <2>2, <3>1 DEF Renews
  <2>3. CASE ~Renews(t, k) /\ Renews(u, l)
    <3>1. Renewed(t, k) /\ renewal'[t][k] = renewal[t][k]
      BY <1>2, <1>o, <2>3
    <3>2. renewal'[u][l].fresh = server.issued + 1
      BY <2>3 DEF Renews
    <3>3. renewal[t][k].fresh <= server.issued /\ renewal[t][k].fresh \in Nat
      BY <1>a, <1>n
    <3> QED  BY <1>n, <1>2, <3>1, <3>2, <3>3
  <2>4. CASE ~Renews(t, k) /\ ~Renews(u, l)
    <3>1. /\ Renewed(t, k) /\ renewal'[t][k] = renewal[t][k]
          /\ Renewed(u, l) /\ renewal'[u][l] = renewal[u][l]
      BY <1>2, <1>o, <2>4
    <3> QED  BY <1>t, <1>2, <3>1 DEF FreshIsUnused
  <2> QED  BY <2>1, <2>2, <2>3, <2>4
<1> QED  BY <1>1, <1>2 DEF FreshIsUnused

\* The stored pair stays usable: what takes it from the server is a sign-out
\* that also clears the storage, or the renewal that is then its witness.
LEMMA NextStoredPairIsLive == PairInv /\ [Next]_vars => StoredPairIsLive'
<1> SUFFICES ASSUME PairInv, [Next]_vars, ~(server'.lost > 0), ~server'.failed
             PROVE  StoredPairIsLive'
  BY DEF StoredPairIsLive
<1>t. Typed /\ OnlyIssued /\ FreshIsUnused /\ StoredPairIsLive
  BY DEF PairInv, TypeOK
<1>e. RenewalEffect /\ StorageEffect /\ ServerEffect
  BY <1>t, NextRenewalEffect, NextStorageEffect, NextServerEffect DEF TypeOK
<1>1. CASE storage'.pair = None
  BY <1>1 DEF StoredPairIsLive
<1>2. CASE storage'.pair = storage.pair /\ storage.pair # None
  <2> DEFINE p == storage.pair
  <2>1. CASE p \in server.revoked
    BY <1>e, <1>2, <2>1 DEF ServerEffect, StoredPairIsLive
  <2>2. CASE p \in server.good
    <3>1. Kept(p)
      BY <1>e, <2>2 DEF ServerEffect
    <3>2. CASE p \in server'.good \cup server'.revoked
      BY <1>2, <3>2 DEF StoredPairIsLive
    <3>3. CASE \E t \in Tabs, k \in Renewers :
                 renewal'[t][k].token = p /\ renewal'[t][k].stage = "renewed"
      BY <1>2, <3>3 DEF StoredPairIsLive
    <3> QED  BY <1>2, <3>1, <3>2, <3>3 DEF Kept
  <2>3. CASE \E t \in Tabs, k \in Renewers : Renewed(t, k) /\ renewal[t][k].token = p
    <3>1. PICK t \in Tabs, k \in Renewers : Renewed(t, k) /\ renewal[t][k].token = p
      BY <2>3
    <3>2. renewal[t][k].fresh # p
      BY <1>t, <3>1 DEF FreshIsUnused, Unused
    <3>3. renewal'[t][k] = renewal[t][k]
      BY <1>e, <1>2, <3>1, <3>2 DEF RenewalEffect, Others, Starts, Finds, Renews, Ends, Renewed
    <3> QED  BY <1>2, <3>1, <3>3 DEF StoredPairIsLive, Renewed
  <2> QED  BY <1>t, <1>e, <1>2, <2>1, <2>2, <2>3 DEF StoredPairIsLive, ServerEffect, Renewed
<1>3. CASE storage'.pair = server.issued + 1 /\ server' = CreateSession(server.issued + 1)
  <2>1. server.issued + 1 \in server'.good
    BY <1>t, <1>3 DEF CreateSession, Typed, Server
  <2> QED  BY <1>3, <2>1 DEF StoredPairIsLive
<1>4. CASE \E t \in Tabs, k \in Renewers : Brought(t, k)
  BY <1>t, <1>4 DEF Brought, Renewed, FreshIsUnused, StoredPairIsLive
<1> QED  BY <1>e, <1>1, <1>2, <1>3, <1>4 DEF StorageEffect

\* The refresh token the browser holds can be used, or its exchange is on its
\* way back, unless it was revoked, an answer was lost or the server failed:
\* for any number of tabs, requests and pairs (http.ts:36-42, service.go:482).
THEOREM PairStaysLive == Spec => []StoredPairIsLive
<1>1. PairInv /\ [Next]_vars => PairInv'
  BY NextTyped, NextOnlyIssued, NextFreshIsUnused, NextStoredPairIsLive DEF PairInv, TypeOK
<1>2. PairInv => StoredPairIsLive
  BY DEF PairInv
<1> QED  BY InitPairInv, <1>1, <1>2, PTL DEF Spec
=============================================================================
