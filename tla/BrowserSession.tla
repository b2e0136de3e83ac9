--------------------------- MODULE BrowserSession ---------------------------
(***************************************************************************)
(* How the browser keeps a user signed in: the token pair in localStorage  *)
(* that every tab of the browser shares, the hint cookie the page proxy    *)
(* reads, the renewal of the pair after a 401 and every ten minutes, and   *)
(* sign-out, against the server's refresh tokens and session rows.         *)
(*                                                                         *)
(* A pair (access token, refresh token) is the number under which the      *)
(* server issued it.  An access token is a signed text: it is accepted     *)
(* until its lifetime ends, whatever became of the session.  A refresh     *)
(* token is accepted once, while its row is in the table.                  *)
(***************************************************************************)
EXTENDS Naturals, FiniteSets

CONSTANTS Tabs,       \* the tabs of one browser
          Slots,      \* requests one tab has under way at most
          MaxIssued,  \* pairs the server issues; the next one fails
          MaxTimed,   \* a timer fires while fewer renewals are under way
          MaxLost,    \* answers the network loses
          Https       \* whether the application is served over https

ASSUME BoundsAssumption ==
  MaxIssued \in Nat \ {0} /\ MaxTimed \in Nat /\ MaxLost \in Nat /\ Https \in BOOLEAN

VARIABLES server,   \* refresh tokens, session rows and lifetimes
          storage,  \* localStorage and the hint cookie, shared by the tabs
          tab,      \* what each tab shows and whom it takes for signed in
          call,     \* the API requests of each tab
          renewal   \* the two requests for a new pair a tab may have out

vars == <<server, storage, tab, call, renewal>>

None == 0
Pairs == 1..MaxIssued
PairOrNone == 0..MaxIssued

(* The renewal behind a 401 is shared by a tab's requests (isRefreshing,   *)
(* refreshPromise); the ten-minute timer sends its own.                    *)
Renewers == {"retry", "timer"}

Renewing == {o \in Tabs \X Renewers : renewal[o[1]][o[2]].stage # "idle"}

NoCall == [kind |-> "data", stage |-> "idle", access |-> None, body |-> None]
NoRenewal == [stage |-> "idle", token |-> None, session |-> None, fresh |-> None]
Refused == [NoRenewal EXCEPT !.stage = "refused"]

Idle(t, c) == call[t][c].stage = "idle"
Quiet(t) == /\ \A c \in Slots : Idle(t, c)
            /\ \A k \in Renewers : renewal[t][k].stage = "idle"

---------------------------------------------------------------------------
(* The server. *)

(* The Auth middleware: a signed token whose lifetime is not over. *)
Accepted(p) == p > server.expired

(* Login and registration: a new pair with a session row of its own. *)
CreateSession(n) ==
  [server EXCEPT !.issued = n, !.good = @ \cup {n},
                 !.sessions = @ \cup {[id |-> n, hash |-> n]}]

(* RefreshTokens, first half: the row of the token and its session. *)
FindToken(t, k) ==
  LET r == renewal[t][k]
      named == {s \in server.sessions : s.hash = r.token}
  IN  /\ r.stage = "sent"
      /\ renewal' = [renewal EXCEPT ![t][k] =
           IF r.token \in server.good
           THEN [@ EXCEPT !.stage = "found",
                          !.session = IF named = {} THEN None
                                      ELSE (CHOOSE s \in named : TRUE).id]
           ELSE Refused]
      /\ UNCHANGED <<server, storage, tab, call>>

(* RefreshTokens, second half: the old row goes, whether or not it is      *)
(* still there, a new pair comes, and the session found before is given    *)
(* the new hash if its row still exists.                                   *)
Rotated_Unsaved(r, n) == [server EXCEPT !.good = @ \ {r.token}]

Rotated(r, n) ==
  [server EXCEPT !.issued = n,
                 !.good = (@ \ {r.token}) \cup {n},
                 !.sessions = {IF s.id = r.session THEN [s EXCEPT !.hash = n] ELSE s : s \in @}]

RotateToken(t, k) ==
  LET r == renewal[t][k] IN
  /\ r.stage = "found"
  /\ IF server.issued < MaxIssued
     THEN /\ server' = Rotated(r, server.issued + 1)
          /\ renewal' = [renewal EXCEPT ![t][k] =
               [stage |-> "renewed", token |-> r.token, session |-> None,
                fresh |-> server.issued + 1]]
     ELSE /\ server' = [server EXCEPT !.good = @ \ {r.token}, !.failed = TRUE]
          /\ renewal' = [renewal EXCEPT ![t][k] = Refused]
  /\ UNCHANGED <<storage, tab, call>>

(* Logout: the row of the token in the body and the session it names. *)
LoggedOut(token) ==
  [server EXCEPT !.good = @ \ {token},
                 !.sessions = {s \in @ : s.hash # token}]

(* A session revoked from another device's session list. *)
RevokeSession(s) ==
  /\ s \in server.sessions
  /\ server' = [server EXCEPT !.sessions = @ \ {s}, !.good = @ \ {s.hash},
                              !.revoked = @ \cup {s.hash}]
  /\ UNCHANGED <<storage, tab, call, renewal>>

(* The fifteen minutes of the oldest access token still accepted are over. *)
AccessExpires ==
  /\ server.expired < server.issued
  /\ server' = [server EXCEPT !.expired = @ + 1]
  /\ UNCHANGED <<storage, tab, call, renewal>>

---------------------------------------------------------------------------
(* Storage. *)

StoreTokens(p) == [storage EXCEPT !.pair = p, !.hint = TRUE]

(* The cookie is cleared with the Secure attribute, which a page loaded    *)
(* over plain http may not set: there it stays.                            *)
ClearTokens == [storage EXCEPT !.pair = None, !.hint = @ /\ ~Https]

(* The proxy lets a browser with the hint cookie see the application only, *)
(* and one without it the sign-in page only.                               *)
Proxied == IF storage.hint THEN "app" ELSE "login"

---------------------------------------------------------------------------
(* The tabs. *)

SignedOut(t) == [tab EXCEPT ![t].user = FALSE, ![t].loading = FALSE]

Request(kind) == [kind |-> kind, stage |-> "sent", access |-> storage.pair,
                  body |-> IF kind = "logout" THEN storage.pair ELSE None]

(* A tab is opened or reloaded: the proxy chooses the page, the provider   *)
(* starts with no user and asks who the stored token belongs to.           *)
OpenTab(t) ==
  /\ Quiet(t)
  /\ tab' = [tab EXCEPT ![t] = [view |-> Proxied, user |-> FALSE,
                                loading |-> storage.pair # None]]
  /\ IF storage.pair = None THEN UNCHANGED call
     ELSE \E c \in Slots : call' = [call EXCEPT ![t][c] = Request("me")]
  /\ UNCHANGED <<server, storage, renewal>>

(* The sign-in form; the answer holds the pair and the page moves on. *)
SignIn(t) ==
  /\ tab[t].view = "login" /\ ~tab[t].user /\ Quiet(t)
  /\ server.issued < MaxIssued
  /\ server' = CreateSession(server.issued + 1)
  /\ storage' = StoreTokens(server.issued + 1)
  /\ tab' = [tab EXCEPT ![t] = [view |-> "app", user |-> TRUE, loading |-> FALSE]]
  /\ UNCHANGED <<call, renewal>>

(* The guard of every application page pushes /login; the proxy answers a  *)
(* browser that still has the hint cookie with the dashboard, whose guard  *)
(* has nothing new to react to and shows nothing.                          *)
GuardRedirects(t) ==
  /\ tab[t].view = "app" /\ ~tab[t].loading /\ ~tab[t].user
  /\ tab' = [tab EXCEPT ![t].view = IF Proxied = "login" THEN "login" ELSE "blank"]
  /\ UNCHANGED <<server, storage, call, renewal>>

(* Any query or mutation of a signed-in tab, the polls among them. *)
Ask(t, c) ==
  /\ tab[t].user /\ Idle(t, c)
  /\ call' = [call EXCEPT ![t][c] = Request("data")]
  /\ UNCHANGED <<server, storage, tab, renewal>>

(* logout(), from the menu or after thirty idle minutes.  Without a stored *)
(* token nothing is sent.  One sign-out of a tab at a time (a bound).      *)
SignOut(t) ==
  /\ tab[t].user
  /\ \A c \in Slots : ~Idle(t, c) => call[t][c].kind # "logout"
  /\ IF storage.pair # None
     THEN /\ \E c \in Slots : Idle(t, c) /\ call' = [call EXCEPT ![t][c] = Request("logout")]
          /\ UNCHANGED <<storage, tab>>
     ELSE /\ storage' = ClearTokens /\ tab' = SignedOut(t)
          /\ UNCHANGED call
  /\ UNCHANGED <<server, renewal>>

(* What a request that failed for good leaves behind: logout() and         *)
(* refreshUser() clear the tokens and the user, a query only reports it.   *)
Failed(t, c) ==
  /\ call' = [call EXCEPT ![t][c] = NoCall]
  /\ IF call[t][c].kind = "data" THEN UNCHANGED <<storage, tab>>
     ELSE storage' = ClearTokens /\ tab' = SignedOut(t)

(* The server accepts the request's access token. *)
Answered(t, c) ==
  LET r == call[t][c] IN
  /\ r.stage \in {"sent", "resent"} /\ Accepted(r.access)
  /\ call' = [call EXCEPT ![t][c] = NoCall]
  /\ CASE r.kind = "data" -> UNCHANGED <<server, storage, tab>>
       [] r.kind = "me" ->
            /\ tab' = [tab EXCEPT ![t].user = TRUE, ![t].loading = FALSE]
            /\ UNCHANGED <<server, storage>>
       [] r.kind = "logout" ->
            /\ server' = LoggedOut(r.body)
            /\ storage' = ClearTokens /\ tab' = SignedOut(t)
  /\ UNCHANGED renewal

(* The network loses a request or its answer. *)
LoseCall(t, c) ==
  /\ call[t][c].stage \in {"sent", "resent"} /\ server.lost < MaxLost
  /\ server' = [server EXCEPT !.lost = @ + 1]
  /\ Failed(t, c)
  /\ UNCHANGED renewal

(* The first 401 of a request: attemptTokenRefresh lets it join the renewal *)
(* its tab has out, or starts one with the refresh token stored now; with  *)
(* none it fails, and the session counts as expired.                       *)
JoinRenewal(t, c) ==
  LET out == renewal[t]["retry"].stage # "idle" IN
  /\ call[t][c].stage = "sent" /\ ~Accepted(call[t][c].access)
  /\ IF out \/ storage.pair # None
     THEN /\ call' = [call EXCEPT ![t][c].stage = "waiting", ![t][c].access = None]
          /\ renewal' = IF out THEN renewal
                        ELSE [renewal EXCEPT ![t]["retry"] =
                                [NoRenewal EXCEPT !.stage = "sent", !.token = storage.pair]]
          /\ UNCHANGED <<storage, tab>>
     ELSE /\ call' = [call EXCEPT ![t][c] = NoCall]
          /\ storage' = ClearTokens /\ tab' = SignedOut(t)
          /\ UNCHANGED renewal
  /\ UNCHANGED server

(* A second 401 is final. *)
DeniedAgain(t, c) ==
  /\ call[t][c].stage = "resent" /\ ~Accepted(call[t][c].access)
  /\ Failed(t, c)
  /\ UNCHANGED <<server, renewal>>

LoseRenewal(t, k) ==
  /\ renewal[t][k].stage \in {"sent", "renewed"} /\ server.lost < MaxLost
  /\ server' = [server EXCEPT !.lost = @ + 1]
  /\ renewal' = [renewal EXCEPT ![t][k] = Refused]
  /\ UNCHANGED <<storage, tab, call>>

Waiting(t) == {c \in Slots : call[t][c].stage = "waiting"}

(* The renewal's answer releases every request that waits for it: with the *)
(* new pair stored they are sent again, their bodies as they were; else    *)
(* they fail, the tokens are cleared, and the session-expired event finds  *)
(* none to sign out with.                                                  *)
FinishRetry_FreesOne(t) ==
  LET r == renewal[t]["retry"] IN
  /\ r.stage = "refused" /\ Waiting(t) # {}
  /\ renewal' = [renewal EXCEPT ![t]["retry"] = NoRenewal]
  /\ storage' = ClearTokens /\ tab' = SignedOut(t)
  /\ \E c \in Waiting(t) : call' = [call EXCEPT ![t][c] = NoCall]
  /\ UNCHANGED server

FinishRetry_KeepsUser(t) ==
  LET r == renewal[t]["retry"] IN
  /\ r.stage \in {"renewed", "refused"}
  /\ renewal' = [renewal EXCEPT ![t]["retry"] = NoRenewal]
  /\ storage' = IF r.stage = "renewed" THEN StoreTokens(r.fresh) ELSE storage
  /\ call' = [call EXCEPT ![t] = [c \in Slots |-> IF c \in Waiting(t) THEN NoCall ELSE @[c]]]
  /\ UNCHANGED <<server, tab>>

FinishRetry(t) ==
  LET r == renewal[t]["retry"] IN
  /\ r.stage \in {"renewed", "refused"}
  /\ renewal' = [renewal EXCEPT ![t]["retry"] = NoRenewal]
  /\ IF r.stage = "renewed"
     THEN /\ storage' = StoreTokens(r.fresh)
          /\ call' = [call EXCEPT ![t] = [c \in Slots |->
               IF c \in Waiting(t) THEN [call[t][c] EXCEPT !.stage = "resent", !.access = r.fresh]
               ELSE call[t][c]]]
          /\ UNCHANGED tab
     ELSE /\ storage' = ClearTokens /\ tab' = SignedOut(t)
          /\ call' = [call EXCEPT ![t] = [c \in Slots |->
               IF c \in Waiting(t) THEN NoCall ELSE call[t][c]]]
  /\ UNCHANGED server

(* Every ten minutes a signed-in tab renews whatever pair is stored. *)
Timer(t) ==
  /\ tab[t].user /\ storage.pair # None
  /\ renewal[t]["timer"].stage = "idle" /\ Cardinality(Renewing) < MaxTimed
  /\ renewal' = [renewal EXCEPT ![t]["timer"] =
                   [NoRenewal EXCEPT !.stage = "sent", !.token = storage.pair]]
  /\ UNCHANGED <<server, storage, tab, call>>

(* A failure of it is announced as an expired session, and the handler     *)
(* signs out with the token that is stored by then.                        *)
FinishTimer_Forgets(t) ==
  /\ renewal[t]["timer"].stage \in {"renewed", "refused"}
  /\ renewal' = [renewal EXCEPT ![t]["timer"] = NoRenewal]
  /\ UNCHANGED <<server, storage, tab, call>>

FinishTimer(t) ==
  LET r == renewal[t]["timer"] IN
  /\ r.stage \in {"renewed", "refused"}
  /\ renewal' = [renewal EXCEPT ![t]["timer"] = NoRenewal]
  /\ \/ /\ r.stage = "renewed"
        /\ storage' = StoreTokens(r.fresh) /\ UNCHANGED <<tab, call>>
     \/ /\ r.stage = "refused" /\ storage.pair # None
        /\ \E c \in Slots : Idle(t, c) /\ call' = [call EXCEPT ![t][c] = Request("logout")]
        /\ UNCHANGED <<storage, tab>>
     \/ /\ r.stage = "refused" /\ storage.pair = None
        /\ storage' = ClearTokens /\ tab' = SignedOut(t) /\ UNCHANGED call
  /\ UNCHANGED server

---------------------------------------------------------------------------
Init ==
  /\ server = [issued |-> 0, good |-> {}, sessions |-> {}, expired |-> 0,
               revoked |-> {}, failed |-> FALSE, lost |-> 0]
  /\ storage = [pair |-> None, hint |-> FALSE]
  /\ tab = [t \in Tabs |-> [view |-> "closed", user |-> FALSE, loading |-> FALSE]]
  /\ call = [t \in Tabs |-> [c \in Slots |-> NoCall]]
  /\ renewal = [t \in Tabs |-> [k \in Renewers |-> NoRenewal]]

Respond(t, c) == Answered(t, c) \/ JoinRenewal(t, c) \/ DeniedAgain(t, c)

Next ==
  \/ \E t \in Tabs : OpenTab(t) \/ SignIn(t) \/ SignOut(t) \/ GuardRedirects(t)
                     \/ Timer(t) \/ FinishTimer(t) \/ FinishRetry(t)
  \/ \E t \in Tabs, c \in Slots : Ask(t, c) \/ Respond(t, c) \/ LoseCall(t, c)
  \/ \E t \in Tabs, k \in Renewers : FindToken(t, k) \/ RotateToken(t, k) \/ LoseRenewal(t, k)
  \/ \E s \in server.sessions : RevokeSession(s)
  \/ AccessExpires

Spec == Init /\ [][Next]_vars

(* A request is answered or fails, the code between two awaits runs, and a *)
(* signed-in tab asks again and again (it polls every thirty seconds).     *)
Fairness ==
  /\ \A t \in Tabs : WF_vars(FinishTimer(t)) /\ WF_vars(FinishRetry(t)) /\ WF_vars(GuardRedirects(t))
  /\ \A t \in Tabs, c \in Slots : WF_vars(Respond(t, c))
  /\ \A t \in Tabs, k \in Renewers : WF_vars(FindToken(t, k)) /\ WF_vars(RotateToken(t, k))
  /\ \A t \in Tabs : WF_vars(\E c \in Slots : Ask(t, c))

FairSpec == Spec /\ Fairness

---------------------------------------------------------------------------
Session == [id : Pairs, hash : Pairs]

Server == [issued : PairOrNone, good : SUBSET Pairs, sessions : SUBSET Session,
           expired : PairOrNone, revoked : SUBSET Pairs, failed : BOOLEAN, lost : 0..MaxLost]

Storage == [pair : PairOrNone, hint : BOOLEAN]

Tab == [view : {"closed", "login", "app", "blank"}, user : BOOLEAN, loading : BOOLEAN]

Call == [kind : {"data", "me", "logout"}, stage : {"idle", "sent", "waiting", "resent"},
         access : PairOrNone, body : PairOrNone]

Renewal == [stage : {"idle", "sent", "found", "renewed", "refused"},
            token : PairOrNone, session : PairOrNone, fresh : PairOrNone]

Typed ==
  /\ server \in Server /\ storage \in Storage
  /\ tab \in [Tabs -> Tab]
  /\ call \in [Tabs -> [Slots -> Call]]
  /\ renewal \in [Tabs -> [Renewers -> Renewal]]

(* What the browser stores or has sent is a pair the server issued.        *)
OnlyIssued ==
  /\ server.good \subseteq 1..server.issued /\ server.expired <= server.issued
  /\ storage.pair <= server.issued
  /\ \A t \in Tabs, c \in Slots : /\ call[t][c].access <= server.issued
                                  /\ call[t][c].body <= server.issued
  /\ \A t \in Tabs, k \in Renewers : /\ renewal[t][k].token <= server.issued
                                     /\ renewal[t][k].fresh <= server.issued
                                     /\ renewal[t][k].stage = "renewed" => renewal[t][k].fresh # None

(* Every variable has its type, and no pair is made up.                    *)
TypeOK == Typed /\ OnlyIssued

(* The refresh token the browser holds can still be used, or the answer to *)
(* a renewal with it is on its way to some tab, unless its session was     *)
(* revoked, an answer was lost or the server failed (http.ts:36-42,        *)
(* service.go:482-505): no order of tabs, timers and sign-outs strands it. *)
StoredPairIsLive ==
  \/ storage.pair \in server.good \cup server.revoked \cup {None}
  \/ server.lost > 0 \/ server.failed
  \/ \E t \in Tabs, k \in Renewers :
       renewal[t][k].stage = "renewed" /\ renewal[t][k].token = storage.pair

(* No request hangs on a renewal: each one ends, also when the renewal it  *)
(* waits for was started by another request or is refused (http.ts:86-117).*)
CallsEnd == \A t \in Tabs, c \in Slots : ~Idle(t, c) ~> Idle(t, c)

Dead == server.good = {} /\ server.expired = server.issued

(* When the server accepts nothing any more, every tab drops its user and  *)
(* leaves the application's pages, unless somebody signs in again          *)
(* (http.ts:151-175, auth-provider.tsx:336-346, protected-route.tsx:18-22).*)
(* It need not be the sign-in page it ends on: a renewal answered after a  *)
(* sign-out stores its pair, and the hint cookie, again.                   *)
DeadSessionEnds ==
  Dead ~> ~Dead \/ \A t \in Tabs : ~tab[t].user /\ tab[t].view # "app"
=============================================================================
