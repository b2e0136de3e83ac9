----------------------------- MODULE FormProofs -----------------------------
(***************************************************************************)
(* Theorems about Forms: what holds of every form, however often its       *)
(* requests are refused or lost, its dialog is closed and its page left,   *)
(* for any number of requests, texts and submissions.                      *)
(***************************************************************************)
EXTENDS Forms, TLAPS

-----------------------------------------------------------------------------
(* The inductive invariant.                                                *)

Page   == [here: BOOLEAN, open: BOOLEAN, draft: Entry, busy: BOOLEAN, leaving: BOOLEAN,
           seen: Row, copy: Row, count: 0 .. FailedLimit, locked: BOOLEAN]
Flight == [stage: {"idle", "sent", "ok", "no"}, entry: Entry, row: Row,
           owner: {"here", "left", "none"}, count: 0 .. FailedLimit]
Hist   == [typed: 0 .. MaxTyped, submits: Nat, given: SUBSET Entry, exposed: SUBSET Entry,
           losses: 0 .. MaxLosses, told: 0 .. FailedLimit, strayed: BOOLEAN, twice: BOOLEAN,
           others: BOOLEAN, saved: Row]

Server == [row: Row, made: [Entry -> 0 .. 2]]

Types ==
    /\ form \in Names /\ page \in Page /\ flight \in [Flights -> Flight]
    /\ stored \in Attempts /\ server \in Server /\ hist \in Hist

Here(f) == Live(f) /\ flight[f].owner = "here"

\* What was not typed yet is nowhere; a button, and no page, has no text.
Untyped ==
    /\ page.draft <= hist.typed
    /\ \A f \in Flights : Live(f) => flight[f].entry <= hist.typed
    /\ \A e \in Entry : e > hist.typed => server.made[e] = 0
    /\ has.needs = "button" \/ ~page.here => page.draft = 0

\* A form that waits for its answer has one request at a time, and is busy.  A request
\* the page does not wait for is one of a page that was left.
OneRequest ==
    /\ page.open => page.here
    /\ \A f \in Flights : /\ Here(f) => page.here
                          /\ Live(f) => Here(f) \/ hist.strayed
    /\ has.gated => \A f \in Flights :
                       Here(f) => page.busy /\ \A g \in Flights : Here(g) => f = g

\* A text in the form that is on its way was sent by this page, and by it alone.
SentHere ==
    /\ \A f \in Flights :
          Live(f) /\ page.draft # 0 /\ flight[f].entry = page.draft => Here(f)
    /\ has.gated => \A f, g \in Flights :
          Live(f) /\ Live(g) /\ f # g /\ flight[f].entry # 0
          => flight[f].entry # flight[g].entry

\* The text in the form does not matter any more, or is known to be at risk.
Spare(d) == d = 0 \/ d \in hist.exposed

\* While an answer is awaited the form holds what was sent, or something that was
\* typed since.
Awaited ==
    \A f \in Flights :
       /\ Live(f) => Spare(page.draft) \/ (Here(f) /\ flight[f].entry = page.draft)
       /\ flight[f].stage = "ok" => server.made[flight[f].entry] > 0

\* A page about to go away, or to copy its row anew, takes nothing with it.
Disposable ==
    page.leaving \/ (does.follows /\ page.seen # server.row)
    => Spare(page.draft) \/ server.made[page.draft] > 0

KeptInv == Untyped /\ Awaited /\ Disposable /\ TypedIsKept

\* Nothing was lost and the form was never submitted while it was left.
Orderly == does.sends = "create" /\ has.gated /\ hist.losses = 0 /\ ~hist.twice

\* What the form would send again is not on the server, unless its success is still
\* to be handled.
TwinInv ==
    /\ \A e \in Entry \ {0} : server.made[e] > 1 => does.sends = "create" /\ ~Orderly
    /\ Orderly => \A f \in Flights :
          flight[f].stage = "sent" /\ flight[f].entry # 0 => server.made[flight[f].entry] = 0
    /\ Orderly /\ page.draft # 0 /\ server.made[page.draft] > 0
          => \/ page.leaving
             \/ \E f \in Flights : /\ Here(f) /\ flight[f].stage = "ok"
                                   /\ flight[f].entry = page.draft

\* Nobody else stored the row, nothing was lost and no page was left in between.
Undisturbed ==
    StoresRow /\ has.gated /\ ~hist.others /\ hist.losses = 0 /\ ~hist.strayed

\* The server has what was last reported as saved, or the answer that will say so is
\* on its way.
SavedInv ==
    Undisturbed =>
       /\ \A f \in Flights : Live(f) =>
             server.row = IF flight[f].stage = "ok" THEN flight[f].row ELSE hist.saved
       /\ (\A f \in Flights : ~Live(f)) => server.row = hist.saved

\* A form at its limit is locked, and one that is not locked may fail once more.
Limits ==
    /\ page.count >= FailedLimit => page.locked
    /\ stored.count >= FailedLimit => stored.locked
    /\ ~does.locks => page.count = 0 /\ hist.told = 0
    /\ \A f \in Flights : Live(f) => flight[f].count < FailedLimit

\* The page, the tab and the request agree on the failures that were counted.
LockInv ==
    does.locks /\ ~hist.strayed =>
       /\ page.count = hist.told /\ stored.count = hist.told
       /\ page.locked <=> hist.told >= FailedLimit
       /\ stored.locked <=> hist.told >= FailedLimit
       /\ \A f \in Flights : Live(f) => flight[f].count = hist.told

FormInv ==
    /\ Types /\ Limits /\ OneRequest /\ SentHere
    /\ KeptInv /\ TwinInv /\ SavedInv /\ LockInv

-----------------------------------------------------------------------------
(* The forms.                                                              *)

HandlerSet == [starts: {"blank", "row"}, sends: {"create", "once", "write"},
               after: SUBSET {"clear", "close", "leave"}, follows: BOOLEAN, locks: BOOLEAN,
               refusal: SUBSET {"stays", "gone"}]
ControlSet == [shows: {"page", "dialog"}, needs: {"typed", "row", "button"},
               closing: {"keeps", "drops"}, gated: BOOLEAN, shuts: BOOLEAN]

\* A form that locks waits for its answers, and one whose texts the server would take
\* twice clears them or leaves the page.
Sound(h, c) ==
    /\ h \in HandlerSet /\ c \in ControlSet
    /\ h.locks => c.gated
    /\ h.sends = "create" => c.needs = "button" \/ h.after \cap {"clear", "leave"} # {}

LEMMA PlainHandler ==
    ASSUME NEW s \in {"blank", "row"}, NEW x \in {"create", "once", "write"},
           NEW a \in SUBSET {"clear", "close", "leave"}
    PROVE  /\ Handler(s, x, a) \in HandlerSet /\ ~Handler(s, x, a).locks
           /\ Handler(s, x, a).sends = x /\ Handler(s, x, a).after = a
BY DEF Handler, HandlerSet

LEMMA OtherHandlers ==
    /\ LoginForm \in HandlerSet /\ LoginForm.after = {"leave"}
    /\ ResetForm \in HandlerSet /\ ~ResetForm.locks /\ ResetForm.sends = "once"
    /\ SettingsForm \in HandlerSet /\ ~SettingsForm.locks /\ SettingsForm.sends = "write"
    /\ IdentityUnlink \in HandlerSet /\ ~IdentityUnlink.locks /\ IdentityUnlink.sends = "write"
<1>1. ASSUME NEW h \in HandlerSet
      PROVE  /\ [h EXCEPT !.locks = TRUE] \in HandlerSet
             /\ [h EXCEPT !.locks = TRUE].after = h.after
             /\ [h EXCEPT !.follows = TRUE] \in HandlerSet
             /\ [h EXCEPT !.follows = TRUE].locks = h.locks
             /\ [h EXCEPT !.follows = TRUE].sends = h.sends
             /\ \A r \in SUBSET {"stays", "gone"} :
                   /\ [h EXCEPT !.refusal = r] \in HandlerSet
                   /\ [h EXCEPT !.refusal = r].locks = h.locks
                   /\ [h EXCEPT !.refusal = r].sends = h.sends
  BY DEF HandlerSet
<1>2. LoginForm \in HandlerSet /\ LoginForm.after = {"leave"}
  <2> DEFINE h == Handler("blank", "create", {"leave"})
  <2>1. h \in HandlerSet /\ ~h.locks /\ h.sends = "create" /\ h.after = {"leave"}  BY PlainHandler
  <2>2. LoginForm = [h EXCEPT !.locks = TRUE]  BY DEF LoginForm
  <2> HIDE DEF h
  <2> QED  BY <1>1, <2>1, <2>2
<1>3. ResetForm \in HandlerSet /\ ~ResetForm.locks /\ ResetForm.sends = "once"
  <2> DEFINE h == Handler("blank", "once", {"leave"})
  <2>1. h \in HandlerSet /\ ~h.locks /\ h.sends = "once" /\ h.after = {"leave"}  BY PlainHandler
  <2>2. ResetForm = [h EXCEPT !.refusal = {"stays", "gone"}]  BY DEF ResetForm
  <2> HIDE DEF h
  <2> QED  BY <1>1, <2>1, <2>2
<1>4. SettingsForm \in HandlerSet /\ ~SettingsForm.locks /\ SettingsForm.sends = "write"
  <2> DEFINE h == Handler("row", "write", {})
  <2>1. h \in HandlerSet /\ ~h.locks /\ h.sends = "write" /\ h.after = {}  BY PlainHandler
  <2>2. SettingsForm = [h EXCEPT !.follows = TRUE]  BY DEF SettingsForm
  <2> HIDE DEF h
  <2> QED  BY <1>1, <2>1, <2>2
<1>5. /\ IdentityUnlink \in HandlerSet /\ ~IdentityUnlink.locks
      /\ IdentityUnlink.sends = "write"
  <2> DEFINE h == Handler("row", "write", {"close"})
  <2>1. h \in HandlerSet /\ ~h.locks /\ h.sends = "write" /\ h.after = {"close"}  BY PlainHandler
  <2>2. IdentityUnlink = [h EXCEPT !.refusal = {"gone"}]  BY DEF IdentityUnlink
  <2> HIDE DEF h
  <2> QED  BY <1>1, <2>1, <2>2
<1> QED  BY <1>2, <1>3, <1>4, <1>5

LEMMA EveryControl ==
    /\ \A n \in {"typed", "row", "button"} :
          On(n) \in ControlSet /\ On(n).gated /\ On(n).needs = n
    /\ \A d \in {"keeps", "drops"} : In(d) \in ControlSet /\ In(d).gated
    /\ Confirmed \in ControlSet
    /\ \A c \in ControlSet : Ungated(c) \in ControlSet /\ Ungated(c).needs = c.needs
    /\ \A c \in ControlSet : Shut(c) \in ControlSet /\ Shut(c).needs = c.needs
    /\ \A c \in ControlSet : [c EXCEPT !.needs = "row"] \in ControlSet
<1>1. \A n \in {"typed", "row", "button"} :
         On(n) \in ControlSet /\ On(n).gated /\ On(n).needs = n
  BY DEF On, ControlSet
<1>2. ASSUME NEW c \in ControlSet
      PROVE  /\ Ungated(c) \in ControlSet /\ Ungated(c).needs = c.needs
             /\ Shut(c) \in ControlSet /\ Shut(c).needs = c.needs
             /\ [c EXCEPT !.needs = "row"] \in ControlSet
             /\ [c EXCEPT !.needs = "button"] \in ControlSet
             /\ \A d \in {"keeps", "drops"} :
                   /\ [c EXCEPT !.shows = "dialog", !.closing = d] \in ControlSet
                   /\ [c EXCEPT !.shows = "dialog", !.closing = d].gated = c.gated
  BY DEF Ungated, Shut, ControlSet
<1>3. \A d \in {"keeps", "drops"} : In(d) \in ControlSet /\ In(d).gated
  <2> DEFINE typed == On("typed")
  <2>1. typed \in ControlSet /\ typed.gated  BY <1>1
  <2>2. \A d : In(d) = [typed EXCEPT !.shows = "dialog", !.closing = d]  BY DEF In
  <2> HIDE DEF typed
  <2> QED  BY <1>2, <2>1, <2>2
<1> QED  BY <1>1, <1>2, <1>3 DEF Confirmed

LEMMA EveryForm == \A n \in DOMAIN Handlers : Sound(Handlers[n], Controls[n])
<1>1. /\ Sound(LoginForm, LoginControls)
      /\ Sound(RegisterForm, RegisterControls)
      /\ Sound(ForgotForm, ForgotControls)
      /\ Sound(ResetForm, ResetControls)
      /\ Sound(ChangeForm, ChangeControls)
      /\ Sound(SetupForm, SetupControls)
      /\ Sound(InviteAnswer, InviteControls)
  BY PlainHandler, OtherHandlers, EveryControl
  DEF Sound,
      LoginControls, RegisterForm, RegisterControls, ForgotForm, ForgotControls,
      ResetControls, ChangeForm, ChangeControls, SetupForm, SetupControls, InviteAnswer,
      InviteControls
<1>2. /\ Sound(InvitationAnswer, InvitationControls)
      /\ Sound(AddMemberForm, AddMemberControls)
      /\ Sound(InviteForm, InviteMemberControls)
      /\ Sound(WorkspaceForm, WorkspaceControls)
      /\ Sound(WorkspaceEdit, WorkspaceEditControls)
      /\ Sound(WorkspaceDelete, WorkspaceDeleteControls)
      /\ Sound(MemberRemove, MemberControls)
  BY PlainHandler, OtherHandlers, EveryControl
  DEF Sound,
      InvitationAnswer, InvitationControls, AddMemberForm, AddMemberControls, InviteForm,
      InviteMemberControls, WorkspaceForm, WorkspaceControls, WorkspaceEdit,
      WorkspaceEditControls, WorkspaceDelete, WorkspaceDeleteControls, MemberRemove,
      MemberControls
<1>3. /\ Sound(MemberRole, MemberRoleControls)
      /\ Sound(KeyForm, KeyControls)
      /\ Sound(KeyDelete, KeyDeleteControls)
      /\ Sound(SessionRevoke, SessionControls)
      /\ Sound(ProfileForm, ProfileControls)
      /\ Sound(VerificationButton, VerificationControls)
      /\ Sound(PasswordForm, PasswordControls)
  BY PlainHandler, OtherHandlers, EveryControl
  DEF Sound,
      MemberRole, MemberRoleControls, KeyForm, KeyControls, KeyDelete, KeyDeleteControls,
      SessionRevoke, SessionControls, ProfileForm, ProfileControls, VerificationButton,
      VerificationControls, PasswordForm, PasswordControls
<1>4. /\ Sound(ChannelForm, ChannelControls)
      /\ Sound(ChannelEdit, ChannelEditControls)
      /\ Sound(ChannelToggle, ChannelToggleControls)
      /\ Sound(ChannelTest, ChannelTestControls)
      /\ Sound(ChannelDelete, ChannelDeleteControls)
      /\ Sound(RuleForm, RuleControls)
      /\ Sound(RuleDelete, RuleDeleteControls)
  BY PlainHandler, OtherHandlers, EveryControl
  DEF Sound,
      ChannelForm, ChannelControls, ChannelEdit, ChannelEditControls, ChannelToggle,
      ChannelToggleControls, ChannelTest, ChannelTestControls, ChannelDelete,
      ChannelDeleteControls, RuleForm, RuleControls, RuleDelete, RuleDeleteControls
<1>5. /\ Sound(NoteForm, NoteControls)
      /\ Sound(NoteEdit, NoteEditControls)
      /\ Sound(NoteDelete, NoteDeleteControls)
      /\ Sound(AlertStatus, AlertStatusControls)
      /\ Sound(ImportForm, ImportControls)
      /\ Sound(ProviderCreate, ProviderControls)
      /\ Sound(ProviderEdit, ProviderEditControls)
  BY PlainHandler, OtherHandlers, EveryControl
  DEF Sound,
      NoteForm, NoteControls, NoteEdit, NoteEditControls, NoteDelete, NoteDeleteControls,
      AlertStatus, AlertStatusControls, ImportForm, ImportControls, ProviderCreate,
      ProviderControls, ProviderEdit, ProviderEditControls
<1>6. /\ Sound(ProviderDelete, ProviderDeleteControls)
      /\ Sound(AuthSettings, AuthSettingsControls)
      /\ Sound(SettingsForm, SettingsControls)
      /\ Sound(ReanalyzeAll, ReanalyzeControls)
      /\ Sound(RetryJob, RetryControls)
      /\ Sound(IdentityUnlink, UnlinkControls)
  BY PlainHandler, OtherHandlers, EveryControl
  DEF Sound,
      ProviderDelete, ProviderDeleteControls, AuthSettings, AuthSettingsControls,
      SettingsControls, ReanalyzeAll, ReanalyzeControls, RetryJob, RetryControls,
      UnlinkControls
<1> QED  BY <1>1, <1>2, <1>3, <1>4, <1>5, <1>6 DEF Handlers, Controls

-----------------------------------------------------------------------------
(* Facts used by every step.                                               *)

LEMMA Bounds ==
    /\ FailedLimit \in Nat /\ FailedLimit > 0 /\ MaxTyped \in Nat /\ MaxSubmits \in Nat
    /\ MaxLosses \in Nat /\ Flights \subseteq Nat
    /\ 0 \in Entry /\ Entry \subseteq Row /\ Theirs \in Row /\ Entry \subseteq Nat
    /\ 0 \in 0 .. FailedLimit /\ 0 .. FailedLimit \subseteq Nat
BY LimitAssumption, FlightAssumption, BoundAssumption DEF Entry, Row, Theirs

LEMMA TypesOK == Types => TypeOK
BY DEF Types, TypeOK, Page, Flight, Server, Hist

LEMMA ThisForm == Types => Sound(does, has)
BY EveryForm, NameAssumption DEF Types, does, has

LEMMA SameForm == form' = form => does' = does /\ has' = has /\ StoresRow' = StoresRow
BY DEF does, has, StoresRow

LEMMA FreshPage ==
    ASSUME Types, NEW here \in BOOLEAN
    PROVE  LET p == Fresh(here) IN
           /\ p \in Page /\ p.here = here /\ (p.open => here) /\ p.draft = 0 /\ ~p.busy
           /\ ~p.leaving /\ p.seen = server.row
           /\ p.count = IF does.locks THEN stored.count ELSE 0
           /\ p.locked <=> (does.locks /\ stored.locked)
BY Bounds DEF Types, Fresh, Page, Server, Attempts

LEMMA Orphans ==
    ASSUME Types, NEW owner \in {"left", "none"}
    PROVE  LET o == Orphaned(owner) IN
           /\ o \in [Flights -> Flight]
           /\ \A f \in Flights : /\ o[f].stage = flight[f].stage /\ o[f].entry = flight[f].entry
                                 /\ o[f].row = flight[f].row /\ o[f].count = flight[f].count
                                 /\ Live(f) => o[f].owner # "here"
BY DEF Types, Orphaned, Flight, Live

-----------------------------------------------------------------------------
(* The initial states, and pages that open and are left.                   *)

LEMMA FormInit == Init => FormInv
<1> SUFFICES ASSUME Init PROVE FormInv  OBVIOUS
<1>1. /\ form \in Names /\ flight = [f \in Flights |-> NoRequest]
      /\ stored = [count |-> 0, locked |-> FALSE]
      /\ server = [row |-> 0, made |-> [e \in Entry |-> 0]]
      /\ hist = [typed |-> 0, submits |-> 0, given |-> {0}, exposed |-> {}, losses |-> 0,
                 told |-> 0, strayed |-> FALSE, twice |-> FALSE, others |-> FALSE, saved |-> 0]
      /\ page = Fresh(FALSE)
  BY DEF Init
<1>2. NoRequest \in Flight /\ NoRequest.stage = "idle"  BY Bounds DEF NoRequest, Flight
<1>f. /\ hist.typed = 0 /\ hist.given = {0} /\ hist.exposed = {} /\ hist.told = 0
      /\ hist.saved = 0 /\ stored.count = 0 /\ ~stored.locked /\ server.row = 0
      /\ \A e \in Entry : server.made[e] = 0
  BY <1>1
<1>3. \A f \in Flights : ~Live(f) /\ ~Here(f) /\ flight[f].stage = "idle"
  BY <1>1, <1>2 DEF Live, Here
<1>4. flight \in [Flights -> Flight]  BY <1>1, <1>2
<1>5. stored \in Attempts /\ server \in Server
  BY <1>1, Bounds DEF Attempts, Server
<1>6. hist \in Hist  BY <1>1, Bounds DEF Hist
<1>7. LET p == Fresh(FALSE) IN
      /\ p \in Page /\ ~p.here /\ ~p.open /\ p.draft = 0 /\ ~p.busy
      /\ ~p.leaving /\ p.seen = server.row /\ p.count = 0 /\ ~p.locked
  BY <1>f, Bounds DEF Fresh, Page
<1>p. /\ page \in Page /\ ~page.here /\ ~page.open /\ page.draft = 0 /\ ~page.busy
      /\ ~page.leaving /\ page.seen = server.row /\ page.count = 0 /\ ~page.locked
  BY <1>1, <1>7
<1>8. Types  BY <1>1, <1>4, <1>5, <1>6, <1>7 DEF Types
<1>9. Limits /\ OneRequest /\ SentHere /\ LockInv
  <2>1. Limits /\ LockInv  BY <1>f, <1>3, <1>p, Bounds DEF Limits, LockInv
  <2>2. OneRequest /\ SentHere  BY <1>3, <1>p DEF OneRequest, SentHere
  <2> QED  BY <2>1, <2>2
<1>10. KeptInv /\ TwinInv /\ SavedInv
  <2>1. Untyped
    <3>1. page.draft <= hist.typed  BY <1>f, <1>p
    <3>2. \A e \in Entry : server.made[e] = 0  BY <1>f
    <3> QED  BY <1>3, <1>p, <3>1, <3>2 DEF Untyped
  <2>2. Awaited /\ Disposable /\ TypedIsKept
    BY <1>f, <1>3, <1>p, Bounds DEF Awaited, Disposable, Spare, TypedIsKept
  <2>3. TwinInv /\ SavedInv
    BY <1>f, <1>3, <1>p, Bounds DEF TwinInv, SavedInv
  <2> QED  BY <2>1, <2>2, <2>3 DEF KeptInv
<1> QED  BY <1>8, <1>9, <1>10 DEF FormInv

\* A page that opens, or takes the place of another, has no text and no request.
LEMMA FreshKeeps ==
    ASSUME FormInv, NEW here \in BOOLEAN, page' = Fresh(here),
           form' = form, stored' = stored, server' = server,
           flight' \in [Flights -> Flight], hist' \in Hist,
           \A f \in Flights :
              /\ flight'[f].stage = flight[f].stage /\ flight'[f].entry = flight[f].entry
              /\ flight'[f].row = flight[f].row /\ flight'[f].count = flight[f].count
              /\ Live(f) => flight'[f].owner # "here",
           hist'.typed = hist.typed, hist'.losses = hist.losses, hist'.told = hist.told,
           hist'.others = hist.others, hist'.saved = hist.saved, hist'.twice = hist.twice,
           hist'.exposed = hist.exposed, hist.given \subseteq hist'.given,
           page.draft \in hist'.given \/ page.leaving \/ page.draft = 0,
           hist.strayed => hist'.strayed, \A f \in Flights : Live(f) => hist'.strayed
    PROVE  FormInv'
<1>1. /\ Types /\ Limits /\ OneRequest /\ SentHere
      /\ Untyped /\ Awaited /\ Disposable /\ TypedIsKept
      /\ TwinInv /\ SavedInv /\ LockInv
  BY DEF FormInv, KeptInv
<1>2. /\ page' \in Page /\ page'.here = here /\ (page'.open => here) /\ page'.draft = 0
      /\ ~page'.busy /\ ~page'.leaving /\ page'.seen = server'.row
      /\ page'.count = IF does.locks THEN stored.count ELSE 0
      /\ page'.locked <=> (does.locks /\ stored.locked)
  BY <1>1, FreshPage
<1>3. does' = does /\ has' = has /\ StoresRow' = StoresRow  BY SameForm
<1>4. \A f \in Flights : /\ Live(f)' <=> Live(f)
                         /\ ~Here(f)'
  BY DEF Live, Here
<1>5. ~hist'.strayed => ~hist.strayed /\ \A f \in Flights : ~Live(f)  OBVIOUS
<1>6. Types'  BY <1>1, <1>2 DEF Types
<1>7. Limits'  BY <1>1, <1>2, <1>3, <1>4, Bounds DEF Limits
<1>8. OneRequest'  BY <1>2, <1>3, <1>4 DEF OneRequest
<1>9. SentHere'  BY <1>1, <1>2, <1>3, <1>4 DEF SentHere
<1>10. Untyped'  BY <1>1, <1>2, <1>3, <1>4, Bounds DEF Untyped, Types, Hist
<1>11. Awaited'  BY <1>1, <1>2, <1>4 DEF Awaited, Spare
<1>12. Disposable'  BY <1>2 DEF Disposable, Spare
<1>13. TypedIsKept'
  <2> SUFFICES ASSUME NEW e \in 1 .. hist.typed
               PROVE  e \in hist'.given \cup hist'.exposed \/ server.made[e] > 0
    BY DEF TypedIsKept
  <2>1. CASE page.draft # e  BY <1>1, <2>1 DEF TypedIsKept
  <2>2. CASE page.draft = e
    <3>1. e # 0  BY <1>1 DEF Types, Hist
    <3> QED  BY <1>1, <2>2, <3>1 DEF Disposable, Spare
  <2> QED  BY <2>1, <2>2
<1>14. TwinInv'
  BY <1>1, <1>2, <1>3 DEF TwinInv, Orderly
<1>15. SavedInv'
  BY <1>1, <1>3, <1>4, <1>5 DEF SavedInv, Undisturbed
<1>16. LockInv'
  BY <1>1, <1>2, <1>3, <1>4, <1>5 DEF LockInv
<1> QED
  BY <1>6, <1>7, <1>8, <1>9, <1>10, <1>11, <1>12, <1>13, <1>14, <1>15, <1>16
  DEF FormInv, KeptInv

LEMMA ArriveKeeps == ASSUME FormInv, Arrive PROVE FormInv'
<1>1. /\ page' = Fresh(TRUE) /\ ~page.here
      /\ UNCHANGED <<form, flight, stored, server, hist>>
  BY DEF Arrive
<1>2. Types /\ OneRequest /\ Untyped  BY DEF FormInv, KeptInv
<1>3. \A f \in Flights : Live(f) => hist.strayed /\ flight[f].owner # "here"
  BY <1>1, <1>2 DEF OneRequest, Here
<1>4. page.draft = 0  BY <1>1, <1>2 DEF Untyped
<1>5. flight \in [Flights -> Flight] /\ hist \in Hist  BY <1>2 DEF Types
<1> QED  BY <1>1, <1>3, <1>4, <1>5, FreshKeeps

LEMMA LeavesKeep == ASSUME FormInv, Leave \/ Reload \/ Navigate PROVE FormInv'
<1>1. Types /\ page.draft \in Entry /\ hist \in Hist  BY DEF FormInv, Types, Page
<1>2. /\ UNCHANGED <<form, stored, server>>
      /\ \E here \in BOOLEAN, owner \in {"left", "none"} :
            page' = Fresh(here) /\ flight' = Orphaned(owner)
  BY DEF Leave, Reload, Navigate
<1>3. \/ hist' = [hist EXCEPT !.given = hist.given \cup {page.draft}, !.strayed = Strays]
      \/ page.leaving /\ hist' = [hist EXCEPT !.strayed = Strays]
  BY DEF Leave, Reload, Navigate
<1>4. Strays \in BOOLEAN /\ (Strays <=> hist.strayed \/ \E f \in Flights : Live(f))
  BY DEF Strays
<1>5. /\ hist' \in Hist
      /\ hist'.typed = hist.typed /\ hist'.losses = hist.losses /\ hist'.told = hist.told
      /\ hist'.others = hist.others /\ hist'.saved = hist.saved /\ hist'.twice = hist.twice
      /\ hist'.exposed = hist.exposed /\ hist.given \subseteq hist'.given
      /\ page.draft \in hist'.given \/ page.leaving
      /\ hist'.strayed = Strays
  <2> DEFINE strays == Strays
  <2>1. strays \in BOOLEAN  BY <1>4
  <2>2. \/ hist' = [hist EXCEPT !.given = hist.given \cup {page.draft}, !.strayed = strays]
        \/ page.leaving /\ hist' = [hist EXCEPT !.strayed = strays]
    BY <1>3
  <2>5. strays = Strays  OBVIOUS
  <2> HIDE DEF strays
  <2>3. CASE hist' = [hist EXCEPT !.given = hist.given \cup {page.draft}, !.strayed = strays]
    BY <1>1, <2>1, <2>3, <2>5 DEF Hist
  <2>4. CASE page.leaving /\ hist' = [hist EXCEPT !.strayed = strays]
    BY <1>1, <2>1, <2>4, <2>5 DEF Hist
  <2> QED  BY <2>2, <2>3, <2>4
<1>6. PICK here \in BOOLEAN, owner \in {"left", "none"} :
         page' = Fresh(here) /\ flight' = Orphaned(owner)
  BY <1>2
<1>7. /\ flight' \in [Flights -> Flight]
      /\ \A f \in Flights :
            /\ flight'[f].stage = flight[f].stage /\ flight'[f].entry = flight[f].entry
            /\ flight'[f].row = flight[f].row /\ flight'[f].count = flight[f].count
            /\ Live(f) => flight'[f].owner # "here"
  BY <1>1, <1>6, Orphans
<1> QED  BY <1>2, <1>4, <1>5, <1>6, <1>7, FreshKeeps

-----------------------------------------------------------------------------
(* The user.                                                               *)

LEMMA OpenKeeps == ASSUME FormInv, OpenDialog PROVE FormInv'
<1>1. /\ Types /\ Limits /\ OneRequest /\ SentHere
      /\ Untyped /\ Awaited /\ Disposable /\ TypedIsKept
      /\ TwinInv /\ SavedInv /\ LockInv
  BY DEF FormInv, KeptInv
<1>2. /\ page.here /\ page' = [page EXCEPT !.open = TRUE, !.copy = page.seen]
      /\ UNCHANGED <<form, flight, stored, server, hist>>
  BY DEF OpenDialog
<1>3. /\ page' \in Page /\ page'.here
      /\ page'.draft = page.draft /\ page'.busy = page.busy /\ page'.leaving = page.leaving
      /\ page'.seen = page.seen /\ page'.count = page.count /\ page'.locked = page.locked
  BY <1>1, <1>2 DEF Types, Page
<1>4. does' = does /\ has' = has /\ StoresRow' = StoresRow  BY <1>2, SameForm
<1>5. Types' /\ Limits' /\ LockInv' /\ SavedInv'
  BY <1>1, <1>2, <1>3, <1>4 DEF Types, Limits, LockInv, SavedInv, Undisturbed, Live
<1>6. OneRequest' /\ SentHere'
  BY <1>1, <1>2, <1>3, <1>4 DEF OneRequest, SentHere, Live, Here
<1>7. Untyped' /\ Awaited' /\ Disposable' /\ TypedIsKept'
  BY <1>1, <1>2, <1>3, <1>4 DEF Untyped, Awaited, Disposable, TypedIsKept, Spare, Live, Here
<1>8. TwinInv'
  BY <1>1, <1>2, <1>3, <1>4 DEF TwinInv, Orderly, Live, Here
<1> QED  BY <1>5, <1>6, <1>7, <1>8 DEF FormInv, KeptInv

LEMMA CloseKeeps == ASSUME FormInv, CloseDialog PROVE FormInv'
<1>1. /\ Types /\ Limits /\ OneRequest /\ SentHere
      /\ Untyped /\ Awaited /\ Disposable /\ TypedIsKept
      /\ TwinInv /\ SavedInv /\ LockInv
  BY DEF FormInv, KeptInv
<1>2. PICK d, given :
        /\ page' = [page EXCEPT !.open = FALSE, !.draft = d]
        /\ hist' = [hist EXCEPT !.given = hist.given \cup given]
        /\ (d = page.draft /\ given = {}) \/ (d = 0 /\ given = {page.draft})
  BY DEF CloseDialog
<1>3. UNCHANGED <<form, flight, stored, server>>  BY DEF CloseDialog
<1>4. /\ page' \in Page /\ page'.here = page.here /\ ~page'.open
      /\ page'.draft = d /\ page'.busy = page.busy /\ page'.leaving = page.leaving
      /\ page'.seen = page.seen /\ page'.count = page.count /\ page'.locked = page.locked
  BY <1>1, <1>2, Bounds DEF Types, Page
<1>5. /\ hist' \in Hist /\ hist'.given = hist.given \cup given
      /\ hist'.typed = hist.typed /\ hist'.exposed = hist.exposed /\ hist'.told = hist.told
      /\ hist'.losses = hist.losses /\ hist'.strayed = hist.strayed /\ hist'.twice = hist.twice
      /\ hist'.others = hist.others /\ hist'.saved = hist.saved
  BY <1>1, <1>2 DEF Types, Page, Hist
<1>6. does' = does /\ has' = has /\ StoresRow' = StoresRow  BY <1>3, SameForm
<1>7. Types' /\ Limits' /\ LockInv' /\ SavedInv'
  BY <1>1, <1>3, <1>4, <1>5, <1>6 DEF Types, Limits, LockInv, SavedInv, Undisturbed, Live
<1>8. OneRequest' /\ SentHere'
  BY <1>1, <1>2, <1>3, <1>4, <1>5, <1>6 DEF OneRequest, SentHere, Live, Here
<1>9. Untyped' /\ Awaited' /\ Disposable' /\ TypedIsKept'
  BY <1>1, <1>2, <1>3, <1>4, <1>5, <1>6, Bounds
  DEF Untyped, Awaited, Disposable, TypedIsKept, Spare, Live, Here, Types, Hist
<1>10. TwinInv'
  BY <1>1, <1>2, <1>3, <1>4, <1>5, <1>6 DEF TwinInv, Orderly, Live, Here
<1> QED  BY <1>7, <1>8, <1>9, <1>10 DEF FormInv, KeptInv

LEMMA TypeKeeps == ASSUME FormInv, Type PROVE FormInv'
<1>1. /\ Types /\ Limits /\ OneRequest /\ SentHere
      /\ Untyped /\ Awaited /\ Disposable /\ TypedIsKept
      /\ TwinInv /\ SavedInv /\ LockInv
  BY DEF FormInv, KeptInv
<1> DEFINE new == hist.typed + 1
           uncertain == page.leaving \/ page.seen # server.row \/ \E f \in Flights : Live(f)
<1>2. /\ page.open /\ has.needs # "button" /\ hist.typed < MaxTyped
      /\ page' = [page EXCEPT !.draft = new]
      /\ UNCHANGED <<form, flight, stored, server>>
  BY DEF Type
<1>3. PICK risky : /\ hist' = [hist EXCEPT !.typed = new, !.given = hist.given \cup {page.draft},
                                           !.exposed = hist.exposed \cup risky]
                   /\ risky = IF uncertain THEN {new} ELSE {}
  BY DEF Type
<1>4. new \in 1 .. MaxTyped /\ new \in Entry /\ new # 0 /\ hist.typed \in Nat /\ new = hist.typed + 1
  BY <1>1, <1>2, Bounds DEF Types, Hist, Entry
<1>5. risky \subseteq {new} /\ (uncertain => new \in risky)  BY <1>3
<1> HIDE DEF new, uncertain
<1>6. /\ page' \in Page /\ page'.here = page.here /\ page'.open = page.open
      /\ page'.draft = new /\ page'.busy = page.busy /\ page'.leaving = page.leaving
      /\ page'.seen = page.seen /\ page'.count = page.count /\ page'.locked = page.locked
  BY <1>1, <1>2, <1>4 DEF Types, Page
<1>7. /\ hist' \in Hist /\ hist'.given = hist.given \cup {page.draft}
      /\ hist'.typed = new /\ hist'.exposed = hist.exposed \cup risky /\ hist'.told = hist.told
      /\ hist'.losses = hist.losses /\ hist'.strayed = hist.strayed /\ hist'.twice = hist.twice
      /\ hist'.others = hist.others /\ hist'.saved = hist.saved
  <2>1. page.draft \in Entry /\ hist \in Hist  BY <1>1 DEF Types, Page
  <2>2. risky \subseteq Entry  BY <1>4, <1>5
  <2>3. new \in 0 .. MaxTyped  BY <1>4, Bounds
  <2> QED  BY <1>3, <2>1, <2>2, <2>3 DEF Hist
<1>8. does' = does /\ has' = has /\ StoresRow' = StoresRow  BY <1>2, SameForm
<1>9. Types' /\ Limits' /\ LockInv' /\ SavedInv'
  BY <1>1, <1>2, <1>6, <1>7, <1>8 DEF Types, Limits, LockInv, SavedInv, Undisturbed, Live
<1>10. \A f \in Flights : Live(f) => flight[f].entry # new /\ flight[f].entry \in Nat
  <2> SUFFICES ASSUME NEW f \in Flights, Live(f)
               PROVE  flight[f].entry # new /\ flight[f].entry \in Nat
    OBVIOUS
  <2>1. flight[f].entry \in Entry  BY <1>1 DEF Types, Flight
  <2>2. flight[f].entry <= hist.typed  BY <1>1 DEF Untyped
  <2>3. flight[f].entry \in Nat  BY <2>1, Bounds
  <2> DEFINE e == flight[f].entry
             t == hist.typed
  <2>4. e \in Nat /\ t \in Nat /\ e <= t /\ new = t + 1  BY <1>4, <2>2, <2>3
  <2> HIDE DEF e, t
  <2>5. e # new  BY <2>4
  <2> QED  BY <2>3, <2>5 DEF e
<1>11. server.made[new] = 0  BY <1>1, <1>4 DEF Untyped
<1>12. OneRequest'
  BY <1>1, <1>2, <1>6, <1>7, <1>8 DEF OneRequest, Live, Here
<1>13. SentHere'
  BY <1>1, <1>2, <1>6, <1>8, <1>10 DEF SentHere, Live, Here
<1>14. Untyped'
  BY <1>1, <1>2, <1>4, <1>6, <1>7, <1>8, <1>10, Bounds DEF Untyped, Live, OneRequest
<1>15. Awaited' /\ Disposable'
  <2>1. uncertain => new \in hist'.exposed  BY <1>5, <1>7
  <2>2. \A f \in Flights : Live(f) => uncertain  BY DEF uncertain
  <2>3. page.leaving \/ page.seen # server.row => uncertain  BY DEF uncertain
  <2> QED  BY <1>1, <1>2, <1>6, <1>7, <1>8, <2>1, <2>2, <2>3
           DEF Awaited, Disposable, Spare, Live, Here
<1>16. TypedIsKept'
  <2> SUFFICES ASSUME NEW e \in 1 .. new, e # new
               PROVE  e \in hist'.given \cup hist'.exposed \/ server.made[e] > 0
    BY <1>2, <1>6, <1>7 DEF TypedIsKept
  <2>1. e \in 1 .. hist.typed  BY <1>4
  <2> QED  BY <1>1, <1>7, <2>1 DEF TypedIsKept
<1>17. TwinInv'
  BY <1>1, <1>2, <1>4, <1>6, <1>7, <1>8, <1>11 DEF TwinInv, Orderly
<1> QED  BY <1>9, <1>12, <1>13, <1>14, <1>15, <1>16, <1>17 DEF FormInv, KeptInv

\* A form that may be submitted has no request of its own under way.
LEMMA SubmitKeeps == ASSUME FormInv, NEW f \in Flights, Submit(f) PROVE FormInv'
<1>1. /\ Types /\ Limits /\ OneRequest /\ SentHere
      /\ Untyped /\ Awaited /\ Disposable /\ TypedIsKept
      /\ TwinInv /\ SavedInv /\ LockInv
  BY DEF FormInv, KeptInv
<1>2. /\ MaySubmit /\ ~Live(f) /\ UNCHANGED <<form, stored, server>>
      /\ page' = [page EXCEPT !.busy = TRUE, !.open = @ /\ ~has.shuts]
      /\ hist' = [hist EXCEPT !.submits = hist.submits + 1,
                              !.twice = hist.twice \/ page.leaving]
  BY DEF Submit
<1> DEFINE sent == [stage |-> "sent", entry |-> page.draft,
                    row |-> IF page.draft = 0 THEN page.copy ELSE page.draft,
                    owner |-> "here", count |-> page.count]
<1>3. flight' = [flight EXCEPT ![f] = sent]  BY DEF Submit
<1>4. /\ sent \in Flight /\ sent.stage = "sent" /\ sent.entry = page.draft
      /\ sent.owner = "here" /\ sent.count = page.count
  BY <1>1, Bounds DEF Types, Page, Flight
<1> HIDE DEF sent
<1>5. /\ flight' \in [Flights -> Flight] /\ flight'[f] = sent
      /\ \A g \in Flights : g # f => flight'[g] = flight[g]
  BY <1>1, <1>3, <1>4 DEF Types
<1>6. /\ page' \in Page /\ page'.here = page.here /\ (page'.open => page.open)
      /\ page'.draft = page.draft /\ page'.busy /\ page'.leaving = page.leaving
      /\ page'.seen = page.seen /\ page'.count = page.count /\ page'.locked = page.locked
  BY <1>1, <1>2 DEF Types, Page
<1>7. /\ hist' \in Hist /\ hist'.given = hist.given
      /\ hist'.typed = hist.typed /\ hist'.exposed = hist.exposed /\ hist'.told = hist.told
      /\ hist'.losses = hist.losses /\ hist'.strayed = hist.strayed
      /\ (hist'.twice <=> hist.twice \/ page.leaving)
      /\ hist'.others = hist.others /\ hist'.saved = hist.saved
  <2> DEFINE twice == hist.twice \/ page.leaving
  <2>1. twice \in BOOLEAN /\ (twice <=> hist.twice \/ page.leaving)  OBVIOUS
  <2>2. hist' = [hist EXCEPT !.submits = hist.submits + 1, !.twice = twice]  BY <1>2
  <2> HIDE DEF twice
  <2>3. hist \in Hist /\ hist.submits + 1 \in Nat  BY <1>1 DEF Types, Hist
  <2>4. hist'.twice = twice /\ hist' \in Hist  BY <2>1, <2>2, <2>3 DEF Hist
  <2> QED  BY <2>1, <2>2, <2>3, <2>4 DEF Hist
<1>8. does' = does /\ has' = has /\ StoresRow' = StoresRow  BY <1>2, SameForm
<1>9. /\ Live(f)' /\ Here(f)'
      /\ \A g \in Flights : g # f => (Live(g)' <=> Live(g)) /\ (Here(g)' <=> Here(g))
  BY <1>4, <1>5 DEF Live, Here
<1>10. page.open /\ page.here /\ (has.gated => ~page.busy) /\ (does.locks => ~page.locked)
  BY <1>1, <1>2 DEF MaySubmit, OneRequest
<1>11. has.gated => \A g \in Flights : ~Here(g)  BY <1>1, <1>10 DEF OneRequest
<1>12. Types'  BY <1>1, <1>2, <1>5, <1>6, <1>7 DEF Types
<1>13. Limits'
  <2>1. page.count < FailedLimit
    BY <1>1, <1>10, Bounds DEF Limits, Types, Page
  <2> QED  BY <1>1, <1>2, <1>4, <1>5, <1>6, <1>8, <1>9, <2>1 DEF Limits
<1>14. OneRequest'  BY <1>1, <1>6, <1>7, <1>8, <1>9, <1>10, <1>11 DEF OneRequest
<1>15. SentHere'
  <2>1. \A g \in Flights : Live(g)' /\ page'.draft # 0 /\ flight'[g].entry = page'.draft
                           => Here(g)'
    BY <1>1, <1>5, <1>6, <1>9 DEF SentHere
  <2>2. ASSUME has.gated, page.draft # 0, NEW g \in Flights, g # f, Live(g)
        PROVE  flight[g].entry # page.draft
    BY <1>1, <1>11, <2>2 DEF SentHere
  <2>3. ASSUME has.gated, NEW g \in Flights, NEW h \in Flights, Live(g)', Live(h)', g # h,
               flight'[g].entry # 0
        PROVE  flight'[g].entry # flight'[h].entry
    BY <1>1, <1>4, <1>5, <1>9, <2>2, <2>3 DEF SentHere
  <2> QED  BY <1>8, <2>1, <2>3 DEF SentHere
<1>16. Untyped'
  BY <1>1, <1>2, <1>4, <1>5, <1>6, <1>7, <1>8, <1>9 DEF Untyped
<1>17. Awaited'
  BY <1>1, <1>2, <1>4, <1>5, <1>6, <1>7, <1>9 DEF Awaited, Spare
<1>18. Disposable' /\ TypedIsKept'
  BY <1>1, <1>2, <1>6, <1>7, <1>8 DEF Disposable, TypedIsKept, Spare
<1>19. TwinInv'
  <2>1. Orderly' => Orderly /\ ~page.leaving  BY <1>7, <1>8 DEF Orderly
  <2>2. Orderly' /\ page.draft # 0 => server.made[page.draft] = 0
    <3>1. page.draft \in Entry /\ server.made[page.draft] \in Nat
      BY <1>1 DEF Types, Page, Server
    <3> QED  BY <1>1, <1>11, <2>1, <3>1 DEF TwinInv, Orderly
  <2> QED  BY <1>1, <1>2, <1>4, <1>5, <1>6, <1>8, <2>1, <2>2 DEF TwinInv
<1>20. SavedInv'
  <2>1. Undisturbed' => Undisturbed /\ \A g \in Flights : ~Live(g)
    BY <1>1, <1>7, <1>8, <1>11 DEF Undisturbed, OneRequest
  <2> QED  BY <1>1, <1>2, <1>4, <1>5, <1>7, <1>9, <2>1 DEF SavedInv
<1>21. LockInv'
  BY <1>1, <1>2, <1>4, <1>5, <1>6, <1>7, <1>8, <1>9 DEF LockInv
<1> QED  BY <1>12, <1>13, <1>14, <1>15, <1>16, <1>17, <1>18, <1>19, <1>20, <1>21
         DEF FormInv, KeptInv

LEMMA RefetchKeeps == ASSUME FormInv, Refetch PROVE FormInv'
<1>1. /\ Types /\ Limits /\ OneRequest /\ SentHere
      /\ Untyped /\ Awaited /\ Disposable /\ TypedIsKept
      /\ TwinInv /\ SavedInv /\ LockInv
  BY DEF FormInv, KeptInv
<1>2. PICK c \in Row, d \in Entry :
         /\ page' = [page EXCEPT !.seen = server.row, !.copy = c, !.draft = d]
         /\ d = page.draft \/ (d = 0 /\ does.follows)
  BY <1>1, Bounds DEF Refetch, Types, Page, Server
<1>3. page.seen # server.row /\ UNCHANGED <<form, flight, stored, server, hist>>
  BY DEF Refetch
<1>4. /\ page' \in Page /\ page'.here = page.here /\ page'.open = page.open
      /\ page'.draft = d /\ page'.busy = page.busy /\ page'.leaving = page.leaving
      /\ page'.seen = server.row /\ page'.count = page.count /\ page'.locked = page.locked
  BY <1>1, <1>2 DEF Types, Page, Server
<1>5. does' = does /\ has' = has /\ StoresRow' = StoresRow  BY <1>3, SameForm
<1>6. Types' /\ Limits' /\ LockInv' /\ SavedInv'
  BY <1>1, <1>3, <1>4, <1>5 DEF Types, Limits, LockInv, SavedInv, Undisturbed, Live
<1>7. OneRequest' /\ SentHere'
  BY <1>1, <1>2, <1>3, <1>4, <1>5 DEF OneRequest, SentHere, Live, Here
<1>8. Untyped' /\ Awaited' /\ Disposable'
  BY <1>1, <1>2, <1>3, <1>4, <1>5, Bounds
  DEF Untyped, Awaited, Disposable, Spare, Live, Here, Types, Hist
<1>9. TypedIsKept'
  <2> SUFFICES ASSUME NEW e \in 1 .. hist.typed
               PROVE  \/ e \in hist.given \cup hist.exposed \/ server.made[e] > 0 \/ d = e
    BY <1>3, <1>4 DEF TypedIsKept
  <2>1. CASE page.draft # e \/ d = page.draft  BY <1>1, <2>1 DEF TypedIsKept
  <2>2. CASE page.draft = e /\ does.follows
    <3>1. e # 0  BY <1>1 DEF Types, Hist
    <3> QED  BY <1>1, <1>3, <2>2, <3>1 DEF Disposable, Spare
  <2> QED  BY <1>2, <2>1, <2>2
<1>10. TwinInv'
  BY <1>1, <1>2, <1>3, <1>4, <1>5 DEF TwinInv, Orderly, Live, Here
<1> QED  BY <1>6, <1>7, <1>8, <1>9, <1>10 DEF FormInv, KeptInv

\* The lock of the page cannot be on while a request is under way.
LEMMA MinuteKeeps == ASSUME FormInv, MinutePasses PROVE FormInv'
<1>1. /\ Types /\ Limits /\ OneRequest /\ SentHere
      /\ Untyped /\ Awaited /\ Disposable /\ TypedIsKept
      /\ TwinInv /\ SavedInv /\ LockInv
  BY DEF FormInv, KeptInv
<1>2. /\ page.locked \/ stored.locked
      /\ stored' = [count |-> 0, locked |-> FALSE] /\ hist' = [hist EXCEPT !.told = 0]
      /\ UNCHANGED <<form, flight, server>>
      /\ page' = IF page.locked THEN [page EXCEPT !.count = 0, !.locked = FALSE] ELSE page
  BY DEF MinutePasses
<1>3. /\ page' \in Page /\ page'.here = page.here /\ page'.open = page.open
      /\ page'.draft = page.draft /\ page'.busy = page.busy /\ page'.leaving = page.leaving
      /\ page'.seen = page.seen /\ ~page'.locked
      /\ page'.count = IF page.locked THEN 0 ELSE page.count
  <2>1. CASE page.locked  BY <1>1, <1>2, <2>1, Bounds DEF Types, Page
  <2>2. CASE ~page.locked  BY <1>1, <1>2, <2>2 DEF Types
  <2> QED  BY <2>1, <2>2
<1>4. /\ hist' \in Hist /\ hist'.given = hist.given /\ hist'.told = 0
      /\ hist'.typed = hist.typed /\ hist'.exposed = hist.exposed
      /\ hist'.losses = hist.losses /\ hist'.strayed = hist.strayed /\ hist'.twice = hist.twice
      /\ hist'.others = hist.others /\ hist'.saved = hist.saved
  BY <1>1, <1>2, Bounds DEF Types, Hist
<1>5. stored' \in Attempts /\ stored'.count = 0 /\ ~stored'.locked
  BY <1>2, Bounds DEF Attempts
<1>6. does' = does /\ has' = has /\ StoresRow' = StoresRow  BY <1>2, SameForm
<1>7. Types'  BY <1>1, <1>2, <1>3, <1>4, <1>5 DEF Types
<1>8. Limits'
  BY <1>1, <1>2, <1>3, <1>5, <1>6, Bounds DEF Limits, Live
<1>9. SavedInv'
  BY <1>1, <1>2, <1>4, <1>6 DEF SavedInv, Undisturbed, Live
<1>10. OneRequest' /\ SentHere'
  BY <1>1, <1>2, <1>3, <1>4, <1>6 DEF OneRequest, SentHere, Live, Here
<1>11. Untyped' /\ Awaited' /\ Disposable' /\ TypedIsKept'
  BY <1>1, <1>2, <1>3, <1>4, <1>6
  DEF Untyped, Awaited, Disposable, TypedIsKept, Spare, Live, Here
<1>12. TwinInv'
  BY <1>1, <1>2, <1>3, <1>4, <1>6 DEF TwinInv, Orderly, Live, Here
<1>13. LockInv'
  <2> SUFFICES ASSUME does.locks, ~hist.strayed
               PROVE  page.locked /\ \A f \in Flights : ~Live(f)
    BY <1>2, <1>3, <1>4, <1>5, <1>6, Bounds DEF LockInv, Live
  <2>1. hist.told >= FailedLimit /\ page.locked  BY <1>1, <1>2 DEF LockInv
  <2>2. hist.told \in Nat  BY <1>1, Bounds DEF Types, Hist
  <2> QED  BY <1>1, <2>1, <2>2, Bounds DEF LockInv, Limits
<1> QED  BY <1>7, <1>8, <1>9, <1>10, <1>11, <1>12, <1>13 DEF FormInv, KeptInv

-----------------------------------------------------------------------------
(* The server and the connection.                                          *)

\* A request that is accepted makes its entry, once more only for a form the server
\* cannot tell apart.
LEMMA ServeKeeps == ASSUME FormInv, NEW f \in Flights, Serve(f) PROVE FormInv'
<1>1. /\ Types /\ Limits /\ OneRequest /\ SentHere
      /\ Untyped /\ Awaited /\ Disposable /\ TypedIsKept
      /\ TwinInv /\ SavedInv /\ LockInv
  BY DEF FormInv, KeptInv
<1> DEFINE e == flight[f].entry
<1>2. /\ flight[f].stage = "sent" /\ UNCHANGED <<form, page, stored, hist>>
      /\ Live(f)
  BY DEF Serve, Live
<1>3. PICK s \in {"ok", "no"} :
         /\ flight' = [flight EXCEPT ![f].stage = s]
         /\ \/ s = "no" /\ server' = server
            \/ s = "ok" /\ server' = Effect(f)
  BY DEF Serve
<1>4. e \in Entry /\ flight[f].row \in Row  BY <1>1 DEF Types, Flight
<1>5. /\ flight' \in [Flights -> Flight] /\ flight'[f].stage = s
      /\ \A g \in Flights : /\ flight'[g].entry = flight[g].entry
                            /\ flight'[g].owner = flight[g].owner
                            /\ flight'[g].row = flight[g].row
                            /\ flight'[g].count = flight[g].count
                            /\ g # f => flight'[g].stage = flight[g].stage
  BY <1>1, <1>3 DEF Types, Flight
<1>6. \A g \in Flights : /\ Live(g)' <=> Live(g)
                         /\ Here(g)' <=> Here(g)
  BY <1>2, <1>5 DEF Live, Here
<1>7. does' = does /\ has' = has /\ StoresRow' = StoresRow  BY <1>2, SameForm
<1>8. /\ server' \in Server
      /\ \A x \in Entry : x # e => server'.made[x] = server.made[x]
      /\ s = "no" => server'.made[e] = server.made[e] /\ server'.row = server.row
      /\ s = "ok" => /\ server'.row = IF StoresRow THEN flight[f].row ELSE server.row
                     /\ server'.made[e] > 0
                     /\ server'.made[e] > 1 => does.sends = "create" /\ server.made[e] # 0
  <2>1. CASE s = "no"  BY <1>1, <1>3, <2>1 DEF Types
  <2>2. CASE s = "ok"
    <3> DEFINE made == IF does.sends = "create" /\ server.made[e] # 0 THEN 2 ELSE 1
    <3>1. server' = [row  |-> IF StoresRow THEN flight[f].row ELSE server.row,
                     made |-> [server.made EXCEPT ![e] = made]]
      BY <1>3, <2>2 DEF Effect
    <3>2. made \in 0 .. 2 /\ made > 0 /\ (made > 1 => does.sends = "create" /\ server.made[e] # 0)
      OBVIOUS
    <3> HIDE DEF made
    <3>3. server.row \in Row /\ server.made \in [Entry -> 0 .. 2]  BY <1>1 DEF Types, Server
    <3>4. (IF StoresRow THEN flight[f].row ELSE server.row) \in Row  BY <1>4, <3>3
    <3>5. /\ [server.made EXCEPT ![e] = made] \in [Entry -> 0 .. 2]
          /\ [server.made EXCEPT ![e] = made][e] = made
          /\ \A x \in Entry : x # e => [server.made EXCEPT ![e] = made][x] = server.made[x]
      BY <1>4, <3>2, <3>3
    <3> QED  BY <2>2, <3>1, <3>2, <3>4, <3>5 DEF Server
  <2> QED  BY <2>1, <2>2
<1>9. \A x \in Entry : server.made[x] > 0 => server'.made[x] > 0
  <2>1. s = "ok" \/ s = "no"  OBVIOUS
  <2> QED  BY <1>8, <2>1
<1> HIDE DEF e
<1>10. Types'  BY <1>1, <1>2, <1>5, <1>8 DEF Types
<1>11. Limits' /\ LockInv'
  BY <1>1, <1>2, <1>5, <1>6, <1>7 DEF Limits, LockInv
<1>12. OneRequest' /\ SentHere'
  BY <1>1, <1>2, <1>5, <1>6, <1>7 DEF OneRequest, SentHere
<1>13. Untyped'
  <2>1. e <= hist.typed  BY <1>1, <1>2 DEF Untyped, e
  <2>2. \A x \in Entry : x > hist.typed => x # e
    BY <1>1, <1>4, <2>1, Bounds DEF Types, Hist
  <2> QED  BY <1>1, <1>2, <1>5, <1>6, <1>7, <1>8, <2>2 DEF Untyped
<1>14. Awaited'
  <2>1. ASSUME NEW g \in Flights, flight'[g].stage = "ok" PROVE server'.made[flight'[g].entry] > 0
    <3>1. CASE g = f  BY <1>5, <1>8, <2>1, <3>1 DEF e
    <3>2. CASE g # f
      <4>1. server.made[flight[g].entry] > 0 /\ flight[g].entry \in Entry
        BY <1>1, <1>5, <2>1, <3>2 DEF Awaited, Types, Flight
      <4> QED  BY <1>5, <1>9, <4>1
    <3> QED  BY <3>1, <3>2
  <2>2. \A g \in Flights : Live(g)' => Spare(page.draft) \/ (Here(g)' /\ flight'[g].entry = page.draft)
    BY <1>1, <1>5, <1>6 DEF Awaited
  <2> QED  BY <1>2, <2>1, <2>2 DEF Awaited, Spare
<1>15. Disposable'
  <2>1. page.draft \in Entry  BY <1>1 DEF Types, Page
  <2>2. Spare(page.draft) \/ e = page.draft  BY <1>1, <1>2 DEF Awaited, e
  <2>3. s = "ok" => Spare(page.draft) \/ server'.made[page.draft] > 0  BY <1>8, <2>2
  <2>4. s = "no" => server'.row = server.row  BY <1>8
  <2> QED  BY <1>1, <1>2, <1>7, <1>9, <2>1, <2>3, <2>4 DEF Disposable, Spare
<1>16. TypedIsKept'
  <2>1. \A x \in 1 .. hist.typed : x \in Entry
    BY <1>1, Bounds DEF Types, Hist, Entry
  <2> QED  BY <1>1, <1>2, <1>9, <2>1 DEF TypedIsKept
<1>17. TwinInv'
  <2>1. Orderly' <=> Orderly  BY <1>2, <1>7 DEF Orderly
  <2>2. Orderly /\ e # 0 => server.made[e] = 0  BY <1>1, <1>2 DEF TwinInv, e
  <2>3. ASSUME NEW x \in Entry \ {0}, server'.made[x] > 1
        PROVE  does'.sends = "create" /\ ~Orderly'
    <3>1. CASE x = e /\ s = "ok"  BY <1>7, <1>8, <2>1, <2>2, <2>3, <3>1
    <3>2. CASE ~(x = e /\ s = "ok")
      <4>1. server'.made[x] = server.made[x]  BY <1>8, <3>2
      <4> QED  BY <1>1, <1>7, <2>1, <2>3, <4>1 DEF TwinInv
    <3> QED  BY <3>1, <3>2
  <2>4. ASSUME Orderly, NEW g \in Flights, flight'[g].stage = "sent", flight'[g].entry # 0
        PROVE  server'.made[flight'[g].entry] = 0
    <3>1. g # f /\ flight[g].stage = "sent" /\ flight[g].entry # 0 /\ Live(g)
      BY <1>5, <2>4 DEF Live
    <3>2. flight[g].entry # e  BY <1>1, <1>2, <2>4, <3>1 DEF SentHere, Orderly, e
    <3>3. server.made[flight[g].entry] = 0 /\ flight[g].entry \in Entry
      BY <1>1, <2>4, <3>1 DEF TwinInv, Types, Flight
    <3> QED  BY <1>5, <1>8, <3>2, <3>3
  <2>5. ASSUME Orderly, page.draft # 0, server'.made[page.draft] > 0, ~page.leaving
        PROVE  \E g \in Flights : /\ Here(g)' /\ flight'[g].stage = "ok"
                                  /\ flight'[g].entry = page.draft
    <3>1. page.draft \in Entry  BY <1>1 DEF Types, Page
    <3>2. CASE page.draft = e /\ s = "ok"
      <4>1. Here(f)  BY <1>1, <1>2, <2>5, <3>2 DEF SentHere, e
      <4> QED  BY <1>5, <1>6, <3>2, <4>1 DEF e
    <3>3. CASE ~(page.draft = e /\ s = "ok")
      <4>1. server.made[page.draft] > 0  BY <1>8, <2>5, <3>1, <3>3
      <4>2. PICK g \in Flights : Here(g) /\ flight[g].stage = "ok" /\ flight[g].entry = page.draft
        BY <1>1, <2>5, <4>1 DEF TwinInv
      <4>3. g # f  BY <1>2, <4>2
      <4> QED  BY <1>5, <1>6, <4>2, <4>3
    <3> QED  BY <3>2, <3>3
  <2> QED  BY <1>2, <2>1, <2>3, <2>4, <2>5 DEF TwinInv
<1>18. SavedInv'
  <2> SUFFICES ASSUME Undisturbed
               PROVE  \A g \in Flights : Live(g) =>
                         server'.row = IF flight'[g].stage = "ok" THEN flight'[g].row
                                       ELSE hist.saved
    BY <1>2, <1>6, <1>7 DEF SavedInv, Undisturbed
  <2>1. \A g \in Flights : Live(g) => g = f
    BY <1>1, <1>2 DEF Undisturbed, OneRequest
  <2>2. server.row = hist.saved  BY <1>1, <1>2 DEF SavedInv
  <2>3. server'.row = IF s = "ok" THEN flight[f].row ELSE hist.saved
    BY <1>8, <2>2 DEF Undisturbed
  <2> QED  BY <1>5, <2>1, <2>3
<1> QED  BY <1>10, <1>11, <1>12, <1>13, <1>14, <1>15, <1>16, <1>17, <1>18 DEF FormInv, KeptInv

\* A request whose answer is lost counts as refused, whatever the server did.
LEMMA LoseKeeps == ASSUME FormInv, NEW f \in Flights, Lose(f) PROVE FormInv'
<1>1. /\ Types /\ Limits /\ OneRequest /\ SentHere
      /\ Untyped /\ Awaited /\ Disposable /\ TypedIsKept
      /\ TwinInv /\ SavedInv /\ LockInv
  BY DEF FormInv, KeptInv
<1>2. /\ flight[f].stage \in {"sent", "ok"} /\ hist.losses < MaxLosses
      /\ flight' = [flight EXCEPT ![f].stage = "no"]
      /\ hist' = [hist EXCEPT !.losses = hist.losses + 1]
      /\ UNCHANGED <<form, page, stored, server>>
  BY DEF Lose
<1>3. /\ flight' \in [Flights -> Flight] /\ flight'[f].stage = "no"
      /\ \A g \in Flights : /\ flight'[g].entry = flight[g].entry
                            /\ flight'[g].owner = flight[g].owner
                            /\ flight'[g].row = flight[g].row
                            /\ flight'[g].count = flight[g].count
                            /\ g # f => flight'[g].stage = flight[g].stage
  BY <1>1, <1>2 DEF Types, Flight
<1>4. \A g \in Flights : /\ Live(g)' <=> Live(g)
                         /\ Here(g)' <=> Here(g)
  BY <1>2, <1>3 DEF Live, Here
<1>5. hist.losses \in 0 .. MaxLosses /\ hist.losses + 1 \in 0 .. MaxLosses /\ hist.losses + 1 # 0
  BY <1>1, <1>2, Bounds DEF Types, Hist
<1>6. /\ hist' \in Hist /\ hist'.given = hist.given /\ hist'.told = hist.told
      /\ hist'.typed = hist.typed /\ hist'.exposed = hist.exposed
      /\ hist'.losses # 0 /\ hist'.strayed = hist.strayed /\ hist'.twice = hist.twice
      /\ hist'.others = hist.others /\ hist'.saved = hist.saved
  BY <1>1, <1>2, <1>5 DEF Types, Hist
<1>7. does' = does /\ has' = has /\ StoresRow' = StoresRow  BY <1>2, SameForm
<1>8. ~Orderly' /\ ~Undisturbed'  BY <1>6 DEF Orderly, Undisturbed
<1>9. Types'  BY <1>1, <1>2, <1>3, <1>6 DEF Types
<1>10. Limits' /\ LockInv'
  BY <1>1, <1>2, <1>3, <1>4, <1>6, <1>7 DEF Limits, LockInv
<1>11. OneRequest' /\ SentHere'
  BY <1>1, <1>2, <1>3, <1>4, <1>6, <1>7 DEF OneRequest, SentHere
<1>12. Untyped' /\ Awaited' /\ Disposable' /\ TypedIsKept'
  BY <1>1, <1>2, <1>3, <1>4, <1>6, <1>7 DEF Untyped, Awaited, Disposable, TypedIsKept, Spare
<1>13. TwinInv' /\ SavedInv'
  BY <1>1, <1>2, <1>7, <1>8 DEF TwinInv, SavedInv
<1> QED  BY <1>9, <1>10, <1>11, <1>12, <1>13 DEF FormInv, KeptInv

LEMMA ElsewhereKeeps == ASSUME FormInv, Elsewhere PROVE FormInv'
<1>1. /\ Types /\ Limits /\ OneRequest /\ SentHere
      /\ Untyped /\ Awaited /\ Disposable /\ TypedIsKept
      /\ TwinInv /\ SavedInv /\ LockInv
  BY DEF FormInv, KeptInv
<1>2. /\ server' = [server EXCEPT !.row = Theirs]
      /\ UNCHANGED <<form, page, flight, stored>>
  BY DEF Elsewhere
<1>3. PICK risky : /\ hist' = [hist EXCEPT !.others = TRUE, !.exposed = hist.exposed \cup risky]
                   /\ risky = IF does.follows THEN {page.draft} ELSE {}
  BY DEF Elsewhere
<1>4. page.draft \in Entry /\ risky \subseteq Entry /\ (does.follows => page.draft \in risky)
  BY <1>1, <1>3 DEF Types, Page
<1>5. /\ hist' \in Hist /\ hist'.given = hist.given /\ hist'.told = hist.told
      /\ hist'.typed = hist.typed /\ hist'.exposed = hist.exposed \cup risky
      /\ hist'.losses = hist.losses /\ hist'.strayed = hist.strayed /\ hist'.twice = hist.twice
      /\ hist'.others /\ hist'.saved = hist.saved
  BY <1>1, <1>3, <1>4 DEF Types, Hist
<1>6. server' \in Server /\ server'.made = server.made
  BY <1>1, <1>2, Bounds DEF Types, Server
<1>7. does' = does /\ has' = has /\ StoresRow' = StoresRow  BY <1>2, SameForm
<1>8. Types'  BY <1>1, <1>2, <1>5, <1>6 DEF Types
<1>9. Limits' /\ LockInv' /\ SavedInv'
  BY <1>1, <1>2, <1>5, <1>7 DEF Limits, LockInv, SavedInv, Undisturbed, Live
<1>10. OneRequest' /\ SentHere'
  BY <1>1, <1>2, <1>5, <1>7 DEF OneRequest, SentHere, Live, Here
<1>11. Untyped' /\ Awaited' /\ Disposable' /\ TypedIsKept'
  BY <1>1, <1>2, <1>4, <1>5, <1>6, <1>7
  DEF Untyped, Awaited, Disposable, TypedIsKept, Spare, Live, Here
<1>12. TwinInv'
  BY <1>1, <1>2, <1>5, <1>6, <1>7 DEF TwinInv, Orderly, Live, Here
<1> QED  BY <1>8, <1>9, <1>10, <1>11, <1>12 DEF FormInv, KeptInv

-----------------------------------------------------------------------------
(* The answers.                                                            *)

\* An answered request is gone, and disturbs no other.
LEMMA Ends ==
    ASSUME Types, NEW f \in Flights, flight' = [flight EXCEPT ![f] = NoRequest]
    PROVE  /\ flight' \in [Flights -> Flight] /\ flight'[f].stage = "idle"
           /\ ~Live(f)' /\ ~Here(f)'
           /\ \A g \in Flights : g # f => /\ flight'[g] = flight[g]
                                          /\ Live(g)' <=> Live(g)
                                          /\ Here(g)' <=> Here(g)
<1>1. NoRequest \in Flight /\ NoRequest.stage = "idle"  BY Bounds DEF NoRequest, Flight
<1>2. /\ flight' \in [Flights -> Flight] /\ flight'[f].stage = "idle"
      /\ \A g \in Flights : g # f => flight'[g] = flight[g]
  BY <1>1 DEF Types
<1> QED  BY <1>2 DEF Live, Here

LEMMA ForgetKeeps == ASSUME FormInv, NEW f \in Flights, Forget(f) PROVE FormInv'
<1>1. /\ Types /\ Limits /\ OneRequest /\ SentHere
      /\ Untyped /\ Awaited /\ Disposable /\ TypedIsKept
      /\ TwinInv /\ SavedInv /\ LockInv
  BY DEF FormInv, KeptInv
<1>2. /\ flight[f].owner = "none" /\ flight' = [flight EXCEPT ![f] = NoRequest]
      /\ UNCHANGED <<form, page, stored, server, hist>> /\ Live(f) /\ ~Here(f)
  BY DEF Forget, Live, Here
<1>3. /\ flight' \in [Flights -> Flight] /\ flight'[f].stage = "idle"
      /\ ~Live(f)' /\ ~Here(f)'
      /\ \A g \in Flights : g # f => /\ flight'[g] = flight[g]
                                     /\ Live(g)' <=> Live(g)
                                     /\ Here(g)' <=> Here(g)
  BY <1>1, <1>2, Ends
<1>4. does' = does /\ has' = has /\ StoresRow' = StoresRow  BY <1>2, SameForm
<1>5. hist.strayed /\ ~Undisturbed'
  BY <1>1, <1>2 DEF OneRequest, Undisturbed
<1>6. Types' /\ Limits' /\ SavedInv' /\ LockInv'
  BY <1>1, <1>2, <1>3, <1>4, <1>5 DEF Types, Limits, SavedInv, LockInv
<1>7. OneRequest' /\ SentHere'
  BY <1>1, <1>2, <1>3, <1>4 DEF OneRequest, SentHere
<1>8. Untyped' /\ Awaited' /\ Disposable' /\ TypedIsKept'
  BY <1>1, <1>2, <1>3, <1>4 DEF Untyped, Awaited, Disposable, TypedIsKept, Spare
<1>9. TwinInv'
  BY <1>1, <1>2, <1>3, <1>4 DEF TwinInv, Orderly
<1> QED  BY <1>6, <1>7, <1>8, <1>9 DEF FormInv, KeptInv

\* What a success makes of the page that is open.
LEMMA SuccessPage ==
    ASSUME Types
    PROVE  /\ LET p == Succeeded(page) IN
              /\ p \in Page /\ p.here = page.here /\ (p.open => page.open)
              /\ p.draft \in {0, page.draft}
              /\ "clear" \in does.after => p.draft = 0
              /\ "leave" \in does.after => p.leaving
              /\ page.leaving => p.leaving
              /\ ~p.busy /\ p.seen = page.seen /\ p.count = 0 /\ ~p.locked
           /\ LET p == SucceededLate(page) IN
              /\ p \in Page /\ p.here = page.here /\ p.open = page.open
              /\ p.draft = page.draft /\ (page.leaving => p.leaving) /\ p.busy = page.busy
              /\ p.seen = page.seen /\ p.count = page.count /\ p.locked = page.locked
<1> DEFINE closes == "close" \in does.after
           clears == "clear" \in does.after \/ (closes /\ has.closing = "drops")
           open == page.open /\ ~(closes /\ has.shows = "dialog")
           draft == IF clears THEN 0 ELSE page.draft
           leaving == page.leaving \/ "leave" \in does.after
           later == page.leaving \/ (page.here /\ "leave" \in does.after)
<1>1. /\ page \in Page /\ open \in BOOLEAN /\ leaving \in BOOLEAN /\ later \in BOOLEAN
      /\ draft \in {0, page.draft} /\ draft \in Entry
  BY Bounds DEF Types, Page
<1>2. /\ open => page.open
      /\ page.leaving => leaving /\ later
      /\ "leave" \in does.after => leaving
      /\ "clear" \in does.after => draft = 0
  OBVIOUS
<1>3. Succeeded(page) = [page EXCEPT !.busy = FALSE, !.open = open, !.draft = draft,
                                     !.leaving = leaving, !.count = 0, !.locked = FALSE]
  BY DEF Succeeded
<1>4. SucceededLate(page) = [page EXCEPT !.leaving = later]  BY DEF SucceededLate
<1> HIDE DEF closes, clears, open, draft, leaving, later
<1>5. LET p == [page EXCEPT !.busy = FALSE, !.open = open, !.draft = draft,
                            !.leaving = leaving, !.count = 0, !.locked = FALSE] IN
      /\ p \in Page /\ p.here = page.here /\ p.open = open /\ p.draft = draft
      /\ p.leaving = leaving /\ ~p.busy /\ p.seen = page.seen /\ p.count = 0 /\ ~p.locked
  BY <1>1, Bounds DEF Page
<1>6. LET p == [page EXCEPT !.leaving = later] IN
      /\ p \in Page /\ p.here = page.here /\ p.open = page.open /\ p.draft = page.draft
      /\ p.leaving = later /\ p.busy = page.busy /\ p.seen = page.seen
      /\ p.count = page.count /\ p.locked = page.locked
  BY <1>1 DEF Page
<1> QED  BY <1>1, <1>2, <1>3, <1>4, <1>5, <1>6

LEMMA DoneKeeps == ASSUME FormInv, NEW f \in Flights, Done(f) PROVE FormInv'
<1>1. /\ Types /\ Limits /\ OneRequest /\ SentHere
      /\ Untyped /\ Awaited /\ Disposable /\ TypedIsKept
      /\ TwinInv /\ SavedInv /\ LockInv
  BY DEF FormInv, KeptInv
<1>2. /\ flight[f].stage = "ok" /\ Live(f) /\ flight' = [flight EXCEPT ![f] = NoRequest]
      /\ page' = IF flight[f].owner = "here" THEN Succeeded(page) ELSE SucceededLate(page)
      /\ stored' = [count |-> 0, locked |-> FALSE]
      /\ UNCHANGED <<form, server>>
      /\ Here(f) <=> flight[f].owner = "here"
  BY DEF Done, Live, Here
<1>3. /\ flight' \in [Flights -> Flight] /\ flight'[f].stage = "idle"
      /\ ~Live(f)' /\ ~Here(f)'
      /\ \A g \in Flights : g # f => /\ flight'[g] = flight[g]
                                     /\ Live(g)' <=> Live(g)
                                     /\ Here(g)' <=> Here(g)
  BY <1>1, <1>2, Ends
<1>4. PICK told : /\ hist' = [hist EXCEPT !.saved = flight[f].row, !.told = told]
                  /\ told = IF flight[f].owner = "here" THEN 0 ELSE hist.told
  BY DEF Done
<1>5. /\ hist' \in Hist /\ hist'.given = hist.given /\ hist'.told = told
      /\ hist'.typed = hist.typed /\ hist'.exposed = hist.exposed
      /\ hist'.losses = hist.losses /\ hist'.strayed = hist.strayed /\ hist'.twice = hist.twice
      /\ hist'.others = hist.others /\ hist'.saved = flight[f].row
  <2>1. told \in 0 .. FailedLimit /\ flight[f].row \in Row
    BY <1>1, <1>4, Bounds DEF Types, Hist, Flight
  <2> QED  BY <1>1, <1>4, <2>1 DEF Types, Hist
<1>6. /\ page' \in Page /\ page'.here = page.here /\ (page'.open => page.open)
      /\ page'.draft \in {0, page.draft} /\ (page.leaving => page'.leaving)
      /\ page'.seen = page.seen /\ (page'.busy <=> page.busy /\ ~Here(f))
      /\ Here(f) => /\ page'.count = 0 /\ ~page'.locked
                    /\ "clear" \in does.after => page'.draft = 0
                    /\ "leave" \in does.after => page'.leaving
      /\ ~Here(f) => page'.count = page.count /\ page'.locked = page.locked
  <2>1. CASE Here(f)
    <3>1. page' = Succeeded(page)  BY <1>2, <2>1
    <3> QED  BY <1>1, <2>1, <3>1, SuccessPage
  <2>2. CASE ~Here(f)
    <3>1. page' = SucceededLate(page)  BY <1>2, <2>2
    <3> QED  BY <1>1, <2>2, <3>1, SuccessPage
  <2> QED  BY <2>1, <2>2
<1>7. stored' \in Attempts /\ stored'.count = 0 /\ ~stored'.locked
  BY <1>2, Bounds DEF Attempts
<1>8. does' = does /\ has' = has /\ StoresRow' = StoresRow  BY <1>2, SameForm
<1>9. Spare(page.draft) \/ server.made[page.draft] > 0
  BY <1>1, <1>2 DEF Awaited
<1>10. ~hist.strayed => Here(f)  BY <1>1, <1>2 DEF OneRequest
<1>11. Types'  BY <1>1, <1>2, <1>3, <1>5, <1>6, <1>7 DEF Types
<1>12. Limits'
  BY <1>1, <1>3, <1>4, <1>5, <1>6, <1>7, <1>8, Bounds DEF Limits
<1>13. OneRequest'
  BY <1>1, <1>2, <1>3, <1>5, <1>6, <1>8 DEF OneRequest
<1>14. SentHere'
  BY <1>1, <1>3, <1>6, <1>8 DEF SentHere
<1>15. Untyped'
  BY <1>1, <1>2, <1>3, <1>5, <1>6, <1>8, Bounds DEF Untyped, Types, Hist
<1>16. Awaited'
  BY <1>1, <1>2, <1>3, <1>5, <1>6 DEF Awaited, Spare
<1>17. Disposable'
  BY <1>2, <1>5, <1>6, <1>9 DEF Disposable, Spare
<1>18. TypedIsKept'
  <2> SUFFICES ASSUME NEW e \in 1 .. hist.typed
               PROVE  \/ e \in hist.given \cup hist.exposed \/ page'.draft = e
                      \/ server.made[e] > 0
    BY <1>2, <1>5 DEF TypedIsKept
  <2>1. CASE page.draft # e  BY <1>1, <2>1 DEF TypedIsKept
  <2>2. CASE page.draft = e
    <3>1. e # 0  BY <1>1 DEF Types, Hist
    <3> QED  BY <1>9, <2>2, <3>1 DEF Spare
  <2> QED  BY <2>1, <2>2
<1>19. TwinInv'
  <2>1. Orderly' <=> Orderly  BY <1>5, <1>8 DEF Orderly
  <2>2. ASSUME Orderly, page'.draft # 0, server.made[page'.draft] > 0, ~page'.leaving
        PROVE  \E g \in Flights : /\ Here(g)' /\ flight'[g].stage = "ok"
                                  /\ flight'[g].entry = page'.draft
    <3>1. page'.draft = page.draft /\ ~page.leaving  BY <1>6, <2>2
    <3>2. ~Here(f)
      <4>1. Sound(does, has)  BY <1>1, ThisForm
      <4>2. has.needs # "button"  BY <1>1, <2>2, <3>1 DEF Untyped
      <4>3. "clear" \in does.after \/ "leave" \in does.after
        BY <2>2, <4>1, <4>2 DEF Orderly, Sound
      <4> QED  BY <1>6, <2>2, <4>3
    <3>3. PICK g \in Flights : Here(g) /\ flight[g].stage = "ok" /\ flight[g].entry = page.draft
      BY <1>1, <2>2, <3>1 DEF TwinInv
    <3> QED  BY <1>3, <3>1, <3>2, <3>3
  <2>3. \A g \in Flights : flight'[g].stage = "sent" => flight'[g] = flight[g]
    BY <1>3
  <2> QED  BY <1>1, <1>2, <1>8, <2>1, <2>2, <2>3 DEF TwinInv
<1>20. SavedInv'
  <2> SUFFICES ASSUME Undisturbed'
               PROVE  /\ \A g \in Flights : ~Live(g)'
                      /\ server.row = flight[f].row
    BY <1>2, <1>5 DEF SavedInv
  <2>1. Undisturbed  BY <1>5, <1>8 DEF Undisturbed
  <2>2. \A g \in Flights : Live(g) => g = f
    BY <1>1, <1>2, <2>1 DEF Undisturbed, OneRequest
  <2> QED  BY <1>1, <1>2, <1>3, <2>1, <2>2 DEF SavedInv
<1>21. LockInv'
  <2> SUFFICES ASSUME does.locks, ~hist.strayed
               PROVE  told = 0 /\ \A g \in Flights : ~Live(g)'
    BY <1>5, <1>6, <1>7, <1>8, <1>10, Bounds DEF LockInv
  <2>1. has.gated  BY <1>1, ThisForm DEF Sound
  <2>2. \A g \in Flights : Live(g) => g = f  BY <1>1, <1>10, <2>1 DEF OneRequest
  <2> QED  BY <1>2, <1>3, <1>4, <1>10, <2>2
<1> QED  BY <1>11, <1>12, <1>13, <1>14, <1>15, <1>16, <1>17, <1>18, <1>19, <1>20, <1>21
         DEF FormInv, KeptInv

\* A failure leaves the text, unless the form goes, and counts one more.
LEMMA RefusedKeeps ==
    ASSUME FormInv, NEW f \in Flights, NEW failure \in BOOLEAN, NEW outcome,
           Refused(f, failure, outcome)
    PROVE  FormInv'
<1>1. /\ Types /\ Limits /\ OneRequest /\ SentHere
      /\ Untyped /\ Awaited /\ Disposable /\ TypedIsKept
      /\ TwinInv /\ SavedInv /\ LockInv
  BY DEF FormInv, KeptInv
<1> DEFINE n    == flight[f].count + 1
           here == flight[f].owner = "here"
           gone == here /\ outcome = "gone"
           full == n >= FailedLimit
<1>2. /\ flight[f].stage = "no" /\ (failure => does.locks) /\ Live(f)
      /\ flight' = [flight EXCEPT ![f] = NoRequest] /\ UNCHANGED <<form, server>>
      /\ stored' = IF failure THEN [count |-> n, locked |-> full] ELSE stored
      /\ Here(f) <=> here
  BY DEF Refused, Counted, Live, Here
<1>3. /\ flight' \in [Flights -> Flight] /\ flight'[f].stage = "idle"
      /\ ~Live(f)' /\ ~Here(f)'
      /\ \A g \in Flights : g # f => /\ flight'[g] = flight[g]
                                     /\ Live(g)' <=> Live(g)
                                     /\ Here(g)' <=> Here(g)
  BY <1>1, <1>2, Ends
<1>4. /\ n \in 0 .. FailedLimit /\ full \in BOOLEAN /\ (full <=> n >= FailedLimit)
      /\ n = flight[f].count + 1
  <2>1. flight[f].count \in 0 .. FailedLimit /\ flight[f].count < FailedLimit
    BY <1>1, <1>2 DEF Types, Flight, Limits
  <2> QED  BY <2>1, Bounds
<1>5. PICK open, draft, count, locked :
         /\ open \in BOOLEAN /\ draft \in {0, page.draft}
         /\ page' = IF ~here THEN page
                    ELSE [page EXCEPT !.busy = FALSE, !.open = open, !.draft = draft,
                                      !.count = count, !.locked = locked]
         /\ (open => page.open) /\ draft = IF gone THEN 0 ELSE page.draft
         /\ count = IF failure THEN n ELSE page.count
         /\ locked = IF failure THEN full ELSE page.locked
  <2> DEFINE o == page.open /\ ~gone
             d == IF gone THEN 0 ELSE page.draft
             c == IF failure THEN n ELSE page.count
             l == IF failure THEN full ELSE page.locked
  <2>1. page' = IF ~here THEN page
                ELSE [page EXCEPT !.busy = FALSE, !.open = o, !.draft = d,
                                  !.count = c, !.locked = l]
    BY DEF Refused, Counted
  <2>2. o \in BOOLEAN /\ d \in {0, page.draft} /\ (o => page.open)  OBVIOUS
  <2> QED  BY <2>1, <2>2
<1>6. PICK told, given :
         /\ hist' = [hist EXCEPT !.told = told, !.given = hist.given \cup given]
         /\ told = IF here /\ failure /\ hist.told < FailedLimit THEN hist.told + 1 ELSE hist.told
         /\ given = IF gone THEN {page.draft} ELSE {}
  BY DEF Refused
<1> HIDE DEF n, full
<1>7. /\ page' \in Page /\ page'.here = page.here /\ (page'.open => page.open)
      /\ page'.leaving = page.leaving /\ page'.seen = page.seen
      /\ page'.draft = IF gone THEN 0 ELSE page.draft
      /\ page'.busy <=> page.busy /\ ~here
      /\ page'.count = IF here /\ failure THEN n ELSE page.count
      /\ page'.locked <=> IF here /\ failure THEN full ELSE page.locked
  <2>1. /\ page \in Page /\ open \in BOOLEAN /\ draft \in Entry
        /\ count \in 0 .. FailedLimit /\ locked \in BOOLEAN
    BY <1>1, <1>4, <1>5, Bounds DEF Types, Page
  <2>2. CASE here
    <3>1. page' = [page EXCEPT !.busy = FALSE, !.open = open, !.draft = draft,
                               !.count = count, !.locked = locked]
      BY <1>5, <2>2
    <3>2. /\ page' \in Page /\ page'.here = page.here /\ page'.open = open
          /\ page'.leaving = page.leaving /\ page'.seen = page.seen /\ page'.draft = draft
          /\ ~page'.busy /\ page'.count = count /\ page'.locked = locked
      BY <2>1, <3>1 DEF Page
    <3> QED  BY <1>5, <2>2, <3>2
  <2>3. CASE ~here  BY <1>5, <2>1, <2>3
  <2> QED  BY <2>2, <2>3
<1>8. /\ hist' \in Hist /\ hist'.given = hist.given \cup given /\ hist'.told = told
      /\ hist'.typed = hist.typed /\ hist'.exposed = hist.exposed
      /\ hist'.losses = hist.losses /\ hist'.strayed = hist.strayed /\ hist'.twice = hist.twice
      /\ hist'.others = hist.others /\ hist'.saved = hist.saved
  <2>1. hist \in Hist /\ given \subseteq Entry  BY <1>1, <1>6 DEF Types, Page
  <2>2. hist.told \in 0 .. FailedLimit  BY <2>1 DEF Hist
  <2>3. told \in 0 .. FailedLimit  BY <1>6, <2>2, Bounds
  <2> QED  BY <1>6, <2>1, <2>3 DEF Hist
<1>9. /\ stored' \in Attempts
      /\ stored'.count = IF failure THEN n ELSE stored.count
      /\ stored'.locked <=> IF failure THEN full ELSE stored.locked
  BY <1>1, <1>2, <1>4 DEF Types, Attempts
<1>10. does' = does /\ has' = has /\ StoresRow' = StoresRow  BY <1>2, SameForm
<1>11. ~hist.strayed => Here(f)  BY <1>1, <1>2 DEF OneRequest
<1>12. Types'  BY <1>1, <1>2, <1>3, <1>7, <1>8, <1>9 DEF Types
<1>13. Limits'
  <2>1. page'.count >= FailedLimit => page'.locked  BY <1>1, <1>4, <1>7 DEF Limits
  <2>2. stored'.count >= FailedLimit => stored'.locked  BY <1>1, <1>4, <1>9 DEF Limits
  <2>3. ~does.locks => page'.count = 0 /\ hist'.told = 0
    BY <1>1, <1>2, <1>6, <1>7, <1>8 DEF Limits
  <2> QED  BY <1>1, <1>3, <1>10, <2>1, <2>2, <2>3 DEF Limits
<1>14. OneRequest'
  BY <1>1, <1>2, <1>3, <1>7, <1>8, <1>10 DEF OneRequest
<1>15. SentHere'
  BY <1>1, <1>3, <1>7, <1>10 DEF SentHere
<1>16. Untyped'
  BY <1>1, <1>2, <1>3, <1>7, <1>8, <1>10, Bounds DEF Untyped, Types, Hist
<1>17. Awaited'
  BY <1>1, <1>2, <1>3, <1>7, <1>8 DEF Awaited, Spare
<1>18. Disposable'
  BY <1>1, <1>2, <1>7, <1>8, <1>10 DEF Disposable, Spare
<1>19. TypedIsKept'
  BY <1>1, <1>2, <1>6, <1>7, <1>8 DEF TypedIsKept
<1>20. TwinInv'
  <2>1. Orderly' <=> Orderly  BY <1>8, <1>10 DEF Orderly
  <2>2. ASSUME Orderly, page'.draft # 0, server.made[page'.draft] > 0, ~page'.leaving
        PROVE  \E g \in Flights : /\ Here(g)' /\ flight'[g].stage = "ok"
                                  /\ flight'[g].entry = page'.draft
    <3>1. page'.draft = page.draft /\ ~page.leaving  BY <1>7, <2>2
    <3>2. PICK g \in Flights : Here(g) /\ flight[g].stage = "ok" /\ flight[g].entry = page.draft
      BY <1>1, <2>2, <3>1 DEF TwinInv
    <3>3. g # f  BY <1>2, <3>2
    <3> QED  BY <1>3, <3>1, <3>2, <3>3
  <2>3. \A g \in Flights : flight'[g].stage = "sent" => flight'[g] = flight[g]
    BY <1>3
  <2> QED  BY <1>1, <1>2, <1>10, <2>1, <2>2, <2>3 DEF TwinInv
<1>21. SavedInv'
  <2> SUFFICES ASSUME Undisturbed'
               PROVE  /\ \A g \in Flights : ~Live(g)'
                      /\ server.row = hist.saved
    BY <1>2, <1>8 DEF SavedInv
  <2>1. Undisturbed  BY <1>8, <1>10 DEF Undisturbed
  <2>2. \A g \in Flights : Live(g) => g = f
    BY <1>1, <1>2, <2>1 DEF Undisturbed, OneRequest
  <2> QED  BY <1>1, <1>2, <1>3, <2>1, <2>2 DEF SavedInv
<1>22. LockInv'
  <2> SUFFICES ASSUME does.locks, ~hist.strayed PROVE LockInv'  BY <1>8, <1>10 DEF LockInv
  <2>1. has.gated /\ here  BY <1>1, <1>2, <1>11, ThisForm DEF Sound
  <2>2. \A g \in Flights : ~Live(g)'
    BY <1>1, <1>3, <1>11, <2>1 DEF OneRequest
  <2>3. flight[f].count = hist.told /\ hist.told < FailedLimit
    BY <1>1, <1>2 DEF LockInv, Limits
  <2>4. told = IF failure THEN n ELSE hist.told  BY <1>4, <1>6, <2>1, <2>3
  <2> QED  BY <1>1, <1>4, <1>7, <1>8, <1>9, <1>10, <2>1, <2>2, <2>4 DEF LockInv
<1> QED  BY <1>12, <1>13, <1>14, <1>15, <1>16, <1>17, <1>18, <1>19, <1>20, <1>21, <1>22
         DEF FormInv, KeptInv

-----------------------------------------------------------------------------
(* The theorems.                                                           *)

LEMMA FormNext == FormInv /\ [Next]_vars => FormInv'
<1> SUFFICES ASSUME FormInv, [Next]_vars PROVE FormInv'  OBVIOUS
<1>1. CASE Arrive \/ Leave \/ Reload \/ Navigate  BY <1>1, ArriveKeeps, LeavesKeep
<1>2. CASE OpenDialog \/ Type \/ CloseDialog  BY <1>2, OpenKeeps, TypeKeeps, CloseKeeps
<1>3. CASE Elsewhere \/ Refetch \/ MinutePasses
  BY <1>3, ElsewhereKeeps, RefetchKeeps, MinuteKeeps
<1>4. ASSUME NEW f \in Flights, Submit(f) \/ Serve(f) \/ Lose(f) \/ Forget(f) \/ Done(f)
      PROVE  FormInv'
  BY <1>4, SubmitKeeps, ServeKeeps, LoseKeeps, ForgetKeeps, DoneKeeps
<1>5. ASSUME NEW f \in Flights, NEW failure \in BOOLEAN, NEW outcome \in does.refusal,
             Refused(f, failure, outcome)
      PROVE  FormInv'
  BY <1>5, RefusedKeeps
<1>6. CASE UNCHANGED vars
  BY <1>6 DEF FormInv, KeptInv, vars, Types, Limits, OneRequest, SentHere, Untyped, Awaited,
              Disposable, TypedIsKept, TwinInv, SavedInv, LockInv, Orderly, Undisturbed,
              Spare, StoresRow, does, has, Live, Here
<1> QED  BY <1>1, <1>2, <1>3, <1>4, <1>5, <1>6 DEF Next

LEMMA FormAlways == Spec => []FormInv
BY FormInit, FormNext, PTL DEF Spec

\* The page, its requests and what the server and the tab keep have their types in
\* every form, and no form counts more failures than its limit.
THEOREM FormTypeCorrect == Spec => []TypeOK
<1>1. FormInv => TypeOK  BY TypesOK DEF FormInv
<1> QED  BY <1>1, FormAlways, PTL

\* No text makes two things on the server without a lost answer, a form that can be
\* submitted while it waits, or a second submission of a page about to be left.
THEOREM NoTwins == Spec => []TwinsOnlyByRetry
<1>1. FormInv => TwinsOnlyByRetry
  <2> SUFFICES ASSUME FormInv, NEW e \in Entry \ {0}, server.made[e] > 1
               PROVE  /\ does.sends = "create"
                      /\ hist.losses > 0 \/ ~has.gated \/ hist.twice
    BY DEF TwinsOnlyByRetry
  <2>1. does.sends = "create" /\ ~Orderly  BY DEF FormInv, TwinInv
  <2>2. hist.losses \in Nat  BY Bounds DEF FormInv, Types, Hist
  <2> QED  BY <2>1, <2>2 DEF Orderly
<1> QED  BY <1>1, FormAlways, PTL

\* No answer, refusal, fetched row or closed dialog takes a text that the user has not
\* given up and that was not at risk when it was typed.
THEOREM TextIsKept == Spec => []TypedIsKept
<1>1. FormInv => TypedIsKept  BY DEF FormInv, KeptInv
<1> QED  BY <1>1, FormAlways, PTL

\* What a form that stores a row reported as saved last is what the server has.
THEOREM SavedStaysStored == Spec => []SavedIsStored
<1>1. FormInv => SavedIsStored
  <2> SUFFICES ASSUME FormInv, Undisturbed, ~page.busy PROVE server.row = hist.saved
    BY DEF SavedIsStored, Undisturbed
  <2>1. \A f \in Flights : ~Live(f)  BY DEF FormInv, OneRequest, Undisturbed
  <2> QED  BY <2>1 DEF FormInv, SavedInv
<1> QED  BY <1>1, FormAlways, PTL

\* The limit of failed sign-ins holds over reloads and later visits.
THEOREM LimitLocks == Spec => []LockoutHolds
<1>1. FormInv => LockoutHolds
  <2> SUFFICES ASSUME FormInv, page.here, hist.told >= FailedLimit, ~hist.strayed
               PROVE  page.locked
    BY DEF LockoutHolds
  <2>1. Types /\ Limits /\ LockInv  BY DEF FormInv
  <2>2. does.locks  BY <2>1, Bounds DEF Limits
  <2> QED  BY <2>1, <2>2 DEF LockInv
<1> QED  BY <1>1, FormAlways, PTL

=============================================================================
