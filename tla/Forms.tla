------------------------------- MODULE Forms -------------------------------
(***************************************************************************)
(* The forms and buttons of the web front end through which a user changes *)
(* something on the server: what is typed, when it is sent, what a form    *)
(* does with the answer, and what becomes of both when the dialog is       *)
(* closed, the page left or the answer lost.                               *)
(*                                                                         *)
(* A behaviour is about one form.  Its submit handler and its controls are *)
(* records below; the actions are the same for all forms.  What the user   *)
(* types is an entry: a number that no other text has.                     *)
(***************************************************************************)
EXTENDS Naturals, FiniteSets

CONSTANTS
    Names,         \* the forms that may be used
    Flights,       \* requests a form may have under way
    FailedLimit,   \* failed sign-ins before the form locks (5 in the code)
    MaxTyped,      \* bound on what the user types
    MaxSubmits,    \* bound on what the user submits (FailedLimit + 1 where a form locks)
    MaxLosses      \* bound on the requests and answers lost

ASSUME LimitAssumption == FailedLimit \in Nat \ {0}
ASSUME FlightAssumption == Flights \subseteq Nat
ASSUME BoundAssumption == MaxTyped \in Nat /\ MaxSubmits \in Nat /\ MaxLosses \in Nat

-----------------------------------------------------------------------------
(* The submit handlers.                                                    *)
(*   starts   a form starts blank, or as a copy of a row it edits          *)
(*   sends    "create" makes a new thing each time, "once" makes one the   *)
(*            server refuses to make twice, "write" stores the whole row   *)
(*   after    what a success does: clears the fields, closes the dialog,   *)
(*            leaves the page                                              *)
(*   follows  the fields are copied again whenever the fetched row changes *)
(*   locks    the form counts failures, and locks                          *)
(*   refusal  what a failure may make of the form: it "stays" to be        *)
(*            submitted again, or it is "gone"                             *)

Handler(starts, sends, after) ==
    [starts |-> starts, sends |-> sends, after |-> after,
     follows |-> FALSE, locks |-> FALSE, refusal |-> {"stays"}]

LoginForm          == [Handler("blank", "create", {"leave"}) EXCEPT !.locks = TRUE]
RegisterForm       == Handler("blank", "once", {"leave"})
ForgotForm         == Handler("blank", "create", {"clear"})
ResetForm          == [Handler("blank", "once", {"leave"}) EXCEPT !.refusal = {"stays", "gone"}]
ChangeForm         == Handler("blank", "write", {"clear", "leave"})
SetupForm          == Handler("blank", "once", {"clear", "leave"})
InviteAnswer       == Handler("row", "once", {"leave"})
InvitationAnswer   == Handler("row", "once", {"leave"})
AddMemberForm      == Handler("blank", "once", {"clear", "close"})
InviteForm         == Handler("blank", "once", {"clear", "close"})
WorkspaceForm      == Handler("blank", "once", {"clear", "close", "leave"})
WorkspaceEdit      == Handler("row", "write", {})
WorkspaceDelete    == Handler("row", "write", {"close", "leave"})
MemberRemove       == Handler("row", "write", {"close"})
MemberRole         == Handler("row", "write", {})
KeyForm            == Handler("blank", "create", {"clear", "close"})
KeyDelete          == Handler("row", "write", {"close"})
SessionRevoke      == Handler("row", "write", {"close"})
ProfileForm        == Handler("row", "write", {})
VerificationButton == Handler("row", "create", {})
PasswordForm       == Handler("blank", "write", {"clear"})
ChannelForm        == Handler("blank", "create", {"clear", "close"})
ChannelEdit        == Handler("row", "write", {"clear", "close"})
ChannelToggle      == Handler("row", "write", {})
ChannelTest        == Handler("row", "create", {})
RuleForm           == Handler("blank", "create", {"clear", "close"})
RuleDelete         == Handler("row", "write", {"close"})
ChannelDelete      == Handler("row", "write", {"close"})
NoteForm           == Handler("blank", "create", {"clear"})
NoteEdit           == Handler("row", "write", {"clear", "close"})
NoteDelete         == Handler("row", "write", {"close"})
AlertStatus        == Handler("row", "write", {})
ImportForm         == Handler("blank", "once", {"clear"})
ProviderCreate     == Handler("blank", "once", {"close"})
ProviderEdit       == Handler("row", "write", {"close"})
ProviderDelete     == Handler("row", "write", {"close"})
AuthSettings       == Handler("row", "write", {})
SettingsForm       == [Handler("row", "write", {}) EXCEPT !.follows = TRUE]
ReanalyzeAll       == Handler("row", "create", {})
RetryJob           == Handler("row", "write", {})
IdentityUnlink     == [Handler("row", "write", {"close"}) EXCEPT !.refusal = {"gone"}]

-----------------------------------------------------------------------------
(* The controls.                                                           *)
(*   shows    the form is on its page, or in a dialog or an editor that    *)
(*            the user can close at any time                               *)
(*   needs    what there must be to submit: a typed entry, or nothing more *)
(*            than the row; a button has no fields                         *)
(*   closing  what closing makes of a typed entry                          *)
(*   gated    submitting is impossible while an answer is awaited          *)
(*   shuts    submitting closes the dialog at once                         *)

On(needs) ==
    [shows |-> "page", needs |-> needs, closing |-> "keeps", gated |-> TRUE, shuts |-> FALSE]
In(closing) == [On("typed") EXCEPT !.shows = "dialog", !.closing = closing]
Confirmed   == [In("drops") EXCEPT !.needs = "button"]
Ungated(controls) == [controls EXCEPT !.gated = FALSE]
Shut(controls)    == [controls EXCEPT !.shuts = TRUE]

LoginControls           == On("typed")
RegisterControls        == On("typed")
ForgotControls          == On("typed")
ResetControls           == On("typed")
ChangeControls          == On("typed")
SetupControls           == On("typed")
InviteControls          == On("button")
InvitationControls      == On("button")
AddMemberControls       == In("keeps")
InviteMemberControls    == In("keeps")
WorkspaceControls       == In("keeps")
WorkspaceEditControls   == On("row")
WorkspaceDeleteControls == Confirmed
MemberControls          == Confirmed
MemberRoleControls      == Ungated(On("button"))
KeyControls             == In("keeps")
KeyDeleteControls       == Confirmed
SessionControls         == Confirmed
ProfileControls         == On("row")
VerificationControls    == On("button")
PasswordControls        == On("typed")
ChannelControls         == In("keeps")
ChannelEditControls     == [In("drops") EXCEPT !.needs = "row"]
ChannelToggleControls   == Ungated(On("button"))
ChannelTestControls     == On("button")
ChannelDeleteControls   == Confirmed
RuleControls            == In("keeps")
RuleDeleteControls      == Confirmed
NoteControls            == Ungated(On("typed"))
NoteEditControls        == In("drops")
NoteDeleteControls      == Confirmed
AlertStatusControls     == Ungated(On("button"))
ImportControls          == On("typed")
ProviderControls        == In("drops")
ProviderEditControls    == [In("drops") EXCEPT !.needs = "row"]
ProviderDeleteControls  == Confirmed
AuthSettingsControls    == Shut(Confirmed)
SettingsControls        == On("typed")
ReanalyzeControls       == On("button")
RetryControls           == Shut(Confirmed)
UnlinkControls          == Confirmed

Handlers ==
    [login |-> LoginForm, register |-> RegisterForm, forgot |-> ForgotForm, reset |-> ResetForm,
     change |-> ChangeForm, setup |-> SetupForm, invite |-> InviteAnswer,
     invitation |-> InvitationAnswer, addMember |-> AddMemberForm, inviteMember |-> InviteForm,
     workspace |-> WorkspaceForm, workspaceEdit |-> WorkspaceEdit,
     workspaceDelete |-> WorkspaceDelete, memberRemove |-> MemberRemove, memberRole |-> MemberRole,
     key |-> KeyForm, keyDelete |-> KeyDelete, session |-> SessionRevoke, profile |-> ProfileForm,
     verification |-> VerificationButton, password |-> PasswordForm, channel |-> ChannelForm,
     channelEdit |-> ChannelEdit, channelToggle |-> ChannelToggle, channelTest |-> ChannelTest,
     channelDelete |-> ChannelDelete, rule |-> RuleForm, ruleDelete |-> RuleDelete,
     note |-> NoteForm, noteEdit |-> NoteEdit, noteDelete |-> NoteDelete,
     alertStatus |-> AlertStatus, import |-> ImportForm, provider |-> ProviderCreate,
     providerEdit |-> ProviderEdit, providerDelete |-> ProviderDelete,
     authSettings |-> AuthSettings, settings |-> SettingsForm, reanalyze |-> ReanalyzeAll,
     retry |-> RetryJob, unlink |-> IdentityUnlink]

Controls ==
    [login |-> LoginControls, register |-> RegisterControls, forgot |-> ForgotControls,
     reset |-> ResetControls, change |-> ChangeControls, setup |-> SetupControls,
     invite |-> InviteControls, invitation |-> InvitationControls, addMember |-> AddMemberControls,
     inviteMember |-> InviteMemberControls, workspace |-> WorkspaceControls,
     workspaceEdit |-> WorkspaceEditControls, workspaceDelete |-> WorkspaceDeleteControls,
     memberRemove |-> MemberControls, memberRole |-> MemberRoleControls, key |-> KeyControls,
     keyDelete |-> KeyDeleteControls, session |-> SessionControls, profile |-> ProfileControls,
     verification |-> VerificationControls, password |-> PasswordControls,
     channel |-> ChannelControls, channelEdit |-> ChannelEditControls,
     channelToggle |-> ChannelToggleControls, channelTest |-> ChannelTestControls,
     channelDelete |-> ChannelDeleteControls, rule |-> RuleControls,
     ruleDelete |-> RuleDeleteControls, note |-> NoteControls, noteEdit |-> NoteEditControls,
     noteDelete |-> NoteDeleteControls, alertStatus |-> AlertStatusControls,
     import |-> ImportControls, provider |-> ProviderControls,
     providerEdit |-> ProviderEditControls, providerDelete |-> ProviderDeleteControls,
     authSettings |-> AuthSettingsControls, settings |-> SettingsControls,
     reanalyze |-> ReanalyzeControls, retry |-> RetryControls, unlink |-> UnlinkControls]

ASSUME NameAssumption == Names \subseteq DOMAIN Handlers

-----------------------------------------------------------------------------
VARIABLES
    form,     \* the form of this behaviour
    page,     \* its state in the browser
    flight,   \* the requests it has sent, and the answers to them
    stored,   \* the failed sign-ins the tab keeps (sessionStorage)
    server,   \* what the server has made of the entries
    hist      \* history variable: what happened so far

vars == <<form, page, flight, stored, server, hist>>

does == Handlers[form]
has  == Controls[form]

Entry   == 0 .. MaxTyped    \* 0: nothing typed, or the row as it was copied
Theirs  == MaxTyped + 1     \* what another user stored in the row
Row     == Entry \cup {Theirs}
Attempts == [count: 0 .. FailedLimit, locked: BOOLEAN]

Live(f)   == flight[f].stage # "idle"
NoRequest == [stage |-> "idle", entry |-> 0, row |-> 0, owner |-> "none", count |-> 0]

\* Mutant: a page that opens takes up only the lock, not the count.
Fresh_Uncounted(here) ==
    [here |-> here, open |-> here /\ has.shows = "page", draft |-> 0, busy |-> FALSE,
     leaving |-> FALSE, seen |-> server.row, copy |-> server.row,
     count |-> 0, locked |-> does.locks /\ stored.locked]

\* A page that opens: a form with fields starts without an entry.  The form that
\* locks takes up the failures the tab keeps.
Fresh(here) ==
    [here |-> here, open |-> here /\ has.shows = "page", draft |-> 0, busy |-> FALSE,
     leaving |-> FALSE, seen |-> server.row, copy |-> server.row,
     count |-> IF does.locks THEN stored.count ELSE 0, locked |-> does.locks /\ stored.locked]

Init ==
    /\ form \in Names
    /\ flight = [f \in Flights |-> NoRequest]
    /\ stored = [count |-> 0, locked |-> FALSE]
    /\ server = [row |-> 0, made |-> [e \in Entry |-> 0]]
    /\ page = Fresh(FALSE)
    /\ hist = [typed |-> 0, submits |-> 0, given |-> {0}, exposed |-> {}, losses |-> 0, told |-> 0,
               strayed |-> FALSE, twice |-> FALSE, others |-> FALSE, saved |-> 0]

-----------------------------------------------------------------------------
(* The user.                                                               *)

Arrive ==
    /\ ~page.here
    /\ page' = Fresh(TRUE)
    /\ UNCHANGED <<form, flight, stored, server, hist>>

\* Where the requests of a page that is left, or reloaded, go: an answer to the
\* former still runs the rest of the handler, one to the latter finds nobody.
Orphaned(owner) ==
    [f \in Flights |-> IF flight[f].owner = "here" \/ (owner = "none" /\ Live(f))
                       THEN [flight[f] EXCEPT !.owner = owner] ELSE flight[f]]

Strays == hist.strayed \/ \E f \in Flights : Live(f)

Leave ==
    /\ page.here
    /\ page' = Fresh(FALSE)
    /\ flight' = Orphaned("left")
    /\ hist' = [hist EXCEPT !.given = @ \cup {page.draft}, !.strayed = Strays]
    /\ UNCHANGED <<form, stored, server>>

Reload ==
    /\ page.here
    /\ page' = Fresh(TRUE)
    /\ flight' = Orphaned("none")
    /\ hist' = [hist EXCEPT !.given = @ \cup {page.draft}, !.strayed = Strays]
    /\ UNCHANGED <<form, stored, server>>

\* A dialog copies its row when it opens, unless it keeps what was typed.
OpenDialog ==
    /\ page.here /\ ~page.open /\ has.shows = "dialog"
    /\ page' = [page EXCEPT !.open = TRUE, !.copy = page.seen]
    /\ UNCHANGED <<form, flight, stored, server, hist>>

\* Fields stay editable while an answer is awaited.
Type ==
    /\ page.open /\ has.needs # "button" /\ hist.typed < MaxTyped
    /\ LET new == hist.typed + 1
           uncertain == page.leaving \/ page.seen # server.row \/ \E f \in Flights : Live(f)
       IN  /\ page' = [page EXCEPT !.draft = new]
           /\ hist' = [hist EXCEPT !.typed = new, !.given = @ \cup {page.draft},
                                   !.exposed = @ \cup (IF uncertain THEN {new} ELSE {})]
    /\ UNCHANGED <<form, flight, stored, server>>

CloseDialog ==
    /\ page.open /\ has.shows = "dialog"
    /\ page' = [page EXCEPT !.open = FALSE, !.draft = IF has.closing = "drops" THEN 0 ELSE @]
    /\ hist' = [hist EXCEPT !.given = @ \cup (IF has.closing = "drops" THEN {page.draft} ELSE {})]
    /\ UNCHANGED <<form, flight, stored, server>>

\* Mutant: the buttons that save a row are not disabled while an answer is awaited.
MaySubmit_WhileBusy ==
    /\ page.open
    /\ (has.gated /\ has.needs # "row") => ~page.busy
    /\ has.needs = "typed" => page.draft # 0
    /\ does.locks => ~page.locked

\* The checks of the handler and of the button.
MaySubmit ==
    /\ page.open
    /\ has.needs = "typed" => page.draft # 0
    /\ has.gated => ~page.busy
    /\ does.locks => ~page.locked

Submit(f) ==
    /\ MaySubmit /\ hist.submits < IF does.locks THEN FailedLimit + 1 ELSE MaxSubmits
    /\ ~Live(f) /\ \A g \in Flights : g < f => Live(g)
    /\ flight' = [flight EXCEPT ![f] =
                     [stage |-> "sent", entry |-> page.draft,
                      row |-> IF page.draft = 0 THEN page.copy ELSE page.draft,
                      owner |-> "here", count |-> page.count]]
    /\ page' = [page EXCEPT !.busy = TRUE, !.open = @ /\ ~has.shuts]
    /\ hist' = [hist EXCEPT !.submits = @ + 1, !.twice = @ \/ page.leaving]
    /\ UNCHANGED <<form, stored, server>>

-----------------------------------------------------------------------------
(* The server and the connection.                                          *)

StoresRow == does.sends = "write" /\ has.needs # "button"

Effect(f) ==
    [row  |-> IF StoresRow THEN flight[f].row ELSE server.row,
     made |-> [server.made EXCEPT ![flight[f].entry] =
                 IF does.sends = "create" /\ @ # 0 THEN 2 ELSE 1]]

Serve(f) ==
    /\ flight[f].stage = "sent"
    /\ \/ /\ does.sends = "once" => server.made[flight[f].entry] = 0
          /\ server' = Effect(f)
          /\ flight' = [flight EXCEPT ![f].stage = "ok"]
       \/ /\ flight' = [flight EXCEPT ![f].stage = "no"]
          /\ UNCHANGED server
    /\ UNCHANGED <<form, page, stored, hist>>

\* The connection fails before or after the server has seen the request.
Lose(f) ==
    /\ flight[f].stage \in {"sent", "ok"} /\ hist.losses < MaxLosses
    /\ flight' = [flight EXCEPT ![f].stage = "no"]
    /\ hist' = [hist EXCEPT !.losses = @ + 1]
    /\ UNCHANGED <<form, page, stored, server>>

\* Another user stores the row, once.
Elsewhere ==
    /\ does.starts = "row" /\ StoresRow /\ ~hist.others
    /\ server' = [server EXCEPT !.row = Theirs]
    /\ hist' = [hist EXCEPT !.others = TRUE,
                            !.exposed = @ \cup (IF does.follows THEN {page.draft} ELSE {})]
    /\ UNCHANGED <<form, page, flight, stored>>

-----------------------------------------------------------------------------
(* The answers.                                                            *)

Forget(f) ==
    /\ flight[f].stage \in {"ok", "no"} /\ flight[f].owner = "none"
    /\ flight' = [flight EXCEPT ![f] = NoRequest]
    /\ UNCHANGED <<form, page, stored, server, hist>>

\* Mutant: a success closes the dialog and keeps its fields.
Succeeded_KeepsText(p) ==
    [p EXCEPT !.busy = FALSE,
              !.open = @ /\ ~("close" \in does.after /\ has.shows = "dialog"),
              !.leaving = @ \/ "leave" \in does.after,
              !.count = 0, !.locked = FALSE]

\* A success of the page that is open.  Leaving takes a moment, in which the form
\* can be used.
Succeeded(p) ==
    LET closes == "close" \in does.after
        clears == "clear" \in does.after \/ (closes /\ has.closing = "drops")
    IN  [p EXCEPT !.busy = FALSE,
                  !.open = @ /\ ~(closes /\ has.shows = "dialog"),
                  !.draft = IF clears THEN 0 ELSE @,
                  !.leaving = @ \/ "leave" \in does.after,
                  !.count = 0, !.locked = FALSE]

\* One of a page that was left only leaves again, from whatever page is open.
SucceededLate(p) == [p EXCEPT !.leaving = @ \/ (p.here /\ "leave" \in does.after)]

Done(f) ==
    /\ flight[f].stage = "ok" /\ flight[f].owner # "none"
    /\ page' = IF flight[f].owner = "here" THEN Succeeded(page) ELSE SucceededLate(page)
    /\ flight' = [flight EXCEPT ![f] = NoRequest]
    /\ stored' = [count |-> 0, locked |-> FALSE]
    /\ hist' = [hist EXCEPT !.saved = flight[f].row,
                            !.told = IF flight[f].owner = "here" THEN 0 ELSE @]
    /\ UNCHANGED <<form, server>>

\* The handler counts from what it knew when the form was submitted.  A sign-in
\* refused until the address is verified is no failure.
Counted(n) == [count |-> n, locked |-> n >= FailedLimit]

\* Mutant: a failure does not end the wait (the finally is missing).
Refused_StaysBusy(f, failure, outcome) ==
    LET after == Counted(flight[f].count + 1)
        here  == flight[f].owner = "here"
        gone  == here /\ outcome = "gone"
    IN  /\ flight[f].stage = "no" /\ flight[f].owner # "none"
        /\ failure => does.locks
        /\ page' = IF ~here THEN page
                   ELSE [page EXCEPT !.open = @ /\ ~gone,
                                     !.draft = IF gone THEN 0 ELSE @,
                                     !.count = IF failure THEN after.count ELSE @,
                                     !.locked = IF failure THEN after.locked ELSE @]
        /\ stored' = IF failure THEN after ELSE stored
        /\ flight' = [flight EXCEPT ![f] = NoRequest]
        /\ hist' = [hist EXCEPT !.told = IF here /\ failure /\ @ < FailedLimit THEN @ + 1 ELSE @,
                                !.given = @ \cup (IF gone THEN {page.draft} ELSE {})]
        /\ UNCHANGED <<form, server>>

\* Mutant: a failure clears the fields.
Refused_Clears(f, failure, outcome) ==
    LET after == Counted(flight[f].count + 1)
        here  == flight[f].owner = "here"
        gone  == here /\ outcome = "gone"
    IN  /\ flight[f].stage = "no" /\ flight[f].owner # "none"
        /\ failure => does.locks
        /\ page' = IF ~here THEN page
                   ELSE [page EXCEPT !.busy = FALSE, !.open = @ /\ ~gone,
                                     !.draft = 0,
                                     !.count = IF failure THEN after.count ELSE @,
                                     !.locked = IF failure THEN after.locked ELSE @]
        /\ stored' = IF failure THEN after ELSE stored
        /\ flight' = [flight EXCEPT ![f] = NoRequest]
        /\ hist' = [hist EXCEPT !.told = IF here /\ failure /\ @ < FailedLimit THEN @ + 1 ELSE @,
                                !.given = @ \cup (IF gone THEN {page.draft} ELSE {})]
        /\ UNCHANGED <<form, server>>

Refused(f, failure, outcome) ==
    LET after == Counted(flight[f].count + 1)
        here  == flight[f].owner = "here"
        gone  == here /\ outcome = "gone"
    IN  /\ flight[f].stage = "no" /\ flight[f].owner # "none"
        /\ failure => does.locks
        /\ page' = IF ~here THEN page
                   ELSE [page EXCEPT !.busy = FALSE, !.open = @ /\ ~gone,
                                     !.draft = IF gone THEN 0 ELSE @,
                                     !.count = IF failure THEN after.count ELSE @,
                                     !.locked = IF failure THEN after.locked ELSE @]
        /\ stored' = IF failure THEN after ELSE stored
        /\ flight' = [flight EXCEPT ![f] = NoRequest]
        /\ hist' = [hist EXCEPT !.told = IF here /\ failure /\ @ < FailedLimit THEN @ + 1 ELSE @,
                                !.given = @ \cup (IF gone THEN {page.draft} ELSE {})]
        /\ UNCHANGED <<form, server>>

Navigate ==
    /\ page.leaving
    /\ page' = Fresh(FALSE)
    /\ flight' = Orphaned("left")
    /\ hist' = [hist EXCEPT !.strayed = Strays]
    /\ UNCHANGED <<form, stored, server>>

\* The row is fetched again: after a success, on a timer or a change of focus.
Refetch ==
    /\ page.here /\ page.seen # server.row
    /\ page' = [page EXCEPT !.seen = server.row,
                            !.copy = IF does.follows THEN server.row ELSE @,
                            !.draft = IF does.follows THEN 0 ELSE @]
    /\ UNCHANGED <<form, flight, stored, server, hist>>

\* Mutant: the end of the lock leaves the count.
MinutePasses_KeepsCount ==
    /\ page.locked \/ stored.locked
    /\ page' = [page EXCEPT !.locked = FALSE]
    /\ stored' = [stored EXCEPT !.locked = FALSE]
    /\ hist' = [hist EXCEPT !.told = 0]
    /\ UNCHANGED <<form, flight, server>>

\* The lock ends.
MinutePasses ==
    /\ page.locked \/ stored.locked
    /\ page' = IF page.locked THEN [page EXCEPT !.count = 0, !.locked = FALSE] ELSE page
    /\ stored' = [count |-> 0, locked |-> FALSE]
    /\ hist' = [hist EXCEPT !.told = 0]
    /\ UNCHANGED <<form, flight, server>>

-----------------------------------------------------------------------------
Next ==
    \/ Arrive \/ Leave \/ Reload \/ OpenDialog \/ Type \/ CloseDialog
    \/ Elsewhere \/ Navigate \/ Refetch \/ MinutePasses
    \/ \E f \in Flights :
          \/ Submit(f) \/ Serve(f) \/ Lose(f) \/ Forget(f) \/ Done(f)
          \/ \E failure \in BOOLEAN, outcome \in does.refusal : Refused(f, failure, outcome)

Spec == Init /\ [][Next]_vars

\* Requests are answered, answers are handled, and a page that is left goes away.
Answer(f) ==
    \/ Serve(f) \/ Done(f) \/ Forget(f)
    \/ \E failure \in BOOLEAN, outcome \in does.refusal : Refused(f, failure, outcome)

Fairness == /\ \A f \in Flights : WF_vars(Answer(f))
            /\ WF_vars(Navigate)

FairSpec == Spec /\ Fairness

-----------------------------------------------------------------------------
(* Properties.                                                             *)

\* Types of the variables of a form.
TypeOK ==
    /\ form \in Names
    /\ page \in [here: BOOLEAN, open: BOOLEAN, draft: Entry, busy: BOOLEAN, leaving: BOOLEAN,
                 seen: Row, copy: Row, count: 0 .. FailedLimit, locked: BOOLEAN]
    /\ flight \in [Flights -> [stage: {"idle", "sent", "ok", "no"}, entry: Entry, row: Row,
                              owner: {"here", "left", "none"}, count: 0 .. FailedLimit]]
    /\ stored \in Attempts
    /\ server \in [row: Row, made: [Entry -> 0 .. 2]]
    /\ hist.typed \in 0 .. MaxTyped /\ hist.losses \in 0 .. MaxLosses

\* No text makes two things on the server, unless its form is one that may be submitted
\* anew (the server cannot tell) and an answer was lost, nothing in the form prevents a
\* second submission meanwhile, or it came while the page was about to be left.
TwinsOnlyByRetry ==
    \A e \in Entry \ {0} :
        server.made[e] > 1 => /\ does.sends = "create"
                              /\ hist.losses > 0 \/ ~has.gated \/ hist.twice

\* A text the user has typed and not given up is in the form or on the server, also
\* while it is on its way, unless it was typed while an earlier answer was awaited or
\* while the fetched row was changing.
TypedIsKept ==
    \A e \in 1 .. hist.typed :
        \/ e \in hist.given \cup hist.exposed
        \/ page.draft = e
        \/ server.made[e] > 0

\* What a form that stores a row last reported as saved is what the server has, if
\* nobody else stored the row, nothing was lost and no page was left meanwhile.
SavedIsStored ==
    (/\ StoresRow /\ has.gated /\ ~page.busy
     /\ ~hist.others /\ hist.losses = 0 /\ ~hist.strayed)
    => server.row = hist.saved

\* After FailedLimit failures the sign-in form is locked, also after a reload and on a
\* later visit, unless a page was left while an answer was awaited.
LockoutHolds ==
    (page.here /\ hist.told >= FailedLimit /\ ~hist.strayed) => page.locked

\* A form that awaits an answer can be submitted again at some point.
FormRecovers == page.busy ~> ~page.busy

=============================================================================
