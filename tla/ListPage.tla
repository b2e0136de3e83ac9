------------------------------ MODULE ListPage ------------------------------
(***************************************************************************)
(* The list pages of the web front end: eleven tables that share their     *)
(* filters with the address bar, ask the server for one page of rows at a  *)
(* time and offer operations on the rows.                                  *)
(*                                                                         *)
(* One page is open at a time.  A page is described by a record (how its   *)
(* filter is read and shown, what returns it to the first page of rows)    *)
(* and by the operations on its rows; the actions below are the same for   *)
(* all pages.  A row is abstracted to its kind: the value the page's main  *)
(* filter tells rows apart by (a status, an ecosystem or a day).  What the *)
(* search text finds is a fixed set of rows.                               *)
(***************************************************************************)
EXTENDS Naturals, FiniteSets, Sequences

CONSTANTS
    Views,         \* the pages that may be opened
    Roles,         \* the roles the user may have in the workspace
    Row,           \* rows the server may hold, ordered by their number
    PageSize,      \* rows per page (20 in the code)
    Found,         \* the rows that match the search text
    MaxEdits,      \* bound on what the user does
    MaxElsewhere   \* bound on what others do to the rows

ASSUME RowAssumption == Row \subseteq Nat \ {0} /\ IsFiniteSet(Row) /\ Found \subseteq Row
ASSUME BoundAssumption == PageSize \in Nat \ {0} /\ MaxEdits \in Nat /\ MaxElsewhere \in Nat

All  == "all"      \* no filter
Gone == "gone"     \* the row is not (or no longer) on the server

-----------------------------------------------------------------------------
(* The filters of each page.                                               *)
(*   kinds       what rows may be; plain: what an unfiltered request lists *)
(*   facets      values the filter may take; start: its value at first     *)
(*   reads       what a page that opens makes of the address: "url" takes  *)
(*               the filter, "config" takes it if the public configuration *)
(*               is loaded, "day" parses a day in local time, "none"       *)
(*   search      when a typed text returns the page to the first rows: as  *)
(*               typed, when it has settled, or never (there is no search) *)
(*   textInUrl   when a typed text is written to the address               *)
(*   clearsSort  whether "Clear filters" also clears the sort order        *)
(*   floor       the least number of pages the table reports               *)

Ecosystems == {"npm", "python"}
Days == {"d1", "d2"}

Page(kinds, plain, facets) ==
    [kinds |-> kinds, plain |-> plain, facets |-> facets, start |-> All, reads |-> "url",
     search |-> "settled", textInUrl |-> "never", clearsSort |-> TRUE, floor |-> 1]

\* An unfiltered request for packages lists the active ones only.
PackagesFilters ==
    LET kinds == {"active", "suggested", "blocked", "removed"}
    IN  Page(kinds, {"active"}, kinds \cup {All})

SuggestionsFilters ==
    [Page(Ecosystems, Ecosystems, Ecosystems \cup {All}) EXCEPT !.reads = "config", !.clearsSort = FALSE]

StaleFilters ==
    [Page(Ecosystems, Ecosystems, Ecosystems \cup {All}) EXCEPT !.reads = "config", !.textInUrl = "typed"]

AlertsFilters ==
    LET kinds == {"new", "acknowledged", "resolved"} IN Page(kinds, kinds, kinds \cup {All})

ReleasesFilters ==
    LET kinds == {"in_progress", "completed", "error"} IN Page(kinds, kinds, kinds \cup {All})

UsersFilters ==
    LET kinds == {"active", "inactive"} IN [Page(kinds, kinds, kinds \cup {All}) EXCEPT !.reads = "none"]

AuditFilters ==
    [Page(Days, Days, Days \cup {All}) EXCEPT !.reads = "day", !.textInUrl = "settled"]

PlatformAuditFilters ==
    [Page(Days, Days, Days \cup {All}) EXCEPT !.reads = "none", !.textInUrl = "settled"]

QueueJobsFilters ==
    LET kinds == {"pending", "processing", "dead"}
    IN  [Page(kinds, kinds, kinds) EXCEPT !.start = "pending", !.search = "never",
                                           !.clearsSort = FALSE, !.floor = 0]

WorkspacesFilters ==
    [Page({"member"}, {"member"}, {All}) EXCEPT !.search = "typed", !.clearsSort = FALSE, !.floor = 0]

NotificationsFilters ==
    LET kinds == {"unread", "read"}
    IN  [Page(kinds, kinds, kinds \cup {All}) EXCEPT !.search = "never", !.clearsSort = FALSE]

\* What each page renders around its rows: the search field, the control of the
\* filter, the button and the chips that clear it, headers that sort, page
\* controls, and boxes to tick.
PackagesControls      == {"search", "facet", "clear", "sort", "pages"}
SuggestionsControls   == {"search", "facet", "clear", "sort", "pages"}
StaleControls         == {"search", "facet", "clear", "sort", "pages"}
AlertsControls        == {"search", "facet", "clear", "sort", "pages"}
ReleasesControls      == {"search", "facet", "clear", "sort", "pages"}
UsersControls         == {"search", "facet", "clear", "sort", "pages"}
AuditControls         == {"search", "facet", "clear", "sort", "pages"}
PlatformAuditControls == {"search", "facet", "clear", "sort", "pages"}
QueueJobsControls     == {"facet", "pages"}
WorkspacesControls    == {"search", "pages"}
NotificationsControls == {"facet", "clear", "pages", "tick"}

Controls ==
    [packages |-> PackagesControls, suggestions |-> SuggestionsControls, stale |-> StaleControls,
     alerts |-> AlertsControls, releases |-> ReleasesControls, users |-> UsersControls,
     audit |-> AuditControls, platformAudit |-> PlatformAuditControls, queueJobs |-> QueueJobsControls,
     workspaces |-> WorkspacesControls, notifications |-> NotificationsControls]

Filters ==
    [packages |-> PackagesFilters, suggestions |-> SuggestionsFilters, stale |-> StaleFilters,
     alerts |-> AlertsFilters, releases |-> ReleasesFilters, users |-> UsersFilters,
     audit |-> AuditFilters, platformAudit |-> PlatformAuditFilters, queueJobs |-> QueueJobsFilters,
     workspaces |-> WorkspacesFilters, notifications |-> NotificationsFilters]

-----------------------------------------------------------------------------
(* The operations each page offers on its rows.                            *)
(*   role     the least role that is offered the operation                 *)
(*   offered  the kinds of rows it is offered on                           *)
(*   allowed  the kinds the server accepts it for; to: what they become    *)
(*   scope    the row itself, all rows on the server, or the ticked rows   *)
(*   asks     whether a dialog asks first                                  *)

Rank == [viewer |-> 1, member |-> 2, admin |-> 3]

Op(role, offered, allowed, to) ==
    [role |-> role, offered |-> offered, allowed |-> allowed, to |-> to, scope |-> "row", asks |-> FALSE]

\* Only the kind "blocked" changes what a row of packages offers.
PackagesRows ==
    LET others == {"active", "suggested", "removed"}
    IN  [block   |-> Op("member", others, {"active"}, "blocked"),
         remove  |-> Op("admin", others, {"active", "blocked"}, "removed"),
         unblock |-> Op("member", {"blocked"}, {"blocked"}, "active")]

SuggestionsRows ==
    [approve |-> Op("member", Ecosystems, Ecosystems, Gone),
     reject  |-> Op("member", Ecosystems, Ecosystems, Gone)]

\* "Approve All" takes every suggestion of the workspace, whatever the
\* filter shows; "Approve All npm" those of one ecosystem.
SuggestionsBulk ==
    [approveNpm |-> [Op("member", Ecosystems, {"npm"}, Gone) EXCEPT !.scope = "all"],
     approveAll |-> [Op("member", Ecosystems, Ecosystems, Gone) EXCEPT !.scope = "all"]]

AlertsRows ==
    [acknowledge |-> Op("member", {"new"}, {"new", "acknowledged", "resolved"}, "acknowledged"),
     resolve     |-> Op("member", {"new", "acknowledged"}, {"new", "acknowledged", "resolved"}, "resolved")]

UsersRows ==
    [deactivate |-> Op("viewer", {"active"}, {"active", "inactive"}, "inactive"),
     activate   |-> Op("viewer", {"inactive"}, {"active", "inactive"}, "active")]

QueueJobsRows ==
    [retry    |-> Op("viewer", {"dead"}, {"dead"}, "pending"),
     retryAll |-> [Op("viewer", {"dead"}, {"dead"}, "pending") EXCEPT !.scope = "all"]]

NotificationsRows ==
    [markRead |-> Op("viewer", {"unread"}, {"unread", "read"}, "read"),
     delete   |-> Op("viewer", {"read"}, {"unread", "read"}, Gone)]

NotificationsBulk ==
    LET kinds == {"unread", "read"}
    IN  [markAllRead    |-> [Op("viewer", kinds, kinds, "read") EXCEPT !.scope = "all"],
         deleteAll      |-> [Op("viewer", kinds, kinds, Gone) EXCEPT !.scope = "all"],
         deleteSelected |-> [Op("viewer", kinds, kinds, Gone) EXCEPT !.scope = "ticked"]]

Join(f, g) == [x \in DOMAIN f \cup DOMAIN g |-> IF x \in DOMAIN f THEN f[x] ELSE g[x]]
Asking(f, names) == [x \in DOMAIN f |-> [f[x] EXCEPT !.asks = x \in names]]

\* The dialogs of the pages: the operations that ask before they act.
PackagesAsk      == {"remove", "block", "unblock"}
SuggestionsAsk   == {"approveNpm", "approveAll"}
UsersAsk         == {"deactivate", "activate"}
NotificationsAsk == {"deleteAll", "deleteSelected"}

NoRows == [x \in {} |-> x]

Ops ==
    [packages      |-> Asking(PackagesRows, PackagesAsk),
     suggestions   |-> Asking(Join(SuggestionsRows, SuggestionsBulk), SuggestionsAsk),
     stale         |-> NoRows,
     alerts        |-> AlertsRows,
     releases      |-> NoRows,
     users         |-> Asking(UsersRows, UsersAsk),
     audit         |-> NoRows,
     platformAudit |-> NoRows,
     queueJobs     |-> QueueJobsRows,
     workspaces    |-> NoRows,
     notifications |-> Asking(Join(NotificationsRows, NotificationsBulk), NotificationsAsk)]

ASSUME ViewAssumption == Views \subseteq DOMAIN Filters /\ Roles \subseteq DOMAIN Rank

-----------------------------------------------------------------------------
VARIABLES
    view,      \* the open page
    role,      \* the role of the user in the workspace
    config,    \* whether the public configuration is loaded
    status,    \* the kind of each row on the server, or Gone
    facet,     \* the value of the main filter
    text,      \* whether a search text is typed
    settled,   \* the same, 300 ms after the last key
    page,      \* index of the page of rows
    url,       \* what the address says: facet, text and sort order
    past,      \* addresses that "back" returns to
    origin,    \* who wrote the address last: "mount", "page" or "back"
    load,      \* the request for the rows: "first", "again", "idle" or "failed"
    seen,      \* the rows of the last answer
    ticked,    \* the ticked rows
    dialog,    \* the operation a dialog asks about, and its row
    edits, elsewhere   \* how often the user and others acted

server == <<status, elsewhere>>
filter == <<facet, text, settled, page, url, past, origin>>
data   == <<load, seen>>
vars   == <<view, role, config, server, filter, data, ticked, dialog, edits>>

F == Filters[view]
NoDialog == [op |-> "none", row |-> 0]
NoUrl == [facet |-> F.start, text |-> FALSE, sort |-> "none"]

-----------------------------------------------------------------------------
(* Which rows a page shows.                                                *)

ClientPaged == view = "notifications"    \* the others ask the server for a page

Matching(kinds) ==
    {r \in Row : /\ kinds[r] \in (IF facet = All THEN F.plain ELSE {facet})
                 /\ settled => r \in Found}

\* Position of row r among rs, in the order of the sort parameter.
Position(r, rs) ==
    Cardinality({x \in rs : IF url.sort = "desc" THEN x > r ELSE x < r})

PageOf(rs, p) == {r \in rs : Position(r, rs) \div PageSize = p}

Loaded == load \in {"again", "idle"}
Listed == IF Loaded THEN Matching(seen) ELSE {}
Shown  == PageOf(Listed, page)

\* Math.max(1, Math.ceil(total / pageSize)); two pages do without the max.
PageCount ==
    LET n == (Cardinality(Listed) + PageSize - 1) \div PageSize IN IF n < F.floor THEN F.floor ELSE n

\* The page controls disappear as soon as all rows fit on one page, and those
\* of the workspaces when no row is shown.
HasPageControls ==
    /\ "pages" \in Controls[view] /\ Cardinality(Listed) > PageSize
    /\ view = "workspaces" => Shown # {}

\* The page lies behind the last row of the answer.
Behind == page # 0 /\ PageOf(Matching(seen), page) = {}

-----------------------------------------------------------------------------
(* Opening a page, by a link, a reload or the way back from a row: the     *)
(* filters are read from the address once, and the address stays as it is. *)

\* A day is written as YYYY-MM-DDT00:00:00Z of the local date and parsed as an
\* instant: outside UTC it may be read back as its neighbour.
ReadDay(d) == IF d = All THEN {All} ELSE Days

ReadFacet(u) ==
    CASE F.reads = "url"    -> {u.facet}
      [] F.reads = "config" -> {IF config THEN u.facet ELSE All}
      [] F.reads = "day"    -> ReadDay(u.facet)
      [] F.reads = "none"   -> {F.start}

ReadText(u) == u.text /\ F.textInUrl # "never" /\ F.reads # "none"

Open(u) ==
    /\ facet' \in ReadFacet(u)
    /\ text' = ReadText(u) /\ settled' = ReadText(u)
    /\ page' = 0
    /\ url' = u
    /\ origin' = "mount"
    /\ load' = "first"
    /\ ticked' = {} /\ dialog' = NoDialog

Init ==
    /\ view \in Views
    /\ role \in Roles
    /\ config \in (IF F.reads = "config" THEN BOOLEAN ELSE {TRUE})
    /\ \E a, b \in F.plain : status = [r \in Row |-> IF r \in Found THEN a ELSE b]
    /\ \E u \in [facet : F.facets, text : BOOLEAN, sort : {"none"}] :
          /\ u.text => F.textInUrl # "never"
          /\ url = u
          /\ facet \in ReadFacet(u)
          /\ text = ReadText(u) /\ settled = ReadText(u)
    /\ page = 0 /\ past = <<>> /\ origin = "mount"
    /\ load = "first" /\ seen = [r \in Row |-> Gone]
    /\ ticked = {} /\ dialog = NoDialog
    /\ edits = 0 /\ elsewhere = 0

ConfigLoads == ~config /\ config' = TRUE
               /\ UNCHANGED <<view, role, server, filter, data, ticked, dialog, edits>>

\* Every act of the user; a dialog that is open takes the focus.
Edit == /\ edits < MaxEdits /\ edits' = edits + 1
        /\ UNCHANGED <<view, role, config>>
Browse == Edit /\ dialog = NoDialog /\ UNCHANGED <<server, dialog>>

\* A reload, or a visit to a row's own page and back.
Revisit ==
    /\ Edit
    /\ Open(url)
    /\ UNCHANGED <<server, past, seen>>

-----------------------------------------------------------------------------
(* Filters, search and sort order.                                         *)

\* useFilterParams: the address becomes the filters and nothing else, so that
\* a sort order in it is lost.  A page without filters leaves it alone.
WriteUrl(f, t) ==
    IF view = "workspaces"
      THEN UNCHANGED <<url, origin>>
      ELSE url' = [facet |-> f, text |-> t, sort |-> "none"] /\ origin' = "page"

UrlText == CASE F.textInUrl = "typed"   -> text
             [] F.textInUrl = "settled" -> settled
             [] OTHER                   -> FALSE

\* Another key for the query: its rows are loaded anew.  A page that filters
\* what it holds keeps its data.
Reload == load' = (IF ClientPaged THEN load ELSE "first") /\ UNCHANGED seen

\* The filter changes, by its control or by the chip that removes it.
SetFacet(f) ==
    /\ Browse
    /\ "facet" \in Controls[view] /\ f \in F.facets \ {facet}
    /\ facet' = f
    /\ page' = 0
    /\ WriteUrl(f, UrlText)
    /\ Reload
    /\ UNCHANGED <<text, settled, past, ticked>>

\* A key in the search field.  Where the text is in the address, its sort order
\* is lost, and the page is reset if there was one.
Type(t) ==
    /\ Browse
    /\ "search" \in Controls[view] /\ t # text
    /\ text' = t
    /\ IF F.textInUrl = "typed" THEN WriteUrl(facet, t) ELSE UNCHANGED <<url, origin>>
    /\ LET unsorted == url'.sort # url.sort IN
         /\ page' = IF F.search = "typed" \/ unsorted THEN 0 ELSE page
         /\ load' = IF page' # page \/ unsorted THEN "first" ELSE load
    /\ UNCHANGED <<facet, settled, past, seen, ticked>>

\* Mutant: the settled text is missing from the dependencies of the effect that resets.
Settle_KeepsPage ==
    /\ settled # text
    /\ settled' = text
    /\ page' = page
    /\ IF F.textInUrl = "settled" THEN WriteUrl(facet, text) ELSE UNCHANGED <<url, origin>>
    /\ Reload
    /\ UNCHANGED <<view, role, config, server, facet, text, past, ticked, dialog, edits>>

\* Mutant: a text that is typed again before 300 ms is never used.
Settle_NeverClears ==
    /\ settled # text /\ text
    /\ settled' = text
    /\ page' = IF F.search = "settled" THEN 0 ELSE page
    /\ IF F.textInUrl = "settled" THEN WriteUrl(facet, text) ELSE UNCHANGED <<url, origin>>
    /\ Reload
    /\ UNCHANGED <<view, role, config, server, facet, text, past, ticked, dialog, edits>>

\* The 300 ms without a key have passed.
Settle ==
    /\ settled # text
    /\ settled' = text
    /\ page' = IF F.search = "settled" THEN 0 ELSE page
    /\ IF F.textInUrl = "settled" THEN WriteUrl(facet, text) ELSE UNCHANGED <<url, origin>>
    /\ Reload
    /\ UNCHANGED <<view, role, config, server, facet, text, past, ticked, dialog, edits>>

\* Mutant: the sort order replaces the address instead of being added to it.
SetSort_DropsFilters(s) ==
    /\ Browse
    /\ "sort" \in Controls[view] /\ s # url.sort
    /\ url' = [NoUrl EXCEPT !.sort = s]
    /\ past' = Append(past, url)
    /\ page' = 0
    /\ Reload
    /\ UNCHANGED <<facet, text, settled, origin, ticked>>

\* setSorting: a new entry in the history that keeps the rest of the address.
\* The effect that follows resets the page.
SetSort(s) ==
    /\ Browse
    /\ "sort" \in Controls[view] /\ s # url.sort
    /\ url' = [url EXCEPT !.sort = s]
    /\ past' = Append(past, url)
    /\ page' = 0
    /\ Reload
    /\ UNCHANGED <<facet, text, settled, origin, ticked>>

\* "Clear filters".  The sort order goes with the address that is written anew.
ClearAll ==
    /\ Browse
    /\ "clear" \in Controls[view]
    /\ facet # F.start \/ text
    /\ facet' = F.start /\ text' = FALSE
    /\ LET rewritten == facet' # facet \/ (F.textInUrl = "typed" /\ text' # text)
           cleared   == F.clearsSort
           written   == IF F.textInUrl = "settled" THEN settled ELSE FALSE
       IN  /\ past' = IF cleared THEN Append(past, url) ELSE past
           /\ IF rewritten
                THEN WriteUrl(F.start, written)
                ELSE url' = (IF cleared THEN [url EXCEPT !.sort = "none"] ELSE url) /\ UNCHANGED origin
           /\ page' = IF facet' # facet \/ url'.sort # url.sort THEN 0 ELSE page
           /\ load' = IF ~ClientPaged /\ (facet' # facet \/ page' # page \/ url'.sort # url.sort)
                        THEN "first" ELSE load
    /\ UNCHANGED <<settled, seen, ticked>>

\* "Back" to the address before a sort: the page stays open, its filters are
\* not read again; the sort order is.
Back ==
    /\ Browse
    /\ past # <<>>
    /\ url' = past[Len(past)] /\ past' = SubSeq(past, 1, Len(past) - 1)
    /\ origin' = "back"
    /\ IF url'.sort # url.sort THEN page' = 0 /\ Reload ELSE UNCHANGED <<page, data>>
    /\ UNCHANGED <<facet, text, settled, ticked>>

\* Mutant: the last page has a next one.
NextPage_OneTooFar ==
    /\ Browse
    /\ HasPageControls
    /\ page < PageCount
    /\ page' = page + 1
    /\ Reload
    /\ UNCHANGED <<facet, text, settled, url, past, origin, ticked>>

NextPage ==
    /\ Browse
    /\ HasPageControls
    /\ page < PageCount - 1
    /\ page' = page + 1
    /\ Reload
    /\ UNCHANGED <<facet, text, settled, url, past, origin, ticked>>

PreviousPage ==
    /\ Browse
    /\ HasPageControls
    /\ page > 0
    /\ page' = page - 1
    /\ Reload
    /\ UNCHANGED <<facet, text, settled, url, past, origin, ticked>>

-----------------------------------------------------------------------------
(* Rows.                                                                   *)

\* The answer for the current key; an answer for another key is kept apart.
Answer ==
    /\ load \in {"first", "again"}
    /\ \/ load' = "idle" /\ seen' = status
       \/ load' = "failed" /\ UNCHANGED seen
    /\ UNCHANGED <<view, role, config, server, filter, ticked, dialog, edits>>

\* "Try again" on the error, and a refetch of rows that have gone stale.
Refetch ==
    /\ Browse
    /\ load \in {"idle", "failed"}
    /\ load' = IF load = "idle" THEN "again" ELSE "first"
    /\ UNCHANGED <<filter, seen, ticked>>

Permitted(op) == Rank[role] >= Rank[op.role]

\* The buttons on a row, and those above the rows.
OfferedOn(name, r) ==
    LET op == Ops[view][name] IN
    /\ Permitted(op)
    /\ CASE op.scope = "row"    -> r \in Shown /\ seen[r] \in op.offered
         [] op.scope = "all"    -> r = 0 /\ \E x \in (IF ClientPaged THEN Row ELSE Listed) : seen[x] \in op.offered
         [] op.scope = "ticked" -> r = 0 /\ ticked # {}

\* What the server does: it skips a row the operation is not allowed on.
Perform(op, r) ==
    LET aimed == CASE op.scope = "row" -> {r} [] op.scope = "all" -> Row [] op.scope = "ticked" -> ticked
        hit   == {x \in aimed : status[x] \in op.allowed}
    IN  /\ status' = [x \in Row |-> IF x \in hit THEN op.to ELSE status[x]]
        /\ load' = IF load = "first" THEN "first" ELSE "again"
        /\ ticked' = IF op.scope = "ticked" \/ (op.scope = "all" /\ op.to = Gone) THEN {} ELSE ticked
        /\ UNCHANGED <<elsewhere, filter, seen>>

Press(name, r) ==
    /\ Edit
    /\ dialog = NoDialog /\ ~Ops[view][name].asks /\ OfferedOn(name, r)
    /\ Perform(Ops[view][name], r)
    /\ UNCHANGED dialog

Ask(name, r) ==
    /\ Edit
    /\ dialog = NoDialog /\ Ops[view][name].asks /\ OfferedOn(name, r)
    /\ dialog' = [op |-> name, row |-> r]
    /\ UNCHANGED <<server, filter, data, ticked>>

\* The dialog acts on the row it was opened for, whatever became of it.
Confirm ==
    /\ dialog # NoDialog
    /\ Perform(Ops[view][dialog.op], dialog.row)
    /\ dialog' = NoDialog
    /\ UNCHANGED <<view, role, config, edits>>

Cancel ==
    /\ dialog # NoDialog
    /\ dialog' = NoDialog
    /\ UNCHANGED <<view, role, config, server, filter, data, ticked, edits>>

Tick(r) ==
    /\ Browse
    /\ "tick" \in Controls[view] /\ r \in Shown
    /\ ticked' = IF r \in ticked THEN ticked \ {r} ELSE ticked \cup {r}
    /\ UNCHANGED <<filter, data>>

\* Mutant: a tick is taken for a row on the server.
TickPage_Zero ==
    /\ Browse
    /\ "tick" \in Controls[view] /\ Shown # {}
    /\ ticked' = ticked \cup {0}
    /\ UNCHANGED <<filter, data>>

\* The box above the rows: all rows of this page of rows, or none of them.
TickPage ==
    /\ Browse
    /\ "tick" \in Controls[view] /\ Shown # {}
    /\ ticked' = IF Shown \subseteq ticked THEN ticked \ Shown ELSE ticked \cup Shown
    /\ UNCHANGED <<filter, data>>

\* Other users, and the server itself: rows come, change and go.
Elsewhere(r, k) ==
    /\ elsewhere < MaxElsewhere /\ elsewhere' = elsewhere + 1
    /\ k \in (F.kinds \cup {Gone}) \ {status[r]}
    /\ status' = [status EXCEPT ![r] = k]
    /\ UNCHANGED <<view, role, config, filter, data, ticked, dialog, edits>>

-----------------------------------------------------------------------------
Filtering ==
    \/ \E f \in F.facets : SetFacet(f)
    \/ \E t \in BOOLEAN : Type(t)
    \/ Settle
    \/ \E s \in {"none", "asc", "desc"} : SetSort(s)
    \/ ClearAll
    \/ Back
    \/ NextPage
    \/ PreviousPage

Operating ==
    \/ \E name \in DOMAIN Ops[view], r \in Row \cup {0} : Press(name, r) \/ Ask(name, r)
    \/ Confirm
    \/ Cancel
    \/ \E r \in Row : Tick(r)
    \/ TickPage

Next ==
    \/ ConfigLoads
    \/ Revisit
    \/ Filtering
    \/ Answer
    \/ Refetch
    \/ Operating
    \/ \E r \in Row : \E k \in F.kinds \cup {Gone} : Elsewhere(r, k)

Spec == Init /\ [][Next]_vars

\* Timers fire and requests are answered; nobody has to act.
FairSpec == Spec /\ WF_vars(Settle) /\ WF_vars(Answer)

-----------------------------------------------------------------------------
(* Properties.                                                             *)

\* Types of the variables of a list page.
TypeOK ==
    /\ view \in DOMAIN Filters /\ role \in DOMAIN Rank /\ config \in BOOLEAN
    /\ status \in [Row -> F.kinds \cup {Gone}] /\ seen \in [Row -> F.kinds \cup {Gone}]
    /\ facet \in F.facets /\ text \in BOOLEAN /\ settled \in BOOLEAN
    /\ page \in 0 .. Cardinality(Row)
    /\ url \in [facet : F.facets, text : BOOLEAN, sort : {"none", "asc", "desc"}]
    /\ \A i \in 1 .. Len(past) : past[i].facet \in F.facets
    /\ origin \in {"mount", "page", "back"}
    /\ load \in {"first", "again", "idle", "failed"}
    /\ ticked \subseteq Row
    /\ dialog.op \in {"none"} \cup DOMAIN Ops[view] /\ dialog.row \in Row \cup {0}

\* Once a page has written the address, the address names the filters of the
\* table, so that a link to it or a reload shows the same rows.  Sorting keeps
\* the filters in the address (use-sort-params.ts:35).
UrlShowsFilters == origin = "page" => url.facet = facet /\ url.text = UrlText

\* Whenever what is asked for changes (filter, settled text or sort order), the
\* table goes back to its first page ("Reset to first page when filters or sort
\* change", packages-list-view.tsx).  The list of workspaces, which resets when
\* a key is typed and asks 300 ms later, is left out of the second line.
FilterShowsFirstPage ==
    [][ \/ facet' # facet \/ url'.sort # url.sort
        \/ settled' # settled /\ F.search = "settled"
        => page' = 0 ]_vars

\* A page of rows comes to lie behind the last row only by an answer that lacks
\* rows of the one before, or (workspaces) by a search that settles after the
\* page was turned.  No click of the user leads there.
BehindOnlyByLoss ==
    [][ Behind' /\ ~Behind
        => \/ seen' # seen /\ \E r \in Matching(seen) : r \notin Matching(seen)'
           \/ F.search = "typed" /\ settled' # settled ]_vars

\* With answers that come and timers that fire, every page ends up showing the
\* answer for the text that is in its search field.
TableSettles == <>[](settled = text /\ load \in {"idle", "failed"})

=============================================================================
