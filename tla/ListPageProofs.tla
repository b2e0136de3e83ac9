--------------------------- MODULE ListPageProofs ---------------------------
(***************************************************************************)
(* What holds of the list pages for any rows, page size, search and number *)
(* of acts: types, the address, the page that a filter shows, and how a    *)
(* page of rows comes to lie behind the last row.                          *)
(***************************************************************************)
EXTENDS ListPage, FiniteSetTheorems, SequenceTheorems, TLAPS

-----------------------------------------------------------------------------
(* The filters of the pages.                                               *)

\* What the proofs use of the filters f of a page with the controls c.
SoundFilters(f, c) ==
    /\ f.start \in f.facets /\ f.plain \subseteq f.kinds
    /\ f.reads \in {"url", "config", "day", "none"}
    /\ f.reads = "config" => All \in f.facets
    /\ f.reads = "day" => f.facets = Days \cup {All}
    /\ f.textInUrl \in {"never", "typed", "settled"}
    /\ f.textInUrl = "settled" => f.search = "settled"
    /\ f.search \in {"settled", "typed", "never"}
    /\ "search" \notin c => f.textInUrl = "never"
    /\ f.search = "never" => "search" \notin c
    /\ f.floor \in {0, 1}

\* A page before its peculiarities.
PageRecord(kinds, plain, facets) ==
    [kinds : {kinds}, plain : {plain}, facets : {facets}, start : {All, "pending"},
     reads : {"url", "config", "day", "none"}, search : {"settled", "typed", "never"},
     textInUrl : {"never", "typed", "settled"}, clearsSort : BOOLEAN, floor : {0, 1}]

LEMMA PageFacts ==
    ASSUME NEW kinds, NEW plain, NEW facets
    PROVE  LET p == Page(kinds, plain, facets) IN
           /\ p \in PageRecord(kinds, plain, facets)
           /\ p.start = All /\ p.reads = "url" /\ p.search = "settled" /\ p.textInUrl = "never" /\ p.floor = 1
BY DEF Page, PageRecord

LEMMA EveryFilters ==
    ASSUME NEW v \in DOMAIN Filters
    PROVE  SoundFilters(Filters[v], Controls[v])
<1>1. SoundFilters(PackagesFilters, PackagesControls)
  <2> DEFINE kinds == {"active", "suggested", "blocked", "removed"}
             p == Page(kinds, {"active"}, kinds \cup {All})
  <2>1. p \in PageRecord(kinds, {"active"}, kinds \cup {All}) /\ p.start = All /\ p.reads = "url" /\ p.search = "settled"
        /\ p.textInUrl = "never" /\ p.floor = 1
    BY PageFacts
  <2>2. PackagesFilters = p  BY DEF PackagesFilters
  <2> HIDE DEF p
  <2> QED  BY <2>1, <2>2 DEF PageRecord, SoundFilters, PackagesControls
<1>2. /\ SoundFilters(SuggestionsFilters, SuggestionsControls)
      /\ SoundFilters(StaleFilters, StaleControls)
  <2> DEFINE p == Page(Ecosystems, Ecosystems, Ecosystems \cup {All})
  <2>1. p \in PageRecord(Ecosystems, Ecosystems, Ecosystems \cup {All}) /\ p.start = All /\ p.reads = "url"
        /\ p.search = "settled" /\ p.textInUrl = "never" /\ p.floor = 1
    BY PageFacts
  <2>2. /\ SuggestionsFilters = [p EXCEPT !.reads = "config", !.clearsSort = FALSE]
        /\ StaleFilters = [p EXCEPT !.reads = "config", !.textInUrl = "typed"]
    BY DEF SuggestionsFilters, StaleFilters
  <2> HIDE DEF p
  <2>3. SoundFilters(SuggestionsFilters, SuggestionsControls)
    BY <2>1, <2>2 DEF PageRecord, SoundFilters, SuggestionsControls
  <2>4. SoundFilters(StaleFilters, StaleControls)
    BY <2>1, <2>2 DEF PageRecord, SoundFilters, StaleControls
  <2> QED  BY <2>3, <2>4
<1>3. SoundFilters(AlertsFilters, AlertsControls)
  <2> DEFINE kinds == {"new", "acknowledged", "resolved"}
             p == Page(kinds, kinds, kinds \cup {All})
  <2>1. p \in PageRecord(kinds, kinds, kinds \cup {All}) /\ p.start = All /\ p.reads = "url"
        /\ p.search = "settled" /\ p.textInUrl = "never" /\ p.floor = 1
    BY PageFacts
  <2>2. AlertsFilters = p  BY DEF AlertsFilters
  <2> HIDE DEF p
  <2> QED  BY <2>1, <2>2 DEF PageRecord, SoundFilters, AlertsControls
<1>4. SoundFilters(ReleasesFilters, ReleasesControls)
  <2> DEFINE kinds == {"in_progress", "completed", "error"}
             p == Page(kinds, kinds, kinds \cup {All})
  <2>1. p \in PageRecord(kinds, kinds, kinds \cup {All}) /\ p.start = All /\ p.reads = "url"
        /\ p.search = "settled" /\ p.textInUrl = "never" /\ p.floor = 1
    BY PageFacts
  <2>2. ReleasesFilters = p  BY DEF ReleasesFilters
  <2> HIDE DEF p
  <2> QED  BY <2>1, <2>2 DEF PageRecord, SoundFilters, ReleasesControls
<1>5. SoundFilters(UsersFilters, UsersControls)
  <2> DEFINE kinds == {"active", "inactive"}
             p == Page(kinds, kinds, kinds \cup {All})
  <2>1. p \in PageRecord(kinds, kinds, kinds \cup {All}) /\ p.start = All
        /\ p.search = "settled" /\ p.textInUrl = "never" /\ p.floor = 1
    BY PageFacts
  <2>2. UsersFilters = [p EXCEPT !.reads = "none"]  BY DEF UsersFilters
  <2> HIDE DEF p
  <2> QED  BY <2>1, <2>2 DEF PageRecord, SoundFilters, UsersControls
<1>6. /\ SoundFilters(AuditFilters, AuditControls)
      /\ SoundFilters(PlatformAuditFilters, PlatformAuditControls)
  <2> DEFINE p == Page(Days, Days, Days \cup {All})
  <2>1. p \in PageRecord(Days, Days, Days \cup {All}) /\ p.start = All /\ p.reads = "url"
        /\ p.search = "settled" /\ p.textInUrl = "never" /\ p.floor = 1
    BY PageFacts
  <2>2. /\ AuditFilters = [p EXCEPT !.reads = "day", !.textInUrl = "settled"]
        /\ PlatformAuditFilters = [p EXCEPT !.reads = "none", !.textInUrl = "settled"]
    BY DEF AuditFilters, PlatformAuditFilters
  <2> HIDE DEF p
  <2>3. SoundFilters(AuditFilters, AuditControls)
    BY <2>1, <2>2 DEF PageRecord, SoundFilters, AuditControls
  <2>4. SoundFilters(PlatformAuditFilters, PlatformAuditControls)
    BY <2>1, <2>2 DEF PageRecord, SoundFilters, PlatformAuditControls
  <2> QED  BY <2>3, <2>4
<1>7. SoundFilters(QueueJobsFilters, QueueJobsControls)
  <2> DEFINE kinds == {"pending", "processing", "dead"}
             p == Page(kinds, kinds, kinds)
  <2>1. p \in PageRecord(kinds, kinds, kinds) /\ p.reads = "url" /\ p.textInUrl = "never"
    BY PageFacts
  <2>2. QueueJobsFilters = [p EXCEPT !.start = "pending", !.search = "never", !.clearsSort = FALSE, !.floor = 0]
    BY DEF QueueJobsFilters
  <2> HIDE DEF p
  <2> QED  BY <2>1, <2>2 DEF PageRecord, SoundFilters, QueueJobsControls
<1>8. SoundFilters(WorkspacesFilters, WorkspacesControls)
  <2> DEFINE p == Page({"member"}, {"member"}, {All})
  <2>1. p \in PageRecord({"member"}, {"member"}, {All}) /\ p.start = All /\ p.reads = "url" /\ p.textInUrl = "never"
    BY PageFacts
  <2>2. WorkspacesFilters = [p EXCEPT !.search = "typed", !.clearsSort = FALSE, !.floor = 0]
    BY DEF WorkspacesFilters
  <2> HIDE DEF p
  <2> QED  BY <2>1, <2>2 DEF PageRecord, SoundFilters, WorkspacesControls
<1>9. SoundFilters(NotificationsFilters, NotificationsControls)
  <2> DEFINE kinds == {"unread", "read"}
             p == Page(kinds, kinds, kinds \cup {All})
  <2>1. p \in PageRecord(kinds, kinds, kinds \cup {All}) /\ p.start = All /\ p.reads = "url"
        /\ p.textInUrl = "never" /\ p.floor = 1
    BY PageFacts
  <2>2. NotificationsFilters = [p EXCEPT !.search = "never", !.clearsSort = FALSE]
    BY DEF NotificationsFilters
  <2> HIDE DEF p
  <2> QED  BY <2>1, <2>2 DEF PageRecord, SoundFilters, NotificationsControls
<1> QED  BY <1>1, <1>2, <1>3, <1>4, <1>5, <1>6, <1>7, <1>8, <1>9 DEF Filters, Controls

-----------------------------------------------------------------------------
(* The operations on the rows.                                             *)

LEMMA KindsFacts ==
    /\ PackagesFilters.kinds = {"active", "suggested", "blocked", "removed"}
    /\ SuggestionsFilters.kinds = Ecosystems
    /\ AlertsFilters.kinds = {"new", "acknowledged", "resolved"}
    /\ UsersFilters.kinds = {"active", "inactive"}
    /\ QueueJobsFilters.kinds = {"pending", "processing", "dead"}
    /\ NotificationsFilters.kinds = {"unread", "read"}
<1>1. ASSUME NEW kinds, NEW plain, NEW facets
      PROVE  LET p == Page(kinds, plain, facets) IN
             /\ p.kinds = kinds
             /\ [p EXCEPT !.reads = "config", !.clearsSort = FALSE].kinds = kinds
             /\ [p EXCEPT !.reads = "none"].kinds = kinds
             /\ [p EXCEPT !.start = "pending", !.search = "never", !.clearsSort = FALSE, !.floor = 0].kinds = kinds
             /\ [p EXCEPT !.search = "never", !.clearsSort = FALSE].kinds = kinds
  <2> DEFINE p == Page(kinds, plain, facets)
  <2>1. p \in PageRecord(kinds, plain, facets)  BY PageFacts
  <2> HIDE DEF p
  <2>2. /\ p.kinds = kinds
        /\ [p EXCEPT !.reads = "config", !.clearsSort = FALSE].kinds = kinds
        /\ [p EXCEPT !.reads = "none"].kinds = kinds
        /\ [p EXCEPT !.start = "pending", !.search = "never", !.clearsSort = FALSE, !.floor = 0].kinds = kinds
        /\ [p EXCEPT !.search = "never", !.clearsSort = FALSE].kinds = kinds
    BY <2>1 DEF PageRecord
  <2> QED  BY <2>2 DEF p
<1>2. PackagesFilters.kinds = {"active", "suggested", "blocked", "removed"}  BY <1>1 DEF PackagesFilters
<1>3. SuggestionsFilters.kinds = Ecosystems  BY <1>1 DEF SuggestionsFilters
<1>4. AlertsFilters.kinds = {"new", "acknowledged", "resolved"}  BY <1>1 DEF AlertsFilters
<1>5. UsersFilters.kinds = {"active", "inactive"}  BY <1>1 DEF UsersFilters
<1>6. QueueJobsFilters.kinds = {"pending", "processing", "dead"}  BY <1>1 DEF QueueJobsFilters
<1>7. NotificationsFilters.kinds = {"unread", "read"}  BY <1>1 DEF NotificationsFilters
<1> QED  BY <1>2, <1>3, <1>4, <1>5, <1>6, <1>7

\* The operations that turn rows into rows of the kinds ks, or remove them.
OpOn(ks) == [role : DOMAIN Rank, offered : SUBSET ks, allowed : SUBSET ks, to : ks \cup {Gone},
             scope : {"row", "all", "ticked"}, asks : BOOLEAN]

OpTable(f, ks) == \A x \in DOMAIN f : f[x] \in OpOn(ks)

LEMMA OpFacts ==
    ASSUME NEW ks, NEW least \in DOMAIN Rank, NEW offered \in SUBSET ks, NEW allowed \in SUBSET ks,
           NEW to \in ks \cup {Gone}
    PROVE  /\ Op(least, offered, allowed, to) \in OpOn(ks)
           /\ \A s \in {"all", "ticked"} : [Op(least, offered, allowed, to) EXCEPT !.scope = s] \in OpOn(ks)
<1> DEFINE op == Op(least, offered, allowed, to)
<1>1. op \in OpOn(ks)  BY DEF Op, OpOn
<1> HIDE DEF op
<1>2. \A s \in {"all", "ticked"} : [op EXCEPT !.scope = s] \in OpOn(ks)  BY <1>1 DEF OpOn
<1> QED  BY <1>1, <1>2 DEF op

LEMMA AskingTable ==
    ASSUME NEW ks, NEW f, OpTable(f, ks), NEW names
    PROVE  OpTable(Asking(f, names), ks)
<1> SUFFICES ASSUME NEW x \in DOMAIN f PROVE [f[x] EXCEPT !.asks = x \in names] \in OpOn(ks)
  BY DEF OpTable, Asking
<1>1. f[x] \in OpOn(ks)  BY DEF OpTable
<1> DEFINE b == x \in names
<1>2. b \in BOOLEAN  OBVIOUS
<1> HIDE DEF b
<1>3. [f[x] EXCEPT !.asks = b] \in OpOn(ks)  BY <1>1, <1>2 DEF OpOn
<1> QED  BY <1>3 DEF b

LEMMA JoinTable ==
    ASSUME NEW ks, NEW f, NEW g, OpTable(f, ks), OpTable(g, ks)
    PROVE  OpTable(Join(f, g), ks)
BY DEF OpTable, Join

LEMMA EveryOp ==
    ASSUME NEW v \in DOMAIN Filters
    PROVE  OpTable(Ops[v], Filters[v].kinds)
<1> USE DEF Rank
<1>1. OpTable(Asking(PackagesRows, PackagesAsk), PackagesFilters.kinds)
  <2> DEFINE ks == {"active", "suggested", "blocked", "removed"}
             others == {"active", "suggested", "removed"}
  <2>1. /\ Op("member", others, {"active"}, "blocked") \in OpOn(ks)
        /\ Op("admin", others, {"active", "blocked"}, "removed") \in OpOn(ks)
        /\ Op("member", {"blocked"}, {"blocked"}, "active") \in OpOn(ks)
    BY OpFacts
  <2>2. OpTable(PackagesRows, ks)  BY <2>1 DEF PackagesRows, OpTable
  <2> QED  BY <2>2, AskingTable, KindsFacts
<1>2. OpTable(Asking(Join(SuggestionsRows, SuggestionsBulk), SuggestionsAsk), SuggestionsFilters.kinds)
  <2>1. {"npm"} \subseteq Ecosystems  BY DEF Ecosystems
  <2>2. Op("member", Ecosystems, Ecosystems, Gone) \in OpOn(Ecosystems)  BY OpFacts
  <2>3. /\ [Op("member", Ecosystems, {"npm"}, Gone) EXCEPT !.scope = "all"] \in OpOn(Ecosystems)
        /\ [Op("member", Ecosystems, Ecosystems, Gone) EXCEPT !.scope = "all"] \in OpOn(Ecosystems)
    BY <2>1, OpFacts
  <2>4. OpTable(SuggestionsRows, Ecosystems)  BY <2>2 DEF SuggestionsRows, OpTable
  <2>5. OpTable(SuggestionsBulk, Ecosystems)  BY <2>3 DEF SuggestionsBulk, OpTable
  <2> QED  BY <2>4, <2>5, AskingTable, JoinTable, KindsFacts
<1>3. OpTable(AlertsRows, AlertsFilters.kinds)
  <2> DEFINE ks == {"new", "acknowledged", "resolved"}
  <2>1. /\ Op("member", {"new"}, ks, "acknowledged") \in OpOn(ks)
        /\ Op("member", {"new", "acknowledged"}, ks, "resolved") \in OpOn(ks)
    BY OpFacts
  <2>2. OpTable(AlertsRows, ks)  BY <2>1 DEF AlertsRows, OpTable
  <2> QED  BY <2>2, KindsFacts
<1>4. OpTable(Asking(UsersRows, UsersAsk), UsersFilters.kinds)
  <2> DEFINE ks == {"active", "inactive"}
  <2>1. /\ Op("viewer", {"active"}, ks, "inactive") \in OpOn(ks)
        /\ Op("viewer", {"inactive"}, ks, "active") \in OpOn(ks)
    BY OpFacts
  <2>2. OpTable(UsersRows, ks)  BY <2>1 DEF UsersRows, OpTable
  <2> QED  BY <2>2, AskingTable, KindsFacts
<1>5. OpTable(QueueJobsRows, QueueJobsFilters.kinds)
  <2> DEFINE ks == {"pending", "processing", "dead"}
  <2>1. /\ Op("viewer", {"dead"}, {"dead"}, "pending") \in OpOn(ks)
        /\ [Op("viewer", {"dead"}, {"dead"}, "pending") EXCEPT !.scope = "all"] \in OpOn(ks)
    BY OpFacts
  <2>2. OpTable(QueueJobsRows, ks)  BY <2>1 DEF QueueJobsRows, OpTable
  <2> QED  BY <2>2, KindsFacts
<1>6. OpTable(Asking(Join(NotificationsRows, NotificationsBulk), NotificationsAsk), NotificationsFilters.kinds)
  <2> DEFINE ks == {"unread", "read"}
  <2>1. /\ Op("viewer", {"unread"}, ks, "read") \in OpOn(ks)
        /\ Op("viewer", {"read"}, ks, Gone) \in OpOn(ks)
    BY OpFacts
  <2>2. /\ [Op("viewer", ks, ks, "read") EXCEPT !.scope = "all"] \in OpOn(ks)
        /\ [Op("viewer", ks, ks, Gone) EXCEPT !.scope = "all"] \in OpOn(ks)
        /\ [Op("viewer", ks, ks, Gone) EXCEPT !.scope = "ticked"] \in OpOn(ks)
    BY OpFacts
  <2>3. OpTable(NotificationsRows, ks)  BY <2>1 DEF NotificationsRows, OpTable
  <2>4. OpTable(NotificationsBulk, ks)  BY <2>2 DEF NotificationsBulk, OpTable
  <2> QED  BY <2>3, <2>4, AskingTable, JoinTable, KindsFacts
<1>7. \A ks : OpTable(NoRows, ks)  BY DEF OpTable, NoRows
<1> HIDE DEF Rank
<1> QED  BY <1>1, <1>2, <1>3, <1>4, <1>5, <1>6, <1>7 DEF Filters, Ops

-----------------------------------------------------------------------------
(* The rows of a page.                                                     *)

\* The rows that come before r among rs, in the order s.
Before(s, r, rs) == {x \in rs : IF s = "desc" THEN x > r ELSE x < r}

\* No two rows have the same position, and there is a row at every position.
LEMMA Positions ==
    ASSUME NEW s, NEW rs \in SUBSET Nat, IsFiniteSet(rs)
    PROVE  /\ Cardinality(rs) \in Nat
           /\ \A r \in rs : Cardinality(Before(s, r, rs)) \in 0 .. Cardinality(rs) - 1
           /\ \A p \in 0 .. Cardinality(rs) - 1 : \E r \in rs : Cardinality(Before(s, r, rs)) = p
<1> DEFINE n == Cardinality(rs)
           f == [r \in rs |-> Cardinality(Before(s, r, rs))]
<1>1. n \in Nat  BY FS_CardinalityType
<1>2. \A r \in rs : /\ Before(s, r, rs) \in SUBSET rs /\ r \notin Before(s, r, rs)
                    /\ IsFiniteSet(Before(s, r, rs)) /\ Cardinality(Before(s, r, rs)) \in Nat
  <2>1. \A r \in rs : Before(s, r, rs) \in SUBSET rs /\ r \notin Before(s, r, rs)  BY DEF Before
  <2> QED  BY <2>1, FS_Subset, FS_CardinalityType
<1>3. \A r \in rs : Cardinality(Before(s, r, rs)) \in 0 .. n - 1
  <2> TAKE r \in rs
  <2>1. Cardinality(Before(s, r, rs)) <= n /\ Cardinality(Before(s, r, rs)) # n
    BY <1>2, FS_Subset
  <2> QED  BY <1>1, <1>2, <2>1
<1>4. \A r, x \in rs : x \in Before(s, r, rs) => Cardinality(Before(s, x, rs)) < Cardinality(Before(s, r, rs))
  <2> SUFFICES ASSUME NEW r \in rs, NEW x \in rs, x \in Before(s, r, rs)
               PROVE  Cardinality(Before(s, x, rs)) < Cardinality(Before(s, r, rs))
    OBVIOUS
  <2>1. ASSUME NEW y \in Before(s, x, rs) PROVE y \in Before(s, r, rs)
    <3>1. r \in Nat /\ x \in Nat /\ y \in Nat /\ y \in rs  BY DEF Before
    <3>2. CASE s = "desc"  BY <3>1, <3>2 DEF Before
    <3>3. CASE s # "desc"  BY <3>1, <3>3 DEF Before
    <3> QED  BY <3>2, <3>3
  <2>2. /\ Cardinality(Before(s, x, rs)) <= Cardinality(Before(s, r, rs))
        /\ Cardinality(Before(s, x, rs)) # Cardinality(Before(s, r, rs))
    BY <1>2, <2>1, FS_Subset
  <2> QED  BY <1>2, <2>2
<1>5. \A r, x \in rs : r # x => Cardinality(Before(s, x, rs)) # Cardinality(Before(s, r, rs))
  <2>1. \A r, x \in rs : r # x => x \in Before(s, r, rs) \/ r \in Before(s, x, rs)  BY DEF Before
  <2> QED  BY <1>2, <1>4, <2>1
<1>6. f \in Injection(rs, 0 .. n - 1)
  BY <1>3, <1>5 DEF Injection, IsInjective
<1>7. IsFiniteSet(0 .. n - 1) /\ Cardinality(0 .. n - 1) = n
  <2>1. IsFiniteSet(0 .. n - 1) /\ Cardinality(0 .. n - 1) = IF 0 > n - 1 THEN 0 ELSE (n - 1) - 0 + 1
    <3>1. 0 \in Int /\ n - 1 \in Int  BY <1>1
    <3> HIDE DEF n
    <3> QED  BY <3>1, FS_Interval
  <2> QED  BY <1>1, <2>1
<1>8. f \in Surjection(rs, 0 .. n - 1)
  BY <1>6, <1>7, FS_Injection
<1>9. \A p \in 0 .. n - 1 : \E r \in rs : f[r] = p
  BY <1>8 DEF Surjection
<1> QED  BY <1>1, <1>3, <1>9

LEMMA Quotients ==
    ASSUME NEW x \in Nat, NEW d \in Nat \ {0}
    PROVE  /\ x \div d \in Nat
           /\ d * (x \div d) <= x /\ x < d * (x \div d) + d
           /\ (d * x) \div d = x
OBVIOUS

\* A page of rows is empty exactly if there are no more rows than fit on those before.
LEMMA PageFilled ==
    ASSUME NEW s, NEW rs \in SUBSET Nat, IsFiniteSet(rs), NEW p \in Nat
    PROVE  (\E r \in rs : Cardinality(Before(s, r, rs)) \div PageSize = p) <=> PageSize * p < Cardinality(rs)
<1>1. Cardinality(rs) \in Nat /\ PageSize \in Nat \ {0}  BY Positions, BoundAssumption
<1>2. ASSUME NEW r \in rs, Cardinality(Before(s, r, rs)) \div PageSize = p
      PROVE  PageSize * p < Cardinality(rs)
  <2>1. Cardinality(Before(s, r, rs)) \in 0 .. Cardinality(rs) - 1  BY Positions
  <2> DEFINE c == Cardinality(Before(s, r, rs))
  <2>2. c \in Nat /\ c < Cardinality(rs)  BY <1>1, <2>1
  <2> HIDE DEF c
  <2>3. PageSize * (c \div PageSize) <= c  BY <1>1, <2>2, Quotients
  <2> QED  BY <1>1, <1>2, <2>2, <2>3 DEF c
<1>3. ASSUME PageSize * p < Cardinality(rs)
      PROVE  \E r \in rs : Cardinality(Before(s, r, rs)) \div PageSize = p
  <2>1. PageSize * p \in 0 .. Cardinality(rs) - 1  BY <1>1, <1>3
  <2>2. PICK r \in rs : Cardinality(Before(s, r, rs)) = PageSize * p  BY <2>1, Positions
  <2>3. (PageSize * p) \div PageSize = p  BY <1>1, Quotients
  <2> QED  BY <2>2, <2>3
<1> QED  BY <1>2, <1>3

-----------------------------------------------------------------------------
(* Types, with what the steps need of them: a dialog asks about an         *)
(* operation of the page, and a page without a search field has no text.   *)

Address == [facet : F.facets, text : BOOLEAN, sort : {"none", "asc", "desc"}]
Kinds   == F.kinds \cup {Gone}

ViewTypes == view \in DOMAIN Filters /\ role \in DOMAIN Rank /\ config \in BOOLEAN

RowTypes ==
    /\ status \in [Row -> Kinds] /\ seen \in [Row -> Kinds]
    /\ load \in {"first", "again", "idle", "failed"}

FilterTypes ==
    /\ facet \in F.facets /\ text \in BOOLEAN /\ settled \in BOOLEAN
    /\ page \in 0 .. Cardinality(Row)
    /\ url \in Address /\ past \in Seq(Address)
    /\ origin \in {"mount", "page", "back"}

TickTypes ==
    /\ ticked \in SUBSET Row
    /\ dialog = NoDialog \/ (dialog.op \in DOMAIN Ops[view] /\ dialog.row \in Row \cup {0})

NoSearchText == "search" \notin Controls[view] => ~text /\ ~settled

ListInv == ViewTypes /\ RowTypes /\ FilterTypes /\ TickTypes /\ NoSearchText

LEMMA SameView ==
    ASSUME view' = view
    PROVE  F' = F /\ Kinds' = Kinds /\ Address' = Address
BY DEF F, Kinds, Address

LEMMA ThisView ==
    ASSUME ViewTypes
    PROVE  SoundFilters(F, Controls[view]) /\ OpTable(Ops[view], F.kinds)
BY EveryFilters, EveryOp DEF ViewTypes, F

LEMMA FiniteRows == Cardinality(Row) \in Nat /\ Row \in SUBSET Nat /\ IsFiniteSet(Row)
BY RowAssumption, FS_CardinalityType

LEMMA ReadFacts ==
    ASSUME ViewTypes, config \in BOOLEAN, NEW u \in Address
    PROVE  ReadFacet(u) \subseteq F.facets /\ ReadText(u) \in BOOLEAN
           /\ ("search" \notin Controls[view] => ~ReadText(u))
<1>1. SoundFilters(F, Controls[view])  BY ThisView
<1>2. u.facet \in F.facets  BY DEF Address
<1>3. ReadFacet(u) \subseteq F.facets
  BY <1>1, <1>2 DEF SoundFilters, ReadFacet, ReadDay
<1> QED  BY <1>1, <1>3 DEF ReadText, SoundFilters

LEMMA ListInit == Init => ListInv
<1> SUFFICES ASSUME Init PROVE ListInv  OBVIOUS
<1>1. ViewTypes
  BY ViewAssumption DEF Init, ViewTypes
<1>2. SoundFilters(F, Controls[view])  BY <1>1, ThisView
<1>3. RowTypes
  <2>1. PICK a \in F.plain, b \in F.plain : status = [r \in Row |-> IF r \in Found THEN a ELSE b]
    BY DEF Init
  <2>2. a \in Kinds /\ b \in Kinds /\ Gone \in Kinds  BY <1>2 DEF SoundFilters, Kinds
  <2> QED  BY <2>1, <2>2 DEF Init, RowTypes
<1>4. PICK u \in [facet : F.facets, text : BOOLEAN, sort : {"none"}] :
         url = u /\ facet \in ReadFacet(u) /\ text = ReadText(u) /\ settled = ReadText(u)
  BY DEF Init
<1>5. u \in Address  BY DEF Address
<1>6. /\ facet \in F.facets /\ text \in BOOLEAN /\ settled \in BOOLEAN
      /\ "search" \notin Controls[view] => ~text /\ ~settled
  BY <1>1, <1>4, <1>5, ReadFacts DEF ViewTypes
<1>7. FilterTypes
  BY <1>4, <1>5, <1>6, FiniteRows DEF Init, FilterTypes
<1>8. TickTypes  BY DEF Init, TickTypes
<1> QED  BY <1>1, <1>3, <1>6, <1>7, <1>8 DEF ListInv, NoSearchText

-----------------------------------------------------------------------------
(* The filters keep the types.                                             *)

\* A step that changes what is asked for, and nothing else.
LEMMA FilterStep ==
    ASSUME ListInv, UNCHANGED <<view, role, config, status, seen, ticked, dialog>>,
           load' \in {"first", "again", "idle", "failed"},
           facet' \in F.facets, text' \in BOOLEAN, settled' \in BOOLEAN, page' \in 0 .. Cardinality(Row),
           url' \in Address, past' \in Seq(Address), origin' \in {"mount", "page", "back"},
           "search" \notin Controls[view] => ~text' /\ ~settled'
    PROVE  ListInv'
<1> USE DEF ListInv
<1>1. ViewTypes'  BY DEF ViewTypes
<1>2. RowTypes'  BY SameView DEF RowTypes
<1>3. FilterTypes'  BY SameView DEF FilterTypes
<1>4. TickTypes'
  <2>1. NoDialog' = NoDialog  BY DEF NoDialog
  <2> QED  BY <2>1 DEF TickTypes
<1>5. NoSearchText'  BY DEF NoSearchText
<1> QED  BY <1>1, <1>2, <1>3, <1>4, <1>5

LEMMA UrlTextType == ASSUME ListInv PROVE UrlText \in BOOLEAN
BY DEF ListInv, FilterTypes, UrlText

LEMMA WriteFacts ==
    ASSUME ListInv, NEW f \in F.facets, NEW t \in BOOLEAN, WriteUrl(f, t)
    PROVE  url' \in Address /\ origin' \in {"mount", "page", "back"}
<1>1. CASE view = "workspaces"  BY <1>1 DEF WriteUrl, ListInv, FilterTypes
<1>2. CASE view # "workspaces"
  <2>1. url' = [facet |-> f, text |-> t, sort |-> "none"] /\ origin' = "page"  BY <1>2 DEF WriteUrl
  <2>2. [facet |-> f, text |-> t, sort |-> "none"] \in Address  BY DEF Address
  <2> QED  BY <2>1, <2>2
<1> QED  BY <1>1, <1>2

\* An act of the user that leaves the rows and the dialog alone.
LEMMA BrowseFacts ==
    ASSUME Browse
    PROVE  UNCHANGED <<view, role, config, status, dialog>>
BY DEF Browse, Edit, server

LEMMA ReloadFacts ==
    ASSUME ListInv, Reload
    PROVE  load' \in {"first", "again", "idle", "failed"} /\ seen' = seen
BY DEF ListInv, RowTypes, Reload

LEMMA SetFacetKeeps ==
    ASSUME ListInv, NEW f \in F.facets, SetFacet(f) PROVE ListInv'
<1>1. /\ UNCHANGED <<view, role, config, status, dialog, text, settled, past, ticked>>
      /\ facet' = f /\ page' = 0 /\ WriteUrl(f, UrlText) /\ Reload
  BY BrowseFacts DEF SetFacet
<1>2. url' \in Address /\ origin' \in {"mount", "page", "back"}  BY <1>1, UrlTextType, WriteFacts
<1>3. load' \in {"first", "again", "idle", "failed"} /\ seen' = seen  BY <1>1, ReloadFacts
<1>4. page' \in 0 .. Cardinality(Row)  BY <1>1, FiniteRows
<1>5. /\ facet' \in F.facets /\ text' \in BOOLEAN /\ settled' \in BOOLEAN /\ past' \in Seq(Address)
      /\ "search" \notin Controls[view] => ~text' /\ ~settled'
  BY <1>1 DEF ListInv, FilterTypes, NoSearchText
<1> QED  BY <1>1, <1>2, <1>3, <1>4, <1>5, FilterStep

LEMMA TypeKeeps ==
    ASSUME ListInv, NEW t \in BOOLEAN, Type(t) PROVE ListInv'
<1>1. /\ UNCHANGED <<view, role, config, status, dialog, facet, settled, past, seen, ticked>>
      /\ "search" \in Controls[view] /\ text' = t
      /\ WriteUrl(facet, t) \/ UNCHANGED <<url, origin>>
      /\ page' \in {0, page} /\ load' \in {"first", load}
  BY BrowseFacts DEF Type
<1>2. url' \in Address /\ origin' \in {"mount", "page", "back"}
  <2>1. CASE WriteUrl(facet, t)  BY <2>1, WriteFacts DEF ListInv, FilterTypes
  <2>2. CASE UNCHANGED <<url, origin>>  BY <2>2 DEF ListInv, FilterTypes
  <2> QED  BY <1>1, <2>1, <2>2
<1>3. load' \in {"first", "again", "idle", "failed"}  BY <1>1 DEF ListInv, RowTypes
<1>4. page' \in 0 .. Cardinality(Row)  BY <1>1, FiniteRows DEF ListInv, FilterTypes
<1>5. facet' \in F.facets /\ text' \in BOOLEAN /\ settled' \in BOOLEAN /\ past' \in Seq(Address)
  BY <1>1 DEF ListInv, FilterTypes
<1> QED  BY <1>1, <1>2, <1>3, <1>4, <1>5, FilterStep

LEMMA SettleKeeps ==
    ASSUME ListInv, Settle PROVE ListInv'
<1>1. /\ UNCHANGED <<view, role, config, status, dialog, facet, text, past, ticked>>
      /\ settled' = text /\ page' \in {0, page}
      /\ WriteUrl(facet, text) \/ UNCHANGED <<url, origin>>
      /\ Reload
  BY DEF Settle, server
<1>2. facet \in F.facets /\ text \in BOOLEAN  BY DEF ListInv, FilterTypes
<1>3. url' \in Address /\ origin' \in {"mount", "page", "back"}
  <2>1. CASE WriteUrl(facet, text)  BY <1>2, <2>1, WriteFacts
  <2>2. CASE UNCHANGED <<url, origin>>  BY <2>2 DEF ListInv, FilterTypes
  <2> QED  BY <1>1, <2>1, <2>2
<1>4. load' \in {"first", "again", "idle", "failed"} /\ seen' = seen  BY <1>1, ReloadFacts
<1>5. page' \in 0 .. Cardinality(Row)  BY <1>1, FiniteRows DEF ListInv, FilterTypes
<1>6. past' \in Seq(Address) /\ ("search" \notin Controls[view] => ~text' /\ ~settled')
  BY <1>1 DEF ListInv, FilterTypes, NoSearchText
<1> QED  BY <1>1, <1>2, <1>3, <1>4, <1>5, <1>6, FilterStep

LEMMA SetSortKeeps ==
    ASSUME ListInv, NEW s \in {"none", "asc", "desc"}, SetSort(s) PROVE ListInv'
<1>1. /\ UNCHANGED <<view, role, config, status, dialog, facet, text, settled, origin, ticked>>
      /\ url' = [url EXCEPT !.sort = s] /\ past' = Append(past, url) /\ page' = 0 /\ Reload
  BY BrowseFacts DEF SetSort
<1>2. url' \in Address  BY <1>1 DEF ListInv, FilterTypes, Address
<1>3. past' \in Seq(Address)  BY <1>1, AppendProperties DEF ListInv, FilterTypes
<1>4. load' \in {"first", "again", "idle", "failed"} /\ seen' = seen  BY <1>1, ReloadFacts
<1>5. page' \in 0 .. Cardinality(Row)  BY <1>1, FiniteRows
<1>6. /\ facet' \in F.facets /\ text' \in BOOLEAN /\ settled' \in BOOLEAN /\ origin' \in {"mount", "page", "back"}
      /\ "search" \notin Controls[view] => ~text' /\ ~settled'
  BY <1>1 DEF ListInv, FilterTypes, NoSearchText
<1> QED  BY <1>1, <1>2, <1>3, <1>4, <1>5, <1>6, FilterStep

LEMMA ClearAllKeeps ==
    ASSUME ListInv, ClearAll PROVE ListInv'
<1> DEFINE written == IF F.textInUrl = "settled" THEN settled ELSE FALSE
<1>1. /\ UNCHANGED <<view, role, config, status, dialog, settled, seen, ticked>>
      /\ facet' = F.start /\ text' = FALSE
      /\ past' \in {past, Append(past, url)}
      /\ \/ WriteUrl(F.start, written)
         \/ url' \in {url, [url EXCEPT !.sort = "none"]} /\ UNCHANGED origin
      /\ page' \in {0, page} /\ load' \in {"first", load}
  BY BrowseFacts DEF ClearAll
<1>2. F.start \in F.facets  BY ThisView DEF ListInv, SoundFilters
<1>3. written \in BOOLEAN  BY DEF ListInv, FilterTypes
<1> HIDE DEF written
<1>4. url' \in Address /\ origin' \in {"mount", "page", "back"}
  <2>1. CASE WriteUrl(F.start, written)  BY <1>2, <1>3, <2>1, WriteFacts
  <2>2. CASE url' \in {url, [url EXCEPT !.sort = "none"]} /\ UNCHANGED origin
    BY <2>2 DEF ListInv, FilterTypes, Address
  <2> QED  BY <1>1, <2>1, <2>2
<1>5. past' \in Seq(Address)  BY <1>1, AppendProperties DEF ListInv, FilterTypes
<1>6. load' \in {"first", "again", "idle", "failed"}  BY <1>1 DEF ListInv, RowTypes
<1>7. page' \in 0 .. Cardinality(Row)  BY <1>1, FiniteRows DEF ListInv, FilterTypes
<1>8. /\ text' \in BOOLEAN /\ settled' \in BOOLEAN
      /\ "search" \notin Controls[view] => ~text' /\ ~settled'
  BY <1>1 DEF ListInv, FilterTypes, NoSearchText
<1> QED  BY <1>1, <1>2, <1>4, <1>5, <1>6, <1>7, <1>8, FilterStep

LEMMA BackKeeps ==
    ASSUME ListInv, Back PROVE ListInv'
<1>1. /\ UNCHANGED <<view, role, config, status, dialog, facet, text, settled, ticked>>
      /\ past # <<>> /\ url' = past[Len(past)] /\ past' = SubSeq(past, 1, Len(past) - 1)
      /\ origin' = "back"
      /\ (page' = 0 /\ Reload) \/ UNCHANGED <<page, load, seen>>
  BY BrowseFacts DEF Back, data
<1>2. past \in Seq(Address)  BY DEF ListInv, FilterTypes
<1>3. Len(past) \in Nat \ {0}  BY <1>1, <1>2
<1>4. url' \in Address  BY <1>1, <1>2, <1>3, ElementOfSeq
<1>5. past' \in Seq(Address)
  <2>1. \A i \in 1 .. Len(past) - 1 : past[i] \in Address  BY <1>2, <1>3, ElementOfSeq
  <2>2. 1 \in Int /\ Len(past) - 1 \in Int  BY <1>3
  <2> QED  BY <1>1, <2>1, <2>2, SubSeqProperties
<1>6. load' \in {"first", "again", "idle", "failed"} /\ seen' = seen
  BY <1>1, ReloadFacts DEF ListInv, RowTypes
<1>7. page' \in 0 .. Cardinality(Row)  BY <1>1, FiniteRows DEF ListInv, FilterTypes
<1>8. /\ facet' \in F.facets /\ text' \in BOOLEAN /\ settled' \in BOOLEAN
      /\ "search" \notin Controls[view] => ~text' /\ ~settled'
  BY <1>1 DEF ListInv, FilterTypes, NoSearchText
<1> QED  BY <1>1, <1>4, <1>5, <1>6, <1>7, <1>8, FilterStep

-----------------------------------------------------------------------------
(* Turning pages, answers and operations keep the types.                   *)

LEMMA Listing ==
    ASSUME NEW rs \in SUBSET Row
    PROVE  rs \in SUBSET Nat /\ IsFiniteSet(rs) /\ Cardinality(rs) \in Nat /\ Cardinality(rs) <= Cardinality(Row)
BY FiniteRows, FS_Subset, FS_CardinalityType

LEMMA ListedRows == Matching(seen) \in SUBSET Row /\ Listed \in SUBSET Row
BY DEF Matching, Listed

\* The page after the last one is never offered.
LEMMA NextIsFilled ==
    ASSUME ListInv, HasPageControls, page < PageCount - 1
    PROVE  /\ Loaded /\ PageSize * (page + 1) < Cardinality(Listed)
           /\ page + 1 \in 0 .. Cardinality(Row)
<1> DEFINE n == Cardinality(Listed)
           c == (n + PageSize - 1) \div PageSize
<1>1. /\ n \in Nat /\ n <= Cardinality(Row) /\ Cardinality(Row) \in Nat
      /\ PageSize \in Nat \ {0} /\ page \in Nat /\ F.floor \in {0, 1}
  BY ListedRows, Listing, FiniteRows, BoundAssumption, ThisView DEF ListInv, FilterTypes, SoundFilters
<1>2. n > PageSize  BY DEF HasPageControls
<1>3. PageCount = IF c < F.floor THEN F.floor ELSE c  BY DEF PageCount
<1> HIDE DEF n
<1>4. n + PageSize - 1 \in Nat  BY <1>1
<1>5. c \in Nat /\ PageSize * c <= n + PageSize - 1 /\ n + PageSize - 1 < PageSize * c + PageSize
  BY <1>1, <1>4, Quotients
<1> HIDE DEF c
<1>6. page + 1 <= c - 1
  <2>1. c # 0  BY <1>1, <1>2, <1>5
  <2> QED  BY <1>1, <1>3, <1>5, <2>1
<1>7. PageSize * (page + 1) <= PageSize * (c - 1) /\ PageSize * (c - 1) = PageSize * c - PageSize
  BY <1>1, <1>5, <1>6
<1>8. PageSize * (page + 1) < n  BY <1>1, <1>5, <1>7
<1>9. page + 1 <= PageSize * (page + 1)  BY <1>1
<1>10. Loaded
  <2>1. Cardinality({}) = 0  BY FS_EmptySet
  <2> QED  BY <1>1, <1>2, <2>1 DEF Listed, n
<1> QED  BY <1>1, <1>8, <1>9, <1>10 DEF n

LEMMA TurnFacts ==
    ASSUME ListInv, NextPage \/ PreviousPage
    PROVE  /\ UNCHANGED <<view, role, config, status, dialog, facet, text, settled, url, past, origin, ticked, seen>>
           /\ load' \in {"first", "again", "idle", "failed"}
           /\ HasPageControls /\ page' \in 0 .. Cardinality(Row)
           /\ \/ page < PageCount - 1 /\ page' = page + 1
              \/ page > 0 /\ page' = page - 1
<1>1. /\ UNCHANGED <<view, role, config, status, dialog, facet, text, settled, url, past, origin, ticked>>
      /\ Reload /\ HasPageControls
      /\ \/ page < PageCount - 1 /\ page' = page + 1
         \/ page > 0 /\ page' = page - 1
  BY BrowseFacts DEF NextPage, PreviousPage
<1>2. page' \in 0 .. Cardinality(Row)
  <2>1. CASE page < PageCount - 1 /\ page' = page + 1  BY <1>1, <2>1, NextIsFilled
  <2>2. CASE page > 0 /\ page' = page - 1  BY <2>2, FiniteRows DEF ListInv, FilterTypes
  <2> QED  BY <1>1, <2>1, <2>2
<1> QED  BY <1>1, <1>2, ReloadFacts

LEMMA TurnKeeps ==
    ASSUME ListInv, NextPage \/ PreviousPage PROVE ListInv'
<1>1. /\ facet' \in F.facets /\ text' \in BOOLEAN /\ settled' \in BOOLEAN
      /\ url' \in Address /\ past' \in Seq(Address) /\ origin' \in {"mount", "page", "back"}
      /\ "search" \notin Controls[view] => ~text' /\ ~settled'
  BY TurnFacts DEF ListInv, FilterTypes, NoSearchText
<1> QED  BY <1>1, TurnFacts, FilterStep

LEMMA RevisitKeeps ==
    ASSUME ListInv, Revisit PROVE ListInv'
<1> USE DEF ListInv
<1>1. /\ UNCHANGED <<view, role, config, status, past, seen>>
      /\ facet' \in ReadFacet(url) /\ text' = ReadText(url) /\ settled' = ReadText(url)
      /\ page' = 0 /\ url' = url /\ origin' = "mount" /\ load' = "first" /\ ticked' = {} /\ dialog' = NoDialog
  BY DEF Revisit, Edit, Open, server
<1>2. /\ facet' \in F.facets /\ text' \in BOOLEAN /\ settled' \in BOOLEAN
      /\ "search" \notin Controls[view] => ~text' /\ ~settled'
  BY <1>1, ReadFacts DEF ViewTypes, FilterTypes
<1>3. ViewTypes'  BY <1>1 DEF ViewTypes
<1>4. RowTypes'  BY <1>1, SameView DEF RowTypes
<1>5. FilterTypes'  BY <1>1, <1>2, SameView, FiniteRows DEF FilterTypes
<1>6. TickTypes'  BY <1>1 DEF TickTypes, NoDialog
<1>7. NoSearchText'  BY <1>1, <1>2 DEF NoSearchText
<1> QED  BY <1>3, <1>4, <1>5, <1>6, <1>7

\* A step that leaves what is asked for alone.
LEMMA RowStep ==
    ASSUME ListInv, UNCHANGED <<view, role, facet, text, settled, page, url, past, origin>>,
           config' \in BOOLEAN, status' \in [Row -> Kinds], seen' \in [Row -> Kinds],
           load' \in {"first", "again", "idle", "failed"}, ticked' \in SUBSET Row,
           \/ dialog' \in {dialog, NoDialog}
           \/ dialog'.op \in DOMAIN Ops[view] /\ dialog'.row \in Row \cup {0}
    PROVE  ListInv'
<1> USE DEF ListInv
<1>1. ViewTypes'  BY DEF ViewTypes
<1>2. RowTypes'  BY SameView DEF RowTypes
<1>3. FilterTypes'  BY SameView DEF FilterTypes
<1>4. TickTypes'  BY DEF TickTypes, NoDialog
<1>5. NoSearchText'  BY DEF NoSearchText
<1> QED  BY <1>1, <1>2, <1>3, <1>4, <1>5

\* What the server does with an operation of the page.
LEMMA PerformFacts ==
    ASSUME ListInv, NEW name \in DOMAIN Ops[view], NEW r, Perform(Ops[view][name], r)
    PROVE  /\ UNCHANGED <<facet, text, settled, page, url, past, origin, seen>>
           /\ status' \in [Row -> Kinds] /\ load' \in {"first", "again", "idle", "failed"}
           /\ ticked' \in SUBSET Row
<1> DEFINE op == Ops[view][name]
<1>1. op.to \in Kinds
  <2>1. op \in OpOn(F.kinds)  BY ThisView DEF ListInv, OpTable
  <2> QED  BY <2>1 DEF OpOn, Kinds
<1> HIDE DEF op
<1>2. Perform(op, r)  BY DEF op
<1>3. \A x \in Row : status[x] \in Kinds  BY DEF ListInv, RowTypes
<1>4. status' \in [Row -> Kinds]  BY <1>1, <1>2, <1>3 DEF Perform
<1>5. load' \in {"first", "again", "idle", "failed"} /\ ticked' \in SUBSET Row
  BY <1>2 DEF Perform, ListInv, TickTypes
<1> QED  BY <1>2, <1>4, <1>5 DEF Perform, filter

LEMMA PressKeeps ==
    ASSUME ListInv, NEW name \in DOMAIN Ops[view], NEW r \in Row \cup {0}, Press(name, r) PROVE ListInv'
<1>1. UNCHANGED <<view, role, config, dialog>> /\ Perform(Ops[view][name], r)  BY DEF Press, Edit
<1>2. seen \in [Row -> Kinds] /\ config \in BOOLEAN  BY DEF ListInv, RowTypes, ViewTypes
<1> QED  BY <1>1, <1>2, PerformFacts, RowStep

LEMMA AskKeeps ==
    ASSUME ListInv, NEW name \in DOMAIN Ops[view], NEW r \in Row \cup {0}, Ask(name, r) PROVE ListInv'
<1>1. /\ UNCHANGED <<view, role, config, status, facet, text, settled, page, url, past, origin, load, seen, ticked>>
      /\ dialog' = [op |-> name, row |-> r]
  BY DEF Ask, Edit, server, filter, data
<1> QED  BY <1>1, RowStep DEF ListInv, RowTypes, ViewTypes, TickTypes

LEMMA ConfirmKeeps ==
    ASSUME ListInv, Confirm PROVE ListInv'
<1>1. /\ UNCHANGED <<view, role, config>> /\ dialog' = NoDialog /\ dialog # NoDialog
      /\ Perform(Ops[view][dialog.op], dialog.row)
  BY DEF Confirm
<1>2. dialog.op \in DOMAIN Ops[view]  BY <1>1 DEF ListInv, TickTypes
<1>3. seen \in [Row -> Kinds] /\ config \in BOOLEAN  BY DEF ListInv, RowTypes, ViewTypes
<1> QED  BY <1>1, <1>2, <1>3, PerformFacts, RowStep

\* The other steps that leave what is asked for alone.
LEMMA RestKeeps ==
    ASSUME ListInv,
           \/ ConfigLoads \/ Answer \/ Refetch \/ Cancel \/ (\E r \in Row : Tick(r)) \/ TickPage
           \/ \E r \in Row : \E k \in Kinds : Elsewhere(r, k)
    PROVE  ListInv'
<1> USE DEF ListInv, RowTypes, ViewTypes, TickTypes
<1>1. Shown \in SUBSET Row  BY ListedRows DEF Shown, PageOf
<1>2. CASE ConfigLoads  BY <1>2, RowStep DEF ConfigLoads, server, filter, data
<1>3. CASE Answer  BY <1>3, RowStep DEF Answer, server, filter
<1>4. CASE Refetch  BY <1>4, BrowseFacts, RowStep DEF Refetch, filter
<1>5. CASE Cancel  BY <1>5, RowStep DEF Cancel, server, filter, data
<1>6. ASSUME NEW r \in Row, Tick(r) PROVE ListInv'
  <2>1. ticked' \in SUBSET Row  BY <1>6 DEF Tick
  <2> QED  BY <1>6, <2>1, BrowseFacts, RowStep DEF Tick, filter, data
<1>7. CASE TickPage
  <2>1. ticked' \in SUBSET Row  BY <1>1, <1>7 DEF TickPage
  <2> QED  BY <1>7, <2>1, BrowseFacts, RowStep DEF TickPage, filter, data
<1>8. ASSUME NEW r \in Row, NEW k \in Kinds, Elsewhere(r, k) PROVE ListInv'
  <2>1. status' \in [Row -> Kinds]  BY <1>8 DEF Elsewhere
  <2> QED  BY <1>8, <2>1, RowStep DEF Elsewhere, filter, data
<1> QED  BY <1>2, <1>3, <1>4, <1>5, <1>6, <1>7, <1>8

-----------------------------------------------------------------------------
(* The invariant holds.                                                    *)

LEMMA ListNext == ListInv /\ [Next]_vars => ListInv'
<1> SUFFICES ASSUME ListInv, [Next]_vars PROVE ListInv'  OBVIOUS
<1>1. CASE Filtering
  BY <1>1, SetFacetKeeps, TypeKeeps, SettleKeeps, SetSortKeeps, ClearAllKeeps, BackKeeps, TurnKeeps DEF Filtering
<1>2. CASE Operating
  BY <1>2, PressKeeps, AskKeeps, ConfirmKeeps, RestKeeps DEF Operating
<1>3. CASE UNCHANGED vars
  BY <1>3, RowStep DEF vars, server, filter, data, ListInv, RowTypes, ViewTypes, TickTypes
<1>4. CASE ConfigLoads \/ Answer \/ Refetch \/ \E r \in Row : \E k \in F.kinds \cup {Gone} : Elsewhere(r, k)
  BY <1>4, RestKeeps DEF Kinds
<1> QED  BY <1>1, <1>2, <1>3, <1>4, RevisitKeeps DEF Next

LEMMA ListAlways == Spec => []ListInv
<1>1. QED  BY ListInit, ListNext, PTL DEF Spec

\* Types: whatever is typed, cleared, sorted, turned, ticked and asked on a
\* page, its filter stays one the page offers (the selects of the list views),
\* its index a page there may be, and a dialog asks about an operation of the
\* page and a row of the workspace.
THEOREM ListTypeCorrect == Spec => []TypeOK
<1>1. ListInv => TypeOK
  <2> SUFFICES ASSUME ListInv PROVE TypeOK  OBVIOUS
  <2> USE DEF ListInv
  <2>1. \A i \in 1 .. Len(past) : past[i].facet \in F.facets
    <3>1. past \in Seq(Address)  BY DEF FilterTypes
    <3>2. \A i \in 1 .. Len(past) : past[i] \in Address  BY <3>1, ElementOfSeq
    <3> QED  BY <3>2 DEF Address
  <2>2. dialog.op \in {"none"} \cup DOMAIN Ops[view] /\ dialog.row \in Row \cup {0}
    BY DEF TickTypes, NoDialog
  <2> QED  BY <2>1, <2>2 DEF TypeOK, ViewTypes, RowTypes, FilterTypes, TickTypes, Kinds, Address
<1> QED  BY <1>1, ListAlways, PTL

-----------------------------------------------------------------------------
(* The address.                                                            *)

\* The list of workspaces has no filter, and keeps its text out of the address.
LEMMA WorkspacesUrl ==
    ASSUME view = "workspaces"
    PROVE  "facet" \notin Controls[view] /\ "clear" \notin Controls[view] /\ F.textInUrl = "never"
<1>1. Controls[view] = WorkspacesControls /\ F = WorkspacesFilters  BY DEF Controls, F, Filters
<1>2. WorkspacesFilters.textInUrl = "never"
  <2> DEFINE p == Page({"member"}, {"member"}, {All})
  <2>1. p \in PageRecord({"member"}, {"member"}, {All}) /\ p.textInUrl = "never"  BY PageFacts
  <2>2. WorkspacesFilters = [p EXCEPT !.search = "typed", !.clearsSort = FALSE, !.floor = 0]
    BY DEF WorkspacesFilters
  <2> HIDE DEF p
  <2> QED  BY <2>1, <2>2 DEF PageRecord
<1> QED  BY <1>1, <1>2 DEF WorkspacesControls

\* What is written to the address names the filters it is written for.
LEMMA WrittenUrl ==
    ASSUME NEW f, NEW t, WriteUrl(f, t), view # "workspaces"
    PROVE  url'.facet = f /\ url'.text = t
BY DEF WriteUrl

\* A step that touches neither the filters nor the address.
LEMMA SameUrl ==
    ASSUME UrlShowsFilters, UNCHANGED <<view, facet, text, settled, url, origin>>
    PROVE  UrlShowsFilters'
BY DEF UrlShowsFilters, UrlText, F

LEMMA UrlStep == ListInv /\ UrlShowsFilters /\ [Next]_vars => UrlShowsFilters'
<1> SUFFICES ASSUME ListInv, UrlShowsFilters, [Next]_vars PROVE UrlShowsFilters'  OBVIOUS
<1> USE DEF UrlShowsFilters
<1>1. /\ F.textInUrl \in {"never", "typed", "settled"}
      /\ url \in Address /\ text \in BOOLEAN /\ settled \in BOOLEAN
  BY ThisView DEF ListInv, FilterTypes, SoundFilters
<1>2. ASSUME NEW f \in F.facets, SetFacet(f) PROVE UrlShowsFilters'
  <2>1. /\ UNCHANGED <<view, text, settled>> /\ facet' = f /\ WriteUrl(f, UrlText)
        /\ view # "workspaces"
    BY <1>2, BrowseFacts, WorkspacesUrl DEF SetFacet
  <2>2. UrlText' = UrlText  BY <2>1 DEF UrlText, F
  <2> QED  BY <2>1, <2>2, WrittenUrl
<1>3. ASSUME NEW t \in BOOLEAN, Type(t) PROVE UrlShowsFilters'
  <2>1. /\ UNCHANGED <<view, facet, settled>> /\ text' = t
        /\ IF F.textInUrl = "typed" THEN WriteUrl(facet, t) ELSE UNCHANGED <<url, origin>>
    BY <1>3, BrowseFacts DEF Type
  <2>2. F' = F  BY <2>1, SameView
  <2>3. CASE F.textInUrl = "typed"
    <3>1. UrlText' = t  BY <2>1, <2>2, <2>3 DEF UrlText
    <3> QED  BY <2>1, <2>3, <3>1, WorkspacesUrl, WrittenUrl
  <2>4. CASE F.textInUrl # "typed"
    <3>1. UrlText' = UrlText  BY <2>1, <2>2, <2>4 DEF UrlText
    <3> QED  BY <2>1, <2>4, <3>1
  <2> QED  BY <2>3, <2>4
<1>4. CASE Settle
  <2>1. /\ UNCHANGED <<view, facet, text>> /\ settled' = text
        /\ IF F.textInUrl = "settled" THEN WriteUrl(facet, text) ELSE UNCHANGED <<url, origin>>
    BY <1>4 DEF Settle
  <2>2. F' = F  BY <2>1, SameView
  <2>3. CASE F.textInUrl = "settled"
    <3>1. UrlText' = text  BY <2>1, <2>2, <2>3 DEF UrlText
    <3> QED  BY <2>1, <2>3, <3>1, WorkspacesUrl, WrittenUrl
  <2>4. CASE F.textInUrl # "settled"
    <3>1. UrlText' = UrlText  BY <2>1, <2>2, <2>4 DEF UrlText
    <3> QED  BY <2>1, <2>4, <3>1
  <2> QED  BY <2>3, <2>4
<1>5. ASSUME NEW s, SetSort(s) PROVE UrlShowsFilters'
  <2>1. UNCHANGED <<view, facet, text, settled, origin>> /\ url' = [url EXCEPT !.sort = s]
    BY <1>5, BrowseFacts DEF SetSort
  <2>2. UrlText' = UrlText  BY <2>1 DEF UrlText, F
  <2>3. url'.facet = url.facet /\ url'.text = url.text  BY <1>1, <2>1 DEF Address
  <2> QED  BY <2>1, <2>2, <2>3
<1>6. CASE ClearAll
  <2> DEFINE rewritten == facet' # facet \/ (F.textInUrl = "typed" /\ text' # text)
             written == IF F.textInUrl = "settled" THEN settled ELSE FALSE
  <2>1. /\ UNCHANGED <<view, settled>> /\ facet' = F.start /\ text' = FALSE
        /\ rewritten => WriteUrl(F.start, written)
        /\ ~rewritten => url' \in {url, [url EXCEPT !.sort = "none"]} /\ origin' = origin
        /\ view # "workspaces"
    BY <1>6, BrowseFacts, WorkspacesUrl DEF ClearAll
  <2>2. F' = F  BY <2>1, SameView
  <2>3. UrlText' = written  BY <1>1, <2>1, <2>2 DEF UrlText
  <2>4. CASE rewritten
    <3>1. url'.facet = F.start /\ url'.text = written  BY <2>1, <2>4, WrittenUrl
    <3> QED  BY <2>1, <2>3, <3>1
  <2>5. CASE ~rewritten
    <3>1. url'.facet = url.facet /\ url'.text = url.text  BY <1>1, <2>1, <2>5 DEF Address
    <3>2. UrlText = written  BY <1>1, <2>1, <2>5 DEF UrlText
    <3> QED  BY <2>1, <2>3, <2>5, <3>1, <3>2
  <2> QED  BY <2>4, <2>5
<1>7. CASE Back \/ Revisit  BY <1>7 DEF Back, Revisit, Open
<1>8. CASE NextPage \/ PreviousPage  BY <1>8, TurnFacts, SameUrl
<1>9. CASE ConfigLoads \/ Answer \/ \E r \in Row : \E k \in F.kinds \cup {Gone} : Elsewhere(r, k)
  BY <1>9, SameUrl DEF ConfigLoads, Answer, Elsewhere, filter
<1>10. CASE Refetch  BY <1>10, BrowseFacts, SameUrl DEF Refetch, filter
<1>11. CASE Operating
  <2>1. UNCHANGED <<view, filter>>  BY <1>11, BrowseFacts DEF Operating, Press, Ask, Edit, Confirm, Cancel, Tick, TickPage, Perform
  <2> QED  BY <2>1, SameUrl DEF filter
<1>12. CASE UNCHANGED vars  BY <1>12, SameUrl DEF vars, filter
<1> QED
  BY <1>2, <1>3, <1>4, <1>5, <1>6, <1>7, <1>8, <1>9, <1>10, <1>11, <1>12 DEF Next, Filtering

\* Once a page has written its filters to the address, the address names what
\* the table is filtered by: useFilterParams writes them when they change, and
\* a sort order is added to them, not put in their place (use-sort-params.ts:35).
THEOREM AddressShowsFilters == Spec => []UrlShowsFilters
<1>1. Init => UrlShowsFilters  BY DEF Init, UrlShowsFilters
<1>2. QED  BY <1>1, ListAlways, UrlStep, PTL DEF Spec

-----------------------------------------------------------------------------
(* The page of rows.                                                       *)

\* The rows are asked for as before, or from their first page on.
FirstPageStep ==
    \/ facet' # facet \/ url'.sort # url.sort
    \/ settled' # settled /\ F.search = "settled"
    => page' = 0

\* Which steps turn the page, and how.
PageStep ==
    /\ view' = view
    /\ page' \in {0, page} \/ NextPage \/ PreviousPage

LEMMA FirstPage == ListInv /\ [Next]_vars => FirstPageStep /\ PageStep
<1> SUFFICES ASSUME ListInv, [Next]_vars PROVE FirstPageStep /\ PageStep  OBVIOUS
<1> USE DEF FirstPageStep, PageStep
<1>1. ASSUME NEW f \in F.facets, SetFacet(f) PROVE FirstPageStep /\ PageStep
  BY <1>1, BrowseFacts DEF SetFacet
<1>2. ASSUME NEW t \in BOOLEAN, Type(t) PROVE FirstPageStep /\ PageStep
  BY <1>2, BrowseFacts DEF Type
<1>3. CASE Settle
  <2>1. /\ UNCHANGED <<view, facet>> /\ page' \in {0, page}
        /\ page' = IF F.search = "settled" THEN 0 ELSE page
        /\ F.textInUrl # "settled" => url' = url
    BY <1>3 DEF Settle
  <2>2. F.textInUrl = "settled" => F.search = "settled"  BY ThisView DEF ListInv, SoundFilters
  <2> QED  BY <2>1, <2>2
<1>4. ASSUME NEW s, SetSort(s) PROVE FirstPageStep /\ PageStep
  BY <1>4, BrowseFacts DEF SetSort
<1>5. CASE ClearAll  BY <1>5, BrowseFacts DEF ClearAll
<1>6. CASE Back  BY <1>6, BrowseFacts DEF Back
<1>7. CASE Revisit  BY <1>7 DEF Revisit, Open, Edit
<1>8. CASE NextPage \/ PreviousPage  BY <1>8, TurnFacts
<1>9. ASSUME UNCHANGED <<view, filter>> PROVE FirstPageStep /\ PageStep  BY <1>9 DEF filter
<1>10. CASE ConfigLoads \/ Answer \/ \E r \in Row : \E k \in F.kinds \cup {Gone} : Elsewhere(r, k)
  BY <1>9, <1>10 DEF ConfigLoads, Answer, Elsewhere
<1>11. CASE Refetch  BY <1>9, <1>11, BrowseFacts DEF Refetch
<1>12. CASE Operating
  BY <1>9, <1>12, BrowseFacts DEF Operating, Press, Ask, Edit, Confirm, Cancel, Tick, TickPage, Perform
<1>13. CASE UNCHANGED vars  BY <1>9, <1>13 DEF vars
<1> QED
  BY <1>1, <1>2, <1>3, <1>4, <1>5, <1>6, <1>7, <1>8, <1>10, <1>11, <1>12, <1>13 DEF Next, Filtering

\* Whatever changes what the rows are asked for (a select, a chip, "Clear
\* filters", a settled search, a sort, "back" over a sort) takes the table to
\* its first page (the effects of packages-list-view.tsx and its siblings).
THEOREM FiltersShowFirstPage == Spec => FilterShowsFirstPage
<1>1. ListInv /\ [Next]_vars
      => [ \/ facet' # facet \/ url'.sort # url.sort
           \/ settled' # settled /\ F.search = "settled"
           => page' = 0 ]_vars
  BY FirstPage DEF FirstPageStep
<1>2. QED  BY <1>1, ListAlways, PTL DEF Spec, FilterShowsFirstPage

\* Behind by numbers: no more rows are listed than fit on the pages before.
BehindLast == page # 0 /\ ~(PageSize * page < Cardinality(Matching(seen)))

LEMMA BehindMeans == ListInv => (Behind <=> BehindLast)
<1> SUFFICES ASSUME ListInv PROVE Behind <=> BehindLast  OBVIOUS
<1> DEFINE rs == Matching(seen)
<1>1. rs \in SUBSET Nat /\ IsFiniteSet(rs)  BY ListedRows, Listing
<1>2. page \in Nat  BY FiniteRows DEF ListInv, FilterTypes
<1>3. PageOf(rs, page) = {r \in rs : Cardinality(Before(url.sort, r, rs)) \div PageSize = page}
  BY DEF PageOf, Position, Before
<1> HIDE DEF rs
<1>4. (\E r \in rs : Cardinality(Before(url.sort, r, rs)) \div PageSize = page)
      <=> PageSize * page < Cardinality(rs)
  BY <1>1, <1>2, PageFilled
<1>5. PageOf(rs, page) = {} <=> ~(PageSize * page < Cardinality(rs))
  BY <1>3, <1>4
<1> QED  BY <1>5 DEF Behind, BehindLast, rs

\* What is asked for is the same on a page that is not the first, unless a
\* search without effect on the page settles.
LEMMA SameQuestion ==
    ASSUME ListInv, ListInv', [Next]_vars, page' # 0, seen' = seen,
           ~(F.search = "typed" /\ settled' # settled)
    PROVE  Matching(seen)' = Matching(seen)
<1>1. FirstPageStep /\ PageStep  BY FirstPage
<1>2. view' = view /\ facet' = facet  BY <1>1 DEF FirstPageStep, PageStep
<1>3. F.search \in {"settled", "typed", "never"} /\ (F.search = "never" => "search" \notin Controls[view])
  BY ThisView DEF ListInv, SoundFilters
<1>4. settled' = settled
  <2>1. CASE F.search = "settled"  BY <1>1, <2>1 DEF FirstPageStep
  <2>2. CASE F.search = "never"
    <3>1. ~settled /\ settled \in BOOLEAN  BY <1>3, <2>2 DEF ListInv, NoSearchText, FilterTypes
    <3>2. ~settled' /\ settled' \in BOOLEAN  BY <1>2, <1>3, <2>2 DEF ListInv, NoSearchText, FilterTypes
    <3> QED  BY <3>1, <3>2
  <2> QED  BY <1>3, <2>1, <2>2
<1> QED  BY <1>2, <1>4 DEF Matching, F

\* A click on "next" or "previous" shows rows.
LEMMA TurnedIsFilled ==
    ASSUME ListInv, ~BehindLast, NextPage \/ PreviousPage
    PROVE  page' # 0 => PageSize * page' < Cardinality(Matching(seen))
<1> DEFINE n == Cardinality(Matching(seen))
<1>1. n \in Nat /\ PageSize \in Nat \ {0} /\ page \in Nat
  BY ListedRows, Listing, FiniteRows, BoundAssumption DEF ListInv, FilterTypes
<1>2. CASE page < PageCount - 1 /\ page' = page + 1
  <2>1. Loaded /\ PageSize * (page + 1) < Cardinality(Listed)  BY <1>2, TurnFacts, NextIsFilled
  <2> QED  BY <1>2, <2>1 DEF Listed
<1>3. CASE page > 0 /\ page' = page - 1
  <2>1. PageSize * page < n  BY <1>1, <1>3 DEF BehindLast
  <2> HIDE DEF n
  <2>2. PageSize * (page - 1) = PageSize * page - PageSize /\ PageSize * page \in Nat  BY <1>1, <1>3
  <2>3. PageSize * (page - 1) < n  BY <1>1, <2>1, <2>2
  <2> QED  BY <1>3, <2>3 DEF n
<1> QED  BY <1>2, <1>3, TurnFacts

LEMMA BehindStep ==
    ListInv /\ ListInv' /\ [Next]_vars
    => ( BehindLast' /\ ~BehindLast
         => \/ seen' # seen /\ \E r \in Matching(seen) : r \notin Matching(seen)'
            \/ F.search = "typed" /\ settled' # settled )
<1> SUFFICES ASSUME ListInv, ListInv', [Next]_vars, BehindLast', ~BehindLast,
                    ~(F.search = "typed" /\ settled' # settled)
             PROVE  seen' # seen /\ \E r \in Matching(seen) : r \notin Matching(seen)'
  OBVIOUS
<1> DEFINE old == Matching(seen)
           new == Matching(seen)'
<1>1. page' # 0 /\ ~(PageSize * page' < Cardinality(new))  BY DEF BehindLast
<1>2. page' = page \/ NextPage \/ PreviousPage  BY <1>1, FirstPage DEF PageStep
<1>3. page' = page => PageSize * page' < Cardinality(old)  BY <1>1 DEF BehindLast
<1>4. PageSize * page' < Cardinality(old)  BY <1>1, <1>2, <1>3, TurnedIsFilled
<1>5. seen' # seen
  <2> SUFFICES ASSUME seen' = seen PROVE FALSE  OBVIOUS
  <2>1. new = old  BY <1>1, SameQuestion
  <2> QED  BY <1>1, <1>4, <2>1
<1>6. \E r \in old : r \notin new
  <2> SUFFICES ASSUME old \subseteq new PROVE FALSE  OBVIOUS
  <2>1. old \in SUBSET Row /\ new \in SUBSET Row  BY DEF Matching
  <2> HIDE DEF old, new
  <2>2. IsFiniteSet(new) /\ Cardinality(new) \in Nat /\ Cardinality(old) \in Nat  BY <2>1, Listing
  <2>3. Cardinality(old) <= Cardinality(new)  BY <2>2, FS_Subset
  <2>4. page' \in Nat /\ PageSize \in Nat
    BY FiniteRows, BoundAssumption DEF ListInv, FilterTypes
  <2>5. PageSize * page' \in Nat
    <3>1. \A a, b \in Nat : a * b \in Nat  OBVIOUS
    <3> QED  BY <2>4, <3>1
  <2> DEFINE q == PageSize * page'
  <2>6. q \in Nat /\ q < Cardinality(old) /\ ~(q < Cardinality(new))  BY <1>1, <1>4, <2>5
  <2> HIDE DEF q
  <2> QED  BY <2>2, <2>3, <2>6
<1> QED  BY <1>5, <1>6

\* No click leads behind the last row, neither "next" on the last page nor
\* "previous" after rows have gone: a page of rows comes to lie there only by an
\* answer that lacks rows, or by the late search of the list of workspaces.
THEOREM BehindOnlyWhenRowsGo == Spec => BehindOnlyByLoss
<1>1. ListInv' => (Behind' <=> BehindLast')  BY BehindMeans, PTL
<1>2. ListInv /\ ListInv' /\ [Next]_vars
      => [ Behind' /\ ~Behind
           => \/ seen' # seen /\ \E r \in Matching(seen) : r \notin Matching(seen)'
              \/ F.search = "typed" /\ settled' # settled ]_vars
  BY <1>1, BehindMeans, BehindStep
<1>3. QED  BY <1>2, ListAlways, PTL DEF Spec, BehindOnlyByLoss

=============================================================================
