------------------------------- MODULE Views --------------------------------
(***************************************************************************)
(* The pages that show the office: Home, Finances, Reports and Profile     *)
(* (app/src/views).  Each page is put together from several loads that     *)
(* answer, fail and are repeated on their own (UseApi says how), beside    *)
(* the review, which the whole app shares.  The operators say what a page  *)
(* shows for what it has loaded; wording and layout are left out, but for  *)
(* the claims a page makes.                                                *)
(*                                                                         *)
(* Amounts are hundredths.  The office is seen in two versions, before and *)
(* after a change, and a load has the version it was answered in.          *)
(***************************************************************************)
EXTENDS Integers, FiniteSets, Sequences, SequencesExt, FiniteSetsExt

CONSTANTS
    Shelf,              \* the reports of an office that has records, which are some
    Weights, Amounts,   \* what the server may say of a class and of an account
    Bands,              \* the policy's band for the class
    MaxLoadFailures     \* bound: loads that fail

Pages == {"home", "overview", "accounts", "holdings", "cashflow", "goals", "reports", "reader", "profile"}

Loaded(p) ==     \* the hooks of a page
    CASE p = "home" -> {"networth", "allocation", "decisions", "reports"}
      [] p = "overview" -> {"networth", "allocation"}
      [] p = "accounts" -> {"networth", "registry"}
      [] p = "holdings" -> {"positions", "allocation"}
      [] p = "cashflow" -> {"cashflow", "spend"}
      [] p = "goals" -> {"goals"}
      [] p = "reports" -> {"reports"}
      [] p = "reader" -> {"report"}
      [] p = "profile" -> {"levels", "files", "profile"}
Endpoints == UNION {Loaded(p) : p \in Pages}
Shared == {"review"}

VARIABLES
    office,       \* the two versions of the office's facts
    version,      \* the present one
    view,         \* the page shown
    got,          \* the version each load has, 0 for none
    failed,       \* loads whose last answer was an error
    loadFailures

wvars == <<office, version, view, got, failed, loadFailures>>

---------------------------------------------------------------------------
(* Numbers (client.ts: num, nums; format.ts).  The server sends decimal     *)
(* strings; an absent, empty or unreadable one is unknown.                  *)

Absent == -1
Garbled == -2
Null == -9
UNKNOWN == -9        \* the word, where a number would be shown
Dots == -8           \* "...": nothing loaded

\* A report: whether the search finds it, and its path, which is its own.
Entry == [kind : STRING, month : Nat, day : Nat, path : Nat, found : BOOLEAN]

ASSUME ViewsAssumption ==
    /\ IsFiniteSet(Shelf) /\ Shelf # {} /\ Shelf \subseteq Entry
    /\ \A r, s \in Shelf : r.path = s.path => r = s
    /\ Weights \subseteq Nat \cup {Absent} /\ Amounts \subseteq Nat \cup {Absent, Garbled}
    /\ Bands \in [min : Nat, max : Nat]
    /\ MaxLoadFailures \in Nat

numZero(raw) == IF raw < 0 THEN 0 ELSE raw   \* mutant: what cannot be read is zero

num(raw) == IF raw < 0 THEN Null ELSE raw
orZero(value) == IF value = Null THEN 0 ELSE value

money(value) == IF value = Null THEN UNKNOWN ELSE value
percent(value) == money(value)
quantity(value) == money(value)

bandState(weight, min, max) ==
    CASE weight = Null -> "unknown"
      [] weight # Null /\ weight > max -> "above"
      [] weight # Null /\ weight < min -> "below"
      [] OTHER -> "inside"

\* The bar's scale, in fives, leaves a quarter past the larger of weight and band.
Scale(weight, max) ==
    LET wanted == Max({orZero(weight), max})
    IN Min({100, Max({10, 5 * ((wanted + 3) \div 4)})})
At(value, weight, max) == Min({100, (100 * value) \div Scale(weight, max)})

AllocationBar(weight, min, max) ==
    [state |-> bandState(weight, min, max),
     fill |-> IF weight = Null THEN 0 ELSE At(weight, weight, max),
     from |-> At(min, weight, max), to |-> At(max, weight, max)]

---------------------------------------------------------------------------
(* The office's facts, and what a load holds of them *)

Verdicts == {"breached", "due", "judge", "fine"}
Bare == [decision |-> "fine", weight |-> Absent, value |-> 0, stale |-> FALSE, rich |-> FALSE]
Quiet == [Bare EXCEPT !.weight = 15, !.value = 300, !.rich = TRUE]
Fact ==     \* of an office with records (rich), or of one without
    {Bare, Quiet} \cup [decision : Verdicts, weight : Weights, value : Amounts, stale : BOOLEAN,
                rich : {TRUE}]

Has(e) == got[e] # 0
Facts(e) == office[got[e]]
Awaited(e) == ~Has(e) /\ e \notin failed

\* networth: a total is known only when every account's value is.
Value == IF Has("networth") THEN num(Facts("networth").value) ELSE Null
Missing == Has("networth") /\ Facts("networth").value < 0
Stale == Has("networth") /\ Facts("networth").stale
Weight == IF Has("allocation") THEN num(Facts("allocation").weight) ELSE Null
Investable == IF Has("allocation") THEN num(Facts("allocation").value) ELSE Null
OutsideBand == Has("allocation") /\ bandState(Weight, Bands.min, Bands.max) \in {"above", "below"}

\* What the review flags for a verdict now.
needsVerdictBreached == Has("review") /\ Facts("review").decision = "breached"   \* mutant: due is left out

needsVerdict == Has("review") /\ Facts("review").decision \in {"breached", "due"}

---------------------------------------------------------------------------
(* Home *)

Attention ==
    (IF needsVerdict THEN {IF Facts("review").decision = "breached" THEN "breached" ELSE "due"} ELSE {})
    \cup (IF Has("review") /\ Facts("review").decision = "judge" THEN {"judge"} ELSE {})
    \cup (IF OutsideBand THEN {"outside"} ELSE {})
    \cup (IF Stale THEN {"stale"} ELSE {})

NeedsYou ==
    IF Awaited("decisions") \/ Awaited("allocation") THEN {"loading"}
    ELSE IF Attention # {} THEN Attention ELSE {"nothing needs you"}

LatestBriefing ==
    IF "reports" \in failed THEN "error"
    ELSE IF Has("reports") /\ Facts("reports").rich THEN "briefing" ELSE "no briefing"

HomeStats ==
    [networth |-> IF Has("networth") THEN money(Value) ELSE Dots,
     investable |-> IF Has("allocation") THEN money(Investable) ELSE Dots,
     outside |-> IF Has("allocation") THEN IF OutsideBand THEN 1 ELSE 0 ELSE Dots]

\* Why the total is what it is.
NetWorthDetail ==
    IF ~Has("networth") \/ ~Facts("networth").rich THEN "no accounts"
    ELSE IF Missing THEN "not reported" ELSE "all accounts"

---------------------------------------------------------------------------
(* Finances *)

\* Failed: the errors a tab shows above what it has.  Three tabs show those of one load only.
Notices ==
    failed \cap
        CASE view = "overview" -> {"networth", "allocation"}
          [] view = "accounts" -> {"networth"}
          [] view = "holdings" -> {"positions"}
          [] view = "cashflow" -> {"cashflow"}
          [] view = "goals" -> {"goals"}
          [] OTHER -> {}

\* A tab with a table: nothing yet, its rows, or that there are none.
Table(loading, rows) ==
    [shows |-> IF loading THEN "loading" ELSE IF rows = {} THEN "none" ELSE "rows",
     rows |-> IF loading THEN {} ELSE rows]

Overview ==
    IF Awaited("networth") \/ Awaited("allocation") THEN [loading |-> TRUE]
    ELSE [loading |-> FALSE,
          networth |-> money(Value), investable |-> money(Investable), cash |-> percent(Weight),
          stale |-> IF Stale THEN 1 ELSE 0,
          bars |-> IF Has("allocation") /\ Facts("allocation").rich
                   THEN {AllocationBar(Weight, Bands.min, Bands.max)} ELSE {}]

AccountStatus == IF Missing THEN "not reported" ELSE IF Stale THEN "stale" ELSE "current"

Accounts ==
    Table(Awaited("networth") \/ Awaited("registry"),
          IF Has("networth") /\ Facts("networth").rich
          THEN {[value |-> money(Value), status |-> AccountStatus,
                 owner |-> IF Has("registry") THEN "owner" ELSE "unknown"]}
          ELSE {})

Holdings ==
    Table(Awaited("positions"),
          IF Has("positions") /\ Facts("positions").rich
          THEN {[value |-> money(num(Facts("positions").value)), weight |-> percent(Weight),
                 qty |-> quantity(num(Facts("positions").value))]}
          ELSE {})

\* Months, and under them the categories that have an amount.  The tab waits for the months
\* alone: without the second load it says that nothing was spent.
Months6 ==
    IF Has("cashflow") /\ Facts("cashflow").rich
    THEN {[income |-> money(num(Facts("cashflow").value)), net |-> money(num(Facts("cashflow").value))]}
    ELSE {}
Cashflow == [loading |-> Awaited("cashflow"), rows |-> IF Awaited("cashflow") THEN {} ELSE Months6]
Categories ==
    IF Has("spend") /\ Facts("spend").rich /\ num(Facts("spend").value) \notin {Null, 0}
    THEN {money(num(Facts("spend").value))} ELSE {}

Goals ==
    Table(Awaited("goals"),
          IF Has("goals") /\ Facts("goals").rich
          THEN {[current |-> money(num(Facts("goals").value)), required |-> money(num(Facts("goals").value)),
                 bar |-> Min({100, orZero(num(Facts("goals").value))})]}
          ELSE {})

---------------------------------------------------------------------------
(* Reports *)

Library(f) == IF f.rich THEN Shelf ELSE {}

\* Newest first; on one day by path, backwards.
Newer(a, b) ==
    \/ a.month > b.month
    \/ a.month = b.month /\ a.day > b.day
    \/ a.month = b.month /\ a.day = b.day /\ a.path > b.path

\* The entries of a kind that a search finds, each after all that are newer.
Matching(f, kind, searching) == {r \in Library(f) : (kind = "all" \/ r.kind = kind) /\ (searching => r.found)}
Entries(f, kind, searching) ==
    LET found == Matching(f, kind, searching)
    IN [i \in 1..Cardinality(found) |-> CHOOSE r \in found : Cardinality({s \in found : Newer(s, r)}) = i - 1]

\* One entry after the other is put last under its month.
months[entries \in Seq(Shelf)] ==
    IF entries = <<>> THEN <<>>
    ELSE LET entry == Last(entries)
             before == months[Front(entries)]
         IN [m \in DOMAIN before \cup {entry.month} |->
                IF m # entry.month THEN before[m]
                ELSE IF m \in DOMAIN before THEN Append(before[m], entry) ELSE <<entry>>]

Reports(kind, searching) ==
    IF Awaited("reports") THEN "loading"
    ELSE IF "reports" \in failed THEN "error"
    ELSE IF Entries(Facts("reports"), kind, searching) = <<>>
         THEN IF Library(Facts("reports")) = {} THEN "no reports" ELSE "no match"
    ELSE "months"

---------------------------------------------------------------------------
(* Profile and a report: what is loaded, or its error in its place *)

Panel(e) == IF Awaited(e) THEN "loading" ELSE IF e \in failed THEN "error" ELSE "shown"
LevelCards == Panel("levels")
ProfileTabs == Panel("files")
ReportReader == Panel("report")

\* How a file is shown: household as a document, the policy as tables when it parses.
Structured(name, parsed) ==
    CASE name = "household" -> "document"
      [] name = "ips" /\ parsed -> "tables"
      [] OTHER -> "text"

FilePanel(name) ==
    IF ProfileTabs # "shown" THEN "none"
    ELSE IF Panel("profile") # "shown" THEN Panel("profile")
    ELSE Structured(name, Facts("profile").rich)

---------------------------------------------------------------------------
(* The page changes, loads answer and fail, the office changes *)

ViewsTypeOK ==
    /\ office \in Seq(Fact) /\ Len(office) = 2
    /\ version \in 1..2
    /\ view \in Pages
    /\ got \in [Endpoints \cup Shared -> 0..2]
    /\ failed \subseteq Endpoints \cup Shared
    /\ loadFailures \in 0..MaxLoadFailures

ViewsInit ==
    /\ \E f \in Fact : office \in {<<f, Quiet>>, <<Quiet, f>>}
    /\ version = 1
    /\ view \in Pages
    /\ got = [e \in Endpoints \cup Shared |-> 0]
    /\ failed = {} /\ loadFailures = 0

InUse == Loaded(view) \cup Shared

Load(e) ==
    /\ e \in InUse
    /\ got[e] # version \/ e \in failed
    /\ got' = [got EXCEPT ![e] = version]
    /\ failed' = failed \ {e}
    /\ UNCHANGED <<office, version, view, loadFailures>>

LoadFails(e) ==
    /\ e \in InUse /\ e \notin failed
    /\ loadFailures < MaxLoadFailures
    /\ failed' = failed \cup {e}
    /\ loadFailures' = loadFailures + 1
    /\ UNCHANGED <<office, version, view, got>>

\* Another page: its hooks start anew.
Navigate(p) ==
    /\ p # view
    /\ view' = p
    /\ got' = [e \in Endpoints \cup Shared |-> IF e \in Shared THEN got[e] ELSE 0]
    /\ failed' = failed \cap Shared
    /\ UNCHANGED <<office, version, loadFailures>>

OfficeChanges ==
    /\ version = 1 /\ version' = 2
    /\ UNCHANGED <<office, view, got, failed, loadFailures>>

ViewsNext ==
    \/ \E e \in Endpoints \cup Shared : Load(e) \/ LoadFails(e)
    \/ \E p \in Pages : Navigate(p)
    \/ OfficeChanges

ViewsSpec == ViewsInit /\ [][ViewsNext]_wvars

---------------------------------------------------------------------------
(* Properties *)

Settled == \A e \in InUse : got[e] = version /\ e \notin failed

Problems(f) ==
    ({f.decision} \cap {"breached", "due", "judge"})
    \cup (IF f.weight # Absent /\ (f.weight < Bands.min \/ f.weight > Bands.max) THEN {"outside"} ELSE {})
    \cup (IF f.stale THEN {"stale"} ELSE {})

NeedsYouIsExact ==
    NeedsYou = IF Problems(office[version]) = {} THEN {"nothing needs you"} ELSE Problems(office[version])

\* The entries a kind and a search find are each under their month, once, newest first.
ReportsWhole(kind, searching) ==
    LET found == Matching(office[version], kind, searching)
        under == months[Entries(Facts("reports"), kind, searching)]
    IN /\ \A r \in found : Cardinality({i \in DOMAIN under[r.month] : under[r.month][i] = r}) = 1
       /\ \A m \in DOMAIN under : \A i \in DOMAIN under[m] :
            under[m][i] \in found /\ (i > 1 => Newer(under[m][i - 1], under[m][i]))

BarsAgree ==
    \A bar \in Overview.bars :
        /\ bar.state = "above" => bar.fill >= bar.to
        /\ bar.state = "below" => bar.fill <= bar.from
        /\ bar.state = "inside" => bar.fill \in bar.from..bar.to

\* A page whose loads have all answered since the office last changed shows exactly what is
\* so: Home one row for a decision and for everything else that is wrong, and that nothing
\* needs anybody only then, and the briefing there is; Reports every entry that is looked for,
\* once and in order; each bar of the Overview on the side of its band that its label says.
PagesAreExact ==
    Settled =>
        /\ view = "home" =>
             /\ NeedsYouIsExact
             /\ LatestBriefing = IF office[version].rich THEN "briefing" ELSE "no briefing"
        /\ view = "reports" => \A kind \in {"all", "brief", "plan"}, searching \in BOOLEAN : ReportsWhole(kind, searching)
        /\ view = "overview" => BarsAgree
        /\ view = "profile" =>
             LevelCards = "shown" /\ (FilePanel("ips") = "tables" <=> office[version].rich)
        /\ view = "reader" => ReportReader = "shown"

HomeSaysUnknown ==
    /\ ~Has("networth") \/ (got["networth"] = version /\ office[version].value < 0)
         => HomeStats.networth \in {UNKNOWN, Dots}
    /\ HomeStats.networth = UNKNOWN => NetWorthDetail # "all accounts"

OverviewSaysUnknown ==
    ~Overview.loading =>
        /\ ~Has("networth") \/ Facts("networth").value < 0 => Overview.networth = UNKNOWN
        /\ ~Has("allocation") \/ Facts("allocation").weight < 0
             => /\ Overview.cash = UNKNOWN
                /\ \A bar \in Overview.bars : bar.state = "unknown" /\ bar.fill = 0

\* The rows of a tab whose load has no value.
Valueless(e) == Has(e) /\ Facts(e).value < 0
RowsSayUnknown ==
    /\ view = "accounts" /\ Valueless("networth")
         => \A row \in Accounts.rows : row.value = UNKNOWN /\ row.status = "not reported"
    /\ view = "holdings" /\ Valueless("positions")
         => \A row \in Holdings.rows : row.value = UNKNOWN /\ row.qty = UNKNOWN
    /\ view = "cashflow" /\ Valueless("spend") => Categories = {}
    /\ view = "cashflow" /\ Valueless("cashflow")
         => \A row \in Cashflow.rows : row.income = UNKNOWN /\ row.net = UNKNOWN
    /\ view = "goals" /\ Valueless("goals")
         => \A row \in Goals.rows : row.current = UNKNOWN /\ row.required = UNKNOWN

ProfileHasLoaded ==
    /\ LevelCards = "shown" => Has("levels")
    /\ FilePanel("household") = "document" => Has("files") /\ Has("profile")

ToldNone(e) == e \in Notices \/ (Has(e) /\ ~Facts(e).rich)
NoneWasTold ==
    /\ view = "accounts" /\ Accounts.shows = "none" => ToldNone("networth")
    /\ view = "holdings" /\ Holdings.shows = "none" => ToldNone("positions")
    /\ view = "goals" /\ Goals.shows = "none" => ToldNone("goals")
    /\ view = "reports" /\ Reports("all", FALSE) = "no reports" => ToldNone("reports")

\* "A null value is unknown and says so; it is never shown as zero" (format.ts:1), on every
\* page, for values the server does not have and for loads that have not come; and a tab that
\* says there are no accounts, holdings or goals, and Reports that there are none, has been told
\* so or shows the error in its place.
UnknownIsSaid ==
    /\ view = "home" => HomeSaysUnknown
    /\ view = "overview" => OverviewSaysUnknown
    /\ view = "profile" => ProfileHasLoaded
    /\ RowsSayUnknown
    /\ NoneWasTold
=============================================================================
