------------------------------ MODULE CmeArchive ------------------------------
(***************************************************************************)
(* CMEEODDataSource scrapes the exchange's settlement page of one root and *)
(* merges what it parsed into a Parquet archive, one file per year;        *)
(* ReplayDataSource answers from that archive.  One action per call that   *)
(* touches the clock, the page or the file, so that the page may change    *)
(* under a fetch and a crash may fall between the read and the write.      *)
(* A SHA is the number of the published page: equal bytes, equal number.   *)
(***************************************************************************)
EXTENDS Integers, FiniteSets, FiniteSetsExt

CONSTANTS
    Contracts,      \* contract months on the page of the root
    Prices,         \* settlement prices
    Missing,        \* a placeholder cell: no settle on this row
    DayLength,      \* clock ticks per business day
    YearLength,     \* business days per archive file
    MaxRevisions,   \* bound: revisions of published settles
    MaxTime,        \* bound: the clock
    MaxPages        \* bound: published pages

ASSUME ArchiveAssumption ==
    /\ Missing \notin Prices /\ Prices \subseteq Nat
    /\ DayLength \in Nat \ {0} /\ YearLength \in Nat \ {0}
    /\ MaxRevisions \in Nat
    /\ MaxTime \in Nat /\ MaxPages \in Nat \ {0}

VARIABLES
    clock,          \* the system clock
    page,           \* what the exchange shows now
    published,      \* every page shown so far
    archive,        \* per year: the Parquet file
    scrape,         \* the fetch_all_for_root call in progress
    seen,           \* per contract: the settle last returned by the live source
    returned        \* history: the keys of all settles it returned

archiveVars == <<clock, page, published, archive, scrape, seen, returned>>

Day(t) == t \div DayLength
Year(d) == d \div YearLength
Times == 0..MaxTime
Dates == 0..Day(MaxTime)
Years == 0..Year(Day(MaxTime))

States == {"live", "preliminary", "final"}
Rank == [live |-> 0, preliminary |-> 1, final |-> 2]

Shas == 1 - MaxPages .. MaxPages
Pages == [date : Dates, state : {"preliminary", "final"}, sha : Shas,
          price : [Contracts -> Prices \cup {Missing}]]
Rows == [contract : Contracts, date : Dates, state : States, price : Prices,
         iso : Times, sha : Shas]
Files == [exists : BOOLEAN, torn : BOOLEAN, rows : SUBSET Rows]
None == [none |-> TRUE]

Idle == [pc |-> "idle", iso |-> 0, date |-> 0, contract |-> CHOOSE c \in Contracts : TRUE,
         rows |-> {}, base |-> {}]

(* The key the archive deduplicates on. *)
Key(r) == [contract |-> r.contract, date |-> r.date, state |-> r.state, sha |-> r.sha]
Keys(rows) == {Key(r) : r \in rows}

\* Mutants: one row per contract and date; the row that was there first stays.
MergeByDay(old, new) ==
    new \cup {r \in old : ~\E q \in new : q.contract = r.contract /\ q.date = r.date}
MergeKeepsFirst(old, new) == old \cup {r \in new : Key(r) \notin Keys(old)}

(* concat + unique(keep="last"): of two rows with one key the new one stays. *)
Merge(old, new) == new \cup {r \in old : Key(r) \notin Keys(new)}

(* _build_settle skips a row whose settle cell is a placeholder; the settle of *)
(* the others is dated by the caller and stamped with the time before the      *)
(* fetch.  Within a contract, the row's own SHA is named by that of the page.  *)
Skipped(p, c) == p.price[c] = Missing

BuildSettle(p, c, date, iso) ==
    [contract |-> c, date |-> date, state |-> p.state, price |-> p.price[c],
     iso |-> iso, sha |-> p.sha]

(* _parse_settlement_page *)
Parsed(p, date, iso) ==
    {BuildSettle(p, c, date, iso) : c \in {d \in Contracts : ~Skipped(p, d)}}

Archived(y) == archive[y].rows

------------------------------------------------------------------------------

FirstPage(p) == p.date = 0 /\ p.state = "preliminary" /\ p.sha = 1

Init ==
    /\ clock = 0
    /\ page \in {p \in Pages : FirstPage(p)}
    /\ published = {page}
    /\ archive = [y \in Years |-> [exists |-> FALSE, torn |-> FALSE, rows |-> {}]]
    /\ scrape = Idle
    /\ seen = [c \in Contracts |-> None]
    /\ returned = {}

Tick ==
    /\ clock < MaxTime
    /\ clock' = clock + 1
    /\ UNCHANGED <<page, published, archive, scrape, seen, returned>>

Revisions == Cardinality(published) - Cardinality({<<p.date, p.state>> : p \in published})

(* The exchange: preliminary, then final, then the next day's page; and  *)
(* at times another price for a day and a state it has published.  The   *)
(* SHA of a revision is above or below the others: only then it matters. *)
Publish ==
    LET shas == {q.sha : q \in published}
        above == Max(shas) + 1
        below == Min(shas) - 1
        follows(p) == \/ p.date = page.date /\ page.state = "preliminary" /\ p.state = "final"
                      \/ page.date < p.date /\ p.date = Day(clock) /\ p.state = "preliminary"
        revises(p) == /\ p.date = page.date /\ p.state = page.state /\ p.price # page.price
                      /\ Revisions < MaxRevisions
    IN /\ Cardinality(published) < MaxPages
       /\ \E p \in Pages :
            /\ \/ p.sha = above /\ (follows(p) \/ revises(p))
               \/ p.sha = below /\ revises(p)
            /\ page' = p
            /\ published' = published \cup {p}
       /\ UNCHANGED <<clock, archive, scrape, seen, returned>>

(* latest_settle(contract, as_of) up to the reading of the clock.  A caller *)
(* asks within the page's publication window, as its contract demands.      *)
BeginFetch(c) ==
    /\ scrape.pc = "idle"
    /\ page.date = Day(clock)
    /\ scrape' = [Idle EXCEPT !.pc = "fetching", !.contract = c,
                              !.iso = clock, !.date = Day(clock)]
    /\ UNCHANGED <<clock, page, published, archive, seen, returned>>

(* Network failure, WAF challenge, header drift, malformed table. *)
FetchFails ==
    /\ scrape.pc = "fetching"
    /\ scrape' = Idle
    /\ UNCHANGED <<clock, page, published, archive, seen, returned>>

(* The page arrives, perhaps a newer one than when the clock was read, and *)
(* is parsed; without a settle nothing is archived.                        *)
Fetched ==
    /\ scrape.pc = "fetching"
    /\ LET rows == Parsed(page, scrape.date, scrape.iso) IN
       scrape' = IF rows = {} THEN Idle
                 ELSE [scrape EXCEPT !.pc = "parsed", !.rows = rows]
    /\ UNCHANGED <<clock, page, published, archive, seen, returned>>

(* _write_archive reads the year's file, if there is one. *)
ReadArchive ==
    /\ scrape.pc = "parsed"
    /\ ~archive[Year(scrape.date)].torn
    /\ scrape' = [scrape EXCEPT !.pc = "merged", !.base = Archived(Year(scrape.date))]
    /\ UNCHANGED <<clock, page, published, archive, seen, returned>>

(* pl.read_parquet raises on a torn file: nothing is returned or written. *)
ReadRaises ==
    /\ scrape.pc = "parsed"
    /\ archive[Year(scrape.date)].torn
    /\ scrape' = Idle
    /\ UNCHANGED <<clock, page, published, archive, seen, returned>>

(* write_parquet opens the path itself: the old content is gone. *)
BeginWrite ==
    /\ scrape.pc = "merged"
    /\ archive' = [archive EXCEPT ![Year(scrape.date)] =
                      [exists |-> TRUE, torn |-> TRUE, rows |-> {}]]
    /\ scrape' = [scrape EXCEPT !.pc = "writing"]
    /\ UNCHANGED <<clock, page, published, seen, returned>>

(* The settle of the asked month, if its row was on the page. *)
Answer(c, rows) ==
    IF \E r \in rows : r.contract = c THEN CHOOSE r \in rows : r.contract = c ELSE None

EndWrite ==
    /\ scrape.pc = "writing"
    /\ archive' = [archive EXCEPT ![Year(scrape.date)] =
                      [exists |-> TRUE, torn |-> FALSE,
                       rows |-> Merge(scrape.base, scrape.rows)]]
    /\ seen' = [c \in Contracts |->
                   IF Answer(c, scrape.rows) = None THEN seen[c] ELSE Answer(c, scrape.rows)]
    /\ returned' = returned \cup Keys(scrape.rows)
    /\ scrape' = Idle
    /\ UNCHANGED <<clock, page, published>>

(* The process dies; what it had in memory is gone, the file is as it is. *)
Crash ==
    /\ scrape.pc # "idle"
    /\ scrape' = Idle
    /\ UNCHANGED <<clock, page, published, archive, seen, returned>>

------------------------------------------------------------------------------
(* ReplayDataSource *)

(* Sorted by date, then rank of the state, then SHA; the last one wins. *)
Precedes(r, s) ==
    \/ r.date < s.date
    \/ r.date = s.date /\ Rank[r.state] < Rank[s.state]
    \/ r.date = s.date /\ r.state = s.state /\ r.sha <= s.sha

YearsUpTo(asOf) == {y \in Years : y <= Year(Day(asOf))}

Candidates(c, asOf) ==
    {r \in UNION {Archived(y) : y \in YearsUpTo(asOf)} :
        r.contract = c /\ r.date <= Day(asOf)}

Replay(c, asOf) ==
    LET rows == Candidates(c, asOf) IN
    IF rows = {} THEN None
    ELSE CHOOSE s \in rows : \A r \in rows : Precedes(r, s)

(* A torn file among those it reads makes the call raise. *)
ReplayRaises(asOf) == \E y \in YearsUpTo(asOf) : archive[y].torn

==============================================================================
