------------------------ MODULE SettlePipeline_proofs ------------------------
(***************************************************************************)
(* What the settlement archive keeps and what a verified settle rests on,  *)
(* for every set of contracts and prices, every length of a day and of a   *)
(* year, any tiers of the exchange and the vendor, and any interleaving of *)
(* publications, fetches, crashes and verifier calls.                      *)
(***************************************************************************)
EXTENDS SettlePipeline, FiniteSetTheorems, TLAPS

------------------------------------------------------------------------------
(* Days and years *)

LEMMA DivFacts ==
    ASSUME NEW a \in Nat, NEW b \in Nat, NEW n \in Nat \ {0}, a <= b
    PROVE  a \div n \in Nat /\ a \div n <= b \div n
<1>1. a \div n \in Nat /\ b \div n \in Nat
  OBVIOUS
<1> QED BY <1>1

LEMMA DayFacts ==
    ASSUME NEW s \in Times, NEW t \in Times, s <= t
    PROVE  /\ Day(s) \in Dates /\ Day(s) <= Day(t)
           /\ Year(Day(s)) \in Years /\ Year(Day(s)) <= Year(Day(t))
<1>1. s \in Nat /\ t \in Nat /\ t <= MaxTime /\ s <= MaxTime /\ MaxTime \in Nat
  BY ArchiveAssumption DEF Times
<1>2. DayLength \in Nat \ {0} /\ YearLength \in Nat \ {0}
  BY ArchiveAssumption
<1>3. /\ Day(s) \in Nat /\ Day(t) \in Nat /\ Day(MaxTime) \in Nat
      /\ Day(s) <= Day(t) /\ Day(s) <= Day(MaxTime)
  BY <1>1, <1>2, DivFacts DEF Day
<1>4. /\ Year(Day(s)) \in Nat /\ Year(Day(MaxTime)) \in Nat
      /\ Year(Day(s)) <= Year(Day(t)) /\ Year(Day(s)) <= Year(Day(MaxTime))
  BY <1>2, <1>3, DivFacts DEF Year
<1> QED BY <1>3, <1>4 DEF Dates, Years

LEMMA DateFacts ==
    ASSUME NEW d \in Dates
    PROVE  /\ d \in Nat /\ Year(d) \in Years /\ Year(d) \in Nat
           /\ \A e \in Dates : e <= d => Year(e) <= Year(d)
<1>1. MaxTime \in Nat /\ DayLength \in Nat \ {0} /\ YearLength \in Nat \ {0}
  BY ArchiveAssumption
<1>2. Day(MaxTime) \in Nat
  BY <1>1, DivFacts DEF Day
<1>3. d \in Nat /\ d <= Day(MaxTime)
  BY <1>2 DEF Dates
<1>4. Year(d) \in Nat /\ Year(Day(MaxTime)) \in Nat /\ Year(d) <= Year(Day(MaxTime))
  BY <1>1, <1>2, <1>3, DivFacts DEF Year
<1>5. \A e \in Dates : e <= d => Year(e) <= Year(d)
  BY <1>1, <1>2, <1>3, DivFacts DEF Dates, Year
<1> QED BY <1>3, <1>4, <1>5 DEF Years

------------------------------------------------------------------------------
(* The exchange *)

\* No day and state has two published pages.
Unrevised ==
    \A p, q \in published : p.date = q.date /\ p.state = q.state => p = q

\* Page p is of an earlier day than q, or of the same and in no later state.
NoLater(p, q) ==
    \/ p.date < q.date
    \/ p.date = q.date /\ Rank[p.state] <= Rank[q.state]

(* A SHA names one page; while nothing was revised the pages were published *)
(* in the order of their SHAs, days and states, and the last one is shown.  *)
WorldInv ==
    /\ clock \in Times /\ page \in published /\ published \subseteq Pages
    /\ IsFiniteSet(published)
    /\ \A p, q \in published : p.sha = q.sha => p = q
    /\ \E m \in published : \A q \in published : q.sha <= m.sha
    /\ \E m \in published : \A q \in published : m.sha <= q.sha
    /\ Unrevised => \A p, q \in published : /\ q.sha <= page.sha
                                            /\ p.sha <= q.sha => NoLater(p, q)

------------------------------------------------------------------------------
(* The archive *)

\* A settle as a fetch makes it of a published page.
Genuine(r) ==
    /\ r \in Rows /\ r.iso <= clock /\ r.date = Day(r.iso)
    /\ \E q \in published : /\ q.sha = r.sha /\ q.state = r.state
                            /\ q.price[r.contract] = r.price

\* The rows of a file: genuine settles of its year, each key once.
Tidy(rows, y) ==
    /\ \A r \in rows : Genuine(r) /\ Year(r.date) = y
    /\ \A r, q \in rows : Key(r) = Key(q) => r = q

(* The scrape in progress has parsed a published page; it has read the file *)
(* it is going to replace, and nobody else wrote it since.  While it writes *)
(* the file is torn, and what it read holds what was returned of that year. *)
ScrapeInv ==
    /\ scrape \in [pc : {"idle", "fetching", "parsed", "merged", "writing"},
                   iso : Times, date : Dates, contract : Contracts \cup {Idle.contract},
                   rows : SUBSET Rows, base : SUBSET Rows]
    /\ scrape.pc # "idle" => scrape.iso <= clock /\ scrape.date = Day(scrape.iso)
    /\ scrape.pc \in {"parsed", "merged", "writing"} =>
         \E q \in published : scrape.rows = Parsed(q, scrape.date, scrape.iso)
    /\ scrape.pc = "merged" => /\ ~archive[Year(scrape.date)].torn
                               /\ scrape.base = Archived(Year(scrape.date))
    /\ scrape.pc = "writing" =>
         /\ archive[Year(scrape.date)].torn
         /\ Tidy(scrape.base, Year(scrape.date))
         /\ \A k \in returned : Year(k.date) = Year(scrape.date) => k \in Keys(scrape.base)

ReturnedInv ==
    \A k \in returned : k \in Keys(Rows) /\ \E q \in published : q.sha = k.sha

(* The inductive invariant of the archive. *)
ArchiveInv ==
    /\ WorldInv /\ ScrapeInv /\ ReturnedInv /\ HistoryKept
    /\ archive \in [Years -> Files]
    /\ \A y \in Years : Tidy(Archived(y), y)

------------------------------------------------------------------------------
(* The replay *)

StraddleFree == \A k \in returned : \E q \in published : q.sha = k.sha /\ q.date = k.date

\* The file of year y is being written.
Written(y) == scrape.pc = "writing" /\ Year(scrape.date) = y

\* What the file holds, or held when the write in progress began.
Content(y) == IF Written(y) THEN scrape.base ELSE Archived(y)

NoTear == \A y \in Years : archive[y].torn => Written(y)

\* The settle returned last is archived, and no archived one goes before it.
Latest(c) ==
    /\ Genuine(seen[c]) /\ seen[c].contract = c /\ Key(seen[c]) \in returned
    /\ seen[c] \in Content(Year(seen[c].date))
    /\ \A y \in Years : \A r \in Content(y) : r.contract = c => Precedes(r, seen[c])
    /\ scrape.pc \in {"parsed", "merged", "writing"} =>
         \A r \in scrape.rows : seen[c].sha <= r.sha

\* A contract without a settle has no row; one with a settle has it as its last.
Followed(c) ==
    \/ seen[c] = None /\ \A y \in Years : \A r \in Content(y) : r.contract # c
    \/ seen[c] # None /\ Latest(c)

LiveInv == (Unrevised /\ NoTear /\ StraddleFree) => \A c \in Contracts : Followed(c)

------------------------------------------------------------------------------
(* The verifier *)

\* A record of the exchange's settle of contract c, from the page or replayed.
OfExchange(a, c) == \E r \in Rows : Genuine(r) /\ r.contract = c /\ a = Settle(Cme, r)

\* A vendor's settle: its bytes name its date and price.
OfVendor(a) ==
    \E q \in Dates \X Prices : \E i \in Int :
        a = [source |-> Vendor, date |-> q[1], state |-> "final", price |-> q[2],
             iso |-> i, sha |-> q]

Sourced(answers, c) ==
    /\ DOMAIN answers \subseteq TierFilter(policy)
    /\ Cme \in DOMAIN answers => OfExchange(answers[Cme], c)
    /\ Vendor \in DOMAIN answers => OfVendor(answers[Vendor])
    /\ Echo \in DOMAIN answers => OfExchange(answers[Echo], c)

CallInv ==
    /\ call \in [stage : {"idle", "cme", "others"}, contract : Contracts \cup {Idle.contract},
                 asOf : Times, answers : {call.answers}]
    /\ scrape.pc # "idle" <=> call.stage = "cme"
    /\ call.asOf <= clock
    /\ call.stage = "cme" => /\ call.asOf = scrape.iso /\ call.answers = NoAnswers
                             /\ Cme \in TierFilter(policy)
    /\ Sourced(call.answers, call.contract)
    /\ DOMAIN call.answers \subseteq {Cme}
    /\ Cme \in DOMAIN call.answers =>
         \E r \in Archived(Year(Day(call.asOf))) :
            /\ r.contract = call.contract /\ r.date = Day(call.asOf)
            /\ call.answers[Cme] = Settle(Cme, r)
            /\ ~archive[Year(Day(call.asOf))].torn

\* The file of year y was torn by a crash: it stays so.
Lost(y) ==
    archive[y].torn /\ ~(scrape.pc \in {"merged", "writing"} /\ Year(scrape.date) = y)

(* A verified settle that the replay did not confirm, though it was asked, has *)
(* a lost file before its year; one that it did confirm has none.              *)
ReplayedInv(answers) ==
    /\ (Cme \in DOMAIN answers /\ Echo \notin DOMAIN answers /\ ~policy.t2) =>
         \E y \in Years : y < Year(answers[Cme].date) /\ Lost(y)
    /\ Echo \in DOMAIN answers =>
         /\ \A y \in Years : y < Year(answers[Echo].date) => ~archive[y].torn
         /\ scrape.pc # "idle" => answers[Echo].date <= scrape.date

VerdictInv ==
    /\ policy \in Policies
    /\ \A x \in verdicts :
          /\ x.v = SettleVerdict(policy, x.v.contract, x.answers)
          /\ x.v.kind = "verified"
          /\ Sourced(x.answers, x.v.contract)
          /\ ReplayedInv(x.answers)

------------------------------------------------------------------------------
(* Steps of the archive's own variables *)

ArchiveNext ==
    \/ Tick \/ Publish
    \/ \E c \in Contracts : BeginFetch(c)
    \/ FetchFails \/ Fetched \/ ReadArchive \/ ReadRaises \/ BeginWrite \/ EndWrite \/ Crash

\* A step of the pipeline is a step of the archive, or leaves it alone.
LEMMA PipelineSteps == [PipelineNext]_vars => [ArchiveNext]_archiveVars
BY DEF PipelineNext, ArchiveNext, World, VerifySettle, CmeWorks, CmeAnswers, CmeSilent,
       CmeRaises, Decide, ProcessCrash, vars

LEMMA WorldInit == Init => WorldInv
<1> SUFFICES ASSUME Init PROVE WorldInv
  OBVIOUS
<1>1. published = {page} /\ page \in Pages /\ clock = 0
  BY DEF Init
<1>2. clock \in Times
  BY <1>1, ArchiveAssumption DEF Times
<1>3. IsFiniteSet(published)
  BY <1>1, FS_Singleton
<1>4. page.sha \in Int /\ page.date \in Int /\ Rank[page.state] \in Int
  BY <1>1, ArchiveAssumption DEF Pages, Shas, Dates, Rank
<1> QED BY <1>1, <1>2, <1>3, <1>4 DEF WorldInv, NoLater

\* Pages have integer SHAs and dates, and a state with a rank.
LEMMA PageFacts ==
    ASSUME NEW p \in Pages
    PROVE  /\ p.sha \in Int /\ p.date \in Dates /\ p.date \in Int
           /\ p.state \in {"preliminary", "final"} /\ Rank[p.state] \in Int
<1>1. p.sha \in Shas /\ p.date \in Dates /\ p.state \in {"preliminary", "final"}
  BY DEF Pages
<1>2. p.sha \in Int
  BY <1>1, ArchiveAssumption DEF Shas
<1>3. p.date \in Int
  BY <1>1, DateFacts
<1> QED BY <1>1, <1>2, <1>3 DEF Rank

\* A new page has a SHA of its own; without a revision it is the last one.
LEMMA PublishFacts ==
    ASSUME WorldInv, Publish
    PROVE  /\ page' \in Pages /\ published' = published \cup {page'}
           /\ \/ \A q \in published : q.sha < page'.sha
              \/ \A q \in published : page'.sha < q.sha
           /\ \/ ~Unrevised'
              \/ (\A q \in published : q.sha < page'.sha) /\ NoLater(page, page')
<1> DEFINE shas == {q.sha : q \in published}
           above == Max(shas) + 1
           below == Min(shas) - 1
           follows(p) == \/ p.date = page.date /\ page.state = "preliminary" /\ p.state = "final"
                         \/ page.date < p.date /\ p.date = Day(clock) /\ p.state = "preliminary"
           revises(p) == /\ p.date = page.date /\ p.state = page.state /\ p.price # page.price
                         /\ Revisions < MaxRevisions
<1>1. PICK p \in Pages : /\ \/ p.sha = above /\ (follows(p) \/ revises(p))
                            \/ p.sha = below /\ revises(p)
                         /\ page' = p /\ published' = published \cup {p}
  BY DEF Publish
<1>2. \A q \in published : q.sha \in Int
  BY PageFacts DEF WorldInv
<1>3. Max(shas) \in Int /\ \A s \in shas : s <= Max(shas)
  <2>1. PICK m \in published : \A q \in published : q.sha <= m.sha
    BY DEF WorldInv
  <2>2. m.sha \in shas /\ \A s \in shas : m.sha >= s
    BY <1>2, <2>1
  <2>3. Max(shas) \in shas /\ \A s \in shas : Max(shas) >= s
    BY <2>2 DEF Max
  <2> QED BY <1>2, <2>3
<1>4. Min(shas) \in Int /\ \A s \in shas : Min(shas) <= s
  <2>1. PICK m \in published : \A q \in published : m.sha <= q.sha
    BY DEF WorldInv
  <2>2. m.sha \in shas /\ \A s \in shas : m.sha =< s
    BY <1>2, <2>1
  <2>3. Min(shas) \in shas /\ \A s \in shas : Min(shas) =< s
    BY <2>2 DEF Min
  <2> QED BY <1>2, <2>3
<1>5. /\ p.sha = above => \A q \in published : q.sha < p.sha
      /\ p.sha = below => \A q \in published : p.sha < q.sha
  <2>1. \A q \in published : q.sha \in shas
    OBVIOUS
  <2> HIDE DEF shas
  <2>2. \A q \in published : q.sha <= Max(shas) /\ Min(shas) <= q.sha
    BY <1>3, <1>4, <2>1
  <2> QED BY <1>2, <1>3, <1>4, <2>2
<1>6. revises(p) => ~Unrevised'
  BY <1>1 DEF Unrevised, WorldInv
<1>7. follows(p) => NoLater(page, p)
  BY PageFacts DEF NoLater, Rank, WorldInv
<1> QED BY <1>1, <1>5, <1>6, <1>7

LEMMA WorldPublish ==
    ASSUME WorldInv, Publish
    PROVE  WorldInv'
<1> DEFINE p == page'
<1>1. /\ p \in Pages /\ published' = published \cup {p} /\ published \subseteq Pages
      /\ page \in published /\ page \in Pages
  BY PublishFacts DEF WorldInv
<1>2. clock' \in Times /\ IsFiniteSet(published')
  BY <1>1, FS_AddElement DEF WorldInv, Publish
<1>3. \A q \in published' : /\ q.sha \in Int /\ q.date \in Int /\ Rank[q.state] \in Int
  BY <1>1, PageFacts
<1>4. \/ \A q \in published : q.sha < p.sha
      \/ \A q \in published : p.sha < q.sha
  BY PublishFacts
<1>5. \A q, r \in published' : q.sha = r.sha => q = r
  BY <1>1, <1>3, <1>4 DEF WorldInv
<1>6. \E m \in published' : \A q \in published' : q.sha <= m.sha
  <2>1. PICK m \in published : \A q \in published : q.sha <= m.sha
    BY DEF WorldInv
  <2>2. CASE \A q \in published : q.sha < p.sha
    <3>1. \A q \in published' : q.sha <= p.sha
      BY <1>1, <1>3, <2>2
    <3> QED BY <1>1, <3>1
  <2>3. CASE \A q \in published : p.sha < q.sha
    <3>1. \A q \in published' : q.sha <= m.sha
      BY <1>1, <1>3, <2>1, <2>3
    <3> QED BY <1>1, <3>1
  <2> QED BY <1>4, <2>2, <2>3
<1>7. \E m \in published' : \A q \in published' : m.sha <= q.sha
  <2>1. PICK m \in published : \A q \in published : m.sha <= q.sha
    BY DEF WorldInv
  <2>2. CASE \A q \in published : q.sha < p.sha
    <3>1. \A q \in published' : m.sha <= q.sha
      BY <1>1, <1>3, <2>1, <2>2
    <3> QED BY <1>1, <3>1
  <2>3. CASE \A q \in published : p.sha < q.sha
    <3>1. \A q \in published' : p.sha <= q.sha
      BY <1>1, <1>3, <2>3
    <3> QED BY <1>1, <3>1
  <2> QED BY <1>4, <2>2, <2>3
<1>8. ASSUME Unrevised'
      PROVE  \A q, r \in published' : r.sha <= p.sha /\ (q.sha <= r.sha => NoLater(q, r))
  <2>1. (\A q \in published : q.sha < p.sha) /\ NoLater(page, p)
    BY <1>8, PublishFacts
  <2>2. Unrevised
    BY <1>1, <1>8 DEF Unrevised
  <2>3. \A q, r \in published : r.sha <= page.sha /\ (q.sha <= r.sha => NoLater(q, r))
    BY <2>2 DEF WorldInv
  <2>4. \A q \in published : NoLater(q, p)
    <3> TAKE q \in published
    <3>1. NoLater(q, page)
      BY <1>1, <2>3
    <3> QED BY <1>1, <1>3, <2>1, <3>1 DEF NoLater
  <2>5. NoLater(p, p)
    BY <1>1, <1>3 DEF NoLater
  <2> HIDE DEF p
  <2> QED BY <1>1, <1>3, <2>1, <2>3, <2>4, <2>5
<1> QED BY <1>1, <1>2, <1>5, <1>6, <1>7, <1>8 DEF WorldInv

\* Time goes on, and what was published stays published.
LEMMA WorldStep ==
    ASSUME WorldInv, [ArchiveNext]_archiveVars
    PROVE  WorldInv' /\ clock <= clock' /\ published \subseteq published'
<1>1. CASE Publish
  <2>1. clock' = clock /\ clock \in Int
    BY <1>1, ArchiveAssumption DEF Publish, WorldInv, Times
  <2> QED BY <1>1, <2>1, WorldPublish, PublishFacts
<1>2. CASE Tick
  <2>1. clock \in Int /\ clock' \in Times /\ clock <= clock'
    BY <1>2, ArchiveAssumption DEF Tick, WorldInv, Times
  <2>2. page' = page /\ published' = published
    BY <1>2 DEF Tick
  <2> QED BY <2>1, <2>2 DEF WorldInv, Unrevised
<1>3. CASE UNCHANGED <<clock, page, published>>
  <2>1. clock \in Int
    BY ArchiveAssumption DEF WorldInv, Times
  <2> QED BY <1>3, <2>1 DEF WorldInv, Unrevised
<1> QED BY <1>1, <1>2, <1>3 DEF ArchiveNext, archiveVars, BeginFetch, FetchFails, Fetched,
           ReadArchive, ReadRaises, BeginWrite, EndWrite, Crash

------------------------------------------------------------------------------
(* The archive's operators *)

LEMMA RowFacts ==
    ASSUME NEW r \in Rows
    PROVE  /\ r.date \in Dates /\ r.date \in Int /\ r.iso \in Times /\ r.iso \in Int
           /\ Year(r.date) \in Years /\ r.sha \in Int /\ r.price \in Prices /\ r.price \in Nat
           /\ r.contract \in Contracts /\ r # None
<1>1. /\ r.date \in Dates /\ r.iso \in Times /\ r.sha \in Shas /\ r.price \in Prices
      /\ r.contract \in Contracts
  BY DEF Rows
<1>2. r.date \in Int /\ Year(r.date) \in Years
  BY <1>1, DateFacts
<1>3. r.iso \in Int /\ r.sha \in Int /\ r.price \in Nat
  <2>1. Prices \subseteq Nat
    BY ArchiveAssumption
  <2>2. r.iso \in Int /\ r.sha \in Int
    BY <1>1, ArchiveAssumption DEF Times, Shas
  <2> QED BY <1>1, <2>1, <2>2
<1>4. r # None
  <2>1. DOMAIN r = {"contract", "date", "state", "price", "iso", "sha"}
    BY DEF Rows
  <2>2. DOMAIN None = {"none"}
    BY DEF None
  <2> QED BY <2>1, <2>2
<1> QED BY <1>1, <1>2, <1>3, <1>4

LEMMA GenuineStays ==
    ASSUME NEW r, WorldInv, Genuine(r), clock <= clock', clock' \in Times,
           published \subseteq published'
    PROVE  Genuine(r)'
<1>1. clock \in Int /\ clock' \in Int /\ r.iso \in Int
  BY RowFacts, ArchiveAssumption DEF WorldInv, Genuine, Times
<1>2. r.iso <= clock'
  BY <1>1 DEF Genuine
<1> QED BY <1>2 DEF Genuine

\* The rows parsed from a page: genuine, of one fetch, one for each contract.
LEMMA ParsedFacts ==
    ASSUME NEW q \in published, WorldInv, NEW date \in Dates, NEW iso \in Times,
           date = Day(iso), iso <= clock
    PROVE  LET rows == Parsed(q, date, iso)
           IN  /\ \A r \in rows : /\ Genuine(r) /\ r.date = date /\ r.iso = iso
                                  /\ r.sha = q.sha /\ r.state = q.state
               /\ \A r, s \in rows : r.contract = s.contract => r = s
               /\ rows \subseteq Rows
               /\ Tidy(rows, Year(date))
<1> DEFINE rows == Parsed(q, date, iso)
<1>1. q \in Pages
  BY DEF WorldInv
<1>2. \A r \in rows : \E c \in Contracts : q.price[c] # Missing /\ r = BuildSettle(q, c, date, iso)
  BY DEF Parsed, Skipped
<1>3. ASSUME NEW c \in Contracts, q.price[c] # Missing
      PROVE  BuildSettle(q, c, date, iso) \in Rows
  <2>1. q.price[c] \in Prices /\ q.state \in States /\ q.sha \in Shas
    BY <1>1, <1>3 DEF Pages, States
  <2> QED BY <2>1 DEF BuildSettle, Rows
<1>4. \A r \in rows : /\ r \in Rows /\ r.date = date /\ r.iso = iso
                      /\ r.sha = q.sha /\ r.state = q.state /\ q.price[r.contract] = r.price
  <2> TAKE r \in rows
  <2>1. PICK c \in Contracts : q.price[c] # Missing /\ r = BuildSettle(q, c, date, iso)
    BY <1>2
  <2>2. r \in Rows
    BY <1>3, <2>1
  <2> QED BY <2>1, <2>2 DEF BuildSettle
<1>5. \A r, s \in rows : r.contract = s.contract => r = s
  BY <1>2 DEF BuildSettle
<1> HIDE DEF rows
<1>6. \A r \in rows : Genuine(r)
  BY <1>4 DEF Genuine
<1>7. Tidy(rows, Year(date))
  BY <1>4, <1>5, <1>6 DEF Tidy, Key
<1> QED BY <1>4, <1>5, <1>6, <1>7 DEF rows

\* The merged content is tidy again and has every key of both.
LEMMA MergeFacts ==
    ASSUME NEW y, NEW old, NEW new, Tidy(old, y), Tidy(new, y)
    PROVE  /\ Tidy(Merge(old, new), y)
           /\ Keys(old) \subseteq Keys(Merge(old, new))
           /\ Keys(new) \subseteq Keys(Merge(old, new))
<1>1. Tidy(Merge(old, new), y)
  <2>1. \A r \in Merge(old, new) : Genuine(r) /\ Year(r.date) = y
    BY DEF Tidy, Merge
  <2>2. ASSUME NEW r \in Merge(old, new), NEW q \in Merge(old, new), Key(r) = Key(q)
        PROVE  r = q
    BY <2>2 DEF Tidy, Merge, Keys
  <2> QED BY <2>1, <2>2 DEF Tidy
<1>2. Keys(old) \subseteq Keys(Merge(old, new)) /\ Keys(new) \subseteq Keys(Merge(old, new))
  BY DEF Keys, Merge
<1> QED BY <1>1, <1>2

\* Of a tidy file only the rows' own types are needed.
LEMMA TidyRows ==
    ASSUME NEW rows, NEW y, Tidy(rows, y)
    PROVE  rows \subseteq Rows
BY DEF Tidy, Genuine

------------------------------------------------------------------------------
(* The archive's invariant *)

\* Idle is a scrape.
LEMMA IdleType ==
    Idle \in [pc : {"idle", "fetching", "parsed", "merged", "writing"},
              iso : Times, date : Dates, contract : Contracts \cup {Idle.contract},
              rows : SUBSET Rows, base : SUBSET Rows]
<1>1. 0 \in Times
  BY ArchiveAssumption DEF Times
<1>2. Day(MaxTime) \in Nat
  BY ArchiveAssumption, DivFacts DEF Day
<1>3. 0 \in Dates
  BY <1>2 DEF Dates
<1> QED BY <1>1, <1>3 DEF Idle

LEMMA ArchiveInit == Init => ArchiveInv
<1> SUFFICES ASSUME Init PROVE ArchiveInv
  OBVIOUS
<1>1. WorldInv
  BY WorldInit
<1>2. /\ archive = [y \in Years |-> [exists |-> FALSE, torn |-> FALSE, rows |-> {}]]
      /\ scrape = Idle /\ returned = {}
  BY DEF Init
<1>3. archive \in [Years -> Files] /\ \A y \in Years : Archived(y) = {}
  BY <1>2 DEF Files, Archived
<1>4. \A y \in Years : Tidy(Archived(y), y)
  BY <1>3 DEF Tidy
<1>5. ScrapeInv
  <2>1. scrape.pc = "idle"
    BY <1>2 DEF Idle
  <2>2. scrape \in [pc : {"idle", "fetching", "parsed", "merged", "writing"},
                    iso : Times, date : Dates, contract : Contracts \cup {Idle.contract},
                    rows : SUBSET Rows, base : SUBSET Rows]
    BY <1>2, IdleType
  <2> QED BY <2>1, <2>2 DEF ScrapeInv
<1> QED BY <1>1, <1>2, <1>3, <1>4, <1>5 DEF ArchiveInv, ReturnedInv, HistoryKept

\* What the files and the history promise outlasts every step that leaves them.
LEMMA FilesStay ==
    ASSUME ArchiveInv, [ArchiveNext]_archiveVars, archive' = archive, returned' = returned
    PROVE  /\ WorldInv' /\ ReturnedInv' /\ HistoryKept'
           /\ archive' \in [Years -> Files]
           /\ \A y \in Years : Tidy(Archived(y), y)'
<1>1. WorldInv /\ WorldInv' /\ clock <= clock' /\ published \subseteq published'
  BY WorldStep DEF ArchiveInv
<1>2. \A r : Genuine(r) => Genuine(r)'
  BY <1>1, GenuineStays DEF WorldInv
<1>3. ReturnedInv' /\ HistoryKept'
  BY <1>1 DEF ArchiveInv, ReturnedInv, HistoryKept, Archived
<1>4. \A y \in Years : Tidy(Archived(y), y)'
  <2> TAKE y \in Years
  <2>1. Tidy(Archived(y), y)
    BY DEF ArchiveInv
  <2> QED BY <1>2, <2>1 DEF Tidy, Archived
<1> QED BY <1>1, <1>3, <1>4 DEF ArchiveInv

\* A step of the world leaves the scrape as it was.
LEMMA ScrapeWorld ==
    ASSUME ArchiveInv, Tick \/ Publish
    PROVE  ScrapeInv'
<1>1. UNCHANGED <<archive, scrape, seen, returned>>
  BY DEF Tick, Publish
<1>2. WorldInv /\ WorldInv' /\ clock <= clock' /\ published \subseteq published'
  BY WorldStep DEF ArchiveInv, ArchiveNext
<1>3. \A r : Genuine(r) => Genuine(r)'
  BY <1>2, GenuineStays DEF WorldInv
<1>4. scrape.iso <= clock => scrape.iso <= clock'
  <2>1. scrape.iso \in Times
    BY DEF ArchiveInv, ScrapeInv
  <2>2. scrape.iso \in Int /\ clock \in Int /\ clock' \in Int
    BY <1>2, <2>1, ArchiveAssumption DEF WorldInv, Times
  <2> QED BY <1>2, <2>2
<1>5. Tidy(scrape.base, Year(scrape.date)) => Tidy(scrape.base, Year(scrape.date))'
  BY <1>1, <1>3 DEF Tidy
<1> QED BY <1>1, <1>2, <1>4, <1>5 DEF ArchiveInv, ScrapeInv, Archived

\* A fetch begins, works in memory, or ends without a write.
LEMMA ScrapeReads ==
    ASSUME ArchiveInv, \/ \E c \in Contracts : BeginFetch(c)
                       \/ FetchFails \/ Fetched \/ ReadArchive \/ ReadRaises \/ Crash
    PROVE  ScrapeInv'
<1>1. UNCHANGED <<clock, page, published, archive, seen, returned>>
  BY DEF BeginFetch, FetchFails, Fetched, ReadArchive, ReadRaises, Crash
<1>2. CASE scrape' = Idle
  <2>1. scrape'.pc = "idle"
    BY <1>2 DEF Idle
  <2> QED BY <1>2, <2>1, IdleType DEF ScrapeInv
<1>3. ASSUME NEW c \in Contracts, BeginFetch(c)
      PROVE  ScrapeInv'
  <2>1. clock \in Times /\ Day(clock) \in Dates /\ clock <= clock
    BY DayFacts, ArchiveAssumption DEF ArchiveInv, WorldInv, Times
  <2>2. scrape' = [Idle EXCEPT !.pc = "fetching", !.contract = c, !.iso = clock, !.date = Day(clock)]
    BY <1>3 DEF BeginFetch
  <2>3. /\ scrape' \in [pc : {"idle", "fetching", "parsed", "merged", "writing"},
                        iso : Times, date : Dates, contract : Contracts \cup {Idle.contract},
                        rows : SUBSET Rows, base : SUBSET Rows]
        /\ scrape'.pc = "fetching" /\ scrape'.iso = clock /\ scrape'.date = Day(clock)
    BY <2>1, <2>2, IdleType
  <2> QED BY <1>1, <2>1, <2>3 DEF ScrapeInv
<1>4. CASE Fetched /\ scrape' # Idle
  <2> DEFINE rows == Parsed(page, scrape.date, scrape.iso)
  <2>1. scrape' = [scrape EXCEPT !.pc = "parsed", !.rows = rows] /\ scrape.pc = "fetching"
    BY <1>4 DEF Fetched
  <2>2. rows \subseteq Rows
    BY <2>1, ParsedFacts DEF ArchiveInv, ScrapeInv, WorldInv
  <2> HIDE DEF rows
  <2>3. /\ scrape' \in [pc : {"idle", "fetching", "parsed", "merged", "writing"},
                        iso : Times, date : Dates, contract : Contracts \cup {Idle.contract},
                        rows : SUBSET Rows, base : SUBSET Rows]
        /\ scrape'.pc = "parsed" /\ scrape'.rows = rows
        /\ scrape'.iso = scrape.iso /\ scrape'.date = scrape.date
    BY <2>1, <2>2 DEF ArchiveInv, ScrapeInv
  <2>4. page \in published
    BY DEF ArchiveInv, WorldInv
  <2>5. \E q \in published' : scrape'.rows = Parsed(q, scrape'.date, scrape'.iso)
    BY <1>1, <2>3, <2>4 DEF rows
  <2>6. scrape.iso <= clock /\ scrape.date = Day(scrape.iso)
    BY <2>1 DEF ArchiveInv, ScrapeInv
  <2> QED BY <1>1, <2>3, <2>5, <2>6 DEF ScrapeInv
<1>5. CASE ReadArchive
  <2> DEFINE base == Archived(Year(scrape.date))
  <2>1. /\ scrape' = [scrape EXCEPT !.pc = "merged", !.base = base] /\ scrape.pc = "parsed"
        /\ ~archive[Year(scrape.date)].torn
    BY <1>5 DEF ReadArchive
  <2>2. Year(scrape.date) \in Years
    BY DateFacts DEF ArchiveInv, ScrapeInv
  <2>3. base \subseteq Rows
    BY <2>2, TidyRows DEF ArchiveInv
  <2> HIDE DEF base
  <2>4. /\ scrape' \in [pc : {"idle", "fetching", "parsed", "merged", "writing"},
                        iso : Times, date : Dates, contract : Contracts \cup {Idle.contract},
                        rows : SUBSET Rows, base : SUBSET Rows]
        /\ scrape'.pc = "merged" /\ scrape'.rows = scrape.rows /\ scrape'.base = base
        /\ scrape'.iso = scrape.iso /\ scrape'.date = scrape.date
    BY <2>1, <2>3 DEF ArchiveInv, ScrapeInv
  <2>5. /\ scrape.iso <= clock /\ scrape.date = Day(scrape.iso)
        /\ \E q \in published : scrape.rows = Parsed(q, scrape.date, scrape.iso)
    BY <2>1 DEF ArchiveInv, ScrapeInv
  <2>6. scrape'.base = Archived(Year(scrape.date))'
    BY <1>1, <2>4 DEF base, Archived
  <2> QED BY <1>1, <2>1, <2>4, <2>5, <2>6 DEF ScrapeInv
<1> QED BY <1>2, <1>3, <1>4, <1>5 DEF FetchFails, ReadRaises, Crash, Fetched
\* The file is opened: torn and empty, while its content is in memory.
LEMMA ArchiveBeginWrite ==
    ASSUME ArchiveInv, BeginWrite
    PROVE  ArchiveInv'
<1> DEFINE y == Year(scrape.date)
<1>1. /\ scrape.pc = "merged" /\ ~archive[y].torn /\ scrape.base = Archived(y)
      /\ archive' = [archive EXCEPT ![y] = [exists |-> TRUE, torn |-> TRUE, rows |-> {}]]
      /\ scrape' = [scrape EXCEPT !.pc = "writing"]
      /\ UNCHANGED <<clock, page, published, seen, returned>>
  BY DEF BeginWrite, ArchiveInv, ScrapeInv
<1>2. y \in Years /\ archive \in [Years -> Files]
  BY DateFacts DEF ArchiveInv, ScrapeInv
<1>3. WorldInv'
  BY WorldStep DEF ArchiveInv, ArchiveNext
<1>4. \A r : Genuine(r)' <=> Genuine(r)
  BY <1>1 DEF Genuine
<1> HIDE DEF y
<1>5. /\ archive'[y] = [exists |-> TRUE, torn |-> TRUE, rows |-> {}]
      /\ \A z \in Years : z # y => archive'[z] = archive[z]
      /\ archive' \in [Years -> Files]
  BY <1>1, <1>2 DEF Files
<1>6. \A z \in Years : Tidy(Archived(z), z)'
  <2> TAKE z \in Years
  <2>1. Tidy(Archived(z), z)
    BY DEF ArchiveInv
  <2> QED BY <1>4, <1>5, <2>1 DEF Tidy, Archived
<1>7. /\ scrape' \in [pc : {"idle", "fetching", "parsed", "merged", "writing"},
                      iso : Times, date : Dates, contract : Contracts \cup {Idle.contract},
                      rows : SUBSET Rows, base : SUBSET Rows]
      /\ scrape'.pc = "writing" /\ scrape'.rows = scrape.rows /\ scrape'.base = scrape.base
      /\ scrape'.iso = scrape.iso /\ scrape'.date = scrape.date
  BY <1>1 DEF ArchiveInv, ScrapeInv
<1>8. /\ scrape.iso <= clock /\ scrape.date = Day(scrape.iso)
      /\ \E q \in published : scrape.rows = Parsed(q, scrape.date, scrape.iso)
  BY <1>1 DEF ArchiveInv, ScrapeInv
<1>9. Tidy(scrape.base, y)'
  <2>1. Tidy(scrape.base, y)
    BY <1>1, <1>2 DEF ArchiveInv
  <2> QED BY <1>4, <1>7, <2>1 DEF Tidy, y
<1>10. \A k \in returned : Year(k.date) = y => k \in Keys(scrape.base)
  BY <1>1 DEF ArchiveInv, HistoryKept
<1>11. ScrapeInv'
  <2>1. Year(scrape'.date) = y /\ y' = y
    BY <1>7 DEF y
  <2>2. archive'[Year(scrape'.date)].torn
    BY <1>5, <2>1
  <2>3. Tidy(scrape.base, Year(scrape.date))'
    BY <1>9, <2>1 DEF Tidy
  <2>4. Keys(scrape.base)' = Keys(scrape.base)
    BY <1>7 DEF Keys
  <2> QED BY <1>1, <1>7, <1>8, <1>10, <2>1, <2>2, <2>3, <2>4 DEF ScrapeInv
<1>12. ReturnedInv'
  BY <1>1 DEF ArchiveInv, ReturnedInv
<1>13. HistoryKept'
  <2> SUFFICES ASSUME NEW k \in returned
               PROVE  archive'[Year(k.date)].torn \/ k \in Keys(Archived(Year(k.date)))'
    BY <1>1 DEF HistoryKept, Archived, Keys
  <2>1. Year(k.date) \in Years
    BY RowFacts DEF ArchiveInv, ReturnedInv, Keys, Key
  <2>2. archive[Year(k.date)].torn \/ k \in Keys(Archived(Year(k.date)))
    BY DEF ArchiveInv, HistoryKept
  <2> QED BY <1>5, <2>1, <2>2 DEF Archived, Keys
<1> QED BY <1>3, <1>5, <1>6, <1>11, <1>12, <1>13 DEF ArchiveInv

\* The settles a finished fetch returns, and the file it leaves.
LEMMA EndWriteFacts ==
    ASSUME ArchiveInv, EndWrite
    PROVE  LET y == Year(scrape.date)
               final == Merge(scrape.base, scrape.rows)
           IN  /\ scrape.pc = "writing" /\ y \in Years /\ scrape.date \in Dates
               /\ archive'[y] = [exists |-> TRUE, torn |-> FALSE, rows |-> final]
               /\ \A z \in Years : z # y => archive'[z] = archive[z]
               /\ Tidy(final, y)
               /\ Tidy(scrape.rows, y)
               /\ Keys(scrape.base) \subseteq Keys(final)
               /\ Keys(scrape.rows) \subseteq Keys(final)
               /\ archive' \in [Years -> Files]
               /\ returned' = returned \cup Keys(scrape.rows)
               /\ scrape' = Idle
               /\ UNCHANGED <<clock, page, published>>
<1> DEFINE y == Year(scrape.date)
           final == Merge(scrape.base, scrape.rows)
<1>1. /\ scrape.pc = "writing" /\ scrape' = Idle
      /\ archive' = [archive EXCEPT ![y] = [exists |-> TRUE, torn |-> FALSE, rows |-> final]]
      /\ returned' = returned \cup Keys(scrape.rows)
      /\ UNCHANGED <<clock, page, published>>
  BY DEF EndWrite
<1>2. y \in Years /\ archive \in [Years -> Files] /\ scrape.date \in Dates /\ scrape.iso \in Times
  BY DateFacts DEF ArchiveInv, ScrapeInv
<1>3. Tidy(scrape.base, y) /\ scrape.iso <= clock /\ scrape.date = Day(scrape.iso)
  BY <1>1 DEF ArchiveInv, ScrapeInv
<1>4. PICK q \in published : scrape.rows = Parsed(q, scrape.date, scrape.iso)
  BY <1>1 DEF ArchiveInv, ScrapeInv
<1>5. Tidy(scrape.rows, y)
  BY <1>2, <1>3, <1>4, ParsedFacts DEF ArchiveInv
<1>6. /\ Tidy(final, y) /\ Keys(scrape.base) \subseteq Keys(final)
      /\ Keys(scrape.rows) \subseteq Keys(final)
  BY <1>3, <1>5, MergeFacts
<1>7. final \subseteq Rows
  BY <1>6, TidyRows
<1> HIDE DEF y, final
<1>8. /\ archive'[y] = [exists |-> TRUE, torn |-> FALSE, rows |-> final]
      /\ \A z \in Years : z # y => archive'[z] = archive[z]
      /\ archive' \in [Years -> Files]
  BY <1>1, <1>2, <1>7 DEF Files
<1> QED BY <1>1, <1>2, <1>5, <1>6, <1>8 DEF y, final

LEMMA ArchiveEndWrite ==
    ASSUME ArchiveInv, EndWrite
    PROVE  ArchiveInv'
<1> DEFINE y == Year(scrape.date)
           final == Merge(scrape.base, scrape.rows)
<1>1. /\ scrape.pc = "writing" /\ y \in Years
      /\ archive'[y] = [exists |-> TRUE, torn |-> FALSE, rows |-> final]
      /\ \A z \in Years : z # y => archive'[z] = archive[z]
      /\ Tidy(final, y) /\ Tidy(scrape.rows, y)
      /\ Keys(scrape.base) \subseteq Keys(final) /\ Keys(scrape.rows) \subseteq Keys(final)
      /\ archive' \in [Years -> Files]
      /\ returned' = returned \cup Keys(scrape.rows)
      /\ scrape' = Idle
      /\ UNCHANGED <<clock, page, published>>
  BY EndWriteFacts
<1>2. WorldInv'
  BY WorldStep DEF ArchiveInv, ArchiveNext
<1>3. \A r : Genuine(r)' <=> Genuine(r)
  BY <1>1 DEF Genuine
<1>4. ScrapeInv'
  <2>1. scrape'.pc = "idle"
    BY <1>1 DEF Idle
  <2> QED BY <1>1, <2>1, IdleType DEF ScrapeInv
<1>5. \A k \in returned : Year(k.date) = y => k \in Keys(scrape.base)
  BY <1>1 DEF ArchiveInv, ScrapeInv
<1> HIDE DEF y, final
<1>6. \A z \in Years : Tidy(Archived(z), z)'
  <2> TAKE z \in Years
  <2>1. Tidy(Archived(z), z)
    BY DEF ArchiveInv
  <2>2. CASE z = y
    BY <1>1, <1>3, <2>2 DEF Tidy, Archived
  <2>3. CASE z # y
    BY <1>1, <1>3, <2>1, <2>3 DEF Tidy, Archived
  <2> QED BY <2>2, <2>3
<1>7. \A k \in Keys(scrape.rows) : /\ k \in Keys(Rows) /\ Year(k.date) = y
                                   /\ \E q \in published : q.sha = k.sha
  BY <1>1 DEF Tidy, Genuine, Keys, Key
<1>8. ReturnedInv'
  BY <1>1, <1>7 DEF ArchiveInv, ReturnedInv
<1>9. HistoryKept'
  <2> SUFFICES ASSUME NEW k \in returned'
               PROVE  archive'[Year(k.date)].torn \/ k \in Keys(Archived(Year(k.date)))'
    BY DEF HistoryKept, Archived, Keys
  <2>1. CASE Year(k.date) = y
    <3>1. k \in Keys(final)
      BY <1>1, <1>5, <1>7, <2>1
    <3> QED BY <1>1, <2>1, <3>1 DEF Archived, Keys
  <2>2. CASE Year(k.date) # y
    <3>1. k \in returned
      BY <1>1, <1>7, <2>2
    <3>2. Year(k.date) \in Years
      BY <3>1, RowFacts DEF ArchiveInv, ReturnedInv, Keys, Key
    <3>3. archive[Year(k.date)].torn \/ k \in Keys(Archived(Year(k.date)))
      BY <3>1 DEF ArchiveInv, HistoryKept
    <3> QED BY <1>1, <2>2, <3>2, <3>3 DEF Archived, Keys
  <2> QED BY <2>1, <2>2
<1> QED BY <1>1, <1>2, <1>4, <1>6, <1>8, <1>9 DEF ArchiveInv

LEMMA ArchiveStep ==
    ASSUME ArchiveInv, [ArchiveNext]_archiveVars
    PROVE  ArchiveInv'
<1>1. CASE BeginWrite
  BY <1>1, ArchiveBeginWrite
<1>2. CASE EndWrite
  BY <1>2, ArchiveEndWrite
<1>3. CASE Tick \/ Publish
  <2>1. archive' = archive /\ returned' = returned
    BY <1>3 DEF Tick, Publish
  <2> QED BY <1>3, <2>1, ScrapeWorld, FilesStay DEF ArchiveInv
<1>4. CASE \/ \E c \in Contracts : BeginFetch(c)
           \/ FetchFails \/ Fetched \/ ReadArchive \/ ReadRaises \/ Crash
  <2>1. archive' = archive /\ returned' = returned
    BY <1>4 DEF BeginFetch, FetchFails, Fetched, ReadArchive, ReadRaises, Crash
  <2> QED BY <1>4, <2>1, ScrapeReads, FilesStay DEF ArchiveInv
<1>5. CASE UNCHANGED archiveVars
  BY <1>5 DEF archiveVars, ArchiveInv, WorldInv, Unrevised, ScrapeInv, ReturnedInv, HistoryKept,
              Tidy, Genuine, Archived, Keys
<1> QED BY <1>1, <1>2, <1>3, <1>4, <1>5 DEF ArchiveNext

------------------------------------------------------------------------------
(* The replay's invariant *)

LEMMA LiveInit == Init => LiveInv
<1> SUFFICES ASSUME Init, NEW c \in Contracts
             PROVE  seen[c] = None /\ \A y \in Years : \A r \in Content(y) : r.contract # c
  BY DEF LiveInv, Followed
<1>1. scrape.pc = "idle" /\ seen[c] = None /\ \A y \in Years : Archived(y) = {}
  BY DEF Init, Idle, Archived
<1> QED BY <1>1 DEF Content, Written

\* The premises of the replay's promise were true before if they are now.
LEMMA StraddleWasFree ==
    ASSUME ArchiveInv, [ArchiveNext]_archiveVars, returned \subseteq returned'
    PROVE  (Unrevised' => Unrevised) /\ (StraddleFree' => StraddleFree)
<1>1. WorldInv /\ WorldInv' /\ published \subseteq published'
  BY WorldStep DEF ArchiveInv
<1>2. Unrevised' => Unrevised
  BY <1>1 DEF Unrevised
<1>3. ASSUME StraddleFree', NEW k \in returned
      PROVE  \E q \in published : q.sha = k.sha /\ q.date = k.date
  <2>1. PICK q \in published' : q.sha = k.sha /\ q.date = k.date
    BY <1>3 DEF StraddleFree
  <2>2. PICK p \in published : p.sha = k.sha
    BY DEF ArchiveInv, ReturnedInv
  <2>3. p = q
    BY <1>1, <2>1, <2>2 DEF WorldInv
  <2> QED BY <2>1, <2>2, <2>3
<1> QED BY <1>2, <1>3 DEF StraddleFree

\* A step that changes no content and no answer keeps the last settles last.
LEMMA FollowedStays ==
    ASSUME ArchiveInv, [ArchiveNext]_archiveVars, NEW c \in Contracts, Followed(c),
           seen' = seen, returned' = returned,
           \A y \in Years : Content(y)' = Content(y),
           (scrape'.pc \in {"parsed", "merged", "writing"} /\ seen[c] # None) =>
               \A r \in scrape'.rows : seen[c].sha <= r.sha
    PROVE  Followed(c)'
<1>1. CASE seen[c] = None
  BY <1>1 DEF Followed
<1>2. CASE seen[c] # None
  <2>1. Latest(c)
    BY <1>2 DEF Followed
  <2>2. Genuine(seen[c])'
    <3>1. \A r : Genuine(r) => Genuine(r)'
      BY WorldStep, GenuineStays DEF ArchiveInv, WorldInv
    <3> QED BY <2>1, <3>1 DEF Latest, Genuine
  <2>3. seen[c] \in Content(Year(seen[c].date))'
    <3>1. Year(seen[c].date) \in Years
      BY <2>1, RowFacts DEF Latest, Genuine
    <3>2. Content(Year(seen[c].date))' = Content(Year(seen[c].date))
      BY <3>1 DEF Content, Archived, Written
    <3> QED BY <2>1, <3>2 DEF Latest
  <2>4. Latest(c)'
    BY <1>2, <2>1, <2>2, <2>3 DEF Latest
  <2> QED BY <1>2, <2>4 DEF Followed
<1> QED BY <1>1, <1>2
\* A fetch in progress has rows no older than any settle returned before.
LEMMA FetchedIsLast ==
    ASSUME ArchiveInv, Unrevised, Fetched, scrape'.pc # "idle",
           NEW c \in Contracts, seen[c] # None, Latest(c)
    PROVE  \A r \in scrape'.rows : seen[c].sha <= r.sha
<1>1. scrape' = [scrape EXCEPT !.pc = "parsed", !.rows = Parsed(page, scrape.date, scrape.iso)]
  BY DEF Fetched, Idle
<1>2. scrape'.rows = Parsed(page, scrape.date, scrape.iso)
  BY <1>1 DEF ArchiveInv, ScrapeInv
<1>3. \A r \in scrape'.rows : r.sha = page.sha
  BY <1>2 DEF Parsed, BuildSettle
<1>4. PICK q \in published : q.sha = seen[c].sha
  BY DEF Latest, Genuine
<1>5. q.sha <= page.sha
  BY DEF ArchiveInv, WorldInv
<1> QED BY <1>3, <1>4, <1>5

\* The file being written is torn, so a crash in mid-write breaks the premise.
LEMMA LiveReads ==
    ASSUME ArchiveInv, LiveInv,
           \/ Tick \/ Publish
           \/ \E c \in Contracts : BeginFetch(c)
           \/ FetchFails \/ Fetched \/ ReadArchive \/ ReadRaises \/ Crash
    PROVE  LiveInv'
<1>1. [ArchiveNext]_archiveVars
  BY DEF ArchiveNext
<1>2. archive' = archive /\ returned' = returned /\ seen' = seen
  BY DEF Tick, Publish, BeginFetch, FetchFails, Fetched, ReadArchive, ReadRaises, Crash
<1> SUFFICES ASSUME Unrevised', NoTear', StraddleFree', NEW c \in Contracts
             PROVE  Followed(c)'
  BY DEF LiveInv
<1>3. Unrevised /\ StraddleFree
  BY <1>1, <1>2, StraddleWasFree
<1>4. \A y \in Years : Written(y)' <=> Written(y)
  <2>1. CASE scrape.pc = "writing"
    <3>1. archive[Year(scrape.date)].torn /\ Year(scrape.date) \in Years
      BY <2>1, DateFacts DEF ArchiveInv, ScrapeInv
    <3>2. archive'[Year(scrape.date)].torn
      BY <1>2, <3>1
    <3>3. scrape' # Idle
      BY <3>1, <3>2 DEF NoTear, Written, Idle
    <3>4. scrape' = scrape
      BY <2>1, <3>3 DEF Tick, Publish, BeginFetch, FetchFails, Fetched, ReadArchive, ReadRaises, Crash
    <3> QED BY <3>4 DEF Written
  <2>2. CASE scrape.pc # "writing"
    <3>1. CASE scrape' = scrape \/ scrape' = Idle
      BY <2>2, <3>1 DEF Written, Idle
    <3>2. CASE \E d \in Contracts : BeginFetch(d)
      BY <2>2, <3>2 DEF Written, BeginFetch, Idle
    <3>3. CASE (Fetched /\ scrape' # Idle) \/ ReadArchive
      BY <2>2, <3>3 DEF Written, Fetched, ReadArchive, ArchiveInv, ScrapeInv
    <3> QED BY <3>1, <3>2, <3>3 DEF Tick, Publish, FetchFails, ReadRaises, Crash
  <2> QED BY <2>1, <2>2
<1>5. NoTear
  BY <1>2, <1>4 DEF NoTear
<1>6. Followed(c)
  BY <1>3, <1>5 DEF LiveInv
<1>7. \A y \in Years : Content(y)' = Content(y)
  <2> TAKE y \in Years
  <2>1. CASE Written(y)
    <3>1. scrape' = scrape
      BY <1>4, <2>1 DEF Written, Tick, Publish, BeginFetch, FetchFails, Fetched, ReadArchive,
                        ReadRaises, Crash, Idle
    <3> QED BY <1>2, <3>1 DEF Content, Written, Archived
  <2>2. CASE ~Written(y)
    <3>1. Content(y) = Archived(y)
      BY <2>2 DEF Content
    <3>2. Content(y)' = Archived(y)'
      BY <1>4, <2>2 DEF Content
    <3> QED BY <1>2, <3>1, <3>2 DEF Archived
  <2> QED BY <2>1, <2>2
<1>8. ASSUME scrape'.pc \in {"parsed", "merged", "writing"}, seen[c] # None
      PROVE  \A r \in scrape'.rows : seen[c].sha <= r.sha
  <2>1. Latest(c)
    BY <1>6, <1>8 DEF Followed
  <2>2. CASE Fetched
    BY <1>3, <1>8, <2>1, <2>2, FetchedIsLast
  <2>3. CASE scrape' = scrape
    BY <1>8, <2>1, <2>3 DEF Latest
  <2>4. CASE ReadArchive
    <3>1. scrape.pc = "parsed" /\ scrape'.rows = scrape.rows
      BY <2>4 DEF ReadArchive, ArchiveInv, ScrapeInv
    <3> QED BY <2>1, <3>1 DEF Latest
  <2>5. CASE scrape' = Idle
    BY <1>8, <2>5 DEF Idle
  <2>6. CASE \E d \in Contracts : BeginFetch(d)
    BY <1>8, <2>6 DEF BeginFetch, Idle
  <2> QED BY <2>2, <2>3, <2>4, <2>5, <2>6 DEF Tick, Publish, FetchFails, ReadRaises, Crash
<1> QED BY <1>1, <1>2, <1>6, <1>7, <1>8, FollowedStays

LEMMA LiveBeginWrite ==
    ASSUME ArchiveInv, LiveInv, BeginWrite
    PROVE  LiveInv'
<1> DEFINE z == Year(scrape.date)
<1>1. [ArchiveNext]_archiveVars
  BY DEF ArchiveNext
<1>2. /\ scrape.pc = "merged" /\ ~archive[z].torn /\ scrape.base = Archived(z) /\ z \in Years
      /\ archive' = [archive EXCEPT ![z] = [exists |-> TRUE, torn |-> TRUE, rows |-> {}]]
      /\ scrape' = [scrape EXCEPT !.pc = "writing"]
      /\ returned' = returned /\ seen' = seen
      /\ archive \in [Years -> Files]
  BY DateFacts DEF BeginWrite, ArchiveInv, ScrapeInv
<1>3. /\ scrape'.pc = "writing" /\ scrape'.rows = scrape.rows /\ scrape'.base = scrape.base
      /\ scrape'.date = scrape.date
  BY <1>2 DEF ArchiveInv, ScrapeInv
<1>4. \A y \in Years : y # z => archive'[y] = archive[y]
  BY <1>2
<1>5. \A y \in Years : ~Written(y) /\ (Written(y)' <=> y = z)
  BY <1>2, <1>3 DEF Written
<1> SUFFICES ASSUME Unrevised', NoTear', StraddleFree', NEW c \in Contracts
             PROVE  Followed(c)'
  BY DEF LiveInv
<1>6. Unrevised /\ StraddleFree
  BY <1>1, <1>2, StraddleWasFree
<1> HIDE DEF z
<1>7. NoTear
  BY <1>2, <1>4, <1>5 DEF NoTear
<1>8. Followed(c)
  BY <1>6, <1>7 DEF LiveInv
<1>9. \A y \in Years : Content(y)' = Content(y)
  BY <1>2, <1>3, <1>4, <1>5 DEF Content, Archived
<1>10. seen[c] # None => \A r \in scrape'.rows : seen[c].sha <= r.sha
  BY <1>2, <1>3, <1>8 DEF Followed, Latest
<1> QED BY <1>1, <1>2, <1>8, <1>9, <1>10, FollowedStays
\* Two genuine settles of pages in their published order are in that order.
LEMMA PagesOrder ==
    ASSUME WorldInv, Unrevised, NEW r, NEW s, Genuine(r), Genuine(s), r.sha <= s.sha,
           \E q \in published : q.sha = r.sha /\ q.date = r.date,
           \E q \in published : q.sha = s.sha /\ q.date = s.date
    PROVE  Precedes(r, s)
<1>1. PICK p \in published : p.sha = r.sha /\ p.date = r.date
  OBVIOUS
<1>2. PICK q \in published : q.sha = s.sha /\ q.date = s.date
  OBVIOUS
<1>3. p.state = r.state /\ q.state = s.state
  BY <1>1, <1>2 DEF Genuine, WorldInv
<1>4. NoLater(p, q)
  BY <1>1, <1>2 DEF WorldInv
<1>5. /\ p.state \in {"preliminary", "final"} /\ q.state \in {"preliminary", "final"}
      /\ p.date \in Int /\ q.date \in Int
  BY PageFacts DEF WorldInv
<1> QED BY <1>1, <1>2, <1>3, <1>4, <1>5 DEF NoLater, Precedes, Rank

LEMMA PrecedesTransitive ==
    ASSUME NEW r \in Rows, NEW s \in Rows, NEW t \in Rows, Precedes(r, s), Precedes(s, t)
    PROVE  Precedes(r, t)
<1>1. /\ r.date \in Int /\ s.date \in Int /\ t.date \in Int
      /\ r.sha \in Int /\ s.sha \in Int /\ t.sha \in Int
  BY RowFacts
<1>2. r.state \in States /\ s.state \in States /\ t.state \in States
  BY DEF Rows
<1>3. \A x \in States : Rank[x] \in Int
  BY DEF States, Rank
<1> QED BY <1>1, <1>2, <1>3 DEF Precedes

LEMMA LiveEndWrite ==
    ASSUME ArchiveInv, LiveInv, EndWrite
    PROVE  LiveInv'
<1> DEFINE z == Year(scrape.date)
           final == Merge(scrape.base, scrape.rows)
<1>1. /\ scrape.pc = "writing" /\ z \in Years /\ scrape.date \in Dates
      /\ archive'[z] = [exists |-> TRUE, torn |-> FALSE, rows |-> final]
      /\ \A y \in Years : y # z => archive'[y] = archive[y]
      /\ Tidy(final, z) /\ Tidy(scrape.rows, z)
      /\ returned' = returned \cup Keys(scrape.rows)
      /\ scrape' = Idle
      /\ UNCHANGED <<clock, page, published>>
  BY EndWriteFacts
<1>2. scrape'.pc = "idle"
  BY <1>1 DEF Idle
<1>3. [ArchiveNext]_archiveVars
  BY DEF ArchiveNext
<1>4. \A r : Genuine(r)' <=> Genuine(r)
  BY <1>1 DEF Genuine
<1>5. \A r, s \in scrape.rows : r.contract = s.contract => r = s
  <2>1. PICK q \in published : scrape.rows = Parsed(q, scrape.date, scrape.iso)
    BY <1>1 DEF ArchiveInv, ScrapeInv
  <2> QED BY <2>1 DEF Parsed, BuildSettle
<1>6. \A c \in Contracts : seen'[c] = IF Answer(c, scrape.rows) = None THEN seen[c]
                                      ELSE Answer(c, scrape.rows)
  BY DEF EndWrite
<1>7. \A y \in Years : /\ Content(y) = IF y = z THEN scrape.base ELSE Archived(y)
                       /\ Content(y)' = IF y = z THEN final ELSE Archived(y)
  BY <1>1, <1>2 DEF Content, Written, Archived
<1> SUFFICES ASSUME Unrevised', NoTear', StraddleFree', NEW c \in Contracts
             PROVE  Followed(c)'
  BY DEF LiveInv
<1>8. Unrevised /\ StraddleFree
  BY <1>1, <1>3, StraddleWasFree
<1>9. NoTear
  BY <1>1, <1>2 DEF NoTear, Written
<1>10. Followed(c)
  BY <1>8, <1>9 DEF LiveInv
<1>11. CASE \E r \in scrape.rows : r.contract = c
  <2> DEFINE s == Answer(c, scrape.rows)
  <2>1. s \in scrape.rows /\ s.contract = c
    BY <1>11 DEF Answer
  <2>2. Genuine(s) /\ s \in Rows /\ Year(s.date) = z /\ Key(s) \in Keys(scrape.rows)
    BY <1>1, <2>1 DEF Tidy, Genuine, Keys
  <2> HIDE DEF s
  <2>3. s # None
    BY <2>2, RowFacts
  <2>4. seen'[c] = s
    BY <1>6, <2>3 DEF s
  <2>5. s \in final
    BY <2>1 DEF Merge
  <2>6. \E q \in published : q.sha = s.sha /\ q.date = s.date
    BY <1>1, <2>2 DEF StraddleFree, Key
  <2>7. seen[c] # None => Precedes(seen[c], s)
    <3> SUFFICES ASSUME seen[c] # None PROVE Precedes(seen[c], s)
      OBVIOUS
    <3>1. Latest(c)
      BY <1>10 DEF Followed
    <3>2. /\ Genuine(seen[c]) /\ seen[c].sha <= s.sha
          /\ \E q \in published : q.sha = seen[c].sha /\ q.date = seen[c].date
      BY <1>1, <1>8, <2>1, <3>1 DEF Latest, StraddleFree, Key
    <3> QED BY <1>8, <2>2, <2>6, <3>2, PagesOrder DEF ArchiveInv
  <2>8. Precedes(s, s)
    BY <2>2, RowFacts DEF Precedes
  <2>9. \A y \in Years : \A r \in Content(y)' : r.contract = c => Precedes(r, s)
    <3> SUFFICES ASSUME NEW y \in Years, NEW r \in Content(y)', r.contract = c
                 PROVE  Precedes(r, s)
      OBVIOUS
    <3>1. r \in scrape.rows => r = s
      BY <1>5, <2>1
    <3>2. r \in scrape.rows \/ r \in Content(y)
      BY <1>7 DEF Merge
    <3>3. ASSUME r \in Content(y)
          PROVE  Precedes(r, s)
      <4>1. seen[c] # None /\ Latest(c)
        BY <1>10, <3>3 DEF Followed
      <4>2. Precedes(r, seen[c]) /\ Precedes(seen[c], s) /\ seen[c] \in Rows
        BY <2>7, <3>3, <4>1 DEF Latest, Genuine
      <4>3. r \in Rows
        <5>1. Tidy(Archived(y), y) /\ Tidy(scrape.base, z)
          BY <1>1 DEF ArchiveInv, ScrapeInv
        <5> QED BY <1>7, <3>3, <5>1, TidyRows
      <4> QED BY <2>2, <4>2, <4>3, PrecedesTransitive
    <3> QED BY <2>8, <3>1, <3>2, <3>3
  <2>10. seen'[c] \in Content(Year(seen[c].date))'
    <3>1. Year(seen'[c].date) = z
      BY <2>2, <2>4
    <3>2. Content(Year(seen[c].date))' = final
      BY <1>1, <1>2, <3>1 DEF Content, Written, Archived
    <3> QED BY <2>4, <2>5, <3>2
  <2>11. Latest(c)'
    BY <1>1, <1>2, <1>4, <2>1, <2>2, <2>4, <2>9, <2>10 DEF Latest, Genuine
  <2> QED BY <2>3, <2>4, <2>11 DEF Followed
<1>12. CASE ~\E r \in scrape.rows : r.contract = c
  <2>1. seen'[c] = seen[c]
    BY <1>6, <1>12 DEF Answer
  <2>2. \A y \in Years : \A r \in Content(y)' : r.contract = c => r \in Content(y)
    BY <1>7, <1>12 DEF Merge
  <2>3. CASE seen[c] = None
    BY <1>10, <2>1, <2>2, <2>3 DEF Followed
  <2>4. CASE seen[c] # None
    <3>1. Latest(c)
      BY <1>10, <2>4 DEF Followed
    <3>2. Genuine(seen[c]) /\ seen[c].contract = c /\ Year(seen[c].date) \in Years
      BY <3>1, RowFacts DEF Latest, Genuine
    <3>3. seen[c] \in Content(Year(seen[c].date))'
      <4>1. Key(seen[c]) \notin Keys(scrape.rows)
        BY <1>12, <3>2 DEF Keys, Key
      <4>2. seen[c] \in Content(Year(seen[c].date))
        BY <3>1 DEF Latest
      <4>3. CASE Year(seen[c].date) = z
        <5>1. seen[c] \in final
          BY <1>7, <3>2, <4>1, <4>2, <4>3 DEF Merge
        <5>2. Content(Year(seen[c].date))' = final
          BY <1>1, <1>2, <2>1, <4>3 DEF Content, Written, Archived
        <5> QED BY <5>1, <5>2
      <4>4. CASE Year(seen[c].date) # z
        <5>1. seen[c] \in Archived(Year(seen[c].date))
          BY <1>7, <3>2, <4>2, <4>4
        <5>2. Content(Year(seen[c].date))' = Archived(Year(seen[c].date))
          BY <1>1, <1>2, <2>1, <3>2, <4>4 DEF Content, Written, Archived
        <5> QED BY <5>1, <5>2
      <4> QED BY <4>3, <4>4
    <3>4. Latest(c)'
      BY <1>1, <1>2, <1>4, <2>1, <2>2, <3>1, <3>3 DEF Latest, Genuine
    <3> QED BY <2>1, <2>4, <3>4 DEF Followed
  <2> QED BY <2>3, <2>4
<1> QED BY <1>11, <1>12

LEMMA LiveStep ==
    ASSUME ArchiveInv, LiveInv, [ArchiveNext]_archiveVars
    PROVE  LiveInv'
<1>1. CASE UNCHANGED archiveVars
  BY <1>1 DEF archiveVars, LiveInv, Unrevised, NoTear, StraddleFree, Followed, Latest, Genuine,
              Content, Written, Archived
<1> QED BY <1>1, LiveReads, LiveBeginWrite, LiveEndWrite DEF ArchiveNext

\* As many pages as days and states: no day and state was published twice.
LEMMA NoRevisions ==
    ASSUME WorldInv, Revisions = 0
    PROVE  Unrevised
<1> DEFINE f == [p \in published |-> <<p.date, p.state>>]
           T == {<<p.date, p.state>> : p \in published}
<1>1. f \in Surjection(published, T)
  BY DEF Surjection
<1>2. IsFiniteSet(published)
  BY DEF WorldInv
<1>3. IsFiniteSet(T) /\ (Cardinality(T) = Cardinality(published) <=> f \in Injection(published, T))
  BY <1>1, <1>2, FS_Surjection
<1>4. Cardinality(T) \in Nat /\ Cardinality(published) \in Nat
  BY <1>2, <1>3, FS_CardinalityType
<1>5. Cardinality(published) - Cardinality(T) = 0
  BY DEF Revisions
<1>6. f \in Injection(published, T)
  BY <1>3, <1>4, <1>5
<1>7. \A p, q \in published : f[p] = f[q] => p = q
  <2> HIDE DEF f, T
  <2> QED BY <1>6 DEF Injection, IsInjective
<1> QED BY <1>7 DEF Unrevised

\* The rows the replay chooses from have one last row: the settle seen last.
LEMMA LiveImpliesReplay ==
    ASSUME ArchiveInv, LiveInv
    PROVE  ReplayIsLive
<1> SUFFICES ASSUME Revisions = 0, ~\E y \in Years : archive[y].torn,
                    \A r \in returned : \E q \in published : q.sha = r.sha /\ q.date = r.date,
                    NEW c \in Contracts, seen[c] # None
             PROVE  Replay(c, clock) = seen[c]
  BY DEF ReplayIsLive
<1>1. Unrevised /\ NoTear /\ StraddleFree
  BY NoRevisions DEF ArchiveInv, NoTear, StraddleFree
<1>2. Latest(c)
  BY <1>1 DEF LiveInv, Followed
<1>3. scrape.pc # "writing"
  BY DateFacts DEF ArchiveInv, ScrapeInv
<1>4. \A y \in Years : Content(y) = Archived(y)
  BY <1>3 DEF Content, Written
<1> DEFINE s == seen[c]
           rows == Candidates(c, clock)
<1>5. clock \in Times
  BY DEF ArchiveInv, WorldInv
<1>6. /\ Genuine(s) /\ s \in Rows /\ s.contract = c /\ Year(s.date) \in Years
      /\ s \in Archived(Year(s.date))
      /\ \A y \in Years : \A r \in Archived(y) : r.contract = c => Precedes(r, s)
  BY <1>2, <1>4, RowFacts DEF Latest, Genuine
<1>7. s.date <= Day(clock) /\ Year(s.date) <= Year(Day(clock))
  BY <1>5, <1>6, RowFacts, DayFacts DEF Genuine
<1> HIDE DEF s
<1>8. s \in rows
  BY <1>6, <1>7 DEF Candidates, YearsUpTo
<1>9. \A r \in rows : /\ Precedes(r, s) /\ r \in Rows /\ r.contract = c
                      /\ r \in Archived(Year(r.date)) /\ Year(r.date) \in Years
  <2> TAKE r \in rows
  <2>1. PICK y \in Years : r \in Archived(y) /\ r.contract = c
    BY DEF Candidates, YearsUpTo
  <2>2. Tidy(Archived(y), y)
    BY DEF ArchiveInv
  <2>3. r \in Rows /\ Year(r.date) = y
    BY <2>1, <2>2 DEF Tidy, Genuine
  <2> QED BY <1>6, <2>1, <2>3
<1>10. ASSUME NEW t \in rows, \A r \in rows : Precedes(r, t)
       PROVE  t = s
  <2>1. Precedes(t, s) /\ Precedes(s, t)
    BY <1>8, <1>9, <1>10
  <2>2. /\ t \in Rows /\ t.state \in States /\ s.state \in States
        /\ t.date \in Int /\ s.date \in Int /\ t.sha \in Int /\ s.sha \in Int
    BY <1>6, <1>9, RowFacts DEF Rows
  <2>3. t.date = s.date /\ t.state = s.state /\ t.sha = s.sha
    BY <2>1, <2>2 DEF Precedes, States, Rank
  <2>4. Key(t) = Key(s)
    BY <1>6, <1>9, <2>3 DEF Key
  <2>5. Tidy(Archived(Year(s.date)), Year(s.date))
    BY <1>6 DEF ArchiveInv
  <2> QED BY <1>6, <1>9, <2>3, <2>4, <2>5 DEF Tidy
<1> HIDE DEF rows
<1>11. (CHOOSE t \in rows : \A r \in rows : Precedes(r, t)) = s
  BY <1>8, <1>9, <1>10
<1> QED BY <1>8, <1>11 DEF Replay, rows, s

------------------------------------------------------------------------------
(* The replay's choice *)

\* A set of naturals has a least element.
LEMMA LeastNat ==
    ASSUME NEW T \in SUBSET Nat, T # {}
    PROVE  \E m \in T : \A n \in T : m <= n
<1>1. \E m \in T : \A n \in T : ~(<<n, m>> \in OpToRel(<, Nat))
  BY NatLessThanWellFounded, WFMin
<1>2. PICK m \in T : \A n \in T : ~(<<n, m>> \in OpToRel(<, Nat))
  BY <1>1
<1>3. \A n \in T : ~(n < m)
  BY <1>2 DEF OpToRel
<1> QED BY <1>3

\* A bounded set of integers has a greatest element.
LEMMA GreatestInt ==
    ASSUME NEW T \in SUBSET Int, T # {}, NEW b \in Int, \A n \in T : n <= b
    PROVE  \E m \in T : \A n \in T : n <= m
<1> DEFINE U == {b - n : n \in T}
<1>1. U \in SUBSET Nat /\ U # {}
  <2>1. \A n \in T : b - n \in Nat
    OBVIOUS
  <2>2. U \in SUBSET Nat
    BY <2>1
  <2> QED BY <2>2
<1>2. PICK u \in U : \A v \in U : u <= v
  BY <1>1, LeastNat
<1>3. PICK m \in T : u = b - m
  BY <1>2
<1>4. \A n \in T : b - n \in U
  OBVIOUS
<1>5. \A n \in T : b - m <= b - n
  BY <1>2, <1>3, <1>4
<1>6. \A n \in T : n \in Int /\ m \in Int
  OBVIOUS
<1>7. \A n \in T : n <= m
  BY <1>5, <1>6
<1> QED BY <1>7

\* Any rows have a last one: of the last day, in the best state, of the last SHA.
LEMMA LastRow ==
    ASSUME NEW rows \in SUBSET Rows, rows # {}
    PROVE  \E s \in rows : \A r \in rows : Precedes(r, s)
<1>1. \A r \in rows : /\ r.date \in Int /\ r.sha \in Int /\ r.state \in States
                      /\ r.date <= Day(MaxTime) /\ r.sha <= MaxPages
  <2> TAKE r \in rows
  <2>1. Day(MaxTime) \in Nat /\ MaxPages \in Nat
    BY ArchiveAssumption, DivFacts DEF Day
  <2>2. r.date \in Dates /\ r.sha \in Shas /\ r.state \in States
    BY DEF Rows
  <2> QED BY <2>1, <2>2 DEF Dates, Shas
<1>2. Day(MaxTime) \in Int /\ MaxPages \in Int
  BY ArchiveAssumption, DivFacts DEF Day
<1>3. PICK d \in {r.date : r \in rows} : \A e \in {r.date : r \in rows} : e <= d
  <2> DEFINE T == {r.date : r \in rows}
  <2>1. T \in SUBSET Int /\ T # {} /\ \A n \in T : n <= Day(MaxTime)
    BY <1>1
  <2> HIDE DEF T
  <2>2. \E m \in T : \A n \in T : n <= m
    BY <1>2, <2>1, GreatestInt
  <2> QED BY <2>2 DEF T
<1> DEFINE day == {r \in rows : r.date = d}
<1>4. day # {} /\ \A r \in rows : r \in day \/ r.date < d
  <2>1. \A r \in rows : r.date <= d /\ r.date \in Int
    BY <1>1, <1>3
  <2>2. d \in Int
    BY <1>1, <1>3
  <2> QED BY <1>3, <2>1, <2>2
<1>5. PICK x \in States : /\ \E r \in day : r.state = x
                          /\ \A r \in day : r.state = x \/ Rank[r.state] < Rank[x]
  <2>1. \A r \in day : r.state \in {"live", "preliminary", "final"}
    BY <1>1 DEF States
  <2>2. CASE \E r \in day : r.state = "final"
    <3>1. \A r \in day : r.state = "final" \/ Rank[r.state] < Rank["final"]
      BY <2>1 DEF Rank
    <3> QED BY <2>2, <3>1 DEF States
  <2>3. CASE (~\E r \in day : r.state = "final") /\ \E r \in day : r.state = "preliminary"
    <3>1. \A r \in day : r.state = "preliminary" \/ Rank[r.state] < Rank["preliminary"]
      BY <2>1, <2>3 DEF Rank
    <3> QED BY <2>3, <3>1 DEF States
  <2>4. CASE \A r \in day : r.state = "live"
    BY <1>4, <2>4 DEF States
  <2> QED BY <2>1, <2>2, <2>3, <2>4
<1> DEFINE best == {r \in day : r.state = x}
<1>6. PICK h \in {r.sha : r \in best} : \A e \in {r.sha : r \in best} : e <= h
  <2> DEFINE T == {r.sha : r \in best}
  <2>1. T \in SUBSET Int /\ T # {} /\ \A n \in T : n <= MaxPages
    BY <1>1, <1>5
  <2> HIDE DEF T
  <2>2. \E m \in T : \A n \in T : n <= m
    BY <1>2, <2>1, GreatestInt
  <2> QED BY <2>2 DEF T
<1>7. PICK s \in best : s.sha = h
  BY <1>6
<1>8. \A r \in best : r.sha <= s.sha
  BY <1>6, <1>7
<1>9. \A r \in rows : Precedes(r, s)
  BY <1>4, <1>5, <1>7, <1>8 DEF Precedes
<1> QED BY <1>7, <1>9

\* A replayed settle is a genuine row of an archive file, of its contract.
LEMMA ReplayFacts ==
    ASSUME ArchiveInv, NEW c, NEW asOf \in Times, Replay(c, asOf) # None
    PROVE  LET r == Replay(c, asOf)
           IN  Genuine(r) /\ r.contract = c /\ r.date <= Day(asOf)
<1> DEFINE rows == Candidates(c, asOf)
<1>1. rows # {} /\ Replay(c, asOf) = CHOOSE s \in rows : \A r \in rows : Precedes(r, s)
  BY DEF Replay
<1>2. \A r \in rows : Genuine(r) /\ r.contract = c /\ r.date <= Day(asOf)
  <2> TAKE r \in rows
  <2>1. PICK y \in Years : r \in Archived(y) /\ r.contract = c /\ r.date <= Day(asOf)
    BY DEF Candidates, YearsUpTo
  <2>2. Tidy(Archived(y), y)
    BY DEF ArchiveInv
  <2> QED BY <2>1, <2>2 DEF Tidy
<1>3. rows \in SUBSET Rows
  BY <1>2 DEF Genuine
<1> HIDE DEF rows
<1>4. \E s \in rows : \A r \in rows : Precedes(r, s)
  BY <1>1, <1>3, LastRow
<1>5. Replay(c, asOf) \in rows
  BY <1>1, <1>4
<1> QED BY <1>2, <1>5

\* With a row of the contract on file by then, the replay has an answer.
LEMMA ReplayAnswers ==
    ASSUME ArchiveInv, NEW y \in Years, NEW r \in Archived(y), NEW asOf \in Times,
           r.date <= Day(asOf)
    PROVE  Replay(r.contract, asOf) # None
<1> DEFINE rows == Candidates(r.contract, asOf)
<1>1. Tidy(Archived(y), y)
  BY DEF ArchiveInv
<1>2. r \in Rows /\ Year(r.date) = y
  BY <1>1 DEF Tidy, Genuine
<1>3. Day(asOf) \in Dates /\ r.date \in Dates
  BY <1>2, RowFacts, DayFacts, ArchiveAssumption DEF Times
<1>4. y <= Year(Day(asOf))
  BY <1>2, <1>3, DateFacts
<1>5. r \in rows
  BY <1>4 DEF Candidates, YearsUpTo
<1>6. rows \in SUBSET Rows
  <2>1. ASSUME NEW q \in rows PROVE q \in Rows
    <3>1. PICK z \in Years : q \in Archived(z)
      BY DEF Candidates, YearsUpTo
    <3> QED BY <3>1, TidyRows DEF ArchiveInv
  <2> QED BY <2>1
<1> HIDE DEF rows
<1>7. (CHOOSE s \in rows : \A q \in rows : Precedes(q, s)) \in rows
  BY <1>5, <1>6, LastRow
<1> QED BY <1>5, <1>6, <1>7, RowFacts DEF Replay, rows

------------------------------------------------------------------------------
(* Sources and policies *)

LEMMA SourceFacts ==
    /\ Sources = {Cme, Vendor, Echo} /\ Cme \in Nat /\ Vendor \in Nat /\ Echo \in Nat
    /\ Cme < Vendor /\ Vendor < Echo
    /\ Cme # Vendor /\ Cme # Echo /\ Vendor # Echo
<1>1. Sources = {Cme, Vendor, Echo} /\ Cme < Vendor /\ Vendor < Echo
  BY PipelineAssumption
<1>2. Cme \in Nat /\ Vendor \in Nat /\ Echo \in Nat
  <2>1. Sources \subseteq Nat
    BY VerifierAssumption
  <2> QED BY <1>1, <2>1
<1> QED BY <1>1, <1>2

\* The replay passes no tier filter; without a filter every source passes.
LEMMA FilterFacts ==
    ASSUME NEW p
    PROVE  /\ TierFilter(p) \subseteq Sources
           /\ p.t2 => Echo \notin TierFilter(p)
           /\ ~p.t2 => TierFilter(p) = Sources
<1>1. Tier[Echo] \in 1..6 /\ Tier[Echo] > 4
  BY VerifierAssumption, ReplayAssumption, SourceFacts DEF T2Macro
<1> QED BY <1>1 DEF TierFilter, T2Macro

LEMMA PolicyFacts ==
    ASSUME NEW p \in Policies
    PROVE  /\ p.quorum = 2 /\ p.t2 \in BOOLEAN
           /\ ~p.t2 => p.band # "WIDE"
<1>1. \A name \in DOMAIN PolicyNamed : ResolveForField(PolicyNamed[name], "settle") = SettleExact
  BY DEF PolicyNamed, PhaseA1, PhaseB1, PhaseC, ResolveForField
<1>2. /\ SettleExact.quorum = 2 /\ SettleExact.t2 = TRUE /\ SettleExact.band = "TIGHT"
  BY DEF SettleExact, Resolved
<1>3. \/ p = SettleExact
      \/ p = [SettleExact EXCEPT !.id = "relaxed_v1", !.t2 = FALSE]
      \/ p = [SettleExact EXCEPT !.id = "wide_v1", !.band = "WIDE"]
  BY <1>1 DEF Policies
<1> QED BY <1>2, <1>3 DEF SettleExact, Resolved

------------------------------------------------------------------------------
(* The call in progress *)

LEMMA CallInit == PipelineInit => CallInv
<1> SUFFICES ASSUME PipelineInit PROVE CallInv
  OBVIOUS
<1>1. call = NoCall /\ scrape = Idle /\ clock = 0 /\ 0 \in Times
  BY ArchiveAssumption DEF PipelineInit, Init, Times
<1>2. DOMAIN NoAnswers = {}
  BY DEF NoAnswers
<1>3. /\ call.stage = "idle" /\ scrape.pc = "idle" /\ call.asOf = 0 /\ call.answers = NoAnswers
      /\ call \in [stage : {"idle", "cme", "others"}, contract : Contracts \cup {Idle.contract},
                   asOf : Times, answers : {call.answers}]
  BY <1>1 DEF NoCall, Idle
<1> QED BY <1>1, <1>2, <1>3 DEF CallInv, Sourced

\* What the answers rest on stays: pages stay published, the policy is locked.
LEMMA SourcedStays ==
    ASSUME ArchiveInv, [ArchiveNext]_archiveVars, policy' = policy,
           NEW answers, NEW c, Sourced(answers, c)
    PROVE  Sourced(answers, c)'
<1>1. \A r : Genuine(r) => Genuine(r)'
  BY WorldStep, GenuineStays DEF ArchiveInv, WorldInv
<1>2. \A a : OfExchange(a, c) => OfExchange(a, c)'
  BY <1>1 DEF OfExchange, Settle
<1>3. TierFilter(policy)' = TierFilter(policy)
  BY DEF TierFilter
<1> QED BY <1>2, <1>3 DEF Sourced, OfVendor

\* No call: nothing is answered.
LEMMA CallEnds ==
    ASSUME call' = NoCall, scrape'.pc = "idle", clock' \in Times
    PROVE  CallInv'
<1>1. DOMAIN NoAnswers = {}
  BY DEF NoAnswers
<1>2. 0 \in Times /\ 0 <= clock'
  BY ArchiveAssumption DEF Times
<1>3. /\ call'.stage = "idle" /\ call'.asOf = 0 /\ call'.answers = NoAnswers
      /\ call' \in [stage : {"idle", "cme", "others"}, contract : Contracts \cup {Idle.contract},
                    asOf : Times, answers : {call'.answers}]
  BY <1>2 DEF NoCall
<1> QED BY <1>1, <1>2, <1>3 DEF CallInv, Sourced

LEMMA CallWorld ==
    ASSUME ArchiveInv, CallInv, World
    PROVE  CallInv'
<1>1. [ArchiveNext]_archiveVars /\ (Tick \/ Publish) /\ call' = call /\ policy' = policy
  BY DEF World, ArchiveNext, pipelineVars
<1>2. scrape' = scrape /\ archive' = archive
  BY <1>1 DEF Tick, Publish
<1>3. Sourced(call.answers, call.contract)'
  <2>1. Sourced(call.answers, call.contract)
    BY DEF CallInv
  <2>2. \A a, c : Sourced(a, c) => Sourced(a, c)'
    BY <1>1, SourcedStays
  <2> QED BY <1>1, <2>1, <2>2 DEF Sourced
<1>4. call.asOf <= clock'
  <2>1. call.asOf \in Int /\ clock \in Int /\ clock' \in Int /\ clock <= clock' /\ call.asOf <= clock
    BY <1>1, WorldStep, ArchiveAssumption DEF ArchiveInv, WorldInv, CallInv, Times
  <2> QED BY <2>1
<1>5. TierFilter(policy)' = TierFilter(policy)
  BY <1>1 DEF TierFilter
<1> QED BY <1>1, <1>2, <1>3, <1>4, <1>5 DEF CallInv, Archived

LEMMA CallBegins ==
    ASSUME ArchiveInv, CallInv, NEW c \in Contracts, VerifySettle(c)
    PROVE  CallInv'
<1>1. BeginFetch(c) /\ call' = [stage |-> "cme", contract |-> c, asOf |-> clock, answers |-> NoAnswers]
  BY DEF VerifySettle
<1>2. scrape'.pc = "fetching" /\ scrape'.iso = clock /\ clock' = clock
  BY <1>1 DEF BeginFetch, Idle
<1>3. DOMAIN NoAnswers = {}
  BY DEF NoAnswers
<1>4. clock \in Times /\ clock <= clock
  BY ArchiveAssumption DEF ArchiveInv, WorldInv, Times
<1>5. /\ call'.stage = "cme" /\ call'.asOf = clock /\ call'.answers = NoAnswers
      /\ call' \in [stage : {"idle", "cme", "others"}, contract : Contracts \cup {Idle.contract},
                    asOf : Times, answers : {call'.answers}]
  BY <1>1, <1>4
<1>6. Cme \in TierFilter(policy)'
  BY DEF VerifySettle, TierFilter
<1> QED BY <1>2, <1>3, <1>4, <1>5, <1>6 DEF CallInv, Sourced

\* The exchange's steps before its answer, and its silence.
LEMMA CallWorks ==
    ASSUME ArchiveInv, CallInv, CmeWorks \/ CmeSilent
    PROVE  CallInv'
<1>1. [ArchiveNext]_archiveVars /\ policy' = policy /\ call.stage = "cme" /\ clock' = clock
  BY DEF CmeWorks, CmeSilent, ArchiveNext, pipelineVars, FetchFails, Fetched, ReadArchive, BeginWrite
<1>2. call.answers = NoAnswers /\ DOMAIN NoAnswers = {} /\ call.asOf = scrape.iso
  BY <1>1 DEF CallInv, NoAnswers
<1>3. CASE CmeSilent
  <2>1. scrape'.pc = "idle" /\ call' = [call EXCEPT !.stage = "others"]
    BY <1>3 DEF CmeSilent, Silent, FetchFails, Idle
  <2>2. /\ call'.stage = "others" /\ call'.asOf = call.asOf /\ call'.answers = NoAnswers
        /\ call' \in [stage : {"idle", "cme", "others"}, contract : Contracts \cup {Idle.contract},
                      asOf : Times, answers : {call'.answers}]
    BY <1>2, <2>1 DEF CallInv
  <2> QED BY <1>1, <1>2, <2>1, <2>2 DEF CallInv, Sourced
<1>4. CASE CmeWorks
  <2>1. call' = call
    BY <1>4 DEF CmeWorks, pipelineVars
  <2>2. scrape'.pc # "idle" /\ scrape'.iso = scrape.iso
    <3>1. CASE Fetched /\ scrape'.pc = "parsed"
      BY <3>1 DEF Fetched, Idle, ArchiveInv, ScrapeInv
    <3>2. CASE ReadArchive \/ BeginWrite
      BY <3>2 DEF ReadArchive, BeginWrite, ArchiveInv, ScrapeInv
    <3> QED BY <1>4, <3>1, <3>2 DEF CmeWorks
  <2>3. TierFilter(policy)' = TierFilter(policy)
    BY <1>1 DEF TierFilter
  <2> QED BY <1>1, <1>2, <2>1, <2>2, <2>3 DEF CallInv, Sourced
<1> QED BY <1>3, <1>4

LEMMA CallAnswered ==
    ASSUME ArchiveInv, CallInv, CmeAnswers
    PROVE  CallInv'
<1> DEFINE z == Year(scrape.date)
           final == Merge(scrape.base, scrape.rows)
           r == Answer(call.contract, scrape.rows)
<1>1. EndWrite /\ call.stage = "cme" /\ policy' = policy
  BY DEF CmeAnswers
<1>2. /\ scrape.pc = "writing" /\ z \in Years
      /\ archive'[z] = [exists |-> TRUE, torn |-> FALSE, rows |-> final]
      /\ Tidy(scrape.rows, z)
      /\ scrape' = Idle
      /\ UNCHANGED <<clock, page, published>>
  BY <1>1, EndWriteFacts
<1>3. scrape'.pc = "idle"
  BY <1>2 DEF Idle
<1>4. /\ call.answers = NoAnswers /\ DOMAIN NoAnswers = {} /\ call.asOf = scrape.iso
      /\ Cme \in TierFilter(policy) /\ scrape.date = Day(call.asOf)
  BY <1>1, <1>2 DEF CallInv, NoAnswers, ArchiveInv, ScrapeInv
<1>5. TierFilter(policy)' = TierFilter(policy)
  BY <1>1 DEF TierFilter
<1>6. CASE r = None
  <2>1. call' = [call EXCEPT !.stage = "others"]
    BY <1>6 DEF CmeAnswers, Silent
  <2>2. /\ call'.stage = "others" /\ call'.asOf = call.asOf /\ call'.answers = NoAnswers
        /\ call' \in [stage : {"idle", "cme", "others"}, contract : Contracts \cup {Idle.contract},
                      asOf : Times, answers : {call'.answers}]
    BY <1>4, <2>1 DEF CallInv
  <2> QED BY <1>2, <1>3, <1>4, <2>2 DEF CallInv, Sourced
<1>7. CASE r # None
  <2>1. PICK s \in scrape.rows : s = r /\ s.contract = call.contract
    BY <1>7 DEF Answer
  <2> DEFINE answers == Answered(NoAnswers, Cme, Settle(Cme, s))
  <2>2. call' = [call EXCEPT !.stage = "others", !.answers = answers]
    BY <1>4, <1>7, <2>1 DEF CmeAnswers, Responds, CallInv
  <2>3. DOMAIN answers = {Cme} /\ answers[Cme] = Settle(Cme, s)
    BY <1>4 DEF Answered
  <2>4. Genuine(s) /\ s \in Rows
    BY <1>2, <2>1 DEF Tidy, Genuine
  <2>5. s.date = Day(call.asOf)
    <3>1. PICK q \in published : scrape.rows = Parsed(q, scrape.date, scrape.iso)
      BY <1>2 DEF ArchiveInv, ScrapeInv
    <3>2. s.date = scrape.date
      BY <3>1 DEF Parsed, BuildSettle
    <3> QED BY <1>4, <3>2
  <2>6. s \in archive'[Year(Day(call.asOf))].rows /\ ~archive'[Year(Day(call.asOf))].torn
    BY <1>2, <1>4 DEF Merge
  <2> HIDE DEF answers, r, z
  <2>7. /\ call'.stage = "others" /\ call'.asOf = call.asOf /\ call'.answers = answers
        /\ call'.contract = call.contract
        /\ call' \in [stage : {"idle", "cme", "others"}, contract : Contracts \cup {Idle.contract},
                      asOf : Times, answers : {call'.answers}]
    BY <2>2 DEF CallInv
  <2>8. Sourced(call.answers, call.contract)'
    <3>1. Genuine(s)'
      BY <1>2, <2>4 DEF Genuine
    <3>2. OfExchange(call.answers[Cme], call.contract)'
      BY <2>1, <2>3, <2>4, <2>7, <3>1 DEF OfExchange, Settle
    <3> QED BY <1>4, <1>5, <2>3, <2>7, <3>2, SourceFacts DEF Sourced
  <2>9. call.asOf <= clock'
    BY <1>2 DEF CallInv
  <2>10. \E x \in Archived(Year(Day(call.asOf)))' :
            /\ x.contract = call'.contract /\ x.date = Day(call'.asOf)
            /\ call'.answers[Cme] = Settle(Cme, x)
            /\ ~archive'[Year(Day(call'.asOf))].torn
    <3>1. s \in Archived(Year(Day(call.asOf)))'
      BY <2>6, <2>7 DEF Archived
    <3> QED BY <2>1, <2>3, <2>5, <2>6, <2>7, <3>1
  <2> QED BY <1>3, <2>3, <2>7, <2>8, <2>9, <2>10 DEF CallInv, Settle
<1> QED BY <1>6, <1>7

LEMMA CallStep ==
    ASSUME ArchiveInv, CallInv, [PipelineNext]_vars
    PROVE  CallInv'
<1>1. CASE CmeRaises \/ Decide \/ ProcessCrash
  <2>1. call' = NoCall /\ clock' = clock
    BY <1>1 DEF CmeRaises, Decide, ProcessCrash, ReadRaises, Crash, archiveVars
  <2>2. scrape'.pc = "idle"
    <3>1. CASE Decide
      BY <3>1 DEF Decide, archiveVars, CallInv
    <3>2. CASE CmeRaises \/ ProcessCrash
      BY <3>2 DEF CmeRaises, ProcessCrash, ReadRaises, Crash, Idle
    <3> QED BY <1>1, <3>1, <3>2
  <2> QED BY <2>1, <2>2, CallEnds DEF ArchiveInv, WorldInv
<1>2. CASE UNCHANGED vars
  BY <1>2 DEF vars, archiveVars, pipelineVars, CallInv, Sourced, OfExchange, OfVendor, Genuine,
              TierFilter, Archived, Settle
<1> QED BY <1>1, <1>2, CallWorld, CallBegins, CallWorks, CallAnswered DEF PipelineNext

------------------------------------------------------------------------------
(* The verdicts *)

PricesOf(answers) == [s \in DOMAIN answers |-> answers[s].price]

VerifiedSettle(p, c, answers) ==
    [kind |-> "verified", contract |-> c,
     date |-> answers[Min(DOMAIN answers)].date,
     price |-> Consensus(p, PricesOf(answers)),
     state |-> BestState({answers[s].state : s \in DOMAIN answers}),
     agreed |-> Cardinality(DOMAIN answers),
     tier |-> BestTier(DOMAIN answers),
     hash |-> RunHash(p, answers, <<c, answers[Min(DOMAIN answers)].date, "settle">>)]

\* A verdict is verified only past the quorum and the agreement.
LEMMA VerdictFacts ==
    ASSUME NEW p, NEW c, NEW answers, SettleVerdict(p, c, answers).kind = "verified"
    PROVE  /\ ~Incomplete(p, answers) /\ Agree(p, PricesOf(answers))
           /\ SettleVerdict(p, c, answers) = VerifiedSettle(p, c, answers)
<1> DEFINE v == SettleVerdict(p, c, answers)
<1>1. ~Incomplete(p, answers)
  <2>1. Incomplete(p, answers) => v = [kind |-> "incomplete"]
    BY DEF SettleVerdict
  <2> QED BY <2>1
<1>2. Agree(p, PricesOf(answers))
  <2>1. ~Agree(p, PricesOf(answers)) => v = [kind |-> "disagreement"]
    BY <1>1 DEF SettleVerdict, PricesOf
  <2> QED BY <2>1
<1>3. v = IF \E s \in DOMAIN answers : answers[s].iso = NoIso
          THEN [kind |-> "raised"] ELSE VerifiedSettle(p, c, answers)
  BY <1>1, <1>2 DEF SettleVerdict, PricesOf, VerifiedSettle
<1> QED BY <1>1, <1>2, <1>3

\* A file lost to a crash stays lost.
LEMMA LostStays ==
    ASSUME ArchiveInv, [ArchiveNext]_archiveVars, NEW y \in Years, Lost(y)
    PROVE  Lost(y)'
<1>1. archive[y].torn
  BY DEF Lost
<1>2. CASE Tick \/ Publish \/ UNCHANGED archiveVars
  BY <1>2 DEF Tick, Publish, archiveVars, Lost
<1>3. CASE FetchFails \/ ReadRaises \/ Crash
  BY <1>3 DEF FetchFails, ReadRaises, Crash, Idle, Lost
<1>4. CASE \E c \in Contracts : BeginFetch(c)
  BY <1>4 DEF BeginFetch, Idle, Lost
<1>5. CASE Fetched
  <2>1. archive' = archive /\ scrape'.pc \in {"idle", "parsed"}
    BY <1>5 DEF Fetched, Idle, ArchiveInv, ScrapeInv
  <2> QED BY <2>1 DEF Lost
<1>6. CASE ReadArchive
  <2>1. archive' = archive /\ ~archive[Year(scrape.date)].torn /\ scrape'.date = scrape.date
    BY <1>6 DEF ReadArchive, ArchiveInv, ScrapeInv
  <2> QED BY <1>1, <2>1 DEF Lost
<1>7. CASE BeginWrite
  <2>1. /\ scrape.pc = "merged" /\ scrape'.date = scrape.date /\ Year(scrape.date) # y
        /\ archive' = [archive EXCEPT ![Year(scrape.date)] =
                          [exists |-> TRUE, torn |-> TRUE, rows |-> {}]]
        /\ archive \in [Years -> Files]
    BY <1>7 DEF BeginWrite, Lost, ArchiveInv, ScrapeInv
  <2>2. archive'[y] = archive[y]
    BY <2>1
  <2> QED BY <1>1, <2>1, <2>2 DEF Lost
<1>8. CASE EndWrite
  <2>1. Year(scrape.date) # y /\ scrape' = Idle /\ archive'[y] = archive[y]
    BY <1>8, EndWriteFacts DEF Lost
  <2> QED BY <1>1, <2>1 DEF Lost, Idle
<1> QED BY <1>2, <1>3, <1>4, <1>5, <1>6, <1>7, <1>8 DEF ArchiveNext

\* Later fetches write later years: no file before a replayed row is torn.
LEMMA ReplayedStays ==
    ASSUME ArchiveInv, [ArchiveNext]_archiveVars, policy' = policy,
           NEW answers, NEW c, Sourced(answers, c), ReplayedInv(answers)
    PROVE  ReplayedInv(answers)'
<1>1. (Cme \in DOMAIN answers /\ Echo \notin DOMAIN answers /\ ~policy.t2) =>
         \E y \in Years : y < Year(answers[Cme].date) /\ Lost(y)'
  BY LostStays DEF ReplayedInv
<1>2. ASSUME Echo \in DOMAIN answers
      PROVE  /\ \A y \in Years : y < Year(answers[Echo].date) => ~archive'[y].torn
             /\ scrape'.pc # "idle" => answers[Echo].date <= scrape'.date
  <2> DEFINE d == answers[Echo].date
  <2>1. PICK r \in Rows : Genuine(r) /\ answers[Echo] = Settle(Cme, r)
    BY <1>2 DEF Sourced, OfExchange
  <2>2. d = r.date /\ d \in Dates /\ d \in Int /\ d <= Day(clock)
    <3>1. r.iso \in Times /\ r.iso <= clock /\ clock \in Times /\ r.date = Day(r.iso)
      BY <2>1, RowFacts DEF Genuine, ArchiveInv, WorldInv
    <3> QED BY <2>1, <3>1, RowFacts, DayFacts DEF Settle
  <2>3. /\ \A y \in Years : y < Year(d) => ~archive[y].torn
        /\ scrape.pc # "idle" => d <= scrape.date
    BY <1>2 DEF ReplayedInv
  <2> HIDE DEF d
  <2>4. CASE BeginWrite
    <3>1. /\ scrape.pc = "merged" /\ scrape'.date = scrape.date /\ scrape.date \in Dates
          /\ archive' = [archive EXCEPT ![Year(scrape.date)] =
                            [exists |-> TRUE, torn |-> TRUE, rows |-> {}]]
          /\ archive \in [Years -> Files]
      BY <2>4 DEF BeginWrite, ArchiveInv, ScrapeInv
    <3>2. Year(d) <= Year(scrape.date) /\ Year(d) \in Nat /\ Year(scrape.date) \in Nat
      BY <2>2, <2>3, <3>1, DateFacts
    <3>3. \A y \in Years : y < Year(d) => archive'[y] = archive[y]
      <4> SUFFICES ASSUME NEW y \in Years, y < Year(d) PROVE archive'[y] = archive[y]
        OBVIOUS
      <4>1. y \in Int
        <5>1. Year(Day(MaxTime)) \in Int
          BY ArchiveAssumption, DivFacts DEF Day, Year
        <5> QED BY <5>1 DEF Years
      <4>2. y # Year(scrape.date)
        BY <3>2, <4>1
      <4> QED BY <3>1, <4>2
    <3> QED BY <2>3, <3>1, <3>3 DEF d
  <2>5. CASE EndWrite
    <3>1. scrape' = Idle /\ \A y \in Years : archive'[y].torn => archive[y].torn
      BY <2>5, EndWriteFacts
    <3> QED BY <2>3, <3>1 DEF Idle, d
  <2>6. CASE \E k \in Contracts : BeginFetch(k)
    <3>1. archive' = archive /\ scrape'.date = Day(clock)
      BY <2>6 DEF BeginFetch, Idle
    <3> QED BY <2>2, <2>3, <3>1 DEF d
  <2>7. CASE Tick \/ Publish \/ FetchFails \/ ReadRaises \/ Crash \/ UNCHANGED archiveVars
    <3>1. archive' = archive /\ (scrape' = scrape \/ scrape' = Idle)
      BY <2>7 DEF Tick, Publish, FetchFails, ReadRaises, Crash, archiveVars
    <3> QED BY <2>3, <3>1 DEF Idle, d
  <2>8. CASE Fetched \/ ReadArchive
    <3>1. /\ archive' = archive /\ scrape.pc # "idle"
          /\ scrape'.pc = "idle" \/ scrape'.date = scrape.date
      <4>1. CASE Fetched
        BY <4>1 DEF Fetched, ArchiveInv, ScrapeInv, Idle
      <4>2. CASE ReadArchive
        BY <4>2 DEF ReadArchive, ArchiveInv, ScrapeInv
      <4> QED BY <2>8, <4>1, <4>2
    <3> QED BY <2>3, <3>1 DEF d
  <2> QED BY <2>4, <2>5, <2>6, <2>7, <2>8 DEF ArchiveNext
<1> QED BY <1>1, <1>2 DEF ReplayedInv

\* The vendor's settle, if any, is added to what the exchange answered.
LEMMA AskVendorFacts ==
    ASSUME CallInv, NEW asked \in AskVendor(call.answers)
    PROVE  /\ Sourced(asked, call.contract) /\ Echo \notin DOMAIN asked
           /\ Cme \in DOMAIN asked => Cme \in DOMAIN call.answers /\ asked[Cme] = call.answers[Cme]
<1>1. Sourced(call.answers, call.contract) /\ DOMAIN call.answers \subseteq {Cme}
  BY DEF CallInv
<1>2. Echo \notin DOMAIN call.answers /\ Vendor \notin DOMAIN call.answers
  BY <1>1, SourceFacts
<1>3. CASE asked = call.answers
  BY <1>1, <1>2, <1>3
<1>4. ASSUME NEW a \in VendorSettles, Vendor \in TierFilter(policy),
             asked = Answered(call.answers, Vendor, a)
      PROVE  /\ Sourced(asked, call.contract) /\ Echo \notin DOMAIN asked
             /\ Cme \in DOMAIN asked => Cme \in DOMAIN call.answers /\ asked[Cme] = call.answers[Cme]
  <2>1. OfVendor(a)
    <3>1. PICK q \in Dates \X Prices, stamped \in BOOLEAN :
             a = [source |-> Vendor, date |-> q[1], state |-> "final", price |-> q[2],
                  iso |-> IF stamped THEN DayLength * q[1] ELSE NoIso, sha |-> q]
      BY DEF VendorSettles
    <3>2. q[1] \in Int /\ DayLength \in Int
      BY DateFacts, ArchiveAssumption
    <3>3. (IF stamped THEN DayLength * q[1] ELSE NoIso) \in Int
      BY <3>2 DEF NoIso
    <3> QED BY <3>1, <3>3 DEF OfVendor
  <2>2. /\ DOMAIN asked = DOMAIN call.answers \cup {Vendor} /\ asked[Vendor] = a
        /\ \A t \in DOMAIN call.answers : t # Vendor => asked[t] = call.answers[t]
    BY <1>4 DEF Answered
  <2>3. Cme \in DOMAIN asked => Cme \in DOMAIN call.answers /\ asked[Cme] = call.answers[Cme]
    BY <2>2, SourceFacts
  <2>4. Echo \notin DOMAIN asked
    BY <1>2, <2>2, SourceFacts
  <2> QED BY <1>1, <1>4, <2>1, <2>2, <2>3, <2>4 DEF Sourced
<1> QED BY <1>3, <1>4 DEF AskVendor

\* The replay's record is genuine, and whether it answers tells about the files.
LEMMA AskEchoFacts ==
    ASSUME ArchiveInv, CallInv, call.stage = "others", NEW asked \in AskVendor(call.answers)
    PROVE  Sourced(AskEcho(asked), call.contract) /\ ReplayedInv(AskEcho(asked))
<1> DEFINE r == Replay(call.contract, call.asOf)
           asOf == call.asOf
           y0 == Year(Day(asOf))
<1>1. /\ Sourced(asked, call.contract) /\ Echo \notin DOMAIN asked
      /\ Cme \in DOMAIN asked => Cme \in DOMAIN call.answers /\ asked[Cme] = call.answers[Cme]
  BY AskVendorFacts
<1>2. scrape.pc = "idle" /\ asOf \in Times /\ y0 \in Years /\ y0 \in Int /\ Day(asOf) \in Dates
  <2>1. scrape.pc = "idle" /\ asOf \in Times
    BY DEF CallInv
  <2> QED BY <2>1, DayFacts, DateFacts, ArchiveAssumption DEF Times
<1>3. \A y \in Years : y \in Int
  <2>1. Year(Day(MaxTime)) \in Int
    BY ArchiveAssumption, DivFacts DEF Day, Year
  <2> QED BY <2>1 DEF Years
<1>4. CASE Echo \notin TierFilter(policy) \/ ReplayRaises(asOf) \/ r = None
  <2>1. AskEcho(asked) = asked
    BY <1>4 DEF AskEcho
  <2>2. ASSUME Cme \in DOMAIN asked, ~policy.t2
        PROVE  \E y \in Years : y < Year(asked[Cme].date) /\ Lost(y)
    <3>1. PICK q \in Archived(y0) : /\ q.contract = call.contract /\ q.date = Day(asOf)
                                    /\ call.answers[Cme] = Settle(Cme, q)
                                    /\ ~archive[y0].torn
      BY <1>1, <2>2 DEF CallInv
    <3>2. r # None
      BY <1>2, <3>1, ReplayAnswers, DateFacts
    <3>3. Echo \in TierFilter(policy)
      BY <2>2, FilterFacts, SourceFacts
    <3>4. PICK y \in Years : y <= y0 /\ archive[y].torn
      BY <1>4, <3>2, <3>3 DEF ReplayRaises, YearsUpTo
    <3>5. y < y0
      BY <1>2, <1>3, <3>1, <3>4
    <3>6. asked[Cme].date = Day(asOf)
      BY <1>1, <2>2, <3>1 DEF Settle
    <3> QED BY <1>2, <3>4, <3>5, <3>6 DEF Lost
  <2> QED BY <1>1, <2>1, <2>2 DEF ReplayedInv
<1>5. CASE Echo \in TierFilter(policy) /\ ~ReplayRaises(asOf) /\ r # None
  <2> DEFINE answers == Answered(asked, Echo, Settle(Cme, r))
  <2>1. AskEcho(asked) = answers
    BY <1>5 DEF AskEcho
  <2>2. Genuine(r) /\ r.contract = call.contract /\ r.date <= Day(asOf) /\ r \in Rows
    BY <1>2, <1>5, ReplayFacts DEF Genuine
  <2>3. OfExchange(Settle(Cme, r), call.contract)
    BY <2>2 DEF OfExchange
  <2>4. /\ DOMAIN answers = DOMAIN asked \cup {Echo} /\ answers[Echo] = Settle(Cme, r)
        /\ \A t \in DOMAIN asked : t # Echo => answers[t] = asked[t]
    BY DEF Answered
  <2> HIDE DEF answers, r
  <2>5. Sourced(answers, call.contract)
    BY <1>1, <1>5, <2>3, <2>4, SourceFacts DEF Sourced
  <2>6. answers[Echo].date = r.date /\ r.date \in Dates
    BY <2>2, <2>4, RowFacts DEF Settle
  <2>7. \A y \in Years : y < Year(answers[Echo].date) => ~archive[y].torn
    <3>1. Year(r.date) <= y0 /\ Year(r.date) \in Int
      BY <1>2, <2>2, <2>6, DateFacts
    <3>2. \A y \in Years : y <= y0 => ~archive[y].torn
      BY <1>5 DEF ReplayRaises, YearsUpTo
    <3> QED BY <1>2, <1>3, <2>6, <3>1, <3>2
  <2> QED BY <1>2, <2>1, <2>4, <2>5, <2>7 DEF ReplayedInv
<1> QED BY <1>4, <1>5

LEMMA VerdictInit == PipelineInit => VerdictInv
BY DEF PipelineInit, VerdictInv

LEMMA VerdictStep ==
    ASSUME ArchiveInv, CallInv, VerdictInv, [PipelineNext]_vars
    PROVE  VerdictInv'
<1>1. policy' = policy /\ [ArchiveNext]_archiveVars
  <2>1. policy' = policy
    BY DEF PipelineNext, World, VerifySettle, CmeWorks, CmeAnswers, CmeSilent, CmeRaises, Decide,
           ProcessCrash, vars, pipelineVars
  <2> QED BY <2>1, PipelineSteps
<1>2. ASSUME NEW x, /\ x.v = SettleVerdict(policy, x.v.contract, x.answers)
                    /\ x.v.kind = "verified"
                    /\ Sourced(x.answers, x.v.contract)
                    /\ ReplayedInv(x.answers)
      PROVE  /\ x.v = SettleVerdict(policy', x.v.contract, x.answers)
             /\ Sourced(x.answers, x.v.contract)'
             /\ ReplayedInv(x.answers)'
  BY <1>1, <1>2, SourcedStays, ReplayedStays
<1>3. CASE verdicts' = verdicts
  BY <1>1, <1>2, <1>3 DEF VerdictInv
<1>4. CASE Decide
  <2>1. PICK asked \in AskVendor(call.answers) :
           LET answers == AskEcho(asked)
               v == SettleVerdict(policy, call.contract, answers)
           IN verdicts' = IF v.kind = "verified"
                          THEN verdicts \cup {[v |-> v, answers |-> answers]} ELSE verdicts
    BY <1>4 DEF Decide
  <2> DEFINE answers == AskEcho(asked)
             v == SettleVerdict(policy, call.contract, answers)
             x == [v |-> v, answers |-> answers]
  <2>2. CASE v.kind # "verified"
    BY <1>3, <2>1, <2>2
  <2>3. CASE v.kind = "verified"
    <3>1. Sourced(answers, call.contract) /\ ReplayedInv(answers)
      BY <1>4, AskEchoFacts DEF Decide
    <3>2. v = VerifiedSettle(policy, call.contract, answers)
      BY <2>3, VerdictFacts
    <3>3. v.contract = call.contract
      BY <3>2 DEF VerifiedSettle
    <3>4. x.v = v /\ x.answers = answers /\ verdicts' = verdicts \cup {x}
      BY <2>1, <2>3
    <3> HIDE DEF x, v, answers
    <3>5. /\ x.v = SettleVerdict(policy, x.v.contract, x.answers)
          /\ x.v.kind = "verified"
          /\ Sourced(x.answers, x.v.contract)
          /\ ReplayedInv(x.answers)
      <4>1. v = SettleVerdict(policy, call.contract, answers)
        BY DEF v
      <4> QED BY <2>3, <3>1, <3>3, <3>4, <4>1
    <3>6. \A w \in verdicts' : /\ w.v = SettleVerdict(policy, w.v.contract, w.answers)
                               /\ w.v.kind = "verified"
                               /\ Sourced(w.answers, w.v.contract)
                               /\ ReplayedInv(w.answers)
      BY <3>4, <3>5 DEF VerdictInv
    <3> QED BY <1>1, <1>2, <3>6 DEF VerdictInv
  <2> QED BY <2>2, <2>3
<1>5. CASE ~Decide
  <2>1. verdicts' = verdicts
    BY <1>5 DEF PipelineNext, World, VerifySettle, CmeWorks, CmeAnswers, CmeSilent, CmeRaises,
                ProcessCrash, vars, pipelineVars
  <2> QED BY <1>3, <2>1
<1> QED BY <1>4, <1>5

------------------------------------------------------------------------------
(* What a verified settle rests on *)

LEMMA PairFacts ==
    ASSUME NEW a, NEW b, a # b
    PROVE  IsFiniteSet({a, b}) /\ Cardinality({a, b}) = 2
<1>1. IsFiniteSet({a}) /\ Cardinality({a}) = 1
  BY FS_Singleton
<1>2. IsFiniteSet({a} \cup {b}) /\ Cardinality({a} \cup {b}) = Cardinality({a}) + 1
  <2>1. b \notin {a}
    OBVIOUS
  <2> QED BY <1>1, <2>1, FS_AddElement
<1>3. {a} \cup {b} = {a, b}
  OBVIOUS
<1> QED BY <1>1, <1>2, <1>3

\* At least two of the three sources answered; with the tier filter on, the
\* exchange and the vendor.
LEMMA QuorumDomain ==
    ASSUME VerdictInv, NEW x \in verdicts
    PROVE  LET D == DOMAIN x.answers
           IN  /\ \/ D = {Cme, Vendor} \/ D = {Cme, Echo} \/ D = {Vendor, Echo}
                  \/ D = {Cme, Vendor, Echo}
               /\ policy.t2 => D = {Cme, Vendor}
               /\ Cme \in D => Min(D) = Cme
               /\ Cme \notin D => Min(D) = Vendor
               /\ x.v = VerifiedSettle(policy, x.v.contract, x.answers)
               /\ Agree(policy, PricesOf(x.answers))
<1> DEFINE D == DOMAIN x.answers
<1>1. /\ x.v = SettleVerdict(policy, x.v.contract, x.answers)
      /\ x.v.kind = "verified" /\ Sourced(x.answers, x.v.contract) /\ policy \in Policies
  BY DEF VerdictInv
<1>2. /\ x.v = VerifiedSettle(policy, x.v.contract, x.answers)
      /\ ~Incomplete(policy, x.answers) /\ Agree(policy, PricesOf(x.answers))
  <2>1. SettleVerdict(policy, x.v.contract, x.answers).kind = "verified"
    BY <1>1
  <2> QED BY <1>1, <2>1, VerdictFacts
<1>3. D \subseteq {Cme, Vendor, Echo} /\ (policy.t2 => Echo \notin D)
  BY <1>1, FilterFacts, SourceFacts DEF Sourced
<1>4. ~(Cardinality(D) < 2)
  BY <1>1, <1>2, PolicyFacts DEF Incomplete
<1>5. D # {} /\ \A s : D # {s}
  <2>1. Cardinality({}) = 0 /\ \A s : Cardinality({s}) = 1
    BY FS_EmptySet, FS_Singleton
  <2>2. D # {}
    BY <1>4, <2>1
  <2>3. ASSUME NEW s PROVE D # {s}
    <3>1. Cardinality({s}) = 1
      BY <2>1
    <3> QED BY <1>4, <3>1
  <2> QED BY <2>2, <2>3
<1>6. \/ D = {Cme, Vendor} \/ D = {Cme, Echo} \/ D = {Vendor, Echo} \/ D = {Cme, Vendor, Echo}
  BY <1>3, <1>5
<1>7. policy.t2 => D = {Cme, Vendor}
  BY <1>3, <1>6, SourceFacts
<1> HIDE DEF D
<1>8. Cme \in D => Min(D) = Cme
  <2> SUFFICES ASSUME Cme \in D PROVE Min(D) = Cme
    OBVIOUS
  <2>1. \A s \in D : s \in Nat /\ Cme <= s
    BY <1>3, SourceFacts
  <2>2. \A s \in D : (\A t \in D : s =< t) => s = Cme
    BY <2>1, SourceFacts
  <2> QED BY <2>1, <2>2 DEF Min
<1>9. Cme \notin D => Min(D) = Vendor
  <2> SUFFICES ASSUME Cme \notin D PROVE Min(D) = Vendor
    OBVIOUS
  <2>1. D = {Vendor, Echo}
    BY <1>6
  <2> QED BY <2>1, SourceFacts DEF Min
<1> QED BY <1>2, <1>6, <1>7, <1>8, <1>9 DEF D

\* The upper median of two prices is one of them.
LEMMA MedianOfTwo ==
    ASSUME NEW a, NEW b, a # b, NEW f, DOMAIN f = {a, b}, f[a] \in Nat, f[b] \in Nat
    PROVE  UpperMedian(f) \in Nat
<1> DEFINE Below(v) == Cardinality({s \in DOMAIN f : f[s] < v})
           UpTo(v) == Cardinality({s \in DOMAIN f : f[s] <= v})
           Good(v) == Below(v) <= 1 /\ 1 < UpTo(v)
           S == {f[s] : s \in DOMAIN f}
<1>1. IsFiniteSet({a, b}) /\ Cardinality({a, b}) = 2
  BY PairFacts
<1>2. ASSUME NEW c \in {a, b}, NEW d \in {a, b}, c # d, f[d] <= f[c]
      PROVE  Good(f[c])
  <2>1. {s \in DOMAIN f : f[s] <= f[c]} = {a, b}
    BY <1>2
  <2>2. {s \in DOMAIN f : f[s] < f[c]} \in SUBSET {d}
    BY <1>2
  <2>3. Cardinality({s \in DOMAIN f : f[s] < f[c]}) <= Cardinality({d})
    BY <2>2, FS_Subset, FS_Singleton
  <2>4. Cardinality({d}) = 1
    BY FS_Singleton
  <2> QED BY <1>1, <2>1, <2>3, <2>4
<1>3. \E v \in S : Good(v)
  <2>1. f[a] \in S /\ f[b] \in S
    OBVIOUS
  <2> HIDE DEF S, Good
  <2>2. CASE f[a] <= f[b]
    BY <1>2, <2>1, <2>2
  <2>3. CASE f[b] <= f[a]
    BY <1>2, <2>1, <2>3
  <2> QED BY <2>2, <2>3
<1>4. S \subseteq Nat
  OBVIOUS
<1>5. UpperMedian(f) = CHOOSE v \in S : Good(v)
  <2>1. Cardinality(DOMAIN f) = 2 /\ 2 \div 2 = 1
    BY <1>1
  <2> QED BY <2>1 DEF UpperMedian
<1> HIDE DEF S, Good
<1> QED BY <1>3, <1>4, <1>5

\* The exchange's records carry a published price of their contract.
LEMMA ExchangePrice ==
    ASSUME NEW a, NEW c, OfExchange(a, c)
    PROVE  a.price \in Nat /\ \E q \in published : q.price[c] = a.price /\ q.price[c] # Missing
<1>1. PICK r \in Rows : Genuine(r) /\ r.contract = c /\ a = Settle(Cme, r)
  BY DEF OfExchange
<1>2. r.price \in Prices /\ r.price \in Nat
  BY RowFacts
<1>3. a.price = r.price
  BY <1>1 DEF Settle
<1> QED BY <1>1, <1>2, <1>3, ArchiveAssumption DEF Genuine

LEMMA VendorPrice ==
    ASSUME NEW a, OfVendor(a)
    PROVE  a.price \in Nat
<1>1. PICK q \in Dates \X Prices : a.price = q[2]
  BY DEF OfVendor
<1>2. q[2] \in Prices
  OBVIOUS
<1>3. Prices \subseteq Nat
  BY ArchiveAssumption
<1> QED BY <1>1, <1>2, <1>3

LEMMA VerdictsPublished ==
    ASSUME VerdictInv
    PROVE  VerifiedWasPublished
<1> SUFFICES ASSUME NEW x \in verdicts
             PROVE  \E q \in published :
                       /\ q.price[x.v.contract] # Missing
                       /\ IF policy.band = "WIDE"
                          THEN 100 * Distance(x.v.price, q.price[x.v.contract]) <= WidePercent * x.v.price
                          ELSE q.price[x.v.contract] = x.v.price
  BY DEF VerifiedWasPublished
<1> DEFINE D == DOMAIN x.answers
           c == x.v.contract
           f == PricesOf(x.answers)
<1>1. /\ \/ D = {Cme, Vendor} \/ D = {Cme, Echo} \/ D = {Vendor, Echo} \/ D = {Cme, Vendor, Echo}
      /\ policy.t2 => D = {Cme, Vendor}
      /\ Cme \in D => Min(D) = Cme
      /\ Cme \notin D => Min(D) = Vendor
      /\ x.v = VerifiedSettle(policy, x.v.contract, x.answers)
      /\ Agree(policy, f)
  BY QuorumDomain
<1>2. Sourced(x.answers, c) /\ policy \in Policies
  BY DEF VerdictInv
<1>3. PICK e \in D : OfExchange(x.answers[e], c) /\ (Cme \in D => e = Cme)
  BY <1>1, <1>2 DEF Sourced
<1>4. DOMAIN f = D /\ \A s \in D : f[s] = x.answers[s].price
  BY DEF PricesOf
<1>5. x.v.price = Consensus(policy, f)
  BY <1>1 DEF VerifiedSettle
<1>6. /\ f[e] \in Nat
      /\ \E q \in published : q.price[c] = f[e] /\ q.price[c] # Missing
  BY <1>3, <1>4, ExchangePrice
<1> HIDE DEF f
<1>7. CASE policy.band # "WIDE"
  <2>1. x.v.price = f[Min(D)] /\ Min(D) \in D /\ f[Min(D)] = f[e]
    BY <1>1, <1>4, <1>5, <1>7 DEF Agree, Exact, Consensus
  <2> QED BY <1>6, <1>7, <2>1
<1>8. CASE policy.band = "WIDE"
  <2>1. D = {Cme, Vendor} /\ e = Cme
    BY <1>1, <1>2, <1>3, <1>8, PolicyFacts
  <2>2. f[Vendor] \in Nat
    BY <1>2, <1>4, <2>1, VendorPrice DEF Sourced
  <2>3. UpperMedian(f) \in Nat
    BY <1>4, <1>6, <2>1, <2>2, MedianOfTwo, SourceFacts
  <2>4. x.v.price = UpperMedian(f) /\ WithinBand(f)
    BY <1>1, <1>5, <1>8 DEF Consensus, Agree
  <2>5. 100 * Distance(f[e], UpperMedian(f)) <= WidePercent * Distance(UpperMedian(f), 0)
    BY <1>4, <2>4 DEF WithinBand
  <2>6. 100 * Distance(x.v.price, f[e]) <= WidePercent * x.v.price
    BY <1>6, <2>3, <2>4, <2>5 DEF Distance, WidePercent
  <2> QED BY <1>6, <1>8, <2>6
<1> QED BY <1>7, <1>8

LEMMA QuorumIndependent ==
    ASSUME VerdictInv
    PROVE  IndependentQuorum
<1> SUFFICES ASSUME NEW x \in verdicts, policy.t2
             PROVE  Cardinality({x.answers[s].source : s \in DOMAIN x.answers}) >= policy.quorum
  BY DEF IndependentQuorum
<1>1. DOMAIN x.answers = {Cme, Vendor}
  BY QuorumDomain
<1>2. Sourced(x.answers, x.v.contract) /\ policy.quorum = 2
  BY PolicyFacts DEF VerdictInv
<1>3. x.answers[Cme].source = Cme /\ x.answers[Vendor].source = Vendor
  <2>1. OfExchange(x.answers[Cme], x.v.contract) /\ OfVendor(x.answers[Vendor])
    BY <1>1, <1>2 DEF Sourced
  <2>2. x.answers[Cme].source = Cme
    BY <2>1 DEF OfExchange, Settle
  <2>3. x.answers[Vendor].source = Vendor
    BY <2>1 DEF OfVendor
  <2> QED BY <2>2, <2>3
<1>4. {x.answers[s].source : s \in DOMAIN x.answers} = {Cme, Vendor}
  BY <1>1, <1>3
<1>5. Cardinality({Cme, Vendor}) = 2
  BY PairFacts, SourceFacts
<1> QED BY <1>2, <1>4, <1>5

------------------------------------------------------------------------------
(* What the hash of a verdict stands for *)

\* Two records of one provenance are one record: the bytes name the page.
LEMMA SameRecord ==
    ASSUME WorldInv, NEW a, NEW b, NEW c,
           OfExchange(a, c) \/ OfVendor(a), OfExchange(b, c) \/ OfVendor(b),
           Provenance(a) = Provenance(b)
    PROVE  a = b
<1>1. a.source = b.source /\ a.iso = b.iso /\ a.sha = b.sha
  BY DEF Provenance
<1>2. OfExchange(a, c) => a.source = Cme
  BY DEF OfExchange, Settle
<1>3. OfExchange(b, c) => b.source = Cme
  BY DEF OfExchange, Settle
<1>4. (OfVendor(a) => a.source = Vendor) /\ (OfVendor(b) => b.source = Vendor)
  BY DEF OfVendor
<1>5. CASE OfExchange(a, c) /\ OfExchange(b, c)
  <2>1. PICK r \in Rows : Genuine(r) /\ r.contract = c /\ a = Settle(Cme, r)
    BY <1>5 DEF OfExchange
  <2>2. PICK s \in Rows : Genuine(s) /\ s.contract = c /\ b = Settle(Cme, s)
    BY <1>5 DEF OfExchange
  <2>3. r.sha = s.sha /\ r.iso = s.iso
    BY <1>1, <2>1, <2>2 DEF Settle
  <2>4. PICK p \in published : p.sha = r.sha /\ p.state = r.state /\ p.price[c] = r.price
    BY <2>1 DEF Genuine
  <2>5. PICK q \in published : q.sha = s.sha /\ q.state = s.state /\ q.price[c] = s.price
    BY <2>2 DEF Genuine
  <2>6. p = q
    BY <2>3, <2>4, <2>5 DEF WorldInv
  <2>7. r.date = s.date
    BY <2>1, <2>2, <2>3 DEF Genuine
  <2> QED BY <2>1, <2>2, <2>3, <2>4, <2>5, <2>6, <2>7 DEF Settle
<1>6. CASE OfVendor(a) /\ OfVendor(b)
  BY <1>1, <1>6 DEF OfVendor
<1> QED BY <1>1, <1>2, <1>3, <1>4, <1>5, <1>6, SourceFacts

\* How often a provenance occurs among the answers.
Count(answers, h) == Cardinality({s \in DOMAIN answers : Provenance(answers[s]) = h})
Provenances(answers) == {Provenance(answers[s]) : s \in DOMAIN answers}

\* Equal hashes: equal contracts, dates, and bags of provenance.
LEMMA HashFacts ==
    ASSUME NEW p, NEW a, NEW b, NEW i, NEW j, RunHash(p, a, i) = RunHash(p, b, j)
    PROVE  /\ i = j /\ Provenances(a) = Provenances(b)
           /\ \A h \in Provenances(a) : Count(a, h) = Count(b, h)
<1> DEFINE Bag(x) == [h \in Provenances(x) |-> Count(x, h)]
<1>1. \A x, k : RunHash(p, x, k) = [policy |-> p, provenance |-> Bag(x), id |-> k]
  BY DEF RunHash, Provenances, Count
<1> HIDE DEF Bag
<1>2. i = j /\ Bag(a) = Bag(b)
  <2>1. [policy |-> p, provenance |-> Bag(a), id |-> i] = [policy |-> p, provenance |-> Bag(b), id |-> j]
    BY <1>1
  <2> QED BY <2>1
<1>3. \A x : DOMAIN Bag(x) = Provenances(x) /\ \A h \in Provenances(x) : Bag(x)[h] = Count(x, h)
  BY DEF Bag
<1> QED BY <1>2, <1>3

\* Equal hashes stand for the same contract, date and records.
LEMMA HashRecords ==
    ASSUME WorldInv, VerdictInv, NEW x \in verdicts, NEW y \in verdicts, x.v.hash = y.v.hash
    PROVE  /\ x.v.contract = y.v.contract /\ x.v.date = y.v.date
           /\ \A h \in Provenances(x.answers) : Count(x.answers, h) = Count(y.answers, h)
           /\ \A s \in DOMAIN x.answers : \E t \in DOMAIN y.answers : x.answers[s] = y.answers[t]
<1> DEFINE id(w) == <<w.v.contract, w.answers[Min(DOMAIN w.answers)].date, "settle">>
<1>1. /\ x.v = VerifiedSettle(policy, x.v.contract, x.answers)
      /\ y.v = VerifiedSettle(policy, y.v.contract, y.answers)
  BY QuorumDomain
<1>2. /\ x.v.hash = RunHash(policy, x.answers, id(x)) /\ x.v.date = id(x)[2]
      /\ y.v.hash = RunHash(policy, y.answers, id(y)) /\ y.v.date = id(y)[2]
  BY <1>1 DEF VerifiedSettle
<1> HIDE DEF id
<1>3. /\ id(x) = id(y) /\ Provenances(x.answers) = Provenances(y.answers)
      /\ \A h \in Provenances(x.answers) : Count(x.answers, h) = Count(y.answers, h)
  <2>1. RunHash(policy, x.answers, id(x)) = RunHash(policy, y.answers, id(y))
    BY <1>2
  <2> QED BY <2>1, HashFacts
<1>4. x.v.contract = y.v.contract /\ x.v.date = y.v.date
  <2>1. id(x)[1] = x.v.contract /\ id(y)[1] = y.v.contract
    BY DEF id
  <2> QED BY <1>2, <1>3, <2>1
<1>5. \A w \in verdicts : \A s \in DOMAIN w.answers :
         OfExchange(w.answers[s], w.v.contract) \/ OfVendor(w.answers[s])
  <2> TAKE w \in verdicts
  <2> TAKE s \in DOMAIN w.answers
  <2>1. Sourced(w.answers, w.v.contract) /\ s \in {Cme, Vendor, Echo}
    BY FilterFacts, SourceFacts DEF VerdictInv, Sourced
  <2> QED BY <2>1 DEF Sourced
<1>6. ASSUME NEW s \in DOMAIN x.answers
      PROVE  \E t \in DOMAIN y.answers : x.answers[s] = y.answers[t]
  <2>1. Provenance(x.answers[s]) \in Provenances(x.answers)
    BY DEF Provenances
  <2>2. PICK t \in DOMAIN y.answers : Provenance(x.answers[s]) = Provenance(y.answers[t])
    BY <1>3, <2>1 DEF Provenances
  <2>3. x.answers[s] = y.answers[t]
    <3>1. /\ OfExchange(x.answers[s], x.v.contract) \/ OfVendor(x.answers[s])
          /\ OfExchange(y.answers[t], x.v.contract) \/ OfVendor(y.answers[t])
      BY <1>4, <1>5
    <3> QED BY <2>2, <3>1, SameRecord
  <2> QED BY <2>3
<1> QED BY <1>3, <1>4, <1>6

\* Who signed a record.
LEMMA RecordSource ==
    ASSUME VerdictInv, NEW x \in verdicts
    PROVE  /\ \A s \in DOMAIN x.answers : s # Vendor => x.answers[s].source = Cme
           /\ Vendor \in DOMAIN x.answers => x.answers[Vendor].source = Vendor
           /\ DOMAIN x.answers \subseteq {Cme, Vendor, Echo}
<1>1. Sourced(x.answers, x.v.contract) /\ DOMAIN x.answers \subseteq {Cme, Vendor, Echo}
  BY FilterFacts, SourceFacts DEF VerdictInv, Sourced
<1>2. ASSUME NEW s \in DOMAIN x.answers, s # Vendor
      PROVE  x.answers[s].source = Cme
  <2>1. OfExchange(x.answers[s], x.v.contract)
    BY <1>1, <1>2 DEF Sourced
  <2> QED BY <2>1 DEF OfExchange, Settle
<1>3. ASSUME Vendor \in DOMAIN x.answers
      PROVE  x.answers[Vendor].source = Vendor
  <2>1. OfVendor(x.answers[Vendor])
    BY <1>1, <1>3 DEF Sourced
  <2> QED BY <2>1 DEF OfVendor
<1> QED BY <1>1, <1>2, <1>3

\* The exchange and its replay give two records, even if they are equal.
LEMMA HashCounts ==
    ASSUME WorldInv, VerdictInv, NEW x \in verdicts, NEW y \in verdicts, x.v.hash = y.v.hash,
           Cme \in DOMAIN x.answers, Echo \in DOMAIN x.answers
    PROVE  Cme \in DOMAIN y.answers /\ Echo \in DOMAIN y.answers
<1> SUFFICES ASSUME NEW e \in {Cme, Echo}, DOMAIN y.answers \subseteq {e, Vendor}
             PROVE  FALSE
  BY RecordSource
<1> DEFINE h == Provenance(x.answers[Cme])
           both == {s \in DOMAIN x.answers : Provenance(x.answers[s]) = h}
           alone == {s \in DOMAIN y.answers : Provenance(y.answers[s]) = h}
<1>1. /\ x.answers[Cme].source = Cme /\ x.answers[Echo].source = Cme
      /\ \A t \in DOMAIN y.answers : y.answers[t].source = Cme => t = e
  BY RecordSource, SourceFacts
<1>2. x.answers[Cme] = y.answers[e] /\ x.answers[Echo] = y.answers[e] /\ e \in DOMAIN y.answers
  <2>1. PICK t \in DOMAIN y.answers : x.answers[Cme] = y.answers[t]
    BY HashRecords
  <2>2. PICK u \in DOMAIN y.answers : x.answers[Echo] = y.answers[u]
    BY HashRecords
  <2> QED BY <1>1, <2>1, <2>2
<1>3. both = {Cme, Echo}
  <2>1. Vendor \in DOMAIN x.answers => Provenance(x.answers[Vendor]) # h
    BY <1>1, RecordSource, SourceFacts DEF Provenance
  <2>2. Cme \in both /\ Echo \in both
    BY <1>2
  <2> QED BY <2>1, <2>2, RecordSource
<1>4. alone = {e}
  <2>1. \A t \in alone : y.answers[t].source = Cme
    BY <1>1 DEF Provenance
  <2>2. e \in alone
    BY <1>2
  <2> QED BY <1>1, <2>1, <2>2
<1>5. Cardinality(both) = Cardinality(alone)
  <2>1. h \in Provenances(x.answers)
    BY DEF Provenances
  <2> HIDE DEF h
  <2> QED BY <2>1, HashRecords DEF Count
<1>6. Cardinality(both) = 2
  <2> HIDE DEF both
  <2> QED BY <1>3, PairFacts, SourceFacts
<1>7. Cardinality(alone) = 1
  <2> HIDE DEF alone
  <2> QED BY <1>4, FS_Singleton
<1>8. 1 # 2
  OBVIOUS
<1> QED BY <1>5, <1>6, <1>7, <1>8, Zenon

\* Were it the exchange once and its replay once, a file would have been lost
\* and not lost.
LEMMA HashFiles ==
    ASSUME WorldInv, VerdictInv, NEW x \in verdicts, NEW y \in verdicts, x.v.hash = y.v.hash,
           DOMAIN x.answers = {Cme, Vendor}
    PROVE  DOMAIN y.answers # {Vendor, Echo}
<1> SUFFICES ASSUME DOMAIN y.answers = {Vendor, Echo}
             PROVE  FALSE
  OBVIOUS
<1>1. x.answers[Cme] = y.answers[Echo]
  <2>1. PICK t \in DOMAIN y.answers : x.answers[Cme] = y.answers[t]
    BY HashRecords
  <2>2. x.answers[Cme].source = Cme /\ y.answers[Vendor].source = Vendor
    BY RecordSource, SourceFacts
  <2> QED BY <2>1, <2>2, SourceFacts
<1>2. ~policy.t2
  BY QuorumDomain, SourceFacts
<1>3. ReplayedInv(x.answers) /\ ReplayedInv(y.answers)
  BY DEF VerdictInv
<1>4. PICK z \in Years : z < Year(x.answers[Cme].date) /\ Lost(z)
  BY <1>2, <1>3, SourceFacts DEF ReplayedInv
<1>5. ~archive[z].torn
  BY <1>1, <1>3, <1>4 DEF ReplayedInv
<1> QED BY <1>4, <1>5 DEF Lost

LEMMA HashVendor ==
    ASSUME WorldInv, VerdictInv, NEW x \in verdicts, NEW y \in verdicts, x.v.hash = y.v.hash,
           Vendor \in DOMAIN x.answers
    PROVE  Vendor \in DOMAIN y.answers /\ x.answers[Vendor] = y.answers[Vendor]
<1>1. PICK t \in DOMAIN y.answers : x.answers[Vendor] = y.answers[t]
  BY HashRecords
<1>2. x.answers[Vendor].source = Vendor /\ (t # Vendor => y.answers[t].source = Cme)
  BY RecordSource
<1> QED BY <1>1, <1>2, SourceFacts

\* The hash knows which sources answered.
LEMMA HashDomain ==
    ASSUME WorldInv, VerdictInv, NEW x \in verdicts, NEW y \in verdicts, x.v.hash = y.v.hash
    PROVE  DOMAIN x.answers = DOMAIN y.answers
<1>1. Vendor \in DOMAIN x.answers <=> Vendor \in DOMAIN y.answers
  BY HashVendor
<1>2. /\ Cme \in DOMAIN x.answers /\ Echo \in DOMAIN x.answers =>
            Cme \in DOMAIN y.answers /\ Echo \in DOMAIN y.answers
      /\ Cme \in DOMAIN y.answers /\ Echo \in DOMAIN y.answers =>
            Cme \in DOMAIN x.answers /\ Echo \in DOMAIN x.answers
  BY HashCounts
<1>3. /\ DOMAIN x.answers = {Cme, Vendor} => DOMAIN y.answers # {Vendor, Echo}
      /\ DOMAIN y.answers = {Cme, Vendor} => DOMAIN x.answers # {Vendor, Echo}
  BY HashFiles
<1>4. \A w \in verdicts : \/ DOMAIN w.answers = {Cme, Vendor} \/ DOMAIN w.answers = {Cme, Echo}
                          \/ DOMAIN w.answers = {Vendor, Echo}
                          \/ DOMAIN w.answers = {Cme, Vendor, Echo}
  BY QuorumDomain
<1> QED BY <1>1, <1>2, <1>3, <1>4, SourceFacts

LEMMA VerifiedFields ==
    ASSUME NEW p, NEW c, NEW answers
    PROVE  LET v == VerifiedSettle(p, c, answers)
           IN  /\ v.price = Consensus(p, PricesOf(answers))
               /\ v.state = BestState({answers[s].state : s \in DOMAIN answers})
               /\ v.agreed = Cardinality(DOMAIN answers)
               /\ v.tier = BestTier(DOMAIN answers)
BY DEF VerifiedSettle

LEMMA HashStands ==
    ASSUME WorldInv, VerdictInv
    PROVE  HashIdentifies
<1> SUFFICES ASSUME NEW x \in verdicts, NEW y \in verdicts, x.v.hash = y.v.hash
             PROVE  x.v = y.v
  BY DEF HashIdentifies
<1> DEFINE D == DOMAIN x.answers
<1>1. DOMAIN y.answers = D
  BY HashDomain
<1>2. x.v.contract = y.v.contract /\ x.v.date = y.v.date
  BY HashRecords
<1>3. /\ \A s \in D : \E t \in D : x.answers[s] = y.answers[t]
      /\ \A t \in D : \E s \in D : x.answers[s] = y.answers[t]
  <2>1. \A s \in D : \E t \in D : x.answers[s] = y.answers[t]
    BY <1>1, HashRecords
  <2>2. \A t \in DOMAIN y.answers : \E s \in DOMAIN x.answers : y.answers[t] = x.answers[s]
    BY HashRecords
  <2> QED BY <1>1, <2>1, <2>2
<1>4. {x.answers[s].state : s \in D} = {y.answers[s].state : s \in D}
  <2>1. ASSUME NEW s \in D PROVE x.answers[s].state \in {y.answers[t].state : t \in D}
    <3>1. PICK t \in D : x.answers[s] = y.answers[t]
      BY <1>3
    <3> QED BY <3>1
  <2>2. ASSUME NEW t \in D PROVE y.answers[t].state \in {x.answers[s].state : s \in D}
    <3>1. PICK s \in D : x.answers[s] = y.answers[t]
      BY <1>3
    <3> QED BY <3>1
  <2> QED BY <2>1, <2>2
<1>5. Consensus(policy, PricesOf(x.answers)) = Consensus(policy, PricesOf(y.answers))
  <2>1. CASE policy.band = "WIDE"
    <3>1. D = {Cme, Vendor}
      BY <2>1, QuorumDomain, PolicyFacts DEF VerdictInv
    <3>2. x.answers[Vendor] = y.answers[Vendor]
      BY <3>1, HashVendor
    <3>3. x.answers[Cme] = y.answers[Cme]
      <4>1. x.answers[Cme].source = Cme /\ y.answers[Vendor].source = Vendor
        BY <1>1, <3>1, RecordSource, SourceFacts
      <4> QED BY <1>3, <3>1, <4>1, SourceFacts
    <3>4. PricesOf(x.answers) = PricesOf(y.answers)
      BY <1>1, <3>1, <3>2, <3>3 DEF PricesOf
    <3> QED BY <3>4
  <2>2. CASE policy.band # "WIDE"
    <3> DEFINE m == Min(D)
    <3>1. m \in D
      BY QuorumDomain
    <3>2. /\ \A s, t \in D : x.answers[s].price = x.answers[t].price
          /\ \A s, t \in D : y.answers[s].price = y.answers[t].price
      <4>1. Exact(PricesOf(x.answers)) /\ Exact(PricesOf(y.answers))
        BY <2>2, QuorumDomain DEF Agree
      <4> QED BY <1>1, <4>1 DEF Exact, PricesOf
    <3>3. x.answers[m].price = y.answers[m].price
      <4>1. PICK t \in D : x.answers[m] = y.answers[t]
        BY <1>3, <3>1
      <4> QED BY <3>1, <3>2, <4>1
    <3> HIDE DEF m
    <3> QED BY <1>1, <2>2, <3>1, <3>3 DEF Consensus, PricesOf, m
  <2> QED BY <2>1, <2>2
<1>6. /\ x.v.price = y.v.price /\ x.v.state = y.v.state /\ x.v.agreed = y.v.agreed
      /\ x.v.tier = y.v.tier
  <2>1. ASSUME NEW w \in verdicts
        PROVE  /\ w.v.price = Consensus(policy, PricesOf(w.answers))
               /\ w.v.state = BestState({w.answers[s].state : s \in DOMAIN w.answers})
               /\ w.v.agreed = Cardinality(DOMAIN w.answers) /\ w.v.tier = BestTier(DOMAIN w.answers)
    <3>1. PICK c : w.v = VerifiedSettle(policy, c, w.answers)
      BY QuorumDomain
    <3> QED BY <3>1, VerifiedFields
  <2>2. /\ x.v.state = BestState({x.answers[s].state : s \in D})
        /\ y.v.state = BestState({y.answers[s].state : s \in D})
    BY <1>1, <2>1
  <2> QED BY <1>1, <1>4, <1>5, <2>1, <2>2
<1>7. \A w \in verdicts : w.v = [kind |-> "verified", contract |-> w.v.contract, date |-> w.v.date,
                                 price |-> w.v.price, state |-> w.v.state, agreed |-> w.v.agreed,
                                 tier |-> w.v.tier, hash |-> w.v.hash]
  <2> TAKE w \in verdicts
  <2>1. w.v = VerifiedSettle(policy, w.v.contract, w.answers)
    BY QuorumDomain
  <2> QED BY <2>1 DEF VerifiedSettle
<1> QED BY <1>2, <1>6, <1>7

------------------------------------------------------------------------------
(* Theorems *)

PipelineInv == ArchiveInv /\ LiveInv /\ CallInv /\ VerdictInv

LEMMA PipelineInvariant == Spec => []PipelineInv
<1>1. PipelineInit => PipelineInv
  BY ArchiveInit, LiveInit, CallInit, VerdictInit DEF PipelineInit, PipelineInv
<1>2. PipelineInv /\ [PipelineNext]_vars => PipelineInv'
  BY PipelineSteps, ArchiveStep, LiveStep, CallStep, VerdictStep DEF PipelineInv
<1> QED BY <1>1, <1>2, PTL DEF Spec

(* _write_archive keeps history: whatever settle latest_settle has ever        *)
(* returned is in its year's file under its key, whatever the exchange revised *)
(* and wherever a crash fell, unless the crash tore that file; a file holds    *)
(* each key once and only rows of its year.                                    *)
THEOREM ArchiveSound == Spec => []ArchiveIsSound
<1>1. PipelineInv => ArchiveIsSound
  <2> SUFFICES ASSUME PipelineInv PROVE ArchiveIsSound
    OBVIOUS
  <2>1. \A y \in Years : /\ archive[y] \in [exists : BOOLEAN, torn : BOOLEAN, rows : SUBSET Rows]
                         /\ \A r \in Archived(y) : Year(r.date) = y
                         /\ \A r, q \in Archived(y) : Key(r) = Key(q) => r = q
    BY DEF PipelineInv, ArchiveInv, Tidy, Files
  <2>2. clock \in Times /\ page \in published /\ published \subseteq Pages /\ HistoryKept
    BY DEF PipelineInv, ArchiveInv, WorldInv
  <2>3. /\ policy \in Policies /\ call.stage \in {"idle", "cme", "others"}
        /\ scrape.pc # "idle" <=> call.stage = "cme"
        /\ DOMAIN call.answers \subseteq TierFilter(policy)
    BY DEF PipelineInv, CallInv, VerdictInv, Sourced
  <2> QED BY <2>1, <2>2, <2>3 DEF ArchiveIsSound, PipelineTypeOK
<1> QED BY <1>1, PipelineInvariant, PTL

(* Backtest is live: while the exchange has revised nothing, no fetch straddled *)
(* a publication and no file is torn, ReplayDataSource.latest_settle as of now  *)
(* gives the settle the live source returned last.                              *)
THEOREM ReplayLive == Spec => []ReplayIsLive
<1>1. PipelineInv => ReplayIsLive
  BY LiveImpliesReplay DEF PipelineInv
<1> QED BY <1>1, PipelineInvariant, PTL

(* A price verify_settle reports as verified is one the exchange has published *)
(* for the contract, or within the wide band of one, even if the vendor lies.  *)
THEOREM VerifiedPublished == Spec => []VerifiedWasPublished
<1>1. PipelineInv => VerifiedWasPublished
  BY VerdictsPublished DEF PipelineInv
<1> QED BY <1>1, PipelineInvariant, PTL

(* Under the tier filter a quorum has as many distinct sources as it needs, and *)
(* verifier_run_hash stands for its verdict: equal hashes, equal verdicts.      *)
THEOREM QuorumSound == Spec => []QuorumIsSound
<1>1. PipelineInv => QuorumIsSound
  BY QuorumIndependent, HashStands DEF PipelineInv, ArchiveInv, QuorumIsSound
<1> QED BY <1>1, PipelineInvariant, PTL
==============================================================================
