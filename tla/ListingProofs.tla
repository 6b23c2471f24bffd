--------------------------- MODULE ListingProofs ---------------------------
(***************************************************************************)
(* Theorems about ListingHistory, for all sources, offers, prices and      *)
(* bounds.  The lemmas follow one row through upsert, purge and            *)
(* reconciliation; the theorems lift them to the table and its open        *)
(* transaction.                                                            *)
(***************************************************************************)
EXTENDS ListingHistory, TLAPS

USE ConstantsAssumption DEF ConstantsAssumption

\* The bounds leave room for the initial values.
LEMMA Bounds == 0 \in 0..MaxRuns /\ 0 \in 0..MaxReads
  OBVIOUS

-----------------------------------------------------------------------------
(* What a post may contain.                                                *)

\* The candidates read from a post are candidates.
LEMMA ReadingsTyped ==
    ASSUME NEW s \in Said, NEW x \in SalePrices(s), NEW c \in Readings(s, x)
    PROVE  c \in Candidates
<1>1. PICK p \in Prices : \E u \in Conversions(p) :
          c = [status |-> s, amount |-> p.amount, currency |-> p.currency, usd |-> u, sold |-> x]
  BY DEF Readings
<1>2. PICK u \in Conversions(p) :
          c = [status |-> s, amount |-> p.amount, currency |-> p.currency, usd |-> u, sold |-> x]
  BY <1>1
<1>3. p.amount \in Amounts \cup {None} /\ p.currency \in Currencies \cup {None}
  BY DEF Prices
<1>4. u \in (Amounts \X Currencies) \cup {None}
  BY <1>3 DEF Conversions
<1>5. x \in Amounts \cup {None}
  BY DEF SalePrices
<1> QED BY <1>2, <1>3, <1>4, <1>5 DEF Candidates

\* A post maps some of its offers to candidates.
LEMMA ContentsTyped ==
    ASSUME NEW a \in Ads, NEW seen \in PostContents(a)
    PROVE  /\ DOMAIN seen \subseteq Listings
           /\ \A l \in DOMAIN seen : seen[l] \in Candidates
<1>1. PICK s \in Said :
          \E x \in SalePrices(s) : \E shown \in SUBSET OffersOf(a) : seen \in [shown -> Readings(s, x)]
  BY DEF PostContents
<1>2. PICK x \in SalePrices(s) : \E shown \in SUBSET OffersOf(a) : seen \in [shown -> Readings(s, x)]
  BY <1>1
<1>3. PICK shown \in SUBSET OffersOf(a) : seen \in [shown -> Readings(s, x)]
  BY <1>2
<1>4. \A c \in Readings(s, x) : c \in Candidates
  BY ReadingsTyped
<1> QED BY <1>3, <1>4 DEF OffersOf

-----------------------------------------------------------------------------
(* One row.                                                                *)

\* An upsert keeps the type of a row.
LEMMA UpsertTyped ==
    ASSUME NEW r \in Rows, NEW c \in Candidates, NEW n \in Runs
    PROVE  Upserted(r, c, n) \in Rows
<1>1. Incoming(r, c) \in Statuses
  BY DEF Rows, Candidates, Incoming, Statuses
<1>2. HistoryAfter(r, c, n) \in Seq(StatusChanges)
  <2>1. [run |-> n, old |-> r.status, new |-> Incoming(r, c)] \in StatusChanges
    BY <1>1 DEF Rows, StatusChanges
  <2>2. r.history \in Seq(StatusChanges)
    BY DEF Rows
  <2> QED BY <2>1, <2>2 DEF HistoryAfter
<1>3. AskChanged(r, c) => AskRow(n, c) \in AskRows
  BY DEF AskChanged, AskRow, AskRows, Candidates
<1>4. SaleChanged(r, c) => [run |-> n, amount |-> c.sold] \in SaleRows
  BY DEF SaleChanged, SaleRows, Candidates
<1>5. SaleFlag(r, c) \in BOOLEAN /\ (r.soldSeen \/ Incoming(r, c) = "Sold") \in BOOLEAN
  BY DEF SaleFlag, Rows
<1>6. /\ Observed(c.amount, r.amount) \in Amounts \cup {None}
      /\ Observed(c.currency, r.currency) \in Currencies \cup {None}
      /\ Observed(c.usd, r.usd) \in (Amounts \X Currencies) \cup {None}
      /\ Observed(c.sold, r.sold) \in Amounts \cup {None}
      /\ r.sold \in Amounts \cup {None}
  BY DEF Observed, Candidates, Rows
<1>7. r.asks \cup (IF AskChanged(r, c) THEN {AskRow(n, c)} ELSE {}) \in SUBSET AskRows
  BY <1>3 DEF Rows
<1>8. r.sales \cup (IF SaleChanged(r, c) THEN {[run |-> n, amount |-> c.sold]} ELSE {})
          \in SUBSET SaleRows
  BY <1>4 DEF Rows
<1>9. r.purged \in BOOLEAN
  BY DEF Rows
<1> QED BY <1>1, <1>2, <1>5, <1>6, <1>7, <1>8, <1>9 DEF Upserted, Rows

\* The history of row r after a change to status s in run n.
Extended(r, s, n) == Append(r.history, [run |-> n, old |-> r.status, new |-> s])

\* A history that ends in status s and is a chain.
ChainTo(h, s) == /\ h # <<>> /\ Len(h) \in 1..Len(h) /\ h[Len(h)].new = s
                 /\ \A i \in 2..Len(h) : h[i].old = h[i - 1].new

\* A history that is extended by a change from its last status is a chain.
LEMMA AppendChains ==
    ASSUME NEW r \in Rows, Chained(r), NEW s \in Statuses, NEW n \in Runs
    PROVE  /\ ChainTo(Extended(r, s, n), s)
           /\ \A i \in 1..Len(r.history) : /\ i \in 1..Len(Extended(r, s, n))
                                            /\ Extended(r, s, n)[i] = r.history[i]
<1> DEFINE h == Extended(r, s, n)
           row == [run |-> n, old |-> r.status, new |-> s]
<1>1. r.history \in Seq(StatusChanges)
  BY DEF Rows
<1>2. row \in StatusChanges
  BY DEF StatusChanges, Rows
<1>3. /\ Len(h) = Len(r.history) + 1 /\ Len(r.history) \in Nat
      /\ h[Len(h)] = row
      /\ \A i \in 1..Len(r.history) : h[i] = r.history[i]
  BY <1>1, <1>2 DEF Extended
<1>4. h # <<>>
  BY <1>3, Len(<<>>) = 0
<1>5. Len(r.history) > 0 => r.history[Len(r.history)].new = r.status
  BY <1>1 DEF Chained
<1>6. \A i \in 2..Len(h) : h[i].old = h[i - 1].new
  <2> TAKE i \in 2..Len(h)
  <2>1. CASE i = Len(h)
    BY <2>1, <1>3, <1>5
  <2>2. CASE i < Len(h)
    BY <2>2, <1>3 DEF Chained
  <2> QED BY <2>1, <2>2, <1>3
<1> QED BY <1>3, <1>4, <1>6 DEF ChainTo

\* A record that is not rejected keeps the invariant of its row.
LEMMA UpsertKeepsRow ==
    ASSUME NEW r \in Rows, NEW c \in Candidates, NEW n \in Runs,
           RowInv(r), ~Rejects(r, c, n)
    PROVE  RowInv(Upserted(r, c, n))
<1> DEFINE u == Upserted(r, c, n)
<1>1. Incoming(r, c) \in Statuses /\ Incoming(r, c) # "none"
  BY DEF Rows, Candidates, Incoming, Statuses
<1>2. /\ u.status = Incoming(r, c) /\ u.history = HistoryAfter(r, c, n)
      /\ u.isSold = SaleFlag(r, c) /\ u.soldSeen = (r.soldSeen \/ Incoming(r, c) = "Sold")
      /\ u.amount = Observed(c.amount, r.amount) /\ u.purged = r.purged
      /\ u.asks = r.asks \cup (IF AskChanged(r, c) THEN {AskRow(n, c)} ELSE {})
  BY DEF Upserted
<1>3. Chained(r) /\ SoldHasEvidence(r) /\ PriceHasRow(r) /\ ~r.purged
  BY DEF RowInv, Rejects
<1>4. ASSUME StatusChanged(r, c)
      PROVE  Chained(u) /\ (u.isSold => \E i \in 1..Len(u.history) : u.history[i].new = "Sold")
  <2>1. u.history = Extended(r, u.status, n)
    BY <1>2, <1>4 DEF HistoryAfter, Extended
  <2>2. /\ ChainTo(u.history, u.status)
        /\ \A i \in 1..Len(r.history) : i \in 1..Len(u.history) /\ u.history[i] = r.history[i]
    <3>1. u.status \in Statuses
      BY <1>1, <1>2
    <3> HIDE DEF u
    <3> QED BY <2>1, <3>1, <1>3, AppendChains
  <2> HIDE DEF u
  <2>3. Chained(u)
    BY <2>2, <1>1, <1>2 DEF Chained, ChainTo
  <2>4. u.isSold => \E i \in 1..Len(u.history) : u.history[i].new = "Sold"
    BY <2>2, <1>2, <1>3 DEF SaleFlag, SoldHasEvidence, ChainTo
  <2> QED BY <2>3, <2>4
<1>5. ASSUME ~StatusChanged(r, c)
      PROVE  Chained(u) /\ (u.isSold => \E i \in 1..Len(u.history) : u.history[i].new = "Sold")
  <2>1. u.history = r.history /\ u.status = r.status
    BY <1>2, <1>5 DEF HistoryAfter, StatusChanged
  <2>2. r.history \in Seq(StatusChanges)
    BY DEF Rows
  <2> HIDE DEF u
  <2>3. Chained(u)
    BY <2>1, <1>3 DEF Chained
  <2>4. r.status = "Sold" => Len(r.history) \in 1..Len(r.history)
                             /\ r.history[Len(r.history)].new = "Sold"
    BY <1>3, <2>2 DEF Chained
  <2>5. u.isSold => \E i \in 1..Len(u.history) : u.history[i].new = "Sold"
    BY <2>1, <2>4, <1>2, <1>3 DEF SaleFlag, SoldHasEvidence
  <2> QED BY <2>3, <2>5
<1>6. u.status = "Sold" => u.isSold /\ u.soldSeen
  BY <1>2 DEF SaleFlag
<1>7. PriceHasRow(u)
  <2>1. AskChanged(r, c) => AskRow(n, c) \in u.asks /\ AskRow(n, c).amount = c.amount
    BY <1>2 DEF AskRow
  <2>2. CASE AskChanged(r, c)
    BY <2>1, <2>2, <1>2 DEF PriceHasRow, AskChanged, Observed
  <2>3. CASE ~AskChanged(r, c)
    BY <2>3, <1>2, <1>3 DEF PriceHasRow, AskChanged, Observed
  <2> QED BY <2>2, <2>3
<1> HIDE DEF u
<1>8. RowInv(u)
  BY <1>2, <1>3, <1>4, <1>5, <1>6, <1>7 DEF RowInv, SoldHasEvidence
<1> QED BY <1>8 DEF u

\* A savepoint keeps type and invariant of a row, and tombstones untouched.
LEMMA StoredKeepsRow ==
    ASSUME NEW r \in Rows, NEW c \in Candidates, NEW n \in Runs
    PROVE  /\ Stored(r, c, n) \in Rows
           /\ RowInv(r) => RowInv(Stored(r, c, n))
           /\ r.purged => Stored(r, c, n) = r
<1>1. CASE Rejects(r, c, n)
  BY <1>1 DEF Stored
<1>2. CASE ~Rejects(r, c, n)
  BY <1>2, UpsertTyped, UpsertKeepsRow DEF Stored, Rejects
<1> QED BY <1>1, <1>2

\* A purge leaves a tombstone, or nothing where nothing was stored.
LEMMA PurgeKeepsRow ==
    ASSUME NEW r \in Rows, RowInv(r), run \in Runs
    PROVE  /\ Purged(r) \in Rows /\ RowInv(Purged(r))
           /\ Purged(r) = r \/ Bare(Purged(r))
<1>1. CASE r.status = "none"
  BY <1>1 DEF Purged
<1>2. CASE r.status # "none"
  <2> DEFINE h == [run |-> run, old |-> r.status, new |-> "Removed"]
             p == [status |-> "Removed", purged |-> TRUE, isSold |-> FALSE, soldSeen |-> FALSE,
                   amount |-> None, currency |-> None, usd |-> None, sold |-> None,
                   history |-> <<h>>, asks |-> {}, sales |-> {}]
  <2>1. Purged(r) = p
    BY <1>2 DEF Purged, NoRow
  <2>2. h \in StatusChanges
    BY DEF StatusChanges, Statuses, Rows
  <2>3. <<h>> \in Seq(StatusChanges)
    BY <2>2
  <2>4. p \in Rows
    BY <2>3 DEF Rows, Statuses
  <2>5. Len(<<h>>) = 1 /\ <<h>> # <<>> /\ <<h>>[1] = h
    OBVIOUS
  <2>6. /\ p.status = "Removed" /\ p.purged /\ ~p.isSold /\ p.amount = None /\ p.usd = None
        /\ p.history = <<h>>
    OBVIOUS
  <2>7. h.new = "Removed"
    OBVIOUS
  <2> HIDE DEF p, h
  <2>8. Chained(p)
    BY <2>5, <2>6, <2>7 DEF Chained
  <2>9. SoldHasEvidence(p) /\ PriceHasRow(p) /\ Bare(p)
    BY <2>6 DEF SoldHasEvidence, PriceHasRow, Bare
  <2> QED BY <2>1, <2>4, <2>8, <2>9 DEF RowInv
<1> QED BY <1>1, <1>2

\* Marking an open offer unavailable keeps type and invariant of its row.
LEMMA MarkKeepsRow ==
    ASSUME NEW r \in Rows, RowInv(r), run \in Runs, r.status \in Statuses, r.status # "Removed"
    PROVE  MarkedUnavailable(r) \in Rows /\ RowInv(MarkedUnavailable(r))
<1> DEFINE h == Extended(r, "Unavailable", run)
           m == MarkedUnavailable(r)
<1>1. h \in Seq(StatusChanges)
  BY DEF Extended, Rows, StatusChanges, Statuses
<1>2. MarkedUnavailable(r) = [r EXCEPT !.status = "Unavailable", !.isSold = FALSE, !.history = h]
  BY DEF MarkedUnavailable, Extended
<1> HIDE DEF h
<1>3. m \in Rows
  BY <1>1, <1>2 DEF Rows, Statuses
<1>4. /\ m.status = "Unavailable" /\ m.history = h /\ ~m.isSold
      /\ m.amount = r.amount /\ m.asks = r.asks /\ m.purged = r.purged
  BY <1>2 DEF Rows
<1>5. ChainTo(h, "Unavailable")
  BY AppendChains DEF h, Statuses, RowInv
<1> HIDE DEF m
<1>6. Chained(m)
  BY <1>4, <1>5 DEF Chained, ChainTo
<1>7. SoldHasEvidence(m) /\ PriceHasRow(m) /\ ~m.purged
  BY <1>4 DEF SoldHasEvidence, PriceHasRow, RowInv, Bare
<1> QED BY <1>3, <1>6, <1>7 DEF RowInv, m

\* Reading a record again in the same run is accepted and changes nothing.
LEMMA RepeatKeepsRow ==
    ASSUME NEW r \in Rows, NEW c \in Candidates, run \in Runs, Repeatable(r, c)
    PROVE  QuietWhenRepeated(r, c)
<1> SUFFICES ASSUME ~Rejects(r, c, run)
             PROVE  /\ ~Rejects(Upserted(r, c, run), c, run)
                    /\ Upserted(Upserted(r, c, run), c, run) = Upserted(r, c, run)
  BY DEF QuietWhenRepeated
<1> DEFINE u == Upserted(r, c, run)
<1>1. /\ u.status = Incoming(r, c) /\ u.purged = r.purged
      /\ u.isSold = SaleFlag(r, c) /\ u.soldSeen = (r.soldSeen \/ Incoming(r, c) = "Sold")
      /\ u.amount = Observed(c.amount, r.amount)
      /\ u.currency = Observed(c.currency, r.currency)
      /\ u.usd = Observed(c.usd, r.usd)
      /\ u.sold = (IF Incoming(r, c) = "Sold" THEN Observed(c.sold, r.sold) ELSE r.sold)
  BY DEF Upserted
<1>2. u \in Rows
  BY UpsertTyped
<1>3. u = [status |-> u.status, purged |-> u.purged, isSold |-> u.isSold,
           soldSeen |-> u.soldSeen, amount |-> u.amount, currency |-> u.currency,
           usd |-> u.usd, sold |-> u.sold, history |-> u.history, asks |-> u.asks,
           sales |-> u.sales]
  BY <1>2 DEF Rows
<1>4. ~r.purged
  BY DEF Rejects
<1> HIDE DEF u
<1>5. Incoming(u, c) = u.status
  BY <1>1 DEF Incoming, Candidates, Statuses
<1>6. ~StatusChanged(u, c) /\ ~AskChanged(u, c) /\ ~SaleChanged(u, c)
  BY <1>1, <1>5 DEF StatusChanged, AskChanged, SaleChanged, Observed, Repeatable
<1>7. ~Rejects(u, c, run)
  BY <1>1, <1>4, <1>6 DEF Rejects
<1>8. Upserted(u, c, run) = u
  <2>1. HistoryAfter(u, c, run) = u.history
    BY <1>6 DEF HistoryAfter
  <2>2. SaleFlag(u, c) = u.isSold /\ (u.soldSeen \/ u.status = "Sold") = u.soldSeen
    BY <1>1, <1>2, <1>5 DEF SaleFlag, Rows
  <2>3. /\ Observed(c.amount, u.amount) = u.amount
        /\ Observed(c.currency, u.currency) = u.currency
        /\ Observed(c.usd, u.usd) = u.usd
        /\ (IF u.status = "Sold" THEN Observed(c.sold, u.sold) ELSE u.sold) = u.sold
    BY <1>1 DEF Observed
  <2>4. /\ u.asks \cup (IF AskChanged(u, c) THEN {AskRow(run, c)} ELSE {}) = u.asks
        /\ u.sales \cup (IF SaleChanged(u, c) THEN {[run |-> run, amount |-> c.sold]} ELSE {})
               = u.sales
    BY <1>6
  <2> QED BY <1>3, <1>5, <2>1, <2>2, <2>3, <2>4 DEF Upserted
<1> QED BY <1>7, <1>8 DEF u

-----------------------------------------------------------------------------
(* The table.                                                              *)

\* What a candidate set does to the open transaction.
LEMMA IngestKeeps ==
    ASSUME TypeOK, RowsInv, run \in Runs, NEW a \in Ads, NEW seen \in PostContents(a), Ingest(seen)
    PROVE  /\ txn' \in [Listings -> Rows] /\ errors' \in BOOLEAN
           /\ \A l \in Listings : RowInv(txn'[l]) /\ (txn[l].purged => txn'[l] = txn[l])
<1>1. \A l \in DOMAIN seen : l \in Listings /\ seen[l] \in Candidates
  BY ContentsTyped
<1>2. \A l \in Listings : txn[l] \in Rows /\ RowInv(txn[l])
  BY DEF TypeOK, RowsInv
<1>3. \A l \in DOMAIN seen :
          /\ Stored(txn[l], seen[l], run) \in Rows
          /\ RowInv(Stored(txn[l], seen[l], run))
          /\ txn[l].purged => Stored(txn[l], seen[l], run) = txn[l]
  BY <1>1, <1>2, StoredKeepsRow
<1>4. txn' = [l \in Listings |->
                  IF l \in DOMAIN seen THEN Stored(txn[l], seen[l], run) ELSE txn[l]]
  BY DEF Ingest
<1>5. errors' \in BOOLEAN
  BY DEF Ingest, TypeOK
<1> QED BY <1>2, <1>3, <1>4, <1>5

\* Nothing is stored at first.
LEMMA EmptyRow == NoRow \in Rows /\ RowInv(NoRow)
<1>1. NoRow \in Rows
  BY DEF NoRow, Rows
<1>2. /\ NoRow.status = "none" /\ NoRow.history = <<>> /\ ~NoRow.isSold
      /\ NoRow.amount = None /\ ~NoRow.purged
  BY DEF NoRow
<1>3. Len(<<>>) = 0
  OBVIOUS
<1> QED BY <1>1, <1>2, <1>3 DEF RowInv, Chained, SoldHasEvidence, PriceHasRow

\* The state of a run outside the tables.
RunTypeOK ==
    /\ run \in 0..MaxRuns
    /\ step \in Steps
    /\ step # "idle" => run > 0
    /\ reads \in 0..MaxReads
    /\ asked \subseteq Ads /\ deleted \subseteq Ads /\ returned \subseteq Ads
    /\ last \in [Listings -> Candidates \cup {None}]
    /\ errors \in BOOLEAN

\* Type and invariant of the tables.
TablesInv == /\ db \in [Listings -> Rows] /\ txn \in [Listings -> Rows]
             /\ RowsInv

\* A run asks for posts only.
LEMMA BeginRefreshTyped ==
    ASSUME NEW t, BeginRefresh(t)
    PROVE  step' = "refresh" /\ asked' \subseteq Ads
  BY DEF BeginRefresh, Refreshable, Recheckable

\* The state outside the tables keeps its types.
LEMMA RunStepTyped ==
    ASSUME TypeOK, RowsInv, [Next]_vars
    PROVE  RunTypeOK'
<1> USE DEF TypeOK, RunTypeOK, Steps, outcome, tables
<1>1. CASE StartRun
  <2>1. step' \in {"discover", "refresh"} /\ asked' \subseteq Ads
    BY <1>1, BeginRefreshTyped DEF StartRun
  <2>2. run' \in 0..MaxRuns /\ run' > 0
    BY <1>1 DEF StartRun
  <2>3. last' \in [Listings -> Candidates \cup {None}]
    BY <1>1 DEF StartRun, Nothing
  <2>4. reads' = 0 /\ deleted' = {} /\ returned' = {} /\ errors' = FALSE
    BY <1>1 DEF StartRun
  <2> QED BY <2>1, <2>2, <2>3, <2>4, Bounds
<1>2. CASE CommitDiscovery
  BY <1>2, BeginRefreshTyped DEF CommitDiscovery
<1>3. CASE CommitRefresh
  BY <1>3 DEF CommitRefresh
<1>4. CASE ApplyDeletions
  BY <1>4 DEF ApplyDeletions
<1>5. CASE Reconcile
  BY <1>5 DEF Reconcile
<1>6. CASE Unparsable
  BY <1>6 DEF Unparsable
<1>7. CASE Finish
  BY <1>7 DEF Finish
<1>8. CASE Stop
  BY <1>8 DEF Stop
<1>9. ASSUME NEW a \in Ads, DiscoverPost(a) PROVE RunTypeOK'
  BY <1>9 DEF DiscoverPost, Ingest, ReadOne
<1>10. ASSUME NEW a \in Ads, RefreshPost(a) PROVE RunTypeOK'
  <2>1. PICK seen \in PostContents(a) :
            Ingest(seen) /\ last' = [l \in Listings |-> IF l \in DOMAIN seen THEN seen[l] ELSE last[l]]
    BY <1>10 DEF RefreshPost
  <2>2. last' \in [Listings -> Candidates \cup {None}]
    BY <2>1, ContentsTyped
  <2>3. errors' \in BOOLEAN
    BY <2>1 DEF Ingest
  <2> QED BY <1>10, <2>2, <2>3 DEF RefreshPost, ReadOne
<1>11. ASSUME NEW a \in Ads, RefreshDeleted(a) PROVE RunTypeOK'
  BY <1>11 DEF RefreshDeleted
<1>12. CASE UNCHANGED vars
  BY <1>12 DEF vars
<1> QED BY <1>1, <1>2, <1>3, <1>4, <1>5, <1>6, <1>7, <1>8, <1>9, <1>10, <1>11, <1>12 DEF Next

\* The tables keep type and invariant, and tombstones are final.
LEMMA TableStep ==
    ASSUME TypeOK, RowsInv, [Next]_vars
    PROVE  TablesInv' /\ \A l \in Listings : db[l].purged => Bare(db'[l])
<1> DEFINE Goal == TablesInv' /\ \A l \in Listings : db[l].purged => Bare(db'[l])
<1> SUFFICES Goal
  OBVIOUS
<1>1. /\ db \in [Listings -> Rows] /\ txn \in [Listings -> Rows]
      /\ \A l \in Listings : /\ RowInv(db[l]) /\ RowInv(txn[l])
                             /\ db[l].purged => txn[l] = db[l] /\ Bare(db[l])
  BY DEF TypeOK, RowsInv, RowInv
<1>2. ASSUME UNCHANGED tables PROVE Goal
  BY <1>1, <1>2 DEF tables, TablesInv, RowsInv
<1>3. ASSUME NEW a \in Ads, NEW seen \in PostContents(a), Ingest(seen), UNCHANGED db, step # "idle"
      PROVE  Goal
  <2>1. run \in Runs
    BY <1>3 DEF TypeOK, Runs
  <2>2. txn' \in [Listings -> Rows]
        /\ \A l \in Listings : RowInv(txn'[l]) /\ (txn[l].purged => txn'[l] = txn[l])
    BY <1>3, <2>1, IngestKeeps
  <2> QED BY <1>1, <1>3, <2>2 DEF TablesInv, RowsInv
<1>4. ASSUME db' = txn, UNCHANGED txn PROVE Goal
  BY <1>1, <1>4 DEF TablesInv, RowsInv
<1>5. ASSUME txn' = db, UNCHANGED db PROVE Goal
  BY <1>1, <1>5 DEF TablesInv, RowsInv
<1>6. ASSUME txn' = db', db' \in [Listings -> Rows],
             \A l \in Listings : RowInv(db'[l]) /\ (db[l].purged => Bare(db'[l]))
      PROVE  Goal
  BY <1>6 DEF TablesInv, RowsInv
<1>7. CASE ApplyDeletions
  <2>1. run \in Runs
    BY <1>7 DEF TypeOK, Runs, ApplyDeletions
  <2>2. PICK done \in SUBSET deleted :
            db' = [l \in Listings |-> IF AdOf[l] \in done THEN Purged(db[l]) ELSE db[l]]
    BY <1>7 DEF ApplyDeletions
  <2>3. \A l \in Listings : /\ Purged(db[l]) \in Rows /\ RowInv(Purged(db[l]))
                            /\ Purged(db[l]) = db[l] \/ Bare(Purged(db[l]))
    BY <1>1, <2>1, PurgeKeepsRow
  <2> QED BY <1>1, <1>6, <1>7, <2>2, <2>3 DEF ApplyDeletions
<1>8. CASE Reconcile
  <2>1. run \in Runs
    BY <1>8 DEF TypeOK, Runs, Reconcile
  <2>2. db' = [l \in Listings |-> IF l \in Missing THEN MarkedUnavailable(db[l]) ELSE db[l]]
        /\ txn' = db'
    BY <1>8 DEF Reconcile
  <2>3. \A l \in Missing : /\ l \in Listings /\ db[l].status \in Statuses
                           /\ db[l].status # "Removed" /\ ~db[l].purged
    BY <1>1 DEF Missing, Statuses, Bare
  <2>4. \A l \in Missing : MarkedUnavailable(db[l]) \in Rows /\ RowInv(MarkedUnavailable(db[l]))
    BY <1>1, <2>1, <2>3, MarkKeepsRow
  <2> QED BY <1>1, <1>6, <2>2, <2>3, <2>4
<1>9. CASE StartRun \/ Unparsable \/ Finish \/ UNCHANGED vars
  BY <1>2, <1>9 DEF StartRun, Unparsable, Finish, vars, tables
<1>10. CASE CommitDiscovery \/ CommitRefresh
  BY <1>4, <1>10 DEF CommitDiscovery, CommitRefresh
<1>11. CASE Stop
  BY <1>5, <1>11 DEF Stop
<1>12. ASSUME NEW a \in Ads, DiscoverPost(a) \/ RefreshPost(a) \/ RefreshDeleted(a) PROVE Goal
  <2>1. CASE DiscoverPost(a)
    BY <1>3, <2>1 DEF DiscoverPost
  <2>2. CASE RefreshPost(a)
    BY <1>3, <2>2 DEF RefreshPost
  <2>3. CASE RefreshDeleted(a)
    BY <1>2, <2>3 DEF RefreshDeleted
  <2> QED BY <1>12, <2>1, <2>2, <2>3
<1> HIDE DEF Goal
<1> QED BY <1>7, <1>8, <1>9, <1>10, <1>11, <1>12 DEF Next

-----------------------------------------------------------------------------
(* Theorems.                                                               *)

\* Initially the table is empty.
LEMMA InitInv == Init => TypeOK /\ RowsInv
<1> SUFFICES ASSUME Init PROVE TypeOK /\ RowsInv
  OBVIOUS
<1>1. \A l \in Listings : /\ db[l] = NoRow /\ txn[l] = NoRow
                          /\ NoRow \in Rows /\ RowInv(NoRow) /\ ~NoRow.purged
  BY EmptyRow DEF Init, NoRow
<1>2. RowsInv
  BY <1>1 DEF RowsInv
<1>3. TypeOK
  BY EmptyRow, Bounds DEF Init, TypeOK, Steps, Nothing
<1> QED BY <1>2, <1>3

\* Type and invariant are inductive.
LEMMA StepInv == TypeOK /\ RowsInv /\ [Next]_vars => (TypeOK /\ RowsInv)'
<1> SUFFICES ASSUME TypeOK, RowsInv, [Next]_vars PROVE (TypeOK /\ RowsInv)'
  OBVIOUS
<1>1. RunTypeOK'
  BY RunStepTyped
<1>2. TablesInv'
  BY TableStep
<1> QED BY <1>1, <1>2 DEF RunTypeOK, TablesInv, TypeOK

\* The variables keep their types, and every row its invariant.
THEOREM RowsAreSound == Spec => []IInv
  BY InitInv, StepInv, PTL DEF Spec, IInv

\* The status history is a chain that ends in the current status, for every
\* source and any number of runs.
THEOREM HistoryIsChainAlways == Spec => []HistoryIsChain
<1>1. TypeOK /\ RowsInv => HistoryIsChain
  BY DEF RowsInv, RowInv, HistoryIsChain
<1> QED BY RowsAreSound, <1>1, PTL DEF IInv

\* A sale flag always rests on an explicit sale in the history.
THEOREM SoldIsEvidencedAlways == Spec => []SoldIsEvidenced
<1>1. TypeOK /\ RowsInv => SoldIsEvidenced
  BY DEF RowsInv, RowInv, SoldIsEvidenced
<1> QED BY RowsAreSound, <1>1, PTL DEF IInv

\* An asking price always has its row in the price history.
THEOREM PriceIsRecordedAlways == Spec => []PriceIsRecorded
<1>1. TypeOK /\ RowsInv => PriceIsRecorded
  BY DEF RowsInv, RowInv, PriceIsRecorded
<1> QED BY RowsAreSound, <1>1, PTL DEF IInv

\* Nothing ever refills a tombstone.
THEOREM TombstoneIsFinalAlways == Spec => TombstoneIsFinal
<1>1. TypeOK /\ RowsInv /\ [Next]_vars => [\A l \in Listings : db[l].purged => Bare(db'[l])]_vars
  BY TableStep
<1> QED BY RowsAreSound, <1>1, PTL DEF Spec, TombstoneIsFinal, IInv

\* Reading a record again in the same run never changes or rejects anything.
THEOREM RepeatIsQuietAlways == Spec => []RepeatIsQuiet
<1>1. TypeOK /\ RowsInv => RepeatIsQuiet
  <2> SUFFICES ASSUME TypeOK, step \in {"discover", "refresh"},
                      NEW l \in Listings, NEW c \in AllReadings, Repeatable(txn[l], c)
               PROVE  QuietWhenRepeated(txn[l], c)
    BY DEF RepeatIsQuiet
  <2>1. c \in Candidates
    BY ReadingsTyped DEF AllReadings
  <2>2. txn[l] \in Rows /\ run \in Runs
    BY DEF TypeOK, Runs
  <2> QED BY <2>1, <2>2, RepeatKeepsRow
<1> QED BY RowsAreSound, <1>1, PTL DEF IInv

-----------------------------------------------------------------------------
(* What the source said.                                                   *)

\* A record that is stored is reflected by its row.
LEMMA UpsertReflects ==
    ASSUME NEW r \in Rows, NEW c \in Candidates, NEW n \in Runs
    PROVE  /\ Reflects(Upserted(r, c, n), c)
           /\ Upserted(r, c, n).status # "none"
<1>1. /\ Upserted(r, c, n).status = Incoming(r, c)
      /\ Upserted(r, c, n).amount = Observed(c.amount, r.amount)
  BY DEF Upserted
<1>2. c.status # "none"
  BY DEF Candidates, Statuses
<1> QED BY <1>1, <1>2 DEF Reflects, Incoming, Observed

\* A post whose records are all stored is reflected by their rows.
LEMMA IngestReflects ==
    ASSUME TypeOK, ReflectInv, run \in Runs, NEW a \in Ads, NEW seen \in PostContents(a), Ingest(seen)
    PROVE  /\ DOMAIN seen \subseteq OffersOf(a)
           /\ \A l \in DOMAIN seen : l \in Listings /\ seen[l] \in Candidates
           /\ \A l \in Listings : txn'[l].status = "none" => txn'[l] = NoRow
           /\ errors => errors'
           /\ ~errors' => \A l \in DOMAIN seen : Reflects(txn'[l], seen[l])
           /\ \A l \in Listings \ DOMAIN seen : txn'[l] = txn[l]
<1>1. \A l \in DOMAIN seen : l \in Listings /\ seen[l] \in Candidates
  BY ContentsTyped
<1>2. DOMAIN seen \subseteq OffersOf(a)
  <2>1. PICK s \in Said :
            \E x \in SalePrices(s) : \E shown \in SUBSET OffersOf(a) : seen \in [shown -> Readings(s, x)]
    BY DEF PostContents
  <2>2. PICK x \in SalePrices(s) : \E shown \in SUBSET OffersOf(a) : seen \in [shown -> Readings(s, x)]
    BY <2>1
  <2> QED BY <2>2
<1>3. \A l \in Listings :
          txn'[l] = IF l \in DOMAIN seen THEN Stored(txn[l], seen[l], run) ELSE txn[l]
  BY DEF Ingest
<1>4. errors' = (errors \/ \E l \in DOMAIN seen : Rejects(txn[l], seen[l], run))
  BY DEF Ingest
<1>5. \A l \in DOMAIN seen :
          /\ Reflects(Upserted(txn[l], seen[l], run), seen[l])
          /\ Upserted(txn[l], seen[l], run).status # "none"
  BY <1>1, UpsertReflects DEF TypeOK
<1>6. \A l \in Listings : txn[l].status = "none" => txn[l] = NoRow
  BY DEF ReflectInv
<1>7. \A l \in Listings : txn'[l].status = "none" => txn'[l] = NoRow
  BY <1>1, <1>3, <1>5, <1>6 DEF Stored
<1>8. ~errors' => \A l \in DOMAIN seen : Reflects(txn'[l], seen[l])
  BY <1>1, <1>3, <1>4, <1>5 DEF Stored
<1> QED BY <1>1, <1>2, <1>3, <1>4, <1>7, <1>8

LEMMA SourceInit == Init => SourceInv
  BY DEF Init, SourceInv, SessionInv, AnswersInv, ReflectInv, Reading, AfterRefresh, Nothing

\* Nothing is asked, answered or wrong when a run starts.
LEMMA StartRunSource ==
    ASSUME TypeOK, SourceInv, StartRun
    PROVE  SourceInv'
<1>1. /\ step' \in Reading /\ deleted' = {} /\ returned' = {} /\ last' = Nothing
      /\ UNCHANGED <<db, txn>>
  BY DEF StartRun, BeginRefresh, Reading, tables
<1> QED BY <1>1 DEF SourceInv, SessionInv, AnswersInv, ReflectInv, Reading, AfterRefresh, Nothing

\* A post that is discovered changes the transaction only.
LEMMA DiscoverSource ==
    ASSUME TypeOK, SourceInv, NEW a \in Ads, DiscoverPost(a)
    PROVE  SourceInv'
<1>1. run \in Runs /\ step = "discover" /\ step' = "discover" /\ UNCHANGED <<db, outcome>>
  BY DEF DiscoverPost, TypeOK, Runs
<1>2. PICK seen \in PostContents(a) : Ingest(seen)
  BY DEF DiscoverPost
<1>3. \A l \in Listings : txn'[l].status = "none" => txn'[l] = NoRow
  BY <1>1, <1>2, IngestReflects DEF SourceInv
<1> QED BY <1>1, <1>3
        DEF SourceInv, SessionInv, AnswersInv, ReflectInv, Reading, AfterRefresh, outcome

\* After discovery nothing is known yet of the posts to refresh.
LEMMA CommitDiscoverySource ==
    ASSUME TypeOK, SourceInv, CommitDiscovery
    PROVE  SourceInv'
<1>1. /\ step = "discover" /\ step' \in {"refresh", "finished"} /\ db' = txn
      /\ UNCHANGED <<txn, outcome, errors>>
  BY DEF CommitDiscovery, BeginRefresh
<1>2. last = Nothing /\ deleted = {} /\ returned = {}
  BY <1>1 DEF SourceInv, AnswersInv
<1> QED BY <1>1, <1>2
        DEF SourceInv, SessionInv, AnswersInv, ReflectInv, Reading, AfterRefresh, outcome, Nothing

\* A refreshed post is in the transaction as the source returned it.
LEMMA RefreshPostSource ==
    ASSUME TypeOK, SourceInv, NEW a \in Ads, RefreshPost(a)
    PROVE  SourceInv'
<1>1. /\ run \in Runs /\ step = "refresh" /\ step' = "refresh" /\ UNCHANGED <<db, deleted>>
      /\ a \in asked
      /\ IF Source = "reddit" THEN asked' = asked \ {a} /\ returned' = returned \cup {a}
         ELSE UNCHANGED <<asked, returned>>
  BY DEF RefreshPost, TypeOK, Runs
<1>2. PICK seen \in PostContents(a) :
          /\ Ingest(seen)
          /\ last' = [l \in Listings |-> IF l \in DOMAIN seen THEN seen[l] ELSE last[l]]
  BY DEF RefreshPost
<1>3. /\ DOMAIN seen \subseteq OffersOf(a)
      /\ \A l \in Listings : txn'[l].status = "none" => txn'[l] = NoRow
      /\ errors => errors'
      /\ ~errors' => \A l \in DOMAIN seen : Reflects(txn'[l], seen[l])
      /\ \A l \in Listings \ DOMAIN seen : txn'[l] = txn[l]
  BY <1>1, <1>2, IngestReflects DEF SourceInv
<1>4. SessionInv'
  BY <1>1 DEF SessionInv, Reading
<1>5. AnswersInv'
  <2>1. asked \cap (deleted \cup returned) = {} /\ deleted \cap returned = {}
    BY <1>1 DEF SourceInv, AnswersInv
  <2>2. asked' \cap (deleted' \cup returned') = {} /\ deleted' \cap returned' = {}
    BY <1>1, <2>1
  <2>3. ASSUME Source = "reddit", NEW l \in Listings, last'[l] # None PROVE AdOf[l] \in returned'
    <3>1. CASE l \in DOMAIN seen
      BY <1>1, <1>3, <2>3, <3>1 DEF OffersOf
    <3>2. CASE l \notin DOMAIN seen
      BY <1>1, <1>2, <2>3, <3>2 DEF SourceInv, AnswersInv
    <3> QED BY <3>1, <3>2
  <2>4. Source = "chrono24" => deleted' = {} /\ returned' = {}
    BY <1>1 DEF SourceInv, AnswersInv
  <2> QED BY <1>1, <2>2, <2>3, <2>4 DEF AnswersInv
<1>6. ReflectInv'
  <2>1. ASSUME ~errors', NEW l \in Listings, last'[l] # None PROVE Reflects(txn'[l], last'[l])
    <3>1. CASE l \in DOMAIN seen
      BY <1>2, <1>3, <2>1, <3>1
    <3>2. CASE l \notin DOMAIN seen
      BY <1>1, <1>2, <1>3, <2>1, <3>2 DEF SourceInv, ReflectInv
    <3> QED BY <3>1, <3>2
  <2>2. \A l \in Listings : db'[l].status = "none" => db'[l] = NoRow
    BY <1>1 DEF SourceInv, ReflectInv
  <2> QED BY <1>1, <1>3, <2>1, <2>2 DEF ReflectInv
<1> QED BY <1>4, <1>5, <1>6 DEF SourceInv

\* A post reported deleted is remembered until the deletions are applied.
LEMMA RefreshDeletedSource ==
    ASSUME TypeOK, SourceInv, NEW a \in Ads, RefreshDeleted(a)
    PROVE  SourceInv'
<1>1. /\ Source = "reddit" /\ step = "refresh" /\ a \in asked
      /\ asked' = asked \ {a} /\ deleted' = deleted \cup {a}
      /\ UNCHANGED <<db, txn, step, returned, last, errors>>
  BY DEF RefreshDeleted, tables
<1>2. asked \cap (deleted \cup returned) = {} /\ deleted \cap returned = {}
  BY <1>1 DEF SourceInv, AnswersInv
<1>3. asked' \cap (deleted' \cup returned') = {} /\ deleted' \cap returned' = {}
  BY <1>1, <1>2
<1>4. AnswersInv'
  BY <1>1, <1>3 DEF SourceInv, AnswersInv
<1>5. ReflectInv' /\ SessionInv'
  BY <1>1 DEF SourceInv, ReflectInv, SessionInv, Reading
<1> QED BY <1>4, <1>5 DEF SourceInv

\* Purging every deleted post leaves nothing of it, and the others alone.
LEMMA ApplyDeletionsSource ==
    ASSUME TypeOK, SourceInv, ApplyDeletions
    PROVE  SourceInv'
<1>1. PICK done \in SUBSET deleted :
          /\ db' = [l \in Listings |-> IF AdOf[l] \in done THEN Purged(db[l]) ELSE db[l]]
          /\ errors' = (errors \/ done # deleted)
  BY DEF ApplyDeletions
<1>2. step = "deletions" /\ step' = "reconcile" /\ txn' = db' /\ UNCHANGED <<run, outcome>>
  BY DEF ApplyDeletions
<1>3. txn = db
  BY <1>2 DEF SourceInv, SessionInv, Reading
<1>4. ASSUME NEW l \in Listings
      PROVE  /\ db[l].status = "none" => db[l] = NoRow
             /\ Purged(db[l]) = NoRow \/ (Purged(db[l]).purged /\ Purged(db[l]).status = "Removed")
  <2>1. db[l].status = "none" => db[l] = NoRow
    BY DEF SourceInv, ReflectInv
  <2> QED BY <2>1 DEF Purged, NoRow
<1>5. \A l \in Listings : db'[l].status = "none" => db'[l] = NoRow
  BY <1>1, <1>4
<1>6. \A l \in Listings : AdOf[l] \notin done => db'[l] = db[l]
  BY <1>1
<1>7. \A l \in Listings : AdOf[l] \in done => db'[l] = NoRow \/ db'[l].purged
  BY <1>1, <1>4
<1>8. ASSUME NEW l \in Listings, last[l] # None PROVE AdOf[l] \notin done
  BY <1>8 DEF SourceInv, AnswersInv
<1>9. ASSUME ~errors', NEW l \in Listings, last[l] # None PROVE Reflects(txn'[l], last[l])
  BY <1>1, <1>2, <1>3, <1>6, <1>8, <1>9 DEF SourceInv, ReflectInv, AfterRefresh
<1>10. ReflectInv'
  BY <1>1, <1>2, <1>5, <1>7, <1>9 DEF ReflectInv, AfterRefresh, outcome
<1>11. SessionInv' /\ AnswersInv'
  BY <1>2 DEF SourceInv, SessionInv, AnswersInv, outcome
<1> QED BY <1>10, <1>11 DEF SourceInv

\* Reconciliation closes the offers a returned post does not show, and only
\* those.
LEMMA ReconcileSource ==
    ASSUME TypeOK, SourceInv, Reconcile
    PROVE  SourceInv'
<1>1. /\ step = "reconcile" /\ step' = "finished" /\ txn' = db' /\ UNCHANGED <<outcome, errors>>
      /\ db' = [l \in Listings |-> IF l \in Missing THEN MarkedUnavailable(db[l]) ELSE db[l]]
  BY DEF Reconcile
<1>2. txn = db
  BY <1>1 DEF SourceInv, SessionInv, Reading
<1>3. \A l \in Listings : db[l] \in Rows
  BY DEF TypeOK
<1>4. \A l \in Listings : MarkedUnavailable(db[l]).status = "Unavailable"
  BY <1>3 DEF MarkedUnavailable, Rows
<1>5. \A l \in Listings : l \notin Missing => db'[l] = db[l]
  BY <1>1
<1>6. \A l \in Missing : l \in Listings /\ db'[l].status = "Unavailable"
  BY <1>1, <1>4 DEF Missing
<1>7. \A l \in Listings : last[l] # None => l \notin Missing
  BY DEF Missing
<1>8. \A l \in Listings : AdOf[l] \in deleted => l \notin Missing
  BY DEF Missing, SourceInv, AnswersInv
<1>9. \A l \in Listings : AdOf[l] \in returned /\ last[l] = None =>
          db'[l].status \notin {"Active", "Pending", "Reserved", "Unknown"}
  BY <1>5, <1>6 DEF Missing
<1>10. \A l \in Listings : db'[l].status = "none" => db'[l] = NoRow
  BY <1>5, <1>6 DEF SourceInv, ReflectInv
<1>11. ~errors => \A l \in Listings : last[l] # None => Reflects(db'[l], last[l])
  BY <1>1, <1>2, <1>5, <1>7 DEF SourceInv, ReflectInv, AfterRefresh
<1>12. ~errors => \A l \in Listings : AdOf[l] \in deleted => db'[l] = NoRow \/ db'[l].purged
  BY <1>1, <1>2, <1>5, <1>8 DEF SourceInv, ReflectInv
<1>13. ReflectInv'
  BY <1>1, <1>9, <1>10, <1>11, <1>12 DEF ReflectInv, outcome
<1>14. SessionInv' /\ AnswersInv'
  BY <1>1 DEF SourceInv, SessionInv, AnswersInv, outcome
<1> QED BY <1>13, <1>14 DEF SourceInv

\* Every step of a run keeps what it knows of the source.
LEMMA SourceNext ==
    ASSUME TypeOK, SourceInv, [Next]_vars
    PROVE  SourceInv'
<1>1. CASE Unparsable
  BY <1>1 DEF Unparsable, SourceInv, SessionInv, AnswersInv, ReflectInv, tables, outcome
<1>2. CASE CommitRefresh
  <2>1. /\ step = "refresh" /\ step' = "deletions" /\ db' = txn /\ UNCHANGED <<txn, outcome, errors>>
    BY <1>2 DEF CommitRefresh
  <2> QED BY <2>1 DEF SourceInv, SessionInv, AnswersInv, ReflectInv, AfterRefresh, Reading, outcome
<1>3. CASE Finish \/ Stop
  <2>1. /\ step' = "idle" /\ db' = db /\ txn' = db /\ UNCHANGED outcome
    BY <1>3 DEF Finish, Stop, SourceInv, SessionInv, Reading, tables
  <2> QED BY <2>1 DEF SourceInv, SessionInv, AnswersInv, ReflectInv, AfterRefresh, Reading, outcome
<1>4. CASE UNCHANGED vars
  BY <1>4 DEF vars, SourceInv, SessionInv, AnswersInv, ReflectInv, tables, outcome
<1> QED BY <1>1, <1>2, <1>3, <1>4, StartRunSource, DiscoverSource, CommitDiscoverySource,
           RefreshPostSource, RefreshDeletedSource, ApplyDeletionsSource, ReconcileSource
        DEF Next

\* A run that ends without an error has brought the table to what the source
\* said last, whatever was edited, deleted or moved while it read.
THEOREM SuccessReflectsSourceAlways == Spec => []SuccessReflectsSource
<1>1. SourceInv => SuccessReflectsSource
  <2> SUFFICES ASSUME SourceInv, step = "finished", ~errors
               PROVE  /\ \A l \in Listings : last[l] # None => Reflects(db[l], last[l])
                      /\ \A l \in Listings : AdOf[l] \in returned /\ last[l] = None =>
                             db[l].status \notin {"Active", "Pending", "Reserved", "Unknown"}
                      /\ \A l \in Listings : AdOf[l] \in deleted => db[l] = NoRow \/ db[l].purged
    BY DEF SuccessReflectsSource, Reflects
  <2>1. txn = db
    BY DEF SourceInv, SessionInv, Reading
  <2> QED BY <2>1 DEF SourceInv, ReflectInv, AfterRefresh
<1>2. TypeOK /\ SourceInv /\ [Next]_vars => SourceInv'
  BY SourceNext
<1> QED BY <1>1, <1>2, SourceInit, RowsAreSound, PTL DEF Spec, IInv
=============================================================================
