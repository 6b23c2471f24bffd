--------------------------- MODULE ListingHistory ---------------------------
(***************************************************************************)
(* The listing table of watch-deal-tracker, its status and price history,  *)
(* and the collection steps of a run that write them.                      *)
(*                                                                         *)
(* For one source a run discovers new posts, asks again for the posts it   *)
(* already stores, removes what Reddit reports deleted and marks offers    *)
(* that left their post unavailable.  Each of the four is a transaction of *)
(* its own; inside the first two every record has a savepoint, so that a   *)
(* record the database rejects does not discard its siblings.  A post may  *)
(* be edited between any two reads and may be read several times in a run. *)
(*                                                                         *)
(* Left out: the descriptive fields, the observations, duplicate groups    *)
(* and erasure events (see ErasureWorkflow).  Offers state no shipping     *)
(* cost, so their all-in price is the asking price and has no row of its   *)
(* own.  Both sources give every record an identifier of its own.          *)
(***************************************************************************)
EXTENDS Integers, Sequences, FiniteSets

CONSTANTS
    Source,      \* "reddit" or "chrono24"
    Ads,         \* posts, or records of the feed
    Listings,    \* the offers parsed from them
    AdOf,        \* AdOf[l]: the post an offer belongs to
    Said,        \* statuses a post or feed record may state
    Amounts,     \* asking and sale prices
    Currencies,  \* explicitly stated currencies, "USD" or others
    None,        \* a value that is not stated or not known
    MaxRuns,     \* bound on the number of runs
    MaxReads     \* bound on the records read in one transaction

Statuses == {"Active", "Pending", "Reserved", "Sold", "Withdrawn", "Expired",
             "Removed", "Unavailable", "Unknown"}

ASSUME ConstantsAssumption ==
    /\ Source \in {"reddit", "chrono24"}
    /\ AdOf \in [Listings -> Ads]
    /\ Said \subseteq Statuses
    /\ Source = "reddit" => Said \subseteq {"Active", "Pending", "Reserved", "Sold", "Removed"}
    /\ None \notin Amounts /\ None \notin Currencies
    /\ "UNK" \notin Currencies
    /\ MaxRuns \in Nat /\ MaxReads \in Nat

-----------------------------------------------------------------------------
(* Data.                                                                   *)

Runs == 1..MaxRuns

\* A candidate: what one record says of an offer.  usd is the conversion of
\* the amount, identified by the amount and the currency it converts.
Candidates ==
    [status : Said, amount : Amounts \cup {None}, currency : Currencies \cup {None},
     usd : (Amounts \X Currencies) \cup {None}, sold : Amounts \cup {None}]

StatusChanges == [run : Runs, old : Statuses \cup {"none"}, new : Statuses]
AskRows == [run : Runs, amount : Amounts, currency : Currencies \cup {"UNK"}]
SaleRows == [run : Runs, amount : Amounts]

Rows == [status : Statuses \cup {"none"}, purged : BOOLEAN,
         isSold : BOOLEAN, soldSeen : BOOLEAN,
         amount : Amounts \cup {None}, currency : Currencies \cup {None},
         usd : (Amounts \X Currencies) \cup {None}, sold : Amounts \cup {None},
         history : Seq(StatusChanges), asks : SUBSET AskRows, sales : SUBSET SaleRows]

\* An offer that is not stored.
NoRow == [status |-> "none", purged |-> FALSE, isSold |-> FALSE, soldSeen |-> FALSE,
          amount |-> None, currency |-> None, usd |-> None, sold |-> None,
          history |-> <<>>, asks |-> {}, sales |-> {}]

VARIABLES
    db,       \* the committed listing table with its history tables
    txn,      \* the tables as the open session sees them
    run,      \* number of the current run
    step,     \* what the run does next
    reads,    \* records read in this transaction
    asked,    \* posts the refresh still has to ask for
    deleted,  \* deleted_source_ad_ids of the refresh
    returned, \* returned_source_ad_ids of the refresh
    last,     \* the last candidate of each offer in the refresh
    errors    \* source_errors is not zero

tables == <<db, txn>>
outcome == <<deleted, returned, last>>
vars == <<tables, run, step, reads, asked, outcome, errors>>

Steps == {"idle", "discover", "refresh", "deletions", "reconcile", "finished"}

TypeOK ==
    /\ db \in [Listings -> Rows] /\ txn \in [Listings -> Rows]
    /\ run \in 0..MaxRuns
    /\ step \in Steps
    /\ step # "idle" => run > 0
    /\ reads \in 0..MaxReads
    /\ asked \subseteq Ads /\ deleted \subseteq Ads /\ returned \subseteq Ads
    /\ last \in [Listings -> Candidates \cup {None}]
    /\ errors \in BOOLEAN

Nothing == [l \in Listings |-> None]

Init ==
    /\ db = [l \in Listings |-> NoRow] /\ txn = db
    /\ run = 0 /\ step = "idle" /\ reads = 0
    /\ asked = {} /\ deleted = {} /\ returned = {}
    /\ last = Nothing
    /\ errors = FALSE

-----------------------------------------------------------------------------
(* Repository.upsert_candidate.                                            *)

\* An unknown status leaves that of a stored listing alone.
Incoming(r, c) == IF r.status # "none" /\ c.status = "Unknown" THEN r.status ELSE c.status

\* Only what the record states replaces what is stored.
Observed(new, old) == IF new # None THEN new ELSE old

StatusChanged(r, c) == r.status # Incoming(r, c)
\* Seeded fault: only a known price can change.
BugAskChanged(r, c) ==
    c.amount # None /\ r.amount # None /\ (r.amount # c.amount \/ r.currency # c.currency)

AskChanged(r, c) == c.amount # None /\ (r.amount # c.amount \/ r.currency # c.currency)
\* Seeded fault: a disclosed price is not compared with the stored one.
BugSaleChanged(r, c) == c.sold # None

SaleChanged(r, c) == c.sold # None /\ r.sold # c.sold

AskRow(n, c) ==
    [run |-> n, amount |-> c.amount,
     currency |-> IF c.currency = None THEN "UNK" ELSE c.currency]

\* Seeded fault: a tombstone gives its listing_uid away.
BugRejects(r, c, n) ==
    /\ StatusChanged(r, c)
    /\ \E i \in 1..Len(r.history) :
          r.history[i].run = n /\ r.history[i].new = Incoming(r, c)

\* Unique constraints: a tombstone keeps its listing_uid, and a run writes at
\* most one row for a new status, an asking price or a sale price of a listing.
Rejects(r, c, n) ==
    \/ r.purged
    \/ /\ StatusChanged(r, c)
       /\ \E i \in 1..Len(r.history) :
             r.history[i].run = n /\ r.history[i].new = Incoming(r, c)
    \/ AskChanged(r, c) /\ AskRow(n, c) \in r.asks
    \/ SaleChanged(r, c) /\ [run |-> n, amount |-> c.sold] \in r.sales

\* Seeded fault: the sale flag follows the record instead of the stored status.
BugSaleFlag(r, c) == c.status = "Sold"

\* An observed sale is never taken back by a later record.
SaleFlag(r, c) == r.isSold \/ Incoming(r, c) = "Sold"

HistoryAfter(r, c, n) ==
    IF StatusChanged(r, c)
    THEN Append(r.history, [run |-> n, old |-> r.status, new |-> Incoming(r, c)])
    ELSE r.history

Upserted(r, c, n) ==
    [status |-> Incoming(r, c),
     purged |-> r.purged,
     isSold |-> SaleFlag(r, c),
     soldSeen |-> r.soldSeen \/ Incoming(r, c) = "Sold",
     amount |-> Observed(c.amount, r.amount),
     currency |-> Observed(c.currency, r.currency),
     usd |-> Observed(c.usd, r.usd),
     sold |-> IF Incoming(r, c) = "Sold" THEN Observed(c.sold, r.sold) ELSE r.sold,
     history |-> HistoryAfter(r, c, n),
     asks |-> r.asks \cup (IF AskChanged(r, c) THEN {AskRow(n, c)} ELSE {}),
     sales |-> r.sales \cup (IF SaleChanged(r, c)
                             THEN {[run |-> n, amount |-> c.sold]} ELSE {})]

\* The savepoint: a rejected record changes nothing.
Stored(r, c, n) == IF Rejects(r, c, n) THEN r ELSE Upserted(r, c, n)

-----------------------------------------------------------------------------
(* Reading one post.                                                       *)

OffersOf(a) == {l \in Listings : AdOf[l] = a}

\* A feed record may state a currency without a price.
Prices == [amount : Amounts, currency : Currencies \cup {None}]
          \cup [amount : {None}, currency : IF Source = "chrono24"
                                            THEN Currencies \cup {None} ELSE {None}]

\* What the converter makes of a price: it knows USD, needs a rate for other
\* currencies, and cannot convert an amount without a currency.
Conversions(price) ==
    IF None \in {price.amount, price.currency} THEN {None}
    ELSE {<<price.amount, price.currency>>} \cup (IF price.currency = "USD" THEN {} ELSE {None})

\* Candidates of a post with status s and sale price x.
Readings(s, x) ==
    UNION {{[status |-> s, amount |-> p.amount, currency |-> p.currency, usd |-> u, sold |-> x] :
                u \in Conversions(p)} : p \in Prices}

\* On Reddit a sale price is looked for in sold posts only.
SalePrices(s) == {None} \cup (IF Source = "chrono24" \/ s = "Sold" THEN Amounts ELSE {})

\* Maps from the offers a post shows to their candidates.  All offers of a
\* post share its status and sale price; its text may show any of them.
PostContents(a) ==
    UNION {UNION {UNION {[shown -> Readings(s, x)] : shown \in SUBSET OffersOf(a)} :
              x \in SalePrices(s)} : s \in Said}

\* Seeded fault: rejected records are not counted as errors.
BugIngest(seen) ==
    /\ txn' = [l \in Listings |->
                  IF l \in DOMAIN seen THEN Stored(txn[l], seen[l], run) ELSE txn[l]]
    /\ UNCHANGED errors

Ingest(seen) ==
    /\ txn' = [l \in Listings |->
                  IF l \in DOMAIN seen THEN Stored(txn[l], seen[l], run) ELSE txn[l]]
    /\ errors' = (errors \/ \E l \in DOMAIN seen : Rejects(txn[l], seen[l], run))

ReadOne == reads < MaxReads /\ reads' = reads + 1

-----------------------------------------------------------------------------
(* The steps of a run.                                                     *)

\* Repository.listings_for_refresh on table t: on Reddit every listing that is
\* not removed; in the feed those with an open status, and sold ones that lack
\* a sale price, if the sale was observed recently.
Refreshable(t) ==
    {l \in Listings :
        IF Source = "reddit" THEN t[l].status \notin {"none", "Removed"}
        ELSE t[l].status \in {"Active", "Pending", "Reserved", "Unknown", "Unavailable"}}

Recheckable(t) ==
    {l \in Listings : /\ Source = "chrono24" /\ t[l].status = "Sold"
                      /\ t[l].sold = None /\ t[l].soldSeen}

BeginRefresh(t) ==
    /\ step' = "refresh"
    /\ \E recent \in SUBSET Recheckable(t) :
          asked' = {AdOf[l] : l \in Refreshable(t) \cup recent}

\* `run` and `discover` begin with discovery, `refresh-status` does not.
StartRun ==
    /\ step = "idle" /\ run < MaxRuns
    /\ run' = run + 1
    /\ \/ step' = "discover" /\ asked' = {}
       \/ BeginRefresh(db)
    /\ reads' = 0
    /\ deleted' = {} /\ returned' = {} /\ last' = Nothing /\ errors' = FALSE
    /\ UNCHANGED tables

\* A post on a page of the new listing, or a record of the feed.  Pages shift
\* while they are read, so that a post may appear twice.
DiscoverPost(a) ==
    /\ step = "discover" /\ ReadOne
    /\ \E seen \in PostContents(a) : Ingest(seen)
    /\ UNCHANGED <<db, run, step, asked, outcome>>

\* A record that cannot be parsed is counted, in discovery and in a refresh.
Unparsable ==
    /\ step \in {"discover", "refresh"} /\ ~errors
    /\ errors' = TRUE
    /\ UNCHANGED <<tables, run, step, reads, asked, outcome>>

CommitDiscovery ==
    /\ step = "discover"
    /\ db' = txn
    /\ reads' = 0
    /\ \/ step' = "finished" /\ asked' = {}
       \/ BeginRefresh(txn)
    /\ UNCHANGED <<txn, run, outcome, errors>>

\* Reddit answers with each post at most once; the feed is read again and may
\* hold several records of one listing.
RefreshPost(a) ==
    /\ step = "refresh" /\ ReadOne
    /\ a \in asked
    /\ \E seen \in PostContents(a) :
          /\ Ingest(seen)
          /\ last' = [l \in Listings |-> IF l \in DOMAIN seen THEN seen[l] ELSE last[l]]
    /\ IF Source = "reddit" THEN asked' = asked \ {a} /\ returned' = returned \cup {a}
       ELSE UNCHANGED <<asked, returned>>
    /\ UNCHANGED <<db, run, step, deleted>>

RefreshDeleted(a) ==
    /\ Source = "reddit" /\ step = "refresh" /\ a \in asked
    /\ asked' = asked \ {a}
    /\ deleted' = deleted \cup {a}
    /\ UNCHANGED <<tables, run, step, reads, returned, last, errors>>

CommitRefresh ==
    /\ step = "refresh"
    /\ db' = txn
    /\ step' = "deletions"
    /\ asked' = {} /\ reads' = 0
    /\ UNCHANGED <<txn, run, outcome, errors>>

\* purge_deleted_reddit_ad on one row: a tombstone is left.
Purged(r) ==
    IF r.status = "none" THEN r
    ELSE [NoRow EXCEPT !.status = "Removed", !.purged = TRUE,
                       !.history = <<[run |-> run, old |-> r.status, new |-> "Removed"]>>]

\* Each post has its savepoint; those outside `done` failed.
ApplyDeletions ==
    /\ step = "deletions"
    /\ step' = "reconcile"
    /\ \E done \in SUBSET deleted :
          /\ db' = [l \in Listings |-> IF AdOf[l] \in done THEN Purged(db[l]) ELSE db[l]]
          /\ errors' = (errors \/ done # deleted)
    /\ txn' = db'
    /\ UNCHANGED <<run, reads, asked, outcome>>

\* Seeded fault: pending offers are not reconciled.
BugMissing ==
    {l \in Listings : /\ AdOf[l] \in returned /\ last[l] = None
                      /\ db[l].status \in {"Active", "Reserved", "Unknown"}}

\* Offers of a returned post that its text no longer shows.
Missing ==
    {l \in Listings : /\ AdOf[l] \in returned /\ last[l] = None
                      /\ db[l].status \in {"Active", "Pending", "Reserved", "Unknown"}}

\* Seeded fault: reconciliation does not write history.
BugMarkedUnavailable(r) == [r EXCEPT !.status = "Unavailable", !.isSold = FALSE]

MarkedUnavailable(r) ==
    [r EXCEPT !.status = "Unavailable", !.isSold = FALSE,
              !.history = Append(r.history,
                                 [run |-> run, old |-> r.status, new |-> "Unavailable"])]

Reconcile ==
    /\ step = "reconcile"
    /\ step' = "finished"
    /\ db' = [l \in Listings |-> IF l \in Missing THEN MarkedUnavailable(db[l]) ELSE db[l]]
    /\ txn' = db'
    /\ UNCHANGED <<run, reads, asked, outcome, errors>>

Finish ==
    /\ step = "finished"
    /\ step' = "idle"
    /\ UNCHANGED <<tables, run, reads, asked, outcome, errors>>

\* An access error, any other exception or a crash: the open transaction is
\* rolled back and the committed ones stay.
Stop ==
    /\ step \notin {"idle", "finished"}
    /\ step' = "idle"
    /\ txn' = db
    /\ asked' = {} /\ reads' = 0
    /\ UNCHANGED <<db, run, outcome, errors>>

Next ==
    \/ StartRun \/ CommitDiscovery \/ CommitRefresh \/ ApplyDeletions \/ Reconcile
    \/ Unparsable \/ Finish \/ Stop
    \/ \E a \in Ads : DiscoverPost(a) \/ RefreshPost(a) \/ RefreshDeleted(a)

Spec == Init /\ [][Next]_vars

-----------------------------------------------------------------------------
(* Properties.                                                             *)

\* The status history of every listing is a chain that ends in its current
\* status, also after rejected records, reconciliation and purges.
Chained(r) ==
    /\ (r.status = "none") = (r.history = <<>>)
    /\ r.history # <<>> => r.history[Len(r.history)].new = r.status
    /\ \A i \in 2..Len(r.history) : r.history[i].old = r.history[i - 1].new

HistoryIsChain == \A l \in Listings : Chained(db[l])

\* is_sold rests on an explicit sale in the history, and a listing whose
\* status is Sold never lacks it (docs/data-dictionary.md, sale fields).
SoldHasEvidence(r) ==
    /\ r.status = "Sold" => r.isSold /\ r.soldSeen
    /\ r.isSold => \E i \in 1..Len(r.history) : r.history[i].new = "Sold"

SoldIsEvidenced == \A l \in Listings : SoldHasEvidence(db[l])

\* Every run that ends without an error has brought the table to what the
\* source said last: status and price of the offers it showed, no open offer
\* left that a returned post does not show, nothing left of deleted posts.
SuccessReflectsSource ==
    step = "finished" /\ ~errors =>
        /\ \A l \in Listings : last[l] # None =>
              /\ db[l].status = IF last[l].status = "Unknown" THEN db[l].status ELSE last[l].status
              /\ db[l].amount = Observed(last[l].amount, db[l].amount)
        /\ \A l \in Listings : AdOf[l] \in returned /\ last[l] = None =>
              db[l].status \notin {"Active", "Pending", "Reserved", "Unknown"}
        /\ \A l \in Listings : AdOf[l] \in deleted => db[l] = NoRow \/ db[l].purged

\* The asking price of a listing always has its row in the price history.
PriceHasRow(r) == r.amount # None => \E x \in r.asks : x.amount = r.amount

PriceIsRecorded == \A l \in Listings : PriceHasRow(db[l])

\* Reading again in the same run what was read before changes nothing and is
\* not rejected, if the price states its currency and the sale price belongs
\* to a sale (test_idempotent_upsert_and_status_history).
Repeatable(r, c) ==
    /\ c.amount # None => c.currency # None
    /\ c.sold # None => Incoming(r, c) = "Sold"

QuietWhenRepeated(r, c) ==
    ~Rejects(r, c, run) =>
        /\ ~Rejects(Upserted(r, c, run), c, run)
        /\ Upserted(Upserted(r, c, run), c, run) = Upserted(r, c, run)

AllReadings == UNION {UNION {Readings(s, x) : x \in SalePrices(s)} : s \in Said}

RepeatIsQuiet ==
    step \in {"discover", "refresh"} =>
        \A l \in Listings, c \in AllReadings :
            Repeatable(txn[l], c) => QuietWhenRepeated(txn[l], c)

\* What the documentation says of latest_asking_price_*: its parts are those
\* of the last advertised amount, in particular its conversion to USD.
ConversionIsOfLatestPrice ==
    \A l \in Listings : db[l].usd # None => db[l].usd = <<db[l].amount, db[l].currency>>

\* A tombstone stays what it is: a post that is approved again or found in a
\* second page of the same run does not refill it.
Bare(r) == /\ r.purged /\ r.status = "Removed" /\ ~r.isSold
           /\ r.amount = None /\ r.usd = None

TombstoneIsFinal == [][\A l \in Listings : db[l].purged => Bare(db'[l])]_vars

-----------------------------------------------------------------------------
(* The inductive invariant: it holds of the rows an open transaction sees   *)
(* as well, and the transaction leaves tombstones as they are.              *)

RowInv(r) == /\ Chained(r) /\ SoldHasEvidence(r) /\ PriceHasRow(r)
             /\ r.purged => Bare(r)

RowsInv == \A l \in Listings : /\ RowInv(db[l]) /\ RowInv(txn[l])
                               /\ db[l].purged => txn[l] = db[l]
IInv == TypeOK /\ RowsInv

-----------------------------------------------------------------------------
(* The inductive invariant behind SuccessReflectsSource.                    *)

Reading == {"discover", "refresh"}
AfterRefresh == {"deletions", "reconcile", "finished"}

\* Between transactions the session sees what is committed.
SessionInv == step \notin Reading => txn = db

\* Reddit answers once for every post it is asked for, and never says both
\* that it is there and that it is deleted; what the feed says has no part in
\* this.  An offer has a last candidate only if its post was returned.
AnswersInv ==
    /\ step = "discover" => last = Nothing /\ deleted = {} /\ returned = {}
    /\ step = "refresh" => asked \cap (deleted \cup returned) = {}
    /\ deleted \cap returned = {}
    /\ Source = "reddit" => \A l \in Listings : last[l] # None => AdOf[l] \in returned
    /\ Source = "chrono24" => deleted = {} /\ returned = {}

\* Row r agrees with the candidate c.
Reflects(r, c) ==
    /\ r.status = IF c.status = "Unknown" THEN r.status ELSE c.status
    /\ r.amount = Observed(c.amount, r.amount)

\* While nothing has gone wrong, the session reflects the last candidates, and
\* once deletions are applied nothing is left of deleted posts.
ReflectInv ==
    /\ \A l \in Listings : /\ db[l].status = "none" => db[l] = NoRow
                           /\ txn[l].status = "none" => txn[l] = NoRow
    /\ ~errors /\ step \in {"refresh"} \cup AfterRefresh =>
          \A l \in Listings : last[l] # None => Reflects(txn[l], last[l])
    /\ ~errors /\ step \in {"reconcile", "finished"} =>
          \A l \in Listings : AdOf[l] \in deleted => txn[l] = NoRow \/ txn[l].purged
    /\ ~errors /\ step = "finished" =>
          \A l \in Listings : AdOf[l] \in returned /\ last[l] = None =>
              txn[l].status \notin {"Active", "Pending", "Reserved", "Unknown"}

SourceInv == SessionInv /\ AnswersInv /\ ReflectInv
=============================================================================
