--------------------------- MODULE ValuationReuse ---------------------------
(* The analysis of a run: which open listings are valued anew, which keep    *)
(* their last valuation (pipeline.py, _valuation_needed), the scores that    *)
(* name the valuation they used, and what a purge of erased content takes    *)
(* away again (repository.py, _invalidate_listing_evidence).                 *)
(*                                                                           *)
(* A run works for the instant as_of.  A listing is reduced to the watch it  *)
(* offers, to its prices and to the three times the analysis compares with   *)
(* that of the last valuation: the asking price in its own currency, which   *)
(* is what is dated, and in USD, which is what valuations use.  Left out:    *)
(* amounts without a currency (ListingHistory has them) and changes of that  *)
(* currency (dated like those of the amount), sale prices without explicit   *)
(* evidence (never used), duplicate groups, the age and number of matches,   *)
(* and what the analysis computes from its evidence.                         *)
EXTENDS Naturals, FiniteSets

CONSTANTS
    Listings,   \* numbers of listings, in the order analysed
    Watches,    \* brands with a reference, or else a model
    Fits,       \* Fits[w]: the watches that are evidence of watch w
    Asks,       \* asking prices a record may state
    Rates,      \* exchange rates to USD
    SalePrices, \* sale prices in USD
    Undisclosed,\* no sale price is stated
    Methods,    \* versions of the valuation method
    Refresh,    \* valuation_refresh_hours
    Records,    \* records the sources may offer, among Candidates
    None,       \* not stated, not known, not yet
    MaxTime,    \* bound: instants
    MaxRuns,    \* bound: runs
    MaxReads,   \* bound: MaxReads[r] records, deletions and erasures in run r
    AsOf        \* AsOf[r]: the instants run r may be given

ASSUME ValuationAssumption ==
    /\ Listings \subseteq Nat
    /\ IsFiniteSet(Listings)
    /\ Refresh \in Nat \ {0}
    /\ MaxTime \in Nat /\ MaxRuns \in Nat
    /\ MaxReads \in [1..MaxRuns -> Nat]
    /\ Fits \in [Watches -> SUBSET Watches]
    /\ Asks \subseteq Nat /\ Rates \subseteq Nat
    /\ AsOf \in [1..MaxRuns -> SUBSET (1..MaxTime)]
    /\ None \notin Nat \cup Watches
    /\ Undisclosed \notin SalePrices \cup {None}

VARIABLES
    rows,        \* the listings
    valuations,  \* the table of valuations
    comparables, \* which listing was evidence for which, in which run
    scores,      \* the table of scores
    method,      \* the configured version of the method
    run,         \* number of the last run
    asOf,        \* its instant
    step,        \* what it does
    reads,       \* how much it has read
    backdated,   \* some run worked for an earlier instant than one before it
    drifted,     \* when a price of a listing in USD last changed undated, or 0
    renamed      \* when the watch of a listing was last replaced, or 0

tables == <<rows, valuations, comparables, scores>>
news == <<drifted, renamed>>
vars == <<tables, method, run, asOf, step, reads, backdated, news>>

Times == 1..MaxTime
Runs == 1..MaxRuns
Statuses == {"none", "open", "closed", "sold", "removed"}

\* ask, usd and sold are estimated_all_in_original, estimated_all_in_usd and
\* sold_price_usd; seen, priced and soldAt are first_seen_at_utc,
\* price_last_changed_at_utc and first_observed_sold_at_utc.
Usd == {a * r : a \in Asks, r \in Rates}
Rows == [status : Statuses, watch : Watches \cup {None},
         ask : Asks \cup {None}, usd : Usd \cup {None}, sold : SalePrices \cup {None},
         seen : Times \cup {None}, priced : Times \cup {None},
         soldAt : Times \cup {None}]
NoRow == [status |-> "none", watch |-> None, ask |-> None, usd |-> None, sold |-> None,
          seen |-> None, priced |-> None, soldAt |-> None]

Init ==
    /\ rows = [l \in Listings |-> NoRow]
    /\ valuations = {} /\ comparables = {} /\ scores = {}
    /\ method \in Methods
    /\ run = 0 /\ asOf = 0 /\ step = "idle" /\ reads = 0
    /\ backdated = FALSE
    /\ drifted = [l \in Listings |-> 0] /\ renamed = [l \in Listings |-> 0]

(* ------------------------------ Collection ------------------------------- *)

\* A record with the exchange rate of its day, where there is one; a sale price
\* that is stated but not converted is None.
Candidates ==
    {c \in [status : {"open", "closed", "sold"}, watch : Watches \cup {None},
            ask : Asks \cup {None}, rate : Rates \cup {None},
            sold : SalePrices \cup {None, Undisclosed}] :
        /\ c.ask = None => c.rate = None
        /\ c.sold # Undisclosed => c.status = "sold"}

ASSUME RecordsAssumption == Records \subseteq Candidates

\* _prepare_candidate
InUsd(c) == IF c.ask = None \/ c.rate = None THEN None ELSE c.ask * c.rate

Observed(new, old) == IF new # None THEN new ELSE old
PriceChanged(r, c) == c.ask # None /\ c.ask # r.ask

\* upsert_candidate: a change of the asking price is dated if it changes in its
\* own currency, a sale when it is first seen; a price that changes in USD only,
\* a sale price, disclosed at any time, and another watch are not.
Upserted(r, c) ==
    [status |-> c.status,
     watch |-> Observed(c.watch, r.watch),
     ask |-> Observed(c.ask, r.ask),
     usd |-> Observed(InUsd(c), r.usd),
     sold |-> IF c.sold # Undisclosed THEN c.sold ELSE r.sold,
     seen |-> IF r.status = "none" THEN asOf ELSE r.seen,
     priced |-> IF PriceChanged(r, c) THEN asOf ELSE r.priced,
     soldAt |-> IF c.status = "sold" THEN Observed(r.soldAt, asOf) ELSE r.soldAt]

\* What row q of a listing shows, after row r, that no time of q tells.
Drifts(r, q) ==
    \/ q.usd # r.usd /\ q.priced # asOf
    \/ q.sold # r.sold /\ (q.soldAt # asOf \/ q.sold = None)
Renames(r, q) == q.watch # r.watch /\ r.status # "none"

\* A command begins a run, for the present or, with --as-of, for any instant.
Begin(t) ==
    /\ step = "idle"
    /\ run < MaxRuns
    /\ t \in AsOf[run + 1]
    /\ run' = run + 1
    /\ asOf' = t
    /\ step' = "collect"
    /\ reads' = 0
    /\ backdated' = (backdated \/ t <= asOf)
    /\ UNCHANGED <<tables, method, news>>

ReadOne ==
    /\ step = "collect"
    /\ reads < MaxReads[run]
    /\ reads' = reads + 1

Read(l, c) ==
    /\ ReadOne
    /\ rows[l].status # "removed"
    /\ rows' = [rows EXCEPT ![l] = Upserted(rows[l], c)]
    /\ drifted' = IF Drifts(rows[l], rows'[l])
                  THEN [drifted EXCEPT ![l] = asOf] ELSE drifted
    /\ renamed' = IF Renames(rows[l], rows'[l])
                  THEN [renamed EXCEPT ![l] = asOf] ELSE renamed
    /\ UNCHANGED <<valuations, comparables, scores, method, run, asOf, step, backdated>>

\* The analyses, each a listing and a run, that a listing is evidence in.
Affected(l) ==
    {<<c.of, c.run>> : c \in {c \in comparables : l \in {c.of, c.from}}}
    \cup {<<v.of, v.run>> : v \in {v \in valuations : v.of = l}}

BugSpared(l) ==
    {s \in scores : s.of # l /\ <<s.of, s.run>> \notin Affected(l)}
BugKept(l) == {v \in valuations : v.of # l}

\* Scores of those analyses go, and scores of other runs that used one of
\* their valuations.
Spared(l) ==
    {s \in scores :
        /\ s.of # l
        /\ <<s.of, s.run>> \notin Affected(l)
        /\ ~\E v \in valuations : <<v.of, v.run>> \in Affected(l) /\ v.id = s.valuation}
Kept(l) == {v \in valuations : v.of # l /\ <<v.of, v.run>> \notin Affected(l)}

Emptied(r) ==
    [status |-> "removed", watch |-> None, ask |-> None, usd |-> None, sold |-> None,
     seen |-> r.seen, priced |-> None, soldAt |-> None]

\* A deleted post: its listing is emptied and what rests on it removed.
Purge(l) ==
    /\ ReadOne
    /\ rows[l].status # "none"
    /\ rows' = [rows EXCEPT ![l] = Emptied(rows[l])]
    /\ scores' = Spared(l)
    /\ valuations' = Kept(l)
    /\ comparables' = {c \in comparables : /\ l \notin {c.of, c.from}
                                           /\ <<c.of, c.run>> \notin Affected(l)}
    /\ UNCHANGED <<method, run, asOf, step, backdated, news>>

\* A deleted author of a post whose text is kept.
EraseAuthor(l) ==
    /\ ReadOne
    /\ rows[l].status \notin {"none", "removed"}
    /\ scores' = {s \in scores : s.of # l}
    /\ UNCHANGED <<rows, valuations, comparables, method, run, asOf, step, backdated, news>>

(* ------------------------------- Analysis -------------------------------- *)

\* Watch w is evidence of watch v: nothing is, where the watch is not known.
FitFor(w, v) == v # None /\ w \in Fits[v]
Matches(l) ==
    {m \in Listings \ {l} : /\ FitFor(rows[m].watch, rows[l].watch)
                            /\ rows[m].status \notin {"none", "removed"}
                            /\ rows[m].sold # None \/ rows[m].usd # None}

\* A disclosed sale is evidence, or else the asking price.
IsSale(m) == rows[m].sold # None
Evidence(l) ==
    {[from |-> m, kind |-> "sale", price |-> rows[m].sold] :
        m \in {m \in Matches(l) : IsSale(m)}}
    \cup {[from |-> m, kind |-> "asking", price |-> rows[m].usd] :
        m \in {m \in Matches(l) : ~IsSale(m)}}

Valuations(l) == {v \in valuations : v.of = l}
IsLatest(v) == \A w \in Valuations(v.of) : w.at < v.at \/ (w.at = v.at /\ w.id <= v.id)
Latest(l) == CHOOSE v \in Valuations(l) : IsLatest(v)

After(stamp, t) == stamp # None /\ stamp > t
NewEvidence(l, t) ==
    \E m \in Matches(l) : \E stamp \in {rows[m].seen, rows[m].priced, rows[m].soldAt} :
        After(stamp, t)

BugNeeded(l) ==
    \/ Valuations(l) = {}
    \/ LET v == Latest(l) IN
        \/ v.method # method
        \/ asOf >= v.at + Refresh
        \/ After(rows[l].priced, v.at)
        \/ NewEvidence(l, v.at)
\* _valuation_needed
Needed(l) ==
    \/ Valuations(l) = {}
    \/ LET v == Latest(l) IN
        \/ v.method # method
        \/ v.at > asOf
        \/ asOf >= v.at + Refresh
        \/ After(rows[l].priced, v.at)
        \/ NewEvidence(l, v.at)

\* Rows are numbered on from the largest number in the table.
Numbers == UNION {1..v.id : v \in valuations}
NextId == 1 + Cardinality(Numbers)

Open == {l \in Listings : rows[l].status = "open"}

BugCited(l) == {e.from : e \in {e \in Evidence(l) : e.kind = "sale"}}
\* The listings recorded as comparables of a valuation.
Cited(l) == {e.from : e \in Evidence(l)}

\* What listing l is valued at, and what it is scored with, if those of new are
\* valued anew.
Number(new, l) == NextId + Cardinality({k \in new : k < l})
Valued(new, l) ==
    [id |-> Number(new, l), of |-> l, run |-> run, at |-> asOf, method |-> method,
     usd |-> rows[l].usd, evidence |-> Evidence(l)]
Used(new, l) == IF l \in new THEN Valued(new, l) ELSE Latest(l)
Scored(new, l) ==
    [of |-> l, run |-> run, at |-> asOf, valuation |-> Used(new, l).id,
     basis |-> Used(new, l)]

\* _analyze: listings that fail keep what they had, the others are committed.
Analyze(failing) ==
    LET done == Open \ failing
        new == {l \in done : Needed(l)}
    IN  /\ step = "collect"
        /\ failing \subseteq Open
        /\ step' = "analyzed"
        /\ reads' = 0
        /\ valuations' = valuations \cup {Valued(new, l) : l \in new}
        /\ comparables' = comparables \cup
              UNION {{[of |-> l, run |-> run, from |-> m] : m \in Cited(l)} : l \in new}
        /\ scores' = scores \cup {Scored(new, l) : l \in done}
        /\ UNCHANGED <<rows, method, run, asOf, backdated, news>>

\* The run ends, with or without an analysis.
End ==
    /\ step # "idle"
    /\ step' = "idle"
    /\ reads' = 0
    /\ UNCHANGED <<tables, method, run, asOf, backdated, news>>

Reconfigure(m) ==
    /\ step = "idle"
    /\ method # m
    /\ method' = m
    /\ UNCHANGED <<tables, run, asOf, step, reads, backdated, news>>

Next ==
    \/ \E t \in Times : Begin(t)
    \/ \E l \in Listings : (\E c \in Records : Read(l, c)) \/ Purge(l) \/ EraseAuthor(l)
    \/ \E failing \in SUBSET Listings : Analyze(failing)
    \/ End
    \/ \E m \in Methods : Reconfigure(m)

Spec == Init /\ [][Next]_vars

(* ------------------------------ Properties ------------------------------- *)

Valuation == [id : Nat \ {0}, of : Listings, run : Runs, at : Times, method : Methods,
              usd : Usd \cup {None},
              evidence : SUBSET [from : Listings, kind : {"sale", "asking"},
                                 price : Usd \cup SalePrices]]
Score == [of : Listings, run : Runs, at : Times, valuation : Nat, basis : Valuation]

TypeOK ==
    /\ rows \in [Listings -> Rows]
    /\ \A v \in valuations : v \in Valuation
    /\ comparables \subseteq [of : Listings, run : Runs, from : Listings]
    /\ \A s \in scores : s \in Score
    /\ method \in Methods
    /\ run \in 0..MaxRuns /\ asOf \in 0..MaxTime
    /\ step \in {"idle", "collect", "analyzed"}
    /\ step # "idle" => run \in Runs /\ asOf \in Times
    /\ reads \in Nat
    /\ backdated \in BOOLEAN
    /\ drifted \in [Listings -> 0..MaxTime] /\ renamed \in [Listings -> 0..MaxTime]

\* The inductive invariant: numbers are unique, a listing is valued and scored
\* at most once in a run, and comparables record what each valuation used.
Keyed ==
    /\ IsFiniteSet(Numbers)
    /\ \A v, w \in valuations : v.id = w.id => v = w
    /\ \A v \in valuations : v.run <= run /\ (step = "collect" => v.run < run)
    /\ \A v \in valuations : \A e \in v.evidence :
            [of |-> v.of, run |-> v.run, from |-> e.from] \in comparables
    /\ \A s \in scores : s.of = s.basis.of

\* Every score on record names the valuation it was computed from: after any
\* purge the number it stores still finds that very row, although numbers of
\* deleted rows are used again (docs/scoring-methodology.md, scores).
ScoreHasItsValuation ==
    \A s \in scores :
        \E v \in valuations : v.id = s.valuation /\ v = s.basis

\* Nothing computed from erased content is left: no valuation, score or
\* comparable rests on a listing whose post was deleted, however often a
\* valuation was used again since (docs/data-dictionary.md, data handling).
ErasedEvidenceIsGone ==
    \A l \in Listings :
        rows[l].status = "removed" =>
            /\ \A v \in valuations : v.of # l /\ \A e \in v.evidence : e.from # l
            /\ \A s \in scores : s.of # l /\ \A e \in s.basis.evidence : e.from # l
            /\ \A c \in comparables : l \notin {c.of, c.from}

IInv == TypeOK /\ Keyed /\ ScoreHasItsValuation /\ ErasedEvidenceIsGone

\* What a run scores with is of the configured method, not from the future and
\* younger than the refresh interval; and unless runs went back in time, it
\* knows the present price of the listing in USD and the present evidence of
\* every match.  Excepted is what no time on record tells since the valuation:
\* a price that drifted, and a watch, of a match or of the listing, replaced.
Without(evidence, ms) == {e \in evidence : e.from \notin ms}
Unnoticed(t) == {m \in Listings : drifted[m] > t \/ renamed[m] > t}
ScoresAreCurrent ==
    step = "analyzed" => \A s \in scores : s.run = run =>
        /\ s.basis.method = method
        /\ s.basis.at <= s.at /\ s.at < s.basis.at + Refresh
        /\ ~backdated =>
            /\ s.basis.usd = rows[s.of].usd \/ drifted[s.of] > s.basis.at
            /\ \/ Without(s.basis.evidence, Unnoticed(s.basis.at)) =
                     Without(Evidence(s.of), Unnoticed(s.basis.at))
               \/ renamed[s.of] > s.basis.at

\* The same without exceptions, as docs/scoring-methodology.md has it: valuations
\* are recalculated when new matching evidence arrives.  It does not hold.
NewEvidenceIsUsed ==
    step = "analyzed" /\ ~backdated =>
        \A s \in scores : s.run = run => Evidence(s.of) \subseteq s.basis.evidence

\* The inductive invariant behind it: as long as runs go forward, whatever a
\* valuation does not know any more, of the price of its listing or of a match,
\* bears a stamp after the valuation, or changed undated after it.
From(evidence, m) == {e \in evidence : e.from = m}
Stamps(m) == {rows[m].seen, rows[m].priced, rows[m].soldAt}
PriceKnown(v) ==
    \/ After(rows[v.of].priced, v.at) \/ drifted[v.of] > v.at
    \/ v.usd = rows[v.of].usd
MatchKnown(v, m) ==
    \/ m \in Unnoticed(v.at) \/ renamed[v.of] > v.at
    \/ m \in Matches(v.of) /\ \E stamp \in Stamps(m) : After(stamp, v.at)
    \/ From(v.evidence, m) = From(Evidence(v.of), m)

ScoredOnce == \A s \in scores : s.run <= run /\ (step = "collect" => s.run < run)
FreshInv ==
    ~backdated => \A v \in valuations :
        /\ v.at <= asOf /\ (step = "collect" => v.at < asOf)
        /\ rows[v.of].status # "none" /\ PriceKnown(v)
        /\ \A m \in Listings : MatchKnown(v, m)
=============================================================================
