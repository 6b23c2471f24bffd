--------------------------- MODULE ValuationProofs ---------------------------
(* What ValuationReuse promises of scores, of erased evidence and of reused   *)
(* valuations, for any number of listings, prices, methods, runs and instants. *)
EXTENDS ValuationReuse, Extremes, FiniteSetTheorems, TLAPS

USE ValuationAssumption, RecordsAssumption DEF ValuationAssumption, RecordsAssumption

(* ------------------------------- Numbering ------------------------------- *)

\* The number of a new row is larger than those in the table.
LEMMA NextIdIsNew ==
    ASSUME IsFiniteSet(Numbers), \A v \in valuations : v.id \in Nat \ {0}
    PROVE  /\ NextId \in Nat \ {0}
           /\ \A v \in valuations : v.id < NextId
<1>1. Cardinality(Numbers) \in Nat
  BY FS_CardinalityType
<1>2. ASSUME NEW v \in valuations PROVE v.id < NextId
  <2>1. 1..v.id \in SUBSET Numbers
    BY <1>2 DEF Numbers
  <2>2. Cardinality(1..v.id) <= Cardinality(Numbers)
    BY <2>1, FS_Subset
  <2>3. v.id \in Int /\ ~(1 > v.id)
    BY <1>2
  <2>4. Cardinality(1..v.id) = v.id - 1 + 1
    BY <2>3, FS_Interval
  <2> QED BY <1>1, <2>2, <2>3, <2>4 DEF NextId
<1> QED BY <1>1, <1>2 DEF NextId

\* Listings valued in one run get different numbers.
LEMMA NumbersDiffer ==
    ASSUME NextId \in Nat \ {0}, NEW new \in SUBSET Listings
    PROVE  /\ \A l \in new : Number(new, l) \in Nat /\ Number(new, l) >= NextId
           /\ \A l \in new : Number(new, l) <= NextId + Cardinality(new)
           /\ Cardinality(new) \in Nat
           /\ \A l, k \in new : Number(new, l) = Number(new, k) => l = k
<1> DEFINE Before(l) == {k \in new : k < l}
<1>1. IsFiniteSet(new)
  BY FS_Subset
<1>2. ASSUME NEW l \in new
      PROVE  /\ IsFiniteSet(Before(l))
             /\ Cardinality(Before(l)) \in Nat
             /\ Cardinality(Before(l)) <= Cardinality(new)
  <2>1. Before(l) \in SUBSET new
    OBVIOUS
  <2>2. IsFiniteSet(Before(l)) /\ Cardinality(Before(l)) <= Cardinality(new)
    BY <1>1, <2>1, FS_Subset
  <2> QED BY <2>2, FS_CardinalityType
<1>3. ASSUME NEW l \in new, NEW k \in new, k < l
      PROVE  Cardinality(Before(k)) < Cardinality(Before(l))
  <2>1. k \in Nat /\ l \in Nat
    OBVIOUS
  <2>2. Before(k) \cup {k} \in SUBSET Before(l)
    <3>1. \A j \in new : j < k => j < l
      BY <1>3, <2>1
    <3> QED BY <1>3, <3>1
  <2>3. Cardinality(Before(k) \cup {k}) <= Cardinality(Before(l))
    BY <1>2, <2>2, FS_Subset
  <2>4. k \notin Before(k)
    BY <2>1
  <2>5. Cardinality(Before(k) \cup {k}) = Cardinality(Before(k)) + 1
    BY <1>2, <2>4, FS_AddElement
  <2>6. Cardinality(Before(k)) \in Nat /\ Cardinality(Before(l)) \in Nat
    BY <1>2
  <2> QED BY <2>3, <2>5, <2>6
<1>4. Cardinality(new) \in Nat
  BY <1>1, FS_CardinalityType
<1>5. \A l \in new : Number(new, l) = NextId + Cardinality(Before(l))
  BY DEF Number
<1>6. ASSUME NEW l \in new, NEW k \in new, Number(new, l) = Number(new, k)
      PROVE  l = k
  <2>1. l \in Nat /\ k \in Nat
    OBVIOUS
  <2>2. Cardinality(Before(k)) = Cardinality(Before(l))
    <3>1. Cardinality(Before(k)) \in Nat /\ Cardinality(Before(l)) \in Nat
      BY <1>2
    <3>2. NextId + Cardinality(Before(l)) = NextId + Cardinality(Before(k))
      BY <1>5, <1>6
    <3> HIDE DEF Before
    <3> QED BY <3>1, <3>2
  <2>3. ~(k < l) /\ ~(l < k)
    <3>1. Cardinality(Before(k)) \in Nat /\ Cardinality(Before(l)) \in Nat
      BY <1>2
    <3>2. k < l => Cardinality(Before(k)) < Cardinality(Before(l))
      BY <1>3
    <3>3. l < k => Cardinality(Before(l)) < Cardinality(Before(k))
      BY <1>3
    <3> HIDE DEF Before
    <3> QED BY <2>2, <3>1, <3>2, <3>3
  <2> QED BY <2>1, <2>3
<1>7. \A l \in new : Number(new, l) \in Nat /\ Number(new, l) >= NextId
                     /\ Number(new, l) <= NextId + Cardinality(new)
  <2> HIDE DEF Before
  <2> QED BY <1>2, <1>4, <1>5
<1> QED BY <1>4, <1>6, <1>7

(* ------------------------------ Valuations ------------------------------- *)

\* The last valuation of a listing is one of its valuations.
LEMMA LatestExists ==
    ASSUME TypeOK, Keyed, NEW l \in Listings, Valuations(l) # {}
    PROVE  Latest(l) \in Valuations(l)
<1> DEFINE At == {v.at : v \in Valuations(l)}
<1>1. \A v \in Valuations(l) : v \in valuations /\ v.of = l /\ v.at \in 1..MaxTime
                               /\ v.id \in Nat \ {0}
  BY DEF Valuations, TypeOK, Valuation, Times
<1>2. PICK t \in At : \A u \in At : u <= t
  <2>1. At \in SUBSET (1..MaxTime) /\ At # {}
    BY <1>1
  <2> HIDE DEF At
  <2> QED BY <2>1, LargestExists
<1> DEFINE Ids == {v.id : v \in {v \in Valuations(l) : v.at = t}}
<1>3. PICK i \in Ids : \A j \in Ids : j <= i
  <2>1. NextId \in Nat \ {0} /\ \A v \in valuations : v.id < NextId
    BY NextIdIsNew DEF Keyed, TypeOK, Valuation
  <2>2. Ids \in SUBSET (1..NextId)
    BY <1>1, <2>1
  <2>3. Ids # {}
    OBVIOUS
  <2>4. NextId \in Nat
    BY <2>1
  <2> HIDE DEF Ids
  <2> QED BY <2>2, <2>3, <2>4, LargestExists
<1>4. PICK v \in Valuations(l) : v.at = t /\ v.id = i
  OBVIOUS
<1>5. IsLatest(v)
  <2> SUFFICES ASSUME NEW w \in Valuations(l)
               PROVE  w.at < v.at \/ (w.at = v.at /\ w.id <= v.id)
    BY <1>1 DEF IsLatest
  <2>1. w.at <= v.at /\ w.at \in Nat /\ v.at \in Nat
    BY <1>1, <1>2, <1>4
  <2>2. w.at = v.at => w.id <= v.id
    BY <1>3, <1>4
  <2> QED BY <2>1, <2>2
<1> QED BY <1>5 DEF Latest

\* Evidence is typed, and none of it comes from a removed listing.
LEMMA EvidenceTyped ==
    ASSUME TypeOK, NEW l \in Listings
    PROVE  /\ Evidence(l) \in SUBSET [from : Listings, kind : {"sale", "asking"},
                                      price : Usd \cup SalePrices]
           /\ \A e \in Evidence(l) : rows[e.from].status # "removed"
<1>1. \A m \in Matches(l) : m \in Listings /\ rows[m].status # "removed"
  BY DEF Matches
<1>2. \A m \in Listings : rows[m].usd \in Usd \cup {None}
                        /\ rows[m].sold \in SalePrices \cup {None}
  BY DEF TypeOK, Rows
<1>3. ASSUME NEW e \in Evidence(l)
      PROVE  /\ e \in [from : Listings, kind : {"sale", "asking"}, price : Usd \cup SalePrices]
             /\ rows[e.from].status # "removed"
  <2>1. PICK m \in Matches(l) :
           \/ IsSale(m) /\ e = [from |-> m, kind |-> "sale", price |-> rows[m].sold]
           \/ rows[m].usd # None /\ e = [from |-> m, kind |-> "asking", price |-> rows[m].usd]
    BY <1>3 DEF Evidence, Matches, IsSale
  <2>2. m \in Listings /\ rows[m].status # "removed"
    BY <1>1
  <2>3. CASE IsSale(m) /\ e = [from |-> m, kind |-> "sale", price |-> rows[m].sold]
    <3>1. rows[m].sold \in SalePrices
      BY <1>2, <2>2, <2>3 DEF IsSale
    <3> QED BY <2>2, <2>3, <3>1
  <2>4. CASE rows[m].usd # None /\ e = [from |-> m, kind |-> "asking", price |-> rows[m].usd]
    <3>1. rows[m].usd \in Usd
      BY <1>2, <2>2, <2>4
    <3> QED BY <2>2, <2>4, <3>1
  <2> QED BY <2>1, <2>3, <2>4
<1>4. Evidence(l) \subseteq [from : Listings, kind : {"sale", "asking"},
                           price : Usd \cup SalePrices]
  BY <1>3, Zenon
<1> QED BY <1>3, <1>4, Zenon

\* What the analysis of one run does, without its abbreviations.
LEMMA AnalyzeParts ==
    ASSUME NEW failing \in SUBSET Listings, Analyze(failing)
    PROVE  \E done, new \in SUBSET Open :
             /\ new \subseteq done
             /\ \A l \in done : l \in new \/ Valuations(l) # {}
             /\ valuations' = valuations \cup {Valued(new, l) : l \in new}
             /\ comparables' = comparables \cup
                  UNION {{[of |-> l, run |-> run, from |-> m] : m \in Cited(l)} : l \in new}
             /\ scores' = scores \cup
                  {[of |-> l, run |-> run, at |-> asOf, valuation |-> Used(new, l).id,
                    basis |-> Used(new, l)] : l \in done}
<1> DEFINE done == Open \ failing
           new == {l \in done : Needed(l)}
<1>1. new \in SUBSET Open /\ done \in SUBSET Open /\ new \subseteq done
  OBVIOUS
<1>2. \A l \in done : l \in new \/ Valuations(l) # {}
  BY DEF Needed
<1>3. /\ valuations' = valuations \cup {Valued(new, l) : l \in new}
      /\ comparables' = comparables \cup
           UNION {{[of |-> l, run |-> run, from |-> m] : m \in Cited(l)} : l \in new}
      /\ scores' = scores \cup
           {[of |-> l, run |-> run, at |-> asOf, valuation |-> Used(new, l).id,
             basis |-> Used(new, l)] : l \in done}
  BY Zenon DEF Analyze, Scored
<1> HIDE DEF done, new
<1> QED BY <1>1, <1>2, <1>3

\* What a listing is scored with: one of its valuations, new or old.
LEMMA UsedIsOnRecord ==
    ASSUME TypeOK, Keyed, step = "collect",
           NEW done \in SUBSET Open, NEW new \in SUBSET done,
           \A l \in done : l \in new \/ Valuations(l) # {}, NEW l \in done
    PROVE  /\ Used(new, l) \in valuations \cup {Valued(new, k) : k \in new}
           /\ Used(new, l) \in Valuation
           /\ Used(new, l).of = l
<1>1. l \in Listings
  BY DEF Open
<1>2. CASE l \in new
  <2>1. Used(new, l) = Valued(new, l)
    BY <1>2 DEF Used
  <2>2. Valued(new, l).of = l
    BY DEF Valued
  <2>3. Number(new, l) \in Nat \ {0}
    <3>1. NextId \in Nat \ {0}
      BY NextIdIsNew DEF Keyed, TypeOK, Valuation
    <3>2. new \in SUBSET Listings
      BY DEF Open
    <3>3. Number(new, l) \in Nat /\ Number(new, l) >= NextId
      BY <1>2, <3>1, <3>2, NumbersDiffer
    <3> QED BY <3>1, <3>3
  <2>4. run \in Runs /\ asOf \in Times /\ method \in Methods
    BY DEF TypeOK
  <2>5. rows[l].usd \in Usd \cup {None}
    BY <1>1 DEF TypeOK, Rows
  <2>6. Valued(new, l) \in Valuation
    BY <1>1, <2>3, <2>4, <2>5, EvidenceTyped DEF Valued, Valuation
  <2> QED BY <1>2, <2>1, <2>2, <2>6
<1>3. CASE l \notin new
  <2>1. Valuations(l) # {}
    BY <1>3
  <2>2. Latest(l) \in Valuations(l)
    BY <1>1, <2>1, LatestExists
  <2>3. Used(new, l) = Latest(l)
    BY <1>3 DEF Used
  <2> QED BY <2>2, <2>3 DEF Valuations, TypeOK
<1> QED BY <1>2, <1>3

(* --------------------------------- Steps --------------------------------- *)

LEMMA InitIInv == Init => IInv
<1> SUFFICES ASSUME Init PROVE IInv
  OBVIOUS
<1>1. NoRow \in Rows
  BY DEF NoRow, Rows, Statuses
<1>2. TypeOK
  <2>1. backdated \in BOOLEAN
    BY Zenon DEF Init
  <2>2. /\ rows \in [Listings -> Rows]
        /\ drifted \in [Listings -> 0..MaxTime] /\ renamed \in [Listings -> 0..MaxTime]
    BY <1>1 DEF Init
  <2>3. run \in 0..MaxRuns /\ asOf \in 0..MaxTime /\ reads \in Nat
    BY DEF Init
  <2>4. /\ \A v \in valuations : v \in Valuation
        /\ comparables \subseteq [of : Listings, run : Runs, from : Listings]
        /\ \A s \in scores : s \in Score
        /\ method \in Methods
        /\ step = "idle"
    BY DEF Init
  <2> QED BY <2>1, <2>2, <2>3, <2>4, Zenon DEF TypeOK
<1>3. Numbers = {}
  BY DEF Init, Numbers
<1>4. Keyed
  BY <1>3, FS_EmptySet DEF Init, Keyed
<1>5. ScoreHasItsValuation
  BY DEF Init, ScoreHasItsValuation
<1>6. ErasedEvidenceIsGone
  BY DEF Init, ErasedEvidenceIsGone, NoRow
<1> QED BY <1>2, <1>4, <1>5, <1>6 DEF IInv

\* Reading a listing disturbs no table but its own, and revives no removed one.
LEMMA ReadStep ==
    ASSUME IInv, NEW l \in Listings, NEW c \in Records, Read(l, c)
    PROVE  IInv'
<1> USE DEF IInv
<1>1. /\ c.status \in {"open", "closed", "sold"} /\ c.watch \in Watches \cup {None}
      /\ c.ask \in Asks \cup {None} /\ InUsd(c) \in Usd \cup {None}
      /\ c.sold # Undisclosed => c.sold \in SalePrices \cup {None}
  <2>1. /\ c.status \in {"open", "closed", "sold"} /\ c.watch \in Watches \cup {None}
        /\ c.ask \in Asks \cup {None} /\ c.rate \in Rates \cup {None}
        /\ c.sold \in SalePrices \cup {None, Undisclosed}
    BY DEF Candidates
  <2>2. ASSUME NEW a \in Asks, NEW r \in Rates PROVE a * r \in Usd
    <3> DEFINE p == a * r
    <3>1. \E b \in Asks, q \in Rates : p = b * q
      OBVIOUS
    <3>2. p \in {b * q : b \in Asks, q \in Rates}
      <4> HIDE DEF p
      <4> QED BY <3>1
    <3> QED BY <3>2 DEF Usd
  <2> QED BY <2>1, <2>2 DEF InUsd
<1>2. rows[l] \in Rows /\ asOf \in Times
  BY DEF TypeOK, Read, ReadOne
<1>3. Upserted(rows[l], c) \in Rows
  BY <1>1, <1>2 DEF Upserted, Rows, Statuses, Observed
<1>4. rows' \in [Listings -> Rows] /\ rows'[l] = Upserted(rows[l], c)
      /\ \A k \in Listings \ {l} : rows'[k] = rows[k]
  BY <1>3 DEF Read, TypeOK
<1>5. UNCHANGED <<valuations, comparables, scores, method, run, asOf, step, backdated>>
  BY DEF Read
<1>6. /\ reads' \in Nat
      /\ drifted' \in [Listings -> 0..MaxTime] /\ renamed' \in [Listings -> 0..MaxTime]
  BY DEF Read, ReadOne, TypeOK
<1>7. TypeOK'
  BY <1>4, <1>5, <1>6 DEF TypeOK
<1>8. Keyed'
  BY <1>5 DEF Keyed, Numbers
<1>9. ScoreHasItsValuation'
  BY <1>5 DEF ScoreHasItsValuation
<1>10. \A k \in Listings : rows'[k].status = "removed" => rows[k].status = "removed"
  BY <1>1, <1>4 DEF Upserted
<1>11. ErasedEvidenceIsGone'
  BY <1>5, <1>10 DEF ErasedEvidenceIsGone
<1> QED BY <1>7, <1>8, <1>9, <1>11

\* A purge removes whatever cites the erased listing: comparables lead from it
\* to each valuation, and from the valuations to the scores that used them.
LEMMA PurgeStep ==
    ASSUME IInv, NEW l \in Listings, Purge(l)
    PROVE  IInv'
<1> USE DEF IInv
<1>1. /\ valuations' = Kept(l)
      /\ scores' = Spared(l)
      /\ comparables' = {c \in comparables : /\ l \notin {c.of, c.from}
                                            /\ <<c.of, c.run>> \notin Affected(l)}
      /\ UNCHANGED <<method, run, asOf, step, backdated, drifted, renamed>>
  BY DEF Purge, news
<1>2. valuations' \subseteq valuations /\ scores' \subseteq scores
      /\ comparables' \subseteq comparables
  BY <1>1 DEF Kept, Spared
<1>3. rows' \in [Listings -> Rows] /\ \A k \in Listings \ {l} : rows'[k] = rows[k]
  <2>1. rows[l] \in Rows
    BY DEF TypeOK
  <2>2. Emptied(rows[l]) \in Rows
    BY <2>1 DEF Emptied, Rows, Statuses
  <2> QED BY <2>2 DEF Purge, TypeOK
<1>4. TypeOK'
  <2>1. reads' \in Nat
    BY DEF Purge, ReadOne, TypeOK
  <2> QED BY <1>1, <1>2, <1>3, <2>1 DEF TypeOK
<1>5. ASSUME NEW v \in valuations'
      PROVE  /\ v \in valuations /\ v.of # l /\ <<v.of, v.run>> \notin Affected(l)
             /\ \A e \in v.evidence : /\ e.from # l
                                     /\ [of |-> v.of, run |-> v.run, from |-> e.from] \in comparables'
  <2>1. v \in valuations /\ v.of # l /\ <<v.of, v.run>> \notin Affected(l)
    BY <1>1 DEF Kept
  <2>2. ASSUME NEW e \in v.evidence
        PROVE  e.from # l /\ [of |-> v.of, run |-> v.run, from |-> e.from] \in comparables'
    <3> DEFINE c == [of |-> v.of, run |-> v.run, from |-> e.from]
    <3>1. c \in comparables
      BY <2>1 DEF Keyed
    <3>2. c.of = v.of /\ c.run = v.run /\ c.from = e.from
      OBVIOUS
    <3> HIDE DEF c
    <3>3. e.from # l
      BY <2>1, <3>1, <3>2 DEF Affected
    <3>4. c \in comparables'
      BY <1>1, <2>1, <3>1, <3>2, <3>3
    <3> QED BY <3>3, <3>4 DEF c
  <2> QED BY <2>1, <2>2
<1>6. ASSUME NEW s \in scores'
      PROVE  /\ s \in scores /\ s.of # l
             /\ s.basis \in valuations' /\ s.basis.id = s.valuation
  <2>1. s \in scores /\ s.of # l
    BY <1>1 DEF Spared
  <2>2. s.basis \in valuations /\ s.basis.id = s.valuation /\ s.basis.of = s.of
    BY <2>1 DEF ScoreHasItsValuation, Keyed
  <2>3. <<s.basis.of, s.basis.run>> \notin Affected(l)
    BY <1>1, <2>2 DEF Spared
  <2> QED BY <1>1, <2>1, <2>2, <2>3 DEF Kept
<1>7. Keyed'
  <2>1. IsFiniteSet(Numbers')
    <3>1. Numbers' \in SUBSET Numbers
      BY <1>2 DEF Numbers
    <3> QED BY <3>1, FS_Subset DEF Keyed
  <2> QED BY <1>1, <1>2, <1>5, <2>1 DEF Keyed
<1>8. ScoreHasItsValuation'
  BY <1>6 DEF ScoreHasItsValuation
<1>9. ErasedEvidenceIsGone'
  <2> SUFFICES ASSUME NEW k \in Listings, rows'[k].status = "removed"
               PROVE  /\ \A v \in valuations' : v.of # k /\ \A e \in v.evidence : e.from # k
                      /\ \A s \in scores' : s.of # k /\ \A e \in s.basis.evidence : e.from # k
                      /\ \A c \in comparables' : k \notin {c.of, c.from}
    BY DEF ErasedEvidenceIsGone
  <2>1. CASE k = l
    BY <1>1, <1>5, <1>6, <2>1
  <2>2. CASE k # l
    BY <1>2, <1>3, <2>2 DEF ErasedEvidenceIsGone
  <2> QED BY <2>1, <2>2
<1> QED BY <1>4, <1>7, <1>8, <1>9

\* The analysis numbers its valuations apart from those on record, records a
\* comparable for each piece of evidence, and scores with what is on record.
LEMMA AnalyzeStep ==
    ASSUME IInv, NEW failing \in SUBSET Listings, Analyze(failing)
    PROVE  IInv'
<1> USE DEF IInv
<1>1. step = "collect" /\ step' = "analyzed" /\ reads' = 0
      /\ UNCHANGED <<rows, method, run, asOf, backdated, drifted, renamed>>
  BY Zenon DEF Analyze, Scored, news
<1>2. PICK done, new \in SUBSET Open :
         /\ new \subseteq done
         /\ \A l \in done : l \in new \/ Valuations(l) # {}
         /\ valuations' = valuations \cup {Valued(new, l) : l \in new}
         /\ comparables' = comparables \cup
              UNION {{[of |-> l, run |-> run, from |-> m] : m \in Cited(l)} : l \in new}
         /\ scores' = scores \cup
              {[of |-> l, run |-> run, at |-> asOf, valuation |-> Used(new, l).id,
                basis |-> Used(new, l)] : l \in done}
  BY AnalyzeParts
<1>3. run \in Runs /\ asOf \in Times
  BY <1>1 DEF TypeOK
<1>4. done \subseteq Listings /\ new \subseteq Listings
      /\ \A l \in done : rows[l].status = "open"
  BY <1>2 DEF Open
<1>5. ASSUME NEW l \in done
      PROVE  /\ Used(new, l) \in valuations'
             /\ Used(new, l) \in Valuation
             /\ Used(new, l).of = l
  <2>1. new \in SUBSET done
    BY <1>2
  <2>2. \A k \in done : k \in new \/ Valuations(k) # {}
    BY <1>2
  <2>3. /\ Used(new, l) \in valuations \cup {Valued(new, k) : k \in new}
        /\ Used(new, l) \in Valuation
        /\ Used(new, l).of = l
    BY ONLY <1>1, <1>2, <2>1, <2>2, UsedIsOnRecord, IInv DEF IInv
  <2> QED BY <1>2, <2>3
<1>6. ASSUME NEW l \in new
      PROVE  /\ Valued(new, l) \in Valuation
             /\ Valued(new, l).of = l /\ Valued(new, l).run = run
             /\ Valued(new, l).id = Number(new, l) /\ Valued(new, l).evidence = Evidence(l)
  <2>1. l \in done
    BY <1>2
  <2>2. Used(new, l) = Valued(new, l)
    BY DEF Used
  <2> QED BY <1>5, <2>1, <2>2 DEF Valued
<1>7. ASSUME NEW l \in new, NEW e \in Evidence(l)
      PROVE  /\ e.from \in Listings /\ rows[e.from].status # "removed"
             /\ [of |-> l, run |-> run, from |-> e.from] \in comparables'
  <2>1. e.from \in Listings /\ rows[e.from].status # "removed"
    BY <1>4, EvidenceTyped
  <2>2. e.from \in Cited(l)
    BY DEF Cited
  <2> QED BY <1>2, <2>1, <2>2
<1>8. ASSUME NEW c \in comparables', c \notin comparables
      PROVE  \E l \in new : \E e \in Evidence(l) :
                c = [of |-> l, run |-> run, from |-> e.from]
  BY <1>2, <1>8 DEF Cited
<1>9. \A v \in valuations' : v \in valuations \/ \E l \in new : v = Valued(new, l)
  BY <1>2
<1>10. valuations \subseteq valuations' /\ comparables \subseteq comparables'
  BY <1>2
<1>11. ASSUME NEW s \in scores', s \notin scores
       PROVE  \E l \in done :
                s = [of |-> l, run |-> run, at |-> asOf, valuation |-> Used(new, l).id,
                     basis |-> Used(new, l)]
  BY <1>2, <1>11
<1>12. TypeOK'
  <2>1. \A v \in valuations' : v \in Valuation
    BY <1>6, <1>9 DEF TypeOK
  <2>2. comparables' \subseteq [of : Listings, run : Runs, from : Listings]
    <3> SUFFICES ASSUME NEW c \in comparables'
                 PROVE  c \in [of : Listings, run : Runs, from : Listings]
      OBVIOUS
    <3>1. CASE c \in comparables
      BY <3>1 DEF TypeOK
    <3>2. CASE c \notin comparables
      <4>1. PICK l \in new : \E e \in Evidence(l) :
               c = [of |-> l, run |-> run, from |-> e.from]
        BY <1>8, <3>2
      <4>2. PICK e \in Evidence(l) : c = [of |-> l, run |-> run, from |-> e.from]
        BY <4>1
      <4>3. l \in Listings /\ e.from \in Listings
        BY <1>4, <1>7
      <4> QED BY <1>3, <4>2, <4>3
    <3> QED BY <3>1, <3>2
  <2>3. \A s \in scores' : s \in Score
    <3> SUFFICES ASSUME NEW s \in scores' PROVE s \in Score
      OBVIOUS
    <3>1. CASE s \in scores
      BY <3>1 DEF TypeOK
    <3>2. CASE s \notin scores
      <4>1. PICK l \in done :
               s = [of |-> l, run |-> run, at |-> asOf, valuation |-> Used(new, l).id,
                    basis |-> Used(new, l)]
        BY <1>11, <3>2
      <4>2. l \in Listings /\ Used(new, l) \in Valuation
        BY <1>4, <1>5
      <4>3. Used(new, l).id \in Nat
        BY <4>2 DEF Valuation
      <4> QED BY <1>3, <4>1, <4>2, <4>3 DEF Score
    <3> QED BY <3>1, <3>2
  <2>4. 0 \in Nat /\ rows' \in [Listings -> Rows]
        /\ drifted' \in [Listings -> 0..MaxTime] /\ renamed' \in [Listings -> 0..MaxTime]
        /\ method' \in Methods /\ run' \in 0..MaxRuns /\ asOf' \in 0..MaxTime
        /\ run' \in Runs /\ asOf' \in Times
    BY <1>1, <1>3 DEF TypeOK
  <2>5. backdated' \in BOOLEAN
    BY <1>1, Zenon DEF TypeOK
  <2> QED BY <1>1, <2>1, <2>2, <2>3, <2>4, <2>5, Zenon DEF TypeOK
<1>13. Keyed'
  <2>1. NextId \in Nat \ {0} /\ \A v \in valuations : v.id < NextId /\ v.id \in Nat
    BY NextIdIsNew DEF Keyed, TypeOK, Valuation
  <2>2. /\ \A l \in new : Number(new, l) \in Nat /\ Number(new, l) >= NextId
        /\ \A l \in new : Number(new, l) <= NextId + Cardinality(new)
        /\ Cardinality(new) \in Nat
        /\ \A l, k \in new : Number(new, l) = Number(new, k) => l = k
    <3>1. new \in SUBSET Listings
      BY <1>4
    <3> QED BY <2>1, <3>1, NumbersDiffer
  <2>3. IsFiniteSet(Numbers')
    <3> DEFINE top == NextId + Cardinality(new)
    <3>1. Numbers' \subseteq Numbers \cup (1..top)
      <4> SUFFICES ASSUME NEW v \in valuations', NEW i \in 1..v.id
                   PROVE  i \in Numbers \cup (1..top)
        BY DEF Numbers
      <4>1. CASE v \in valuations
        BY <4>1 DEF Numbers
      <4>2. CASE v \notin valuations
        <5>1. PICK l \in new : v = Valued(new, l)
          BY <1>9, <4>2
        <5>2. v.id = Number(new, l)
          BY <1>6, <5>1
        <5>3. v.id \in Nat /\ v.id <= top
          BY <2>2, <5>2
        <5>4. top \in Nat
          BY <2>1, <2>2
        <5> HIDE DEF top
        <5>5. i \in 1..top
          BY <5>3, <5>4
        <5> QED BY <5>5
      <4> QED BY <4>1, <4>2
    <3>2. IsFiniteSet(1..top)
      BY <2>1, <2>2, FS_Interval
    <3> HIDE DEF top
    <3>3. IsFiniteSet(Numbers)
      BY DEF Keyed
    <3>4. IsFiniteSet(Numbers \cup (1..top))
      BY <3>2, <3>3, FS_Union
    <3>5. Numbers' \in SUBSET (Numbers \cup (1..top))
      BY <3>1
    <3> QED BY <3>4, <3>5, FS_Subset
  <2>4. ASSUME NEW v \in valuations', NEW w \in valuations', v.id = w.id
        PROVE  v = w
    <3>1. CASE v \in valuations /\ w \in valuations
      BY <2>4, <3>1 DEF Keyed
    <3>2. ASSUME NEW x \in valuations, NEW l \in new PROVE x.id # Valued(new, l).id
      <4>1. Valued(new, l).id = Number(new, l)
        BY <1>6
      <4> QED BY <2>1, <2>2, <4>1
    <3>3. CASE v \notin valuations /\ w \notin valuations
      <4>1. PICK l \in new : v = Valued(new, l)
        BY <1>9, <3>3
      <4>2. PICK k \in new : w = Valued(new, k)
        BY <1>9, <3>3
      <4>3. Number(new, l) = Number(new, k)
        BY <1>6, <2>4, <4>1, <4>2
      <4> QED BY <2>2, <4>1, <4>2, <4>3
    <3> QED BY <1>9, <2>4, <3>1, <3>2, <3>3
  <2>5. ASSUME NEW v \in valuations' PROVE v.run <= run
    <3>1. CASE v \in valuations
      BY <3>1 DEF Keyed
    <3>2. CASE v \notin valuations
      <4>1. v.run = run
        BY <1>6, <1>9, <3>2
      <4> QED BY <1>3, <4>1 DEF Runs
    <3> QED BY <3>1, <3>2
  <2>6. ASSUME NEW v \in valuations', NEW e \in v.evidence
        PROVE  [of |-> v.of, run |-> v.run, from |-> e.from] \in comparables'
    <3>1. CASE v \in valuations
      BY <1>10, <3>1 DEF Keyed
    <3>2. CASE v \notin valuations
      <4>1. PICK l \in new : v = Valued(new, l)
        BY <1>9, <3>2
      <4>2. v.of = l /\ v.run = run /\ v.evidence = Evidence(l)
        BY <1>6, <4>1
      <4>3. e \in Evidence(l)
        BY <4>2
      <4>4. [of |-> l, run |-> run, from |-> e.from] \in comparables'
        BY <1>7, <4>3
      <4> QED BY <4>2, <4>4
    <3> QED BY <3>1, <3>2
  <2>7. ASSUME NEW s \in scores' PROVE s.of = s.basis.of
    <3>1. CASE s \in scores
      BY <3>1 DEF Keyed
    <3>2. CASE s \notin scores
      BY <1>5, <1>11, <3>2
    <3> QED BY <3>1, <3>2
  <2> QED BY <1>1, <2>3, <2>4, <2>5, <2>6, <2>7 DEF Keyed
<1>14. ScoreHasItsValuation'
  <2> SUFFICES ASSUME NEW s \in scores'
               PROVE  \E v \in valuations' : v.id = s.valuation /\ v = s.basis
    BY DEF ScoreHasItsValuation
  <2>1. CASE s \in scores
    BY <1>10, <2>1 DEF ScoreHasItsValuation
  <2>2. CASE s \notin scores
    BY <1>5, <1>11, <2>2
  <2> QED BY <2>1, <2>2
<1>15. ASSUME NEW k \in Listings, rows[k].status = "removed", NEW v \in valuations'
       PROVE  v.of # k /\ \A e \in v.evidence : e.from # k
  <2>1. CASE v \in valuations
    BY <1>15, <2>1 DEF ErasedEvidenceIsGone
  <2>2. CASE v \notin valuations
    <3>1. PICK l \in new : v = Valued(new, l)
      BY <1>9, <2>2
    <3>2. l \in done
      BY <1>2
    <3>3. rows[l].status = "open" /\ v.of = l /\ v.evidence = Evidence(l)
      BY <1>4, <1>6, <3>1, <3>2
    <3>4. \A e \in Evidence(l) : rows[e.from].status # "removed"
      BY <1>7
    <3> QED BY <1>15, <3>3, <3>4
  <2> QED BY <2>1, <2>2
<1>16. ErasedEvidenceIsGone'
  <2> SUFFICES ASSUME NEW k \in Listings, rows[k].status = "removed"
               PROVE  /\ \A v \in valuations' : v.of # k /\ \A e \in v.evidence : e.from # k
                      /\ \A s \in scores' : s.of # k /\ \A e \in s.basis.evidence : e.from # k
                      /\ \A c \in comparables' : k \notin {c.of, c.from}
    BY <1>1 DEF ErasedEvidenceIsGone
  <2>1. \A s \in scores' : s.basis \in valuations' /\ s.of = s.basis.of
    BY <1>13, <1>14 DEF Keyed, ScoreHasItsValuation
  <2>2. ASSUME NEW c \in comparables' PROVE k \notin {c.of, c.from}
    <3>1. CASE c \in comparables
      BY <3>1 DEF ErasedEvidenceIsGone
    <3>2. CASE c \notin comparables
      <4>1. PICK l \in new : \E e \in Evidence(l) :
               c = [of |-> l, run |-> run, from |-> e.from]
        BY <1>8, <3>2
      <4>3. PICK e \in Evidence(l) : c = [of |-> l, run |-> run, from |-> e.from]
        BY <4>1
      <4>2. rows[l].status = "open" /\ rows[e.from].status # "removed"
        BY <1>2, <1>4, <1>7
      <4> QED BY <4>2, <4>3
    <3> QED BY <3>1, <3>2
  <2> QED BY <1>15, <2>1, <2>2
<1> QED BY <1>12, <1>13, <1>14, <1>16

LEMMA OtherStep ==
    ASSUME IInv,
           \/ \E t \in Times : Begin(t)
           \/ \E l \in Listings : EraseAuthor(l)
           \/ End
           \/ \E m \in Methods : Reconfigure(m)
           \/ UNCHANGED vars
    PROVE  IInv'
<1> USE DEF IInv
<1>1. /\ UNCHANGED <<rows, valuations, comparables>>
      /\ scores' \subseteq scores
      /\ step' \in {"idle", "collect", "analyzed"}
      /\ UNCHANGED <<drifted, renamed>>
  BY DEF Begin, EraseAuthor, End, Reconfigure, vars, tables, news, TypeOK
<1>2. ScoreHasItsValuation' /\ ErasedEvidenceIsGone'
  BY <1>1, Zenon DEF ScoreHasItsValuation, ErasedEvidenceIsGone
<1>3. ASSUME NEW t \in Times, Begin(t) PROVE TypeOK' /\ Keyed'
  <2>1. run \in 0..MaxRuns /\ run' = run + 1 /\ run < MaxRuns /\ asOf' = t
        /\ step' = "collect" /\ reads' = 0 /\ scores' = scores /\ method' = method
    BY <1>3 DEF Begin, tables, TypeOK
  <2>2. run' \in 0..MaxRuns /\ run' \in Runs /\ asOf' \in Times /\ asOf' \in 0..MaxTime
        /\ 0 \in Nat
    BY <2>1 DEF Runs, Times
  <2>3. backdated' \in BOOLEAN
    <3>1. (t <= asOf) \in BOOLEAN
      OBVIOUS
    <3> QED BY <1>3, <3>1, Zenon DEF Begin, TypeOK
  <2>4. TypeOK'
    BY <1>1, <2>1, <2>2, <2>3, Zenon DEF TypeOK
  <2>5. \A v \in valuations : v.run <= run' /\ v.run < run'
    <3>1. \A v \in valuations : v.run \in Nat /\ v.run <= run
      BY DEF TypeOK, Valuation, Runs, Keyed
    <3> QED BY <2>1, <3>1
  <2>6. Keyed'
    BY <1>1, <2>1, <2>5 DEF Keyed, Numbers
  <2> QED BY <2>4, <2>6
<1>4. ASSUME NEW l \in Listings, EraseAuthor(l) PROVE TypeOK' /\ Keyed'
  <2>1. UNCHANGED <<method, run, asOf, step, backdated>> /\ reads' \in Nat
    BY <1>4 DEF EraseAuthor, ReadOne, TypeOK
  <2> QED BY <1>1, <2>1, Zenon DEF TypeOK, Keyed, Numbers
<1>5. CASE End
  <2>1. UNCHANGED <<method, run, asOf, backdated>> /\ reads' = 0 /\ step' = "idle"
        /\ scores' = scores
    BY <1>5 DEF End, tables
  <2>2. 0 \in Nat
    OBVIOUS
  <2>3. TypeOK'
    BY <1>1, <2>1, <2>2, Zenon DEF TypeOK
  <2>4. Keyed'
    BY <1>1, <2>1 DEF Keyed, Numbers
  <2> QED BY <1>2, <2>3, <2>4
<1>6. ASSUME NEW m \in Methods, Reconfigure(m) PROVE TypeOK' /\ Keyed'
  <2>1. UNCHANGED <<run, asOf, step, reads, backdated, scores>> /\ method' = m
    BY <1>6 DEF Reconfigure, tables
  <2> QED BY <1>1, <2>1, Zenon DEF TypeOK, Keyed, Numbers
<1>7. CASE UNCHANGED vars
  <2>1. UNCHANGED <<rows, valuations, comparables, scores>>
        /\ UNCHANGED <<method, run, asOf, step, reads, backdated, drifted, renamed>>
    BY <1>7 DEF vars, tables, news
  <2>2. TypeOK'
    BY <2>1, Zenon DEF TypeOK
  <2>3. Keyed'
    BY <2>1 DEF Keyed, Numbers
  <2> QED BY <1>2, <2>2, <2>3
<1> QED BY <1>2, <1>3, <1>4, <1>5, <1>6, <1>7

(* ------------------------------- Theorems -------------------------------- *)

\* The tables are well formed in every reachable state, and what each
\* valuation rests on is on record as its comparables (_record_valuation and
\* _invalidate_listing_evidence).
THEOREM TablesAreSound == Spec => []IInv
<1>1. IInv /\ [Next]_vars => IInv'
  <2> SUFFICES ASSUME IInv, [Next]_vars PROVE IInv'
    OBVIOUS
  <2>1. ASSUME NEW l \in Listings, NEW c \in Records, Read(l, c) PROVE IInv'
    BY <2>1, ReadStep
  <2>2. ASSUME NEW l \in Listings, Purge(l) PROVE IInv'
    BY <2>2, PurgeStep
  <2>3. ASSUME NEW failing \in SUBSET Listings, Analyze(failing) PROVE IInv'
    BY <2>3, AnalyzeStep
  <2>4. CASE \/ \E t \in Times : Begin(t)
             \/ \E l \in Listings : EraseAuthor(l)
             \/ End
             \/ \E m \in Methods : Reconfigure(m)
             \/ UNCHANGED vars
    BY <2>4, OtherStep
  <2> QED BY <2>1, <2>2, <2>3, <2>4 DEF Next
<1> QED BY <1>1, InitIInv, PTL DEF Spec

\* Every score on record names the valuation it was computed from, through any
\* purges, failures of the analysis and reused row numbers.
THEOREM ScoresKeepTheirValuations == Spec => []ScoreHasItsValuation
<1>1. IInv => ScoreHasItsValuation
  BY DEF IInv
<1> QED BY <1>1, TablesAreSound, PTL

\* Once a post is deleted, no valuation, score or comparable rests on it,
\* however often its valuations were reused before.
THEOREM ErasureReachesTheAnalysis == Spec => []ErasedEvidenceIsGone
<1>1. IInv => ErasedEvidenceIsGone
  BY DEF IInv
<1> QED BY <1>1, TablesAreSound, PTL

(* ---------------------------- Current scores ----------------------------- *)

\* Listing m is evidence for l among the table t of listings, and what it is.
Comparable(t, l, m) ==
    /\ m # l /\ FitFor(t[m].watch, t[l].watch)
    /\ t[m].status \notin {"none", "removed"}
    /\ t[m].sold # None \/ t[m].usd # None
EvidenceOf(t, l, m) ==
    IF Comparable(t, l, m)
    THEN {[from |-> m, kind |-> IF t[m].sold # None THEN "sale" ELSE "asking",
           price |-> IF t[m].sold # None THEN t[m].sold ELSE t[m].usd]}
    ELSE {}

\* A match is at most one piece of evidence: its sale, or else its asking price.
LEMMA FromEvidence ==
    \A l, m \in Listings : From(Evidence(l), m) = EvidenceOf(rows, l, m)
<1> SUFFICES ASSUME NEW l \in Listings, NEW m \in Listings
             PROVE  From(Evidence(l), m) = EvidenceOf(rows, l, m)
  OBVIOUS
<1> DEFINE item(k) == [from |-> k, kind |-> IF rows[k].sold # None THEN "sale" ELSE "asking",
                       price |-> IF rows[k].sold # None THEN rows[k].sold ELSE rows[k].usd]
<1>1. Evidence(l) = {item(k) : k \in Matches(l)}
  BY DEF Evidence, IsSale, Matches
<1>2. \A k \in Matches(l) : item(k).from = k
  OBVIOUS
<1>3. From(Evidence(l), m) = IF m \in Matches(l) THEN {item(m)} ELSE {}
  <2> HIDE DEF item
  <2> QED BY <1>1, <1>2 DEF From
<1>4. m \in Matches(l) <=> Comparable(rows, l, m)
  BY DEF Matches, Comparable
<1> QED BY <1>3, <1>4 DEF EvidenceOf

\* Evidence that agrees listing by listing agrees.
LEMMA EvidenceAgrees ==
    ASSUME TypeOK, NEW v \in Valuation, NEW ms \in SUBSET Listings,
           \A m \in Listings \ ms : From(v.evidence, m) = From(Evidence(v.of), m)
    PROVE  Without(v.evidence, ms) = Without(Evidence(v.of), ms)
<1>1. /\ \A e \in v.evidence : e.from \in Listings
      /\ \A e \in Evidence(v.of) : e.from \in Listings
  BY EvidenceTyped DEF Valuation
<1>2. \A e : e.from \in Listings \ ms => (e \in v.evidence <=> e \in Evidence(v.of))
  BY DEF From
<1> QED BY <1>1, <1>2 DEF Without

\* FreshInv, for one valuation v, a table t of listings, and the instants d and n
\* of what changed undated.
PriceIn(t, d, v) ==
    After(t[v.of].priced, v.at) \/ d[v.of] > v.at \/ v.usd = t[v.of].usd
Stamped(t, v, m) ==
    \/ After(t[m].seen, v.at) \/ After(t[m].priced, v.at) \/ After(t[m].soldAt, v.at)
Excused(d, n, v, m) == d[m] > v.at \/ n[m] > v.at \/ n[v.of] > v.at
KnownIn(t, d, n, v, m) ==
    \/ Excused(d, n, v, m)
    \/ Comparable(t, v.of, m) /\ Stamped(t, v, m)
    \/ From(v.evidence, m) = EvidenceOf(t, v.of, m)
Fresh(t, d, n, v) ==
    /\ t[v.of].status # "none"
    /\ PriceIn(t, d, v)
    /\ \A m \in Listings : KnownIn(t, d, n, v, m)
AllFresh ==
    ~backdated => \A v \in valuations :
        /\ v.at <= asOf /\ (step = "collect" => v.at < asOf)
        /\ Fresh(rows, drifted, renamed, v)

\* MatchKnown speaks of the listings as they are.
LEMMA MatchKnownIn ==
    \A v \in Valuation, m \in Listings :
        MatchKnown(v, m) <=> KnownIn(rows, drifted, renamed, v, m)
<1> SUFFICES ASSUME NEW v \in Valuation, NEW m \in Listings
             PROVE  MatchKnown(v, m) <=> KnownIn(rows, drifted, renamed, v, m)
  OBVIOUS
<1>1. v.of \in Listings
  BY DEF Valuation
<1>2. m \in Matches(v.of) <=> Comparable(rows, v.of, m)
  BY DEF Matches, Comparable
<1>3. (\E stamp \in Stamps(m) : After(stamp, v.at)) <=> Stamped(rows, v, m)
  BY DEF Stamps, Stamped
<1>4. From(Evidence(v.of), m) = EvidenceOf(rows, v.of, m)
  BY <1>1, FromEvidence
<1>5. (m \in Unnoticed(v.at) \/ renamed[v.of] > v.at) <=> Excused(drifted, renamed, v, m)
  BY DEF Unnoticed, Excused
<1> QED BY <1>2, <1>3, <1>4, <1>5 DEF MatchKnown, KnownIn

\* FreshInv speaks of the listings as they are.
LEMMA FreshMeans == TypeOK => (FreshInv <=> AllFresh)
<1> SUFFICES ASSUME TypeOK PROVE FreshInv <=> AllFresh
  OBVIOUS
<1>1. \A v \in valuations : v \in Valuation
  BY DEF TypeOK
<1>2. \A v \in valuations : PriceKnown(v) <=> PriceIn(rows, drifted, v)
  BY DEF PriceKnown, PriceIn
<1>3. \A v \in valuations, m \in Listings :
         MatchKnown(v, m) <=> KnownIn(rows, drifted, renamed, v, m)
  BY <1>1, MatchKnownIn
<1> QED BY <1>2, <1>3, Zenon DEF FreshInv, AllFresh, Fresh

\* What reading a record does to the row of its listing, and to the instants.
LEMMA ReadRow ==
    ASSUME TypeOK, NEW l \in Listings, NEW c \in Records, Read(l, c)
    PROVE  LET r == rows[l]
               q == rows'[l]
           IN  /\ q.status \notin {"none", "removed"} /\ r.status # "removed"
               /\ r.usd # None => q.usd # None
               /\ q.seen = (IF r.status = "none" THEN asOf ELSE r.seen)
               /\ q.priced \in {r.priced, asOf}
               /\ q.soldAt = r.soldAt \/ (r.soldAt = None /\ q.soldAt = asOf)
               /\ drifted'[l] = asOf
                  \/ /\ q.usd = r.usd \/ q.priced = asOf
                     /\ q.sold = r.sold \/ (q.soldAt = asOf /\ q.sold # None)
               /\ renamed'[l] = asOf \/ q.watch = r.watch \/ r.status = "none"
               /\ \A k \in Listings : k # l => rows'[k] = rows[k]
               /\ \A k \in Listings : /\ drifted'[k] \in {drifted[k], asOf}
                                      /\ renamed'[k] \in {renamed[k], asOf}
<1> DEFINE r == rows[l]
           q == rows'[l]
<1>1. /\ rows' = [rows EXCEPT ![l] = Upserted(rows[l], c)] /\ rows[l].status # "removed"
      /\ drifted' = IF Drifts(r, q) THEN [drifted EXCEPT ![l] = asOf] ELSE drifted
      /\ renamed' = IF Renames(r, q) THEN [renamed EXCEPT ![l] = asOf] ELSE renamed
  BY DEF Read
<1>2. /\ rows \in [Listings -> Rows]
      /\ drifted \in [Listings -> 0..MaxTime] /\ renamed \in [Listings -> 0..MaxTime]
  BY DEF TypeOK
<1>3. q = Upserted(r, c) /\ \A k \in Listings : k # l => rows'[k] = rows[k]
  BY <1>1, <1>2
<1>4. /\ \A k \in Listings : /\ drifted'[k] \in {drifted[k], asOf}
                             /\ renamed'[k] \in {renamed[k], asOf}
      /\ Drifts(r, q) => drifted'[l] = asOf
      /\ Renames(r, q) => renamed'[l] = asOf
  <2> HIDE DEF r, q
  <2> QED BY <1>1, <1>2
<1>5. /\ q.status = c.status
      /\ q.usd = Observed(InUsd(c), r.usd)
      /\ q.seen = (IF r.status = "none" THEN asOf ELSE r.seen)
      /\ q.priced = (IF PriceChanged(r, c) THEN asOf ELSE r.priced)
      /\ q.soldAt = (IF c.status = "sold" THEN Observed(r.soldAt, asOf) ELSE r.soldAt)
  <2> HIDE DEF r
  <2> QED BY <1>3 DEF Upserted
<1>6. q.status \notin {"none", "removed"}
  BY <1>5 DEF Candidates
<1>7. r.usd # None => q.usd # None
  BY <1>5 DEF Observed
<1> HIDE DEF r, q
<1>8. q.soldAt = r.soldAt \/ (r.soldAt = None /\ q.soldAt = asOf)
  BY <1>5 DEF Observed
<1>9. /\ drifted'[l] = asOf
         \/ /\ q.usd = r.usd \/ q.priced = asOf
            /\ q.sold = r.sold \/ (q.soldAt = asOf /\ q.sold # None)
      /\ renamed'[l] = asOf \/ q.watch = r.watch \/ r.status = "none"
  <2>1. CASE Drifts(r, q)
    BY <1>4, <2>1 DEF Renames
  <2>2. CASE ~Drifts(r, q)
    <3>1. /\ q.usd = r.usd \/ q.priced = asOf
          /\ q.sold = r.sold \/ (q.soldAt = asOf /\ q.sold # None)
      BY <2>2, Zenon DEF Drifts
    <3>2. renamed'[l] = asOf \/ q.watch = r.watch \/ r.status = "none"
      BY <1>4, Zenon DEF Renames
    <3> QED BY <3>1, <3>2
  <2> QED BY <2>1, <2>2
<1>10. r.status # "removed"
  BY <1>1 DEF r
<1> QED BY <1>3, <1>4, <1>5, <1>6, <1>7, <1>8, <1>9, <1>10 DEF r, q

\* Reading a record dates what it changes, or notes that it did not, and a run
\* works for a later instant than any valuation on record.
LEMMA ReadKeepsKnown ==
    ASSUME TypeOK, NEW l \in Listings, NEW c \in Records, Read(l, c),
           NEW v \in Valuation, v.at < asOf, rows[v.of].status # "none",
           NEW m \in Listings, KnownIn(rows, drifted, renamed, v, m)
    PROVE  KnownIn(rows', drifted', renamed', v, m)
<1> DEFINE r == rows[l]
           q == rows'[l]
<1>1. v.of \in Listings /\ v.at \in Nat /\ asOf \in Nat /\ None \notin Nat
  BY DEF TypeOK, Valuation, Times
<1>2. /\ q.status \notin {"none", "removed"} /\ r.status # "removed"
      /\ r.usd # None => q.usd # None
      /\ q.seen = (IF r.status = "none" THEN asOf ELSE r.seen)
      /\ q.priced \in {r.priced, asOf}
      /\ q.soldAt = r.soldAt \/ (r.soldAt = None /\ q.soldAt = asOf)
      /\ drifted'[l] = asOf
         \/ /\ q.usd = r.usd \/ q.priced = asOf
            /\ q.sold = r.sold \/ (q.soldAt = asOf /\ q.sold # None)
      /\ renamed'[l] = asOf \/ q.watch = r.watch \/ r.status = "none"
      /\ \A k \in Listings : k # l => rows'[k] = rows[k]
      /\ \A k \in Listings : /\ drifted'[k] \in {drifted[k], asOf}
                             /\ renamed'[k] \in {renamed[k], asOf}
  BY ReadRow
<1> HIDE DEF r, q
<1>3. asOf > v.at /\ After(asOf, v.at) /\ ~After(None, v.at)
  BY <1>1 DEF After
<1> SUFFICES ASSUME ~Excused(drifted', renamed', v, m)
             PROVE  \/ Comparable(rows', v.of, m) /\ Stamped(rows', v, m)
                    \/ From(v.evidence, m) = EvidenceOf(rows', v.of, m)
  BY DEF KnownIn
<1>4. drifted'[m] # asOf /\ renamed'[m] # asOf /\ renamed'[v.of] # asOf
  BY <1>3 DEF Excused
<1>5. ~Excused(drifted, renamed, v, m)
  <2>1. /\ drifted'[m] = drifted[m] /\ renamed'[m] = renamed[m]
        /\ renamed'[v.of] = renamed[v.of]
    BY <1>1, <1>2, <1>4
  <2> QED BY <2>1 DEF Excused
<1>6. \/ Comparable(rows, v.of, m) /\ Stamped(rows, v, m)
      \/ From(v.evidence, m) = EvidenceOf(rows, v.of, m)
  BY <1>5 DEF KnownIn
<1>7. rows'[v.of].watch = rows[v.of].watch
  <2>1. CASE v.of = l
    BY <1>2, <1>4, <2>1 DEF r, q
  <2>2. CASE v.of # l
    BY <1>1, <1>2, <2>2
  <2> QED BY <2>1, <2>2
<1>8. CASE m # l
  <2>1. rows'[m] = rows[m]
    BY <1>2, <1>8
  <2>2. Comparable(rows', v.of, m) <=> Comparable(rows, v.of, m)
    BY <1>7, <2>1 DEF Comparable
  <2>3. Stamped(rows', v, m) <=> Stamped(rows, v, m)
    BY <2>1 DEF Stamped
  <2>4. EvidenceOf(rows', v.of, m) = EvidenceOf(rows, v.of, m)
    BY <2>1, <2>2 DEF EvidenceOf
  <2> QED BY <1>6, <2>2, <2>3, <2>4
<1>9. CASE m = l
  <2>1. rows[m] = r /\ rows'[m] = q
    BY <1>9 DEF r, q
  <2>2. /\ q.usd = r.usd \/ q.priced = asOf
        /\ q.sold = r.sold \/ (q.soldAt = asOf /\ q.sold # None)
    BY <1>2, <1>4, <1>9
  <2>3. Stamped(rows, v, m) /\ r.status # "none" => Stamped(rows', v, m)
    <3>1. After(r.priced, v.at) => After(q.priced, v.at)
      BY <1>2, <1>3
    <3>2. After(r.soldAt, v.at) => After(q.soldAt, v.at)
      BY <1>2, <1>3
    <3>3. r.status # "none" => q.seen = r.seen
      BY <1>2
    <3> QED BY <2>1, <3>1, <3>2, <3>3 DEF Stamped
  <2>4. \/ Stamped(rows', v, m)
        \/ r.status # "none" /\ q.usd = r.usd /\ q.sold = r.sold /\ q.watch = r.watch
    <3> SUFFICES ASSUME ~Stamped(rows', v, m)
                 PROVE  r.status # "none" /\ q.usd = r.usd /\ q.sold = r.sold
                        /\ q.watch = r.watch
      OBVIOUS
    <3>1. q.seen # asOf /\ q.priced # asOf /\ q.soldAt # asOf
      BY <1>3, <2>1 DEF Stamped
    <3>2. r.status # "none" /\ q.usd = r.usd /\ q.sold = r.sold
      BY <1>2, <2>2, <3>1
    <3>3. q.watch = r.watch
      BY <1>2, <1>4, <1>9, <3>2
    <3> QED BY <3>2, <3>3
  <2>5. Comparable(rows, v.of, m) => Comparable(rows', v.of, m)
    <3> SUFFICES ASSUME Comparable(rows, v.of, m) PROVE Comparable(rows', v.of, m)
      OBVIOUS
    <3>1. r.status # "none" /\ (r.sold # None \/ r.usd # None) /\ m # v.of
          /\ FitFor(r.watch, rows[v.of].watch)
      BY <2>1 DEF Comparable
    <3>2. q.watch = r.watch
      BY <1>2, <1>4, <1>9, <3>1
    <3>3. q.sold # None \/ q.usd # None
      BY <1>2, <2>2, <3>1
    <3> QED BY <1>2, <1>7, <2>1, <3>1, <3>2, <3>3 DEF Comparable
  <2>6. CASE Comparable(rows, v.of, m) /\ Stamped(rows, v, m)
    <3>1. r.status # "none"
      BY <2>1, <2>6 DEF Comparable
    <3> QED BY <2>3, <2>5, <2>6, <3>1
  <2>7. CASE From(v.evidence, m) = EvidenceOf(rows, v.of, m)
    <3>1. CASE ~Comparable(rows', v.of, m)
      BY <2>5, <2>7, <3>1 DEF EvidenceOf
    <3>2. CASE Comparable(rows', v.of, m) /\ ~Stamped(rows', v, m)
      <4>1. r.status # "none" /\ q.usd = r.usd /\ q.sold = r.sold /\ q.watch = r.watch
        BY <2>4, <3>2
      <4>2. Comparable(rows, v.of, m)
        BY <1>2, <1>7, <2>1, <3>2, <4>1 DEF Comparable
      <4> QED BY <2>1, <2>7, <3>2, <4>1, <4>2 DEF EvidenceOf
    <3> QED BY <3>1, <3>2
  <2> QED BY <1>6, <2>6, <2>7
<1> QED BY <1>8, <1>9

\* So no valuation is outdated unnoticed by what a run reads.
LEMMA ReadKeepsFresh ==
    ASSUME TypeOK, NEW l \in Listings, NEW c \in Records, Read(l, c), AllFresh
    PROVE  AllFresh'
<1> SUFFICES ASSUME ~backdated', NEW v \in valuations'
             PROVE  /\ v.at <= asOf' /\ (step' = "collect" => v.at < asOf')
                    /\ Fresh(rows', drifted', renamed', v)
  BY DEF AllFresh
<1>1. UNCHANGED <<valuations, asOf, step, backdated>> /\ step = "collect"
  BY DEF Read, ReadOne
<1>2. v \in Valuation /\ v.at <= asOf /\ v.at < asOf /\ Fresh(rows, drifted, renamed, v)
  BY <1>1, Zenon DEF AllFresh, TypeOK
<1>3. v.of \in Listings /\ v.at \in Nat /\ asOf \in Nat
  BY <1>1, <1>2 DEF Valuation, TypeOK, Times
<1> DEFINE r == rows[l]
           q == rows'[l]
<1>4. /\ q.status # "none" /\ q.priced \in {r.priced, asOf}
      /\ drifted'[l] = asOf \/ q.usd = r.usd \/ q.priced = asOf
      /\ \A k \in Listings : k # l => rows'[k] = rows[k]
      /\ \A k \in Listings : drifted'[k] \in {drifted[k], asOf}
  BY ReadRow
<1> HIDE DEF r, q
<1>5. rows'[v.of].status # "none"
  BY <1>2, <1>3, <1>4 DEF Fresh, q
<1>6. PriceIn(rows', drifted', v)
  <2>1. After(asOf, v.at) /\ asOf > v.at
    BY <1>2, <1>3 DEF After
  <2>2. PriceIn(rows, drifted, v)
    BY <1>2 DEF Fresh
  <2>3. CASE v.of # l
    <3>1. rows'[v.of] = rows[v.of] /\ drifted'[v.of] \in {drifted[v.of], asOf}
      BY <1>3, <1>4, <2>3
    <3> QED BY <2>1, <2>2, <3>1 DEF PriceIn
  <2>4. CASE v.of = l
    <3>1. rows[v.of] = r /\ rows'[v.of] = q /\ drifted'[v.of] \in {drifted[v.of], asOf}
      BY <1>3, <1>4, <2>4 DEF r, q
    <3>2. After(r.priced, v.at) => After(q.priced, v.at)
      BY <1>4, <2>1
    <3> QED BY <1>4, <2>1, <2>2, <2>4, <3>1, <3>2 DEF PriceIn
  <2> QED BY <2>3, <2>4
<1>7. \A m \in Listings : KnownIn(rows', drifted', renamed', v, m)
  <2>1. \A m \in Listings : KnownIn(rows, drifted, renamed, v, m)
        /\ rows[v.of].status # "none"
    BY <1>2 DEF Fresh
  <2> QED BY <1>2, <2>1, ReadKeepsKnown
<1> QED BY <1>1, <1>2, <1>5, <1>6, <1>7 DEF Fresh

\* A purge takes every valuation of or from the listing it empties.
LEMMA PurgeKeepsFresh ==
    ASSUME IInv, NEW l \in Listings, Purge(l), AllFresh
    PROVE  AllFresh'
<1> SUFFICES ASSUME ~backdated', NEW v \in valuations'
             PROVE  /\ v.at <= asOf' /\ (step' = "collect" => v.at < asOf')
                    /\ Fresh(rows', drifted', renamed', v)
  BY DEF AllFresh
<1>1. /\ UNCHANGED <<asOf, step, backdated, drifted, renamed>> /\ valuations' = Kept(l)
      /\ rows' = [rows EXCEPT ![l] = Emptied(rows[l])]
  BY DEF Purge, news
<1>2. v \in valuations /\ rows \in [Listings -> Rows] /\ v \in Valuation
  BY <1>1 DEF Kept, TypeOK, IInv
<1>3. /\ v.at <= asOf /\ (step = "collect" => v.at < asOf)
      /\ Fresh(rows, drifted, renamed, v)
  BY <1>1, <1>2, Zenon DEF AllFresh
<1>4. rows'[l].status = "removed" /\ \A k \in Listings \ {l} : rows'[k] = rows[k]
  BY <1>1, <1>2 DEF Emptied
<1>5. v.of # l /\ \A e \in v.evidence : e.from # l
  <2>1. IInv'
    BY PurgeStep
  <2> QED BY <1>4, <2>1 DEF IInv, ErasedEvidenceIsGone
<1>6. rows'[v.of] = rows[v.of]
  <2>1. v.of \in Listings
    BY <1>2 DEF Valuation
  <2> QED BY <1>4, <1>5, <2>1
<1>7. PriceIn(rows', drifted', v) /\ rows'[v.of].status # "none"
  BY <1>1, <1>3, <1>6 DEF Fresh, PriceIn
<1>8. ASSUME NEW m \in Listings PROVE KnownIn(rows', drifted', renamed', v, m)
  <2>1. CASE m = l
    <3>1. From(v.evidence, m) = {}
      BY <1>5, <2>1 DEF From
    <3>2. EvidenceOf(rows', v.of, m) = {}
      BY <1>4, <2>1 DEF EvidenceOf, Comparable
    <3> QED BY <3>1, <3>2 DEF KnownIn
  <2>2. CASE m # l
    <3>1. rows'[m] = rows[m] /\ KnownIn(rows, drifted, renamed, v, m)
      BY <1>3, <1>4, <2>2 DEF Fresh
    <3>2. Comparable(rows', v.of, m) <=> Comparable(rows, v.of, m)
      BY <1>6, <3>1 DEF Comparable
    <3>3. Stamped(rows', v, m) <=> Stamped(rows, v, m)
      BY <3>1 DEF Stamped
    <3>4. EvidenceOf(rows', v.of, m) = EvidenceOf(rows, v.of, m)
      BY <3>1, <3>2 DEF EvidenceOf
    <3>5. Excused(drifted', renamed', v, m) <=> Excused(drifted, renamed, v, m)
      BY <1>1 DEF Excused
    <3> QED BY <3>1, <3>2, <3>3, <3>4, <3>5 DEF KnownIn
  <2> QED BY <2>1, <2>2
<1> QED BY <1>1, <1>3, <1>7, <1>8 DEF Fresh

\* A new valuation knows everything.
LEMMA AnalyzeKeepsFresh ==
    ASSUME IInv, NEW failing \in SUBSET Listings, Analyze(failing), AllFresh
    PROVE  AllFresh'
<1> SUFFICES ASSUME ~backdated', NEW v \in valuations'
             PROVE  /\ v.at <= asOf' /\ (step' = "collect" => v.at < asOf')
                    /\ Fresh(rows', drifted', renamed', v)
  BY DEF AllFresh
<1>1. step' = "analyzed" /\ UNCHANGED <<rows, asOf, backdated, drifted, renamed>>
  BY Zenon DEF Analyze, Scored, news
<1>2. CASE v \in valuations
  BY <1>1, <1>2, Zenon DEF AllFresh
<1>3. CASE v \notin valuations
  <2>1. PICK new \in SUBSET Open : valuations' = valuations \cup {Valued(new, l) : l \in new}
    BY AnalyzeParts
  <2>2. PICK l \in new : v = Valued(new, l)
    BY <1>3, <2>1
  <2>3. l \in Listings /\ rows[l].status = "open" /\ v.of = l /\ v.at = asOf
        /\ v.usd = rows[l].usd /\ v.evidence = Evidence(l)
    BY <2>2 DEF Open, Valued
  <2>4. asOf \in Nat
    BY DEF IInv, TypeOK
  <2>5. \A m \in Listings : KnownIn(rows, drifted, renamed, v, m)
    BY <2>3, FromEvidence DEF KnownIn
  <2> QED BY <1>1, <2>3, <2>4, <2>5 DEF Fresh, PriceIn
<1> QED BY <1>2, <1>3

\* A run that does not go back works for a later instant than every valuation.
LEMMA OtherKeepsFresh ==
    ASSUME IInv, AllFresh,
           \/ \E t \in Times : Begin(t)
           \/ \E l \in Listings : EraseAuthor(l)
           \/ End
           \/ \E m \in Methods : Reconfigure(m)
           \/ UNCHANGED vars
    PROVE  AllFresh'
<1> SUFFICES ASSUME ~backdated', NEW v \in valuations'
             PROVE  /\ v.at <= asOf' /\ (step' = "collect" => v.at < asOf')
                    /\ Fresh(rows', drifted', renamed', v)
  BY DEF AllFresh
<1>1. UNCHANGED <<rows, valuations, drifted, renamed>>
  BY DEF Begin, EraseAuthor, End, Reconfigure, vars, tables, news
<1>2. ASSUME NEW t \in Times, Begin(t) PROVE v.at < asOf' /\ v.at <= asOf' /\ ~backdated
  <2>1. asOf' = t /\ ~backdated /\ ~(t <= asOf)
    BY <1>2 DEF Begin
  <2>2. v \in valuations /\ v.at \in Nat /\ t \in Nat /\ asOf \in Nat
    BY <1>1, <1>2 DEF IInv, TypeOK, Valuation, Times
  <2>3. v.at <= asOf
    BY <2>1, <2>2, Zenon DEF AllFresh
  <2> QED BY <2>1, <2>2, <2>3
<1>3. ASSUME ~\E t \in Times : Begin(t)
      PROVE  UNCHANGED <<asOf, backdated>> /\ (step' = "collect" => step = "collect")
  BY <1>3 DEF EraseAuthor, End, Reconfigure, vars
<1>4. ~backdated
  BY <1>2, <1>3
<1>5. /\ v.at <= asOf /\ (step = "collect" => v.at < asOf)
      /\ Fresh(rows, drifted, renamed, v)
  BY <1>1, <1>4, Zenon DEF AllFresh
<1> QED BY <1>1, <1>2, <1>3, <1>5, Zenon

\* Scores bear the number of the run that made them, which is one run's.
LEMMA ScoredOnceStep ==
    ASSUME IInv, ScoredOnce, [Next]_vars
    PROVE  ScoredOnce'
<1>1. \A s \in scores : s.run \in Nat /\ s.run <= run
  BY DEF IInv, TypeOK, Score, Runs, ScoredOnce
<1>2. run \in Nat
  BY DEF IInv, TypeOK
<1>3. ASSUME NEW t \in Times, Begin(t) PROVE ScoredOnce'
  <2>1. scores' = scores /\ run' = run + 1
    BY <1>3 DEF Begin, tables
  <2> QED BY <1>1, <1>2, <2>1 DEF ScoredOnce
<1>4. ASSUME NEW failing \in SUBSET Listings, Analyze(failing) PROVE ScoredOnce'
  <2>1. step' = "analyzed" /\ run' = run
    BY <1>4, Zenon DEF Analyze, Scored
  <2>2. PICK done \in SUBSET Open, new \in SUBSET Open :
           scores' = scores \cup
              {[of |-> l, run |-> run, at |-> asOf, valuation |-> Used(new, l).id,
                basis |-> Used(new, l)] : l \in done}
    BY <1>4, AnalyzeParts
  <2>3. \A s \in scores' : s \in scores \/ s.run = run
    BY <2>2
  <2> QED BY <1>1, <1>2, <2>1, <2>3 DEF ScoredOnce
<1>5. CASE \/ \E l \in Listings : (\E c \in Records : Read(l, c)) \/ Purge(l) \/ EraseAuthor(l)
           \/ End
           \/ \E m \in Methods : Reconfigure(m)
           \/ UNCHANGED vars
  <2>1. scores' \subseteq scores /\ run' = run /\ (step' = "collect" => step = "collect")
    BY <1>5 DEF Read, Purge, Spared, EraseAuthor, End, Reconfigure, vars, tables
  <2> QED BY <2>1 DEF ScoredOnce
<1> QED BY <1>3, <1>4, <1>5 DEF Next

\* What valuation v, used for listing l, must know: the price of the listing and
\* its evidence, except for what changed undated since.
Informed(v, l) ==
    /\ v.usd = rows[l].usd \/ drifted[l] > v.at
    /\ \/ Without(v.evidence, Unnoticed(v.at)) = Without(Evidence(l), Unnoticed(v.at))
       \/ renamed[l] > v.at

\* A listing that is not valued anew has a last valuation that is of the
\* method, of this or an earlier instant, not expired, and not outdated.
LEMMA NotNeeded ==
    ASSUME IInv, AllFresh, step = "collect", NEW l \in Listings, ~Needed(l)
    PROVE  LET v == Latest(l) IN
           /\ v \in valuations /\ v.of = l
           /\ v.method = method
           /\ v.at <= asOf /\ asOf < v.at + Refresh
           /\ ~backdated => Informed(v, l)
<1> DEFINE v == Latest(l)
<1>1. Valuations(l) # {}
  BY DEF Needed
<1>2. v \in valuations /\ v.of = l
  BY <1>1, LatestExists DEF IInv, Valuations
<1>3. /\ v.method = method /\ ~(v.at > asOf) /\ ~(asOf >= v.at + Refresh)
      /\ ~After(rows[l].priced, v.at) /\ ~NewEvidence(l, v.at)
  BY DEF Needed
<1>4. v \in Valuation
  BY <1>2 DEF IInv, TypeOK
<1> HIDE DEF v
<1>5. v.at \in Nat /\ asOf \in Nat /\ Refresh \in Nat
  BY <1>4 DEF Valuation, Times, IInv, TypeOK
<1>6. v.at <= asOf /\ asOf < v.at + Refresh
  BY <1>3, <1>5
<1>7. ASSUME ~backdated
      PROVE  Informed(v, l)
  <2>1. Fresh(rows, drifted, renamed, v)
    BY <1>2, <1>7, Zenon DEF AllFresh
  <2>2. v.usd = rows[l].usd \/ drifted[l] > v.at
    BY <1>2, <1>3, <2>1 DEF Fresh, PriceIn
  <2>3. ASSUME ~(renamed[l] > v.at)
        PROVE  Without(v.evidence, Unnoticed(v.at)) = Without(Evidence(l), Unnoticed(v.at))
    <3>1. ASSUME NEW m \in Listings \ Unnoticed(v.at)
          PROVE  From(v.evidence, m) = From(Evidence(v.of), m)
      <4>1. MatchKnown(v, m)
        BY <1>4, <2>1, MatchKnownIn DEF Fresh
      <4>2. ~(m \in Matches(l) /\ \E stamp \in Stamps(m) : After(stamp, v.at))
        BY <1>3 DEF NewEvidence, Stamps
      <4> QED BY <1>2, <2>3, <4>1, <4>2 DEF MatchKnown
    <3>2. Unnoticed(v.at) \in SUBSET Listings
      BY DEF Unnoticed
    <3>3. Without(v.evidence, Unnoticed(v.at)) = Without(Evidence(v.of), Unnoticed(v.at))
      BY <1>4, <3>1, <3>2, EvidenceAgrees DEF IInv
    <3> QED BY <1>2, <3>3
  <2> QED BY <2>2, <2>3 DEF Informed
<1>8. /\ v \in valuations /\ v.of = l /\ v.method = method
      /\ v.at <= asOf /\ asOf < v.at + Refresh
      /\ ~backdated => Informed(v, l)
  BY <1>2, <1>3, <1>6, <1>7
<1> QED BY <1>8 DEF v

\* What ScoresAreCurrent says of one score.
Current(s) ==
    /\ s.basis.method = method
    /\ s.basis.at <= s.at /\ s.at < s.basis.at + Refresh
    /\ ~backdated => Informed(s.basis, s.of)

\* A listing is scored with its new valuation or with one that is not needed anew.
LEMMA AnalyzeScoresCurrently ==
    ASSUME IInv, AllFresh, ScoredOnce, NEW failing \in SUBSET Listings, Analyze(failing)
    PROVE  \A s \in scores' : s.run = run => Current(s)
<1> DEFINE done == Open \ failing
           new == {l \in done : Needed(l)}
<1>1. step = "collect" /\ scores' = scores \cup {Scored(new, l) : l \in done}
  BY Zenon DEF Analyze
<1>2. \A s \in scores : s.run # run
  <2>1. \A s \in scores : s.run < run /\ s.run \in Nat
    BY <1>1 DEF ScoredOnce, IInv, TypeOK, Score, Runs
  <2> QED BY <2>1
<1>3. ASSUME NEW l \in done PROVE Current(Scored(new, l))
  <2>1. l \in Listings /\ asOf \in Nat /\ Refresh \in Nat \ {0}
    BY DEF Open, IInv, TypeOK
  <2>2. l \in new <=> Needed(l)
    OBVIOUS
  <2> HIDE DEF done, new
  <2> DEFINE s == Scored(new, l)
  <2>3. s.of = l /\ s.at = asOf /\ s.basis = Used(new, l)
    BY DEF Scored
  <2>4. CASE l \in new
    <3> DEFINE v == Valued(new, l)
    <3>1. Used(new, l) = v
      BY <2>4 DEF Used
    <3>2. v.method = method /\ v.at = asOf /\ Informed(v, l)
      BY DEF Valued, Informed
    <3>3. asOf <= asOf /\ asOf < asOf + Refresh
      BY <2>1
    <3> HIDE DEF v, s
    <3>4. Current(s)
      BY <2>3, <3>1, <3>2, <3>3 DEF Current
    <3> QED BY <3>4 DEF s
  <2>5. CASE l \notin new
    <3>1. Used(new, l) = Latest(l)
      BY <2>5 DEF Used
    <3>2. /\ Latest(l).method = method
          /\ Latest(l).at <= asOf /\ asOf < Latest(l).at + Refresh
          /\ ~backdated => Informed(Latest(l), l)
      BY <1>1, <2>1, <2>2, <2>5, NotNeeded
    <3> HIDE DEF s
    <3>3. Current(s)
      BY <2>3, <3>1, <3>2 DEF Current
    <3> QED BY <3>3 DEF s
  <2> QED BY <2>4, <2>5
<1> HIDE DEF done, new
<1> QED BY <1>1, <1>2, <1>3

\* No step but the analysis makes scores of the analysed run, or changes what
\* they rest on before the run has ended.
LEMMA CurrentStep ==
    ASSUME IInv, AllFresh, ScoredOnce, ScoresAreCurrent, [Next]_vars
    PROVE  ScoresAreCurrent'
<1>1. ScoresAreCurrent <=> (step = "analyzed" => \A s \in scores : s.run = run => Current(s))
  BY Zenon DEF ScoresAreCurrent, Current, Informed
<1>2. ASSUME NEW failing \in SUBSET Listings, Analyze(failing) PROVE ScoresAreCurrent'
  <2>1. \A s \in scores' : s.run = run => Current(s)
    BY <1>2, AnalyzeScoresCurrently
  <2>2. UNCHANGED <<rows, method, run, backdated, drifted, renamed>>
    BY <1>2, Zenon DEF Analyze, Scored, news
  <2>3. \A s : /\ Evidence(s.of)' = Evidence(s.of)
               /\ Unnoticed(s.basis.at)' = Unnoticed(s.basis.at)
    BY <2>2 DEF Evidence, Matches, IsSale, Unnoticed
  <2>4. \A s : Current(s)' <=> Current(s)
    BY <2>2, <2>3 DEF Current, Informed
  <2>5. \A s \in scores' : s.run = run' => Current(s)'
    BY <2>1, <2>2, <2>4
  <2> QED BY <2>5, Zenon DEF ScoresAreCurrent, Current, Informed
<1>3. CASE UNCHANGED vars
  <2>1. UNCHANGED <<rows, scores, method, run, backdated, drifted, renamed, step>>
    BY <1>3 DEF vars, tables, news
  <2>2. \A s : /\ Evidence(s.of)' = Evidence(s.of)
               /\ Unnoticed(s.basis.at)' = Unnoticed(s.basis.at)
    BY <2>1 DEF Evidence, Matches, IsSale, Unnoticed
  <2>3. \A s : Current(s)' <=> Current(s)
    BY <2>1, <2>2 DEF Current, Informed
  <2>4. step' = "analyzed" => \A s \in scores' : s.run = run' => Current(s)'
    BY <1>1, <2>1, <2>3
  <2> QED BY <2>4, Zenon DEF ScoresAreCurrent, Current, Informed
<1>4. CASE \/ \E t \in Times : Begin(t)
           \/ \E l \in Listings : (\E c \in Records : Read(l, c)) \/ Purge(l) \/ EraseAuthor(l)
           \/ End
           \/ \E m \in Methods : Reconfigure(m)
  <2>1. step' # "analyzed"
    BY <1>4 DEF Begin, Read, Purge, EraseAuthor, ReadOne, End, Reconfigure
  <2> QED BY <2>1 DEF ScoresAreCurrent
<1> QED BY <1>2, <1>3, <1>4 DEF Next

\* As long as runs go forward, what a valuation on record does not know any more
\* of its listing or of a match shows: in a stamp after it, which has the listing
\* valued anew (_valuation_needed), or else in a change after it that
\* upsert_candidate leaves undated.
THEOREM ReuseIsInformed == Spec => [](FreshInv /\ ScoredOnce)
<1>1. Init => AllFresh /\ ScoredOnce
  BY DEF Init, AllFresh, ScoredOnce
<1>2. IInv /\ AllFresh /\ ScoredOnce /\ [Next]_vars => AllFresh' /\ ScoredOnce'
  <2> SUFFICES ASSUME IInv, AllFresh, ScoredOnce, [Next]_vars
               PROVE  AllFresh' /\ ScoredOnce'
    OBVIOUS
  <2>1. ScoredOnce'
    BY ScoredOnceStep
  <2>2. ASSUME NEW l \in Listings, NEW c \in Records, Read(l, c) PROVE AllFresh'
    BY <2>1, <2>2, ReadKeepsFresh DEF IInv
  <2>3. ASSUME NEW l \in Listings, Purge(l) PROVE AllFresh'
    BY <2>1, <2>3, PurgeKeepsFresh
  <2>4. ASSUME NEW failing \in SUBSET Listings, Analyze(failing) PROVE AllFresh'
    BY <2>1, <2>4, AnalyzeKeepsFresh
  <2>5. CASE \/ \E t \in Times : Begin(t)
             \/ \E l \in Listings : EraseAuthor(l)
             \/ End
             \/ \E m \in Methods : Reconfigure(m)
             \/ UNCHANGED vars
    BY <2>1, <2>5, OtherKeepsFresh
  <2> QED BY <2>1, <2>2, <2>3, <2>4, <2>5 DEF Next
<1>3. IInv /\ AllFresh => FreshInv
  BY FreshMeans DEF IInv
<1> QED BY <1>1, <1>2, <1>3, TablesAreSound, PTL DEF Spec

\* Whatever a run scores with is of the configured method and younger than the
\* refresh interval, and, unless runs went back in time, agrees with the USD price
\* of the listing and with the evidence now on record, up to what changed undated
\* since: an exchange rate, a price disclosed or restated late, another watch
\* (_valuation_needed and _analyze, with upsert_candidate).
THEOREM ScoresAreCurrentAlways == Spec => []ScoresAreCurrent
<1>1. Init => ScoresAreCurrent
  BY DEF Init, ScoresAreCurrent
<1>2. IInv /\ FreshInv /\ ScoredOnce /\ ScoresAreCurrent /\ [Next]_vars => ScoresAreCurrent'
  BY FreshMeans, CurrentStep DEF IInv
<1> QED BY <1>1, <1>2, TablesAreSound, ReuseIsInformed, PTL DEF Spec
=============================================================================
