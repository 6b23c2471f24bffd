---------------------------- MODULE RedditProofs ----------------------------
(* What RedditClient promises of its budget, of deletions and of a Successful *)
(* run, for any number of posts and any limits, however requests fail.        *)
EXTENDS RedditClient, Extremes

USE ClientAssumption DEF ClientAssumption

(* --------------------------------- Pages --------------------------------- *)

\* A page that has some post holds every newer post before the cursor.
LEMMA PageIsUpper ==
    ASSUME TypeOK, NEW c \in 1..FirstPage, NEW p \in Newest(Older(c)),
           NEW q \in Older(c), p <= q
    PROVE  q \in Newest(Older(c))
<1> DEFINE ps == Older(c)
           Above(x) == {y \in ps : y > x}
<1>1. ps \in SUBSET (1..newest) /\ newest \in Nat
  BY DEF Older, TypeOK
<1>2. IsFiniteSet(Above(p)) /\ IsFiniteSet(Above(q))
  <2>1. IsFiniteSet(1..newest)
    BY <1>1, FS_Interval
  <2>2. Above(p) \in SUBSET (1..newest) /\ Above(q) \in SUBSET (1..newest)
    BY <1>1
  <2> HIDE DEF Above
  <2> QED BY <2>1, <2>2, FS_Subset
<1>3. Above(q) \in SUBSET Above(p)
  <2>1. p \in Nat /\ q \in Nat /\ \A y \in ps : y \in Nat
    BY <1>1 DEF Newest
  <2>2. \A y \in ps : y > q => y > p
    <3> HIDE DEF ps
    <3> QED BY <2>1
  <2> QED BY <2>2
<1>4. Cardinality(Above(q)) <= Cardinality(Above(p))
        /\ Cardinality(Above(p)) \in Nat /\ Cardinality(Above(q)) \in Nat
  <2> HIDE DEF Above
  <2> QED BY <1>2, <1>3, FS_Subset, FS_CardinalityType
<1>5. Cardinality(Above(p)) < PageLimit
  BY DEF Newest
<1>6. Cardinality(Above(q)) < PageLimit
  <2> HIDE DEF Above
  <2> QED BY <1>4, <1>5
<1> QED BY <1>6 DEF Newest

\* A page without a next cursor holds all posts before its own.
LEMMA LastPageIsWhole ==
    ASSUME TypeOK, NEW c \in 1..FirstPage, FirstPage \in NextCursors(c)
    PROVE  Older(c) \subseteq Newest(Older(c))
<1> DEFINE ps == Older(c)
<1>1. ps \in SUBSET (1..newest) /\ newest \in Nat
  BY DEF Older, TypeOK
<1> SUFFICES ASSUME NEW q \in ps, q \notin Newest(ps) PROVE FALSE
  OBVIOUS
<1>2. PICK m \in ps : \A x \in ps : x <= m
  <2>1. ps # {}
    OBVIOUS
  <2> HIDE DEF ps
  <2> QED BY <1>1, <2>1, LargestExists
<1>3. m \in Newest(ps)
  <2>1. \A y \in ps : ~(y > m)
    <3>1. m \in Nat /\ \A y \in ps : y \in Nat
      BY <1>1
    <3> HIDE DEF ps
    <3> QED BY <1>2, <3>1
  <2>2. {y \in ps : y > m} = {}
    BY <2>1
  <2>3. Cardinality({y \in ps : y > m}) = 0
    BY <2>2, FS_EmptySet
  <2> HIDE DEF ps
  <2> QED BY <2>3 DEF Newest
<1>4. PICK k \in Newest(ps) : \A x \in Newest(ps) : k <= x
  <2>1. Newest(ps) \in SUBSET (1..newest) /\ Newest(ps) # {}
    BY <1>1, <1>3 DEF Newest
  <2> HIDE DEF ps
  <2> QED BY <1>1, <2>1, SmallestExists
<1>5. q < k
  <2>1. ~(k <= q)
    BY PageIsUpper
  <2>2. q \in Nat /\ k \in Nat
    BY <1>1 DEF Newest
  <2> HIDE DEF ps
  <2> QED BY <2>1, <2>2
<1>6. newest \in 0..Last /\ Newest(ps) \subseteq 1..newest
  BY DEF Newest, Older, TypeOK
<1>7. FirstPage \notin Newest(ps)
  <2> HIDE DEF ps
  <2> QED BY <1>6 DEF FirstPage
<1> DEFINE last == {p \in Newest(ps) : Older(p) # {} /\ \A x \in Newest(ps) : p <= x}
<1>8. k \in last /\ FirstPage \notin last
  <2>1. q \in Older(k)
    BY <1>5, <1>6 DEF Older
  <2> HIDE DEF ps
  <2> QED BY <1>4, <1>7, <2>1
<1>9. NextCursors(c) = IF last = {} THEN {FirstPage} ELSE last
  BY Zenon DEF NextCursors
<1> HIDE DEF last
<1> QED BY <1>8, <1>9

\* If no post was unreadable, what the window has down to the next cursor, or
\* all of it where discovery ends well, is found or was withheld.
LEMMA PageFindsTheWindow ==
    ASSUME TypeOK, NEW absent \in SUBSET OnPage(after), NEW next \in 1..FirstPage,
           NEW p \in 1..newest, bottom < p, p <= top, p \notin gone \cup Sticky,
           p \in found \/ p < after
    PROVE  LET read == OnPage(after) \ (Sticky \cup absent)
           IN  \/ p \in found \cup InWindow(read)
               \/ p \in Withheld(absent, next)
               \/ ~ReachesCutoff(read) /\ next # FirstPage /\ p < next
<1> DEFINE read == OnPage(after) \ (Sticky \cup absent)
<1>1. SUFFICES ASSUME p < after, p \notin read, p \notin Withheld(absent, next)
               PROVE  ~ReachesCutoff(read) /\ next # FirstPage /\ p < next
  BY DEF InWindow
<1>2. p \in Older(after) /\ p \notin absent
  BY <1>1 DEF Older, Withheld, InWindow
<1>3. after \in 1..FirstPage /\ newest \in 0..Last
  BY DEF TypeOK
<1>4. p \notin Newest(Older(after))
  BY <1>1, <1>2 DEF OnPage
<1>5. ~ReachesCutoff(read)
  <2> SUFFICES ASSUME NEW q \in read, q <= bottom PROVE FALSE
    BY DEF ReachesCutoff
  <2>1. q \in Newest(Older(after))
    BY DEF OnPage
  <2>2. q \in 1..newest /\ bottom \in 0..newest
    BY <2>1 DEF Newest, Older, TypeOK
  <2>3. q <= p
    BY <1>3, <2>2
  <2> QED BY <1>2, <1>3, <1>4, <2>1, <2>3, PageIsUpper
<1>6. next # FirstPage /\ p < next
  <2>1. next # FirstPage /\ ~(next <= p)
    BY <1>1, <1>2, <1>4 DEF Withheld, InWindow
  <2> QED BY <1>3, <2>1 DEF FirstPage
<1> QED BY <1>5, <1>6

\* A server without faults withholds nothing.
LEMMA NothingWithheld ==
    ASSUME TypeOK, NEW next \in NextCursors(after), next \in 1..FirstPage
    PROVE  Withheld({}, next) = {}
<1> SUFFICES ASSUME NEW p \in Older(after) \ Newest(Older(after)),
                    next = FirstPage \/ next <= p
             PROVE  FALSE
  BY DEF Withheld, InWindow
<1>1. after \in 1..FirstPage
  BY DEF TypeOK
<1>2. CASE next = FirstPage
  BY <1>1, <1>2, LastPageIsWhole
<1>3. CASE next # FirstPage
  <2>1. next \in Newest(Older(after))
    BY <1>3 DEF NextCursors
  <2>2. next <= p
    BY <1>3
  <2> QED BY <1>1, <2>1, <2>2, PageIsUpper
<1> QED BY <1>2, <1>3

(* --------------------------------- Steps --------------------------------- *)

LEMMA InitIInv == Init => IInv
<1> SUFFICES ASSUME Init PROVE IInv
  OBVIOUS
<1>1. token \in BOOLEAN /\ ready \in BOOLEAN /\ rejected \in BOOLEAN
  BY Zenon DEF Init
<1>2. /\ newest \in 0..Last /\ gone \subseteq 1..newest
      /\ stored \subseteq 1..newest /\ erased \subseteq 1..newest
      /\ top \in 0..newest /\ bottom \in 0..newest
      /\ sent \in 0..Limit /\ attempt \in 0..Retries
      /\ after \in 1..FirstPage /\ pages \in 0..PageCap
      /\ withheld \subseteq 1..newest
      /\ faults \in 0..MaxFaults
  BY DEF Init, FirstPage
<1>3. TypeOK
  BY <1>1, <1>2, Zenon DEF Init, TypeOK
<1>4. Progress /\ DeletionIsNeverInferred /\ SuccessReadsTheWindow /\ SuccessPurgesDeletions
  BY DEF Init, Progress, DeletionIsNeverInferred, SuccessReadsTheWindow, SuccessPurgesDeletions
<1> QED BY <1>3, <1>4 DEF IInv

\* The server: posts come and go, and nothing else happens.
LEMMA ServerStep ==
    ASSUME IInv, Create \/ \E p \in Posts : Delete(p)
    PROVE  IInv'
<1> USE DEF IInv
<1>1. /\ UNCHANGED <<tables, window, sent, token, ready, attempt, reading, asking,
                     rejected, faults>>
      /\ newest \in 0..Last /\ newest' \in 0..Last /\ newest <= newest'
      /\ gone \subseteq gone' /\ gone' \subseteq 1..newest'
  <2>1. newest \in 0..Last /\ gone \subseteq 1..newest
    BY DEF TypeOK
  <2>2. CASE Create
    <3>1. newest' = newest + 1 /\ newest < Last /\ gone' = gone
      BY <2>2 DEF Create
    <3>2. newest' \in 0..Last /\ newest <= newest' /\ gone' \subseteq 1..newest'
      BY <2>1, <3>1
    <3> QED BY <2>1, <2>2, <3>1, <3>2, Zenon DEF Create
  <2>3. CASE \E p \in Posts : Delete(p)
    <3>1. PICK p \in Posts : Delete(p)
      BY <2>3
    <3>2. p \in 1..newest /\ gone' = gone \cup {p} /\ newest' = newest
      BY <3>1 DEF Delete
    <3> QED BY <2>1, <3>1, <3>2 DEF Delete
  <2> QED BY <2>2, <2>3
<1>2. UNCHANGED <<stored, erased, status, phase, top, bottom, sent, token, ready, attempt,
                  after, pages, seen, found, withheld, left, deleted, due, omitted, rejected,
                  faults>>
  BY <1>1 DEF tables, window, reading, asking
<1>3. /\ stored \subseteq 1..newest' /\ erased \subseteq 1..newest'
      /\ found \subseteq 1..newest' /\ withheld \subseteq 1..newest'
      /\ top \in 0..newest' /\ bottom \in 0..newest'
  BY <1>1 DEF TypeOK
<1>4. TypeOK'
  BY <1>1, <1>2, <1>3, Zenon DEF TypeOK
<1>5. Progress'
  BY <1>1, <1>2 DEF Progress
<1>6. DeletionIsNeverInferred' /\ SuccessReadsTheWindow' /\ SuccessPurgesDeletions'
  BY <1>1, <1>2 DEF DeletionIsNeverInferred, SuccessReadsTheWindow, SuccessPurgesDeletions
<1> QED BY <1>4, <1>5, <1>6

\* Requests that bring no answer leave what is known as it is.
LEMMA RequestStep ==
    ASSUME IInv, Authorize \/ Expire \/ Retry
    PROVE  IInv'
<1> USE DEF IInv
<1>1. UNCHANGED <<newest, gone, stored, erased, status, phase, top, bottom,
                  after, pages, seen, found, withheld, left, deleted, due, omitted, rejected>>
  BY DEF Authorize, Expire, Retry, world, tables, window, reading, asking
<1>2. sent' \in 0..Limit /\ attempt' \in 0..Retries /\ faults' \in 0..MaxFaults
  <2>1. sent \in 0..Limit /\ attempt \in 0..Retries /\ faults \in 0..MaxFaults
    BY DEF TypeOK
  <2> QED BY <2>1 DEF Authorize, Expire, Retry, Sends, Fault
<1>3. token' \in BOOLEAN /\ ready' \in BOOLEAN
  BY Zenon DEF Authorize, Expire, Retry, TypeOK
<1>4. TypeOK'
  BY <1>1, <1>2, <1>3, Zenon DEF TypeOK
<1>5. faults' = 0 => faults = 0
  <2>1. faults \in Nat
    BY DEF TypeOK
  <2> QED BY <2>1 DEF Authorize, Expire, Retry, Fault
<1>6. Progress' /\ DeletionIsNeverInferred' /\ SuccessReadsTheWindow' /\ SuccessPurgesDeletions'
  BY <1>1, <1>5 DEF Progress, DeletionIsNeverInferred, SuccessReadsTheWindow,
                    SuccessPurgesDeletions
<1> QED BY <1>4, <1>6

LEMMA BeginStep ==
    ASSUME IInv, NEW b \in 0..newest, Begin(b)
    PROVE  IInv'
<1> USE DEF IInv
<1>1. /\ phase = "idle" /\ phase' = "discover" /\ top' = newest /\ bottom' = b
      /\ sent' = 0 /\ status' = "Running" /\ due' = {} /\ omitted' = {} /\ withheld' = {}
      /\ UNCHANGED <<newest, gone, stored, erased, token, ready, attempt, after, pages, seen,
                     found, left, deleted, rejected, faults>>
  BY DEF Begin, AtStart, world
<1>2. top' \in 0..newest /\ bottom' \in 0..newest /\ 0 \in 0..Limit
  BY <1>1 DEF TypeOK
<1>3. TypeOK'
  BY <1>1, <1>2, Zenon DEF TypeOK
<1>4. after' = FirstPage /\ newest \in 0..Last
  BY <1>1 DEF Progress, TypeOK
<1>5. \A p \in bottom' + 1..top' : p < after'
  BY <1>1, <1>4 DEF FirstPage
<1>6. Progress'
  BY <1>1, <1>5 DEF Progress
<1>7. DeletionIsNeverInferred' /\ SuccessReadsTheWindow' /\ SuccessPurgesDeletions'
  BY <1>1 DEF DeletionIsNeverInferred, SuccessReadsTheWindow, SuccessPurgesDeletions
<1> QED BY <1>3, <1>6, <1>7

LEMMA CloseTyped ==
    ASSUME TypeOK, Close
    PROVE  /\ phase' = "idle" /\ top' = top /\ bottom' = bottom
           /\ token' \in BOOLEAN /\ ready' \in BOOLEAN /\ rejected' \in BOOLEAN
           /\ attempt' \in 0..Retries
           /\ after' = FirstPage /\ after' \in 1..FirstPage /\ pages' \in 0..PageCap
           /\ seen' = {} /\ found' = {} /\ left' = {} /\ deleted' = {}
<1>1. token' \in BOOLEAN /\ ready' \in BOOLEAN /\ rejected' \in BOOLEAN
  BY Zenon DEF Close
<1>2. attempt' \in 0..Retries /\ after' \in 1..FirstPage /\ pages' \in 0..PageCap
  BY DEF Close, FirstPage
<1> QED BY <1>1, <1>2 DEF Close

LEMMA FailStep ==
    ASSUME IInv, Fail
    PROVE  IInv'
<1> USE DEF IInv
<1>1. /\ UNCHANGED <<newest, gone, stored, erased, withheld, due, omitted>>
      /\ status' = "Failed" /\ Close
  BY DEF Fail, world
<1>2. sent' \in 0..Limit /\ faults' \in 0..MaxFaults
  <2>1. sent \in 0..Limit /\ faults \in 0..MaxFaults
    BY DEF TypeOK
  <2> QED BY <2>1 DEF Fail, Exhausted, Refused, Killed, Fault
<1>3. /\ phase' = "idle" /\ top' = top /\ bottom' = bottom
      /\ token' \in BOOLEAN /\ ready' \in BOOLEAN /\ rejected' \in BOOLEAN
      /\ attempt' \in 0..Retries
      /\ after' = FirstPage /\ after' \in 1..FirstPage /\ pages' \in 0..PageCap
      /\ seen' = {} /\ found' = {} /\ left' = {} /\ deleted' = {}
  BY <1>1, CloseTyped
<1>4. TypeOK'
  BY <1>1, <1>2, <1>3, Zenon DEF TypeOK
<1>5. faults' = 0 => faults = 0
  <2>1. faults \in Nat
    BY DEF TypeOK
  <2> QED BY <2>1 DEF Fail, Exhausted, Refused, Killed, Fault
<1>6. Progress' /\ DeletionIsNeverInferred' /\ SuccessReadsTheWindow' /\ SuccessPurgesDeletions'
  BY <1>1, <1>3, <1>5 DEF Progress, DeletionIsNeverInferred, SuccessReadsTheWindow,
                    SuccessPurgesDeletions
<1> QED BY <1>4, <1>6

LEMMA PageTyped ==
    ASSUME TypeOK, NEW absent \in SUBSET OnPage(after), NEW unread, NEW next
    PROVE  /\ found \cup InWindow(OnPage(after) \ (Sticky \cup absent \cup unread))
                 \in SUBSET (1..newest)
           /\ withheld \cup Withheld(absent, next) \in SUBSET (1..newest)
<1>1. newest \in 0..Last
  BY DEF TypeOK
<1>2. OnPage(after) \subseteq 1..newest
  BY <1>1 DEF OnPage, Newest, Older
<1>3. Withheld(absent, next) \subseteq 1..newest
  BY <1>2 DEF Withheld, Older, InWindow
<1> QED BY <1>1, <1>2, <1>3 DEF InWindow, TypeOK

\* Discovery ends with what it has found: the refresh of all that is stored
\* begins, or there is nothing to refresh.
LEMMA StartRefreshStep ==
    ASSUME IInv, phase = "discover", UNCHANGED world, NEW failed \in BOOLEAN,
           NEW fs \in SUBSET (1..newest), StartRefresh(fs, failed),
           sent' \in 0..Limit, faults' \in 0..MaxFaults,
           withheld' \in SUBSET (1..newest), faults' = 0 => withheld' = {},
           ~failed => \A p \in bottom + 1..top : p \in gone \cup Sticky \cup fs \cup withheld'
    PROVE  IInv'
<1> USE DEF IInv
<1> DEFINE all == stored \cup (fs \ erased)
<1>1. stored' = all /\ newest' = newest /\ gone' = gone
  BY DEF StartRefresh, world
<1>2. all \subseteq 1..newest /\ newest \in 0..Last /\ all \subseteq Posts
  BY DEF TypeOK, Posts
<1>3. \A p \in bottom + 1..top : ~failed => p \in gone \cup Sticky \cup all \cup withheld'
  BY DEF DeletionIsNeverInferred
<1>4. CASE all = {}
  <2>1. /\ Close /\ status' = (IF failed THEN "Partial" ELSE "Successful")
        /\ erased' = erased /\ UNCHANGED <<due, omitted>>
    BY <1>4, Zenon DEF StartRefresh, EndRun
  <2>2. /\ phase' = "idle" /\ top' = top /\ bottom' = bottom
        /\ token' \in BOOLEAN /\ ready' \in BOOLEAN /\ rejected' \in BOOLEAN
        /\ attempt' \in 0..Retries
        /\ after' = FirstPage /\ after' \in 1..FirstPage /\ pages' \in 0..PageCap
        /\ seen' = {} /\ found' = {} /\ left' = {} /\ deleted' = {}
    BY <2>1, CloseTyped
  <2>3. stored' = {} /\ due = {}
    BY <1>1, <1>4 DEF Progress
  <2>4. TypeOK'
    BY <1>1, <2>1, <2>2, <2>3, Zenon DEF TypeOK
  <2>5. Progress' /\ DeletionIsNeverInferred'
    BY <1>1, <2>1, <2>2, <2>3 DEF Progress, DeletionIsNeverInferred
  <2>6. SuccessReadsTheWindow' /\ SuccessPurgesDeletions'
    BY <1>1, <1>3, <1>4, <2>1, <2>2, <2>3 DEF SuccessReadsTheWindow, SuccessPurgesDeletions
  <2> QED BY <2>4, <2>5, <2>6
<1>5. CASE all # {}
  <2>1. /\ phase' = "refresh" /\ left' = all /\ deleted' = {} /\ due' = all \cap gone
        /\ omitted' = omitted /\ rejected' = failed
        /\ after' = FirstPage /\ pages' = 0 /\ seen' = {} /\ found' = {}
        /\ ready' = FALSE /\ attempt' = 0 /\ token' = token
        /\ UNCHANGED <<erased, status, top, bottom>>
    BY <1>5, Zenon DEF StartRefresh, NextCall
  <2>2. after' \in 1..FirstPage /\ 0 \in 0..PageCap /\ 0 \in 0..Retries
    BY <2>1 DEF FirstPage
  <2>3. due' \subseteq Posts /\ stored' \subseteq 1..newest' /\ left' \subseteq Posts
    BY <1>1, <1>2, <2>1
  <2>4. TypeOK'
    BY <1>1, <2>1, <2>2, <2>3, Zenon DEF TypeOK
  <2>5. Progress'
    BY <1>1, <1>3, <2>1 DEF Progress
  <2>6. DeletionIsNeverInferred' /\ SuccessReadsTheWindow' /\ SuccessPurgesDeletions'
    BY <1>1, <2>1 DEF DeletionIsNeverInferred, SuccessReadsTheWindow, SuccessPurgesDeletions
  <2> QED BY <2>4, <2>5, <2>6
<1> QED BY <1>4, <1>5

LEMMA PageStep ==
    ASSUME IInv, phase = "discover", Sends, NEW absent \in SUBSET OnPage(after),
           NEW unread \in SUBSET (OnPage(after) \ absent), NEW next \in 1..FirstPage,
           Answer(absent, unread, next), Page(absent, unread, next)
    PROVE  IInv'
<1> USE DEF IInv
<1> DEFINE read == OnPage(after) \ (Sticky \cup absent \cup unread)
           all == found \cup InWindow(read)
           failed == rejected \/ unread # {}
           tooFar == next \in seen \/ pages + 1 >= PageCap
<1>1. /\ UNCHANGED world
      /\ IF ReachesCutoff(read) \/ next = FirstPage
         THEN StartRefresh(all, failed)
         ELSE IF tooFar
         THEN StartRefresh(all, TRUE)
         ELSE /\ after' = next /\ seen' = seen \cup {next} /\ pages' = pages + 1
              /\ found' = all
              /\ rejected' = failed
              /\ NextCall
              /\ UNCHANGED <<tables, window, asking>>
      /\ withheld' = withheld \cup Withheld(absent, next)
  BY Zenon DEF Page
<1>2. all \in SUBSET (1..newest) /\ withheld' \in SUBSET (1..newest)
  <2>1. withheld' = withheld \cup Withheld(absent, next)
    BY <1>1
  <2> QED BY <2>1, PageTyped
<1>3. sent' \in 0..Limit /\ faults' \in 0..MaxFaults
  <2>1. sent \in 0..Limit /\ faults \in 0..MaxFaults
    BY DEF TypeOK
  <2> QED BY <2>1 DEF Sends, Answer, Fault
<1>4. failed \in BOOLEAN /\ TRUE \in BOOLEAN
  BY Zenon DEF TypeOK
<1>5. ASSUME ~failed, NEW p \in bottom + 1..top, p \notin gone \cup Sticky
      PROVE  \/ p \in all \cup withheld'
             \/ ~ReachesCutoff(read) /\ next # FirstPage /\ p < next
  <2>1. unread = {} /\ ~rejected
    BY <1>5
  <2>2. p \in 1..newest /\ bottom < p /\ p <= top
    BY DEF TypeOK
  <2>3. p \in found \/ p \in withheld \/ p < after
    BY <1>5, <2>1 DEF Progress
  <2>4. withheld' = withheld \cup Withheld(absent, next)
    BY <1>1
  <2>5. read = OnPage(after) \ (Sticky \cup absent)
    BY <2>1
  <2> HIDE DEF read
  <2> QED BY <1>5, <2>2, <2>3, <2>4, <2>5, PageFindsTheWindow
<1>w. faults' = 0 => withheld' = {}
  <2> SUFFICES ASSUME faults' = 0 PROVE withheld' = {}
    OBVIOUS
  <2>1. faults \in Nat
    BY DEF TypeOK
  <2>2. faults = 0 /\ absent = {} /\ next \in NextCursors(after)
    BY <2>1 DEF Answer, Fault
  <2>3. withheld = {}
    BY <2>2 DEF SuccessReadsTheWindow
  <2>4. Withheld({}, next) = {}
    BY <2>2, NothingWithheld
  <2>5. withheld' = withheld \cup Withheld(absent, next)
    BY <1>1
  <2> HIDE DEF read, all, failed
  <2> QED BY <2>2, <2>3, <2>4, <2>5
<1>6. CASE ReachesCutoff(read) \/ next = FirstPage
  <2>1. StartRefresh(all, failed)
    BY <1>1, <1>6
  <2>2. ~failed =>
          \A p \in bottom + 1..top : p \in gone \cup Sticky \cup all \cup withheld'
    BY <1>5, <1>6
  <2> HIDE DEF all, failed
  <2> QED BY <1>1, <1>2, <1>3, <1>4, <1>w, <2>1, <2>2, StartRefreshStep
<1>7. CASE ~(ReachesCutoff(read) \/ next = FirstPage) /\ tooFar
  <2>1. StartRefresh(all, TRUE)
    BY <1>1, <1>7
  <2> HIDE DEF all
  <2> QED BY <1>1, <1>2, <1>3, <1>4, <1>w, <2>1, StartRefreshStep
<1>8. CASE ~(ReachesCutoff(read) \/ next = FirstPage) /\ ~tooFar
  <2>1. /\ after' = next /\ seen' = seen \cup {next} /\ pages' = pages + 1
        /\ found' = all
        /\ rejected' = failed
        /\ ready' = FALSE /\ attempt' = 0 /\ token' = token
        /\ UNCHANGED <<newest, gone, stored, erased, status, phase, top, bottom,
                       left, deleted, due, omitted>>
    <3> HIDE DEF all, failed
    <3> QED BY <1>1, <1>8, Zenon DEF NextCall, world, tables, window, asking
  <2>2. next \in Posts /\ pages + 1 \in 0..PageCap /\ 0 \in 0..Retries
    <3>1. next # FirstPage
      BY <1>8
    <3>2. next \in Posts
      BY <3>1 DEF FirstPage, Posts
    <3>3. pages \in 0..PageCap /\ ~(pages + 1 >= PageCap)
      BY <1>8 DEF TypeOK
    <3> HIDE DEF all, failed, read
    <3> QED BY <3>2, <3>3
  <2>3. seen' \subseteq Posts /\ found' \subseteq 1..newest'
    <3> HIDE DEF all, failed, read
    <3> QED BY <1>2, <2>1, <2>2 DEF TypeOK
  <2>w. withheld' \subseteq 1..newest'
    BY <1>2, <2>1
  <2>4. TypeOK'
    <3> HIDE DEF all, failed, read
    <3> QED BY <2>w, <1>3, <1>4, <2>1, <2>2, <2>3, Zenon DEF TypeOK
  <2>5. ASSUME ~failed, NEW p \in bottom + 1..top, p \notin gone \cup Sticky
        PROVE  p \in found' \cup withheld' \/ p < after'
    <3>1. p \in all \cup withheld' \/ p < next
      BY <1>5, <2>5
    <3> HIDE DEF all, failed, read
    <3> QED BY <2>1, <3>1
  <2>6. Progress'
    <3> HIDE DEF all, failed, read
    <3>1. phase' = "discover" /\ due' = {} /\ due' \subseteq gone'
      BY <2>1 DEF Progress
    <3>2. ~rejected' =>
            \A p \in bottom' + 1..top' :
                p \in gone' \cup Sticky \cup found' \cup withheld' \/ p < after'
      BY <2>1, <2>5
    <3> QED BY <3>1, <3>2 DEF Progress
  <2>7. DeletionIsNeverInferred' /\ SuccessReadsTheWindow' /\ SuccessPurgesDeletions'
    <3> HIDE DEF all, failed, read
    <3> QED BY <1>w, <2>1 DEF DeletionIsNeverInferred, SuccessReadsTheWindow,
                              SuccessPurgesDeletions
  <2> QED BY <2>4, <2>6, <2>7
<1> QED BY <1>6, <1>7, <1>8

LEMMA BatchStep ==
    ASSUME IInv, phase = "refresh", Sends, NEW missing \in SUBSET FirstOf(left),
           NEW unread \in SUBSET FirstOf(left), Batch(missing, unread)
    PROVE  IInv'
<1> USE DEF IInv
<1> DEFINE batch == FirstOf(left)
           failed == rejected \/ unread # {}
           learnt == deleted \cup Reported(batch, missing, unread)
<1>1. /\ missing \cap unread = {}
      /\ IF missing \cup unread = {} THEN UNCHANGED faults ELSE Fault
      /\ IF Remaining(batch) = {}
         THEN /\ EndRun(failed, learnt)
              /\ stored' = stored \ learnt
         ELSE /\ left' = Remaining(batch)
              /\ deleted' = learnt
              /\ rejected' = failed
              /\ NextCall
              /\ UNCHANGED <<tables, window, after, pages, seen, found>>
      /\ omitted' = omitted \cup missing
      /\ UNCHANGED <<newest, gone, withheld, due>>
  BY Zenon DEF Batch, world
<1>2. sent' \in 0..Limit /\ faults' \in 0..MaxFaults
  <2>1. sent \in 0..Limit /\ faults \in 0..MaxFaults
    BY DEF TypeOK
  <2> QED BY <1>1, <2>1 DEF Sends, Fault
<1>w. faults' = 0 => withheld' = {}
  <2>1. faults \in Nat
    BY DEF TypeOK
  <2>2. faults' = 0 => faults = 0
    BY <1>1, <2>1 DEF Fault
  <2> QED BY <1>1, <2>2 DEF SuccessReadsTheWindow
<1>3. failed \in BOOLEAN
  BY Zenon DEF TypeOK
<1>4. batch \subseteq left /\ left \subseteq Posts /\ missing \subseteq batch
  BY DEF FirstOf, TypeOK
<1>5. learnt \subseteq gone /\ gone \subseteq 1..newest /\ gone \subseteq Posts
  <2>1. newest \in 0..Last /\ gone \subseteq 1..newest
    BY DEF TypeOK
  <2>2. gone \subseteq Posts
    BY <2>1 DEF Posts
  <2>3. Reported(batch, missing, unread) \subseteq gone
    BY DEF Reported
  <2>4. deleted \subseteq gone
    BY DEF DeletionIsNeverInferred
  <2> QED BY <2>1, <2>2, <2>3, <2>4
<1>6. omitted' \subseteq Posts
  BY <1>1, <1>4 DEF TypeOK
<1>7. ~failed => due \subseteq Remaining(batch) \cup learnt \cup omitted'
  <2> SUFFICES ASSUME ~failed, NEW p \in due
               PROVE  p \in Remaining(batch) \cup learnt \cup omitted'
    OBVIOUS
  <2>1. p \in gone /\ p \in left \cup deleted \cup omitted
    BY DEF Progress
  <2>2. CASE p \in batch
    BY <1>1, <2>1, <2>2 DEF Reported
  <2> QED BY <1>1, <2>1, <2>2 DEF Remaining
<1>8. CASE Remaining(batch) = {}
  <2>1. /\ Close /\ status' = (IF failed THEN "Partial" ELSE "Successful")
        /\ erased' = erased \cup learnt /\ stored' = stored \ learnt
    BY <1>1, <1>8, Zenon DEF EndRun
  <2>2. /\ phase' = "idle" /\ top' = top /\ bottom' = bottom
        /\ token' \in BOOLEAN /\ ready' \in BOOLEAN /\ rejected' \in BOOLEAN
        /\ attempt' \in 0..Retries
        /\ after' = FirstPage /\ after' \in 1..FirstPage /\ pages' \in 0..PageCap
        /\ seen' = {} /\ found' = {} /\ left' = {} /\ deleted' = {}
    BY <2>1, CloseTyped
  <2>3. erased' \subseteq 1..newest' /\ stored' \subseteq 1..newest'
    BY <1>1, <1>5, <2>1 DEF TypeOK
  <2> HIDE DEF learnt, failed, batch
  <2>4. TypeOK'
    <3>1. status' \in {"none", "Running", "Successful", "Partial", "Failed"}
      BY <2>1
    <3> QED BY <1>1, <1>2, <1>6, <2>2, <2>3, <3>1, Zenon DEF TypeOK
  <2>5. Progress' /\ DeletionIsNeverInferred'
    BY <1>1, <1>5, <2>1, <2>2 DEF Progress, DeletionIsNeverInferred
  <2>6. status' = "Successful" => ~failed
    BY <2>1
  <2>7. SuccessPurgesDeletions'
    BY <1>1, <1>7, <1>8, <2>1, <2>6 DEF SuccessPurgesDeletions
  <2>8. ~failed => \A p \in bottom + 1..top : p \in gone \cup Sticky \cup stored \cup withheld
    BY DEF Progress, failed
  <2>9. SuccessReadsTheWindow'
    BY <1>w, <1>1, <1>5, <2>1, <2>2, <2>6, <2>8 DEF SuccessReadsTheWindow
  <2> QED BY <2>4, <2>5, <2>7, <2>9
<1>9. CASE Remaining(batch) # {}
  <2>1. /\ left' = Remaining(batch) /\ deleted' = learnt /\ rejected' = failed
        /\ ready' = FALSE /\ attempt' = 0 /\ token' = token
        /\ UNCHANGED <<stored, erased, status, phase, top, bottom, after, pages, seen, found>>
    <3> HIDE DEF learnt, failed, batch
    <3> QED BY <1>1, <1>9, Zenon DEF NextCall, tables, window
  <2>2. left' \subseteq Posts /\ deleted' \subseteq Posts /\ 0 \in 0..Retries
    <3>1. Remaining(batch) \subseteq left
      BY DEF Remaining
    <3> HIDE DEF learnt, failed, batch
    <3>2. left' \subseteq Posts
      BY <1>4, <2>1, <3>1
    <3>3. deleted' \subseteq Posts
      BY <1>5, <2>1
    <3> QED BY <3>2, <3>3
  <2> HIDE DEF learnt, failed, batch
  <2>3. TypeOK'
    BY <1>1, <1>2, <1>3, <1>6, <2>1, <2>2, Zenon DEF TypeOK
  <2>4. ~failed => \A p \in bottom + 1..top : p \in gone \cup Sticky \cup stored \cup withheld
    BY DEF Progress, failed
  <2>5. Progress'
    BY <1>1, <1>7, <2>1, <2>4 DEF Progress
  <2>6. DeletionIsNeverInferred' /\ SuccessReadsTheWindow' /\ SuccessPurgesDeletions'
    BY <1>w, <1>1, <1>5, <2>1 DEF DeletionIsNeverInferred, SuccessReadsTheWindow,
                                  SuccessPurgesDeletions
  <2> QED BY <2>3, <2>5, <2>6
<1> QED BY <1>8, <1>9

(* ------------------------------- Theorems -------------------------------- *)

\* The budget, the cursor and the rest of the adapter are sound whatever fails.
THEOREM ClientIsSound == Spec => []IInv
<1>1. IInv /\ [Next]_vars => IInv'
  <2> SUFFICES ASSUME IInv, [Next]_vars PROVE IInv'
    OBVIOUS
  <2>1. ASSUME NEW b \in 0..newest, Begin(b) PROVE IInv'
    BY <2>1, BeginStep
  <2>2. CASE Authorize \/ Expire \/ Retry
    BY <2>2, RequestStep
  <2>3. CASE Fail
    BY <2>3, FailStep
  <2>4. CASE /\ phase = "discover" /\ Sends
             /\ \E absent \in SUBSET OnPage(after) :
                \E unread \in SUBSET (OnPage(after) \ absent), next \in 1..FirstPage :
                   Answer(absent, unread, next) /\ Page(absent, unread, next)
    BY <2>4, PageStep
  <2>5. CASE /\ phase = "refresh" /\ Sends
             /\ \E missing, unread \in SUBSET FirstOf(left) : Batch(missing, unread)
    BY <2>5, BatchStep
  <2>6. CASE Create \/ \E p \in Posts : Delete(p)
    BY <2>6, ServerStep
  <2>7. CASE UNCHANGED vars
    <3>1. UNCHANGED <<newest, gone, stored, erased, status, phase, top, bottom>>
          /\ UNCHANGED <<sent, token, ready, attempt, after, pages, seen, found, withheld,
                         left, deleted, due, omitted, rejected, faults>>
      BY <2>7 DEF vars, world, tables, window, reading, asking
    <3>2. TypeOK'
      BY <3>1, Zenon DEF TypeOK, IInv
    <3>3. Progress' /\ DeletionIsNeverInferred' /\ SuccessReadsTheWindow'
          /\ SuccessPurgesDeletions'
      BY <3>1 DEF IInv, Progress, DeletionIsNeverInferred, SuccessReadsTheWindow,
                  SuccessPurgesDeletions
    <3> QED BY <3>2, <3>3 DEF IInv
  <2> QED BY <2>1, <2>2, <2>3, <2>4, <2>5, <2>6, <2>7 DEF Next, Step
<1> QED BY <1>1, InitIInv, PTL DEF Spec

\* Token, pages, batches and retries together never exceed the budget of a run,
\* and every variable keeps its type (_reserve_http_request).
THEOREM BudgetIsKept == Spec => []TypeOK
<1>1. IInv => TypeOK
  BY DEF IInv
<1> QED BY <1>1, ClientIsSound, PTL

\* Nothing is purged that the server did not report as deleted (refresh).
THEOREM DeletionIsNeverInferredAlways == Spec => []DeletionIsNeverInferred
<1>1. IInv => DeletionIsNeverInferred
  BY DEF IInv
<1> QED BY <1>1, ClientIsSound, PTL

\* A Successful run has stored every post of its window (discover).
THEOREM SuccessReadsTheWindowAlways == Spec => []SuccessReadsTheWindow
<1>1. IInv => SuccessReadsTheWindow
  BY DEF IInv
<1> QED BY <1>1, ClientIsSound, PTL

\* A Successful run has purged every deletion known when its refresh began,
\* for any number of batches.
THEOREM SuccessPurgesDeletionsAlways == Spec => []SuccessPurgesDeletions
<1>1. IInv => SuccessPurgesDeletions
  BY DEF IInv
<1> QED BY <1>1, ClientIsSound, PTL
=============================================================================
