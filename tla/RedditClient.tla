---------------------------- MODULE RedditClient ----------------------------
(* The Reddit adapter of a daily run (sources/reddit.py): discovery pages    *)
(* through the newest posts to a cutoff, refresh asks for all stored posts   *)
(* in batches and learns which were deleted, and both share a token, a       *)
(* bounded number of retries and one budget of HTTP requests.  A step is an  *)
(* exchange with the server, up to the next one.                             *)
(*                                                                           *)
(* Posts are numbered as they are created; a time is the number of the last  *)
(* post created by then.  Every post offers something.  Left out: the pauses *)
(* between requests, the missing approval that refuses a run at once, posts  *)
(* approved again after a deletion (ListingHistory has them), and what the   *)
(* text of a post says.                                                      *)
EXTENDS Naturals, FiniteSets

CONSTANTS
    Last,       \* bound: posts ever created
    Sticky,     \* posts that moderators keep on the first page
    PageLimit,  \* page_limit
    PageCap,    \* pages read in a discovery, 1000
    BatchSize,  \* posts asked for in one request, 100
    Limit,      \* max_requests_per_run
    Retries,    \* max_retries
    MaxFaults   \* bound: failures of network, server, token or process

ASSUME ClientAssumption ==
    /\ Last \in Nat
    /\ Sticky \subseteq 1..Last
    /\ PageLimit \in Nat \ {0} /\ PageCap \in Nat \ {0} /\ BatchSize \in Nat \ {0}
    /\ Limit \in Nat \ {0}
    /\ Retries \in Nat
    /\ MaxFaults \in Nat

VARIABLES
    newest,   \* the last post created
    gone,     \* posts deleted or removed at the source
    stored,   \* posts with listings that are not tombstones
    erased,   \* posts purged as deleted
    status,   \* of the last run of the source
    phase,    \* "idle", "discover" or "refresh"
    top,      \* end and start of the window of the run
    bottom,
    sent,     \* _http_requests_attempted
    token,    \* a token is held that has not expired
    ready,    \* the request at hand has its token
    attempt,  \* retries of the request at hand
    after,    \* cursor of the next page
    pages,    \* pages read
    seen,     \* cursors seen
    found,    \* posts discovered
    left,     \* posts yet to be asked for
    deleted,  \* posts reported as deleted
    rejected, \* a failure of a record was recorded
    withheld, \* posts of the window the server left out or passed over
    due,      \* stored posts that were gone when the refresh began
    omitted,  \* posts asked for that the server did not return
    faults

world == <<newest, gone>>
tables == <<stored, erased, status>>
window == <<phase, top, bottom>>
reading == <<after, pages, seen, found, withheld>>
asking == <<left, deleted, due, omitted>>
vars == <<world, tables, window, sent, token, ready, attempt, reading, asking,
          rejected, faults>>

Posts == 1..Last
FirstPage == Last + 1

Init ==
    /\ newest = 0 /\ gone = {}
    /\ stored = {} /\ erased = {} /\ status = "none"
    /\ phase = "idle" /\ top = 0 /\ bottom = 0
    /\ sent = 0 /\ token = FALSE /\ ready = FALSE /\ attempt = 0
    /\ after = FirstPage /\ pages = 0 /\ seen = {} /\ found = {} /\ withheld = {}
    /\ left = {} /\ deleted = {} /\ due = {} /\ omitted = {}
    /\ rejected = FALSE
    /\ faults = 0

(* ------------------------------- The server ------------------------------ *)

Create ==
    /\ newest < Last
    /\ newest' = newest + 1
    /\ UNCHANGED <<gone, tables, window, sent, token, ready, attempt, reading, asking,
                   rejected, faults>>

Delete(p) ==
    /\ p \in 1..newest \ gone
    /\ gone' = gone \cup {p}
    /\ UNCHANGED <<newest, tables, window, sent, token, ready, attempt, reading, asking,
                   rejected, faults>>

\* A page should hold the newest posts before the cursor, and the first one the
\* stickied posts besides.  The next cursor should be the oldest of them, while
\* there are older ones, and is missing after the last page.
Older(c) == {p \in 1..newest \ gone : p < c}
Newest(ps) == {p \in ps : Cardinality({q \in ps : q > p}) < PageLimit}
OnPage(c) ==
    Newest(Older(c)) \cup (IF c = FirstPage THEN Sticky \cap (1..newest \ gone) ELSE {})
NextCursors(c) ==
    LET last == {p \in Newest(Older(c)) : /\ Older(p) # {}
                                          /\ \A q \in Newest(Older(c)) : p <= q}
    IN  IF last = {} THEN {FirstPage} ELSE last

(* -------------------------------- Requests ------------------------------- *)

Fault == faults < MaxFaults /\ faults' = faults + 1
Active == phase # "idle"

\* _http_requests_attempted of the adapter made for a run.
BugAtStart == sent
AtStart == 0

BugSends == /\ ready /\ (attempt = 0 => sent < Limit) /\ sent' = sent + 1
\* _reserve_http_request for an attempt of _get.
Sends == /\ ready /\ sent < Limit /\ sent' = sent + 1

\* A run for the window from the post after b up to now.
Begin(b) ==
    /\ phase = "idle"
    /\ phase' = "discover" /\ top' = newest /\ bottom' = b
    /\ sent' = AtStart
    /\ status' = "Running"
    /\ withheld' = {} /\ due' = {} /\ omitted' = {}
    /\ UNCHANGED <<world, stored, erased, token, ready, attempt, after, pages, seen, found,
                   left, deleted, rejected, faults>>

\* _access_token
Authorize ==
    /\ Active /\ ~ready
    /\ \/ token /\ UNCHANGED <<sent, token>>
       \/ ~token /\ sent < Limit /\ sent' = sent + 1 /\ token' = TRUE
    /\ ready' = TRUE
    /\ UNCHANGED <<world, tables, window, attempt, reading, asking, rejected, faults>>

Expire ==
    /\ Active /\ ~ready /\ token
    /\ Fault
    /\ token' = FALSE
    /\ UNCHANGED <<world, tables, window, sent, ready, attempt, reading, asking, rejected>>

\* The server is busy (429 or 5xx) and the request is repeated.
Retry ==
    /\ Active /\ Sends
    /\ Fault
    /\ attempt < Retries
    /\ attempt' = attempt + 1
    /\ UNCHANGED <<world, tables, window, token, ready, reading, asking, rejected>>

\* A run leaves its adapter behind.
Close ==
    /\ phase' = "idle" /\ UNCHANGED <<top, bottom>>
    /\ token' = FALSE /\ ready' = FALSE /\ attempt' = 0
    /\ after' = FirstPage /\ pages' = 0 /\ seen' = {} /\ found' = {}
    /\ left' = {} /\ deleted' = {}
    /\ rejected' = FALSE

\* _get or _access_token raises and the source has Failed: what discovery found,
\* or refresh learnt, is lost.  A killed process leaves no more.
Exhausted == sent >= Limit /\ (ready \/ ~token) /\ UNCHANGED <<sent, faults>>
Refused == Fault /\ sent < Limit /\ (ready \/ ~token) /\ sent' = sent + 1
Killed == Fault /\ UNCHANGED sent
Fail ==
    /\ Active
    /\ Exhausted \/ Refused \/ Killed
    /\ Close
    /\ status' = "Failed"
    /\ UNCHANGED <<world, stored, erased, withheld, due, omitted>>

(* ------------------------------- Discovery ------------------------------- *)

\* The next request begins with its token.
NextCall == ready' = FALSE /\ attempt' = 0 /\ UNCHANGED token

\* The records stored become tombstones if reported deleted.
EndRun(failed, purged) ==
    /\ Close
    /\ status' = IF failed THEN "Partial" ELSE "Successful"
    /\ erased' = erased \cup purged

BugReachesCutoff(ps) == \E p \in ps \cup (OnPage(after) \cap Sticky) : p <= bottom
\* Posts kept on the first page do not end discovery, however old.
ReachesCutoff(ps) == \E p \in ps : p <= bottom
InWindow(ps) == {p \in ps : bottom < p /\ p <= top}

\* discover returned fs: they are stored, and all that is stored is refreshed.
StartRefresh(fs, failed) ==
    LET all == stored \cup (fs \ erased) IN
    /\ stored' = all
    /\ IF all = {}
       THEN /\ EndRun(failed, {})
            /\ UNCHANGED <<due, omitted>>
       ELSE /\ phase' = "refresh"
            /\ left' = all /\ deleted' = {} /\ due' = all \cap gone /\ UNCHANGED omitted
            /\ rejected' = failed
            /\ after' = FirstPage /\ pages' = 0 /\ seen' = {} /\ found' = {}
            /\ NextCall
            /\ UNCHANGED <<erased, status, top, bottom>>

\* The posts of the window that an answer without the posts absent, and with the
\* cursor next or none (FirstPage), keeps from the client.
Withheld(absent, next) ==
    InWindow(absent \cup {p \in Older(after) \ Newest(Older(after)) :
                             next = FirstPage \/ next <= p}) \ Sticky

\* The answer to a page: its posts, of which some are absent and some cannot be
\* read, and the next cursor.  Discovery ends well where there is none, be it
\* that the answer is empty; a repeated cursor or too many pages are recorded
\* as a failure.
Page(absent, unread, next) ==
    LET read == OnPage(after) \ (Sticky \cup absent \cup unread)
        all == found \cup InWindow(read)
        failed == rejected \/ unread # {}
        tooFar == next \in seen \/ pages + 1 >= PageCap
    IN  /\ IF ReachesCutoff(read) \/ next = FirstPage
           THEN StartRefresh(all, failed)
           ELSE IF tooFar
           THEN StartRefresh(all, TRUE)
           ELSE /\ after' = next /\ seen' = seen \cup {next} /\ pages' = pages + 1
                /\ found' = all
                /\ rejected' = failed
                /\ NextCall
                /\ UNCHANGED <<tables, window, asking>>
        /\ withheld' = withheld \cup Withheld(absent, next)
        /\ UNCHANGED world

\* What the server may answer: an absent or unreadable post and any other cursor
\* than the next one, or none, are faults.
Answer(absent, unread, next) ==
    IF absent \cup unread = {} /\ next \in NextCursors(after)
    THEN UNCHANGED faults ELSE Fault

(* -------------------------------- Refresh -------------------------------- *)

FirstOf(ps) == {p \in ps : Cardinality({q \in ps : q < p}) < BatchSize}

BugReported(batch, missing, unread) == (batch \cap gone) \cup missing
\* Only a post that is returned, readable and marked removed counts as deleted.
Reported(batch, missing, unread) == (batch \cap gone) \ (missing \cup unread)

BugRemaining(batch) ==
    IF Cardinality(left \ batch) < BatchSize THEN {} ELSE left \ batch
\* The batches go on to the last one, which may be short.
Remaining(batch) == left \ batch

\* The answer to a batch, without some of its posts; purges follow the last.
Batch(missing, unread) ==
    LET batch == FirstOf(left)
        failed == rejected \/ unread # {}
        learnt == deleted \cup Reported(batch, missing, unread)
    IN  /\ missing \cap unread = {}
        /\ IF missing \cup unread = {} THEN UNCHANGED faults ELSE Fault
        /\ IF Remaining(batch) = {}
           THEN /\ EndRun(failed, learnt)
                /\ stored' = stored \ learnt
           ELSE /\ left' = Remaining(batch)
                /\ deleted' = learnt
                /\ rejected' = failed
                /\ NextCall
                /\ UNCHANGED <<tables, window, after, pages, seen, found>>
        /\ omitted' = omitted \cup missing
        /\ UNCHANGED <<world, withheld, due>>

Step ==
    \/ \E b \in 0..newest : Begin(b)
    \/ Authorize
    \/ Retry
    \/ Fail
    \/ /\ phase = "discover" /\ Sends
       /\ \E absent \in SUBSET OnPage(after) :
          \E unread \in SUBSET (OnPage(after) \ absent), next \in 1..FirstPage :
             Answer(absent, unread, next) /\ Page(absent, unread, next)
    \/ /\ phase = "refresh" /\ Sends
       /\ \E missing, unread \in SUBSET FirstOf(left) : Batch(missing, unread)
Next == Step \/ Create \/ Expire \/ \E p \in Posts : Delete(p)

Spec == Init /\ [][Next]_vars
\* The scheduler runs the source every day and a run does not sit still.
FairSpec == Spec /\ WF_vars(Step)

(* ------------------------------ Properties ------------------------------- *)

TypeOK ==
    /\ newest \in 0..Last /\ gone \subseteq 1..newest
    /\ stored \subseteq 1..newest /\ erased \subseteq 1..newest
    /\ status \in {"none", "Running", "Successful", "Partial", "Failed"}
    /\ phase \in {"idle", "discover", "refresh"}
    /\ top \in 0..newest /\ bottom \in 0..newest
    /\ sent \in 0..Limit
    /\ token \in BOOLEAN /\ ready \in BOOLEAN /\ attempt \in 0..Retries
    /\ after \in 1..FirstPage /\ pages \in 0..PageCap
    /\ seen \subseteq Posts /\ found \subseteq 1..newest /\ withheld \subseteq 1..newest
    /\ left \subseteq Posts /\ deleted \subseteq Posts
    /\ due \subseteq Posts /\ omitted \subseteq Posts
    /\ rejected \in BOOLEAN
    /\ faults \in 0..MaxFaults

\* A post is purged only if the server said that it is gone: neither a post
\* missing from an answer nor a failed request is taken for a deletion
\* (README.md: an omitted ID is not treated as proof of deletion).
DeletionIsNeverInferred == erased \cup deleted \subseteq gone

\* A Successful run has read all of its window that it was shown: every post of
\* it that was never deleted and is not stickied is stored, unless the server
\* left it out of its page or passed over it with a wrong or missing cursor,
\* which the client cannot tell from the end; and a server without faults does
\* neither, whatever is created or deleted while the pages are read
\* (docs/architecture.md: paginates the new feed to the exact cutoff).
SuccessReadsTheWindow ==
    /\ phase = "idle" /\ status = "Successful" =>
          \A p \in bottom + 1..top : p \in gone \cup Sticky \cup stored \cup withheld
    /\ faults = 0 => withheld = {}

\* A Successful run has purged every post that was gone when its refresh began
\* and that the server did not omit, in whichever batch it was.
SuccessPurgesDeletions ==
    phase = "idle" /\ status = "Successful" => due \subseteq erased \cup omitted

\* The inductive invariant: what discovery has found reaches down to its cursor,
\* what refresh has not learnt is still to be asked for.
Progress ==
    /\ due \subseteq gone
    /\ IF phase = "discover" THEN due = {} ELSE after = FirstPage
    /\ phase = "discover" /\ ~rejected =>
          \A p \in bottom + 1..top :
              p \in gone \cup Sticky \cup found \cup withheld \/ p < after
    /\ phase = "refresh" /\ ~rejected =>
          /\ \A p \in bottom + 1..top : p \in gone \cup Sticky \cup stored \cup withheld
          /\ due \subseteq left \cup deleted \cup omitted
IInv ==
    /\ TypeOK /\ Progress
    /\ DeletionIsNeverInferred /\ SuccessReadsTheWindow /\ SuccessPurgesDeletions

\* What a run without faults may need: a token, its pages and its batches.
Ceil(n, d) == (n + d - 1) \div d
PagesNeeded == IF Last < PageCap * PageLimit THEN Ceil(Last + 1, PageLimit) ELSE PageCap
Fits == 1 + PagesNeeded + Ceil(Last, BatchSize) <= Limit

\* A stored post that is deleted at the source is purged in the end, although
\* runs fail, are killed or exhaust their budget, if a run without faults can
\* stay within the budget (listings_for_refresh selects all stored posts).
DeletionIsPurged ==
    Fits => \A p \in Posts : p \in gone \cap stored ~> p \in erased
=============================================================================
