----------------------------- MODULE SunoCorpus -----------------------------
(***************************************************************************)
(* The public corpus: the suno-top daemon walks its lanes one after the    *)
(* other, pass after pass, and the suno-backfill command re-visits a fixed *)
(* list of ids; both write the same Postgres tables.                       *)
(*                                                                         *)
(* The three crawl lanes (creators, tags, playlists) share one shape: a    *)
(* queue row with a cursor, one page a turn, least recently crawled first. *)
(* The counts of a clip are one number, which the floor and the ranking    *)
(* read.  A transaction that locked an existing row is one step; one that  *)
(* found no row holds no lock until it inserts, so it is two.  The service *)
(* is external, and so is the clock: any row may be due for a recheck, and *)
(* MaxEvents times something happens: a clip is published, voted on or     *)
(* trends, something is taken down, a call or a statement fails, a process *)
(* is killed.                                                              *)
(***************************************************************************)
EXTENDS Integers, Sequences, FiniteSets, SequencesExt

CONSTANTS
  Clips, Creators, Tags, Playlists,
  Author,         \* the creator of each clip
  Published,      \* the clips at the start, newest first
  Start,          \* the count of each clip at the start
  Tagged,         \* the clips that carry a tag
  Contents,       \* the clips of a playlist, in order
  Owner,          \* the creator of a playlist
  Editorial,      \* the playlists on the editorial indexes
  Contest,        \* the base clips of the contests
  Cohort,         \* the id list of suno-backfill
  Floor,          \* the upvote floor of both programs
  MaxCount,       \* bound on the counts
  Volatile,       \* the clips whose count changes
  Fragile,        \* the clips and rows that may be taken down
  PageSize,       \* clips on a page
  FirstPage,      \* clips on page 1 of a profile
  SecondPage,     \* where page 2 of a profile starts: the pages may overlap
  PerPass,        \* rows a lane takes in a pass
  GiveUp,         \* consecutive failures after which a row is given up: 5
  SeedTries,      \* failed fetches after which a seed is given up: 3
  MaxEvents       \* bound on the events of the environment

Rows == Creators \cup Tags \cup Playlists

ASSUME CorpusAssumption ==
  /\ IsFiniteSet(Clips) /\ IsFiniteSet(Rows)
  /\ Creators \cap (Tags \cup Playlists) = {} /\ Tags \cap Playlists = {}
  /\ Clips \cap Rows = {} /\ "trending" \notin Clips \cup Rows
  /\ Author \in [Clips -> Creators] /\ Published \in Seq(Clips)
  /\ Tagged \in [Tags -> SUBSET Clips] /\ Contents \in [Playlists -> Seq(Clips)]
  /\ IsInjective(Published) /\ \A p \in Playlists : IsInjective(Contents[p])
  /\ Owner \in [Playlists -> Creators] /\ Editorial \subseteq Playlists
  /\ Contest \subseteq Clips /\ Cohort \in Seq(Clips) /\ IsInjective(Cohort)
  /\ {Floor, PageSize, PerPass, GiveUp, SeedTries} \subseteq Nat \ {0}
  /\ FirstPage \in Nat \ {0} /\ SecondPage \in 1 .. FirstPage
  /\ Volatile \subseteq Clips /\ Fragile \subseteq Clips \cup Rows
  /\ Start \in [Clips -> 0 .. MaxCount] /\ {MaxCount, MaxEvents} \subseteq Nat

VARIABLES
  world,     \* the service: the feed, the count of each clip, what was taken down
  log,       \* suno.clip_sightings, per clip
  corpus,    \* suno.clips: the count on each row, or NoCount
  rows,      \* suno.creators, suno.tags and suno.playlists
  fresh,     \* the rows never crawled, in the order of discovery
  crawled,   \* the others, least recently crawled first
  seeds,     \* suno.fetch_queue
  seen,      \* suno.backfill_seen
  top,       \* where the daemon is
  bf,        \* where the backfill command is
  owed,      \* history: the clips each row was queued with that still qualify
  slipped,   \* history: those that moved from behind the row's cursor to before it
  events     \* how many events have happened

db == <<log, corpus, rows, fresh, crawled, seeds, seen>>
vars == <<world, db, top, bf, owed, slipped, events>>

NoCount == -1
NoRow == [queued |-> FALSE, next |-> 0, indexed |-> 0, failures |-> 0, done |-> FALSE]
NoSeed == [queued |-> FALSE, attempts |-> 0, done |-> FALSE]
Lanes == <<"editorial", "harvest", "recheck", "creator", "tag", "playlist", "seed">>
Down == [pc |-> "down", lane |-> 0, batch |-> <<>>, todo |-> {}, now |-> {}, got |-> 0,
         len |-> 0, total |-> 0, max |-> 0]
Asleep == [Down EXCEPT !.pc = "sleep", !.lane = 1]
BfDown == [pc |-> "down", i |-> 1, known |-> {}, count |-> 0]

Row == [queued : BOOLEAN, next : Nat, indexed : Nat, failures : Nat, done : BOOLEAN]

TypeOK ==
  /\ world.feed \in Seq(Clips) /\ world.count \in [Clips -> 0 .. MaxCount]
  /\ world.gone \subseteq Clips \cup Rows
  /\ log \in [Clips -> Seq([source : {"top", "backfill"}, count : 0 .. MaxCount])]
  /\ corpus \in [Clips -> {NoCount} \cup 0 .. MaxCount]
  /\ rows \in [Rows -> Row] /\ fresh \in Seq(Rows) /\ crawled \in Seq(Rows)
  /\ seeds \in [Clips -> [queued : BOOLEAN, attempts : 0 .. SeedTries, done : BOOLEAN]]
  /\ seen \subseteq Clips
  /\ top.pc \in {"down", "sleep", "pick", "fetch", "store", "insert"}
  /\ top.lane \in 0 .. Len(Lanes)
  /\ bf.pc \in {"down", "next", "store"} /\ bf.known \subseteq Clips
  /\ {owed, slipped} \subseteq [Rows -> SUBSET Clips]
  /\ events \in 0 .. MaxEvents

Init ==
  /\ world = [feed |-> Published, count |-> Start, gone |-> {}]
  /\ log = [c \in Clips |-> <<>>] /\ corpus = [c \in Clips |-> NoCount]
  /\ seen = {}
  /\ rows = [r \in Rows |-> NoRow] /\ fresh = <<>> /\ crawled = <<>>
  /\ seeds = [c \in Clips |-> NoSeed]
  /\ top = Down /\ bf = BfDown
  /\ owed = [r \in Rows |-> {}] /\ slipped = [r \in Rows |-> {}]
  /\ events = 0

Lane == Lanes[top.lane]
Qualifies(n) == n >= Floor            \* meetsThreshold
Event == events < MaxEvents /\ events' = events + 1

----------------------------------------------------------------------------
(* The service *)

\* What a profile, a tag or a playlist lists.  A playlist keeps an entry for a
\* clip that was taken down, without the clip.
Listed(r) ==
  {c \in Clips : IF r \in Playlists THEN c \in Range(Contents[r])
                 ELSE c \in Range(world.feed) \ world.gone
                      /\ (IF r \in Tags THEN c \in Tagged[r] ELSE Author[c] = r)}

\* A profile lists its clips newest first, a tag by upvotes, a playlist in
\* its own order; where c comes before d in the world w.
Earlier(s, c, d) == \E i, j \in DOMAIN s : i < j /\ s[i] = c /\ s[j] = d
Precedes(w, r, c, d) ==
  IF r \in Playlists THEN Earlier(Contents[r], c, d)
  ELSE IF r \in Tags /\ w.count[c] # w.count[d] THEN w.count[c] > w.count[d]
  ELSE Earlier(w.feed, c, d)
Place(r, c) == Cardinality({d \in Listed(r) : Precedes(world, r, d, c)})

\* A tag counts its from_index in clips, the others count pages from 1; page 1
\* of a profile is longer than the next ones.
Size(r) == IF r \in Creators /\ rows[r].next = 1 THEN FirstPage ELSE PageSize
From(r) ==
  IF r \in Tags THEN rows[r].next
  ELSE IF r \in Playlists THEN (rows[r].next - 1) * PageSize
  ELSE IF rows[r].next = 1 THEN 0 ELSE SecondPage + (rows[r].next - 2) * PageSize
Until(r) == From(r) + Size(r)
Page(r) == {c \in Listed(r) : Place(r, c) \in From(r) .. Until(r) - 1}

\* What row r will walk lies behind its cursor, and behind the page in hand.
InHand(r) == top.pc \in {"store", "insert"} /\ Head(top.batch) = r
Ends(r) == {From(r)} \cup (IF InHand(r) THEN {Until(r)} ELSE {})

\* Listings shrink and are ranked anew under the cursor: the walk passes a clip
\* it had before it.
Slip ==
  slipped' = [r \in Rows |-> slipped[r] \cup
    {c \in owed[r] : \E end \in Ends(r) : end <= Place(r, c) /\ Place(r, c)' < end}]

Publish(c) ==
  /\ c \notin Range(world.feed) /\ Event
  /\ world' = [world EXCEPT !.feed = <<c>> \o @]
  /\ UNCHANGED <<db, top, bf, owed, slipped>>

\* A clip is taken down: profiles and tags close up over it, and nobody owes it.
\* A profile or a playlist is taken down: its page is an error.
TakeDown(x) ==
  /\ x \notin world.gone /\ Event
  /\ world' = [world EXCEPT !.gone = @ \cup {x}]
  /\ owed' = [r \in Rows |-> owed[r] \ {x}]
  /\ Slip
  /\ UNCHANGED <<db, top, bf>>

\* Counts go up and down: a tag is ranked anew, and nobody owes a clip that fell
\* below the floor.
Vote(c, n) ==
  /\ Event /\ n # world.count[c]
  /\ world' = [world EXCEPT !.count[c] = n]
  /\ owed' = [r \in Rows |-> {d \in owed[r] : Qualifies(world'.count[d])}]
  /\ Slip
  /\ UNCHANGED <<db, top, bf>>

----------------------------------------------------------------------------
(* The tables *)

New(R) == {r \in R : ~rows[r].queued}

Queued(R) ==
  [r \in Rows |-> IF r \in New(R)
     THEN [NoRow EXCEPT !.queued = TRUE, !.next = IF r \in Tags THEN 0 ELSE 1]
     ELSE rows[r]]

Owed(R) ==
  [r \in Rows |-> IF r \in New(R)
     THEN {c \in Listed(r) \ world.gone : Qualifies(world.count[c])}
     ELSE owed[r]]

\* creatorEnsure, tagEnsure and playlistEnsure: a row that exists keeps its
\* cursor and its place.
Ensure(R) ==
  /\ rows' = Queued(R)
  /\ fresh' = fresh \o SetToSeq(New(R))
  /\ owed' = Owed(R)

\* Mutant: only the first sighting of a clip is recorded.
ShouldRecordFirst(c, n) == corpus[c] = NoCount \/ Lane = "harvest"

\* storeClip: "recheck sightings are recorded only when a count changed".
ShouldRecord(c, n) == Lane = "harvest" \/ corpus[c] = NoCount \/ corpus[c] # n

Sight(c, source, n) == log' = [log EXCEPT ![c] = Append(@, [source |-> source, count |-> n])]

----------------------------------------------------------------------------
(* The daemon *)

\* pruneBelowThreshold: the floor is enforced on the rows that are there.
Kept == {c \in Clips : Qualifies(corpus[c])}

\* seedCreators: the authors of the rows.
Known == {Author[c] : c \in Kept}

\* seedTags: the sitemap arrives, or it does not.
Sitemap(tags) == \/ tags = Tags /\ UNCHANGED events
                 \/ tags = {} /\ Event

\* main: prune (sightings cascade), seed creators, seed tags.
Boot ==
  /\ top.pc = "down"
  /\ top' = Asleep
  /\ corpus' = [c \in Clips |-> IF c \in Kept THEN corpus[c] ELSE NoCount]
  /\ log' = [c \in Clips |-> IF c \in Kept THEN log[c] ELSE <<>>]
  /\ \E tags \in {{}, Tags} : Sitemap(tags) /\ Ensure(Known \cup tags)
  /\ UNCHANGED <<world, crawled, seeds, seen, bf, slipped>>

\* The lane is over.
NextLane == top' = IF top.lane = Len(Lanes) THEN Asleep
                   ELSE [Down EXCEPT !.pc = "pick", !.lane = top.lane + 1]

\* The next row of the batch, or the next lane.
NextItem == IF Len(top.batch) <= 1 THEN NextLane
            ELSE top' = [Down EXCEPT !.pc = "fetch", !.lane = top.lane,
                                     !.batch = Tail(top.batch)]

\* ORDER BY and LIMIT: PerPass elements of S, or all of them, those that come
\* before others first.
FirstOf(S, Before(_, _)) ==
  LET n == IF PerPass < Cardinality(S) THEN PerPass ELSE Cardinality(S) IN
  {b \in [1 .. n -> S] :
     /\ IsInjective(b)
     /\ \A i \in 1 .. n, x \in S : Before(x, b[i]) => \E j \in 1 .. i - 1 : b[j] = x}

\* The clips that are due, the most played first.
PickRechecks(due) == FirstOf(due, LAMBDA c, d : corpus[c] > corpus[d])

\* The rows of R that are not done, least recently crawled first.
Waiting(R) ==
  FirstOf({r \in R : rows[r].queued /\ ~rows[r].done},
          LAMBDA r, q : Earlier(fresh \o crawled, r, q))

PickCreators == Waiting(Creators)
PickTags == Waiting(Tags)
PickPlaylists == Waiting(Playlists)

\* The seeds that are not done, least attempted first.
PickSeeds == FirstOf({c \in Clips : seeds[c].queued /\ ~seeds[c].done},
                     LAMBDA c, d : seeds[c].attempts < seeds[d].attempts)

\* What the lane may pick; any clips of the corpus may be due.
Batches ==
  CASE Lane = "harvest" -> {<<"trending">>}
    [] Lane = "recheck" ->
         UNION {PickRechecks(due) : due \in SUBSET {c \in Clips : corpus[c] # NoCount}}
    [] Lane = "creator" -> PickCreators
    [] Lane = "tag" -> PickTags
    [] Lane = "playlist" -> PickPlaylists
    [] Lane = "seed" -> PickSeeds

Pick ==
  /\ top.pc = "pick"
  /\ \E batch \in Batches :
       IF batch = <<>> THEN NextLane
       ELSE top' = [top EXCEPT !.pc = "fetch", !.batch = batch]
  /\ UNCHANGED <<world, db, bf, owed, slipped, events>>

\* seedEnsure, for the base clips of the contests.
SeedEnsure == seeds' = [c \in Clips |-> [seeds[c] EXCEPT !.queued = @ \/ c \in Contest]]

\* The ticker starts a pass.  editorialPass does nothing before its interval
\* has elapsed, or when every index fails; the contests fail on their own.
EditorialPass ==
  /\ top.pc = "sleep"
  /\ NextLane
  /\ \/ UNCHANGED <<rows, fresh, seeds, owed, events>>
     \/ /\ Ensure(Editorial)
        /\ \/ Event /\ UNCHANGED seeds
           \/ SeedEnsure /\ UNCHANGED events
  /\ UNCHANGED <<world, log, corpus, crawled, seen, bf, slipped>>

Item == Head(top.batch)
Counted(c) == [clip |-> c, count |-> world.count[c]]
Winners(page) == {x \in {Counted(c) : c \in page \ world.gone} : Qualifies(x.count)}

\* A page arrives: its winners, with the counts they have now, are stored in
\* the order of the page; here in any order.
Fetched(page, total) ==
  top' = [top EXCEPT !.pc = "store", !.todo = Winners(page), !.got = 0,
                     !.len = Cardinality(page), !.total = total,
                     !.max = IF total = 0 \/ page = {} THEN 0
                             ELSE CHOOSE n \in 0 .. MaxCount :
                                    /\ \E c \in page : world.count[c] = n
                                    /\ \A c \in page : world.count[c] <= n]

Fetch ==
  /\ top.pc = "fetch" /\ Item \notin world.gone
  /\ CASE Lane = "harvest" ->
            \/ NextLane /\ UNCHANGED events
            \/ Event /\ \E c \in Range(world.feed) \ world.gone : Fetched({c}, 0)
       [] Item \in Clips -> Fetched({Item}, 0) /\ UNCHANGED events
       [] OTHER -> Fetched(Page(Item), Cardinality(Listed(Item))) /\ UNCHANGED events
  /\ UNCHANGED <<world, db, bf, owed, slipped>>

Without(s, r) == SelectSeq(s, LAMBDA x : x # r)

\* last_crawled_at = now(): row r goes to the back of its queue.
Touch(r, R) ==
  /\ fresh' = Without(fresh, r) \o SetToSeq(New(R))
  /\ crawled' = IF rows'[r].done THEN Without(crawled, r) ELSE Append(Without(crawled, r), r)

\* Mutant: failures are not counted, so a row that keeps failing is retried for ever.
FailedNever(r) == rows[r]

\* A row that fails again and again is given up.
Failed(r) == [rows[r] EXCEPT !.failures = @ + 1, !.done = rows[r].failures + 1 >= GiveUp]

\* A seed gets fewer attempts.
SeedFailed(c) ==
  LET n == seeds[c].attempts + 1 IN
  [seeds EXCEPT ![c] = [@ EXCEPT !.attempts = n, !.done = n >= SeedTries]]

FetchFails ==
  /\ top.pc = "fetch"
  /\ IF Item \in world.gone THEN UNCHANGED events ELSE Event
  /\ NextItem
  /\ IF Item \in Rows
     THEN /\ rows' = [rows EXCEPT ![Item] = Failed(Item)]
          /\ Touch(Item, {})
          /\ owed' = [owed EXCEPT ![Item] = IF rows'[Item].done THEN {} ELSE @]
     ELSE UNCHANGED <<rows, fresh, crawled, owed>>
  /\ seeds' = IF Lane = "seed" THEN SeedFailed(Item) ELSE seeds
  /\ UNCHANGED <<world, log, corpus, seen, bf, slipped>>

\* storeClip commits: the upsert, the creator's row, perhaps a sighting.
Commit(x, record) ==
  /\ corpus' = [corpus EXCEPT ![x.clip] = x.count]
  /\ IF record THEN Sight(x.clip, "top", x.count) ELSE UNCHANGED log
  /\ Ensure({Author[x.clip]})
  /\ top' = [top EXCEPT !.pc = "store", !.todo = @ \ {x}, !.now = {}, !.got = @ + 1]
  /\ UNCHANGED <<world, crawled, seeds, seen, bf, events, slipped>>

\* SELECT ... FOR UPDATE finds the row, and holds it until the commit.
StoreKnown ==
  /\ top.pc = "store"
  /\ \E x \in top.todo :
       corpus[x.clip] # NoCount /\ Commit(x, ShouldRecord(x.clip, x.count))

\* It finds none, and locks nothing.
SelectNone ==
  /\ top.pc = "store"
  /\ \E x \in top.todo :
       corpus[x.clip] = NoCount /\ top' = [top EXCEPT !.pc = "insert", !.now = {x}]
  /\ UNCHANGED <<world, db, bf, owed, slipped, events>>

Insert == top.pc = "insert" /\ \E x \in top.now : Commit(x, TRUE)

\* A failed transaction skips the clip, and only the clip.
StoreFails ==
  /\ top.pc = "store" /\ Event
  /\ \E x \in top.todo :
       /\ top' = [top EXCEPT !.todo = @ \ {x}]
       /\ owed' = [r \in Rows |-> owed[r] \ {x.clip}]
  /\ UNCHANGED <<world, db, bf, slipped>>

\* Mutant: the next page starts one clip late.
TagPageAdvanceLate(from) ==
  LET next == from + top.len + 1 IN
  [next |-> next, done |-> top.len = 0 \/ next >= top.total \/ top.max < Floor]

\* tagPageAdvance: ranked by upvotes, a page below the floor is the last.
TagPageAdvance(from) ==
  LET next == from + top.len IN
  [next |-> next, done |-> top.len = 0 \/ next >= top.total \/ top.max < Floor]

\* A profile is finished when it is empty, or all it counts was stored.
CreatorWalked(old) ==
  LET indexed == old.indexed + top.got IN
  [old EXCEPT !.next = @ + 1, !.indexed = indexed, !.failures = 0,
              !.done = top.len = 0 \/ (top.total > 0 /\ indexed >= top.total)]

TagWalked(old) ==
  LET step == TagPageAdvance(old.next) IN
  [old EXCEPT !.next = step.next, !.done = step.done, !.failures = 0]

\* A playlist is finished by an empty page, or by one that is all of it.
PlaylistWalked(old) ==
  [old EXCEPT !.next = @ + 1, !.indexed = @ + top.got, !.failures = 0,
              !.done = top.len = 0 \/ (top.total > 0 /\ top.len >= top.total)]

\* What a walked page makes of its row.
Walked(r) == CASE r \in Creators -> CreatorWalked(rows[r])
               [] r \in Tags -> TagWalked(rows[r])
               [] r \in Playlists -> PlaylistWalked(rows[r])

\* A profile's playlists and a playlist's owner are queued.
Edges(r) == IF r \in Creators THEN {p \in Playlists : Owner[p] = r}
            ELSE IF r \in Playlists THEN {Owner[r]} ELSE {}

\* The page is stored; the cursor moves, unless its update fails.
Advance ==
  LET R == Edges(Item) IN
  /\ top.pc = "store" /\ top.todo = {} /\ Item \in Rows
  /\ NextItem
  /\ \/ Event /\ Ensure(R) /\ UNCHANGED crawled
     \/ /\ rows' = [Queued(R) EXCEPT ![Item] = Walked(Item)]
        /\ Touch(Item, R)
        /\ owed' = Owed(R)
        /\ UNCHANGED events
  /\ UNCHANGED <<world, log, corpus, seeds, seen, bf, slipped>>

\* A seed is done once it was fetched, stored or not, unless that update fails.
ItemDone ==
  /\ top.pc = "store" /\ top.todo = {} /\ Item \notin Rows
  /\ NextItem
  /\ \/ /\ seeds' = IF Lane = "seed" THEN [seeds EXCEPT ![Item].done = TRUE] ELSE seeds
        /\ UNCHANGED events
     \/ Lane = "seed" /\ Event /\ UNCHANGED seeds
  /\ UNCHANGED <<world, log, corpus, rows, fresh, crawled, seen, bf, owed, slipped>>

\* The pass runs out of time: its calls and statements all fail from here.
PassTimeout ==
  /\ top.pc \notin {"down", "sleep"} /\ Event
  /\ top' = Asleep
  /\ UNCHANGED <<world, db, bf, owed, slipped>>

Crash ==
  /\ top.pc # "down" /\ Event
  /\ top' = Down
  /\ UNCHANGED <<world, db, bf, owed, slipped>>

TopStep ==
  \/ Boot \/ EditorialPass \/ Pick \/ Fetch \/ FetchFails \/ StoreKnown
  \/ SelectNone \/ Insert \/ StoreFails \/ Advance \/ ItemDone

----------------------------------------------------------------------------
(* suno-backfill, a command that is run, stopped and run again *)

\* The loop goes on to the first id of the list from i on that the preload
\* (loadDone) did not name, and ends when there is none.
Onward(i, known) ==
  LET left == {j \in i .. Len(Cohort) : Cohort[j] \notin known} IN
  \/ left = {} /\ bf' = BfDown
  \/ \E j \in left :
       /\ \A k \in left : j <= k
       /\ bf' = [pc |-> "next", i |-> j, known |-> known, count |-> 0]

BfStart ==
  /\ bf.pc = "down" /\ Onward(1, seen)
  /\ UNCHANGED <<world, db, top, owed, slipped, events>>

\* fetchClip: a 404 is an answer.
Found(c) == c \notin world.gone

Winner(c) == Found(c) /\ Qualifies(world.count[c])

\* A call or storeSeen fails and the id is left for the next run, or the id
\* is gone or below the floor and not visited again, or it is a winner.
BfFetch ==
  /\ bf.pc = "next"
  /\ LET c == Cohort[bf.i] IN
     \/ Event /\ Onward(bf.i + 1, bf.known) /\ UNCHANGED seen
     \/ ~Winner(c) /\ seen' = seen \cup {c} /\ Onward(bf.i + 1, bf.known) /\ UNCHANGED events
     \/ /\ Winner(c) /\ bf' = [bf EXCEPT !.pc = "store", !.count = world.count[c]]
        /\ UNCHANGED <<seen, events>>
  /\ UNCHANGED <<world, log, corpus, rows, fresh, crawled, seeds, top, owed, slipped>>

\* storeWinner: row, sighting and bookkeeping in one transaction.
StoreWinner ==
  /\ bf.pc = "store" /\ Onward(bf.i + 1, bf.known)
  /\ LET c == Cohort[bf.i] IN
     \/ /\ corpus' = [corpus EXCEPT ![c] = bf.count]
        /\ Sight(c, "backfill", bf.count)
        /\ seen' = seen \cup {c}
        /\ UNCHANGED events
     \/ Event /\ UNCHANGED <<corpus, log, seen>>
  /\ UNCHANGED <<world, rows, fresh, crawled, seeds, top, owed, slipped>>

\* The limit is reached, or the command is killed.
BfStop ==
  /\ bf.pc # "down" /\ Event
  /\ bf' = BfDown
  /\ UNCHANGED <<world, db, top, owed, slipped>>

Next ==
  \/ \E c \in Clips : Publish(c)
  \/ \E x \in Fragile : TakeDown(x)
  \/ \E c \in Volatile, n \in 0 .. MaxCount : Vote(c, n)
  \/ TopStep \/ PassTimeout \/ Crash
  \/ BfStart \/ BfFetch \/ StoreWinner \/ BfStop

\* The daemon is restarted and its ticker keeps firing.
Spec == Init /\ [][Next]_vars /\ WF_vars(TopStep)

----------------------------------------------------------------------------
(* Properties *)

\* The tables implement the abstract history: whatever daemon, backfill,
\* failed statements, killed runs and the prune at a restart do, the sightings
\* are only appended to, the last one always equals the count on the row
\* (storeClip drops no change), only winners enter, and a cohort id is
\* sighted once however often suno-backfill is re-run.
History == INSTANCE SunoHistory WITH Counts <- 0 .. MaxCount
HistoryImplemented == History!HSpec

\* The clips a row owes that its walk did not pass by, and that are not stored.
Missing(r) == {c \in owed[r] \ slipped[r] : corpus[c] = NoCount}

\* The clips of page 1 that page 2 of a profile holds again.
Overlap(r) == IF r \in Creators THEN FirstPage - SecondPage ELSE 0

\* A row the daemon calls done was walked: every clip that was on its listing
\* when it was queued, is still public and has met the floor since, is in
\* suno.clips, unless the row was given up or a store failed, but for two kinds.
\* The cursor is persisted between pages and holds no clip: a clip slips under
\* it when one before it is taken down or, on a tag, a vote ranks it higher.
\* And a profile is finished by its count (clips_indexed against
\* num_total_clips), which counts twice what two pages hold: it may miss as many
\* clips as page 2 repeats, none when the pages tile.  New clips shift the pages
\* the other way; crashes and timeouts leave pages half stored.
DoneMeansCovered == \A r \in Rows : rows[r].done => Cardinality(Missing(r)) <= Overlap(r)

\* What the service module says of the crawl, that it "paginates a creator's whole
\* catalogue" (modules/services/suno-top.nix:22-23): without the exceptions above it
\* does not hold of a listing that shrinks.
CatalogueWhole == \A r \in Rows : rows[r].done => \A c \in owed[r] : corpus[c] # NoCount

\* Every queued creator, tag and playlist is walked to its end or given up,
\* also one the service no longer knows: no row holds a lane for ever.
QueuesDrain == \A r \in Rows : rows[r].queued ~> rows[r].done
=============================================================================
