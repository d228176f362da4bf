----------------------------- MODULE SunoProofs -----------------------------
(***************************************************************************)
(* The two Suno programs, for any clips, pages, failures and crashes.      *)
(*                                                                         *)
(* suno-top and suno-backfill: the tables they share implement the abstract *)
(* history.  The invariant adds why a cohort id is sighted once: the loop of *)
(* suno-backfill moves forward in a list without repetitions, and what it is *)
(* at is not in suno.backfill_seen yet.                                    *)
(*                                                                         *)
(* A row that is done was walked: a listing is an order without ties, so its *)
(* clips have the places 0, 1, 2, ...; what a row owes and misses is never *)
(* before its cursor, and while a page is stored it is on it or behind it, *)
(* within the total; a profile's count exceeds what is before its cursor by *)
(* no more than its pages overlap.  What a take-down or a vote moves before *)
(* the cursor has slipped, and is the only thing excused.                  *)
(*                                                                         *)
(* suno-backup: whatever the index on disk or in memory names has its master *)
(* on disk.  The invariant says where that is decided: a worker that reached *)
(* the cover has seen the master under its final name, and masters stay.   *)
(***************************************************************************)
EXTENDS SunoCorpus, SunoBackup, FiniteSetTheorems, SequenceTheorems, TLAPS

----------------------------------------------------------------------------
(* The corpus and its history *)

Counts == 0 .. MaxCount
Winning == {x \in [clip : Clips, count : Counts] : Qualifies(x.count)}

Sighting == [source : {"top", "backfill"}, count : Counts]

\* The tables: a row shows a count that qualifies, what has no row has no
\* sightings, and a cohort id that was sighted is in suno.backfill_seen.
TablesTyped ==
  /\ world \in [feed : Seq(Clips), count : [Clips -> Counts], gone : SUBSET (Clips \cup Rows)]
  /\ corpus \in [Clips -> {NoCount} \cup Counts]
  /\ log \in [Clips -> Seq(Sighting)]
  /\ seen \subseteq Clips
RowsQualify == \A c \in Clips : corpus[c] = NoCount \/ Qualifies(corpus[c])
NoRowNoLog == \A c \in Clips : corpus[c] = NoCount => log[c] = <<>>
SightedSeen == \A c \in Clips : History!InCohort(c) => c \in seen

\* What the daemon is storing won when it was fetched.
TopHolds ==
  /\ {"pc", "todo", "now", "got"} \subseteq DOMAIN top
  /\ top.todo \subseteq Winning /\ top.now \subseteq Winning

\* Since it was started the backfill command has recorded ids before its own.
Backfill == [pc : {"down", "next", "store"}, i : Nat, known : SUBSET Clips, count : Counts \cup {0}]
BfHolds ==
  /\ bf \in Backfill
  /\ bf.pc # "down" =>
       /\ bf.i \in DOMAIN Cohort /\ Cohort[bf.i] \notin bf.known
       /\ \A c \in seen \ bf.known : \E j \in DOMAIN Cohort : j < bf.i /\ Cohort[j] = c
  /\ bf.pc = "store" => bf.count \in Counts /\ Qualifies(bf.count)

CorpusInv ==
  /\ TablesTyped /\ RowsQualify /\ NoRowNoLog /\ SightedSeen /\ TopHolds /\ BfHolds

LEMMA CorpusBounds ==
  /\ Floor \in Nat \ {0} /\ MaxCount \in Nat /\ Start \in [Clips -> Counts]
     /\ ~Qualifies(NoCount)
  /\ Cohort \in Seq(Clips) /\ DOMAIN Cohort = 1 .. Len(Cohort) /\ Len(Cohort) \in Nat
  /\ \A i, j \in DOMAIN Cohort : Cohort[i] = Cohort[j] => i = j
  /\ \A i \in DOMAIN Cohort : Cohort[i] \in Clips
  /\ NoCount \notin Counts /\ Counts \subseteq Nat /\ History!NoCount = NoCount
<1>1. Floor \in Nat \ {0} /\ MaxCount \in Nat /\ Start \in [Clips -> 0 .. MaxCount]
      /\ Cohort \in Seq(Clips)
      /\ IsInjective(Cohort)
  BY CorpusAssumption
<1>2. DOMAIN Cohort = 1 .. Len(Cohort) /\ Len(Cohort) \in Nat
      /\ \A i \in DOMAIN Cohort : Cohort[i] \in Clips
  BY <1>1
<1>3. ~Qualifies(NoCount) /\ NoCount \notin Counts /\ Counts \subseteq Nat
      /\ History!NoCount = NoCount
  BY <1>1 DEF Qualifies, NoCount, Counts, History!NoCount
<1> QED BY <1>1, <1>2, <1>3 DEF IsInjective, Counts

\* Where Onward leads.
LEMMA OnwardLeads ==
  ASSUME NEW i \in Nat \ {0}, NEW known \in SUBSET Clips, Onward(i, known)
  PROVE  \/ bf' = BfDown
         \/ /\ bf'.pc = "next" /\ bf' \in Backfill /\ bf'.known = known
            /\ bf'.i \in DOMAIN Cohort /\ i <= bf'.i /\ Cohort[bf'.i] \notin known
            /\ \A j \in DOMAIN Cohort : i <= j /\ j < bf'.i => Cohort[j] \in known
<1> DEFINE left == {j \in i .. Len(Cohort) : Cohort[j] \notin known}
<1>1. CASE left = {} /\ bf' = BfDown
  BY <1>1
<1>2. CASE \E n \in left :
              /\ \A k \in left : n <= k
              /\ bf' = [pc |-> "next", i |-> n, known |-> known, count |-> 0]
  <2>1. PICK n \in left : /\ \A k \in left : n <= k
                          /\ bf' = [pc |-> "next", i |-> n, known |-> known, count |-> 0]
    BY <1>2
  <2>2. n \in DOMAIN Cohort /\ n \in Nat /\ i <= n /\ Cohort[n] \notin known
    BY CorpusBounds
  <2>3. \A j \in DOMAIN Cohort : i <= j /\ j < n => Cohort[j] \in known
    BY <2>1, <2>2, CorpusBounds
  <2> QED BY <2>1, <2>2, <2>3 DEF Backfill
<1> QED BY <1>1, <1>2 DEF Onward

\* A finished run, or one that goes on to its next id.
LEMMA BfDownHolds ==
  ASSUME bf' = BfDown PROVE BfHolds'
BY DEF BfDown, BfHolds, Backfill

\* The run leaves id bf.i, recorded or not.
LEMMA OnwardHolds ==
  ASSUME BfHolds, seen \subseteq Clips, bf.pc # "down", Onward(bf.i + 1, bf.known),
         seen' = seen \/ seen' = seen \cup {Cohort[bf.i]}
  PROVE  BfHolds'
<1>1. bf \in Backfill /\ bf.i \in DOMAIN Cohort /\ bf.i \in Nat
      /\ \A c \in seen \ bf.known : \E j \in DOMAIN Cohort : j < bf.i /\ Cohort[j] = c
  BY DEF BfHolds, Backfill
<1>2. CASE bf' = BfDown
  BY <1>2, BfDownHolds
<1>3. CASE /\ bf'.pc = "next" /\ bf' \in Backfill /\ bf'.known = bf.known
           /\ bf'.i \in DOMAIN Cohort /\ bf.i + 1 <= bf'.i /\ Cohort[bf'.i] \notin bf.known
  <2>1. \A c \in seen' \ bf'.known : \E j \in DOMAIN Cohort : j < bf'.i /\ Cohort[j] = c
    <3> SUFFICES ASSUME NEW c \in seen' \ bf'.known
                 PROVE  \E j \in DOMAIN Cohort : j < bf'.i /\ Cohort[j] = c
      OBVIOUS
    <3>1. bf'.i \in Nat
      BY <1>3, CorpusBounds
    <3>2. CASE c \in seen
      <4>1. PICK j \in DOMAIN Cohort : j < bf.i /\ Cohort[j] = c
        BY <1>1, <1>3, <3>2
      <4>2. j \in Nat /\ j < bf'.i
        BY <1>1, <1>3, <3>1, <4>1, CorpusBounds
      <4> QED BY <4>1, <4>2
    <3>3. CASE c = Cohort[bf.i]
      <4>1. bf.i < bf'.i
        BY <1>1, <1>3, <3>1
      <4> QED BY <1>1, <3>3, <4>1
    <3> QED BY <3>2, <3>3
  <2> QED BY <1>3, <2>1 DEF BfHolds
<1>4. bf.i + 1 \in Nat \ {0} /\ bf.known \in SUBSET Clips
  BY <1>1 DEF Backfill
<1> QED BY <1>2, <1>3, <1>4, OnwardLeads

\* The id it is at has not been recorded yet.
LEMMA IdNotSeen ==
  ASSUME BfHolds, bf.pc # "down"
  PROVE  Cohort[bf.i] \notin seen /\ Cohort[bf.i] \in Clips
<1>1. bf.i \in DOMAIN Cohort /\ bf.i \in Nat /\ Cohort[bf.i] \notin bf.known
      /\ \A c \in seen \ bf.known : \E j \in DOMAIN Cohort : j < bf.i /\ Cohort[j] = c
  BY DEF BfHolds, Backfill
<1>2. \A j \in DOMAIN Cohort : j < bf.i => Cohort[j] # Cohort[bf.i]
  BY <1>1, CorpusBounds
<1> QED BY <1>1, <1>2, CorpusBounds

----------------------------------------------------------------------------
(* Steps *)

TablesHold == TablesTyped /\ RowsQualify /\ NoRowNoLog /\ SightedSeen
Stutters == History!HNext \/ UNCHANGED <<log, corpus>>

\* A sighting of a count that qualifies.
LEMMA Sighted ==
  ASSUME TablesHold, NEW c \in Clips, NEW n \in Counts, Qualifies(n),
         NEW source \in {"top", "backfill"}, Sight(c, source, n),
         corpus' = [corpus EXCEPT ![c] = n], UNCHANGED world,
         \/ source = "top" /\ UNCHANGED seen
         \/ source = "backfill" /\ c \notin seen /\ seen' = seen \cup {c}
  PROVE  TablesHold' /\ History!HNext
<1> DEFINE x == [source |-> source, count |-> n]
<1>1. x \in Sighting /\ x.source = source
  BY DEF Sighting
<1>2. /\ log \in [Clips -> Seq(Sighting)] /\ corpus \in [Clips -> {NoCount} \cup Counts]
      /\ seen \subseteq Clips
  BY DEF TablesHold, TablesTyped
<1>3. log' = [log EXCEPT ![c] = Append(log[c], x)]
  BY DEF Sight
<1> HIDE DEF x
<1>4. log' \in [Clips -> Seq(Sighting)]
  BY <1>1, <1>2, <1>3
<1>5. /\ \A d \in Clips \ {c} : log'[d] = log[d]
      /\ log'[c] = Append(log[c], x)
  BY <1>2, <1>3
<1>6. \A d \in Clips : History!InCohort(d)' => History!InCohort(d)
      \/ (d = c /\ source = "backfill")
  <2> SUFFICES ASSUME NEW d \in Clips, History!InCohort(d)'
               PROVE  History!InCohort(d) \/ (d = c /\ source = "backfill")
    OBVIOUS
  <2>1. CASE d # c
    BY <1>5, <2>1 DEF History!InCohort
  <2>2. CASE d = c
    <3>1. PICK i \in DOMAIN log'[c] : log'[c][i].source = "backfill"
      BY <2>2 DEF History!InCohort
    <3>2. log[c] \in Seq(Sighting)
      BY <1>2
    <3>3. i \in 1 .. Len(log[c]) + 1 /\ (i = Len(log[c]) + 1 => log'[c][i] = x)
          /\ (i # Len(log[c]) + 1 => i \in DOMAIN log[c] /\ log'[c][i] = log[c][i])
      BY <1>1, <1>5, <3>1, <3>2, AppendProperties
    <3> QED BY <1>1, <2>2, <3>1, <3>3 DEF History!InCohort
  <2> QED BY <2>1, <2>2
<1>7. TablesTyped'
  BY <1>2, <1>4 DEF TablesHold, TablesTyped
<1>8. RowsQualify'
  BY <1>2 DEF TablesHold, RowsQualify
<1>9. NoRowNoLog'
  BY <1>2, <1>5, CorpusBounds DEF TablesHold, NoRowNoLog
<1>10. SightedSeen'
  BY <1>6 DEF TablesHold, SightedSeen
<1>11. source = "backfill" => ~History!InCohort(c)
  BY DEF TablesHold, SightedSeen
<1>12. History!Observe(c, source, n)
  BY <1>3, <1>11 DEF History!Observe, Qualifies, x
<1> QED BY <1>7, <1>8, <1>9, <1>10, <1>12 DEF TablesHold, History!HNext, Counts

\* Steps that touch no table of the history.
LEMMA TablesStay ==
  ASSUME TablesHold, UNCHANGED <<log, corpus>>, seen' \in SUBSET Clips, seen \subseteq seen',
         world' \in [feed : Seq(Clips), count : [Clips -> Counts], gone : SUBSET (Clips \cup Rows)]
  PROVE  TablesHold' /\ Stutters
<1>1. TablesTyped'
  BY DEF TablesHold, TablesTyped
<1>2. RowsQualify' /\ NoRowNoLog' /\ SightedSeen'
  BY DEF TablesHold, RowsQualify, NoRowNoLog, SightedSeen, History!InCohort
<1> QED BY <1>1, <1>2 DEF TablesHold, Stutters

\* The command, or the daemon, does not move.
LEMMA BfStays == BfHolds /\ UNCHANGED <<bf, seen>> => BfHolds'
BY DEF BfHolds

LEMMA TopStays == TopHolds /\ UNCHANGED top => TopHolds'
BY DEF TopHolds

\* The lane or the batch goes on, or the daemon sleeps or dies: nothing in hand.
LEMMA HandsEmpty ==
  ASSUME top' = Down \/ top' = Asleep \/ NextLane \/ NextItem
  PROVE  TopHolds'
<1>1. /\ Down.todo = {} /\ Down.now = {} /\ {"pc", "todo", "now", "got"} \subseteq DOMAIN Down
      /\ Asleep.todo = {} /\ Asleep.now = {} /\ DOMAIN Asleep = DOMAIN Down
  BY DEF Down, Asleep
<1>2. \A lane : LET t == [Down EXCEPT !.pc = "pick", !.lane = lane] IN
        t.todo = Down.todo /\ t.now = Down.now /\ DOMAIN t = DOMAIN Down
  BY DEF Down
<1>3. \A lane, batch : LET t == [Down EXCEPT !.pc = "fetch", !.lane = lane, !.batch = batch] IN
        t.todo = Down.todo /\ t.now = Down.now /\ DOMAIN t = DOMAIN Down
  BY DEF Down
<1>4. top'.todo = {} /\ top'.now = {} /\ DOMAIN top' = DOMAIN Down
  BY <1>1, <1>2, <1>3 DEF NextLane, NextItem
<1> QED BY <1>1, <1>4 DEF TopHolds

\* A step of the daemon that stores nothing.
LEMMA NothingStored ==
  ASSUME CorpusInv, TopHolds', UNCHANGED <<world, log, corpus, seen, bf>>
  PROVE  CorpusInv' /\ Stutters
<1>1. TablesHold /\ BfHolds
  BY DEF CorpusInv, TablesHold
<1>2. TablesHold' /\ Stutters
  BY <1>1, TablesStay DEF TablesHold, TablesTyped
<1> QED BY <1>1, <1>2, BfStays DEF CorpusInv, TablesHold

\* The page's winners won.
LEMMA FetchedWins ==
  ASSUME CorpusInv, NEW page \in SUBSET Clips, NEW total, Fetched(page, total)
  PROVE  TopHolds'
<1>1. \A c \in page : Counted(c) \in [clip : Clips, count : Counts]
  BY DEF Counted, CorpusInv, TablesTyped
<1>2. Winners(page) \subseteq Winning
  BY <1>1 DEF Winners, Winning
<1>3. top'.todo = Winners(page) /\ top'.now = top.now /\ DOMAIN top' = DOMAIN top
  BY DEF Fetched, CorpusInv, TopHolds
<1> QED BY <1>2, <1>3 DEF CorpusInv, TopHolds

LEMMA FetchKeeps == CorpusInv /\ Fetch => CorpusInv' /\ Stutters
<1> SUFFICES ASSUME CorpusInv, Fetch PROVE CorpusInv' /\ Stutters
  OBVIOUS
<1>1. Page(Item) \in SUBSET Clips
  BY DEF Page, Listed
<1>2. TopHolds'
  <2>1. CASE NextLane
    BY <2>1, HandsEmpty
  <2>2. CASE \E c \in Range(world.feed) : Fetched({c}, 0)
    <3>1. \A c \in Range(world.feed) : c \in Clips
      BY DEF CorpusInv, TablesTyped, Range
    <3> QED BY <2>2, <3>1, FetchedWins
  <2>3. CASE Item \in Clips /\ Fetched({Item}, 0)
    BY <2>3, FetchedWins
  <2>4. CASE Fetched(Page(Item), Cardinality(Listed(Item)))
    BY <1>1, <2>4, FetchedWins
  <2> QED BY <2>1, <2>2, <2>3, <2>4 DEF Fetch
<1> QED BY <1>2, NothingStored DEF Fetch, db

LEMMA StoreFailsKeeps == CorpusInv /\ (StoreFails \/ SelectNone) => CorpusInv' /\ Stutters
<1> SUFFICES ASSUME CorpusInv, StoreFails \/ SelectNone PROVE CorpusInv' /\ Stutters
  OBVIOUS
<1>1. PICK x \in top.todo : \/ top' = [top EXCEPT !.todo = @ \ {x}]
                            \/ top' = [top EXCEPT !.pc = "insert", !.now = {x}]
  BY DEF StoreFails, SelectNone
<1>2. TopHolds'
  BY <1>1 DEF CorpusInv, TopHolds
<1> QED BY <1>2, NothingStored DEF StoreFails, SelectNone, db

\* The steps that go on to the next item, lane or pass.
LEMMA MovesOnKeep ==
  CorpusInv /\ (Pick \/ EditorialPass \/ FetchFails \/ Advance \/ ItemDone \/ PassTimeout \/ Crash)
    => CorpusInv' /\ Stutters
<1> SUFFICES ASSUME CorpusInv,
                    Pick \/ EditorialPass \/ FetchFails \/ Advance \/ ItemDone
                    \/ PassTimeout \/ Crash
             PROVE  CorpusInv' /\ Stutters
  OBVIOUS
<1>1. CASE Pick
  <2>1. TopHolds'
    <3>1. CASE NextLane
      BY <3>1, HandsEmpty
    <3>2. CASE \E batch : top' = [top EXCEPT !.pc = "fetch", !.batch = batch]
      BY <3>2 DEF CorpusInv, TopHolds
    <3> QED BY <1>1, <3>1, <3>2 DEF Pick
  <2> QED BY <1>1, <2>1, NothingStored DEF Pick, db
<1>2. CASE EditorialPass \/ FetchFails \/ Advance \/ ItemDone \/ PassTimeout \/ Crash
  <2>1. TopHolds'
    BY <1>2, HandsEmpty DEF EditorialPass, FetchFails, Advance, ItemDone, PassTimeout, Crash
  <2> QED BY <1>2, <2>1, NothingStored DEF EditorialPass, FetchFails, Advance, ItemDone,
                                           PassTimeout, Crash, db
<1> QED BY <1>1, <1>2

\* storeClip: an observation, or a row that shows the same count already.
LEMMA CommitKeeps ==
  ASSUME CorpusInv, NEW x \in Winning, NEW record \in BOOLEAN, Commit(x, record),
         record \/ corpus[x.clip] = x.count
  PROVE  CorpusInv' /\ Stutters
<1>1. TablesHold /\ BfHolds /\ TopHolds /\ x.clip \in Clips /\ x.count \in Counts
      /\ Qualifies(x.count)
  BY DEF CorpusInv, TablesHold, Winning
<1>2. UNCHANGED <<world, seen, bf>> /\ corpus' = [corpus EXCEPT ![x.clip] = x.count]
  BY DEF Commit
<1>3. TopHolds'
  BY <1>1 DEF Commit, TopHolds
<1>4. CASE record
  <2>1. Sight(x.clip, "top", x.count)
    BY <1>4 DEF Commit
  <2>2. TablesHold' /\ History!HNext
    BY <1>1, <1>2, <2>1, Sighted
  <2> QED BY <1>1, <1>2, <1>3, <2>2, BfStays DEF CorpusInv, TablesHold, Stutters
<1>5. CASE ~record
  <2>1. UNCHANGED <<log, corpus>>
    BY <1>1, <1>2, <1>5 DEF Commit, TablesHold, TablesTyped
  <2> QED BY <1>2, <1>3, <2>1, NothingStored
<1> QED BY <1>4, <1>5

LEMMA StoreKeeps == CorpusInv /\ (StoreKnown \/ Insert) => CorpusInv' /\ Stutters
<1>1. ASSUME CorpusInv, StoreKnown PROVE CorpusInv' /\ Stutters
  <2>1. PICK x \in top.todo : corpus[x.clip] # NoCount
        /\ Commit(x, ShouldRecord(x.clip, x.count))
    BY <1>1 DEF StoreKnown
  <2>2. x \in Winning
    BY <1>1 DEF CorpusInv, TopHolds
  <2>3. ShouldRecord(x.clip, x.count) \in BOOLEAN
        /\ (ShouldRecord(x.clip, x.count) \/ corpus[x.clip] = x.count)
    BY DEF ShouldRecord
  <2> QED BY <1>1, <2>1, <2>2, <2>3, CommitKeeps
<1>2. ASSUME CorpusInv, Insert PROVE CorpusInv' /\ Stutters
  <2>1. PICK x \in top.now : Commit(x, TRUE)
    BY <1>2 DEF Insert
  <2> QED BY <1>2, <2>1, CommitKeeps DEF CorpusInv, TopHolds
<1> QED BY <1>1, <1>2

\* The prune at boot finds nothing: every row qualifies already.
LEMMA BootKeeps == CorpusInv /\ Boot => CorpusInv' /\ Stutters
<1> SUFFICES ASSUME CorpusInv, Boot PROVE CorpusInv' /\ Stutters
  OBVIOUS
<1>1. \A c \in Clips : c \in Kept \/ (corpus[c] = NoCount /\ log[c] = <<>>)
  BY DEF CorpusInv, RowsQualify, NoRowNoLog, Kept
<1>2. /\ corpus' = [c \in Clips |-> IF c \in Kept THEN corpus[c] ELSE NoCount]
      /\ log' = [c \in Clips |-> IF c \in Kept THEN log[c] ELSE <<>>]
  BY DEF Boot
<1>3. UNCHANGED <<log, corpus>>
  BY <1>1, <1>2 DEF CorpusInv, TablesTyped
<1>4. TopHolds'
  BY HandsEmpty DEF Boot
<1> QED BY <1>3, <1>4, NothingStored DEF Boot

LEMMA WorldKeeps ==
  CorpusInv /\ ((\E c \in Clips : Publish(c)) \/ (\E x \in Fragile : TakeDown(x))
                \/ \E c \in Volatile, n \in 0 .. MaxCount : Vote(c, n))
    => CorpusInv' /\ Stutters
<1> SUFFICES ASSUME CorpusInv,
                    \/ \E c \in Clips : Publish(c)
                    \/ \E x \in Fragile : TakeDown(x)
                    \/ \E c \in Volatile, n \in 0 .. MaxCount : Vote(c, n)
             PROVE  CorpusInv' /\ Stutters
  OBVIOUS
<1> DEFINE World == [feed : Seq(Clips), count : [Clips -> Counts], gone : SUBSET (Clips \cup Rows)]
<1>1. world \in World /\ Fragile \subseteq Clips \cup Rows /\ Volatile \subseteq Clips
  BY CorpusAssumption DEF CorpusInv, TablesTyped
<1>2. UNCHANGED <<db, top, bf>>
  BY DEF Publish, TakeDown, Vote
<1>3. world' \in World
  <2>1. ASSUME NEW c \in Clips, Publish(c) PROVE world' \in World
    <3>1. <<c>> \o world.feed \in Seq(Clips)
      BY <1>1
    <3> QED BY <1>1, <2>1, <3>1 DEF Publish
  <2>2. ASSUME NEW x \in Fragile, TakeDown(x) PROVE world' \in World
    BY <1>1, <2>2 DEF TakeDown
  <2>3. ASSUME NEW c \in Volatile, NEW n \in 0 .. MaxCount, Vote(c, n) PROVE world' \in World
    <3>1. world' = [world EXCEPT !.count = [world.count EXCEPT ![c] = n]]
      BY <1>1, <2>3 DEF Vote
    <3>2. [world.count EXCEPT ![c] = n] \in [Clips -> Counts]
      BY <1>1 DEF Counts
    <3> QED BY <1>1, <3>1, <3>2
  <2> QED BY <2>1, <2>2, <2>3
<1>4. TablesHold' /\ Stutters
  <2>1. TablesHold /\ UNCHANGED <<log, corpus, seen>> /\ seen \subseteq Clips
    BY <1>2 DEF CorpusInv, TablesHold, TablesTyped, db
  <2> QED BY <1>3, <2>1, TablesStay
<1> QED BY <1>2, <1>4, BfStays, TopStays DEF CorpusInv, TablesHold, db

LEMMA BfKeeps == CorpusInv /\ (BfStart \/ BfFetch \/ StoreWinner \/ BfStop) => CorpusInv'
/\ Stutters
<1> SUFFICES ASSUME CorpusInv, BfStart \/ BfFetch \/ StoreWinner \/ BfStop
             PROVE  CorpusInv' /\ Stutters
  OBVIOUS
<1>1. TablesHold /\ TopHolds /\ BfHolds /\ seen \subseteq Clips /\ UNCHANGED <<world, top>>
      /\ TopHolds'
  BY TopStays DEF CorpusInv, TablesHold, TablesTyped, BfStart, BfFetch, StoreWinner, BfStop
<1>2. ASSUME BfHolds', UNCHANGED <<log, corpus>>, seen' \in SUBSET Clips, seen \subseteq seen'
      PROVE  CorpusInv' /\ Stutters
  BY <1>1, <1>2, TablesStay DEF CorpusInv, TablesHold, TablesTyped
<1>3. CASE BfStart
  <2>1. Onward(1, seen) /\ UNCHANGED <<log, corpus, seen>>
    BY <1>3 DEF BfStart, db
  <2>2. \/ bf' = BfDown
        \/ /\ bf'.pc = "next" /\ bf' \in Backfill /\ bf'.known = seen
           /\ bf'.i \in DOMAIN Cohort /\ Cohort[bf'.i] \notin seen
    BY <1>1, <2>1, OnwardLeads
  <2>3. BfHolds'
    BY <2>1, <2>2, BfDownHolds DEF BfHolds
  <2> QED BY <1>1, <1>2, <2>1, <2>3
<1>4. CASE BfStop
  <2>1. UNCHANGED <<log, corpus, seen>> /\ BfHolds'
    BY <1>4, BfDownHolds DEF BfStop, db
  <2> QED BY <1>1, <1>2, <2>1
<1>5. CASE BfFetch
  <2> DEFINE c == Cohort[bf.i]
  <2>1. UNCHANGED <<log, corpus>> /\ bf.pc = "next" /\ c \in Clips
    BY <1>1, <1>5, IdNotSeen DEF BfFetch
  <2>2. CASE Onward(bf.i + 1, bf.known) /\ (seen' = seen \/ seen' = seen \cup {c})
    <3>1. BfHolds'
      BY <1>1, <2>1, <2>2, OnwardHolds
    <3> QED BY <1>1, <1>2, <2>1, <2>2, <3>1
  <2>3. CASE Winner(c) /\ bf' = [bf EXCEPT !.pc = "store", !.count = world.count[c]]
             /\ UNCHANGED seen
    <3>1. world.count[c] \in Counts /\ Qualifies(world.count[c])
      BY <2>1, <2>3 DEF CorpusInv, TablesTyped, Winner
    <3>2. BfHolds'
      BY <1>1, <2>1, <2>3, <3>1 DEF BfHolds, Backfill
    <3> QED BY <1>1, <1>2, <2>1, <2>3, <3>2
  <2> QED BY <1>5, <2>2, <2>3 DEF BfFetch
<1>6. CASE StoreWinner
  <2> DEFINE c == Cohort[bf.i]
  <2>1. bf.pc = "store" /\ Onward(bf.i + 1, bf.known) /\ bf.count \in Counts
        /\ Qualifies(bf.count)
    BY <1>1, <1>6 DEF StoreWinner, BfHolds
  <2>2. c \in Clips /\ c \notin seen
    BY <1>1, <2>1, IdNotSeen
  <2>3. CASE UNCHANGED <<corpus, log, seen>>
    <3>1. BfHolds'
      BY <1>1, <2>1, <2>3, OnwardHolds
    <3> QED BY <1>1, <1>2, <2>3, <3>1
  <2>4. CASE /\ corpus' = [corpus EXCEPT ![c] = bf.count]
             /\ Sight(c, "backfill", bf.count) /\ seen' = seen \cup {c}
    <3>1. BfHolds'
      BY <1>1, <2>1, <2>4, OnwardHolds
    <3>2. TablesHold' /\ History!HNext
      BY <1>1, <2>1, <2>2, <2>4, Sighted
    <3> QED BY <1>1, <3>1, <3>2 DEF CorpusInv, TablesHold, Stutters
  <2> QED BY <1>6, <2>3, <2>4 DEF StoreWinner
<1> QED BY <1>3, <1>4, <1>5, <1>6

----------------------------------------------------------------------------

LEMMA CorpusInit == Init => CorpusInv /\ History!HInit
<1> SUFFICES ASSUME Init PROVE CorpusInv /\ History!HInit
  OBVIOUS
<1>1. \A c \in Clips : log[c] = <<>> /\ corpus[c] = NoCount
  BY DEF Init
<1>2. TablesTyped
  BY CorpusBounds, CorpusAssumption DEF Init, TablesTyped
<1>3. RowsQualify /\ NoRowNoLog /\ SightedSeen
  BY <1>1 DEF RowsQualify, NoRowNoLog, SightedSeen, History!InCohort
<1>4. TopHolds
  BY DEF Init, TopHolds, Down
<1>5. BfHolds
  BY DEF Init, BfHolds, BfDown, Backfill
<1>6. History!HInit
  BY CorpusBounds DEF Init, History!HInit
<1> QED BY <1>2, <1>3, <1>4, <1>5, <1>6 DEF CorpusInv

LEMMA CorpusStep == CorpusInv /\ [Next]_vars => CorpusInv' /\ Stutters
<1>1. CorpusInv /\ Next => CorpusInv' /\ Stutters
  BY WorldKeeps, FetchKeeps, StoreFailsKeeps, MovesOnKeep, StoreKeeps, BootKeeps, BfKeeps
     DEF Next, TopStep
<1>2. CorpusInv /\ UNCHANGED vars => CorpusInv' /\ Stutters
  BY NothingStored, TopStays DEF vars, db, CorpusInv
<1> QED BY <1>1, <1>2

\* Every step of the daemon, the command and the service keeps the tables sound.
THEOREM CorpusInvariant == Spec => []CorpusInv
<1>1. Init => CorpusInv
  BY CorpusInit
<1>2. CorpusInv /\ [Next]_vars => CorpusInv'
  BY CorpusStep
<1> QED BY <1>1, <1>2, PTL DEF Spec

\* Whatever daemon, backfill, failed statements, kills and the prune at boot do, in
\* any interleaving: sightings are only appended, the last one is the count on the
\* row, only winners enter, and a cohort id is sighted by suno-backfill once.
THEOREM CorpusImplementsHistory == Spec => HistoryImplemented
<1>1. Init => History!HInit
  BY CorpusInit
<1>2. CorpusInv /\ [Next]_vars => [History!HNext]_(History!hvars)
  BY CorpusStep DEF Stutters, History!hvars
<1> QED BY <1>1, <1>2, CorpusInvariant, PTL DEF Spec, HistoryImplemented, History!HSpec

----------------------------------------------------------------------------
(* What the daemon calls done was walked *)

\* The service: a clip is in its feed once.
ServiceTyped ==
  /\ world \in [feed : Seq(Clips), count : [Clips -> Counts], gone : SUBSET (Clips \cup Rows)]
  /\ IsInjective(world.feed)

\* The clips the pages before the cursor of a profile can hold, counted twice
\* where two pages hold them.
Reach(r) == IF rows[r].next = 1 THEN 0 ELSE FirstPage + (rows[r].next - 2) * PageSize

\* A queued row has a cursor, and a profile has counted no more than its pages
\* held.  What a row owes is on its listing.  What is missing is not before the
\* cursor, and there is no more of it than pages overlap when the row is done.
RowHolds(r) ==
  /\ rows[r].queued =>
       /\ From(r) \in Nat
       /\ r \in Creators => rows[r].next # 0 /\ rows[r].indexed <= Reach(r)
  /\ \A c \in owed[r] : c \in Listed(r) /\ c \notin world.gone /\ Qualifies(world.count[c])
  /\ \A c \in Missing(r) : From(r) <= Place(r, c)
  /\ rows[r].done => Cardinality(Missing(r)) <= Overlap(r)

RowsHold ==
  /\ rows \in [Rows -> Row]
  /\ owed \in [Rows -> SUBSET Clips] /\ slipped \in [Rows -> SUBSET Clips]
  /\ \A r \in Rows : RowHolds(r)

\* The daemon works in a lane, on rows that are queued.
Stage == {"down", "sleep", "pick", "fetch", "store", "insert"}
Subjects == Clips \cup Rows \cup {"trending"}
DaemonRecord ==
  [pc : Stage, lane : 0 .. 7, batch : Seq(Subjects), todo : SUBSET Winning,
   now : SUBSET Winning, got : Nat, len : Nat, total : Nat, max : Nat]

DaemonHolds ==
  /\ top \in DaemonRecord /\ top.now \subseteq top.todo
  /\ top.pc # "insert" => top.now = {}
  /\ top.pc = "sleep" => top.lane = 1
  /\ top.pc \notin {"down", "sleep"} => top.lane \in 2 .. 7
  /\ top.pc \in {"fetch", "store", "insert"} =>
       /\ top.batch # <<>>
       /\ \A i \in DOMAIN top.batch :
            top.batch[i] \in Rows => rows[top.batch[i]].queued /\ Lane # "harvest"

\* The missing clips that the page in hand does not hold.
Left(r) == {c \in Missing(r) : \A x \in top.todo : x.clip # c}

\* Such a clip is behind the page, and a tag's page tops it.
Ahead(r, c) == Until(r) <= Place(r, c) /\ (r \in Tags => Qualifies(top.max))

\* While a page of row r is stored, each missing clip is on it, or behind it: then
\* the page is not empty, and the total leaves room for all of them.
PageHeld(r) ==
  /\ IsFiniteSet(top.todo) /\ top.got + Cardinality(top.todo) <= top.len
  /\ top.len <= Size(r)
  /\ \A c \in Left(r) : Ahead(r, c)
  /\ Left(r) # {} => 0 < top.len /\ From(r) + top.len + Cardinality(Left(r)) <= top.total

PageHolds == \A r \in Rows : InHand(r) => PageHeld(r)

CoverInv == ServiceTyped /\ RowsHold /\ DaemonHolds /\ PageHolds

----------------------------------------------------------------------------
(* Orders and places *)

\* A strict total order of a finite set ranks it: the number of elements before
\* each one is different for each, and below the number of all.
LEMMA Ranked ==
  ASSUME NEW S, IsFiniteSet(S), NEW before \in [S -> SUBSET S],
         \A c \in S : c \notin before[c],
         \A c, d \in S : c # d => c \in before[d] \/ d \in before[c],
         \A c, d \in S : d \in before[c] => before[d] \subseteq before[c]
  PROVE  /\ Cardinality(S) \in Nat
         /\ [c \in S |-> Cardinality(before[c])] \in Bijection(S, 0 .. Cardinality(S) - 1)
<1> DEFINE rank == [c \in S |-> Cardinality(before[c])]
           N == Cardinality(S)
<1>1. N \in Nat
  BY FS_CardinalityType
<1>2. \A c \in S : IsFiniteSet(before[c]) /\ Cardinality(before[c]) \in Nat
  BY FS_Subset, FS_CardinalityType
<1>3. \A c, d \in S : d \in before[c] => Cardinality(before[d]) < Cardinality(before[c])
  <2> SUFFICES ASSUME NEW c \in S, NEW d \in S, d \in before[c]
               PROVE  Cardinality(before[d]) < Cardinality(before[c])
    OBVIOUS
  <2>1. before[d] \in SUBSET before[c] /\ before[d] # before[c]
    OBVIOUS
  <2> QED BY <1>2, <2>1, FS_Subset
<1>4. \A c \in S : Cardinality(before[c]) \in 0 .. N - 1
  <2> SUFFICES ASSUME NEW c \in S PROVE Cardinality(before[c]) \in 0 .. N - 1
    OBVIOUS
  <2>1. before[c] \in SUBSET (S \ {c}) /\ c \in S
    OBVIOUS
  <2>2. IsFiniteSet(S \ {c}) /\ Cardinality(S \ {c}) = N - 1
    BY <2>1, FS_RemoveElement
  <2>3. Cardinality(before[c]) <= Cardinality(S \ {c})
    BY <2>1, <2>2, FS_Subset
  <2> QED BY <1>1, <1>2, <2>2, <2>3
<1>5. rank \in Injection(S, 0 .. N - 1)
  <2>1. rank \in [S -> 0 .. N - 1]
    BY <1>4
  <2>2. \A c, d \in S : rank[c] = rank[d] => c = d
    BY <1>2, <1>3
  <2> QED BY <2>1, <2>2 DEF Injection, IsInjective
<1>6. IsFiniteSet(0 .. N - 1) /\ Cardinality(0 .. N - 1) = N
  <2>1. 0 \in Int /\ N - 1 \in Int
    BY <1>1
  <2>2. IsFiniteSet(0 .. N - 1) /\ Cardinality(0 .. N - 1) = IF 0 > N - 1 THEN 0 ELSE N - 1 - 0 + 1
    BY <2>1, FS_Interval
  <2> QED BY <1>1, <2>2
<1>7. rank \in Surjection(S, 0 .. N - 1)
  BY <1>5, <1>6, FS_Injection
<1> QED BY <1>1, <1>5, <1>7 DEF Bijection

\* A window of n places holds at most n elements, and n if some element is
\* behind it; there is room for what is behind it.
LEMMA Windowed ==
  ASSUME NEW S, IsFiniteSet(S), NEW place \in Bijection(S, 0 .. Cardinality(S) - 1),
         Cardinality(S) \in Nat, NEW a \in Nat, NEW n \in Nat,
         NEW Win \in SUBSET S, \A c \in S : c \in Win <=> place[c] \in a .. a + n - 1
  PROVE  /\ IsFiniteSet(Win) /\ Cardinality(Win) \in 0 .. n
         /\ \A c \in S : a + n <= place[c] => Cardinality(Win) = n
         /\ \A B \in SUBSET S : B # {} /\ (\A c \in B : a + n <= place[c]) =>
              a + n + Cardinality(B) <= Cardinality(S)
<1> DEFINE f == [c \in Win |-> place[c]]
           T == a .. a + n - 1
<1>1. /\ place \in [S -> 0 .. Cardinality(S) - 1]
      /\ \A c, d \in S : place[c] = place[d] => c = d
      /\ \A k \in 0 .. Cardinality(S) - 1 : \E c \in S : place[c] = k
  BY DEF Bijection, Injection, Surjection, IsInjective
<1>2. f \in Injection(Win, T)
  BY <1>1 DEF Injection, IsInjective
<1>3. IsFiniteSet(T) /\ Cardinality(T) = n
  <2>1. IsFiniteSet(T) /\ Cardinality(T) = IF a > a + n - 1 THEN 0 ELSE a + n - 1 - a + 1
    BY FS_Interval
  <2> QED BY <2>1
<1>4. IsFiniteSet(Win) /\ Cardinality(Win) <= n /\ Cardinality(Win) \in Nat
      /\ (Cardinality(Win) = n <=> f \in Surjection(Win, T))
  BY <1>2, <1>3, FS_Injection, FS_CardinalityType
<1>5. ASSUME NEW c \in S, a + n <= place[c]
      PROVE  Cardinality(Win) = n
  <2>1. place[c] \in 0 .. Cardinality(S) - 1
    BY <1>1
  <2>2. ASSUME NEW k \in T PROVE \E d \in Win : f[d] = k
    <3>1. k \in 0 .. Cardinality(S) - 1
      BY <1>5, <2>1
    <3>2. PICK d \in S : place[d] = k
      BY <1>1, <3>1
    <3> QED BY <3>2
  <2>3. f \in Surjection(Win, T)
    BY <1>2, <2>2 DEF Surjection, Injection
  <2> QED BY <1>4, <1>5, <2>1, <2>3
<1>6. ASSUME NEW B \in SUBSET S, B # {}, \A c \in B : a + n <= place[c]
      PROVE  a + n + Cardinality(B) <= Cardinality(S)
  <2> DEFINE g == [c \in B |-> place[c]]
             U == a + n .. Cardinality(S) - 1
  <2>1. g \in Injection(B, U)
    BY <1>1, <1>6 DEF Injection, IsInjective
  <2>2. PICK c \in B : TRUE
    BY <1>6
  <2>3. a + n <= Cardinality(S) - 1
    BY <1>1, <1>6, <2>2
  <2>4. IsFiniteSet(U) /\ Cardinality(U) = Cardinality(S) - (a + n)
    <3>1. IsFiniteSet(U) /\ Cardinality(U) = IF a + n > Cardinality(S) - 1 THEN 0
                                             ELSE Cardinality(S) - 1 - (a + n) + 1
      BY FS_Interval
    <3> QED BY <2>3, <3>1
  <2>5. IsFiniteSet(B) /\ Cardinality(B) <= Cardinality(U)
    <3> HIDE DEF g, U
    <3> QED BY <2>1, <2>4, FS_Injection
  <2>6. Cardinality(B) \in Nat
    BY <2>5, FS_CardinalityType
  <2> QED BY <2>4, <2>5, <2>6
<1> QED BY <1>4, <1>5, <1>6

\* A list without repetitions orders its elements.
LEMMA EarlierOrders ==
  ASSUME NEW T, NEW s \in Seq(T), IsInjective(s)
  PROVE  /\ \A c : ~Earlier(s, c, c)
         /\ \A c, d, e : Earlier(s, c, d) /\ Earlier(s, d, e) => Earlier(s, c, e)
         /\ \A c, d \in Range(s) : c # d => Earlier(s, c, d) \/ Earlier(s, d, c)
<1>1. DOMAIN s \subseteq Int /\ \A i, j \in DOMAIN s : s[i] = s[j] => i = j
  BY DEF IsInjective
<1>2. \A c : ~Earlier(s, c, c)
  BY <1>1 DEF Earlier
<1>3. ASSUME NEW c, NEW d, NEW e, Earlier(s, c, d), Earlier(s, d, e)
      PROVE  Earlier(s, c, e)
  <2>1. PICK i \in DOMAIN s, j \in DOMAIN s : i < j /\ s[i] = c /\ s[j] = d
    BY <1>3 DEF Earlier
  <2>2. PICK k \in DOMAIN s, l \in DOMAIN s : k < l /\ s[k] = d /\ s[l] = e
    BY <1>3 DEF Earlier
  <2>3. i < l
    BY <1>1, <2>1, <2>2
  <2> QED BY <2>1, <2>2, <2>3 DEF Earlier
<1>4. ASSUME NEW c \in Range(s), NEW d \in Range(s), c # d
      PROVE  Earlier(s, c, d) \/ Earlier(s, d, c)
  <2>1. PICK i \in DOMAIN s, j \in DOMAIN s : s[i] = c /\ s[j] = d
    BY DEF Range
  <2>2. i < j \/ j < i
    BY <1>1, <1>4, <2>1
  <2> QED BY <2>1, <2>2 DEF Earlier
<1> QED BY <1>2, <1>3, <1>4

\* Every listing is ordered without ties.
LEMMA PrecedesOrders ==
  ASSUME ServiceTyped, NEW r \in Rows
  PROVE  /\ \A c \in Listed(r) : ~Precedes(world, r, c, c)
         /\ \A c, d, e \in Listed(r) :
              Precedes(world, r, c, d) /\ Precedes(world, r, d, e) => Precedes(world, r, c, e)
         /\ \A c, d \in Listed(r) :
              c # d => Precedes(world, r, c, d) \/ Precedes(world, r, d, c)
<1>1. /\ world.feed \in Seq(Clips) /\ IsInjective(world.feed)
      /\ \A c \in Listed(r) : world.count[c] \in Int
  <2>1. Listed(r) \subseteq Clips
    BY DEF Listed
  <2>2. world.feed \in Seq(Clips) /\ world.count \in [Clips -> Counts]
    BY DEF ServiceTyped
  <2>3. ASSUME NEW c \in Listed(r) PROVE world.count[c] \in Int
    <3>1. c \in Clips
      BY <2>1
    <3>2. world.count[c] \in Counts
      BY <2>2, <3>1
    <3> QED BY <3>2, CorpusBounds DEF Counts
  <2> QED BY <2>2, <2>3 DEF ServiceTyped
<1>2. CASE r \in Playlists
  <2>1. Contents[r] \in Seq(Clips) /\ IsInjective(Contents[r])
    BY <1>2, CorpusAssumption
  <2>2. \A c, d : Precedes(world, r, c, d) <=> Earlier(Contents[r], c, d)
    BY <1>2 DEF Precedes
  <2>3. Listed(r) \subseteq Range(Contents[r])
    BY <1>2 DEF Listed
  <2>4. /\ \A c : ~Earlier(Contents[r], c, c)
        /\ \A c, d, e : Earlier(Contents[r], c, d) /\ Earlier(Contents[r], d, e)
                          => Earlier(Contents[r], c, e)
        /\ \A c, d \in Listed(r) :
             c # d => Earlier(Contents[r], c, d) \/ Earlier(Contents[r], d, c)
    BY <2>1, <2>3, EarlierOrders
  <2> QED BY <2>2, <2>4
<1>3. CASE r \notin Playlists
  <2>1. Listed(r) \subseteq Range(world.feed)
    BY <1>3 DEF Listed
  <2>2. \A c, d : Precedes(world, r, c, d) <=>
          IF r \in Tags /\ world.count[c] # world.count[d] THEN world.count[c] > world.count[d]
          ELSE Earlier(world.feed, c, d)
    BY <1>3 DEF Precedes
  <2>3. /\ \A c : ~Earlier(world.feed, c, c)
        /\ \A c, d, e : Earlier(world.feed, c, d) /\ Earlier(world.feed, d, e)
                          => Earlier(world.feed, c, e)
        /\ \A c, d \in Listed(r) :
             c # d => Earlier(world.feed, c, d) \/ Earlier(world.feed, d, c)
    BY <1>1, <2>1, EarlierOrders
  <2>4. \A c \in Listed(r) : ~Precedes(world, r, c, c)
    BY <2>2, <2>3
  <2>5. ASSUME NEW c \in Listed(r), NEW d \in Listed(r), NEW e \in Listed(r),
               Precedes(world, r, c, d), Precedes(world, r, d, e)
        PROVE  Precedes(world, r, c, e)
    <3>1. world.count[c] \in Int /\ world.count[d] \in Int /\ world.count[e] \in Int
      BY <1>1
    <3> QED BY <2>2, <2>3, <2>5, <3>1
  <2>6. ASSUME NEW c \in Listed(r), NEW d \in Listed(r), c # d
        PROVE  Precedes(world, r, c, d) \/ Precedes(world, r, d, c)
    <3>1. world.count[c] \in Int /\ world.count[d] \in Int
      BY <1>1
    <3> QED BY <2>2, <2>3, <2>6, <3>1
  <2> QED BY <2>4, <2>5, <2>6
<1> QED BY <1>2, <1>3

\* The clips of a listing have the places 0, 1, 2, ... in its order.
LEMMA Placed ==
  ASSUME ServiceTyped, NEW r \in Rows
  PROVE  /\ IsFiniteSet(Listed(r)) /\ Cardinality(Listed(r)) \in Nat
         /\ [c \in Listed(r) |-> Place(r, c)]
              \in Bijection(Listed(r), 0 .. Cardinality(Listed(r)) - 1)
         /\ \A c, d \in Listed(r) : Place(r, c) < Place(r, d) => Precedes(world, r, c, d)
         /\ \A c : Place(r, c) \in Nat
<1> DEFINE S == Listed(r)
           before == [c \in S |-> {d \in S : Precedes(world, r, d, c)}]
<1>1. IsFiniteSet(S) /\ Cardinality(S) \in Nat
  BY CorpusAssumption, FS_Subset, FS_CardinalityType DEF Listed
<1>2. \A c : Place(r, c) \in Nat
  <2> SUFFICES ASSUME NEW c PROVE Place(r, c) \in Nat
    OBVIOUS
  <2>1. {d \in S : Precedes(world, r, d, c)} \in SUBSET S
    OBVIOUS
  <2> QED BY <1>1, <2>1, FS_Subset, FS_CardinalityType DEF Place
<1>3. /\ before \in [S -> SUBSET S]
      /\ \A c \in S : c \notin before[c]
      /\ \A c, d \in S : c # d => c \in before[d] \/ d \in before[c]
      /\ \A c, d \in S : d \in before[c] => before[d] \subseteq before[c]
  BY PrecedesOrders
<1>4. \A c \in S : Place(r, c) = Cardinality(before[c])
  BY DEF Place
<1>5. [c \in S |-> Cardinality(before[c])] \in Bijection(S, 0 .. Cardinality(S) - 1)
  BY <1>1, <1>3, Ranked
<1>6. [c \in S |-> Place(r, c)] = [c \in S |-> Cardinality(before[c])]
  BY <1>4
<1>7. ASSUME NEW c \in S, NEW d \in S, Place(r, c) < Place(r, d)
      PROVE  Precedes(world, r, c, d)
  <2>1. CASE Precedes(world, r, d, c)
    <3>1. before[d] \subseteq before[c] /\ before[c] \subseteq S
      BY <1>3, <2>1
    <3>2. IsFiniteSet(before[c])
      BY <1>1, <3>1, FS_Subset
    <3>3. Cardinality(before[d]) <= Cardinality(before[c])
      BY <3>1, <3>2, FS_Subset
    <3> QED BY <1>2, <1>4, <1>7, <3>3
  <2>2. c # d
    BY <1>2, <1>7
  <2> QED BY <2>1, <2>2, PrecedesOrders
<1> QED BY <1>1, <1>2, <1>5, <1>6, <1>7

\* A page has a size, and the pages of a profile reach no further than its
\* cursor and what two of them hold.
LEMMA Sizes ==
  ASSUME NEW r \in Rows
  PROVE  /\ Size(r) \in Nat \ {0} /\ PageSize \in Nat \ {0} /\ FirstPage \in Nat \ {0}
         /\ SecondPage \in Nat \ {0} /\ SecondPage <= FirstPage /\ Overlap(r) \in Nat
<1>1. PageSize \in Nat \ {0} /\ FirstPage \in Nat \ {0} /\ SecondPage \in 1 .. FirstPage
  BY CorpusAssumption
<1> QED BY <1>1 DEF Size, Overlap

\* A page holds no more clips than its size.  It holds as many when a clip of the
\* listing is behind it; then what is on the page precedes that clip, and the
\* listing has room for all that is behind it.
LEMMA PageFills ==
  ASSUME ServiceTyped, NEW r \in Rows, From(r) \in Nat
  PROVE  /\ IsFiniteSet(Page(r)) /\ Cardinality(Page(r)) \in 0 .. Size(r)
         /\ \A c \in Listed(r) : From(r) <= Place(r, c) => c \in Page(r) \/ Until(r) <= Place(r, c)
         /\ \A c \in Listed(r) : Until(r) <= Place(r, c) =>
              Cardinality(Page(r)) = Size(r) /\ \A d \in Page(r) : Precedes(world, r, d, c)
         /\ \A B \in SUBSET Listed(r) : B # {} /\ (\A c \in B : Until(r) <= Place(r, c)) =>
              Until(r) + Cardinality(B) <= Cardinality(Listed(r))
<1> DEFINE S == Listed(r)
           place == [c \in S |-> Place(r, c)]
           a == From(r)
           n == Size(r)
           Win == Page(r)
<1>1. n \in Nat \ {0} /\ a \in Nat /\ Until(r) = a + n
  BY Sizes DEF Until
<1>2. /\ IsFiniteSet(S) /\ Cardinality(S) \in Nat
      /\ place \in Bijection(S, 0 .. Cardinality(S) - 1)
      /\ \A c, d \in S : Place(r, c) < Place(r, d) => Precedes(world, r, c, d)
      /\ \A c : Place(r, c) \in Nat
  BY Placed
<1>3. Win \in SUBSET S /\ \A c \in S : c \in Win <=> place[c] \in a .. a + n - 1
  BY <1>1 DEF Page
<1>4. \A c \in S : place[c] = Place(r, c)
  OBVIOUS
<1> HIDE DEF place, a, n, Win, S
<1>5. /\ IsFiniteSet(Win) /\ Cardinality(Win) \in 0 .. n
      /\ \A c \in S : a + n <= place[c] => Cardinality(Win) = n
      /\ \A B \in SUBSET S : B # {} /\ (\A c \in B : a + n <= place[c]) =>
           a + n + Cardinality(B) <= Cardinality(S)
  BY <1>1, <1>2, <1>3, Windowed
<1>6. \A c \in S : a <= Place(r, c) => c \in Win \/ a + n <= Place(r, c)
  BY <1>1, <1>2, <1>3, <1>4
<1>7. \A c \in S : a + n <= Place(r, c) => \A d \in Win : Precedes(world, r, d, c)
  BY <1>1, <1>2, <1>3, <1>4
<1>8. \A c \in S : a + n <= Place(r, c) => Cardinality(Win) = n
  BY <1>4, <1>5
<1>9. \A B \in SUBSET S : B # {} /\ (\A c \in B : a + n <= Place(r, c)) =>
        a + n + Cardinality(B) <= Cardinality(S)
  BY <1>4, <1>5
<1> QED BY <1>1, <1>5, <1>6, <1>7, <1>8, <1>9 DEF a, n, Win, S

\* A set of bounded numbers has a largest one.
LEMMA Largest ==
  ASSUME NEW n \in Nat, NEW S \in SUBSET (0 .. n), S # {}
  PROVE  \E m \in S : \A k \in S : k <= m
<1> DEFINE T == {n - k : k \in S}
           R == OpToRel(<, Nat)
<1>1. IsWellFoundedOn(R, Nat)
  BY NatLessThanWellFounded
<1> HIDE DEF R
<1>2. T \subseteq Nat /\ T # {}
  <2>1. PICK k \in S : TRUE
    OBVIOUS
  <2>2. n - k \in T
    BY <2>1
  <2>3. T \subseteq Nat
    OBVIOUS
  <2> QED BY <2>2, <2>3
<1>3. PICK x \in T : \A y \in T : ~ (<<y, x>> \in R)
  <2> HIDE DEF T
  <2> QED BY <1>1, <1>2, WFMin
<1>4. \A y \in T : ~(y < x)
  BY <1>2, <1>3 DEF OpToRel, R
<1>5. PICK m \in S : x = n - m
  BY <1>3
<1>6. \A k \in S : k <= m
  <2> SUFFICES ASSUME NEW k \in S PROVE k <= m
    OBVIOUS
  <2>1. ~(n - k < n - m)
    BY <1>4, <1>5
  <2> QED BY <2>1
<1> QED BY <1>6

----------------------------------------------------------------------------
(* The rows *)

\* Fewer clips.
LEMMA Fewer ==
  ASSUME NEW T \in SUBSET Clips, NEW S \in SUBSET T
  PROVE  /\ IsFiniteSet(S) /\ Cardinality(S) \in Nat /\ Cardinality(T) \in Nat
         /\ Cardinality(S) <= Cardinality(T)
BY CorpusAssumption, FS_Subset, FS_CardinalityType

\* A row keeps what holds of it while it stays as it is, and the corpus grows.
LEMMA RowStays ==
  ASSUME NEW r \in Rows, RowHolds(r), UNCHANGED world,
         \A c \in Clips : corpus[c] # NoCount => corpus'[c] # NoCount,
         rows'[r] = rows[r], owed'[r] \subseteq owed[r], owed[r] \subseteq Clips,
         slipped'[r] = slipped[r]
  PROVE  RowHolds(r)'
<1>1. Missing(r)' \subseteq Missing(r) /\ Missing(r) \subseteq Clips
  BY DEF Missing
<1>2. /\ From(r)' = From(r) /\ Reach(r)' = Reach(r) /\ Listed(r)' = Listed(r)
      /\ \A c : Place(r, c)' = Place(r, c)
  BY DEF From, Reach, Listed, Place
<1>3. Cardinality(Missing(r)') <= Cardinality(Missing(r)) /\ Cardinality(Missing(r)) \in Nat
      /\ Cardinality(Missing(r)') \in Nat
  BY <1>1, Fewer
<1>4. rows'[r].done => Cardinality(Missing(r)') <= Overlap(r)
  BY <1>3, Sizes DEF RowHolds
<1> QED BY <1>1, <1>2, <1>4 DEF RowHolds, Overlap

\* A row that is queued owes its listing, from the first page on.
LEMMA RowStarts ==
  ASSUME NEW r \in Rows, ServiceTyped, UNCHANGED world,
         rows'[r] = [NoRow EXCEPT !.queued = TRUE, !.next = IF r \in Tags THEN 0 ELSE 1],
         owed'[r] = {c \in Listed(r) \ world.gone : Qualifies(world.count[c])}
  PROVE  RowHolds(r)' /\ rows'[r] \in Row /\ owed'[r] \in SUBSET Clips
<1>1. rows'[r] \in Row /\ ~rows'[r].done /\ rows'[r].indexed = 0
      /\ rows'[r].next = IF r \in Tags THEN 0 ELSE 1
  <2> DEFINE n == IF r \in Tags THEN 0 ELSE 1
  <2>1. n \in Nat
    OBVIOUS
  <2> HIDE DEF n
  <2>2. rows'[r] = [queued |-> TRUE, next |-> n, indexed |-> 0, failures |-> 0, done |-> FALSE]
    BY DEF n, NoRow
  <2>3. ASSUME NEW t, t = [queued |-> TRUE, next |-> n, indexed |-> 0, failures |-> 0, done |-> FALSE]
        PROVE  t \in Row /\ ~t.done /\ t.indexed = 0 /\ t.next = n
    BY <2>1, <2>3 DEF Row
  <2>4. rows'[r] \in Row /\ ~rows'[r].done /\ rows'[r].indexed = 0 /\ rows'[r].next = n
    BY <2>2, <2>3
  <2> QED BY <2>3, <2>4 DEF n
<1>2. From(r)' = 0
  <2>1. PageSize \in Nat
    BY CorpusAssumption
  <2>2. (1 - 1) * PageSize = 0
    BY <2>1
  <2> QED BY <1>1, <2>2 DEF From
<1>3. r \in Creators => rows'[r].next = 1 /\ Reach(r)' = 0
  BY <1>1, CorpusAssumption DEF Reach
<1>4. Listed(r)' = Listed(r) /\ \A c : Place(r, c)' = Place(r, c) /\ Place(r, c) \in Nat
  BY Placed DEF Listed, Place
<1>5. \A c \in Missing(r)' : From(r)' <= Place(r, c)'
  BY <1>2, <1>4
<1>6. owed'[r] \in SUBSET Clips
  BY DEF Listed
<1> QED BY <1>1, <1>2, <1>3, <1>4, <1>5, <1>6 DEF RowHolds

\* creatorEnsure, tagEnsure, playlistEnsure: a row that was queued stays as it is.
LEMMA EnsureRow ==
  ASSUME ServiceTyped, RowsHold, NEW R \in SUBSET Rows, NEW r \in Rows,
         rows'[r] = Queued(R)[r], owed'[r] = Owed(R)[r],
         UNCHANGED <<world, slipped>>, \A c \in Clips : corpus[c] # NoCount => corpus'[c] # NoCount
  PROVE  /\ RowHolds(r)' /\ rows'[r] \in Row /\ owed'[r] \in SUBSET Clips
         /\ rows[r].queued => rows'[r] = rows[r] /\ owed'[r] = owed[r]
<1>1. rows \in [Rows -> Row] /\ owed \in [Rows -> SUBSET Clips]
  BY DEF RowsHold
<1>2. CASE r \in New(R)
  <2>1. /\ rows'[r] = [NoRow EXCEPT !.queued = TRUE, !.next = IF r \in Tags THEN 0 ELSE 1]
        /\ owed'[r] = {c \in Listed(r) \ world.gone : Qualifies(world.count[c])} /\ ~rows[r].queued
    BY <1>2 DEF Queued, Owed, New
  <2> QED BY <2>1, RowStarts
<1>3. CASE r \notin New(R)
  <2>1. rows'[r] = rows[r] /\ owed'[r] = owed[r]
    BY <1>3 DEF Queued, Owed
  <2> QED BY <1>1, <2>1, RowStays DEF RowsHold
<1> QED BY <1>2, <1>3

LEMMA EnsureHolds ==
  ASSUME ServiceTyped, RowsHold, NEW R \in SUBSET Rows, rows' = Queued(R), owed' = Owed(R),
         UNCHANGED <<world, slipped>>, \A c \in Clips : corpus[c] # NoCount => corpus'[c] # NoCount
  PROVE  /\ RowsHold'
         /\ \A r \in Rows : rows[r].queued => rows'[r] = rows[r] /\ owed'[r] = owed[r]
<1>1. \A r \in Rows : /\ RowHolds(r)' /\ rows'[r] \in Row /\ owed'[r] \in SUBSET Clips
                      /\ rows[r].queued => rows'[r] = rows[r] /\ owed'[r] = owed[r]
  BY EnsureRow
<1>2. rows' \in [Rows -> Row] /\ owed' \in [Rows -> SUBSET Clips]
  BY <1>1 DEF Queued, Owed
<1> QED BY <1>1, <1>2 DEF RowsHold

\* No row changes, and rows owe no more than before.
LEMMA RowsStay ==
  ASSUME RowsHold, UNCHANGED <<world, rows, slipped>>,
         \A c \in Clips : corpus[c] # NoCount => corpus'[c] # NoCount,
         owed' \in [Rows -> SUBSET Clips], \A r \in Rows : owed'[r] \subseteq owed[r]
  PROVE  RowsHold'
<1>1. rows' \in [Rows -> Row] /\ owed \in [Rows -> SUBSET Clips]
  BY DEF RowsHold
<1>2. ASSUME NEW r \in Rows PROVE RowHolds(r)'
  BY <1>1, RowStays DEF RowsHold
<1> QED BY <1>1, <1>2 DEF RowsHold

\* The service stays as it is.
LEMMA ServiceStays == ServiceTyped /\ UNCHANGED world => ServiceTyped'
BY DEF ServiceTyped

----------------------------------------------------------------------------
(* The daemon *)

\* The daemon goes on to the next item, lane or pass, or dies: no page in hand.
LEMMA LaneCount == Len(Lanes) = 7
BY DEF Lanes

\* The types of the daemon's record.
LEMMA DaemonFields ==
  ASSUME top \in DaemonRecord
  PROVE  /\ top.pc \in Stage /\ top.lane \in 0 .. 7 /\ top.batch \in Seq(Subjects)
         /\ top.todo \subseteq Winning /\ top.now \subseteq Winning
         /\ top.got \in Nat /\ top.len \in Nat /\ top.total \in Nat /\ top.max \in Nat
BY DEF DaemonRecord

\* Nothing in hand.
LEMMA Empty ==
  ASSUME NEW pc \in Stage, NEW n \in 0 .. 7, NEW b \in Seq(Subjects),
         top' = [pc |-> pc, lane |-> n, batch |-> b, todo |-> {}, now |-> {}, got |-> 0,
                 len |-> 0, total |-> 0, max |-> 0]
  PROVE  /\ top' \in DaemonRecord
         /\ top'.now = {} /\ top'.pc = pc /\ top'.lane = n /\ top'.batch = b
<1>1. top' \in DaemonRecord
  BY DEF DaemonRecord
<1> QED BY <1>1

LEMMA DownHolds ==
  ASSUME top' = Down \/ top' = Asleep
  PROVE  DaemonHolds' /\ PageHolds'
<1>1. <<>> \in Seq(Subjects) /\ "down" \in Stage /\ "sleep" \in Stage
  BY DEF Stage
<1>2. CASE top' = Down
  <2>1. top' = [pc |-> "down", lane |-> 0, batch |-> <<>>, todo |-> {}, now |-> {}, got |-> 0,
                len |-> 0, total |-> 0, max |-> 0]
    BY <1>2 DEF Down
  <2>2. top' \in DaemonRecord
    BY <1>1, <2>1 DEF DaemonRecord
  <2>3. top'.now = {} /\ top'.pc = "down"
    BY <2>1
  <2> QED BY <2>2, <2>3 DEF DaemonHolds, PageHolds, InHand
<1>3. CASE top' = Asleep
  <2>1. top' = [pc |-> "sleep", lane |-> 1, batch |-> <<>>, todo |-> {}, now |-> {}, got |-> 0,
                len |-> 0, total |-> 0, max |-> 0]
    BY <1>3 DEF Asleep, Down
  <2>2. top' \in DaemonRecord
    BY <1>1, <2>1 DEF DaemonRecord
  <2>3. top'.now = {} /\ top'.pc = "sleep" /\ top'.lane = 1
    BY <2>1
  <2> QED BY <2>2, <2>3 DEF DaemonHolds, PageHolds, InHand
<1> QED BY <1>2, <1>3

LEMMA NextLaneHolds ==
  ASSUME DaemonHolds, NextLane, top.lane # 0
  PROVE  DaemonHolds' /\ PageHolds'
<1>1. CASE top.lane = 7
  BY <1>1, LaneCount, DownHolds DEF NextLane
<1>2. CASE top.lane # 7
  <2>1. top.lane \in 1 .. 6
    BY <1>2, DaemonFields DEF DaemonHolds
  <2>2. top' = [Down EXCEPT !.pc = "pick", !.lane = top.lane + 1] /\ top.lane + 1 \in 2 .. 7
    BY <1>2, <2>1, LaneCount DEF NextLane
  <2>3. top' = [pc |-> "pick", lane |-> top.lane + 1, batch |-> <<>>, todo |-> {}, now |-> {},
                got |-> 0, len |-> 0, total |-> 0, max |-> 0]
    BY <2>2 DEF Down
  <2>4. <<>> \in Seq(Subjects) /\ "pick" \in Stage /\ top.lane + 1 \in 0 .. 7
    BY <2>2 DEF Stage
  <2>5. top' \in DaemonRecord /\ top'.now = {} /\ top'.pc = "pick" /\ top'.lane = top.lane + 1
    BY <2>3, <2>4, Empty
  <2> QED BY <2>2, <2>5 DEF DaemonHolds, PageHolds, InHand
<1> QED BY <1>1, <1>2

LEMMA NextItemHolds ==
  ASSUME DaemonHolds, NextItem, top.pc \in {"fetch", "store", "insert"},
         \A r \in Rows : rows[r].queued => rows'[r].queued
  PROVE  DaemonHolds' /\ PageHolds'
<1>1. top.batch \in Seq(Subjects) /\ top.lane \in 2 .. 7 /\ top.batch # <<>>
      /\ \A i \in DOMAIN top.batch :
            top.batch[i] \in Rows => rows[top.batch[i]].queued /\ Lane # "harvest"
  BY DaemonFields DEF DaemonHolds
<1>2. CASE Len(top.batch) <= 1
  BY <1>1, <1>2, NextLaneHolds DEF NextItem
<1>3. CASE ~(Len(top.batch) <= 1)
  <2> DEFINE b == Tail(top.batch)
  <2>1. b \in Seq(Subjects) /\ Len(b) = Len(top.batch) - 1 /\ Len(top.batch) \in Nat
        /\ \A i \in 1 .. Len(b) : b[i] = top.batch[i + 1]
    BY <1>1, HeadTailProperties, LenProperties
  <2>2. b # <<>> /\ DOMAIN b = 1 .. Len(b) /\ DOMAIN top.batch = 1 .. Len(top.batch)
    <3>1. DOMAIN b = 1 .. Len(b) /\ DOMAIN top.batch = 1 .. Len(top.batch)
      BY <1>1, <2>1, LenProperties
    <3>2. Len(b) >= 1
      BY <1>3, <2>1
    <3>3. Len(<<>>) = 0
      OBVIOUS
    <3> HIDE DEF b
    <3> QED BY <3>1, <3>2, <3>3
  <2>3. top' = [Down EXCEPT !.pc = "fetch", !.lane = top.lane, !.batch = b]
    BY <1>3 DEF NextItem
  <2>4. \A i \in DOMAIN b : b[i] \in Rows => rows'[b[i]].queued /\ Lane # "harvest"
    BY <1>1, <2>1, <2>2
  <2> HIDE DEF b
  <2>5. top' \in DaemonRecord /\ top'.now = {} /\ top'.pc = "fetch" /\ top'.lane = top.lane
        /\ top'.batch = b
    <3>1. top' = [pc |-> "fetch", lane |-> top.lane, batch |-> b, todo |-> {}, now |-> {},
                  got |-> 0, len |-> 0, total |-> 0, max |-> 0]
      BY <2>3 DEF Down
    <3>2. "fetch" \in Stage /\ top.lane \in 0 .. 7
      BY <1>1 DEF Stage
    <3> QED BY <2>1, <3>1, <3>2, Empty
  <2>6. Lane' = Lane
    BY <2>5 DEF Lane
  <2> QED BY <1>1, <2>2, <2>4, <2>5, <2>6 DEF DaemonHolds, PageHolds, InHand
<1> QED BY <1>2, <1>3

\* The daemon stays where it is, and its rows stay queued.
LEMMA DaemonStays ==
  DaemonHolds /\ UNCHANGED top /\ (\A r \in Rows : rows[r].queued => rows'[r].queued)
    => DaemonHolds'
<1> SUFFICES ASSUME DaemonHolds, UNCHANGED top,
                    \A r \in Rows : rows[r].queued => rows'[r].queued
             PROVE  DaemonHolds'
  OBVIOUS
<1>1. Lane' = Lane
  BY DEF Lane
<1> QED BY <1>1 DEF DaemonHolds

\* What is in hand is queued.
LEMMA HandQueued ==
  ASSUME DaemonHolds, NEW r \in Rows, InHand(r)
  PROVE  rows[r].queued
<1>1. top.batch \in Seq(Subjects) /\ top.batch # <<>>
      /\ \A i \in DOMAIN top.batch : top.batch[i] \in Rows => rows[top.batch[i]].queued
  BY DaemonFields DEF DaemonHolds, InHand
<1>2. r = top.batch[1] /\ 1 \in DOMAIN top.batch
  BY <1>1 DEF InHand
<1> QED BY <1>1, <1>2

\* The page in hand is held as long as nothing is left that was not, and nothing
\* that was behind it slips before its end.
LEMMA PageKeeps ==
  ASSUME CoverInv, NEW r \in Rows, rows[r].queued, PageHeld(r), rows'[r] = rows[r],
         top'.len = top.len, top'.total = top.total, top'.max = top.max,
         IsFiniteSet(top'.todo), top'.got + Cardinality(top'.todo) <= top.len,
         Left(r)' \subseteq Left(r),
         \A c \in Left(r)' : Until(r) <= Place(r, c) => Until(r) <= Place(r, c)'
  PROVE  PageHeld(r)'
<1>1. From(r)' = From(r) /\ Size(r)' = Size(r) /\ Until(r)' = Until(r)
  BY DEF From, Size, Until
<1>2. /\ From(r) \in Nat /\ owed \in [Rows -> SUBSET Clips]
      /\ top.len \in Nat /\ top.total \in Nat
  BY DaemonFields DEF CoverInv, RowsHold, RowHolds, DaemonHolds
<1>3. Left(r) \in SUBSET Clips
  BY <1>2 DEF Left, Missing
<1>4. Cardinality(Left(r)') <= Cardinality(Left(r)) /\ Cardinality(Left(r)) \in Nat
      /\ Cardinality(Left(r)') \in Nat
  BY <1>3, Fewer
<1>5. \A c \in Left(r)' : Ahead(r, c)'
  BY <1>1 DEF PageHeld, Ahead
<1>6. Left(r)' # {} => 0 < top'.len /\ From(r)' + top'.len + Cardinality(Left(r)') <= top'.total
  <2> SUFFICES ASSUME Left(r)' # {}
               PROVE  0 < top.len /\ From(r) + top.len + Cardinality(Left(r)') <= top.total
    BY <1>1
  <2>1. 0 < top.len /\ From(r) + top.len + Cardinality(Left(r)) <= top.total
    BY DEF PageHeld
  <2> QED BY <1>2, <1>4, <2>1
<1>7. top'.len <= Size(r)' /\ top'.got + Cardinality(top'.todo) <= top'.len
  BY <1>1 DEF PageHeld
<1> QED BY <1>5, <1>6, <1>7 DEF PageHeld

\* Other tables may grow under a page that is being stored.
LEMMA PageStays ==
  ASSUME CoverInv, UNCHANGED <<world, rows, top, slipped>>,
         \A c \in Clips : corpus[c] # NoCount => corpus'[c] # NoCount,
         \A r \in Rows : owed'[r] \subseteq owed[r]
  PROVE  PageHolds'
<1> SUFFICES ASSUME NEW r \in Rows, InHand(r)' PROVE PageHeld(r)'
  BY DEF PageHolds
<1>1. InHand(r)
  BY DEF InHand
<1>2. PageHeld(r) /\ rows[r].queued
  BY <1>1, HandQueued DEF CoverInv, PageHolds
<1>3. owed \in [Rows -> SUBSET Clips]
  BY DEF CoverInv, RowsHold
<1>4. Left(r)' \subseteq Left(r)
  BY <1>3 DEF Left, Missing
<1>5. \A c : Place(r, c)' = Place(r, c)
  BY DEF Place, Listed
<1>6. IsFiniteSet(top'.todo) /\ top'.got + Cardinality(top'.todo) <= top.len
  BY <1>2 DEF PageHeld
<1>7. \A c \in Left(r)' : Until(r) <= Place(r, c) => Until(r) <= Place(r, c)'
  BY <1>5
<1>8. top'.len = top.len /\ top'.total = top.total /\ top'.max = top.max /\ rows'[r] = rows[r]
  OBVIOUS
<1> QED BY <1>2, <1>4, <1>6, <1>7, <1>8, PageKeeps

\* What the backfill command does touches no row.
LEMMA BystandersCover ==
  ASSUME CorpusInv, CoverInv,
         BfStart \/ BfFetch \/ StoreWinner \/ BfStop \/ UNCHANGED vars
  PROVE  CoverInv'
<1>1. \A c \in Clips : corpus[c] # NoCount => corpus'[c] # NoCount
  <2>1. CASE StoreWinner
    <3>1. bf.count \in Counts /\ NoCount \notin Counts /\ corpus \in [Clips -> {NoCount} \cup Counts]
      BY <2>1, CorpusBounds DEF StoreWinner, CorpusInv, BfHolds, TablesTyped
    <3>2. corpus' = [corpus EXCEPT ![Cohort[bf.i]] = bf.count] \/ corpus' = corpus
      BY <2>1 DEF StoreWinner
    <3> QED BY <3>1, <3>2
  <2>2. CASE ~StoreWinner
    BY <2>2 DEF BfStart, BfFetch, BfStop, vars, db
  <2> QED BY <2>1, <2>2
<1>2. UNCHANGED <<world, rows, top, owed, slipped>>
  BY DEF BfStart, BfFetch, StoreWinner, BfStop, vars, db
<1>3. owed \in [Rows -> SUBSET Clips]
  BY DEF CoverInv, RowsHold
<1>4. RowsHold'
  BY <1>1, <1>2, <1>3, RowsStay DEF CoverInv
<1>5. PageHolds'
  BY <1>1, <1>2, <1>3, PageStays DEF CoverInv
<1> QED BY <1>2, <1>4, <1>5, ServiceStays, DaemonStays DEF CoverInv

\* The daemon leaves an item that is no row, or the pass, or dies.
LEMMA LeavesCover ==
  ASSUME CoverInv, ItemDone \/ PassTimeout \/ Crash
  PROVE  CoverInv'
<1>1. UNCHANGED <<world, rows, corpus, owed, slipped>>
  BY DEF ItemDone, PassTimeout, Crash, db
<1>2. owed \in [Rows -> SUBSET Clips]
  BY DEF CoverInv, RowsHold
<1>3. RowsHold' /\ ServiceTyped'
  BY <1>1, <1>2, RowsStay, ServiceStays DEF CoverInv
<1>4. DaemonHolds' /\ PageHolds'
  BY <1>1, NextItemHolds, DownHolds DEF ItemDone, PassTimeout, Crash, CoverInv
<1> QED BY <1>3, <1>4 DEF CoverInv

\* The prune finds nothing, and the creators and tags that are missing are queued.
LEMMA BootCovers ==
  ASSUME CorpusInv, CoverInv, Boot
  PROVE  CoverInv'
<1>1. UNCHANGED corpus
  <2>1. corpus \in [Clips -> {NoCount} \cup Counts] /\ \A c \in Clips : c \in Kept \/ corpus[c] = NoCount
    BY DEF CorpusInv, TablesTyped, RowsQualify, Kept
  <2>2. corpus' = [c \in Clips |-> IF c \in Kept THEN corpus[c] ELSE NoCount]
    BY DEF Boot
  <2> QED BY <2>1, <2>2
<1>2. PICK tags \in {{}, Tags} : Ensure(Known \cup tags)
  BY DEF Boot
<1>3. Known \cup tags \in SUBSET Rows
  <2>1. \A c \in Clips : Author[c] \in Creators
    BY CorpusAssumption
  <2> QED BY <2>1 DEF Known, Kept, Rows
<1>4. RowsHold'
  BY <1>1, <1>2, <1>3, EnsureHolds DEF CoverInv, Ensure, Boot
<1>5. DaemonHolds' /\ PageHolds'
  BY DownHolds DEF Boot
<1> QED BY <1>4, <1>5, ServiceStays DEF CoverInv, Boot

\* The playlists of the editorial indexes are queued.
LEMMA EditorialCovers ==
  ASSUME CoverInv, EditorialPass
  PROVE  CoverInv'
<1>1. RowsHold'
  <2>1. CASE Ensure(Editorial)
    <3>1. Editorial \in SUBSET Rows
      BY CorpusAssumption DEF Rows
    <3> QED BY <2>1, <3>1, EnsureHolds DEF CoverInv, Ensure, EditorialPass
  <2>2. CASE UNCHANGED <<rows, owed>>
    BY <2>2, RowsStay DEF EditorialPass, CoverInv, RowsHold
  <2> QED BY <2>1, <2>2 DEF EditorialPass
<1>2. top.lane # 0
  BY DEF EditorialPass, CoverInv, DaemonHolds
<1>3. DaemonHolds' /\ PageHolds'
  BY <1>2, NextLaneHolds DEF EditorialPass, CoverInv
<1> QED BY <1>1, <1>3, ServiceStays DEF CoverInv, EditorialPass

\* The service changes: it suffices that what is still owed stays public, listed
\* and above the floor, and that what does not slip stays behind where it was.
LEMMA ServiceMoves ==
  ASSUME CoverInv, UNCHANGED <<db, top>>, ServiceTyped', owed' \in [Rows -> SUBSET Clips],
         slipped' \in [Rows -> SUBSET Clips],
         \A r \in Rows : owed'[r] \subseteq owed[r] /\ slipped[r] \subseteq slipped'[r]
         /\ (\A c \in owed'[r] : c \in Listed(r)' /\ c \notin world'.gone /\ Qualifies(world'.count[c]))
         /\ \A c \in owed'[r] \ slipped'[r], end \in Ends(r) : end <= Place(r, c) => end <= Place(r, c)'
  PROVE  CoverInv'
<1>1. UNCHANGED <<rows, corpus, top>> /\ rows \in [Rows -> Row] /\ owed \in [Rows -> SUBSET Clips]
  BY DEF db, CoverInv, RowsHold
<1>2. ASSUME NEW r \in Rows
      PROVE  /\ From(r)' = From(r) /\ Reach(r)' = Reach(r)
             /\ Missing(r)' \subseteq Missing(r) /\ Missing(r) \subseteq Clips
             /\ Missing(r)' \subseteq owed'[r] \ slipped'[r]
  BY <1>1 DEF From, Reach, Missing
<1>3. RowsHold'
  <2> SUFFICES ASSUME NEW r \in Rows PROVE RowHolds(r)'
    BY <1>1 DEF RowsHold
  <2>1. RowHolds(r)
    BY DEF CoverInv, RowsHold
  <2>2. \A c \in Missing(r)' : From(r)' <= Place(r, c)'
    <3> SUFFICES ASSUME NEW c \in Missing(r)' PROVE From(r)' <= Place(r, c)'
      OBVIOUS
    <3>1. From(r) <= Place(r, c) /\ From(r) \in Ends(r) /\ c \in owed'[r] \ slipped'[r]
      BY <1>2, <2>1 DEF RowHolds, Ends
    <3> QED BY <1>2, <3>1
  <2>3. rows'[r].done => Cardinality(Missing(r)') <= Overlap(r)
    <3>1. Cardinality(Missing(r)') <= Cardinality(Missing(r)) /\ Cardinality(Missing(r)) \in Nat
          /\ Cardinality(Missing(r)') \in Nat
      BY <1>2, Fewer
    <3> QED BY <1>1, <2>1, <3>1, Sizes DEF RowHolds
  <2>4. \A c \in owed'[r] : c \in Listed(r)' /\ c \notin world'.gone /\ Qualifies(world'.count[c])
    OBVIOUS
  <2> QED BY <1>1, <1>2, <2>1, <2>2, <2>3, <2>4 DEF RowHolds, Overlap
<1>4. DaemonHolds'
  BY <1>1, DaemonStays DEF CoverInv
<1>5. PageHolds'
  <2> SUFFICES ASSUME NEW r \in Rows, InHand(r)' PROVE PageHeld(r)'
    BY DEF PageHolds
  <2>1. InHand(r)
    BY <1>1 DEF InHand
  <2>2. PageHeld(r) /\ rows[r].queued
    BY <2>1, HandQueued DEF CoverInv, PageHolds
  <2>3. Left(r)' \subseteq Left(r) /\ Left(r)' \subseteq owed'[r] \ slipped'[r]
    BY <1>1, <1>2 DEF Left
  <2>4. Until(r) \in Ends(r)
    BY <2>1 DEF Ends
  <2>5. \A c \in Left(r)' : Until(r) <= Place(r, c) => Until(r) <= Place(r, c)'
    BY <2>3, <2>4
  <2>6. IsFiniteSet(top'.todo) /\ top'.got + Cardinality(top'.todo) <= top.len
    BY <1>1, <2>2 DEF PageHeld
  <2> QED BY <1>1, <2>2, <2>3, <2>5, <2>6, PageKeeps
<1> QED BY <1>3, <1>4, <1>5 DEF CoverInv

\* What comes before a clip still does: its place grows.
LEMMA PlaceGrows ==
  ASSUME NEW r \in Rows, NEW c,
         \A d \in Listed(r) : Precedes(world, r, d, c) => d \in Listed(r)' /\ Precedes(world', r, d, c)
  PROVE  Place(r, c) <= Place(r, c)'
<1> DEFINE A == {d \in Listed(r) : Precedes(world, r, d, c)}
           B == {d \in Listed(r)' : Precedes(world', r, d, c)}
<1>1. A \in SUBSET B /\ B \in SUBSET Clips
  BY DEF Listed
<1>2. IsFiniteSet(B)
  BY <1>1, CorpusAssumption, FS_Subset
<1>3. Cardinality(A) <= Cardinality(B)
  <2> HIDE DEF A, B
  <2> QED BY <1>1, <1>2, FS_Subset
<1> QED BY <1>3 DEF Place

\* Where rows end and clips are, are numbers.
LEMMA EndsTyped ==
  ASSUME NEW r \in Rows, rows \in [Rows -> Row]
  PROVE  Ends(r) \subseteq Int
<1>1. rows[r].next \in Nat
  BY DEF Row
<1> QED BY <1>1, Sizes DEF Ends, From, Until

LEMMA PlaceTyped == \A r \in Rows : \A c : Place(r, c) \in Nat /\ Place(r, c)' \in Nat
<1> SUFFICES ASSUME NEW r \in Rows, NEW c PROVE Place(r, c) \in Nat /\ Place(r, c)' \in Nat
  OBVIOUS
<1>1. {d \in Listed(r) : Precedes(world, r, d, c)} \in SUBSET Clips
  BY DEF Listed
<1>2. {d \in Listed(r)' : Precedes(world', r, d, c)} \in SUBSET Clips
  BY DEF Listed
<1> QED BY <1>1, <1>2, CorpusAssumption, FS_Subset, FS_CardinalityType DEF Place

\* What has not slipped is behind where it was.
LEMMA SlipCovers ==
  ASSUME CoverInv, UNCHANGED <<db, top>>, ServiceTyped', Slip, owed' \in [Rows -> SUBSET Clips],
         \A r \in Rows : owed'[r] \subseteq owed[r],
         \A r \in Rows : \A c \in owed'[r] :
           c \in Listed(r)' /\ c \notin world'.gone /\ Qualifies(world'.count[c])
  PROVE  CoverInv'
<1>1. /\ rows \in [Rows -> Row] /\ owed \in [Rows -> SUBSET Clips] /\ slipped \in [Rows -> SUBSET Clips]
  BY DEF CoverInv, RowsHold
<1>2. \A r \in Rows : slipped'[r] = slipped[r] \cup
        {c \in owed[r] : \E end \in Ends(r) : end <= Place(r, c) /\ Place(r, c)' < end}
  BY DEF Slip
<1>3. slipped' \in [Rows -> SUBSET Clips] /\ \A r \in Rows : slipped[r] \subseteq slipped'[r]
  BY <1>1, <1>2 DEF Slip
<1>4. ASSUME NEW r \in Rows, NEW c \in owed'[r] \ slipped'[r], NEW end \in Ends(r), end <= Place(r, c)
      PROVE  end <= Place(r, c)'
  <2>1. ~(Place(r, c)' < end)
    BY <1>2, <1>4
  <2>2. end \in Int /\ Place(r, c)' \in Int
    BY <1>1, EndsTyped, PlaceTyped
  <2> QED BY <2>1, <2>2
<1> QED BY <1>3, <1>4, ServiceMoves

\* A new head moves the others by one.
LEMMA NewHead ==
  ASSUME NEW T, NEW s \in Seq(T), NEW x \in T
  PROVE  LET t == <<x>> \o s IN
         /\ \A i \in DOMAIN s : i + 1 \in DOMAIN t /\ t[i + 1] = s[i]
         /\ \A i \in DOMAIN t : (i = 1 /\ t[i] = x) \/ (i - 1 \in DOMAIN s /\ t[i] = s[i - 1])
         /\ DOMAIN s \subseteq Nat /\ DOMAIN t \subseteq Nat
<1> DEFINE t == <<x>> \o s
<1>1. /\ DOMAIN s = 1 .. Len(s) /\ Len(s) \in Nat /\ t \in Seq(T) /\ Len(t) = Len(s) + 1
      /\ \A i \in 1 .. Len(t) : t[i] = IF i <= 1 THEN x ELSE s[i - 1]
  OBVIOUS
<1>2. DOMAIN t = 1 .. Len(t)
  BY <1>1
<1> HIDE DEF t
<1>3. DOMAIN s \subseteq Nat /\ DOMAIN t \subseteq Nat
  BY <1>1, <1>2
<1>4. \A i \in DOMAIN s : i + 1 \in DOMAIN t /\ t[i + 1] = s[i]
  BY <1>1, <1>2
<1>5. \A i \in DOMAIN t : (i = 1 /\ t[i] = x) \/ (i - 1 \in DOMAIN s /\ t[i] = s[i - 1])
  BY <1>1, <1>2
<1> QED BY <1>3, <1>4, <1>5 DEF t

\* A new head moves places up; what a vote or a take-down moves under a cursor has
\* slipped.
LEMMA WorldCovers ==
  ASSUME CorpusInv, CoverInv,
         \/ \E c \in Clips : Publish(c)
         \/ \E x \in Fragile : TakeDown(x)
         \/ \E c \in Volatile, n \in 0 .. MaxCount : Vote(c, n)
  PROVE  CoverInv'
<1>1. /\ owed \in [Rows -> SUBSET Clips] /\ slipped \in [Rows -> SUBSET Clips]
      /\ ServiceTyped /\ TablesTyped' /\ rows \in [Rows -> Row]
      /\ \A r \in Rows : \A c \in owed[r] : c \in Listed(r) /\ c \notin world.gone /\ Qualifies(world.count[c])
  <2>1. CorpusInv'
    BY WorldKeeps
  <2> QED BY <2>1 DEF CoverInv, RowsHold, RowHolds, CorpusInv
<1>2. ASSUME NEW x \in Clips, Publish(x) PROVE CoverInv'
  <2>1. /\ world'.feed = <<x>> \o world.feed /\ world'.count = world.count /\ world'.gone = world.gone
        /\ UNCHANGED <<db, top, owed, slipped>>
        /\ x \notin Range(world.feed) /\ world.feed \in Seq(Clips) /\ IsInjective(world.feed)
    BY <1>1, <1>2 DEF Publish, ServiceTyped
  <2>2. /\ \A i \in DOMAIN world.feed : i + 1 \in DOMAIN world'.feed /\ world'.feed[i + 1] = world.feed[i]
        /\ \A i \in DOMAIN world'.feed : (i = 1 /\ world'.feed[i] = x) \/ (i - 1 \in DOMAIN world.feed /\ world'.feed[i] = world.feed[i - 1])
        /\ DOMAIN world.feed \subseteq Nat /\ DOMAIN world'.feed \subseteq Nat
    BY <2>1, NewHead
  <2>3. IsInjective(world'.feed)
    <3> SUFFICES ASSUME NEW i \in DOMAIN world'.feed, NEW j \in DOMAIN world'.feed,
                        world'.feed[i] = world'.feed[j], i # j
                 PROVE  FALSE
      BY DEF IsInjective
    <3>1. \A k \in DOMAIN world.feed : world.feed[k] # x
      BY <2>1 DEF Range
    <3> QED BY <2>1, <2>2, <3>1 DEF IsInjective
  <2>4. ServiceTyped'
    BY <1>1, <2>3 DEF ServiceTyped, TablesTyped
  <2>5. Range(world.feed) \subseteq Range(world'.feed)
    BY <2>2 DEF Range
  <2>6. \A c, d : Earlier(world.feed, c, d) => Earlier(world'.feed, c, d)
    <3> SUFFICES ASSUME NEW c, NEW d, Earlier(world.feed, c, d) PROVE Earlier(world'.feed, c, d)
      OBVIOUS
    <3>1. PICK i \in DOMAIN world.feed, j \in DOMAIN world.feed :
            i < j /\ world.feed[i] = c /\ world.feed[j] = d
      BY DEF Earlier
    <3>2. i + 1 < j + 1 /\ i + 1 \in DOMAIN world'.feed /\ j + 1 \in DOMAIN world'.feed
          /\ world'.feed[i + 1] = c /\ world'.feed[j + 1] = d
      BY <2>2, <3>1
    <3> QED BY <3>2 DEF Earlier
  <2>7. ASSUME NEW r \in Rows PROVE Listed(r) \subseteq Listed(r)'
    BY <2>1, <2>5 DEF Listed
  <2>8. ASSUME NEW r \in Rows, NEW c, NEW d, Precedes(world, r, d, c) PROVE Precedes(world', r, d, c)
    BY <2>1, <2>6, <2>8 DEF Precedes
  <2>9. \A r \in Rows : \A c : Place(r, c) <= Place(r, c)'
    BY <2>7, <2>8, PlaceGrows
  <2>10. ASSUME NEW r \in Rows, NEW c, NEW end \in Ends(r), end <= Place(r, c)
         PROVE  end <= Place(r, c)'
    <3>1. end \in Int /\ Place(r, c) \in Int /\ Place(r, c)' \in Int /\ Place(r, c) <= Place(r, c)'
      BY <1>1, <2>4, <2>9, EndsTyped, PlaceTyped
    <3> QED BY <2>10, <3>1
  <2>11. \A r \in Rows : owed'[r] \subseteq owed[r] /\ slipped[r] \subseteq slipped'[r]
         /\ (\A c \in owed'[r] : c \in Listed(r)' /\ c \notin world'.gone /\ Qualifies(world'.count[c]))
         /\ \A c \in owed'[r] \ slipped'[r], end \in Ends(r) : end <= Place(r, c) => end <= Place(r, c)'
    BY <1>1, <2>1, <2>7, <2>10
  <2> QED BY <1>1, <2>1, <2>4, <2>11, ServiceMoves
<1>3. ASSUME NEW x \in Fragile, TakeDown(x) PROVE CoverInv'
  <2>1. /\ world'.feed = world.feed /\ world'.count = world.count /\ world'.gone = world.gone \cup {x}
        /\ UNCHANGED <<db, top>> /\ Slip /\ owed' = [r \in Rows |-> owed[r] \ {x}]
    BY <1>1, <1>3 DEF TakeDown, ServiceTyped
  <2>2. ServiceTyped'
    BY <1>1, <2>1 DEF ServiceTyped, TablesTyped
  <2>3. owed' \in [Rows -> SUBSET Clips] /\ \A r \in Rows : owed'[r] = owed[r] \ {x}
    BY <1>1, <2>1
  <2>4. ASSUME NEW r \in Rows, NEW c \in owed'[r]
        PROVE  c \in Listed(r)' /\ c \notin world'.gone /\ Qualifies(world'.count[c])
    <3>1. c \in owed[r] /\ c # x /\ c \in Listed(r) /\ c \notin world.gone /\ Qualifies(world.count[c])
      BY <1>1, <2>3, <2>4
    <3>2. c \in Listed(r)'
      BY <2>1, <3>1 DEF Listed
    <3> QED BY <2>1, <3>1, <3>2
  <2> QED BY <1>1, <2>1, <2>2, <2>3, <2>4, SlipCovers
<1>4. ASSUME NEW x \in Volatile, NEW n \in 0 .. MaxCount, Vote(x, n) PROVE CoverInv'
  <2>1. /\ world'.feed = world.feed /\ world'.gone = world.gone /\ UNCHANGED <<db, top>> /\ Slip
        /\ owed' = [r \in Rows |-> {d \in owed[r] : Qualifies(world'.count[d])}]
    BY <1>1, <1>4 DEF Vote, ServiceTyped
  <2>2. ServiceTyped'
    BY <1>1, <2>1 DEF ServiceTyped, TablesTyped
  <2>3. /\ owed' \in [Rows -> SUBSET Clips]
        /\ \A r \in Rows : owed'[r] = {d \in owed[r] : Qualifies(world'.count[d])}
    BY <1>1, <2>1
  <2>4. ASSUME NEW r \in Rows, NEW c \in owed'[r]
        PROVE  c \in Listed(r)' /\ c \notin world'.gone /\ Qualifies(world'.count[c])
    <3>1. c \in owed[r] /\ c \in Listed(r) /\ c \notin world.gone /\ Qualifies(world'.count[c])
      BY <1>1, <2>3, <2>4
    <3>2. c \in Listed(r)'
      BY <2>1, <3>1 DEF Listed
    <3> QED BY <2>1, <3>1, <3>2
  <2> QED BY <1>1, <2>1, <2>2, <2>3, <2>4, SlipCovers
<1> QED BY <1>2, <1>3, <1>4

\* ORDER BY and LIMIT pick a list of distinct elements.
LEMMA PickedFrom ==
  ASSUME NEW S, IsFiniteSet(S), NEW b,
         LET n == IF PerPass < Cardinality(S) THEN PerPass ELSE Cardinality(S) IN b \in [1 .. n -> S]
  PROVE  b \in Seq(S) /\ \A i \in DOMAIN b : b[i] \in S
<1>1. (IF PerPass < Cardinality(S) THEN PerPass ELSE Cardinality(S)) \in Nat
  BY CorpusAssumption, FS_CardinalityType
<1> QED BY <1>1

\* A lane picks clips or rows that are queued.
LEMMA BatchHolds ==
  ASSUME CoverInv, top.pc = "pick", NEW b \in Batches
  PROVE  b \in Seq(Subjects) /\ \A i \in DOMAIN b : b[i] \in Rows => rows[b[i]].queued /\ Lane # "harvest"
<1>1. Lane \in {"harvest", "recheck", "creator", "tag", "playlist", "seed"}
  <2>1. top.lane \in 2 .. 7
    BY DEF CoverInv, DaemonHolds
  <2> QED BY <2>1 DEF Lane, Lanes
<1>2. IsFiniteSet(Rows) /\ IsFiniteSet(Clips) /\ Clips \cap Rows = {} /\ "trending" \notin Rows
  BY CorpusAssumption
<1>3. CASE Lane = "harvest"
  <2>1. b = <<"trending">>
    BY <1>3 DEF Batches
  <2>2. b \in Seq(Subjects) /\ \A i \in DOMAIN b : b[i] = "trending"
    BY <2>1 DEF Subjects
  <2> QED BY <1>2, <2>2
<1>4. ASSUME NEW S \in SUBSET Clips,
             LET n == IF PerPass < Cardinality(S) THEN PerPass ELSE Cardinality(S) IN b \in [1 .. n -> S]
      PROVE  b \in Seq(Subjects) /\ \A i \in DOMAIN b : b[i] \notin Rows
  <2>1. IsFiniteSet(S)
    BY <1>2, FS_Subset
  <2>2. b \in Seq(S) /\ \A i \in DOMAIN b : b[i] \in S
    BY <1>4, <2>1, PickedFrom
  <2>3. b \in Seq(Subjects)
    BY <2>2 DEF Subjects
  <2> QED BY <1>2, <2>2, <2>3
<1>5. CASE Lane = "recheck"
  <2>1. PICK due \in SUBSET {c \in Clips : corpus[c] # NoCount} : b \in PickRechecks(due)
    BY <1>5 DEF Batches
  <2>2. b \in [1 .. (IF PerPass < Cardinality(due) THEN PerPass ELSE Cardinality(due)) -> due]
    BY <2>1 DEF PickRechecks, FirstOf
  <2> QED BY <1>4, <2>1, <2>2
<1>6. CASE Lane = "seed"
  <2> DEFINE S == {c \in Clips : seeds[c].queued /\ ~seeds[c].done}
  <2>1. b \in [1 .. (IF PerPass < Cardinality(S) THEN PerPass ELSE Cardinality(S)) -> S]
    BY <1>6 DEF Batches, PickSeeds, FirstOf
  <2>2. S \in SUBSET Clips
    OBVIOUS
  <2> HIDE DEF S
  <2> QED BY <1>4, <2>1, <2>2
<1>7. CASE Lane \in {"creator", "tag", "playlist"}
  <2>1. PICK R \in SUBSET Rows : b \in Waiting(R)
    <3>1. Creators \in SUBSET Rows /\ Tags \in SUBSET Rows /\ Playlists \in SUBSET Rows
      BY DEF Rows
    <3> QED BY <1>7, <3>1 DEF Batches, PickCreators, PickTags, PickPlaylists
  <2> DEFINE S == {r \in R : rows[r].queued /\ ~rows[r].done}
  <2>2. b \in [1 .. (IF PerPass < Cardinality(S) THEN PerPass ELSE Cardinality(S)) -> S]
    BY <2>1 DEF Waiting, FirstOf
  <2>3. S \in SUBSET Rows /\ \A r \in S : rows[r].queued
    OBVIOUS
  <2> HIDE DEF S
  <2>4. IsFiniteSet(S)
    BY <1>2, <2>3, FS_Subset
  <2>5. b \in Seq(S) /\ \A i \in DOMAIN b : b[i] \in S
    BY <2>2, <2>4, PickedFrom
  <2>6. b \in Seq(Subjects)
    BY <2>3, <2>5 DEF Subjects
  <2> QED BY <1>7, <2>3, <2>5, <2>6
<1> QED BY <1>1, <1>3, <1>5, <1>6, <1>7

\* The daemon takes a batch.
LEMMA PickCovers ==
  ASSUME CoverInv, Pick
  PROVE  CoverInv'
<1>1. UNCHANGED <<world, rows, corpus, owed, slipped>> /\ top.pc = "pick"
  BY DEF Pick, db
<1>2. RowsHold' /\ ServiceTyped'
  BY <1>1, RowsStay, ServiceStays DEF CoverInv, RowsHold
<1>3. PICK b \in Batches : IF b = <<>> THEN NextLane ELSE top' = [top EXCEPT !.pc = "fetch", !.batch = b]
  BY DEF Pick
<1>4. DaemonHolds /\ top.lane \in 2 .. 7
  BY <1>1 DEF CoverInv, DaemonHolds
<1>5. CASE NextLane
  BY <1>2, <1>4, <1>5, NextLaneHolds DEF CoverInv
<1>6. CASE b # <<>> /\ top' = [top EXCEPT !.pc = "fetch", !.batch = b]
  <2>1. b \in Seq(Subjects) /\ \A i \in DOMAIN b : b[i] \in Rows => rows[b[i]].queued /\ Lane # "harvest"
    BY <1>1, BatchHolds
  <2>2. top \in DaemonRecord /\ top.now = {} /\ "fetch" \in Stage
    BY <1>1, <1>4 DEF DaemonHolds, Stage
  <2>3. top' \in DaemonRecord
    BY <1>6, <2>1, <2>2 DEF DaemonRecord
  <2>4. top'.pc = "fetch" /\ top'.batch = b /\ top'.lane = top.lane /\ top'.now = top.now /\ top'.todo = top.todo
    BY <1>6, <2>2 DEF DaemonRecord
  <2>5. Lane' = Lane
    BY <2>4 DEF Lane
  <2>6. DaemonHolds' /\ PageHolds'
    BY <1>1, <1>4, <1>6, <2>1, <2>2, <2>3, <2>4, <2>5 DEF DaemonHolds, PageHolds, InHand
  <2> QED BY <1>2, <2>6 DEF CoverInv
<1> QED BY <1>3, <1>5, <1>6

\* A page has no more winners than clips, and each clip that qualifies is one.
LEMMA WinnersFit ==
  ASSUME ServiceTyped, NEW page \in SUBSET Clips
  PROVE  /\ IsFiniteSet(page) /\ Cardinality(page) \in Nat
         /\ IsFiniteSet(Winners(page)) /\ Cardinality(Winners(page)) <= Cardinality(page)
         /\ Winners(page) \in SUBSET Winning
         /\ \A c \in page \ world.gone :
              Qualifies(world.count[c]) => \E x \in Winners(page) : x.clip = c
<1>1. \A c \in page : Counted(c) \in [clip : Clips, count : Counts] /\ Counted(c).clip = c
                      /\ Counted(c).count = world.count[c]
  BY DEF Counted, ServiceTyped
<1>2. Winners(page) \in SUBSET Winning
  BY <1>1 DEF Winners, Winning
<1>3. IsFiniteSet(page) /\ Cardinality(page) \in Nat
  BY CorpusAssumption, FS_Subset, FS_CardinalityType
<1> DEFINE f == [x \in Winners(page) |-> x.clip]
<1>4. f \in Injection(Winners(page), page)
  <2>1. \A x \in Winners(page) : \E c \in page : x = Counted(c) /\ x.clip = c
    BY <1>1 DEF Winners
  <2>2. f \in [Winners(page) -> page] /\ \A x, y \in Winners(page) : f[x] = f[y] => x = y
    BY <2>1
  <2> QED BY <2>2 DEF Injection, IsInjective
<1>5. IsFiniteSet(Winners(page)) /\ Cardinality(Winners(page)) <= Cardinality(page)
  BY <1>3, <1>4, FS_Injection
<1>6. ASSUME NEW c \in page \ world.gone, Qualifies(world.count[c]) PROVE \E x \in Winners(page) : x.clip = c
  <2>1. Counted(c) \in Winners(page) /\ Counted(c).clip = c
    BY <1>1, <1>6 DEF Winners
  <2> QED BY <2>1
<1> QED BY <1>2, <1>3, <1>5, <1>6

\* A page is in hand: the daemon keeps its batch, the winners, and the largest
\* count of the page.
LEMMA FetchedHolds ==
  ASSUME CoverInv, top.pc = "fetch", NEW page \in SUBSET Clips, NEW total \in Nat,
         Fetched(page, total), UNCHANGED <<world, rows>>
  PROVE  /\ DaemonHolds' /\ top'.batch = top.batch /\ top'.todo = Winners(page) /\ top'.got = 0
         /\ top'.len = Cardinality(page) /\ top'.total = total
         /\ total # 0 /\ page # {} =>
              \E d \in page : top'.max = world.count[d]
<1> DEFINE P(n) == /\ \E c \in page : world.count[c] = n
                   /\ \A c \in page : world.count[c] <= n
           max == IF total = 0 \/ page = {} THEN 0 ELSE CHOOSE n \in 0 .. MaxCount : P(n)
<1>1. ServiceTyped /\ DaemonHolds /\ top \in DaemonRecord /\ top.now = {} /\ top.lane \in 2 .. 7
  BY DEF CoverInv, DaemonHolds
<1>2. page # {} => \E n \in 0 .. MaxCount : P(n)
  <2> SUFFICES ASSUME page # {} PROVE \E n \in 0 .. MaxCount : P(n)
    OBVIOUS
  <2> DEFINE S == {world.count[c] : c \in page}
  <2>1. S \in SUBSET (0 .. MaxCount) /\ S # {} /\ MaxCount \in Nat
    BY <1>1, CorpusBounds DEF ServiceTyped, Counts
  <2>2. PICK n \in S : \A k \in S : k <= n
    <3> HIDE DEF S
    <3> QED BY <2>1, Largest
  <2> QED BY <2>1, <2>2
<1>3. /\ max \in 0 .. MaxCount \cup {0}
      /\ total # 0 /\ page # {} => \E d \in page : max = world.count[d]
  BY <1>2
<1>4. top' = [top EXCEPT !.pc = "store", !.todo = Winners(page), !.got = 0,
                         !.len = Cardinality(page), !.total = total, !.max = max]
  BY DEF Fetched
<1> HIDE DEF P, max
<1>5. max \in Nat
  BY <1>3, CorpusBounds
<1>6. Winners(page) \in SUBSET Winning /\ Cardinality(page) \in Nat /\ "store" \in Stage
  BY <1>1, WinnersFit DEF Stage
<1>7. top' \in DaemonRecord
  BY <1>1, <1>4, <1>5, <1>6 DEF DaemonRecord
<1>8. /\ top'.pc = "store" /\ top'.batch = top.batch /\ top'.lane = top.lane /\ top'.now = top.now
      /\ top'.todo = Winners(page) /\ top'.got = 0 /\ top'.len = Cardinality(page)
      /\ top'.total = total /\ top'.max = max
  BY <1>1, <1>4 DEF DaemonRecord
<1>9. Lane' = Lane
  BY <1>8 DEF Lane
<1>10. DaemonHolds'
  BY <1>1, <1>7, <1>8, <1>9 DEF DaemonHolds
<1> QED BY <1>3, <1>8, <1>10

\* The page of row r is in hand: a missing clip that is not on it is behind it,
\* so the page is full, the listing has room for all of them, and a tag's page
\* holds no count below theirs.
LEMMA PageCovers ==
  ASSUME CoverInv, NEW r \in Rows, rows[r].queued, UNCHANGED <<world, rows>>,
         NEW B \in SUBSET Missing(r), B \cap Page(r) = {},
         top'.len = Cardinality(Page(r)), top'.total = Cardinality(Listed(r)),
         top'.total # 0 /\ Page(r) # {} => \E d \in Page(r) : top'.max = world.count[d]
  PROVE  /\ \A c \in B : Ahead(r, c)'
         /\ B # {} => 0 < top'.len /\ From(r) + top'.len + Cardinality(B) <= top'.total
<1>1. /\ ServiceTyped /\ From(r) \in Nat
      /\ \A c \in B : From(r) <= Place(r, c) /\ c \in Listed(r) /\ Qualifies(world.count[c])
  BY DEF CoverInv, RowsHold, RowHolds, Missing
<1>2. Until(r)' = Until(r) /\ \A c : Place(r, c)' = Place(r, c)
  BY DEF From, Size, Until, Place, Listed
<1>3. Size(r) \in Nat \ {0} /\ Cardinality(Listed(r)) \in Nat /\ Until(r) = From(r) + Size(r)
  BY <1>1, Sizes, Placed DEF Until
<1>4. \A c \in B : Until(r) <= Place(r, c)
  BY <1>1, PageFills
<1>5. B \in SUBSET Listed(r)
  BY <1>1
<1>6. ASSUME B # {}
      PROVE  0 < top'.len /\ From(r) + top'.len + Cardinality(B) <= top'.total
             /\ Page(r) # {} /\ top'.total # 0
  <2>1. Cardinality(Page(r)) = Size(r)
    BY <1>1, <1>4, <1>6, PageFills
  <2>2. Until(r) + Cardinality(B) <= Cardinality(Listed(r))
    BY <1>1, <1>4, <1>5, <1>6, PageFills
  <2>3. Cardinality(B) \in Nat
    <3>1. Listed(r) \in SUBSET Clips
      BY DEF Listed
    <3> QED BY <1>5, <3>1, Fewer
  <2>4. Page(r) # {}
    BY <1>3, <2>1, FS_EmptySet
  <2> QED BY <1>1, <1>3, <2>1, <2>2, <2>3, <2>4
<1>7. ASSUME r \in Tags, NEW c \in B PROVE Qualifies(top'.max)
  <2>1. PICK d \in Page(r) : top'.max = world.count[d]
    BY <1>6, <1>7
  <2>2. r \notin Playlists
    BY <1>7, CorpusAssumption
  <2>3. d \in Clips /\ c \in Clips
    BY <1>1 DEF Page, Listed
  <2>4. world.count[d] \in Counts /\ world.count[c] \in Counts
    BY <1>1, <2>3 DEF ServiceTyped
  <2>5. Precedes(world, r, d, c)
    BY <1>1, <1>4, PageFills
  <2>6. world.count[d] >= world.count[c]
    BY <1>7, <2>2, <2>4, <2>5, CorpusBounds DEF Precedes, Counts
  <2> QED BY <1>1, <2>1, <2>4, <2>6, CorpusBounds DEF Qualifies, Counts
<1>8. \A c \in B : Ahead(r, c)'
  BY <1>2, <1>4, <1>7 DEF Ahead
<1> QED BY <1>6, <1>8

\* A page arrives, of a row or of something else.
LEMMA FetchCovers ==
  ASSUME CoverInv, Fetch
  PROVE  CoverInv'
<1>1. UNCHANGED <<world, rows, corpus, owed, slipped>> /\ top.pc = "fetch"
  BY DEF Fetch, db
<1>2. RowsHold' /\ ServiceTyped' /\ DaemonHolds /\ ServiceTyped
  BY <1>1, RowsStay, ServiceStays DEF CoverInv, RowsHold
<1>3. /\ top.lane \in 2 .. 7 /\ top.batch \in Seq(Subjects) /\ top.batch # <<>>
      /\ \A i \in DOMAIN top.batch : top.batch[i] \in Rows => rows[top.batch[i]].queued /\ Lane # "harvest"
  BY <1>1, <1>2, DaemonFields DEF DaemonHolds
<1>4. Item \in Rows => rows[Item].queued /\ Lane # "harvest" /\ Item \notin Clips
  <2>1. Item = top.batch[1] /\ 1 \in DOMAIN top.batch
    BY <1>3 DEF Item
  <2> QED BY <1>3, <2>1, CorpusAssumption
<1>5. CASE NextLane
  BY <1>2, <1>3, <1>5, NextLaneHolds DEF CoverInv
<1>6. ASSUME NEW page \in SUBSET Clips, Fetched(page, 0), Item \notin Rows PROVE CoverInv'
  <2>1. DaemonHolds' /\ top'.batch = top.batch
    BY <1>1, <1>6, FetchedHolds
  <2>2. Item' \notin Rows
    BY <1>6, <2>1 DEF Item
  <2> QED BY <1>2, <2>1, <2>2 DEF CoverInv, PageHolds, InHand, Item
<1>7. ASSUME Fetched(Page(Item), Cardinality(Listed(Item))) PROVE CoverInv'
  <2>0. Page(Item) \in SUBSET Clips /\ Cardinality(Listed(Item)) \in Nat
    <3>1. Page(Item) \in SUBSET Clips /\ Listed(Item) \in SUBSET Clips
      BY DEF Page, Listed
    <3> QED BY <3>1, CorpusAssumption, FS_Subset, FS_CardinalityType
  <2>1. /\ DaemonHolds' /\ top'.batch = top.batch /\ top'.todo = Winners(Page(Item)) /\ top'.got = 0
        /\ top'.len = Cardinality(Page(Item)) /\ top'.total = Cardinality(Listed(Item))
        /\ top'.total # 0 /\ Page(Item) # {} => \E d \in Page(Item) : top'.max = world.count[d]
    BY <1>1, <1>7, <2>0, FetchedHolds
  <2>2. PageHolds'
    <3> SUFFICES ASSUME NEW r \in Rows, InHand(r)' PROVE PageHeld(r)'
      BY DEF PageHolds
    <3>1. r = Item /\ rows[r].queued /\ From(r) \in Nat
      BY <1>4, <2>1 DEF Item, InHand, CoverInv, RowsHold, RowHolds
    <3>2. /\ IsFiniteSet(Winners(Page(r))) /\ Cardinality(Winners(Page(r))) <= Cardinality(Page(r))
          /\ Cardinality(Winners(Page(r))) \in Nat
          /\ \A c \in Page(r) \ world.gone :
               Qualifies(world.count[c]) => \E x \in Winners(Page(r)) : x.clip = c
      BY <1>2, <2>0, <3>1, WinnersFit, FS_CardinalityType
    <3>3. Cardinality(Page(r)) <= Size(r)
      <4>1. Cardinality(Page(r)) \in 0 .. Size(r) /\ Size(r) \in Nat
        BY <1>2, <3>1, PageFills, Sizes
      <4> QED BY <4>1
    <3>4. /\ Missing(r)' = Missing(r)
          /\ \A c \in Missing(r) : Qualifies(world.count[c]) /\ c \notin world.gone
      BY <1>1 DEF Missing, CoverInv, RowsHold, RowHolds
    <3>5. Left(r)' \in SUBSET Missing(r) /\ Left(r)' \cap Page(r) = {}
      BY <2>1, <3>1, <3>2, <3>4 DEF Left
    <3>6. From(r)' = From(r) /\ Size(r)' = Size(r)
      BY <1>1 DEF From, Size
    <3>7. /\ \A c \in Left(r)' : Ahead(r, c)'
          /\ Left(r)' # {} => 0 < top'.len /\ From(r) + top'.len + Cardinality(Left(r)') <= top'.total
      BY <1>1, <2>1, <3>1, <3>5, PageCovers
    <3>8. IsFiniteSet(top'.todo) /\ top'.got + Cardinality(top'.todo) <= top'.len /\ top'.len <= Size(r)'
      BY <2>1, <3>1, <3>2, <3>3, <3>6
    <3> QED BY <3>6, <3>7, <3>8 DEF PageHeld
  <2> QED BY <1>2, <2>1, <2>2 DEF CoverInv
<1>8. ASSUME Lane = "harvest", NEW c \in Range(world.feed), Fetched({c}, 0) PROVE CoverInv'
  <2>1. c \in Clips
    BY <1>2, <1>8 DEF ServiceTyped, Range
  <2> QED BY <1>4, <1>6, <1>8, <2>1
<1>9. ASSUME Item \in Clips, Fetched({Item}, 0) PROVE CoverInv'
  BY <1>4, <1>6, <1>9
<1> QED BY <1>5, <1>7, <1>8, <1>9 DEF Fetch

\* What the daemon works on, as a row: it is queued.
LEMMA ItemQueued ==
  ASSUME DaemonHolds, top.pc \in {"fetch", "store", "insert"}, Item \in Rows
  PROVE  rows[Item].queued
<1>1. top.batch \in Seq(Subjects) /\ top.batch # <<>>
      /\ \A i \in DOMAIN top.batch : top.batch[i] \in Rows => rows[top.batch[i]].queued
  BY DaemonFields DEF DaemonHolds
<1>2. Item = top.batch[1] /\ 1 \in DOMAIN top.batch
  BY <1>1 DEF Item
<1> QED BY <1>1, <1>2

\* A row fails: its cursor stays, or it is given up and owes nothing.
LEMMA FetchFailsCovers ==
  ASSUME CoverInv, FetchFails
  PROVE  CoverInv'
<1>1. UNCHANGED <<world, corpus, slipped>> /\ top.pc = "fetch" /\ NextItem
  BY DEF FetchFails
<1>2. /\ rows \in [Rows -> Row] /\ owed \in [Rows -> SUBSET Clips] /\ DaemonHolds
      /\ slipped \in [Rows -> SUBSET Clips]
      /\ \A r \in Rows : RowHolds(r)
  BY DEF CoverInv, RowsHold
<1>3. RowsHold' /\ \A r \in Rows : rows[r].queued => rows'[r].queued
  <2>1. CASE Item \notin Rows
    <3>1. UNCHANGED <<rows, owed>>
      BY <2>1 DEF FetchFails
    <3> QED BY <1>1, <1>2, <3>1, RowsStay DEF CoverInv
  <2>2. CASE Item \in Rows
    <3> PICK r \in Rows : r = Item
      BY <2>2
    <3>1. /\ rows' = [rows EXCEPT ![r] = Failed(r)]
          /\ owed' = [owed EXCEPT ![r] = IF rows'[r].done THEN {} ELSE owed[r]]
      BY <2>2 DEF FetchFails
    <3>2. /\ rows[r] \in Row /\ Failed(r) \in Row /\ Failed(r).queued = rows[r].queued
          /\ Failed(r).next = rows[r].next /\ Failed(r).indexed = rows[r].indexed
      <4> DEFINE d == rows[r].failures + 1 >= GiveUp
      <4>1. rows[r] \in Row /\ rows[r].failures + 1 \in Nat /\ d \in BOOLEAN
        BY <1>2 DEF Row
      <4>2. Failed(r) = [rows[r] EXCEPT !.failures = rows[r].failures + 1, !.done = d]
        BY DEF Failed
      <4> HIDE DEF d
      <4> QED BY <4>1, <4>2 DEF Row
    <3>3. rows' \in [Rows -> Row] /\ owed' \in [Rows -> SUBSET Clips] /\ rows'[r] = Failed(r)
          /\ owed'[r] \subseteq owed[r] /\ (owed'[r] # {} => ~rows'[r].done)
      BY <1>2, <3>1, <3>2
    <3>4. ASSUME NEW q \in Rows, q # r PROVE RowHolds(q)'
      <4>1. rows'[q] = rows[q] /\ owed'[q] = owed[q]
        BY <1>2, <3>1, <3>4
      <4> QED BY <1>1, <1>2, <4>1, RowStays
    <3>5. RowHolds(r)'
      <4>1. From(r)' = From(r) /\ Reach(r)' = Reach(r)
        BY <3>2, <3>3 DEF From, Reach
      <4>2. Missing(r)' \subseteq Missing(r) /\ Missing(r)' \subseteq owed'[r]
        BY <1>1, <3>3 DEF Missing
      <4>3. Listed(r)' = Listed(r) /\ \A c : Place(r, c)' = Place(r, c)
        BY <1>1 DEF Listed, Place
      <4>4. rows'[r].done => Cardinality(Missing(r)') <= Overlap(r)
        <5>1. rows'[r].done => Missing(r)' = {}
          BY <3>3, <4>2
        <5> QED BY <5>1, Sizes, FS_EmptySet
      <4> QED BY <1>1, <1>2, <3>2, <3>3, <4>1, <4>2, <4>3, <4>4 DEF RowHolds, Overlap
    <3> QED BY <1>1, <1>2, <3>1, <3>2, <3>3, <3>4, <3>5 DEF RowsHold
  <2> QED BY <2>1, <2>2
<1>4. DaemonHolds' /\ PageHolds'
  BY <1>1, <1>2, <1>3, NextItemHolds
<1> QED BY <1>1, <1>3, <1>4, ServiceStays DEF CoverInv

\* One clip fewer to store: it is stored, or it is not owed any longer.
LEMMA OneStored ==
  ASSUME CoverInv, top.pc \in {"store", "insert"}, NEW x \in top.todo, RowsHold', UNCHANGED <<world, slipped>>,
         top' = [top EXCEPT !.pc = "store", !.todo = @ \ {x}, !.now = {}, !.got = @ + 1]
         \/ (top' = [top EXCEPT !.todo = @ \ {x}] /\ top.pc = "store"),
         \A r \in Rows : rows[r].queued => /\ rows'[r] = rows[r] /\ owed'[r] \subseteq owed[r]
                                           /\ Missing(r)' \subseteq Missing(r) \ {x.clip}
  PROVE  CoverInv'
<1>1. /\ DaemonHolds /\ top \in DaemonRecord /\ top.todo \subseteq Winning /\ top.got \in Nat
      /\ top.len \in Nat /\ top.lane \in 2 .. 7
  BY DaemonFields DEF CoverInv, DaemonHolds
<1>2. /\ top'.pc = "store" /\ top'.lane = top.lane /\ top'.batch = top.batch
      /\ top'.todo = top.todo \ {x} /\ top'.now = {} /\ top'.got \in {top.got, top.got + 1}
      /\ top'.len = top.len /\ top'.total = top.total /\ top'.max = top.max
      /\ top' \in DaemonRecord
  <2>1. "store" \in Stage /\ top.got + 1 \in Nat /\ top.todo \ {x} \in SUBSET Winning
        /\ (top.pc = "store" => top.now = {})
    BY <1>1 DEF Stage, DaemonHolds
  <2>2. CASE top' = [top EXCEPT !.pc = "store", !.todo = @ \ {x}, !.now = {}, !.got = @ + 1]
    BY <1>1, <2>1, <2>2 DEF DaemonRecord
  <2>3. CASE top' = [top EXCEPT !.todo = @ \ {x}] /\ top.pc = "store"
    BY <1>1, <2>1, <2>3 DEF DaemonRecord
  <2> QED BY <2>2, <2>3
<1>3. Lane' = Lane /\ Item' = Item
  BY <1>2 DEF Lane, Item
<1>4. DaemonHolds'
  BY <1>1, <1>2, <1>3 DEF DaemonHolds
<1>5. PageHolds'
  <2> SUFFICES ASSUME NEW r \in Rows, InHand(r)' PROVE PageHeld(r)'
    BY DEF PageHolds
  <2>0. InHand(r)
    BY <1>2 DEF InHand
  <2>1. PageHeld(r) /\ rows[r].queued
    BY <1>1, <2>0, HandQueued DEF CoverInv, PageHolds
  <2>2. rows'[r] = rows[r] /\ \A c : Place(r, c)' = Place(r, c)
    BY <2>1 DEF Place, Listed
  <2>3. IsFiniteSet(top'.todo) /\ top'.got + Cardinality(top'.todo) <= top.len
    <3>1. IsFiniteSet(top.todo) /\ top.got + Cardinality(top.todo) <= top.len
          /\ Cardinality(top.todo) \in Nat
      BY <2>1, FS_CardinalityType DEF PageHeld
    <3>2. IsFiniteSet(top.todo \ {x}) /\ Cardinality(top.todo \ {x}) = Cardinality(top.todo) - 1
      BY <3>1, FS_RemoveElement
    <3> QED BY <1>1, <1>2, <3>1, <3>2
  <2>4. Left(r)' \subseteq Left(r)
    <3>1. Missing(r)' \subseteq Missing(r) \ {x.clip}
      BY <2>1
    <3> QED BY <1>2, <3>1 DEF Left
  <2>5. \A c \in Left(r)' : Until(r) <= Place(r, c) => Until(r) <= Place(r, c)'
    BY <2>2
  <2>6. top'.len = top.len /\ top'.total = top.total /\ top'.max = top.max /\ rows'[r] = rows[r]
    BY <1>2, <2>2
  <2> QED BY <2>1, <2>3, <2>4, <2>5, <2>6, PageKeeps
<1> QED BY <1>4, <1>5, ServiceStays DEF CoverInv

\* storeClip: the clip is covered, its author is queued, the other rows stay.
LEMMA CommitCovers ==
  ASSUME CorpusInv, CoverInv, top.pc \in {"store", "insert"}, NEW x \in top.todo, NEW record, Commit(x, record)
  PROVE  CoverInv'
<1>1. x \in Winning /\ x.clip \in Clips /\ x.count \in Counts /\ NoCount \notin Counts
      /\ corpus \in [Clips -> {NoCount} \cup Counts]
  BY CorpusBounds DEF CorpusInv, TopHolds, Winning, TablesTyped
<1>2. /\ corpus' = [corpus EXCEPT ![x.clip] = x.count] /\ UNCHANGED <<world, slipped>>
      /\ top' = [top EXCEPT !.pc = "store", !.todo = @ \ {x}, !.now = {}, !.got = @ + 1]
      /\ rows' = Queued({Author[x.clip]}) /\ owed' = Owed({Author[x.clip]})
  BY DEF Commit, Ensure
<1>3. corpus'[x.clip] # NoCount /\ \A c \in Clips : corpus[c] # NoCount => corpus'[c] # NoCount
  BY <1>1, <1>2
<1>4. {Author[x.clip]} \in SUBSET Rows
  BY <1>1, CorpusAssumption DEF Rows
<1>5. RowsHold' /\ \A r \in Rows : rows[r].queued => rows'[r] = rows[r] /\ owed'[r] = owed[r]
  BY <1>2, <1>3, <1>4, EnsureHolds DEF CoverInv
<1>6. ASSUME NEW r \in Rows, rows[r].queued
      PROVE  /\ rows'[r] = rows[r] /\ owed'[r] \subseteq owed[r]
             /\ Missing(r)' \subseteq Missing(r) \ {x.clip}
  <2>1. owed[r] \subseteq Clips /\ owed'[r] = owed[r] /\ rows'[r] = rows[r]
    BY <1>5, <1>6 DEF CoverInv, RowsHold
  <2> QED BY <1>2, <1>3, <2>1 DEF Missing
<1> QED BY <1>2, <1>5, <1>6, OneStored

LEMMA StoreCovers ==
  ASSUME CorpusInv, CoverInv, StoreKnown \/ Insert
  PROVE  CoverInv'
<1>1. CASE StoreKnown
  <2>1. PICK x \in top.todo : Commit(x, ShouldRecord(x.clip, x.count))
    BY <1>1 DEF StoreKnown
  <2> QED BY <1>1, <2>1, CommitCovers DEF StoreKnown
<1>2. CASE Insert
  <2>1. PICK x \in top.now : Commit(x, TRUE)
    BY <1>2 DEF Insert
  <2>2. x \in top.todo
    BY DEF CoverInv, DaemonHolds
  <2> QED BY <1>2, <2>1, <2>2, CommitCovers DEF Insert
<1> QED BY <1>1, <1>2

\* A clip whose transaction failed is not owed any longer.
LEMMA StoreFailsCovers ==
  ASSUME CorpusInv, CoverInv, StoreFails
  PROVE  CoverInv'
<1>1. PICK x \in top.todo : /\ top' = [top EXCEPT !.todo = @ \ {x}]
                            /\ owed' = [r \in Rows |-> owed[r] \ {x.clip}]
  BY DEF StoreFails
<1>2. UNCHANGED <<world, rows, corpus, slipped>> /\ top.pc = "store" /\ owed \in [Rows -> SUBSET Clips]
  BY DEF StoreFails, db, CoverInv, RowsHold
<1>3. owed' \in [Rows -> SUBSET Clips] /\ \A r \in Rows : owed'[r] = owed[r] \ {x.clip}
  BY <1>1, <1>2
<1>4. RowsHold'
  BY <1>2, <1>3, RowsStay DEF CoverInv
<1>5. \A r \in Rows : Missing(r)' \subseteq Missing(r) \ {x.clip}
  BY <1>2, <1>3 DEF Missing
<1> QED BY <1>1, <1>2, <1>3, <1>4, <1>5, OneStored

\* The clip that was not found is still to be stored.
LEMMA SelectNoneCovers ==
  ASSUME CoverInv, SelectNone
  PROVE  CoverInv'
<1>1. UNCHANGED <<world, rows, corpus, owed, slipped>> /\ top.pc = "store"
  BY DEF SelectNone, db
<1>2. PICK x \in top.todo : top' = [top EXCEPT !.pc = "insert", !.now = {x}]
  BY DEF SelectNone
<1>3. DaemonHolds /\ top \in DaemonRecord /\ {x} \in SUBSET Winning /\ "insert" \in Stage
  BY DaemonFields DEF CoverInv, DaemonHolds, Stage
<1>4. top' \in DaemonRecord
  BY <1>2, <1>3 DEF DaemonRecord
<1>5. /\ top'.pc = "insert" /\ top'.lane = top.lane /\ top'.batch = top.batch
      /\ top'.todo = top.todo /\ top'.now = {x} /\ top'.got = top.got
      /\ top'.len = top.len /\ top'.total = top.total /\ top'.max = top.max
  BY <1>2, <1>3 DEF DaemonRecord
<1>6. Lane' = Lane /\ Item' = Item
  BY <1>5 DEF Lane, Item
<1>7. DaemonHolds'
  BY <1>1, <1>3, <1>4, <1>5, <1>6 DEF DaemonHolds
<1>8. RowsHold' /\ ServiceTyped'
  BY <1>1, RowsStay, ServiceStays DEF CoverInv, RowsHold
<1>9. PageHolds'
  <2> SUFFICES ASSUME NEW r \in Rows, InHand(r)' PROVE PageHeld(r)'
    BY DEF PageHolds
  <2>1. InHand(r)
    BY <1>1, <1>5 DEF InHand
  <2>2. PageHeld(r) /\ rows[r].queued
    BY <1>3, <2>1, HandQueued DEF CoverInv, PageHolds
  <2>3. Left(r)' = Left(r) /\ \A c : Place(r, c)' = Place(r, c)
    BY <1>1, <1>5 DEF Left, Missing, Place, Listed
  <2>4. IsFiniteSet(top'.todo) /\ top'.got + Cardinality(top'.todo) <= top.len
    BY <1>5, <2>2 DEF PageHeld
  <2>5. \A c \in Left(r)' : Until(r) <= Place(r, c) => Until(r) <= Place(r, c)'
    BY <2>3
  <2>6. top'.len = top.len /\ top'.total = top.total /\ top'.max = top.max /\ rows'[r] = rows[r]
    BY <1>1, <1>5
  <2> QED BY <2>2, <2>3, <2>4, <2>5, <2>6, PageKeeps
<1> QED BY <1>7, <1>8, <1>9 DEF CoverInv

\* What a walked page makes of its row, per kind of row.
LEMMA WalkedRow ==
  ASSUME NEW r \in Rows, rows[r] \in Row, top \in DaemonRecord
  PROVE  /\ Walked(r) \in Row /\ Walked(r).queued = rows[r].queued
         /\ r \in Creators =>
              /\ Walked(r).next = rows[r].next + 1 /\ Walked(r).indexed = rows[r].indexed + top.got
              /\ Walked(r).done => top.len = 0 \/ (top.total > 0 /\ Walked(r).indexed >= top.total)
         /\ r \in Tags =>
              /\ Walked(r).next = rows[r].next + top.len
              /\ Walked(r).done => top.len = 0 \/ Walked(r).next >= top.total \/ top.max < Floor
         /\ r \in Playlists =>
              /\ Walked(r).next = rows[r].next + 1
              /\ Walked(r).done => top.len = 0 \/ (top.total > 0 /\ top.len >= top.total)
<1>1. /\ rows[r].next \in Nat /\ rows[r].indexed \in Nat /\ top.got \in Nat /\ top.len \in Nat
      /\ Creators \cap Tags = {} /\ Creators \cap Playlists = {} /\ Tags \cap Playlists = {}
  BY DaemonFields, CorpusAssumption DEF Row
<1> DEFINE old == rows[r]
           i == old.indexed + top.got
<1>2. i \in Nat /\ old.next + 1 \in Nat /\ old.next + top.len \in Nat /\ old.indexed \in Nat
  BY <1>1
<1>3. CASE r \in Creators
  <2>1. PICK d \in BOOLEAN : d <=> (top.len = 0 \/ (top.total > 0 /\ i >= top.total))
    OBVIOUS
  <2>2. Walked(r) = [queued |-> old.queued, next |-> old.next + 1, indexed |-> i, failures |-> 0, done |-> d]
    <3>1. Walked(r) = CreatorWalked(old) /\ r \notin Tags /\ r \notin Playlists
      BY <1>1, <1>3 DEF Walked
    <3> QED BY <2>1, <3>1 DEF CreatorWalked, Row
  <2>3. /\ Walked(r) \in Row /\ Walked(r).queued = old.queued /\ Walked(r).next = old.next + 1
        /\ Walked(r).indexed = i /\ Walked(r).done = d
    BY <1>2, <2>2 DEF Row
  <2> QED BY <1>1, <1>3, <2>1, <2>3
<1>4. CASE r \in Tags
  <2> DEFINE n == old.next + top.len
  <2>1. PICK d \in BOOLEAN : d <=> (top.len = 0 \/ n >= top.total \/ top.max < Floor)
    OBVIOUS
  <2>2. Walked(r) = [queued |-> old.queued, next |-> n, indexed |-> old.indexed, failures |-> 0, done |-> d]
    <3>1. Walked(r) = TagWalked(old) /\ r \notin Creators /\ r \notin Playlists
      BY <1>1, <1>4 DEF Walked
    <3> QED BY <2>1, <3>1 DEF TagWalked, TagPageAdvance, Row
  <2>3. /\ Walked(r) \in Row /\ Walked(r).queued = old.queued /\ Walked(r).next = n
        /\ Walked(r).done = d
    BY <1>2, <2>2 DEF Row
  <2> QED BY <1>1, <1>4, <2>1, <2>3
<1>5. CASE r \in Playlists
  <2>1. PICK d \in BOOLEAN : d <=> (top.len = 0 \/ (top.total > 0 /\ top.len >= top.total))
    OBVIOUS
  <2>2. Walked(r) = [queued |-> old.queued, next |-> old.next + 1, indexed |-> i, failures |-> 0, done |-> d]
    <3>1. Walked(r) = PlaylistWalked(old) /\ r \notin Tags /\ r \notin Creators
      BY <1>1, <1>5 DEF Walked
    <3> QED BY <2>1, <3>1 DEF PlaylistWalked, Row
  <2>3. /\ Walked(r) \in Row /\ Walked(r).queued = old.queued /\ Walked(r).next = old.next + 1
        /\ Walked(r).done = d
    BY <1>2, <2>2 DEF Row
  <2> QED BY <1>1, <1>5, <2>1, <2>3
<1> QED BY <1>3, <1>4, <1>5 DEF Rows

\* The cursor of a walked page stands no further than where the page ends, a
\* tag's as many clips further as the page held; a profile counts no more than
\* its pages held.
LEMMA CursorMoves ==
  ASSUME CoverInv, NEW r \in Rows, rows[r].queued, PageHeld(r), rows'[r] = Walked(r)
  PROVE  /\ rows'[r] \in Row /\ rows'[r].queued /\ From(r)' \in Nat /\ From(r)' <= Until(r)
         /\ r \in Creators => rows'[r].next # 0 /\ rows'[r].indexed <= Reach(r)'
<1>1. /\ rows[r] \in Row /\ top.got \in Nat /\ top.len \in Nat /\ top \in DaemonRecord
      /\ From(r) \in Nat /\ top.len <= Size(r)
      /\ (r \in Creators => rows[r].next # 0 /\ rows[r].indexed <= Reach(r))
      /\ rows[r].next \in Nat /\ rows[r].indexed \in Nat
  BY DaemonFields DEF CoverInv, RowsHold, RowHolds, DaemonHolds, PageHeld, Row
<1>2. /\ Size(r) \in Nat /\ PageSize \in Nat \ {0} /\ FirstPage \in Nat \ {0}
      /\ SecondPage \in Nat \ {0} /\ SecondPage <= FirstPage /\ Until(r) = From(r) + Size(r)
  BY Sizes DEF Until
<1>3. top.got <= top.len
  <2>1. Cardinality(top.todo) \in Nat /\ top.got + Cardinality(top.todo) <= top.len
    BY FS_CardinalityType DEF PageHeld
  <2> QED BY <1>1, <2>1
<1>4. rows'[r] \in Row /\ rows'[r].queued
  BY <1>1, WalkedRow
<1>5. CASE r \in Tags
  <2>1. From(r) = rows[r].next /\ From(r)' = rows'[r].next /\ r \notin Creators
    BY <1>5, CorpusAssumption DEF From
  <2>2. rows'[r].next = rows[r].next + top.len
    BY <1>1, <1>5, WalkedRow
  <2> QED BY <1>1, <1>2, <1>4, <2>1, <2>2
<1>6. CASE r \in Playlists
  <2>1. /\ From(r) = (rows[r].next - 1) * PageSize /\ From(r)' = (rows'[r].next - 1) * PageSize
        /\ Size(r) = PageSize /\ r \notin Creators
    BY <1>6, CorpusAssumption DEF From, Size
  <2>2. rows'[r].next = rows[r].next + 1
    BY <1>1, <1>6, WalkedRow
  <2>3. ((rows[r].next + 1) - 1) * PageSize = (rows[r].next - 1) * PageSize + PageSize
    BY <1>1, <1>2
  <2>4. From(r)' = From(r) + PageSize
    BY <2>1, <2>2, <2>3
  <2> QED BY <1>1, <1>2, <1>4, <2>1, <2>4
<1>7. CASE r \in Creators
  <2>1. r \notin Tags /\ r \notin Playlists
    BY <1>7, CorpusAssumption
  <2>2. rows'[r].next = rows[r].next + 1 /\ rows'[r].indexed = rows[r].indexed + top.got
    BY <1>1, <1>7, WalkedRow
  <2>3. rows[r].next # 0 /\ rows'[r].next # 1 /\ rows'[r].next - 2 = rows[r].next - 1
    BY <1>1, <1>7, <2>2
  <2>4. From(r)' = SecondPage + (rows[r].next - 1) * PageSize
    BY <1>7, <2>1, <2>3 DEF From
  <2>5. Reach(r)' = FirstPage + (rows[r].next - 1) * PageSize
    BY <2>3 DEF Reach
  <2>6. CASE rows[r].next = 1
    <3>1. From(r) = 0 /\ Size(r) = FirstPage /\ Reach(r) = 0 /\ (rows[r].next - 1) * PageSize = 0
      BY <1>2, <1>7, <2>1, <2>6 DEF From, Size, Reach
    <3> QED BY <1>1, <1>2, <1>3, <1>4, <1>7, <2>2, <2>3, <2>4, <2>5, <3>1
  <2>7. CASE rows[r].next # 1
    <3>1. /\ From(r) = SecondPage + (rows[r].next - 2) * PageSize /\ Size(r) = PageSize
          /\ Reach(r) = FirstPage + (rows[r].next - 2) * PageSize
      BY <1>7, <2>1, <2>7 DEF From, Size, Reach
    <3>2. (rows[r].next - 1) * PageSize = (rows[r].next - 2) * PageSize + PageSize
          /\ (rows[r].next - 2) * PageSize \in Int
      BY <1>1, <1>2
    <3> DEFINE m == (rows[r].next - 2) * PageSize
               k == (rows[r].next - 1) * PageSize
    <3>3. /\ From(r) = SecondPage + m /\ Reach(r) = FirstPage + m /\ k = m + PageSize /\ m \in Int
          /\ From(r)' = SecondPage + k /\ Reach(r)' = FirstPage + k
      BY <2>4, <2>5, <3>1, <3>2
    <3> HIDE DEF m, k
    <3> QED BY <1>1, <1>2, <1>3, <1>4, <1>7, <2>2, <2>3, <3>1, <3>3
  <2> QED BY <2>6, <2>7
<1> QED BY <1>5, <1>6, <1>7 DEF Rows

\* A page with missing clips behind it does not finish its row, but where a
\* profile counts clips twice.
LEMMA NotDone ==
  ASSUME CoverInv, NEW r \in Rows, rows[r].queued, PageHeld(r), rows'[r] = Walked(r),
         Missing(r) = Left(r), rows'[r].done
  PROVE  Cardinality(Missing(r)) <= Overlap(r)
<1>1. /\ rows[r] \in Row /\ top.got \in Nat /\ top.len \in Nat /\ top.max \in Nat /\ top.total \in Nat
      /\ top \in DaemonRecord /\ rows[r].indexed \in Nat /\ rows[r].next \in Nat
      /\ From(r) \in Nat /\ (r \in Creators => rows[r].next # 0 /\ rows[r].indexed <= Reach(r))
  BY DaemonFields DEF CoverInv, RowsHold, RowHolds, DaemonHolds, Row
<1>2. CASE Missing(r) = {}
  BY <1>2, Sizes, FS_EmptySet
<1>3. CASE Missing(r) # {}
  <2>1. /\ 0 < top.len /\ From(r) + top.len + Cardinality(Missing(r)) <= top.total
        /\ (r \in Tags => top.max >= Floor) /\ Floor \in Nat
    BY <1>3, CorpusAssumption DEF PageHeld, Ahead, Qualifies
  <2>2. Cardinality(Missing(r)) \in Nat /\ Overlap(r) \in Nat
    <3>1. Missing(r) \in SUBSET Clips
      BY DEF Missing, CoverInv, RowsHold
    <3> QED BY <3>1, Fewer, Sizes
  <2>3. top.got <= top.len
    <3>1. Cardinality(top.todo) \in Nat /\ top.got + Cardinality(top.todo) <= top.len
      BY FS_CardinalityType DEF PageHeld
    <3> QED BY <1>1, <3>1
  <2>4. CASE r \in Creators
    <3>1. Reach(r) <= From(r) + Overlap(r) /\ Reach(r) \in Int
      <4>1. r \notin Tags /\ r \notin Playlists
        BY <2>4, CorpusAssumption
      <4>2. (rows[r].next - 2) * PageSize \in Int
        BY <1>1, Sizes
      <4>3. FirstPage \in Nat /\ SecondPage \in Nat
        BY Sizes
      <4>4. Overlap(r) = FirstPage - SecondPage
        BY <2>4 DEF Overlap
      <4>5. CASE rows[r].next = 1
        BY <1>1, <2>2, <4>5 DEF Reach
      <4>6. CASE rows[r].next # 1
        <5>1. From(r) = SecondPage + (rows[r].next - 2) * PageSize
              /\ Reach(r) = FirstPage + (rows[r].next - 2) * PageSize
          BY <2>4, <4>1, <4>6 DEF From, Reach
        <5> QED BY <4>2, <4>3, <4>4, <5>1
      <4> QED BY <4>5, <4>6
    <3>2. rows'[r].indexed = rows[r].indexed + top.got /\ rows'[r].indexed >= top.total
      BY <1>1, <2>1, <2>4, WalkedRow
    <3> QED BY <1>1, <2>1, <2>2, <2>3, <2>4, <3>1, <3>2
  <2>5. CASE r \in Tags
    <3>1. From(r) = rows[r].next
      BY <2>5 DEF From
    <3> QED BY <1>1, <2>1, <2>2, <2>5, <3>1, WalkedRow
  <2>6. CASE r \in Playlists
    BY <1>1, <2>1, <2>2, <2>6, WalkedRow
  <2> QED BY <2>4, <2>5, <2>6 DEF Rows
<1> QED BY <1>2, <1>3

\* The page is stored.  Whatever is missing is behind the page, so the cursor does
\* not pass it, and the row is not done.
LEMMA AdvanceCovers ==
  ASSUME CorpusInv, CoverInv, Advance
  PROVE  CoverInv'
<1> DEFINE R == Edges(Item)
<1>1. /\ UNCHANGED <<world, corpus, slipped>> /\ top.pc = "store" /\ top.todo = {} /\ Item \in Rows /\ NextItem
      /\ \/ Ensure(R)
         \/ rows' = [Queued(R) EXCEPT ![Item] = Walked(Item)] /\ owed' = Owed(R)
  BY DEF Advance
<1>2. R \in SUBSET Rows
  BY CorpusAssumption DEF Edges, Rows
<1> HIDE DEF R
<1>3. /\ ServiceTyped /\ RowsHold /\ DaemonHolds
      /\ rows \in [Rows -> Row] /\ owed \in [Rows -> SUBSET Clips]
      /\ slipped \in [Rows -> SUBSET Clips]
  BY DEF CoverInv, RowsHold
<1>4. RowsHold' /\ \A q \in Rows : rows[q].queued => rows'[q].queued
  <2>1. CASE Ensure(R)
    BY <1>1, <1>2, <1>3, <2>1, EnsureHolds DEF Ensure
  <2>2. CASE rows' = [Queued(R) EXCEPT ![Item] = Walked(Item)] /\ owed' = Owed(R)
    <3> PICK r \in Rows : r = Item
      BY <1>1
    <3>1. PageHeld(r) /\ rows[r].queued /\ Missing(r) = Left(r)
      BY <1>1, <1>3, ItemQueued DEF CoverInv, PageHolds, InHand, Item, Left
    <3>2. /\ rows'[r] = Walked(r) /\ owed'[r] = owed[r]
          /\ \A q \in Rows \ {r} : rows'[q] = Queued(R)[q] /\ owed'[q] = Owed(R)[q]
          /\ DOMAIN rows' = Rows /\ rows' = [q \in Rows |-> rows'[q]] /\ owed' = [q \in Rows |-> owed'[q]]
      BY <1>3, <2>2, <3>1 DEF Queued, Owed, New
    <3>3. ASSUME NEW q \in Rows \ {r}
          PROVE  RowHolds(q)' /\ rows'[q] \in Row /\ owed'[q] \in SUBSET Clips
                 /\ (rows[q].queued => rows'[q] = rows[q] /\ owed'[q] = owed[q])
      BY <1>1, <1>2, <1>3, <3>2, EnsureRow
    <3>4. /\ rows'[r] \in Row /\ rows'[r].queued /\ From(r)' \in Nat /\ From(r)' <= Until(r)
          /\ r \in Creators => rows'[r].next # 0 /\ rows'[r].indexed <= Reach(r)'
      BY <3>1, <3>2, CursorMoves
    <3>5. RowHolds(r)'
      <4>1. /\ Missing(r)' = Missing(r) /\ Listed(r)' = Listed(r) /\ world' = world
            /\ \A c : Place(r, c)' = Place(r, c) /\ Place(r, c) \in Nat
        BY <1>1, <1>3, <3>2, Placed DEF Missing, Listed, Place
      <4>2. \A c \in Missing(r)' : From(r)' <= Place(r, c)'
        <5>1. \A c \in Missing(r) : Until(r) <= Place(r, c)
          BY <3>1 DEF PageHeld, Ahead
        <5>2. Until(r) \in Int
          BY <1>3, <3>1, Sizes DEF Until, RowsHold, RowHolds
        <5> QED BY <3>4, <4>1, <5>1, <5>2
      <4>3. \A c \in owed'[r] : c \in Listed(r)' /\ c \notin world'.gone /\ Qualifies(world'.count[c])
        BY <1>3, <3>2, <4>1 DEF RowsHold, RowHolds
      <4>4. rows'[r].done => Cardinality(Missing(r)') <= Overlap(r)
        BY <3>1, <3>2, <4>1, NotDone
      <4> QED BY <3>4, <4>2, <4>3, <4>4 DEF RowHolds, Overlap
    <3>6. rows' \in [Rows -> Row] /\ owed' \in [Rows -> SUBSET Clips]
      BY <1>3, <3>2, <3>3, <3>4
    <3> QED BY <1>1, <1>3, <3>1, <3>3, <3>4, <3>5, <3>6 DEF RowsHold
  <2> QED BY <1>1, <2>1, <2>2
<1>5. DaemonHolds' /\ PageHolds'
  BY <1>1, <1>3, <1>4, NextItemHolds
<1> QED BY <1>1, <1>3, <1>4, <1>5, ServiceStays DEF CoverInv

LEMMA CoverInit == Init => CoverInv
<1> SUFFICES ASSUME Init PROVE CoverInv
  OBVIOUS
<1>1. ServiceTyped
  BY CorpusBounds, CorpusAssumption DEF Init, ServiceTyped
<1>2. RowsHold
  <2>1. NoRow \in Row /\ NoRow.queued = FALSE /\ NoRow.done = FALSE
    BY DEF NoRow, Row
  <2>2. rows = [r \in Rows |-> NoRow] /\ owed = [r \in Rows |-> {}] /\ slipped = [r \in Rows |-> {}]
    BY DEF Init
  <2>3. \A r \in Rows : Missing(r) = {}
    BY <2>2 DEF Missing
  <2> QED BY <2>1, <2>2, <2>3 DEF RowsHold, RowHolds
<1>3. DaemonHolds /\ PageHolds
  <2>1. top = [pc |-> "down", lane |-> 0, batch |-> <<>>, todo |-> {}, now |-> {}, got |-> 0,
               len |-> 0, total |-> 0, max |-> 0]
    BY DEF Init, Down
  <2>2. <<>> \in Seq(Subjects) /\ "down" \in Stage
    BY DEF Stage
  <2>3. top \in DaemonRecord
    BY <2>1, <2>2 DEF DaemonRecord
  <2> QED BY <2>1, <2>3 DEF DaemonHolds, PageHolds, InHand
<1> QED BY <1>1, <1>2, <1>3 DEF CoverInv

LEMMA CoverStep == CorpusInv /\ CoverInv /\ [Next]_vars => CoverInv'
<1>1. CorpusInv /\ CoverInv /\ TopStep => CoverInv'
  BY BootCovers, EditorialCovers, PickCovers, FetchCovers, FetchFailsCovers, StoreCovers,
     SelectNoneCovers, StoreFailsCovers, AdvanceCovers, LeavesCover DEF TopStep
<1> QED BY <1>1, WorldCovers, LeavesCover, BystandersCover DEF Next

\* Every step of the daemon, the command and the service keeps every missing clip
\* at or behind the cursor of the rows that owe it, unless it slips under it, and
\* within the totals that end a walk, but for what two pages of a profile hold.
THEOREM CorpusCovered == Spec => []CoverInv
<1>1. Init => CoverInv
  BY CoverInit
<1>2. CorpusInv /\ CoverInv /\ [Next]_vars => CoverInv'
  BY CoverStep
<1> QED BY <1>1, <1>2, CorpusInvariant, PTL DEF Spec

\* A row the daemon calls done was walked: whatever it owed and did not slip under
\* its cursor is in suno.clips, but for as many clips as page 2 of a profile
\* repeats, however new clips, take-downs, votes, crashes and timeouts fall into
\* the walk, and whatever pages the service cuts.
THEOREM CorpusDoneMeansCovered == Spec => []DoneMeansCovered
<1>1. CoverInv => DoneMeansCovered
  BY DEF CoverInv, RowsHold, RowHolds, DoneMeansCovered
<1> QED BY <1>1, CorpusCovered, PTL

----------------------------------------------------------------------------
(* The backup and its index *)

\* A clip a worker is about to index has its master, and was hashed.
CoverHasMaster ==
  \A l \in Loops, c \in Tracks :
    worker[l][c].pc = "cover" => dest[c] # 0 /\ worker[l][c].sum # "none"

\* A worker has written nothing before it creates its file, and not all of it
\* while it copies.
WriterHasFile ==
  \A l \in Loops, c \in Tracks :
    /\ worker[l][c].pc \in {"queued", "stat", "create"} => worker[l][c].at = 0
    /\ worker[l][c].pc = "copy" => worker[l][c].fd # 0 /\ worker[l][c].at < Chunks

BackupInv == BackupTypeOK /\ CoverHasMaster /\ WriterHasFile /\ IndexedHasMaster

Worker == [pc : {"none", "queued", "stat", "create", "copy", "rename", "cover"},
           fd : Inodes \cup {0}, at : 0 .. Chunks, sum : {"none", "right", "wrong"}]

LEMMA BackupBounds ==
  /\ FeedPage \in Nat /\ RecentPages \in Nat /\ Concurrency \in Nat
  /\ Chunks \in Nat /\ Chunks > 0 /\ MaxFaults \in Nat /\ MaxCrashes \in Nat
     /\ Old \in Seq(Tracks)
BY BackupAssumption

LEMMA InodeCount == Inodes = 1 .. 4
<1>1. Cardinality({"recent"}) = 1 /\ IsFiniteSet({"recent"})
  BY FS_Singleton
<1>2. {"recent", "backfill"} = {"recent"} \cup {"backfill"} /\ "backfill" \notin {"recent"}
  OBVIOUS
<1>3. Cardinality(Loops) = 2
  BY <1>1, <1>2, FS_AddElement DEF Loops
<1> QED BY <1>3 DEF Inodes

\* Of the four inodes of a clip one is free when a worker creates a file.
LEMMA InodeFree ==
  ASSUME BackupTypeOK, NEW w \in Workers, part[w[2]] = 0
  PROVE  NewInode(w[2]) \in Inodes
<1> DEFINE c == w[2]
           a == worker["recent"][c].fd
           b == worker["backfill"][c].fd
<1>1. c \in Tracks
  BY DEF Workers
<1>2. Used(c) \subseteq {0, dest[c], a, b}
  <2> SUFFICES ASSUME NEW v \in Workers PROVE Fd(v, c) \in {0, a, b}
    BY DEF Used
  <2>1. CASE v[2] = c
    BY <2>1 DEF Workers, Loops, Fd, W
  <2>2. CASE v[2] # c
    BY <2>2 DEF Fd
  <2> QED BY <2>1, <2>2
<1>3. dest[c] \in 0 .. 4 /\ a \in 0 .. 4 /\ b \in 0 .. 4
  BY <1>1, InodeCount DEF BackupTypeOK, Loops
<1> HIDE DEF a, b, c
<1> DEFINE free(i) == i \in 1 .. 4 /\ i \notin Used(c)
<1>4. \E i \in 1 .. 4 : free(i)
  <2>1. \E i \in 1 .. 4 : i # dest[c] /\ i # a /\ i # b
    BY <1>3
  <2> QED BY <1>2, <2>1
<1>5. \E i \in 1 .. 4 : free(i) /\ \A j \in 1 .. 4 : free(j) => i <= j
  <2>1. (free(1) \/ free(2) \/ free(3) \/ free(4))
    BY <1>4
  <2> HIDE DEF free
  <2> QED BY <2>1
<1>6. \E i \in Inodes : i \notin Used(c)
      /\ \A j \in Inodes : j \notin Used(c) => i <= j
  BY <1>5, InodeCount
<1> QED BY <1>6 DEF NewInode, c

LEMMA WorkerTyping ==
  ASSUME BackupTypeOK, NEW w \in Workers
  PROVE  /\ w[1] \in Loops /\ w[2] \in Tracks /\ W(w) = worker[w[1]][w[2]]
            /\ W(w) \in Worker
BY DEF BackupTypeOK, Worker, Workers, W

LEMMA FreeTyping ==
  Free \in Worker /\ Free.pc = "none" /\ Free.at = 0
  /\ [Free EXCEPT !.pc = "queued"] \in Worker
                    /\ [Free EXCEPT !.pc = "queued"].pc = "queued"
                       /\ [Free EXCEPT !.pc = "queued"].at = 0
BY BackupBounds DEF Free, Worker

\* What a worker's step has to show: where it goes, and the files.
LEMMA WorkerMoves ==
  ASSUME BackupInv, NEW w \in Workers, NEW x \in Worker,
         worker' = [worker EXCEPT ![w[1]][w[2]] = x],
         UNCHANGED <<library, loop, crashes>>,
         x.pc \in {"queued", "stat", "create"} => x.at = 0,
         x.pc = "copy" => x.fd # 0 /\ x.at < Chunks,
         x.pc = "cover" => dest'[w[2]] # 0 /\ x.sum # "none",
         \A c \in Tracks : dest[c] # 0 => dest'[c] # 0,
         mem' \in Store, disk' \in Store,
         \A c \in Indexed(mem') \cup Indexed(disk') : dest'[c] # 0,
         meta' \subseteq Tracks, part' \in [Tracks -> Inodes \cup {0}], dest' \in [Tracks -> Inodes \cup {0}],
         data' \in [Tracks -> [Inodes -> SUBSET (1 .. Chunks)]], faults' \in 0 .. MaxFaults
  PROVE  BackupInv'
<1>1. w[1] \in Loops /\ w[2] \in Tracks
  BY DEF Workers
<1>2. /\ worker' \in [Loops -> [Tracks -> Worker]]
      /\ \A m \in Loops, d \in Tracks :
           worker'[m][d] = IF m = w[1] /\ d = w[2] THEN x ELSE worker[m][d]
  <2>1. worker \in [Loops -> [Tracks -> Worker]]
    BY DEF BackupInv, BackupTypeOK, Worker
  <2> QED BY <1>1, <2>1
<1>3. BackupTypeOK'
  BY <1>2 DEF BackupInv, BackupTypeOK, Worker
<1>4. CoverHasMaster'
  BY <1>2 DEF BackupInv, CoverHasMaster
<1>5. WriterHasFile'
  BY <1>2 DEF BackupInv, WriterHasFile
<1>6. IndexedHasMaster'
  BY DEF IndexedHasMaster, Indexed
<1> QED BY <1>3, <1>4, <1>5, <1>6 DEF BackupInv

\* What is on disk or at the workers is unchanged by the index.
LEMMA IndexAfterSave ==
  ASSUME BackupTypeOK, NEW t \in Store, Save(t)
  PROVE  /\ disk' \in Store /\ faults' \in 0 .. MaxFaults
         /\ Indexed(disk') \subseteq Indexed(t) \cup Indexed(disk)
<1>1. (disk' = t /\ faults' = faults) \/ (disk' = disk /\ faults' \in 0 .. MaxFaults)
  BY BackupBounds DEF Save, BackupTypeOK
<1> QED BY <1>1 DEF BackupTypeOK

LEMMA BeginKeeps ==
  ASSUME NEW w \in Workers
  PROVE  BackupInv /\ Begin(w) => BackupInv'
<1> SUFFICES ASSUME BackupInv, Begin(w) PROVE BackupInv'
  OBVIOUS
<1> DEFINE x == [W(w) EXCEPT !.pc = "stat"]
<1>1. W(w) \in Worker /\ W(w).pc = "queued" /\ w[1] \in Loops
      /\ w[2] \in Tracks
  BY WorkerTyping DEF BackupInv, Begin
<1>2. worker' = [worker EXCEPT ![w[1]][w[2]] = x]
  BY <1>1 DEF Begin, Goto, W, BackupInv, BackupTypeOK
<1>3. x \in Worker /\ x.pc = "stat" /\ x.at = 0
  BY <1>1 DEF Worker, BackupInv, WriterHasFile, W
<1> HIDE DEF x
<1> QED BY <1>1, <1>2, <1>3, WorkerMoves DEF Begin, shared, BackupInv, BackupTypeOK,
                                             IndexedHasMaster

LEMMA StatKeeps ==
  ASSUME NEW w \in Workers
  PROVE  BackupInv /\ Stat(w) => BackupInv'
<1> SUFFICES ASSUME BackupInv, Stat(w) PROVE BackupInv'
  OBVIOUS
<1> DEFINE sum == IF Intact(w[2], dest[w[2]]) THEN "right" ELSE "wrong"
           x == IF dest[w[2]] = 0 THEN [W(w) EXCEPT !.pc = "create"]
                ELSE [W(w) EXCEPT !.pc = "cover", !.sum = sum]
<1>1. W(w) \in Worker /\ W(w).pc = "stat" /\ w[1] \in Loops
      /\ w[2] \in Tracks
  BY WorkerTyping DEF BackupInv, Stat
<1>2. worker' = [worker EXCEPT ![w[1]][w[2]] = x]
  BY <1>1 DEF Stat, W, BackupInv, BackupTypeOK
<1>3. sum \in {"right", "wrong"}
  OBVIOUS
<1> HIDE DEF sum
<1>4. /\ x \in Worker /\ x.pc \in {"create", "cover"}
      /\ x.pc = "create" => x.at = 0
      /\ x.pc = "cover" => dest[w[2]] # 0 /\ x.sum # "none"
  BY <1>1, <1>3 DEF Worker, BackupInv, WriterHasFile, W
<1> HIDE DEF x
<1> QED BY <1>1, <1>2, <1>4, WorkerMoves DEF Stat, shared, files, BackupInv,
                                             BackupTypeOK, IndexedHasMaster

LEMMA CreateKeeps ==
  ASSUME NEW w \in Workers PROVE BackupInv /\ Create(w)
         => BackupInv'
<1> SUFFICES ASSUME BackupInv, Create(w) PROVE BackupInv'
  OBVIOUS
<1> DEFINE i == IF part[w[2]] = 0 THEN NewInode(w[2]) ELSE part[w[2]]
           x == [W(w) EXCEPT !.pc = "copy", !.fd = i]
<1>1. W(w) \in Worker /\ W(w).pc = "create" /\ w[1] \in Loops
      /\ w[2] \in Tracks
  BY WorkerTyping DEF BackupInv, Create
<1>2. i \in Inodes /\ i # 0
  BY <1>1, InodeFree, InodeCount DEF BackupInv, BackupTypeOK
<1>3. worker' = [worker EXCEPT ![w[1]][w[2]] = x]
  BY <1>1 DEF Create, W, BackupInv, BackupTypeOK
<1>4. part' = [part EXCEPT ![w[2]] = i] /\ data' = [data EXCEPT ![w[2]][i] = {}]
  BY DEF Create
<1>5. UNCHANGED <<shared, mem, disk, meta, dest, faults>>
  BY DEF Create
<1> HIDE DEF i
<1>6. x \in Worker /\ x.pc = "copy" /\ x.fd # 0 /\ x.at = 0
  BY <1>1, <1>2 DEF Worker, BackupInv, WriterHasFile, W
<1>7. part' \in [Tracks -> Inodes \cup {0}]
      /\ data' \in [Tracks -> [Inodes -> SUBSET (1 .. Chunks)]]
  BY <1>1, <1>2, <1>4 DEF BackupInv, BackupTypeOK
<1> HIDE DEF x
<1> QED BY <1>1, <1>3, <1>5, <1>6, <1>7, WorkerMoves, BackupBounds
        DEF shared, BackupInv, BackupTypeOK, IndexedHasMaster

\* A worker that gives up leaves the index and the masters alone.
LEMMA GivesUp ==
  ASSUME BackupInv, NEW w \in Workers, RollBack(w),
         UNCHANGED <<shared, mem, disk, dest, data>>,
         part' \in [Tracks -> Inodes \cup {0}], faults' \in 0 .. MaxFaults
  PROVE  BackupInv'
<1>1. Free \in Worker /\ Free.pc = "none"
  BY FreeTyping
<1>2. worker' = [worker EXCEPT ![w[1]][w[2]] = Free] /\ meta' \subseteq Tracks
  BY DEF RollBack, BackupInv, BackupTypeOK
<1> QED BY <1>1, <1>2, WorkerMoves DEF shared, BackupInv, BackupTypeOK, IndexedHasMaster

LEMMA FailsKeep ==
  ASSUME NEW w \in Workers
  PROVE  BackupInv /\ (CreateFails(w) \/ CopyFails(w) \/ RenameFails(w)) => BackupInv'
<1> SUFFICES ASSUME BackupInv, CreateFails(w) \/ CopyFails(w) \/ RenameFails(w)
             PROVE  BackupInv'
  OBVIOUS
<1>1. RollBack(w) /\ UNCHANGED <<shared, mem, disk, dest, data>>
  BY DEF CreateFails, CopyFails, RenameFails
<1>2. faults' \in 0 .. MaxFaults
  BY BackupBounds DEF CreateFails, CopyFails, RenameFails, BackupInv, BackupTypeOK
<1>3. part' \in [Tracks -> Inodes \cup {0}]
  BY WorkerTyping DEF CreateFails, CopyFails, RenameFails, BackupInv, BackupTypeOK
<1> QED BY <1>1, <1>2, <1>3, GivesUp

LEMMA CopyKeeps ==
  ASSUME NEW w \in Workers PROVE BackupInv /\ Copy(w) => BackupInv'
<1> SUFFICES ASSUME BackupInv, Copy(w) PROVE BackupInv'
  OBVIOUS
<1> DEFINE k == W(w).at + 1
           to == IF k = Chunks THEN "rename" ELSE "copy"
           x == [W(w) EXCEPT !.at = k, !.pc = to]
<1>1. W(w) \in Worker /\ W(w).pc = "copy" /\ w[1] \in Loops
      /\ w[2] \in Tracks
  BY WorkerTyping DEF BackupInv, Copy
<1>2. W(w).fd # 0 /\ W(w).fd \in Inodes /\ W(w).at \in Nat
      /\ W(w).at < Chunks
  BY <1>1, BackupBounds DEF Worker, BackupInv, WriterHasFile, W
<1>3. worker' = [worker EXCEPT ![w[1]][w[2]] = x]
  BY <1>1 DEF Copy, W, BackupInv, BackupTypeOK
<1>4. k \in 1 .. Chunks /\ k \in 0 .. Chunks /\ (to = "copy" => k < Chunks)
      /\ to \in {"copy", "rename"}
  BY <1>2, BackupBounds
<1>5. data' = [data EXCEPT ![w[2]][W(w).fd] = @ \cup {k}]
  BY DEF Copy
<1>6. UNCHANGED <<shared, mem, disk, meta, part, dest, faults>>
  BY DEF Copy
<1> HIDE DEF k, to
<1>7. x \in Worker /\ x.pc = to /\ x.fd # 0 /\ x.at = k
  BY <1>1, <1>2, <1>4 DEF Worker
<1>8. data' \in [Tracks -> [Inodes -> SUBSET (1 .. Chunks)]]
  BY <1>1, <1>2, <1>4, <1>5 DEF BackupInv, BackupTypeOK
<1> HIDE DEF x
<1> QED BY <1>1, <1>3, <1>4, <1>6, <1>7, <1>8, WorkerMoves
        DEF shared, BackupInv, BackupTypeOK, IndexedHasMaster

LEMMA RenameKeeps ==
  ASSUME NEW w \in Workers PROVE BackupInv /\ Rename(w)
         => BackupInv'
<1> SUFFICES ASSUME BackupInv, Rename(w) PROVE BackupInv'
  OBVIOUS
<1> DEFINE x == [W(w) EXCEPT !.pc = "cover", !.fd = 0, !.at = 0, !.sum = "right"]
<1>1. W(w) \in Worker /\ w[1] \in Loops /\ w[2] \in Tracks
  BY WorkerTyping DEF BackupInv
<1>2. worker' = [worker EXCEPT ![w[1]][w[2]] = x]
  BY <1>1 DEF Rename, W, BackupInv, BackupTypeOK
<1>3. x \in Worker /\ x.pc = "cover" /\ x.sum # "none"
  <2>1. 0 \in 0 .. Chunks
    BY BackupBounds
  <2> QED BY <1>1, <2>1 DEF Worker
<1>4. /\ part' \in [Tracks -> Inodes \cup {0}]
         /\ dest' \in [Tracks -> Inodes \cup {0}]
      /\ dest'[w[2]] # 0 /\ \A c \in Tracks : dest[c] # 0 => dest'[c] # 0
  BY <1>1 DEF Rename, BackupInv, BackupTypeOK
<1>5. UNCHANGED <<shared, mem, disk, meta, data, faults>>
  BY DEF Rename
<1>6. \A c \in Indexed(mem') \cup Indexed(disk') : dest'[c] # 0
  BY <1>4, <1>5 DEF BackupInv, IndexedHasMaster, Indexed
<1> HIDE DEF x
<1> QED BY <1>1, <1>2, <1>3, <1>4, <1>5, <1>6, WorkerMoves
        DEF shared, BackupInv, BackupTypeOK

\* The index gains the clip of a worker, which has its master.
LEMMA AddRecordKeeps ==
  ASSUME NEW w \in Workers PROVE BackupInv /\ AddRecord(w)
         => BackupInv'
<1> SUFFICES ASSUME BackupInv, AddRecord(w) PROVE BackupInv'
  OBVIOUS
<1>1. W(w) \in Worker /\ W(w).pc = "cover" /\ w[1] \in Loops
      /\ w[2] \in Tracks
  BY WorkerTyping DEF BackupInv, AddRecord
<1>2. dest[w[2]] # 0 /\ W(w).sum # "none"
  BY <1>1 DEF BackupInv, CoverHasMaster, W
<1>3. /\ mem' \in Store /\ Indexed(mem') \subseteq Indexed(mem) \cup {w[2]}
  <2> SUFFICES ASSUME NEW cover \in {"settled", "missing"},
                      mem' = [mem EXCEPT !.index[w[2]] = [sum |-> W(w).sum, cover |-> cover]]
               PROVE  /\ mem' \in Store
                         /\ Indexed(mem') \subseteq Indexed(mem) \cup {w[2]}
    BY DEF AddRecord
  <2>1. [sum |-> W(w).sum, cover |-> cover] \in Record
    BY <1>1, <1>2 DEF Record, Worker
  <2> QED BY <1>1, <2>1 DEF Indexed, Store, BackupInv, BackupTypeOK
<1>4. Save(mem')
  BY DEF AddRecord
<1>5. disk' \in Store /\ faults' \in 0 .. MaxFaults
      /\ Indexed(disk') \subseteq Indexed(mem') \cup Indexed(disk)
  BY <1>3, <1>4, IndexAfterSave DEF BackupInv
<1>6. UNCHANGED <<shared, files>>
      /\ worker' = [worker EXCEPT ![w[1]][w[2]] = Free]
  BY DEF AddRecord
<1>7. \A c \in Indexed(mem') \cup Indexed(disk') : dest'[c] # 0
  BY <1>2, <1>3, <1>5, <1>6 DEF BackupInv, IndexedHasMaster, files
<1> QED BY <1>1, <1>3, <1>5, <1>6, <1>7, FreeTyping, WorkerMoves
        DEF shared, files, BackupInv, BackupTypeOK

\* The scans hand out free workers and queued ones, and keep the index.
LEMMA ScanMoves ==
  ASSUME BackupInv, UNCHANGED <<library, files, crashes>>,
         worker' \in [Loops -> [Tracks -> Worker]],
         \A l \in Loops, c \in Tracks :
           \/ worker'[l][c] = worker[l][c]
           \/ worker'[l][c].pc \in {"none", "queued"} /\ worker'[l][c].at = 0,
         loop' \in [Loops -> [pc : {"idle", "fetch", "wait"}, page : Nat]],
         mem' \in Store, disk' \in Store, faults' \in 0 .. MaxFaults,
         Indexed(mem') \cup Indexed(disk') \subseteq Indexed(mem) \cup Indexed(disk)
  PROVE  BackupInv'
<1>1. BackupTypeOK'
  BY DEF BackupInv, BackupTypeOK, Worker, files
<1>2. CoverHasMaster'
  BY DEF BackupInv, CoverHasMaster, files
<1>3. WriterHasFile'
  BY DEF BackupInv, WriterHasFile, files
<1>4. IndexedHasMaster'
  BY DEF BackupInv, IndexedHasMaster, Indexed, files
<1> QED BY <1>1, <1>2, <1>3, <1>4 DEF BackupInv

LEMMA LoopTyping ==
  ASSUME BackupTypeOK, NEW l \in Loops, NEW pc \in {"idle", "fetch", "wait"},
         NEW n \in Nat
  PROVE  /\ [loop EXCEPT ![l] = [pc |-> pc, page |-> n]]
              \in [Loops -> [pc : {"idle", "fetch", "wait"}, page : Nat]]
         /\ [loop EXCEPT ![l].pc = pc] \in [Loops -> [pc : {"idle", "fetch", "wait"}, page : Nat]]
         /\ loop[l].page \in Nat /\ mem.page \in Nat /\ faults \in 0 .. MaxFaults
BY DEF BackupTypeOK, Store

LEMMA ScanStepKeeps ==
  ASSUME NEW l \in Loops PROVE BackupInv /\ ScanStep(l)
         => BackupInv'
<1> SUFFICES ASSUME BackupInv, ScanStep(l) PROVE BackupInv'
  OBVIOUS
<1> DEFINE Loop == [Loops -> [pc : {"idle", "fetch", "wait"}, page : Nat]]
<1>1. BackupTypeOK /\ worker \in [Loops -> [Tracks -> Worker]]
      /\ Idle = [pc |-> "idle", page |-> 0]
      /\ loop \in Loop
  BY DEF BackupInv, BackupTypeOK, Worker, Idle
<1>2. ASSUME UNCHANGED <<mem, disk, faults>>
      PROVE  /\ mem' \in Store /\ disk' \in Store /\ faults' \in 0 .. MaxFaults
             /\ Indexed(mem') \cup Indexed(disk') \subseteq Indexed(mem) \cup Indexed(disk)
  BY <1>1, <1>2 DEF BackupTypeOK
<1>3. ASSUME NEW n \in Nat, NEW d \in BOOLEAN, mem' = [mem EXCEPT !.page = n, !.done = d],
      Save(mem')
      PROVE  /\ mem' \in Store /\ disk' \in Store /\ faults' \in 0 .. MaxFaults
             /\ Indexed(mem') \cup Indexed(disk') \subseteq Indexed(mem) \cup Indexed(disk)
  <2>1. mem' \in Store /\ Indexed(mem') = Indexed(mem)
    BY <1>1, <1>3 DEF BackupTypeOK, Store, Indexed
  <2> QED BY <1>1, <1>3, <2>1, IndexAfterSave
<1>4. CASE IF l = "recent" THEN StartRecent ELSE StartBackfill
  <2>1. \E n \in Nat : loop' = [loop EXCEPT ![l] = [pc |-> "fetch", page |-> n]]
    BY <1>1, <1>4, LoopTyping DEF StartRecent, StartBackfill, Loops
  <2>2. UNCHANGED <<library, mem, disk, files, worker, faults, crashes>>
    BY <1>4 DEF StartRecent, StartBackfill
  <2>3. loop' \in Loop
    BY <1>1, <2>1
  <2> QED BY <1>1, <1>2, <2>2, <2>3, ScanMoves
<1>5. CASE FetchFeed(l)
  <2>1. UNCHANGED <<library, mem, disk, files, faults, crashes>>
    BY <1>5 DEF FetchFeed
  <2>2. loop' \in Loop
    BY <1>1, <1>5, LoopTyping DEF FetchFeed
  <2> DEFINE queued == [Free EXCEPT !.pc = "queued"]
             fs(c) == IF c \in PageOf(loop[l].page) \ Indexed(mem) THEN queued ELSE Free
  <2>3. worker' = [worker EXCEPT ![l] = [c \in Tracks |-> fs(c)]]
    BY <1>5 DEF FetchFeed
  <2>4. \A c \in Tracks : fs(c) \in Worker /\ fs(c).pc \in {"none", "queued"} /\ fs(c).at = 0
    BY FreeTyping
  <2> HIDE DEF fs
  <2>5. worker' \in [Loops -> [Tracks -> Worker]]
    BY <1>1, <2>3, <2>4
  <2>6. \A m \in Loops, c \in Tracks :
           \/ worker'[m][c] = worker[m][c]
           \/ worker'[m][c].pc \in {"none", "queued"} /\ worker'[m][c].at = 0
    BY <1>1, <2>3, <2>4
  <2> QED BY <1>2, <2>1, <2>2, <2>5, <2>6, ScanMoves
<1>6. CASE FetchEmpty(l)
  <2>1. UNCHANGED <<library, files, worker, crashes>> /\ loop' \in Loop
    BY <1>1, <1>6, LoopTyping DEF FetchEmpty
  <2>2. \/ UNCHANGED <<mem, disk, faults>>
        \/ mem' = [mem EXCEPT !.page = 1, !.done = TRUE] /\ Save(mem')
    BY <1>6 DEF FetchEmpty
  <2> QED BY <1>1, <1>2, <1>3, <2>1, <2>2, ScanMoves
<1>7. CASE FeedFails(l)
  <2>1. UNCHANGED <<library, mem, disk, files, worker, crashes>> /\ loop' \in Loop
    BY <1>1, <1>7, LoopTyping DEF FeedFails
  <2>2. faults' \in 0 .. MaxFaults
    BY <1>1, <1>7, BackupBounds DEF FeedFails, BackupTypeOK
  <2> QED BY <1>1, <2>1, <2>2, ScanMoves DEF BackupTypeOK
<1>8. CASE PageDone(l)
  <2> DEFINE n == loop[l].page + 1
  <2>1. n \in Nat
    <3>1. loop[l].page \in Nat
      BY <1>1
    <3> QED BY <3>1
  <2>2. UNCHANGED <<library, files, worker, crashes>>
    BY <1>8 DEF PageDone
  <2>3. \/ loop' = [loop EXCEPT ![l] = Idle]
        \/ loop' = [loop EXCEPT ![l] = [pc |-> "fetch", page |-> n]]
    BY <1>8 DEF PageDone
  <2>4. \/ UNCHANGED <<mem, disk, faults>>
        \/ mem' = [mem EXCEPT !.page = n, !.done = FALSE] /\ Save(mem')
    BY <1>8 DEF PageDone
  <2> HIDE DEF n
  <2>5. loop' \in Loop
    BY <1>1, <2>1, <2>3
  <2> QED BY <1>1, <1>2, <1>3, <2>1, <2>2, <2>4, <2>5, ScanMoves
<1> QED BY <1>4, <1>5, <1>6, <1>7, <1>8 DEF ScanStep

LEMMA HealImageKeeps ==
  ASSUME NEW c \in Tracks PROVE BackupInv /\ HealImage(c) => BackupInv'
<1> SUFFICES ASSUME BackupInv, HealImage(c) PROVE BackupInv'
  OBVIOUS
<1>1. mem' = [mem EXCEPT !.index[c].cover = "settled"] /\ mem.index[c].cover = "missing"
      /\ Save(mem')
  BY DEF HealImage
<1>2. mem \in Store /\ mem.index[c] \in Record
  BY <1>1 DEF BackupInv, BackupTypeOK, Store, NoRecord
<1>3. [mem.index[c] EXCEPT !.cover = "settled"] \in Record
  BY <1>2 DEF Record
<1>4. mem' = [mem EXCEPT !.index = [mem.index EXCEPT ![c] = [mem.index[c] EXCEPT !.cover = "settled"]]]
  BY <1>1, <1>2 DEF Store
<1>5. mem' \in Store /\ Indexed(mem') \subseteq Indexed(mem) \cup {c}
      /\ c \in Indexed(mem)
  BY <1>2, <1>3, <1>4 DEF Store, Indexed, Record, NoRecord
<1>6. disk' \in Store /\ faults' \in 0 .. MaxFaults
      /\ Indexed(disk') \subseteq Indexed(mem') \cup Indexed(disk)
  BY <1>1, <1>5, IndexAfterSave DEF BackupInv
<1>7. UNCHANGED <<library, files, loop, worker, crashes>>
  BY DEF HealImage
<1> QED BY <1>5, <1>6, <1>7, ScanMoves DEF BackupInv, BackupTypeOK, Worker

LEMMA CrashKeeps ==
  BackupInv /\ BackupCrash => BackupInv'
<1> SUFFICES ASSUME BackupInv, BackupCrash PROVE BackupInv'
  OBVIOUS
<1>1. UNCHANGED <<library, disk, files, faults>> /\ mem' = disk
  BY DEF BackupCrash
<1>2. crashes' \in 0 .. MaxCrashes
      /\ loop' \in [Loops -> [pc : {"idle", "fetch", "wait"}, page : Nat]]
  BY BackupBounds DEF BackupCrash, BackupInv, BackupTypeOK, Idle
<1>3. worker' = [l \in Loops |-> [c \in Tracks |-> Free]]
  BY DEF BackupCrash
<1>4. worker' \in [Loops -> [Tracks -> Worker]]
  BY <1>3, FreeTyping
<1>5. BackupTypeOK'
  BY <1>1, <1>2, <1>4 DEF BackupInv, BackupTypeOK, Worker, files
<1>6. CoverHasMaster' /\ WriterHasFile'
  BY <1>3, FreeTyping DEF CoverHasMaster, WriterHasFile
<1>7. IndexedHasMaster'
  BY <1>1 DEF BackupInv, IndexedHasMaster, Indexed, files
<1> QED BY <1>5, <1>6, <1>7 DEF BackupInv

LEMMA NewTrackKeeps ==
  ASSUME NEW c \in Tracks
  PROVE  BackupInv /\ NewTrack(c) => BackupInv'
<1> SUFFICES ASSUME BackupInv, NewTrack(c) PROVE BackupInv'
  OBVIOUS
<1>1. UNCHANGED <<mem, disk, files, loop, worker, faults, crashes>>
  BY DEF NewTrack
<1>2. library' \in Seq(Tracks)
  BY DEF NewTrack, BackupInv, BackupTypeOK
<1>3. BackupTypeOK'
  BY <1>1, <1>2 DEF BackupInv, BackupTypeOK, files
<1> QED BY <1>1, <1>3 DEF BackupInv, CoverHasMaster, WriterHasFile, IndexedHasMaster,
                          Indexed, files

LEMMA BackupStarts == BackupInit => BackupInv
<1> SUFFICES ASSUME BackupInit PROVE BackupInv
  OBVIOUS
<1>1. worker = [l \in Loops |-> [c \in Tracks |-> Free]]
      /\ worker \in [Loops -> [Tracks -> Worker]]
  BY FreeTyping DEF BackupInit
<1>2. mem \in Store /\ disk \in Store /\ Indexed(mem) = {}
      /\ Indexed(disk) = {}
  BY DEF BackupInit, Store, Indexed
<1>3. data \in [Tracks -> [Inodes -> SUBSET (1 .. Chunks)]]
  BY DEF BackupInit
<1>4. BackupTypeOK
  BY <1>1, <1>2, <1>3, BackupBounds DEF BackupInit, BackupTypeOK, Idle, Worker
<1>5. CoverHasMaster /\ WriterHasFile
  BY <1>1, FreeTyping DEF CoverHasMaster, WriterHasFile
<1> QED BY <1>2, <1>4, <1>5 DEF BackupInv, IndexedHasMaster

LEMMA BackupSteps ==
  BackupInv /\ [BackupNext]_backupVars => BackupInv'
<1> SUFFICES ASSUME BackupInv, [BackupNext]_backupVars PROVE BackupInv'
  OBVIOUS
<1>1. CASE \E w \in Workers : WorkerStep(w)
  BY <1>1, BeginKeeps, StatKeeps, CreateKeeps, FailsKeep, CopyKeeps, RenameKeeps,
     AddRecordKeeps
  DEF WorkerStep
<1>2. CASE \E l \in Loops : ScanStep(l)
  BY <1>2, ScanStepKeeps
<1>3. CASE \E c \in Tracks : NewTrack(c) \/ HealImage(c)
  BY <1>3, NewTrackKeeps, HealImageKeeps
<1>4. CASE BackupCrash
  BY <1>4, CrashKeeps
<1>5. CASE UNCHANGED backupVars
  BY <1>5 DEF backupVars, files, BackupInv, BackupTypeOK, CoverHasMaster, WriterHasFile,
              IndexedHasMaster, Indexed
<1> QED BY <1>1, <1>2, <1>3, <1>4, <1>5 DEF BackupNext

\* Every worker, scan, cover pass and crash keeps masters, index and workers sound.
THEOREM BackupInvariant == BackupSpec => []BackupInv
BY BackupStarts, BackupSteps, PTL DEF BackupSpec

\* Store, files and workers keep their types: of four inodes per clip one is always
\* free when a worker creates a .part file.
THEOREM BackupTyping == BackupSpec => []BackupTypeOK
<1>1. BackupInv => BackupTypeOK
  BY DEF BackupInv
<1> QED BY <1>1, BackupInvariant, PTL

\* No clip is in the index, in memory or on disk, whose master is not under its final
\* name: after any failed download, save or crash it would not be fetched again.
THEOREM BackupIndexedHasMaster == BackupSpec => []IndexedHasMaster
<1>1. BackupInv => IndexedHasMaster
  BY DEF BackupInv
<1> QED BY <1>1, BackupInvariant, PTL

=============================================================================
