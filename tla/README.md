# TLA+ models of jupiter-os

jupiter-os is a NixOS monorepo. Its own program logic is a handful of Go
programs under `pkgs/`; the rest is declarative configuration and shell glue.
This directory holds TLA+ specifications of the programs' concurrent cores, the
TLC runs that check them and the TLAPS proofs about them. Paths below are
relative to `pkgs/model-router/` (router), `pkgs/arcade-webapp/` (arcade) and
`pkgs/suno-*/`.

    tlc -workers 2 -config RouterLedger.cfg MCRouterLedger     # one run
    tlapm RouterLedgerProofs.tla                               # one proof module

`PROJECT.json` lists every run with its module, configuration and properties,
the source lines each definition stands for, and the hazards the properties are
aimed at. Operators whose comment says *Mutant* are plausible bugs; each
property has one that breaks it, and none is part of a specification.

## 1. Inventory

### Model router

An OpenAI-compatible proxy in front of free model providers. One process, one
goroutine per request, a discovery poller, a 10 s health ticker.

| part | state | operations | hard behaviours | what makes it correct |
|---|---|---|---|---|
| quota ledger (`internal/ledger`) | ceilings, spent counters, window start and kind per scope, under one mutex | ConfigureScope, Reserve, Commit, Release, LearnFromResponse, NextReset, HeadroomRatio | leases that outlive their window; resets learnt from a response; zero and midnight boundaries | a window is charged for its own requests only; refusals have cause; over-admission is bounded |
| health machine (`internal/health`) | cooldowns per scope and state, ladder counters, event ring, its own clock | Set, Blocks, Tick, Clear, Success | the clock trails real time; verdicts of concurrent requests overwrite each other; ring overflow | cooldowns end when they should; repeats climb; the trail explains the states |
| walk (`internal/upstream`) and facade | hop, lease, committed flag, idle watchdog, the client stream | Run, stream, the parser goroutines, handleChat's terminators | parsers outlive their hop; four timers race the parser; the client goes away | one provider's content; leases settled; truncation is not success; every request answered |
| pool (`internal/pool`) | members, DRR deficits, scores, in-flight counts | SetMembers, Select, Release, ReportOutcome, Chain | members replaced during selection; fail-open | chain holds every member once, unblocked first; fair shares |
| discovery, vault, key handlers (`internal/discovery`, `internal/vault`, `cmd/router`) | mappings with tombstones, encrypted keys and their status | PollOnce, Admit, Retire, saveKey, deleteKey, syncProviderKeys | poller and handlers rebuild the same members from two readings | pools follow mappings and keys |
| classifier (`internal/health/classify.go`) | none | Dispatch, ParseCeilings | dialects that lie about their status code | each dialect gets its verdict |

The walk asks the pool for a chain, reserves in the ledger before every hop,
and reports what became of it to ledger, pool and health machine. The pool asks
the health machine which scopes are blocked. Discovery and the key handlers
replace the pool's members.

### Arcade webapp

A web control panel for a ROM library: verifies downloads with igir, scrapes
metadata with Skyscraper, scans the trees into SQLite and generates the launcher
databases the kiosks read. One process; a goroutine per HTTP request and per
background job.

| part | state | operations | hard behaviours | what makes it correct |
|---|---|---|---|---|
| heavy-job slot and runners (`internal/pipeline`, `igir`, `scrape`, `generate`) | one try-lock, a running guard per runner, the runs table | TryAcquire, Release; Verify, start, claim/release; StartRun, FinishRun, FailOrphanedRuns | three lock orders; a probe of the slot by handlers; a kill mid-job | heavy jobs never overlap; no lock or row is left behind |
| regeneration coordinator (`internal/web/generate.go`) | dirty flag, origins, deferral and failure markers, wake token | requestRegeneration, drainRegen, handleGenerate, maybeGenerateAfterVerify | requests during a pass; busy slot and retries; two generators; kill | no edit is forgotten; no file goes back; edits and promotions reach the kiosks |
| generator (`internal/generate`) | the served files | build, validate, write, sweep | kill or power cut between temp file and rename; partial failure; a sweep beside a live writer | what is served is whole; a pass that says ok served what is visible; no temp stays |
| verify of one system (`internal/igir`) | staging and games trees, reports, DAT lock | processSystem | DAT replaced under a verify; child timeout | only verified files are promoted |
| scanner (`internal/scanner`, `internal/exo`) | games, art, bios rows | Scan, scanAll, Import | trees and catalogue change during the walk | a scan of settled trees leaves exactly their rows |
| DAT refresh (`internal/dats`) | DAT files and their lock file | refresh, WriteLock | stop between files and lock; runs beside a verify | files match the lock, or the verify refuses |
| downloads (`internal/aria2`, `web/downloads.go`) | staged torrents, run rows, aria2's own queue | stage, acquire, submit a URI, retry, remove | a timed-out call the daemon still acts on; two uploads at one path; half-written torrents | a run recorded ok landed; an acknowledged upload is not overwritten |
| library and curation (`internal/store`, `web/library.go`, `web/collections.go`) | games rows, hidden flags, collections | hide, unhide all, add, remove, create, delete | pages hold ids across scans; read-then-write in handlers | memberships point at the game that was chosen; scans keep curation |

### The suno programs

| part | state | operations | hard behaviours | what makes it correct |
|---|---|---|---|---|
| `suno-backup` | index (memory and file), history cursor, a directory per clip | recent scan, history walk, workers, cover pass | two scans meet at one clip; pages shift under the cursor; crash between rename and save | the index never names a clip without a master; every clip is indexed in the end |
| `suno-top` | clips, sightings, crawl queues with cursors, seeds | seven lanes per pass, boot | pages shift either way, overlap, and listings shrink; rows that always fail; crashes and timeouts mid-page | the sightings are the time series; done means covered; queues drain |
| `suno-backfill` | ids visited, the same clips and sightings | fetch and store one id at a time | re-runs; writes beside the daemon | a cohort id is sighted once |

### Other programs

`nom-web` (a viewer of build logs), `roster-writer` (MQTT to roster file, one
message at a time). Nix hosts and modules, scripts, CI and documents carry no
state machine of their own and are not modelled.

## 2. Plan

Done: RouterLedger, RouterHealth, RouterWalk, ArcadePipeline, ArcadeRegen; then
RouterMembership, ArcadeDats and ArcadeVerify (which extends it), ArcadeLibrary,
ArcadeDownloads, SunoBackup, and SunoCorpus with its abstract specification
SunoHistory; last ArcadeGenerate, one pass of the generator. Proofs, in eight
modules that cover every component: RouterLedgerProofs, RouterPoolProofs
(RouterMembership and RouterHealth), RouterWalkProofs, ArcadeRegenProofs
(ArcadeRegen, ArcadePipeline and ArcadeGenerate),
ArcadeVerifyProofs (with ArcadeDats), ArcadeDownloadsProofs,
ArcadeLibraryProofs, SunoProofs (SunoCorpus with SunoHistory, and SunoBackup).

Possible next: ArcadeGenerate as a refinement of the one-step `Write` of
ArcadeRegen; the pool's Chain as an operator checked against a reference;
ArcadePipeline as the abstract slot under ArcadeRegen.

Every invariant and every action property the runs check is now a theorem;
what is left to TLC is liveness. Theorems worth proving next would come with the
refinements named above.

## 3. The modules

### RouterLedger

Every Go method holds the mutex from first to last line, so each is one action.
`kinds`, `ceilings`, `spent` and `windowStart` are the Go maps (an absent entry
reads 0, as in Go). `rollWindow` is `Rolls`/`RolledSpent`/`RolledStart`, used by
every action that calls it; `Observe` is the roll that NextReset and
HeadroomRatio make. `epoch` and `lease` are history: they number a scope's
windows and remember which window granted a lease and in which it was closed, so
that the counters can be compared with what was really admitted. A request
reserves one unit of rpm and one of rpd (`walk.go:85`), hence the cost of one
per dimension. Calendar days are what `time.Time.Day()` gives: the day of the
month, which repeats after `MonthDays`.

### RouterHealth

`now` is the machine's clock, `real` the time; `Tick` sets the one to the other
every `TickPeriod` (10 s in `cmd/router/main.go`). `Verdict` is what
`applyClassification` and `recordStreamFailure` pass to Set for each kind of
failure. `setAt`, `ttl` and `hits` are history. The billing branch of Set
(state.go:105-108) is left out: no caller passes RateLimit with a billing
reason, since code 1113 is classified key-fatal and goes to Terminal.

### RouterWalk

One streaming request. `pc` is where `Run` is; `parser[h]` is the goroutine that
hop `h` started, which goes on after `Run` has moved to the next hop. Reading
content is three steps, as in the code: set the flag, tick the watchdog's
channel (a panic once it is closed), relay. `Settle` is what Run does after
`stream` returns; `Answer` is handleChat after Run. Frames are abstracted to
what `contentOf` tells apart. The health and pool calls are the `outcome` of a
hop. The buffered lines a parser still holds after its body was closed are the
`Read` steps it may still take. `HardCeiling` (300 s) cannot be reached under
the 45 s budget and is left out.

### ArcadePipeline

`mutex` is the slot, `running` the three guards, `at[j]` the position of the
goroutine of job `j`. Verify probes the slot in its handler, releases it, and
takes it again in a goroutine, before its guard; scrape and generate take the
guard first; verify and scrape drop the guard first, generate the slot. `row` is
the job's row in the runs table. `PipelineKill` is kill -9: memory is gone, rows stay;
`Sweep` is main's FailOrphanedRuns, before anything else starts. A row that
FinishRun could not close is counted apart (`unclosed`): it stays "running" until
the next start, by design.

### ArcadeRegen

Data are version numbers: `edits` counts the curation edits in the store, `tree`
the promotions into the games trees, `rows` the tree the games table shows,
`served` the reading of the store the kiosks' files were built from (`opts` and
`games`, because a pass reads them at two moments). The variables of the second
group are regenState's fields. The worker's steps are drainRegen's lock
sections. `gen` follows GenerateFresh for both of its callers, the worker and
the button. `left` is what a behaviour may still have happen of
the environment's events; a run gives a set of such budgets (`Scenarios`) and a
behaviour starts with one of them. A verify holds the slot and may bring files into
the trees. If a system's outcome is verified or promoted-unchecked it rescans
after releasing the slot and requests a regeneration; a rescan is refused while
another scan runs, and it may fail (`ScanFails`), and then the request goes out all
the same. Files that came in under failed outcomes only (igir exited non-zero after
copying, the plain copy stopped half-way) get neither: runner.go:283 does not count
them. `missed` remembers that the newest files came in that way, or that the rescan
meant for them was refused, failed or was killed; it is cleared when the rescan of a
later verify records them, or a pass serves them after a scan somebody asked for.
One verify is followed to its end: a
second one that promotes during the first one's rescan, and has its own refused, is
represented by the user's scan that refuses it. Partial
failure of a pass is modelled for the one system whose file `served` is: it
keeps its previous file and the pass ends "failed". That a pass that ends well
serves what it read is taken here as one step; ArcadeGenerate takes it apart, and
shows the one system of which it is not so: one with nothing visible. The history
variables at the end of the declaration are read by properties only.

### ArcadeGenerate

One pass, `run` in generate.go. `visible` is what SystemGamesWithMeta answers,
`file` the served metadata.pegasus.txt, `temps` its temp siblings. `life[p]` is a
process with the locals of its pass: `todo` is what the present phase has left,
`payloads` and `failed` are the code's, `at` and `step` are where writeAtomic is
(`CreateTemp`, `WriteTemp`, `SyncTemp`, `Rename`; `WriteFails` is its error
exits), the stamp LastOKAt is `past[p].good`. A pass runs
alone in its process (ArcadePipeline), but the sweep is written for restarts that
overlap ("overlapping restarts share the served trees"), so any number of
processes may be up, each with its pid. A temp carries who wrote it and, for its
mtime, which processes had started by then; `Stale` is the sweep's two guards.

`EndLife` is kill -9. A power cut may undo a rename whose directory is not
synced (`back`; the code ignores the failure of that sync) and tear a file whose
bytes are not (`safe`). A render is the set of games it lists: launch lines,
enrichment, the pending section and custom collections are data. The error
exits always succeed in removing the temp. eXo systems, which a pass skips, are
not in `Systems`; the dry run, which only tests ask for, is left out; the run's
row is ArcadePipeline's business.

### RouterMembership

`vault` holds the rows of provider_keys, `tombstoned` discovery's retired
mappings, `members[f]` a family's pool as a bag, since a doubled endpoint is the
bug the code's comments warn of. A rebuild is what the code makes of it: one
query for the aliases, then for each family a locked read (`SyncRead`,
`PollRead`) and a locked write (`SyncWrite`, `PollWrite`) with other goroutines
between them. `good` is whether the provider accepts the key. The probe of a
saved key uses `ProbeAlias`, the first usable alias, as keyFn does. A restart
forgets the tombstones. Ledger scopes are configured at boot only and play no
part; Select, Release, Admit, Retire and the deficit round robin of
`internal/pool` have no caller in the program and are left out.

### ArcadeDats and ArcadeVerify

ArcadeDats is the DAT manager: `disk` the DAT files, `lock` the lock file (which
may be unreadable), `versions` the ledger of generations, `ref` the refresh in
flight with its lock in memory. DAT bytes are the commit they came from, or
mutated, torn or damaged. ArcadeVerify EXTENDS it with one system's verify:
`staging` and `tree` are the staged and the promoted file as stamps (odd while
aria2 writes), `report` the CSV igir leaves behind, `result` the verify_results
row and `ver` the goroutine, whose steps are processSystem's: guards, unchecked
copy (quick check, open, copy, record), the lock gate, igir, ingestion. igir
itself is external: `ReportRows` is what it reports of a file, given whether the
DAT claims it. `used` is history. Both run against each other, a kill, failed
effects and damage at rest.

### ArcadeLibrary

`disk` are the files in the trees, `row[f]` the games row of file f with its id,
`members` the collections' ids (with the cascade of the foreign key). A scan
lists a system's directory and stats the entries in two steps, persists in one
transaction, hashes, applies cached art, imports eXo; `cur[c]` is a curator's
page and the handler it posts to, which holds an id read earlier. The tables a
scan replaces wholesale and no decision reads are left out.

### ArcadeDownloads

`req[o]` is an operator's request, `staged[s]` the file at a system's torrent
path (whose upload, how many chunks), `wire` the calls the daemon has not read.
A timed-out call stays on the wire and may be served later; a call that was not
posted, because the RPC secret could not be read or the daemon not be dialled, is
retried like one that timed out (`TryAgain`). Code 12 ("already registered") counts
as success, as in `acquire`. A row of the runs table names the download it was
opened for. `removed`, the runs whose download an operator has removed since, and
`stored` are history. The daemon is external, and the queue page, which only reads, is left
out.

### SunoBackup

`mem` and `disk` are the index in memory and in index.json, `loop[l]` the two
scans, `worker[l][c]` the worker scan l has on clip c. `.part` and `.wav` paths
name inodes and a worker holds a descriptor, because os.Create truncates a file
another worker writes and a rename moves it under its descriptor. `library` is
the account, newest first, so that a new track shifts every page.

### SunoCorpus and SunoHistory

SunoCorpus is the daemon (`top`: lane, batch, the page in hand) and the backfill
command (`bf`) on one database. Creators, tags and playlists are rows of three
tables with one shape; `fresh` and `crawled` order them by last_crawled_at. The
store transaction is one step where SELECT ... FOR UPDATE finds the row and two
where it finds none. The counts of a clip are one number, sources are "top" and
"backfill", due-ness of a recheck and the editorial interval are
nondeterministic, both floors are equal (both default to 100), and the prune at
boot keeps everything as long as the floor does not change. A profile and a tag
list what is public: a clip that is taken down leaves them, the total shrinks, and
what lay behind it moves towards the cursor; a playlist keeps its entry, without
the clip, and does not change otherwise. Page 1 of a profile holds `FirstPage` clips
and the others `PageSize`: the code says 30 and about 20 (main.go:145-148, 486-488)
and does not say where page 2 starts, so that is a constant, `SecondPage`; with
`SecondPage` = `FirstPage` the pages tile, below it page 2 repeats clips and
clips_indexed counts them twice. `owed` is history:
what a row's listing held when it was queued, is still public and still qualifies.
So is `slipped`: of these, what a take-down or a vote moved from behind the cursor
(or the end of the page being stored) to before it, which the walk then
passes by. A page is the
set of clips whose place in the listing lies on it, since the winners of a page
are stored one transaction each and nothing depends on their order. What a lane
picks is `FirstOf`, ORDER BY and LIMIT: a list of distinct rows that leaves out
nothing that comes before what it holds, in any order where the query's is open.
The cohort has no repetitions: loadIDs drops them. A feed and a playlist list a
clip once, and a tag's total is exact: listings stay below the 10 000 at which
the service's total_hits saturates.

SunoHistory is what the schema's head comment promises a reader: an append-only
log of sightings per clip, whose last entry is the count on the row; only counts
at the floor or above; a cohort id at most once. `HistoryImplemented` says
SunoCorpus implements it under the identity mapping of `log` and `corpus`.

## 4. Runs

| run | shows | bounds and why they are enough |
|---|---|---|
| `ledger` | SpendTracksWindow (NoPhantomSpend and MissBoundedByStale), AdmissionSound (RefusalJustified and AdmissionBounded), NextResetMatchesRoll | one scope (scopes share nothing but the mutex), three leases, so that one may be stale, one live and one new; both cost dimensions; ceilings 0, 1, 2; the clock passes a minute, a session, two days, the credit period and a whole month |
| `health` | CooldownEndsOnTime, CooldownNotCutShort, RepeatsClimb, TrailExplainsStates | one scope; failures that share a state with different TTLs; a ring of two, so it overflows; a day boundary; more guesses than rungs |
| `walk` | OneProviderOfContent, LeasesSettled, SuccessIsTerminated, EveryRequestAnswered | two hops of two frames: a late parser and its successor; the watchdog is set shorter than the hedge so that all four arms of the select are taken |
| `pipeline` | HeavyJobsExclusive, NoLockLeaked, RunningRowsAreLive, SlotIsFreed | two goroutines per runner, one kill |
| `regen` | NoEditForgotten, OneDeferralPerEpisode, PromotionsServed, ServedNeverGoesBack, EditsReachKiosks | two curators; six scenarios: two edits, two clicks and a failed read; two edits, a click and a kill; an edit, a verify and a click; an edit, a verify and a scan; two verifies, a scan and a fault; two verifies, a click and a kill |
| `generate` | ServedWhole, OkMeansServed, NoLitter | two systems, two processes that may overlap, one toggle, one error, one power cut and a kill of each process: each fault has a later pass, and a sweeper, to meet |
| `membership` | OneEndpointPerKey, MembershipConverges | two providers that share a family, one with an open listing; two aliases; two dashboard requests at once and the poller; two events (saves, deletions, catalogue changes, restarts) |
| `verify` | LockBacked, OnlyAttestedDATs, PillFollowsDAT, CopyComplete, RefreshReconciles | one system; two upstream generations, two refreshes, two verify batches, two faults, a kill, three stamps of the staged file |
| `library` | NoStalePointer, ScanConverges, CurationSurvives | a catalogued system with two games (one comes later) and an eXo system with one; two scans, two edits, two changes of the trees, enough ids for all of them |
| `downloads` | OkMeansLanded, StagedStays | a system with a torrent and one without, two operators, four requests, one retry (two in the code), uploads of two chunks, three faults, a kill |
| `backup` | IndexedHasMaster, EveryClipBackedUp | an old clip and one generated meanwhile, one to a page, two workers, one fault, one crash |
| `corpus` | DoneMeansCovered, QueuesDrain, HistoryImplemented | three clips of a creator (one published later), a tag, a playlist, a contest seed and a cohort id; pages of one, of two for page 1 of the profile, which tile: every listing takes two pages once it has grown; the first clip and the playlist may be taken down, the first clip voted on; give-up after two failures (five and three in the code); two events of any kind. With `SecondPage` = 1, so that page 2 repeats a clip, and with all three clips there from the start, the invariant was checked as well |

Deadlock checking is off where a bounded environment (clock, edits, clicks,
requests, kills) runs out, a finished request stays finished, or a panic ends
the process. The suno daemons never stop, and there it is on.

Every module has a type invariant (`TypeOK` or `...TypeOK`) that TLC confirms on the same
instances; ArcadePipeline's says something of its own, that no goroutine unlocks a
free mutex, and PipelineTyping proves it.

### Disagreements

Where the code does not do what a comment or a document says, a configuration of
its own, which is expected to end in a violation, shows it:

| configuration, module | the code | what it says |
|---|---|---|
| `RouterLedgerCeiling.cfg`, MCRouterLedger | a stated limit of 0 is stored (ledger.go:165), and 0 means "no cap" to Reserve | ledger.go:149: ceilings are never raised |
| `RouterWalkSplice.cfg`, MCRouterWalk | tool-call deltas, and content in the chunk that carries finish_reason, are relayed without committing (walk.go:181) | walk.go:36: no splice |
| `RouterWalkHedge.cfg`, MCRouterWalk | the 20 s attempt context ends a committed stream (walk.go:210) | walk.go:143: the content clock governs after commit |
| `RouterWalkLateFrame.cfg`, MCRouterWalk | a parser that ticks after `stream` closed the channel panics (walk.go:187) | walk.go:35: an honest end after commit |
| `ArcadeRegenAlert.cfg`, MCArcadeRegen | outcomes are recorded after the slot is released, so an older one may be last (generate.go:379) | generate.go:339: the most recent pass |
| `ArcadeRegenRescan.cfg`, MCArcadeRegen | files copied under a failed outcome are neither rescanned nor asked for (runner.go:283, 360, 417), a rescan refused by a running scan or failing is dropped (runner.go:239), and no later scan requests a pass | generate.go:3: the kiosks must see promotions; generate.go:402: "failed batches changed no tree" |
| `ArcadeGenerateHidden.cfg`, MCArcadeGenerate | a system whose last visible game was hidden is skipped (generate.go:292), and its file goes on listing and launching the game | arcade-webapp-gauntlet.md:313: hide/show "reflected in the next generation; hidden games excluded" |
| `SunoBackupRace.cfg`, MCSunoBackup | with both scans on one clip, the worker that fails removes the other's meta.json (suno-backup main.go:634) or truncates the .part file (:791) the other renames, and the clip is indexed incomplete | main.go:608 and :774: meta.json and the master first, atomically |
| `ArcadeLibraryVanish.cfg`, MCArcadeLibrary | a file that vanishes mid-walk is ErrNotExist, taken for an absent system (scanner.go:367), and every row of the system is pruned | scanner.go:210: "a dir vanishing mid-walk: DO NOT replace" |
| `ArcadeVerifyPill.cfg`, MCArcadeVerify | an older report in place is ingested after igir failed (runner.go:428), so the failure is not marked | verify.go:319: the pill "must say so when the newest attempt died" |
| `RouterMembershipProbe.cfg`, MCRouterMembership | a saved key is probed with the provider's first usable alias | main.go:259: "list models with the new key" |
| `RouterMembershipRetired.cfg`, MCRouterMembership | a key save re-adds tombstoned mappings (main.go:137) until the next poll | loop.go:21: tombstoned mappings leave the routing pools |

And one shown by adding a line to a configuration of section 4: the crawl does not
always "paginate a creator's whole catalogue" (modules/services/suno-top.nix:22),
"all the way to `num_total_clips`" (suno-top main.go:32). The cursor is a page
number, or an index, kept between passes, and a walk ends by counting (main.go:1228
and :543). When a clip before the cursor is taken down, or a vote ranks one higher on
a tag, the clip at the cursor slips under it, and its row is marked done without it.
With `INVARIANT CatalogueWhole` in `SunoCorpus.cfg` TLC shows it in 22 states.
DoneMeansCovered excepts those clips, `slipped`, by name. With `SecondPage` = 1 a
profile is done early, since clips_indexed counts the repeated clips twice; it
misses at most as many as its pages repeat, and that is what DoneMeansCovered says.

Smaller ones met on the way, visible in the models or in the code:
when the systems cannot be read, a generation is closed with no outcome, hence
"ok" (generate.go:269); a refused render drops out and the others are written,
where generate.go:19 has a bad batch write nothing; the temp that a live process
wrote before the sweeping one started is removed, and its rename fails
(generate.go:749);
a lease released after its window rolled refunds the next window (the passing
AdmissionBounded is the exact extent); NextReset answers "next minute" for
CreditExpiry, which rolls after a day (NextResetMatchesRoll excepts it); the
first repeat of a quota guess waits 2 minutes after the first waited 10
(RepeatsClimb starts at the second); a heuristic verdict overwrites a stated
cooldown; the stream terminator is always content_filter; a verify handler that
only probes the slot makes a scrape fail; a deferral row may read "trigger"
when a request fell into the quiet window; overlapping rebuilds of a pool lose a
sibling provider's endpoints until its next poll (loop.go:198); an unreadable
lock file followed by a refresh of one system becomes a lock of one entry; rows
just promoted keep the default verify state until the next verify; two hide
toggles may read the same value (benign: the operator sees it); a torn .torrent
left by a failed write blocks restaging until it is deleted; a torrent that
aria2 has under another directory is reported as acquired; an http URI that is
retried may be queued twice; an entry that moves between two listings can be
missing from one rendering of the queue page; recheck order (most played first)
can starve the rest, because a failed or below-floor recheck does not update
last_rechecked_at; a clip inserted by the backfill between the daemon's select
and its upsert is sighted twice with the same count; a clip whose store fails is
not retried by its row's cursor; five rate limits in a row retire a creator for
good.

### Fairness

- RouterWalk: weak fairness of Run's own goroutine and of time. Run waits only
  in calls bounded by a context, so a call whose deadline has passed returns.
  Nothing is assumed of providers, parsers or the client.
- ArcadePipeline: weak fairness of every goroutine that has started, and of the
  restart. Jobs end because their children run under timeouts (igir 6 h,
  Skyscraper 30 min per pass) and generation is bounded local work; systemd
  restarts the service. Requests need not arrive.
- ArcadeRegen: weak fairness of requests under way, of the quiet window's end,
  of the worker, of a running pass, verify and scan, for the same reasons.
  Edits, clicks, user scans, faults and kills may happen or not.
- RouterMembership: weak fairness of a dashboard request under way and of a poll
  under way; strong fairness of polling each provider, because the loop lists
  every provider at every tick and a listing of a provider that answers now and
  then succeeds now and then. Convergence is claimed only of providers that
  answer from some moment on.
- SunoBackup: weak fairness of each scan (their tickers restart them) and of
  each worker; faults and crashes are finitely many.
- SunoCorpus: weak fairness of the daemon, which systemd restarts and whose
  ticker keeps firing. Nothing is assumed of the backfill.
- ArcadeVerify, ArcadeGenerate, ArcadeLibrary, ArcadeDownloads, RouterLedger and RouterHealth
  state safety only.

## 5. Proofs

A run checks a property on a small instance; a theorem states it for every value
of the constants. None of the properties is inductive as it stands. Each proof
module names what has to be added, part by part, with a comment; the conjunction
(`LedgerInv`, `WalkInv` and so on) was first checked by TLC as an invariant of
the component's run, and then proved: it holds initially, one lemma per action
(or group of actions) shows that a step keeps it, and the theorems follow.

`RouterLedgerProofs`, for any scopes, leases and dimensions, any window lengths
and ceilings: LedgerTyping, LedgerNoPhantomSpend, LedgerMissBounded,
LedgerSpendTracks, LedgerRefusalJustified, LedgerAdmissionBounded,
LedgerAdmission, LedgerNextReset. The invariant
`LedgerInv` is typing; that no lease names a window later than its scope's
present one (`LeasesOfThePast`, without which a roll could make an old lease live
again); and the two bounds on the counters together, since Release's floor
preserves the upper bound only where the lower one is known. Each action moves
one lease between the sets Live and Stale, so the proof is about how a
cardinality changes when one element enters or leaves. NextReset needs a second
invariant, `WindowsBegan` (a window began in the past), and the arithmetic of
periods and days (`PeriodOf`, `PeriodBounds`, `NextDayDiffers`). Assumed:
`LedgerAssumption`, in which a month has more than one day: with months of one
day Day() would never change and the reset that NextReset states never come.

`RouterPoolProofs` extends two components that share no state, RouterMembership
and RouterHealth; SunoProofs also holds two, ArcadeRegenProofs three. So that one
module can extend them, RouterHealth, ArcadePipeline and SunoBackup name their
specifications HealthSpec, PipelineSpec and BackupSpec, and likewise their
initial states, next-state relations and type invariants.

- Membership, for any providers, families, aliases and dashboard requests:
  MembershipTyping, MembershipOneEndpoint. `MembershipInv` adds what a rebuild has
  in hand between its locked read and its locked write: a pool without the
  provider it rebuilds (`ViewsForeign`). However old that view is by then, adding
  each family's endpoints to it once doubles nothing. Assumed:
  `MembershipAssumption`; there is at least one provider and one family.
- Health, for any scopes, TTLs, rungs, tick period, day and ring: HealthTyping,
  HealthEndsOnTime, HealthTrail, HealthNotCutShort, HealthClimbs. `HealthInv` ties
  the machine's clock to the real one (`Trailing`), each entry to the clock it was
  stamped with (`StampedInTime`), and the ladder to the guesses of the present day
  (`LadderCounted`: counts of days to come are zero, or a new day would not start
  at the first rung). Assumed: `HealthAssumption` and `FaultAssumption` (positive
  durations, rungs in order, faults of the classifier's shape).

`RouterWalkProofs`, for any chain, any providers, frames and timing:
WalkOneProvider, WalkLeases, WalkSuccess. The difficulty is that Run never stops
the parser of a hop it leaves. The argument is about the channel it closes when
it leaves: a parser whose channel is open is the one Run waits for
(`OpenParserIsCurrent`); a parser that got past the channel with content is
therefore the current hop's, with the flag set (`ContentIsCurrent`); and the flag
keeps Run from moving on. Assumed: `WalkAssumption`.

`ArcadeRegenProofs`, for the coordinator, with any curators and any budget of edits, clicks, scans,
faults and kills: RegenTyping, RegenNoEditForgotten, RegenOneDeferral,
RegenPromotionsServed, RegenNeverGoesBack. `RegenInv` says who holds the slot,
that whoever has read the store has read no less than is served
(`ReadingsNewer`), that what a pass under way has not read is still marked by
somebody else (`EditsCovered`, `PromotionsCovered`), and that the games table knows the
newest files, or a rescan of them is to come, or they are known as missed: copied
under a failed outcome, or their rescan was refused, failed or was killed
(`RowsFollow`, `ScanSound`). Assumed: `RegenAssumption`.

The same module, for the slot and any number of goroutines and kills:
PipelineTyping (hence no free mutex is ever unlocked), PipelineExclusive,
PipelineNoLeak, PipelineRowsLive. `PipelineInv` says that the slot's holder is
exactly the one goroutine in a slot state (`MutexAccounted`) and that a guard is
up exactly while one goroutine of its runner is in a guard state (`GuardsUp`,
`GuardsUnshared`, `GuardsHeld`). Exclusion alone is not inductive: a Release does
not check whose lock it drops. Assumed: `PipelineAssumption` (the three kinds of
goroutine are disjoint).

The same module, for one pass of the generator, with any systems, any processes
that overlap, any number of errors, kills and power cuts: GenerateServedWhole,
GenerateOkMeansServed, GenerateNoLitter. OkMeansServed
says nothing of a pass under way; `GenerateInv` says where each of its renders is:
still to be written, failed, replaced by another process, or served
(`Accounted`), and that each is of what is visible while nobody toggles
(`Rendered`). `FilesSafe` is why a power cut tears nothing: every rename comes
after the sync. `TempsOwned` ties each temp to the write its process is in, and
says what a sweep has been through; it is kept because a temp created later is
younger than every sweeper that is up (`StampIsNew`). Assumed:
`GenerateAssumption`; there is at least one system.

`ArcadeVerifyProofs`, for any systems, commits, refreshes, downloads, faults and
kills: VerifyTyping, VerifyLockBacked, VerifyOnlyAttested, VerifyPill,
VerifyReconciles, VerifyCopyComplete. `VerifyInv` follows a DAT from its download
to igir and a staged file from its stamp to its copy: what a goroutine holds
between two of its steps is tied to what the disk holds by then (`InHand`,
`Agreed`, `GateHolds`, `Copying`), and a promoted file that carries a staged
file's time is that file or an older one (`Stamped`), which is what makes the
quick check sound. Assumed: `DatsAssumption` and `VerifyAssumption`; the upstream
repository has at least one commit.

`ArcadeDownloadsProofs`, for any operators, systems, retries, lost or late calls,
failed writes and restarts: DownloadsTyping, DownloadsOkLanded,
DownloadsStagedStays. `DownloadsInv` adds that requests under way have numbers of
their own, that a request still writing finds its file incomplete if it is there
at all (`Uploading`), that a run, its request and its calls on the wire name one
download (`RowsOpened`, `CallsKnown`), and that behind an answer of success it is in
the queue or was removed (`AnswersEarned`). Assumed: `DownloadsAssumption`; there is at least one
system.

`ArcadeLibraryProofs`, for any games, systems, collections and curators, and any
changes of the trees and of the catalogue while scans run: LibraryTyping,
LibraryNoStalePointer, LibraryScanConverges, LibraryCurationSurvives.
`LibraryInv` has two halves. `NamesInv`: a row's id is its own and was given out
before (`UniqueIds`, `IdsGiven`), so the id on an old page is of the game the page
was about or of nobody (`PagesNameTheirGame`); this is what AUTOINCREMENT is for.
`ScanInv`: what the scan has listed of a settled system is what is there
(`HandsFresh`), what it has reconciled stays so (`Reconciled`), and a system that
left the catalogue has no rows (`DroppedGone`). That a transaction gives its new
rows different ids is the lemma `Ranks`. Assumed: `LibraryAssumption`; the games
there at first get ids within the bound.

`SunoProofs`, first for suno-top and suno-backfill on one database, with any
clips, rows, cohort, pages, failures and kills: CorpusInvariant and
CorpusImplementsHistory, the refinement. Every step of SunoCorpus is a step of
SunoHistory or leaves `log` and `corpus` alone; `CorpusInv` supplies what that
needs: the tables are typed (`TablesTyped`), every row qualifies (`RowsQualify`)
so that the prune at boot takes nothing, a clip without a row has no sightings
(`NoRowNoLog`), what is being stored won its place when it was fetched
(`TopHolds`), and a cohort id is sighted at most once, because it is then in
backfill_seen (`SightedSeen`) and the command only moves forward through ids
that are not (`BfHolds`). Assumed: `CorpusAssumption`.

CorpusCovered and CorpusDoneMeansCovered are about the crawl. DoneMeansCovered is
not inductive: it says nothing of a row that is still being walked. `CoverInv`
says where its missing clips are. A listing is an order without ties
(`PrecedesOrders`), so its clips have the places 0, 1, 2, ... (`Ranked`,
`Placed`), and a page that is not full is the last one (`Windowed`,
`PageFills`). A clip that is owed is listed, and if it is missing, which leaves
`slipped` out, its place is not before the cursor (`RowHolds`). New clips push places
up (`PlaceGrows`); take-downs and votes move them either way, and what they move
below the cursor or below the end of the page in hand is `slipped` by the same step
(`SlipCovers`). clips_indexed is at most what the walked pages of a profile hold
(`Reach`), which exceeds the clips before the cursor by the overlap of pages 1 and
2. While a page is stored, each missing clip is on it or behind it (`Ahead`); those
that will be left (`Left`) fit between the end of the page and the total, and for
a tag the page holds no count below the floor (`PageHeld`). This is what each of the
three ends of a walk asks, so a row that is marked done misses no more than its
pages overlap; the cursor goes no further than the page (`CursorMoves`). A timeout
or a kill drops the page and leaves the cursor. `DaemonHolds` says that the rows
of a batch are queued, so that an edge found on a page never resets the row
being walked. Assumed: `CorpusAssumption`.

Then for suno-backup, with any account, workers, chunks, faults and crashes:
BackupTyping, BackupIndexedHasMaster. `BackupInv` adds that a worker that reached
the cover has seen the master under its final name (`CoverHasMaster`), that no
final name disappears, and that a worker still writing has a file of its own
(`WriterHasFile`). Typing says that one of the four inodes of a clip is always free
when a worker creates its .part file. This is the weaker promise: that the master
is complete is what `SunoBackupRace.cfg` refutes. Assumed: `BackupAssumption`.

TLC's count of distinct states when it checked these invariants: LedgerInv and
WindowsBegan 398838, MembershipInv 328308, HealthInv 841859, WalkInv 613878,
RegenInv 1137782, GenerateInv 1087542, VerifyInv 4533549, DownloadsInv 3039871, LibraryInv 798092,
BackupInv 300562, CorpusInv and CoverInv 468043 (497808 with `SecondPage` = 1), each on the instance of the component's first
run in section 4.

Proof attempts that failed for a good reason changed the models:

- ArcadeRegen's `WorkerWillServe` held of a worker that was about to record the
  result of an earlier pass, so NoEditForgotten said less than it meant. It now
  asks for a pass that has still to read the store or has read every edit.
- CheckLock (ArcadeDats) and ClassifyVerify (ArcadeVerify) were CASE expressions
  whose arms overlapped; TLC takes the first arm that is true, the language
  leaves the choice open. They are chains of IFs in the order of the Go code.
- `Agreed` had to say that a refresh that has not fetched anything has nothing
  done: TLC found the counterexample to the weaker form.
- A tag's listing in SunoCorpus was sorted by count with SortSeq, which is any
  sorted permutation: between clips of one count the language left the order
  open. `Precedes` now says it, and a tie is in the order of the feed.
- SunoCorpus let the cohort repeat an id; the history promises at most one
  sighting, and it is loadIDs that makes this so. `CorpusAssumption` now says it.
- SunoCorpus let the service list a clip twice, and then a clip came before
  itself and the places of a listing had gaps: `CorpusAssumption` now says that it
  does not. It picked rows from the two queues by sequence operators, so that only
  the queues' contents, not `rows`, said that a picked row was queued; `FirstOf`
  picks from the table, as the query does.
- A listing of SunoCorpus only grew, its pages all had one size, and a vote excused
  the whole tag. With clips that leave, `slipped` had to be named for CoverInv to be
  inductive; with a longer page 1 the count of a profile ran ahead of its cursor, and
  the invariant that survives bounds what is missing by the overlap.
- RouterMembership's TypeOK bounded some fields of a request only; it now types
  requests, the poll and the pools they have in hand.

Only model-checked: liveness (EveryRequestAnswered, SlotIsFreed,
EditsReachKiosks, MembershipConverges, EveryClipBackedUp, QueuesDrain), because
fairness and ENABLED are beyond the prover.

## 6. Not modelled

The non-streaming chat answer; parsing of provider error dialects; pool ordering;
a scrape's work on Skyscraper's cache; the text the generator renders;
art matching and BIOS inventory; pause, resume and the queue page of the
downloads; nom-web and roster-writer; page rendering, cryptography, file formats,
SQL; the contents of DATs, ROMs, metadata and answers; Nix, scripts and CI. The
reasons are with each component in `PROJECT.json`.

Several map entries cover code of which the model keeps only the outcome: the
two `parseClip`s (a clip's id and play count; the other fields are data no
property tells apart), suno-top's `schemaDDL` (the empty tables of `Init`),
suno-backup's HTTP helpers (`FeedFails`: a call fails as a whole) and
`applyCache` (the flag a pass replaces for a system). Their lines say which code
the definition stands for, not that each field of it is represented.
