----------------------------- MODULE SunoBackup -----------------------------
(***************************************************************************)
(* The library mirror of pkgs/suno-backup: the recent scan, the history    *)
(* walk and the cover-art pass run as goroutines of their own, hand the    *)
(* clips that are not indexed to workers, and share the index, the         *)
(* directory of each clip and the semaphore that bounds the workers.       *)
(*                                                                         *)
(* A worker looks before it downloads, and downloads through one .part     *)
(* path per clip; os.Create truncates what is there and a descriptor       *)
(* follows its file through a rename, so files are inodes here.  The       *)
(* service (feed, conversion, CDN) is external: a page is what the library *)
(* holds when it is fetched, and MaxFaults calls fail.                     *)
(***************************************************************************)
EXTENDS Integers, Sequences, FiniteSets

CONSTANTS
  Tracks,       \* the tracks of the account
  Old,          \* the ones that exist when it is first started, newest first
  FeedPage,     \* clips on a feed page
  RecentPages,  \* pages the recent scan walks
  Concurrency,  \* capacity of the semaphore
  Chunks,       \* writes it takes to copy a master
  MaxFaults,    \* bound on failed calls and failed saves
  MaxCrashes    \* bound on restarts of the daemon

ASSUME BackupAssumption ==
  /\ IsFiniteSet(Tracks) /\ Old \in Seq(Tracks)
  /\ {FeedPage, RecentPages, Concurrency, Chunks} \subseteq Nat \ {0}
  /\ MaxFaults \in Nat /\ MaxCrashes \in Nat

Loops == {"recent", "backfill"}

VARIABLES
  library,   \* the account's clips, newest first (environment)
  mem,       \* the store: index, page, done
  disk,      \* index.json
  meta,      \* the clips whose meta.json is on disk
  part,      \* part[c]: the inode at the .part path, or 0
  dest,      \* dest[c]: the inode at the .wav path, or 0
  data,      \* data[c][i]: the chunks that inode i of clip c holds
  loop,      \* loop[l]: where each scan is, and at which page
  worker,    \* worker[l][c]: the worker that scan l has on clip c
  faults, crashes

backupVars == <<library, mem, disk, meta, part, dest, data, loop, worker, faults, crashes>>
files == <<meta, part, dest, data>>

Inodes == 1 .. Cardinality(Loops) + 2
Record == [sum : {"right", "wrong"}, cover : {"settled", "missing"}]
NoRecord == [sum |-> "none", cover |-> "none"]
Free == [pc |-> "none", fd |-> 0, at |-> 0, sum |-> "none"]
Idle == [pc |-> "idle", page |-> 0]

Indexed(s) == {c \in Tracks : s.index[c] # NoRecord}
Workers == Loops \X Tracks
W(w) == worker[w[1]][w[2]]
Busy == {w \in Workers : W(w).pc \notin {"none", "queued"}}

Store == [index : [Tracks -> Record \cup {NoRecord}], page : Nat, done : BOOLEAN]

BackupTypeOK ==
  /\ library \in Seq(Tracks)
  /\ mem \in Store /\ disk \in Store
  /\ meta \subseteq Tracks
  /\ part \in [Tracks -> Inodes \cup {0}] /\ dest \in [Tracks -> Inodes \cup {0}]
  /\ data \in [Tracks -> [Inodes -> SUBSET (1 .. Chunks)]]
  /\ loop \in [Loops -> [pc : {"idle", "fetch", "wait"}, page : Nat]]
  /\ worker \in [Loops -> [Tracks ->
       [pc : {"none", "queued", "stat", "create", "copy", "rename", "cover"},
        fd : Inodes \cup {0}, at : 0 .. Chunks, sum : {"none", "right", "wrong"}]]]
  /\ faults \in 0 .. MaxFaults /\ crashes \in 0 .. MaxCrashes

BackupInit ==
  /\ library = Old
  /\ mem = [index |-> [c \in Tracks |-> NoRecord], page |-> 0, done |-> FALSE]
  /\ disk = mem
  /\ meta = {}
  /\ part = [c \in Tracks |-> 0] /\ dest = [c \in Tracks |-> 0]
  /\ data = [c \in Tracks |-> [i \in Inodes |-> {}]]
  /\ loop = [l \in Loops |-> Idle]
  /\ worker = [l \in Loops |-> [c \in Tracks |-> Free]]
  /\ faults = 0 /\ crashes = 0

\* Environment: a track is generated, and shifts every page.
NewTrack(c) ==
  /\ c \notin {library[i] : i \in DOMAIN library}
  /\ library' = <<c>> \o library
  /\ UNCHANGED <<mem, disk, files, loop, worker, faults, crashes>>

\* save writes the index, unless the write fails, which is only logged.
Save(s) ==
  \/ disk' = s /\ UNCHANGED faults
  \/ faults < MaxFaults /\ faults' = faults + 1 /\ UNCHANGED disk

----------------------------------------------------------------------------
(* The scans *)

\* Pages count from 1; the cursor of a new index is 0, the newest page too.
PageOf(n) ==
  LET first == (IF n = 0 THEN 0 ELSE n - 1) * FeedPage IN
  {library[i] : i \in {j \in DOMAIN library : first < j /\ j <= first + FeedPage}}

\* Mutant: once the history is walked to its end it is not walked again.
StartBackfillOnce ==
  /\ loop["backfill"].pc = "idle" /\ ~mem.done
  /\ loop' = [loop EXCEPT !["backfill"] = [pc |-> "fetch", page |-> mem.page]]
  /\ UNCHANGED <<library, mem, disk, files, worker, faults, crashes>>

\* backfill resumes at the cursor, or at the top once it reached the end.
StartBackfill ==
  /\ loop["backfill"].pc = "idle"
  /\ loop' = [loop EXCEPT !["backfill"] =
                [pc |-> "fetch", page |-> IF mem.done THEN 1 ELSE mem.page]]
  /\ UNCHANGED <<library, mem, disk, files, worker, faults, crashes>>

StartRecent ==
  /\ loop["recent"].pc = "idle"
  /\ loop' = [loop EXCEPT !["recent"] = [pc |-> "fetch", page |-> 1]]
  /\ UNCHANGED <<library, mem, disk, files, worker, faults, crashes>>

\* processClips queues the page's clips that are not indexed by now.
FetchFeed(l) ==
  /\ loop[l].pc = "fetch" /\ PageOf(loop[l].page) # {}
  /\ worker' = [worker EXCEPT ![l] = [c \in Tracks |->
       IF c \in PageOf(loop[l].page) \ Indexed(mem) THEN [Free EXCEPT !.pc = "queued"]
       ELSE Free]]
  /\ loop' = [loop EXCEPT ![l].pc = "wait"]
  /\ UNCHANGED <<library, mem, disk, files, faults, crashes>>

\* An empty page ends the pass; the history walk has reached its end.
FetchEmpty(l) ==
  /\ loop[l].pc = "fetch" /\ PageOf(loop[l].page) = {}
  /\ loop' = [loop EXCEPT ![l] = Idle]
  /\ IF l = "recent" THEN UNCHANGED <<mem, disk, faults>>
     ELSE /\ mem' = [mem EXCEPT !.page = 1, !.done = TRUE]
          /\ Save(mem')
  /\ UNCHANGED <<library, files, worker, crashes>>

FeedFails(l) ==
  /\ loop[l].pc = "fetch" /\ faults < MaxFaults
  /\ faults' = faults + 1
  /\ loop' = [loop EXCEPT ![l] = Idle]
  /\ UNCHANGED <<library, mem, disk, files, worker, crashes>>

\* The page's workers are done.  The history walk moves its cursor past the
\* page whether they succeeded or not.
PageDone(l) ==
  LET n == loop[l].page + 1 IN
  /\ loop[l].pc = "wait" /\ \A c \in Tracks : worker[l][c].pc = "none"
  /\ IF l = "recent"
     THEN /\ loop' = [loop EXCEPT ![l] = IF n > RecentPages THEN Idle
                                         ELSE [pc |-> "fetch", page |-> n]]
          /\ UNCHANGED <<mem, disk, faults>>
     ELSE /\ mem' = [mem EXCEPT !.page = n, !.done = FALSE]
          /\ Save(mem')
          /\ loop' = [loop EXCEPT ![l] = Idle]
  /\ UNCHANGED <<library, files, worker, crashes>>

----------------------------------------------------------------------------
(* backupClip: a worker *)

Goto(w, pc) == worker' = [worker EXCEPT ![w[1]][w[2]].pc = pc]
shared == <<library, loop, crashes>>

\* The worker gives up: meta.json is rolled back, a later pass tries again.
RollBack(w) ==
  /\ meta' = meta \ {w[2]}
  /\ worker' = [worker EXCEPT ![w[1]][w[2]] = Free]

Begin(w) ==
  /\ W(w).pc = "queued" /\ Cardinality(Busy) < Concurrency
  /\ meta' = meta \cup {w[2]}
  /\ Goto(w, "stat")
  /\ UNCHANGED <<shared, mem, disk, part, dest, data, faults>>

Intact(c, i) == data[c][i] = 1 .. Chunks

\* ensureWav: a master that exists is hashed in place, never fetched again.
Stat(w) ==
  LET c == w[2] IN
  /\ W(w).pc = "stat"
  /\ worker' = [worker EXCEPT ![w[1]][c] =
       IF dest[c] = 0 THEN [@ EXCEPT !.pc = "create"]
       ELSE [@ EXCEPT !.pc = "cover",
                      !.sum = IF Intact(c, dest[c]) THEN "right" ELSE "wrong"]]
  /\ UNCHANGED <<shared, mem, disk, files, faults>>

Fd(w, c) == IF w[2] = c THEN W(w).fd ELSE 0
Used(c) == {part[c], dest[c]} \cup {Fd(w, c) : w \in Workers}
NewInode(c) == CHOOSE i \in Inodes : i \notin Used(c)
               /\ \A j \in Inodes : j \notin Used(c) => i <= j

\* The conversion is ready and the CDN answers: os.Create truncates the file
\* at the .part path, also one another worker is writing.
Create(w) ==
  LET c == w[2]
      i == IF part[c] = 0 THEN NewInode(c) ELSE part[c] IN
  /\ W(w).pc = "create"
  /\ part' = [part EXCEPT ![c] = i]
  /\ data' = [data EXCEPT ![c][i] = {}]
  /\ worker' = [worker EXCEPT ![w[1]][c] = [@ EXCEPT !.pc = "copy", !.fd = i]]
  /\ UNCHANGED <<shared, mem, disk, meta, dest, faults>>

\* Mutant: the clip is indexed though its master never arrived.
CreateFailsIndexed(w) ==
  /\ W(w).pc = "create" /\ faults < MaxFaults
  /\ faults' = faults + 1
  /\ Goto(w, "cover")
  /\ UNCHANGED <<shared, mem, disk, files>>

\* The conversion times out, or the CDN refuses.
CreateFails(w) ==
  /\ W(w).pc = "create" /\ faults < MaxFaults
  /\ faults' = faults + 1
  /\ RollBack(w)
  /\ UNCHANGED <<shared, mem, disk, part, dest, data>>

\* io.Copy writes at the worker's own offset, wherever its file is by now.
Copy(w) ==
  LET c == w[2]  k == W(w).at + 1 IN
  /\ W(w).pc = "copy"
  /\ data' = [data EXCEPT ![c][W(w).fd] = @ \cup {k}]
  /\ worker' = [worker EXCEPT ![w[1]][c] =
       [@ EXCEPT !.at = k, !.pc = IF k = Chunks THEN "rename" ELSE "copy"]]
  /\ UNCHANGED <<shared, mem, disk, meta, part, dest, faults>>

\* A broken transfer removes whatever is at the .part path.
CopyFails(w) ==
  /\ W(w).pc = "copy" /\ faults < MaxFaults
  /\ faults' = faults + 1
  /\ part' = [part EXCEPT ![w[2]] = 0]
  /\ RollBack(w)
  /\ UNCHANGED <<shared, mem, disk, dest, data>>

\* The digest is that of the bytes this worker received.
Rename(w) ==
  LET c == w[2] IN
  /\ W(w).pc = "rename" /\ part[c] # 0
  /\ dest' = [dest EXCEPT ![c] = part[c]]
  /\ part' = [part EXCEPT ![c] = 0]
  /\ worker' = [worker EXCEPT ![w[1]][c] =
                  [@ EXCEPT !.pc = "cover", !.fd = 0, !.at = 0, !.sum = "right"]]
  /\ UNCHANGED <<shared, mem, disk, meta, data, faults>>

\* Another worker has moved or removed the file.
RenameFails(w) ==
  /\ W(w).pc = "rename" /\ part[w[2]] = 0
  /\ RollBack(w)
  /\ UNCHANGED <<shared, mem, disk, part, dest, data, faults>>

\* ensureImage, then the record: a cover that could not be fetched for now
\* is left to healImages, one the CDN refuses for good is settled.
AddRecord(w) ==
  /\ W(w).pc = "cover"
  /\ \E cover \in {"settled", "missing"} :
       mem' = [mem EXCEPT !.index[w[2]] = [sum |-> W(w).sum, cover |-> cover]]
  /\ Save(mem')
  /\ worker' = [worker EXCEPT ![w[1]][w[2]] = Free]
  /\ UNCHANGED <<shared, files>>

\* healOneImage reads the cover's URL from meta.json.
HealImage(c) ==
  /\ mem.index[c].cover = "missing" /\ c \in meta
  /\ mem' = [mem EXCEPT !.index[c].cover = "settled"]
  /\ Save(mem')
  /\ UNCHANGED <<library, files, loop, worker, crashes>>

\* The daemon dies and is started again from index.json.
BackupCrash ==
  /\ crashes < MaxCrashes
  /\ crashes' = crashes + 1
  /\ mem' = disk
  /\ loop' = [l \in Loops |-> Idle]
  /\ worker' = [l \in Loops |-> [c \in Tracks |-> Free]]
  /\ UNCHANGED <<library, disk, files, faults>>

ScanStep(l) ==
  \/ IF l = "recent" THEN StartRecent ELSE StartBackfill
  \/ FetchFeed(l) \/ FetchEmpty(l) \/ FeedFails(l) \/ PageDone(l)

WorkerStep(w) ==
  \/ Begin(w) \/ Stat(w) \/ Create(w) \/ CreateFails(w) \/ Copy(w)
  \/ CopyFails(w) \/ Rename(w) \/ RenameFails(w) \/ AddRecord(w)

BackupNext ==
  \/ \E c \in Tracks : NewTrack(c) \/ HealImage(c)
  \/ \E l \in Loops : ScanStep(l)
  \/ \E w \in Workers : WorkerStep(w)
  \/ BackupCrash

\* Tickers restart every scan, and Go schedules every goroutine; faults and
\* crashes are finitely many.
BackupSpec ==
  /\ BackupInit /\ [][BackupNext]_backupVars
  /\ \A l \in Loops : WF_backupVars(ScanStep(l))
  /\ \A w \in Workers : WF_backupVars(WorkerStep(w))

----------------------------------------------------------------------------
(* Properties *)

\* The index never names a clip whose master is not on disk, in memory or in
\* index.json, at any moment of overlapping workers, failed transfers and
\* restarts: the index is what makes the daemon skip a clip for good.
IndexedHasMaster ==
  \A c \in Indexed(mem) \cup Indexed(disk) : dest[c] # 0

\* Every track of the account ends up in the persisted index, though pages
\* shift while they are walked, transfers fail and the daemon restarts:
\* "a clip is never abandoned for a missing master" (main.go).
EveryClipBackedUp ==
  \A c \in Tracks :
    (\E i \in DOMAIN library : library[i] = c) ~> (c \in Indexed(disk))

\* "backupClip persists the verbatim clip object as meta.json, then acquires
\* the lossless WAV [...] and records it in the index" and download "streams
\* url to dest atomically": an indexed clip no worker is at has its
\* meta.json and its whole master.
IndexedIsComplete ==
  \A c \in Indexed(mem) :
    (\A l \in Loops : worker[l][c].pc = "none") =>
       c \in meta /\ dest[c] # 0 /\ Intact(c, dest[c])
=============================================================================
