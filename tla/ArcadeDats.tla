----------------------------- MODULE ArcadeDats -----------------------------
(***************************************************************************)
(* The arcade webapp's DAT manager (internal/dats): a refresh downloads    *)
(* each system's DAT at one upstream commit, gates the bytes against the   *)
(* dat-lock, installs the file, appends a row to the dat_versions ledger   *)
(* and, once per batch, replaces the lock file.  The lock is what lets a   *)
(* verify trust the file.                                                  *)
(*                                                                         *)
(* Refreshes exclude each other (Fetcher.running) and nothing else: a kill *)
(* can come between any two of those effects, every effect can fail, and   *)
(* the files can be damaged at rest.                                       *)
(***************************************************************************)
EXTENDS Naturals, FiniteSets

CONSTANTS
  Systems,     \* the systems McLeanDATs maps
  MaxCommits,  \* bound on upstream generations
  MaxBatches,  \* bound on refreshes
  MaxFaults,   \* bound on damaged files and failed effects
  MaxKills     \* bound on kill -9 and restart

ASSUME DatsAssumption ==
  /\ IsFiniteSet(Systems)
  /\ MaxCommits \in Nat \ {0}
  /\ {MaxBatches, MaxFaults, MaxKills} \subseteq Nat

Commits == 1 .. MaxCommits

\* DAT bytes: upstream's at a commit (identified with it), others that parse
\* (a mutated cache), ones that do not (a torn download), a damaged file.
Absent == 0
Mutated == MaxCommits + 1
Torn == MaxCommits + 2
Damaged == MaxCommits + 3
Bytes == Commits \cup {Mutated, Torn, Damaged}
Parses(b) == b \in Commits \cup {Mutated}

\* A lock entry; at is fetched_at, as the number of the batch that wrote it.
LockEntry == [commit : Commits, bytes : Bytes, at : 1 .. MaxBatches]
NoEntry == [commit |-> 0, bytes |-> Absent, at |-> 0]
EmptyLock == [s \in Systems |-> NoEntry]

VARIABLES
  head,      \* the ref's current commit
  disk,      \* disk[s]: the bytes of <s>.dat
  lock,      \* the lock file: whether it parses, and its entries
  versions,  \* the dat_versions ledger
  info,      \* info[s]: the bytes dat_info describes
  ref,       \* the refresh in flight, with its lock in memory
  batches, faults, kills

datVars == <<head, disk, lock, versions, info, ref, batches, faults, kills>>

Idle == [at |-> "idle", one |-> FALSE, todo |-> {}, commit |-> 0, mem |-> EmptyLock,
         cur |-> {}, body |-> Absent, ok |-> {}]

Refresh ==
  [at : {"idle", "resolve", "fetch", "install", "record", "lock"}, one : BOOLEAN,
   todo : SUBSET Systems, commit : Commits \cup {0},
   mem : [Systems -> LockEntry \cup {NoEntry}], cur : SUBSET Systems,
   body : Bytes \cup {Absent}, ok : SUBSET Systems]

DatsTypeOK ==
  /\ head \in Commits
  /\ disk \in [Systems -> Bytes \cup {Absent}]
  /\ lock \in [readable : BOOLEAN, entries : [Systems -> LockEntry \cup {NoEntry}]]
  /\ versions \subseteq [sys : Systems, commit : Commits, bytes : Bytes]
  /\ info \in [Systems -> Bytes \cup {Absent}]
  /\ ref \in Refresh
  /\ batches \in 0 .. MaxBatches /\ faults \in 0 .. MaxFaults /\ kills \in 0 .. MaxKills

DatsInit ==
  /\ head = 1
  /\ disk = [s \in Systems |-> Absent]
  /\ lock = [readable |-> TRUE, entries |-> EmptyLock]
  /\ versions = {}
  /\ info = [s \in Systems |-> Absent]
  /\ ref = Idle
  /\ batches = 0 /\ faults = 0 /\ kills = 0

----------------------------------------------------------------------------
(* The lock file *)

\* ReadLock in a refresh: an unreadable document counts as an empty one.
ReadLock == IF lock.readable THEN lock.entries ELSE EmptyLock

\* CheckLock's verdict on the file a verify is about to use.
CheckLock(s) ==
  IF ~lock.readable THEN "unreadable"
  ELSE IF lock.entries[s] = NoEntry THEN "bootstrap"
  ELSE IF lock.entries[s].bytes = disk[s] THEN "match"
  ELSE "mismatch"

\* pinnedCommit: the commits of the entries fetched last (one batch has one commit).
PinnedCommits(l) ==
  {l[s].commit : s \in {t \in Systems : l[t] # NoEntry /\ \A u \in Systems : l[u].at <= l[t].at}}

----------------------------------------------------------------------------
(* A refresh: Refresh (all systems) and RefreshSystem (one) *)

\* Both return at once when another refresh runs.
RefreshStart(one, todo) ==
  /\ ref.at = "idle" /\ batches < MaxBatches
  /\ batches' = batches + 1
  /\ ref' = [Idle EXCEPT !.at = "resolve", !.one = one, !.todo = todo]
  /\ UNCHANGED <<head, disk, lock, versions, info, faults, kills>>

\* resolveCommit answers with the ref's commit or not at all.
ResolveCommit == {head, 0}

\* Without an answer, the lock's pin.  Without either, a batch warns of every
\* system and still writes the lock; RefreshSystem gives up.
Resolve ==
  /\ ref.at = "resolve"
  /\ \E c \in (ResolveCommit \ {0})
             \cup (IF PinnedCommits(ReadLock) = {} THEN {0} ELSE PinnedCommits(ReadLock)) :
       ref' = IF c = 0 /\ ref.one THEN Idle
              ELSE [ref EXCEPT !.commit = c, !.mem = ReadLock,
                               !.at = IF c = 0 THEN "lock" ELSE "fetch"]
  /\ UNCHANGED <<head, disk, lock, versions, info, batches, faults, kills>>

\* A failed system: the batch goes on, RefreshSystem returns without the lock.
Skipped(s) ==
  IF ref.one THEN Idle
  ELSE [ref EXCEPT !.at = "fetch", !.todo = @ \ {s}, !.cur = {}, !.body = Absent]

Refused(s, b) ==
  \/ ref.mem[s].commit = ref.commit /\ ref.mem[s].bytes # b
  \/ ~Parses(b)

\* fetchSystemAt up to the install: what the host serves is gated and parsed.
Download(s) ==
  /\ ref.at = "fetch" /\ s \in ref.todo
  /\ \/ ref' = Skipped(s) /\ UNCHANGED faults
     \/ \E b \in {ref.commit, Mutated, Torn} :
          /\ b = Mutated => faults < MaxFaults
          /\ faults' = faults + (IF b = Mutated THEN 1 ELSE 0)
          /\ ref' = IF Refused(s, b) THEN Skipped(s)
                    ELSE [ref EXCEPT !.at = "install", !.cur = {s}, !.body = b]
  /\ UNCHANGED <<head, disk, lock, versions, info, batches, kills>>

\* Already at the locked generation: no new ledger row.
Fresh(s) == ~(ref.mem[s].commit = ref.commit /\ ref.mem[s].bytes = ref.body)

\* Mutant: the generation the lock knows is taken to be on disk.
InstallNewOnly(s) ==
  /\ ref.at = "install" /\ ref.cur = {s}
  /\ \/ /\ disk' = IF Fresh(s) THEN [disk EXCEPT ![s] = ref.body] ELSE disk
        /\ ref' = [ref EXCEPT !.at = "record"] /\ UNCHANGED faults
     \/ faults < MaxFaults /\ faults' = faults + 1 /\ ref' = Skipped(s) /\ UNCHANGED disk
  /\ UNCHANGED <<head, lock, versions, info, batches, kills>>

\* writeFileAtomic renames the temporary file into place, or leaves the old one.
Install(s) ==
  /\ ref.at = "install" /\ ref.cur = {s}
  /\ \/ /\ disk' = [disk EXCEPT ![s] = ref.body]
        /\ ref' = [ref EXCEPT !.at = "record"] /\ UNCHANGED faults
     \/ faults < MaxFaults /\ faults' = faults + 1 /\ ref' = Skipped(s) /\ UNCHANGED disk
  /\ UNCHANGED <<head, lock, versions, info, batches, kills>>

Row(s) == [sys |-> s, commit |-> ref.commit, bytes |-> ref.body]
Accepted(s) ==
  [ref EXCEPT !.at = "fetch", !.todo = @ \ {s}, !.cur = {}, !.body = Absent, !.ok = @ \cup {s},
              !.mem = [ref.mem EXCEPT ![s] =
                         IF Fresh(s) THEN [commit |-> ref.commit, bytes |-> ref.body, at |-> batches]
                         ELSE ref.mem[s]]]

\* Mutant: the lock entry is made whether or not the ledger took the row.
RecordAnyway(s) ==
  /\ ref.at = "record" /\ ref.cur = {s}
  /\ \/ /\ info' = [info EXCEPT ![s] = ref.body]
        /\ versions' = IF Fresh(s) THEN versions \cup {Row(s)} ELSE versions
        /\ UNCHANGED faults
     \/ faults < MaxFaults /\ faults' = faults + 1 /\ UNCHANGED <<info, versions>>
  /\ ref' = Accepted(s)
  /\ UNCHANGED <<head, disk, lock, batches, kills>>

\* SetDATInfo, then AppendDATVersion, then the entry in memory; each may fail
\* and leave the ones before it done.
Record(s) ==
  /\ ref.at = "record" /\ ref.cur = {s}
  /\ \/ /\ info' = [info EXCEPT ![s] = ref.body]
        /\ versions' = IF Fresh(s) THEN versions \cup {Row(s)} ELSE versions
        /\ ref' = Accepted(s)
        /\ UNCHANGED faults
     \/ /\ faults < MaxFaults /\ faults' = faults + 1
        /\ info' \in {info, [info EXCEPT ![s] = ref.body]}
        /\ ref' = Skipped(s)
        /\ UNCHANGED versions
  /\ UNCHANGED <<head, disk, lock, batches, kills>>

BatchEnds == ref.at = "lock" \/ (ref.at = "fetch" /\ ref.todo = {})

\* One rename for the batch: the lock is the old one or the new one.
WriteLock ==
  /\ BatchEnds
  /\ lock' = [readable |-> TRUE, entries |-> ref.mem]
  /\ ref' = Idle
  /\ UNCHANGED <<head, disk, versions, info, batches, faults, kills>>

\* The write failed: a warning, and the old lock stays.
WriteLockFails ==
  /\ BatchEnds /\ faults < MaxFaults
  /\ faults' = faults + 1 /\ ref' = Idle
  /\ UNCHANGED <<head, disk, lock, versions, info, batches, kills>>

----------------------------------------------------------------------------
(* Upstream and the disk *)

Push ==
  /\ head < MaxCommits /\ head' = head + 1
  /\ UNCHANGED <<disk, lock, versions, info, ref, batches, faults, kills>>

\* A file changes at rest: no refresh is between reading and writing it.
DamageDAT(s) ==
  /\ faults < MaxFaults /\ ref.at = "idle" /\ disk[s] # Absent
  /\ disk' = [disk EXCEPT ![s] = Damaged] /\ faults' = faults + 1
  /\ UNCHANGED <<head, lock, versions, info, ref, batches, kills>>

DamageLock ==
  /\ faults < MaxFaults /\ ref.at = "idle"
  /\ lock' = [readable |-> FALSE, entries |-> EmptyLock] /\ faults' = faults + 1
  /\ UNCHANGED <<head, disk, versions, info, ref, batches, kills>>

RefreshStep ==
  \/ \E s \in Systems : Download(s) \/ Install(s) \/ Record(s)
  \/ Resolve \/ WriteLock \/ WriteLockFails

DatsNext ==
  \/ RefreshStart(FALSE, Systems)
  \/ \E s \in Systems : RefreshStart(TRUE, {s})
  \/ RefreshStep
  \/ Push

----------------------------------------------------------------------------
(* Properties *)

\* "The ledger is the database's answer to what attested what, and when":
\* every entry of the lock file names a generation the append-only ledger has
\* a row for, whichever effects of fetchSystemAt failed or were cut off.
LockBacked ==
  \A s \in Systems : lock.entries[s] # NoEntry =>
    [sys |-> s, commit |-> lock.entries[s].commit, bytes |-> lock.entries[s].bytes] \in versions

\* A refresh ends what a stopped refresh, a failed effect or a damaged file
\* began: when the lock is written, the files of the systems the batch fetched
\* are the bytes the lock attests, so that CheckLock lets their verifies through.
RefreshReconciles ==
  [][WriteLock => \A s \in ref.ok : disk[s] = lock'.entries[s].bytes]_datVars

=============================================================================
