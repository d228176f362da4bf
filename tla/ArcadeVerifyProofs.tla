------------------------- MODULE ArcadeVerifyProofs -------------------------
(***************************************************************************)
(* For any number of systems, refreshes, verify runs, downloads, faults    *)
(* and kills: the lock file is backed by the ledger, a refresh that writes *)
(* it agrees with the files it installed, igir only matches against bytes  *)
(* the gate attests, the pill says what the DAT says, and a copy that is   *)
(* taken for done is done.                                                 *)
(*                                                                         *)
(* The invariant follows a DAT from its download to igir, and a staged     *)
(* file from its stamp to its copy: what each goroutine holds in its hands *)
(* between two of its steps is tied to what the disk holds by then.        *)
(***************************************************************************)
EXTENDS ArcadeVerify, TLAPS

\* Every entry of a lock names a generation that parsed, and that the ledger has.
Backed(l, ledger) ==
  \A s \in Systems : l[s] # NoEntry =>
    /\ Parses(l[s].bytes)
    /\ [sys |-> s, commit |-> l[s].commit, bytes |-> l[s].bytes] \in ledger

\* A refresh that has begun was counted, and fetches at a commit.
RefreshCounted ==
  /\ ref.at # "idle" => batches > 0
  /\ ref.at \in {"fetch", "install", "record"} => ref.commit \in Commits

\* The system it works on is one it has still to do; its bytes passed the gate,
\* and are on disk when they are recorded.
InHand ==
  /\ ref.at \in {"install", "record"} =>
       Parses(ref.body) /\ \E s \in ref.todo : ref.cur = {s}
  /\ ref.at = "record" => \A s \in ref.cur : disk[s] = ref.body

\* What it has done stays as the lock in memory says.
Agreed ==
  /\ ref.at \in {"idle", "resolve"} => ref.ok = {}
  /\ ref.ok \cap ref.todo = {}
  /\ \A s \in ref.ok : disk[s] = ref.mem[s].bytes

DatsInv ==
  /\ Backed(lock.entries, versions) /\ Backed(ref.mem, versions)
  /\ RefreshCounted /\ InHand /\ Agreed

\* Past the gate, the file igir is about to read parses, whatever refresh replaced it.
GateHolds ==
  ver.at = "exec" /\ ver.gate # "bootstrap" => \A s \in ver.sys : Parses(disk[s])

\* A report says of its run what the DAT says of the file.
ReportsHonest ==
  \A s \in Staged : report[s] # NoReport =>
    (ClassifyVerify(report[s].rows) = "verified" <=>
       Claimed(report[s].dat, report[s].stamp) /\ ~report[s].stray)

\* A promoted file that carries a staged file's time is that file, or an older
\* one than what is staged by now.
Stamped ==
  \A s \in Staged :
    tree[s].data \notin {0, TornFile} /\ tree[s].mtime # Now =>
      tree[s].data = tree[s].mtime \/ tree[s].mtime < staging[s]

\* A copy under way has the bytes of the stamp it took, or of a later one.
Copying ==
  /\ ver.at = "opened" => \A s \in ver.sys :
       /\ ver.src <= staging[s] /\ tree[s].mtime = Now
       /\ tree[s].data = TornFile \/ (ver.src <= tree[s].data /\ tree[s].data <= staging[s])
  /\ ver.at = "copied" => \A s \in ver.sys :
       ver.src <= staging[s] /\ (ver.src = staging[s] => tree[s].data = staging[s])

VerifyInv ==
  /\ TypeOK
  /\ DatsInv
  /\ GateHolds /\ OnlyAttestedDATs
  /\ ReportsHonest /\ PillFollowsDAT
  /\ Stamped /\ Copying

----------------------------------------------------------------------------
(* Type correctness *)

\* The bounds are numbers; there is a commit, a batch that runs was counted.
LEMMA Bounds ==
  /\ MaxCommits \in Nat /\ MaxCommits > 0 /\ MaxBatches \in Nat /\ MaxFaults \in Nat
  /\ MaxKills \in Nat /\ MaxStamps \in Nat /\ MaxRuns \in Nat /\ Staged \subseteq Systems
BY DatsAssumption, VerifyAssumption

LEMMA IdleTyping ==
  /\ Idle \in Refresh /\ Idle.at = "idle" /\ Idle.mem = EmptyLock /\ Idle.ok = {} /\ Idle.todo = {}
  /\ Idle.body = Absent
<1>1. EmptyLock \in [Systems -> LockEntry \cup {NoEntry}]
  BY DEF EmptyLock
<1> QED BY <1>1 DEF Idle, Refresh

LEMMA QuietTyping ==
  /\ Quiet \in Verifier /\ Quiet.at = "idle" /\ Quiet.sys = {} /\ Quiet.gate = "none"
BY Bounds DEF Quiet, Verifier

LEMMA SkippedTyping ==
  ASSUME ref \in Refresh, NEW s \in Systems
  PROVE  /\ Skipped(s) \in Refresh
         /\ \/ Skipped(s) = Idle
            \/ /\ Skipped(s).at = "fetch" /\ Skipped(s).commit = ref.commit
               /\ Skipped(s).todo = ref.todo \ {s} /\ Skipped(s).ok = ref.ok
               /\ Skipped(s).mem = ref.mem
BY IdleTyping DEF Skipped, Refresh, Bytes

\* What an accepted system adds to the lock in memory is an entry.
LEMMA EntryTyping ==
  ASSUME ref \in Refresh, batches \in 1 .. MaxBatches, ref.commit \in Commits, ref.body \in Bytes
  PROVE  [commit |-> ref.commit, bytes |-> ref.body, at |-> batches] \in LockEntry
BY DEF LockEntry

LEMMA AcceptedTyping ==
  ASSUME ref \in Refresh, batches \in 1 .. MaxBatches, ref.commit \in Commits, ref.body \in Bytes,
         NEW s \in Systems
  PROVE  /\ Accepted(s) \in Refresh
         /\ Accepted(s).at = "fetch" /\ Accepted(s).commit = ref.commit
         /\ Accepted(s).todo = ref.todo \ {s} /\ Accepted(s).ok = ref.ok \cup {s}
         /\ Accepted(s).mem = [ref.mem EXCEPT ![s] =
               IF Fresh(s) THEN [commit |-> ref.commit, bytes |-> ref.body, at |-> batches]
               ELSE ref.mem[s]]
<1> DEFINE m == [ref.mem EXCEPT ![s] =
               IF Fresh(s) THEN [commit |-> ref.commit, bytes |-> ref.body, at |-> batches]
               ELSE ref.mem[s]]
<1>1. m \in [Systems -> LockEntry \cup {NoEntry}]
  BY EntryTyping DEF Refresh
<1>2. Accepted(s) = [at |-> "fetch", one |-> ref.one, todo |-> ref.todo \ {s}, commit |-> ref.commit,
                     mem |-> m, cur |-> {}, body |-> Absent, ok |-> ref.ok \cup {s}]
  <2>1. Accepted(s) = [ref EXCEPT !.at = "fetch", !.todo = @ \ {s}, !.cur = {}, !.body = Absent,
                                  !.ok = @ \cup {s}, !.mem = m]
    BY Zenon DEF Accepted
  <2> HIDE DEF m
  <2> QED BY <2>1 DEF Refresh
<1> HIDE DEF m
<1>3. Accepted(s) \in Refresh
  BY <1>1, <1>2 DEF Refresh
<1>4. /\ Accepted(s).at = "fetch" /\ Accepted(s).commit = ref.commit
      /\ Accepted(s).todo = ref.todo \ {s} /\ Accepted(s).ok = ref.ok \cup {s}
      /\ Accepted(s).mem = m
  BY <1>2
<1> QED BY <1>3, <1>4 DEF m

LEMMA PinnedTyping ==
  ASSUME NEW l \in [Systems -> LockEntry \cup {NoEntry}]
  PROVE  PinnedCommits(l) \subseteq Commits
BY DEF PinnedCommits, LockEntry

LEMMA ReadLockTyping ==
  ASSUME DatsTypeOK
  PROVE  ReadLock \in [Systems -> LockEntry \cup {NoEntry}]
BY DEF ReadLock, DatsTypeOK, EmptyLock

----------------------------------------------------------------------------
(* A refresh: the ledger before the lock *)

LEMMA BackedGrows ==
  ASSUME NEW l, NEW v, NEW w, v \subseteq w, Backed(l, v)
  PROVE  Backed(l, w)
BY DEF Backed

LEMMA BackedEmpty ==
  ASSUME NEW v
  PROVE  Backed(EmptyLock, v)
BY DEF Backed, EmptyLock

LEMMA ReadLockBacked ==
  ASSUME Backed(lock.entries, versions)
  PROVE  Backed(ReadLock, versions)
BY BackedEmpty DEF ReadLock

\* An entry may be added once the ledger has its row.
LEMMA AcceptedBacked ==
  ASSUME DatsTypeOK, NEW s \in Systems, NEW w, versions \subseteq w,
         Backed(ref.mem, versions), Parses(ref.body),
         batches \in 1 .. MaxBatches, ref.commit \in Commits, ref.body \in Bytes,
         Fresh(s) => Row(s) \in w
  PROVE  /\ Backed(Accepted(s).mem, w)
         /\ Accepted(s).mem[s].bytes = ref.body
         /\ \A t \in Systems \ {s} : Accepted(s).mem[t] = ref.mem[t]
<1>1. /\ ref \in Refresh /\ ref.mem \in [Systems -> LockEntry \cup {NoEntry}]
      /\ Backed(ref.mem, w)
  BY BackedGrows DEF DatsTypeOK, Refresh
<1> DEFINE e == [commit |-> ref.commit, bytes |-> ref.body, at |-> batches]
<1>2. Accepted(s).mem = [ref.mem EXCEPT ![s] = IF Fresh(s) THEN e ELSE ref.mem[s]]
  BY <1>1, AcceptedTyping
<1>3. CASE Fresh(s)
  <2>1. /\ Accepted(s).mem[s] = e
        /\ \A t \in Systems \ {s} : Accepted(s).mem[t] = ref.mem[t]
    BY <1>1, <1>2, <1>3
  <2>2. [sys |-> s, commit |-> e.commit, bytes |-> e.bytes] \in w /\ e.bytes = ref.body
    BY <1>3 DEF Row
  <2> HIDE DEF e
  <2> QED BY <1>1, <2>1, <2>2 DEF Backed
<1>4. CASE ~Fresh(s)
  <2>1. Accepted(s).mem = ref.mem
    BY <1>1, <1>2, <1>4
  <2> QED BY <1>1, <1>4, <2>1 DEF Fresh
<1> QED BY <1>3, <1>4

\* A refresh that gives up, or drops a system, keeps to what it had.
LEMMA SkipSafe ==
  ASSUME DatsTypeOK, DatsInv, NEW s \in Systems, ref.at \in {"fetch", "install", "record"},
         ref' = Skipped(s), UNCHANGED <<disk, lock, versions, batches>>
  PROVE  ref' \in Refresh /\ DatsInv'
<1>1. /\ ref' \in Refresh
      /\ \/ ref' = Idle
         \/ /\ ref'.at = "fetch" /\ ref'.commit = ref.commit
            /\ ref'.todo = ref.todo \ {s} /\ ref'.ok = ref.ok /\ ref'.mem = ref.mem
  BY SkippedTyping DEF DatsTypeOK
<1>2. CASE ref' = Idle
  BY <1>1, <1>2, IdleTyping, BackedEmpty
  DEF DatsInv, RefreshCounted, InHand, Agreed
<1>3. CASE ref' # Idle
  BY <1>1, <1>3 DEF DatsInv, RefreshCounted, InHand, Agreed, DatsTypeOK
<1> QED BY <1>1, <1>2, <1>3

\* A refresh that ends leaves nothing in hand.
LEMMA IdleSafe ==
  ASSUME DatsTypeOK, DatsInv, ref' = Idle, versions' = versions,
         Backed(lock'.entries, versions)
  PROVE  ref' \in Refresh /\ DatsInv'
BY IdleTyping, BackedEmpty DEF DatsInv, RefreshCounted, InHand, Agreed

LEMMA RefreshStartSafe ==
  ASSUME DatsTypeOK, DatsInv, NEW one \in BOOLEAN, NEW todo \in SUBSET Systems,
         RefreshStart(one, todo)
  PROVE  DatsTypeOK' /\ DatsInv' /\ UNCHANGED disk
<1>1. ref' = [at |-> "resolve", one |-> one, todo |-> todo, commit |-> 0, mem |-> EmptyLock,
              cur |-> {}, body |-> Absent, ok |-> {}]
  BY DEF RefreshStart, Idle
<1>2. ref' \in Refresh
  <2>1. EmptyLock \in [Systems -> LockEntry \cup {NoEntry}]
    BY DEF EmptyLock
  <2> QED BY <1>1, <2>1 DEF Refresh
<1>3. DatsTypeOK'
  BY <1>2, Bounds DEF RefreshStart, DatsTypeOK
<1>4. RefreshCounted' /\ InHand' /\ Agreed'
  <2>1. batches' > 0
    BY Bounds DEF RefreshStart, DatsTypeOK
  <2> QED BY <1>1, <2>1 DEF RefreshCounted, InHand, Agreed
<1>5. Backed(ref'.mem, versions')
  BY <1>1, BackedEmpty
<1>6. DatsInv'
  BY <1>4, <1>5 DEF RefreshStart, DatsInv
<1> QED BY <1>3, <1>6 DEF RefreshStart

LEMMA ResolveSafe ==
  ASSUME DatsTypeOK, DatsInv, Resolve
  PROVE  DatsTypeOK' /\ DatsInv' /\ UNCHANGED disk
<1> USE DEF Resolve
<1>1. PICK c \in Commits \cup {0} :
        ref' = IF c = 0 /\ ref.one THEN Idle
               ELSE [ref EXCEPT !.commit = c, !.mem = ReadLock,
                                !.at = IF c = 0 THEN "lock" ELSE "fetch"]
  BY ReadLockTyping, PinnedTyping DEF ResolveCommit, DatsTypeOK
<1>2. ref \in Refresh /\ ReadLock \in [Systems -> LockEntry \cup {NoEntry}]
  BY ReadLockTyping DEF DatsTypeOK
<1>3. ref.ok = {}
  BY DEF DatsInv, Agreed
<1>4. CASE c = 0 /\ ref.one
  BY <1>1, <1>4, IdleSafe DEF DatsInv, DatsTypeOK
<1>5. CASE ~(c = 0 /\ ref.one)
  <2> DEFINE a == IF c = 0 THEN "lock" ELSE "fetch"
  <2>1. ref' = [at |-> a, one |-> ref.one, todo |-> ref.todo, commit |-> c, mem |-> ReadLock,
                cur |-> ref.cur, body |-> ref.body, ok |-> ref.ok]
    BY <1>1, <1>2, <1>5 DEF Refresh
  <2>2. a \in {"lock", "fetch"} /\ (a = "fetch" => c \in Commits)
    BY <1>1
  <2> HIDE DEF a
  <2>3. ref' \in Refresh
    BY <1>2, <2>1, <2>2 DEF Refresh
  <2>4. DatsTypeOK'
    BY <2>3 DEF DatsTypeOK
  <2>5. DatsInv'
    BY <1>3, <2>1, <2>2, ReadLockBacked DEF DatsInv, RefreshCounted, InHand, Agreed
  <2> QED BY <2>4, <2>5
<1> QED BY <1>4, <1>5

LEMMA DownloadSafe ==
  ASSUME DatsTypeOK, DatsInv, NEW s \in Systems, Download(s)
  PROVE  DatsTypeOK' /\ DatsInv' /\ UNCHANGED disk
<1> USE DEF Download
<1>1. CASE ref' = Skipped(s)
  <2>1. ref' \in Refresh /\ DatsInv'
    BY <1>1, SkipSafe
  <2>2. faults' \in 0 .. MaxFaults
    BY Bounds DEF DatsTypeOK
  <2> QED BY <2>1, <2>2 DEF DatsTypeOK
<1>2. CASE ref' # Skipped(s)
  <2>1. PICK b \in {ref.commit, Mutated, Torn} :
          /\ faults' \in 0 .. MaxFaults /\ Parses(b)
          /\ ref' = [ref EXCEPT !.at = "install", !.cur = {s}, !.body = b]
    <3>1. PICK b \in {ref.commit, Mutated, Torn} :
            /\ b = Mutated => faults < MaxFaults
            /\ faults' = faults + (IF b = Mutated THEN 1 ELSE 0)
            /\ ref' = IF Refused(s, b) THEN Skipped(s)
                      ELSE [ref EXCEPT !.at = "install", !.cur = {s}, !.body = b]
      BY <1>2
    <3>2. faults' \in 0 .. MaxFaults
      BY <3>1, Bounds DEF DatsTypeOK
    <3> QED BY <1>2, <3>1, <3>2 DEF Refused
  <2>2. ref \in Refresh /\ b \in Bytes /\ ref.commit \in Commits
    BY <2>1 DEF DatsTypeOK, DatsInv, RefreshCounted, Bytes
  <2>3. ref' = [at |-> "install", one |-> ref.one, todo |-> ref.todo, commit |-> ref.commit,
                mem |-> ref.mem, cur |-> {s}, body |-> b, ok |-> ref.ok]
    BY <2>1, <2>2 DEF Refresh
  <2>4. ref' \in Refresh
    BY <2>2, <2>3 DEF Refresh
  <2>5. DatsTypeOK'
    BY <2>1, <2>4 DEF DatsTypeOK
  <2>6. DatsInv'
    BY <2>1, <2>2, <2>3 DEF DatsInv, RefreshCounted, InHand, Agreed
  <2> QED BY <2>5, <2>6
<1> QED BY <1>1, <1>2

\* The install puts bytes that parse in the place of what was there.
LEMMA InstallSafe ==
  ASSUME DatsTypeOK, DatsInv, NEW s \in Systems, Install(s)
  PROVE  /\ DatsTypeOK' /\ DatsInv'
         /\ \A t \in Systems : Parses(disk[t]) => Parses(disk'[t])
<1> USE DEF Install
<1>1. CASE ref' = Skipped(s) /\ UNCHANGED disk
  <2>1. ref' \in Refresh /\ DatsInv'
    BY <1>1, SkipSafe
  <2>2. faults' \in 0 .. MaxFaults
    BY Bounds DEF DatsTypeOK
  <2> QED BY <1>1, <2>1, <2>2 DEF DatsTypeOK
<1>2. CASE ~(ref' = Skipped(s) /\ UNCHANGED disk)
  <2>1. /\ disk' = [disk EXCEPT ![s] = ref.body] /\ ref' = [ref EXCEPT !.at = "record"]
        /\ UNCHANGED faults
    BY <1>2
  <2>2. /\ ref \in Refresh /\ Parses(ref.body) /\ s \in ref.todo /\ ref.cur = {s} /\ ref.body \in Bytes
        /\ disk \in [Systems -> Bytes \cup {Absent}]
    BY DEF DatsInv, InHand, DatsTypeOK, Parses, Bytes
  <2>3. ref' = [at |-> "record", one |-> ref.one, todo |-> ref.todo, commit |-> ref.commit,
                mem |-> ref.mem, cur |-> ref.cur, body |-> ref.body, ok |-> ref.ok]
    BY <2>1, <2>2 DEF Refresh
  <2>4. ref' \in Refresh
    BY <2>2, <2>3 DEF Refresh
  <2>5. /\ disk' \in [Systems -> Bytes \cup {Absent}]
        /\ disk'[s] = ref.body /\ \A t \in Systems \ {s} : disk'[t] = disk[t]
    BY <2>1, <2>2
  <2>6. DatsTypeOK'
    BY <2>1, <2>4, <2>5 DEF DatsTypeOK
  <2>7. InHand'
    BY <2>2, <2>3, <2>5 DEF InHand
  <2>8. Agreed'
    BY <2>2, <2>3, <2>5 DEF DatsInv, Agreed, Refresh
  <2>9. DatsInv'
    BY <2>3, <2>7, <2>8 DEF DatsInv, RefreshCounted
  <2> QED BY <2>2, <2>5, <2>6, <2>9
<1> QED BY <1>1, <1>2

LEMMA RecordSafe ==
  ASSUME DatsTypeOK, DatsInv, NEW s \in Systems, Record(s)
  PROVE  DatsTypeOK' /\ DatsInv' /\ UNCHANGED disk
<1> USE DEF Record
<1>0. /\ ref \in Refresh /\ Parses(ref.body) /\ s \in ref.todo /\ ref.cur = {s} /\ ref.body \in Bytes
      /\ disk[s] = ref.body /\ ref.commit \in Commits /\ batches \in 1 .. MaxBatches
  BY Bounds DEF DatsInv, InHand, RefreshCounted, DatsTypeOK, Parses, Bytes
<1>1. info' \in [Systems -> Bytes \cup {Absent}]
  BY <1>0 DEF DatsTypeOK
<1>2. CASE ref' = Skipped(s) /\ UNCHANGED versions
  <2>1. ref' \in Refresh /\ DatsInv'
    BY <1>2, SkipSafe
  <2>2. faults' \in 0 .. MaxFaults
    BY Bounds DEF DatsTypeOK
  <2> QED BY <1>1, <1>2, <2>1, <2>2 DEF DatsTypeOK
<1>3. CASE ~(ref' = Skipped(s) /\ UNCHANGED versions)
  <2>1. /\ versions' = IF Fresh(s) THEN versions \cup {Row(s)} ELSE versions
        /\ ref' = Accepted(s) /\ UNCHANGED faults
    BY <1>3
  <2>2. /\ versions \subseteq versions' /\ (Fresh(s) => Row(s) \in versions')
    BY <2>1
  <2>3. versions' \subseteq [sys : Systems, commit : Commits, bytes : Bytes]
    BY <1>0, <2>1 DEF Row, DatsTypeOK
  <2>4. /\ ref' \in Refresh /\ ref'.at = "fetch" /\ ref'.commit = ref.commit
        /\ ref'.todo = ref.todo \ {s} /\ ref'.ok = ref.ok \cup {s}
    BY <1>0, <2>1, AcceptedTyping
  <2>5. /\ Backed(ref'.mem, versions') /\ ref'.mem[s].bytes = ref.body
        /\ \A t \in Systems \ {s} : ref'.mem[t] = ref.mem[t]
    BY <1>0, <2>1, <2>2, AcceptedBacked DEF DatsInv
  <2>6. DatsTypeOK'
    BY <1>1, <2>1, <2>3, <2>4 DEF DatsTypeOK
  <2>7. Agreed'
    BY <1>0, <2>4, <2>5 DEF DatsInv, Agreed, Refresh
  <2>8. Backed(lock'.entries, versions')
    BY <2>2, BackedGrows DEF DatsInv
  <2>9. DatsInv'
    BY <1>0, <2>4, <2>5, <2>7, <2>8, Bounds DEF DatsInv, RefreshCounted, InHand
  <2> QED BY <2>6, <2>9
<1> QED BY <1>2, <1>3

LEMMA WriteLockSafe ==
  ASSUME DatsTypeOK, DatsInv, WriteLock \/ WriteLockFails
  PROVE  DatsTypeOK' /\ DatsInv' /\ UNCHANGED disk
<1>1. CASE WriteLock
  <2>1. lock' = [readable |-> TRUE, entries |-> ref.mem] /\ ref.mem \in [Systems -> LockEntry \cup {NoEntry}]
    BY <1>1 DEF WriteLock, DatsTypeOK, Refresh
  <2>2. Backed(lock'.entries, versions)
    BY <2>1 DEF DatsInv
  <2>3. ref' \in Refresh /\ DatsInv'
    BY <1>1, <2>2, IdleSafe DEF WriteLock
  <2>4. lock' \in [readable : BOOLEAN, entries : [Systems -> LockEntry \cup {NoEntry}]]
    BY <2>1
  <2> QED BY <1>1, <2>3, <2>4 DEF WriteLock, DatsTypeOK
<1>2. CASE WriteLockFails
  <2>1. ref' \in Refresh /\ DatsInv'
    BY <1>2, IdleSafe DEF WriteLockFails, DatsInv
  <2>2. faults' \in 0 .. MaxFaults
    BY <1>2, Bounds DEF WriteLockFails, DatsTypeOK
  <2> QED BY <1>2, <2>1, <2>2 DEF WriteLockFails, DatsTypeOK
<1> QED BY <1>1, <1>2

LEMMA PushSafe ==
  ASSUME DatsTypeOK, DatsInv, Push
  PROVE  DatsTypeOK' /\ DatsInv' /\ UNCHANGED disk
<1>1. head' \in Commits
  BY Bounds DEF Push, DatsTypeOK, Commits
<1> QED BY <1>1 DEF Push, DatsTypeOK, DatsInv, RefreshCounted, InHand, Agreed

\* At rest no refresh has anything in hand that a damaged file could contradict.
LEMMA DamageSafe ==
  ASSUME DatsTypeOK, DatsInv, DamageLock \/ \E s \in Systems : DamageDAT(s)
  PROVE  DatsTypeOK' /\ DatsInv'
<1>0. faults' \in 0 .. MaxFaults /\ ref.ok = {} /\ ref.at = "idle"
  BY Bounds DEF DamageLock, DamageDAT, DatsTypeOK, DatsInv, Agreed
<1>1. CASE DamageLock
  <2>1. EmptyLock \in [Systems -> LockEntry \cup {NoEntry}]
    BY DEF EmptyLock
  <2>2. lock' \in [readable : BOOLEAN, entries : [Systems -> LockEntry \cup {NoEntry}]]
    BY <1>1, <2>1 DEF DamageLock
  <2>3. Backed(lock'.entries, versions)
    BY <1>1, BackedEmpty DEF DamageLock
  <2> QED BY <1>0, <1>1, <2>2, <2>3
          DEF DamageLock, DatsTypeOK, DatsInv, RefreshCounted, InHand, Agreed
<1>2. ASSUME NEW s \in Systems, DamageDAT(s) PROVE DatsTypeOK' /\ DatsInv'
  <2>1. disk' \in [Systems -> Bytes \cup {Absent}]
    BY <1>2 DEF DamageDAT, DatsTypeOK, Bytes
  <2> QED BY <1>0, <1>2, <2>1
          DEF DamageDAT, DatsTypeOK, DatsInv, RefreshCounted, InHand, Agreed
<1> QED BY <1>1, <1>2

\* A refresh, a push, and neither.
LEMMA DatsStepSafe ==
  ASSUME DatsTypeOK, DatsInv, DatsNext
  PROVE  /\ DatsTypeOK' /\ DatsInv'
         /\ \A t \in Systems : Parses(disk[t]) => Parses(disk'[t])
BY RefreshStartSafe, ResolveSafe, DownloadSafe, InstallSafe, RecordSafe, WriteLockSafe, PushSafe
DEF DatsNext, RefreshStep

----------------------------------------------------------------------------
(* A verify: types *)

\* A step of the verifier leaves the refreshes alone; it may use up a fault.
LEMMA DatsKept ==
  ASSUME DatsTypeOK, DatsInv, faults' \in 0 .. MaxFaults,
         UNCHANGED <<head, disk, lock, versions, info, ref, batches, kills>>
  PROVE  DatsTypeOK' /\ DatsInv'
BY DEF DatsTypeOK, DatsInv, RefreshCounted, InHand, Agreed

LEMMA EndsTyping ==
  ASSUME ver \in Verifier, NEW s \in Staged, NEW o \in Outcomes, Ends(s, o)
  PROVE  ver' \in Verifier /\ ver'.at = "next"
<1>1. ver' = [at |-> "next", todo |-> ver.todo \ {s}, sys |-> {}, gate |-> "none", src |-> 0,
              exit |-> "ok", outs |-> ver.outs \cup {<<s, o>>}]
  BY DEF Ends, Quiet
<1>2. ver.outs \cup {<<s, o>>} \in SUBSET (Staged \X Outcomes) /\ ver.todo \ {s} \in SUBSET Staged
  BY DEF Verifier
<1> QED BY <1>1, <1>2, Bounds DEF Verifier

\* Row by row, what ParseReport counts.
LEMMA RowClasses ==
  /\ RowClass(<<"FOUND", "output">>) = "found"
  /\ RowClass(<<"MISSING", "none">>) = "missing"
  /\ RowClass(<<"UNUSED", "input">>) = "unmatched"
  /\ RowClass(<<"DUPLICATE", "output">>) = "duplicate"
  /\ RowClass(<<"UNUSED", "output">>) = "extra"
  /\ RowClass(<<"UNUSED", "artifact">>) = "artifact"
BY DEF RowClass

LEMMA PillTyping ==
  ASSUME NEW rows
  PROVE  ClassifyVerify(rows) \in Pills
BY DEF ClassifyVerify, Pills

LEMMA RowsTyping ==
  ASSUME NEW s \in Staged
  PROVE  ReportRows(s) \in SUBSET Rows
BY DEF ReportRows, Rows

\* The verdict on a report igir has just written: the staged file is claimed and
\* no stray lies beside it.  Neither an echo nor a launcher file counts.
LEMMA Verdict ==
  ASSUME NEW s \in Staged, tree[s].stray \in BOOLEAN
  PROVE  ClassifyVerify(ReportRows(s)) = "verified" <=>
           Claimed(disk[s], staging[s]) /\ ~tree[s].stray
<1> DEFINE n == {RowClass(r) : r \in ReportRows(s)}
<1>1. CASE ~Claimed(disk[s], staging[s])
  <2>1. <<"UNUSED", "input">> \in ReportRows(s)
    BY <1>1 DEF ReportRows
  <2>2. "unmatched" \in n
    BY <2>1, RowClasses
  <2>3. ClassifyVerify(ReportRows(s)) = "unmatched"
    <3>1. n \cap {"unmatched", "other"} # {}
      BY <2>2
    <3> QED BY <3>1 DEF ClassifyVerify
  <2> QED BY <1>1, <2>3
<1>2. CASE Claimed(disk[s], staging[s])
  <2>1. ReportRows(s) \subseteq
          {<<"FOUND", "output">>, <<"DUPLICATE", "output">>, <<"UNUSED", "artifact">>}
            \cup (IF tree[s].stray THEN {<<"UNUSED", "output">>} ELSE {})
    BY <1>2 DEF ReportRows
  <2>2. <<"FOUND", "output">> \in ReportRows(s)
    BY <1>2 DEF ReportRows
  <2>3. tree[s].stray => <<"UNUSED", "output">> \in ReportRows(s)
    BY DEF ReportRows
  <2>4. n \subseteq {"found", "duplicate", "artifact"} \cup (IF tree[s].stray THEN {"extra"} ELSE {})
    BY <2>1, RowClasses
  <2>5. "found" \in n /\ (tree[s].stray => "extra" \in n)
    BY <2>2, <2>3, RowClasses
  <2>6. ClassifyVerify(ReportRows(s)) = IF "extra" \in n THEN "extra" ELSE "verified"
    <3>1. n \cap {"unmatched", "other"} = {} /\ n \cap {"found", "missing"} # {} /\ "missing" \notin n
      BY <2>4, <2>5
    <3> QED BY <3>1 DEF ClassifyVerify
  <2>7. "extra" \in n <=> tree[s].stray
    BY <2>4, <2>5
  <2> HIDE DEF n
  <2> QED BY <1>2, <2>6, <2>7
<1> QED BY <1>1, <1>2

----------------------------------------------------------------------------
(* A verify: the gate, the report, the copy *)

\* What the verifier's own state promises; between systems it promises nothing.
VerifyFacts ==
  GateHolds /\ OnlyAttestedDATs /\ ReportsHonest /\ PillFollowsDAT /\ Stamped /\ Copying

LEMMA Between ==
  ASSUME ver'.at \in {"idle", "next", "copy", "check", "ingest"}
  PROVE  GateHolds' /\ Copying'
BY DEF GateHolds, Copying

\* A step that only moves the verifier on keeps the files and the reports.
LEMMA FilesKept ==
  ASSUME VerifyFacts, UNCHANGED <<staging, tree, report, used>>
  PROVE  ReportsHonest' /\ Stamped' /\ OnlyAttestedDATs'
BY DEF VerifyFacts, ReportsHonest, Stamped, OnlyAttestedDATs

LEMMA ResultKept ==
  ASSUME VerifyFacts, UNCHANGED result
  PROVE  PillFollowsDAT'
BY DEF VerifyFacts, PillFollowsDAT

LEMMA BatchSafe ==
  ASSUME TypeOK, DatsInv, VerifyFacts, VerifyStart \/ VerifyFinish, UNCHANGED datVars
  PROVE  TypeOK' /\ DatsInv' /\ VerifyFacts'
<1>1. DatsTypeOK' /\ DatsInv'
  BY DatsKept DEF TypeOK, DatsTypeOK, datVars
<1>2. CASE VerifyStart
  <2>1. ver' = [at |-> "next", todo |-> Staged, sys |-> {}, gate |-> "none", src |-> 0,
                exit |-> "ok", outs |-> {}]
    BY <1>2 DEF VerifyStart, Quiet
  <2>2. ver' \in Verifier
    BY <2>1, Bounds DEF Verifier
  <2>3. runs' \in 0 .. MaxRuns
    BY <1>2, Bounds DEF VerifyStart, TypeOK
  <2>4. TypeOK'
    BY <1>1, <1>2, <2>2, <2>3 DEF VerifyStart, TypeOK
  <2>5. VerifyFacts'
    BY <1>2, <2>1, Between, FilesKept, ResultKept DEF VerifyStart, VerifyFacts
  <2> QED BY <1>1, <2>4, <2>5
<1>3. CASE VerifyFinish
  <2>1. ver' = Quiet
    BY <1>3 DEF VerifyFinish
  <2>2. attempt' \in [Staged -> [run : 0 .. MaxRuns, outcome : Outcomes \cup {"none"}]]
    <3>1. \A s \in Staged : (\E o \in Outcomes : <<s, o>> \in ver.outs) =>
            (CHOOSE o \in Outcomes : <<s, o>> \in ver.outs) \in Outcomes
      OBVIOUS
    <3>2. NewestAttempts \in [Staged -> [run : 0 .. MaxRuns, outcome : Outcomes \cup {"none"}]]
      BY <3>1 DEF NewestAttempts, TypeOK
    <3> QED BY <1>3, <3>2 DEF VerifyFinish
  <2>3. TypeOK'
    BY <1>1, <1>3, <2>1, <2>2, QuietTyping DEF VerifyFinish, TypeOK
  <2>4. VerifyFacts'
    BY <1>3, <2>1, QuietTyping, Between, FilesKept, ResultKept DEF VerifyFinish, VerifyFacts
  <2> QED BY <1>1, <2>3, <2>4
<1> QED BY <1>2, <1>3

LEMMA ConsiderSafe ==
  ASSUME TypeOK, DatsInv, VerifyFacts, NEW s \in Staged, Consider(s) \/ SkipAtExec(s), UNCHANGED datVars
  PROVE  TypeOK' /\ DatsInv' /\ VerifyFacts'
<1>1. DatsTypeOK' /\ DatsInv'
  BY DatsKept DEF TypeOK, DatsTypeOK, datVars
<1>2. UNCHANGED <<staging, tree, report, result, attempt, runs, used>>
  BY DEF Consider, SkipAtExec
<1>3. ver' \in Verifier /\ ver'.at \in {"next", "copy", "check"}
  <2>1. CASE Ends(s, "skipped")
    BY <2>1, EndsTyping DEF TypeOK, Outcomes
  <2>2. CASE ver' = [ver EXCEPT !.at = IF disk[s] = Absent THEN "copy" ELSE "check", !.sys = {s}]
    <3>1. ver' = [at |-> IF disk[s] = Absent THEN "copy" ELSE "check", todo |-> ver.todo, sys |-> {s},
                  gate |-> ver.gate, src |-> ver.src, exit |-> ver.exit, outs |-> ver.outs]
      BY <2>2 DEF TypeOK, Verifier
    <3> QED BY <3>1 DEF TypeOK, Verifier
  <2> QED BY <2>1, <2>2 DEF Consider, SkipAtExec
<1>4. TypeOK'
  BY <1>1, <1>2, <1>3 DEF TypeOK
<1>5. VerifyFacts'
  BY <1>2, <1>3, Between, FilesKept, ResultKept DEF VerifyFacts
<1> QED BY <1>1, <1>4, <1>5

\* The gate lets a file pass that a lock entry names, and such an entry parsed.
LEMMA GateSafe ==
  ASSUME TypeOK, DatsInv, VerifyFacts, NEW s \in Staged, Gate(s), UNCHANGED datVars
  PROVE  TypeOK' /\ DatsInv' /\ VerifyFacts'
<1>1. DatsTypeOK' /\ DatsInv'
  BY DatsKept DEF TypeOK, DatsTypeOK, datVars
<1>2. UNCHANGED <<staging, tree, report, result, attempt, runs, used>> /\ s \in Systems
  BY Bounds DEF Gate
<1>3. ReportsHonest' /\ Stamped' /\ OnlyAttestedDATs' /\ PillFollowsDAT'
  BY <1>2, FilesKept, ResultKept
<1>4. CASE Ends(s, "dat-lock-mismatch") \/ Ends(s, "failed")
  <2>1. ver' \in Verifier /\ ver'.at = "next"
    BY <1>4, EndsTyping DEF TypeOK, Outcomes
  <2>2. TypeOK'
    BY <1>1, <1>2, <2>1 DEF TypeOK
  <2> QED BY <1>1, <1>3, <2>1, <2>2, Between DEF VerifyFacts
<1>5. CASE CheckLock(s) \in {"match", "bootstrap"} /\ ver' = [ver EXCEPT !.at = "exec", !.gate = CheckLock(s)]
  <2>1. ver' = [at |-> "exec", todo |-> ver.todo, sys |-> ver.sys, gate |-> CheckLock(s),
                src |-> ver.src, exit |-> ver.exit, outs |-> ver.outs]
    BY <1>5 DEF TypeOK, Verifier
  <2>2. ver' \in Verifier
    BY <1>5, <2>1 DEF TypeOK, Verifier
  <2>3. TypeOK'
    BY <1>1, <1>2, <2>2 DEF TypeOK
  <2>4. CheckLock(s) = "match" => Parses(disk[s])
    <3>1. CheckLock(s) = "match" => lock.entries[s] # NoEntry /\ lock.entries[s].bytes = disk[s]
      BY DEF CheckLock
    <3> QED BY <1>2, <3>1 DEF DatsInv, Backed
  <2>5. ver.sys = {s} /\ disk' = disk
    BY DEF Gate, datVars
  <2>6. GateHolds'
    BY <1>5, <2>1, <2>4, <2>5 DEF GateHolds
  <2>7. Copying'
    BY <2>1 DEF Copying
  <2> QED BY <1>1, <1>3, <2>3, <2>6, <2>7 DEF VerifyFacts
<1> QED BY <1>4, <1>5 DEF Gate

LEMMA IngestSafe ==
  ASSUME TypeOK, DatsInv, VerifyFacts, NEW s \in Staged, Ingest(s), UNCHANGED datVars
  PROVE  TypeOK' /\ DatsInv' /\ VerifyFacts'
<1>1. DatsTypeOK' /\ DatsInv'
  BY DatsKept DEF TypeOK, DatsTypeOK, datVars
<1>2. UNCHANGED <<staging, tree, report, attempt, runs, used>>
  BY DEF Ingest
<1>3. ver' \in Verifier /\ ver'.at = "next"
  <2>1. PICK o \in Outcomes : Ends(s, o)
    BY DEF Ingest, Outcomes
  <2> QED BY <2>1, EndsTyping DEF TypeOK
<1>4. result' \in [Staged -> [run : 0 .. MaxRuns, pill : Pills, rep : Report]]
  <2>1. [run |-> runs, pill |-> ClassifyVerify(report[s].rows), rep |-> report[s]]
          \in [run : 0 .. MaxRuns, pill : Pills, rep : Report]
    BY PillTyping DEF TypeOK
  <2> QED BY <2>1 DEF Ingest, TypeOK
<1>5. PillFollowsDAT'
  <2>1. CASE UNCHANGED result
    BY <2>1, ResultKept
  <2>2. CASE report[s] # NoReport /\ result' = [result EXCEPT ![s] =
               [run |-> runs, pill |-> ClassifyVerify(report[s].rows), rep |-> report[s]]]
    <3>1. ClassifyVerify(report[s].rows) = "verified" <=>
            Claimed(report[s].dat, report[s].stamp) /\ ~report[s].stray
      BY <2>2 DEF VerifyFacts, ReportsHonest
    <3>2. /\ result'[s].pill = ClassifyVerify(report[s].rows) /\ result'[s].rep = report[s]
          /\ \A t \in Staged \ {s} : result'[t] = result[t]
      BY <2>2 DEF TypeOK
    <3> QED BY <3>1, <3>2 DEF VerifyFacts, PillFollowsDAT, Claimed
  <2> QED BY <2>1, <2>2 DEF Ingest
<1>6. TypeOK'
  BY <1>1, <1>2, <1>3, <1>4 DEF TypeOK
<1> QED BY <1>1, <1>2, <1>3, <1>5, <1>6, Between, FilesKept DEF VerifyFacts

\* A file of the games tree written to: its data and its time.
LEMMA Overwrite ==
  ASSUME NEW f \in File, NEW d, NEW m
  PROVE  [f EXCEPT !.data = d, !.mtime = m] = [data |-> d, mtime |-> m, db |-> f.db, stray |-> f.stray]
<1>1. [f EXCEPT !.data = d, !.mtime = m] = [[f EXCEPT !.data = d] EXCEPT !.mtime = m]
  OBVIOUS
<1>2. [f EXCEPT !.data = d] = [data |-> d, mtime |-> f.mtime, db |-> f.db, stray |-> f.stray]
  BY DEF File
<1>3. [[data |-> d, mtime |-> f.mtime, db |-> f.db, stray |-> f.stray] EXCEPT !.mtime = m]
        = [data |-> d, mtime |-> m, db |-> f.db, stray |-> f.stray]
  OBVIOUS
<1> QED BY Zenon, <1>1, <1>2, <1>3

LEMMA CopyOpenSafe ==
  ASSUME TypeOK, DatsInv, VerifyFacts, NEW s \in Staged, CopyOpen(s), UNCHANGED datVars
  PROVE  TypeOK' /\ DatsInv' /\ VerifyFacts'
<1>1. DatsTypeOK' /\ DatsInv'
  BY DatsKept DEF TypeOK, DatsTypeOK, datVars
<1>2. /\ UNCHANGED <<staging, report, result, attempt, runs, used>>
      /\ ver \in Verifier /\ ver.sys = {s} /\ staging[s] \in 0 .. MaxStamps /\ tree[s] \in File
  BY DEF CopyOpen, TypeOK
<1>3. OnlyAttestedDATs' /\ ReportsHonest' /\ PillFollowsDAT'
  BY <1>2 DEF VerifyFacts, OnlyAttestedDATs, ReportsHonest, PillFollowsDAT
<1>4. CASE Ends(s, "skipped") /\ UNCHANGED tree
  <2>1. ver' \in Verifier /\ ver'.at = "next"
    BY <1>4, EndsTyping DEF TypeOK, Outcomes
  <2>2. TypeOK'
    BY <1>1, <1>2, <1>4, <2>1 DEF TypeOK
  <2>3. Stamped'
    BY <1>2, <1>4 DEF VerifyFacts, Stamped
  <2> QED BY <1>1, <1>3, <2>1, <2>2, <2>3, Between DEF VerifyFacts
<1>5. CASE QuickCheck(s) /\ ver' = [ver EXCEPT !.at = "copied", !.src = staging[s]] /\ UNCHANGED tree
  <2>1. ver' = [at |-> "copied", todo |-> ver.todo, sys |-> {s}, gate |-> ver.gate,
                src |-> staging[s], exit |-> ver.exit, outs |-> ver.outs]
    BY <1>2, <1>5 DEF Verifier
  <2>2. ver' \in Verifier
    BY <1>2, <2>1 DEF Verifier
  <2>3. TypeOK'
    BY <1>1, <1>2, <1>5, <2>2 DEF TypeOK
  <2>4. Stamped'
    BY <1>2, <1>5 DEF VerifyFacts, Stamped
  <2>5. tree[s].data = staging[s]
    BY <1>2, <1>5, Bounds DEF VerifyFacts, Stamped, QuickCheck, Now
  <2>6. Copying' /\ GateHolds'
    BY <1>2, <1>5, <2>1, <2>5 DEF Copying, GateHolds
  <2> QED BY <1>1, <1>3, <2>3, <2>4, <2>6 DEF VerifyFacts
<1>6. CASE /\ tree' = [tree EXCEPT ![s] = [tree[s] EXCEPT !.data = TornFile, !.mtime = Now]]
           /\ ver' = [ver EXCEPT !.at = "opened", !.src = staging[s]]
  <2>1. ver' = [at |-> "opened", todo |-> ver.todo, sys |-> {s}, gate |-> ver.gate,
                src |-> staging[s], exit |-> ver.exit, outs |-> ver.outs]
    BY <1>2, <1>6 DEF Verifier
  <2>2. ver' \in Verifier
    BY <1>2, <2>1 DEF Verifier
  <2>3. tree' = [tree EXCEPT ![s] = [data |-> TornFile, mtime |-> Now,
                                     db |-> tree[s].db, stray |-> tree[s].stray]]
    <3>1. [tree[s] EXCEPT !.data = TornFile, !.mtime = Now]
            = [data |-> TornFile, mtime |-> Now, db |-> tree[s].db, stray |-> tree[s].stray]
      BY <1>2, Overwrite
    <3> QED BY <1>6, <3>1
  <2>4. [data |-> TornFile, mtime |-> Now, db |-> tree[s].db, stray |-> tree[s].stray] \in File
    BY <1>2, Bounds DEF File, TornFile, Now
  <2>5. tree' \in [Staged -> File]
    BY <2>3, <2>4 DEF TypeOK
  <2>6. /\ tree'[s].data = TornFile /\ tree'[s].mtime = Now
        /\ \A t \in Staged \ {s} : tree'[t] = tree[t]
    BY <2>3 DEF TypeOK
  <2>7. TypeOK'
    BY <1>1, <1>2, <2>2, <2>5 DEF TypeOK
  <2>8. Stamped'
    BY <1>2, <2>6 DEF VerifyFacts, Stamped
  <2>9. Copying' /\ GateHolds'
    BY <1>2, <2>1, <2>6 DEF Copying, GateHolds
  <2> QED BY <1>1, <1>3, <2>7, <2>8, <2>9 DEF VerifyFacts
<1> QED BY <1>4, <1>5, <1>6 DEF CopyOpen

LEMMA CopyFileSafe ==
  ASSUME TypeOK, DatsInv, VerifyFacts, NEW s \in Staged, CopyFile(s),
         UNCHANGED <<head, disk, lock, versions, info, ref, batches, kills>>
  PROVE  TypeOK' /\ DatsInv' /\ VerifyFacts'
<1>1. faults' \in 0 .. MaxFaults
  BY Bounds DEF CopyFile, TypeOK, DatsTypeOK
<1>2. DatsTypeOK' /\ DatsInv'
  BY <1>1, DatsKept DEF TypeOK
<1>3. /\ UNCHANGED <<staging, report, result, attempt, runs, used>>
      /\ ver \in Verifier /\ ver.sys = {s} /\ ver.at = "opened"
      /\ staging[s] \in 0 .. MaxStamps /\ tree[s] \in File
  BY DEF CopyFile, TypeOK
<1>4. OnlyAttestedDATs' /\ ReportsHonest' /\ PillFollowsDAT'
  BY <1>3 DEF VerifyFacts, OnlyAttestedDATs, ReportsHonest, PillFollowsDAT
<1>5. /\ ver.src \in 0 .. MaxStamps /\ ver.src <= staging[s] /\ tree[s].mtime = Now
      /\ tree[s].data = TornFile \/ (ver.src <= tree[s].data /\ tree[s].data <= staging[s])
      /\ tree[s].data \in 0 .. TornFile
  BY <1>3 DEF VerifyFacts, Copying, Verifier, File
<1>6. CASE tree' = [tree EXCEPT ![s] = [tree[s] EXCEPT !.data = staging[s]]] /\ UNCHANGED ver
  <2>1. tree' = [tree EXCEPT ![s] = [data |-> staging[s], mtime |-> Now,
                                     db |-> tree[s].db, stray |-> tree[s].stray]]
    <3>1. [tree[s] EXCEPT !.data = staging[s]]
            = [data |-> staging[s], mtime |-> Now, db |-> tree[s].db, stray |-> tree[s].stray]
      BY <1>3, <1>5 DEF File
    <3> QED BY <1>6, <3>1
  <2>2. [data |-> staging[s], mtime |-> Now, db |-> tree[s].db, stray |-> tree[s].stray] \in File
    BY <1>3, Bounds DEF File, TornFile, Now
  <2>3. tree' \in [Staged -> File]
    BY <2>1, <2>2 DEF TypeOK
  <2>4. /\ tree'[s].data = staging[s] /\ tree'[s].mtime = Now
        /\ \A t \in Staged \ {s} : tree'[t] = tree[t]
    BY <2>1 DEF TypeOK
  <2>5. TypeOK'
    BY <1>2, <1>3, <1>6, <2>3 DEF TypeOK
  <2>6. Stamped'
    BY <1>3, <2>4 DEF VerifyFacts, Stamped
  <2>7. Copying' /\ GateHolds'
    BY <1>3, <1>5, <1>6, <2>4 DEF Copying, GateHolds
  <2> QED BY <1>2, <1>4, <2>5, <2>6, <2>7 DEF VerifyFacts
<1>7. CASE /\ tree[s].data # TornFile /\ tree' = [tree EXCEPT ![s] = [tree[s] EXCEPT !.mtime = ver.src]]
           /\ ver' = [ver EXCEPT !.at = "copied"]
  <2>1. tree' = [tree EXCEPT ![s] = [data |-> tree[s].data, mtime |-> ver.src,
                                     db |-> tree[s].db, stray |-> tree[s].stray]]
    <3>1. [tree[s] EXCEPT !.mtime = ver.src]
            = [data |-> tree[s].data, mtime |-> ver.src, db |-> tree[s].db, stray |-> tree[s].stray]
      BY <1>3 DEF File
    <3> QED BY <1>7, <3>1
  <2>2. [data |-> tree[s].data, mtime |-> ver.src, db |-> tree[s].db, stray |-> tree[s].stray] \in File
    BY <1>3, <1>5, Bounds DEF File, TornFile, Now
  <2>3. tree' \in [Staged -> File]
    BY <2>1, <2>2 DEF TypeOK
  <2>4. /\ tree'[s].data = tree[s].data /\ tree'[s].mtime = ver.src
        /\ \A t \in Staged \ {s} : tree'[t] = tree[t]
    BY <2>1 DEF TypeOK
  <2>5. ver' = [at |-> "copied", todo |-> ver.todo, sys |-> {s}, gate |-> ver.gate,
                src |-> ver.src, exit |-> ver.exit, outs |-> ver.outs]
    BY <1>3, <1>7 DEF Verifier
  <2>6. ver' \in Verifier
    BY <1>3, <2>5 DEF Verifier
  <2>7. TypeOK'
    BY <1>2, <1>3, <2>3, <2>6 DEF TypeOK
  <2>8. Stamped'
    BY <1>3, <1>5, <1>7, <2>4, Bounds DEF VerifyFacts, Stamped, TornFile
  <2>9. Copying' /\ GateHolds'
    BY <1>3, <1>5, <1>7, <2>4, <2>5, Bounds DEF Copying, GateHolds, TornFile
  <2> QED BY <1>2, <1>4, <2>7, <2>8, <2>9 DEF VerifyFacts
<1>8. CASE Ends(s, "failed") /\ UNCHANGED tree
  <2>1. ver' \in Verifier /\ ver'.at = "next"
    BY <1>8, EndsTyping DEF TypeOK, Outcomes
  <2>2. TypeOK'
    BY <1>2, <1>3, <1>8, <2>1 DEF TypeOK
  <2>3. Stamped'
    BY <1>3, <1>8 DEF VerifyFacts, Stamped
  <2> QED BY <1>2, <1>4, <2>1, <2>2, <2>3, Between DEF VerifyFacts
<1> QED BY <1>6, <1>7, <1>8 DEF CopyFile

LEMMA CopyDoneSafe ==
  ASSUME TypeOK, DatsInv, VerifyFacts, NEW s \in Staged, CopyDone(s), UNCHANGED datVars
  PROVE  TypeOK' /\ DatsInv' /\ VerifyFacts'
<1>1. DatsTypeOK' /\ DatsInv'
  BY DatsKept DEF TypeOK, DatsTypeOK, datVars
<1>2. UNCHANGED <<staging, tree, report, attempt, runs, used>>
  BY DEF CopyDone
<1>3. ver' \in Verifier /\ ver'.at = "next"
  BY EndsTyping DEF CopyDone, TypeOK, Outcomes
<1>4. result' = [result EXCEPT ![s] = [run |-> runs, pill |-> "unchecked", rep |-> NoReport]]
  BY DEF CopyDone
<1>5. [run |-> runs, pill |-> "unchecked", rep |-> NoReport] \in [run : 0 .. MaxRuns, pill : Pills, rep : Report]
  <2>1. NoReport \in Report
    BY Bounds DEF Report, NoReport, Bytes, Absent
  <2> QED BY <2>1 DEF TypeOK, Pills
<1>6. result' \in [Staged -> [run : 0 .. MaxRuns, pill : Pills, rep : Report]]
  BY <1>4, <1>5 DEF TypeOK
<1>7. result'[s].rep = NoReport /\ \A t \in Staged \ {s} : result'[t] = result[t]
  BY <1>4 DEF TypeOK
<1>8. PillFollowsDAT'
  BY <1>7 DEF VerifyFacts, PillFollowsDAT, Claimed
<1>9. TypeOK'
  BY <1>1, <1>2, <1>3, <1>6 DEF TypeOK
<1> QED BY <1>1, <1>2, <1>3, <1>8, <1>9, Between, FilesKept DEF VerifyFacts

\* igir reads the file the gate let through, or one a refresh installed since.
LEMMA RunIgirSafe ==
  ASSUME TypeOK, DatsInv, VerifyFacts, NEW s \in Staged, RunIgir(s),
         UNCHANGED <<head, disk, lock, versions, info, ref, batches, kills>>
  PROVE  TypeOK' /\ DatsInv' /\ VerifyFacts'
<1>1. faults' \in 0 .. MaxFaults
  BY Bounds DEF RunIgir, TypeOK, DatsTypeOK
<1>2. DatsTypeOK' /\ DatsInv'
  BY <1>1, DatsKept DEF TypeOK
<1>3. /\ UNCHANGED <<staging, result, attempt, runs>> /\ s \in Systems
      /\ ver \in Verifier /\ ver.sys = {s} /\ ver.at = "exec"
      /\ staging[s] \in 0 .. MaxStamps /\ tree[s] \in File
      /\ disk[s] \in Bytes \cup {Absent}
  BY Bounds DEF RunIgir, TypeOK, DatsTypeOK
<1>4. ver' \in Verifier /\ ver'.at = "ingest"
  <2>1. PICK e \in {"ok", "error"} : ver' = [ver EXCEPT !.at = "ingest", !.exit = e]
    BY DEF RunIgir
  <2>2. ver' = [at |-> "ingest", todo |-> ver.todo, sys |-> ver.sys, gate |-> ver.gate,
                src |-> ver.src, exit |-> e, outs |-> ver.outs]
    BY <1>3, <2>1 DEF Verifier
  <2> QED BY <1>3, <2>2 DEF Verifier
<1>5. used' = [bytes |-> disk[s], gate |-> ver.gate]
  BY DEF RunIgir
<1>6. used' \in [bytes : Bytes \cup {Absent}, gate : {"none", "match", "bootstrap"}]
  BY <1>3, <1>5 DEF Verifier
<1>7. OnlyAttestedDATs'
  BY <1>3, <1>5 DEF OnlyAttestedDATs, VerifyFacts, GateHolds
<1>8. tree' \in [Staged -> File] /\ Stamped'
  <2>1. CASE UNCHANGED tree
    BY <1>3, <2>1 DEF TypeOK, VerifyFacts, Stamped
  <2>2. CASE tree' = [tree EXCEPT ![s] = [tree[s] EXCEPT !.data = staging[s], !.mtime = Now]]
    <3> DEFINE f == [data |-> staging[s], mtime |-> Now, db |-> tree[s].db, stray |-> tree[s].stray]
    <3>1. tree' = [tree EXCEPT ![s] = f]
      BY <1>3, <2>2, Overwrite
    <3>2. f \in File /\ f.mtime = Now
      BY <1>3, Bounds DEF File, TornFile, Now
    <3> HIDE DEF f
    <3>3. tree'[s] = f /\ \A t \in Staged \ {s} : tree'[t] = tree[t]
      BY <3>1 DEF TypeOK
    <3>4. tree' \in [Staged -> File]
      BY <3>1, <3>2 DEF TypeOK
    <3> QED BY <1>3, <3>2, <3>3, <3>4 DEF VerifyFacts, Stamped
  <2> QED BY <2>1, <2>2 DEF RunIgir
<1>9. report' \in [Staged -> Report] /\ ReportsHonest'
  <2>1. CASE UNCHANGED report
    BY <2>1 DEF TypeOK, VerifyFacts, ReportsHonest, Claimed
  <2>2. CASE report' # report
    <3> DEFINE r == [run |-> runs, rows |-> ReportRows(s), dat |-> disk[s], stamp |-> staging[s],
                     stray |-> tree[s].stray]
    <3>1. report' = [report EXCEPT ![s] = r]
      BY <2>2 DEF RunIgir
    <3>2. ClassifyVerify(ReportRows(s)) = "verified" <=>
            Claimed(disk[s], staging[s]) /\ ~tree[s].stray
      BY <1>3, Verdict DEF File
    <3>3. /\ r.rows = ReportRows(s) /\ r.dat = disk[s] /\ r.stamp = staging[s]
          /\ r.stray = tree[s].stray
      OBVIOUS
    <3>4. r \in Report
      BY <1>3, RowsTyping DEF Report, TypeOK, File
    <3> HIDE DEF r
    <3>5. report'[s] = r /\ \A t \in Staged \ {s} : report'[t] = report[t]
      BY <3>1 DEF TypeOK
    <3>6. report' \in [Staged -> Report]
      BY <3>1, <3>4 DEF TypeOK
    <3>7. \A t \in Staged : report'[t] # NoReport =>
            (ClassifyVerify(report'[t].rows) = "verified" <=>
               Claimed(report'[t].dat, report'[t].stamp) /\ ~report'[t].stray)
      BY <3>2, <3>3, <3>5 DEF VerifyFacts, ReportsHonest
    <3> QED BY <3>6, <3>7 DEF ReportsHonest, Claimed
  <2> QED BY <2>1, <2>2
<1>10. TypeOK'
  BY <1>2, <1>3, <1>4, <1>6, <1>8, <1>9 DEF TypeOK
<1> QED BY <1>2, <1>3, <1>4, <1>7, <1>8, <1>9, <1>10, Between, ResultKept DEF VerifyFacts

----------------------------------------------------------------------------
(* The rest of the world *)

\* aria2 only moves a file's stamp up: what was copied is older, not other.
LEMMA Aria2Safe ==
  ASSUME TypeOK, DatsInv, VerifyFacts, NEW s \in Staged, Aria2(s), UNCHANGED datVars
  PROVE  TypeOK' /\ DatsInv' /\ VerifyFacts'
<1>1. DatsTypeOK' /\ DatsInv'
  BY DatsKept DEF TypeOK, DatsTypeOK, datVars
<1>2. /\ UNCHANGED <<tree, report, result, attempt, ver, runs, used, disk>>
      /\ staging' \in [Staged -> 0 .. MaxStamps]
      /\ staging'[s] = staging[s] + 1 /\ \A t \in Staged \ {s} : staging'[t] = staging[t]
  BY Bounds DEF Aria2, TypeOK, datVars
<1>3. TypeOK'
  BY <1>1, <1>2 DEF TypeOK
<1>4. ver \in Verifier /\ staging \in [Staged -> 0 .. MaxStamps] /\ tree \in [Staged -> File]
  BY DEF TypeOK
<1>5. Stamped'
  BY <1>2, <1>4, Bounds DEF VerifyFacts, Stamped, File, TornFile, Now
<1>6. Copying'
  BY <1>2, <1>4, Bounds DEF VerifyFacts, Copying, File, Verifier, TornFile
<1>7. GateHolds' /\ OnlyAttestedDATs' /\ ReportsHonest' /\ PillFollowsDAT'
  BY <1>2 DEF VerifyFacts, GateHolds, OnlyAttestedDATs, ReportsHonest, PillFollowsDAT
<1> QED BY <1>1, <1>3, <1>5, <1>6, <1>7 DEF VerifyFacts

LEMMA TreeGrowsSafe ==
  ASSUME TypeOK, DatsInv, VerifyFacts, NEW s \in Staged, TreeGrows(s), UNCHANGED datVars
  PROVE  TypeOK' /\ DatsInv' /\ VerifyFacts'
<1>1. DatsTypeOK' /\ DatsInv'
  BY DatsKept DEF TypeOK, DatsTypeOK, datVars
<1>2. /\ UNCHANGED <<staging, report, result, attempt, ver, runs, used, disk>>
      /\ tree' \in [Staged -> File]
      /\ \A t \in Staged : tree'[t].data = tree[t].data /\ tree'[t].mtime = tree[t].mtime
  <2>1. PICK f \in {[tree[s] EXCEPT !.db = TRUE], [tree[s] EXCEPT !.stray = TRUE]} :
          tree' = [tree EXCEPT ![s] = f]
    BY DEF TreeGrows
  <2>2. f \in File /\ f.data = tree[s].data /\ f.mtime = tree[s].mtime
    BY DEF TypeOK, File
  <2>3. tree'[s] = f /\ \A t \in Staged \ {s} : tree'[t] = tree[t]
    BY <2>1 DEF TypeOK
  <2>4. tree' \in [Staged -> File]
    BY <2>1, <2>2 DEF TypeOK
  <2> QED BY <2>2, <2>3, <2>4 DEF TreeGrows, datVars
<1>3. TypeOK'
  BY <1>1, <1>2 DEF TypeOK
<1>4. Stamped' /\ Copying'
  BY <1>2, Bounds DEF VerifyFacts, Stamped, Copying, TypeOK, Verifier
<1>5. GateHolds' /\ OnlyAttestedDATs' /\ ReportsHonest' /\ PillFollowsDAT'
  BY <1>2 DEF VerifyFacts, GateHolds, OnlyAttestedDATs, ReportsHonest, PillFollowsDAT
<1> QED BY <1>1, <1>3, <1>4, <1>5 DEF VerifyFacts

LEMMA KillSafe ==
  ASSUME TypeOK, DatsInv, VerifyFacts, Kill
  PROVE  TypeOK' /\ DatsInv' /\ VerifyFacts'
<1>1. kills' \in 0 .. MaxKills
  BY Bounds DEF Kill, TypeOK, DatsTypeOK
<1>2. ref' \in Refresh /\ DatsInv'
  BY IdleSafe DEF Kill, TypeOK, DatsInv
<1>3. TypeOK'
  BY <1>1, <1>2, QuietTyping DEF Kill, TypeOK, DatsTypeOK
<1>4. VerifyFacts'
  BY QuietTyping, Between, FilesKept, ResultKept DEF Kill, VerifyFacts
<1> QED BY <1>2, <1>3, <1>4

\* A refresh or a push beside a verify: what parsed still does.
LEMMA BesideSafe ==
  ASSUME TypeOK, DatsInv, VerifyFacts, DatsTypeOK', DatsInv', UNCHANGED verifyVars,
         ver.at = "exec" => \A t \in Systems : Parses(disk[t]) => Parses(disk'[t])
  PROVE  TypeOK' /\ VerifyFacts'
<1>1. TypeOK'
  BY DEF verifyVars, TypeOK
<1>2. GateHolds'
  <2>1. ver.sys \subseteq Systems
    BY Bounds DEF TypeOK, Verifier
  <2> QED BY <2>1 DEF VerifyFacts, GateHolds, verifyVars
<1>3. Copying'
  BY DEF VerifyFacts, Copying, verifyVars
<1> QED BY <1>1, <1>2, <1>3, FilesKept, ResultKept DEF VerifyFacts, verifyVars

----------------------------------------------------------------------------
(* Theorems *)

LEMMA VerifyInit == Init => VerifyInv
<1> SUFFICES ASSUME Init PROVE VerifyInv
  OBVIOUS
<1>1. EmptyLock \in [Systems -> LockEntry \cup {NoEntry}]
  BY DEF EmptyLock
<1>2. DatsTypeOK
  BY <1>1, IdleTyping, Bounds DEF Init, DatsInit, DatsTypeOK, Commits
<1>3. NoReport \in Report /\ NoFile \in File
  BY Bounds DEF Report, NoReport, Bytes, Absent, NoFile, File, TornFile, Now
<1>4. /\ NoResult \in [run : 0 .. MaxRuns, pill : Pills, rep : Report] /\ NoResult.rep = NoReport
      /\ NoAttempt \in [run : 0 .. MaxRuns, outcome : Outcomes \cup {"none"}]
  BY <1>3, Bounds DEF NoResult, NoAttempt, Pills
<1>5. TypeOK
  BY <1>2, <1>3, <1>4, QuietTyping, Bounds DEF Init, TypeOK
<1>6. DatsInv
  BY IdleTyping, BackedEmpty DEF Init, DatsInit, DatsInv, RefreshCounted, InHand, Agreed
<1>7. NoFile.data = 0
  BY DEF NoFile
<1>8. /\ GateHolds /\ OnlyAttestedDATs /\ ReportsHonest /\ PillFollowsDAT /\ Stamped /\ Copying
  BY <1>4, <1>7, QuietTyping
  DEF Init, GateHolds, OnlyAttestedDATs, ReportsHonest, PillFollowsDAT, Stamped, Copying
<1> QED BY <1>5, <1>6, <1>8 DEF VerifyInv

LEMMA VerifyStepInv == VerifyInv /\ [Next]_vars => VerifyInv'
<1> SUFFICES ASSUME TypeOK, DatsInv, VerifyFacts, [Next]_vars
             PROVE  TypeOK' /\ DatsInv' /\ VerifyFacts'
  BY DEF VerifyInv, VerifyFacts
<1>0. DatsTypeOK
  BY DEF TypeOK
<1>1. CASE DatsNext /\ UNCHANGED verifyVars
  BY <1>0, <1>1, DatsStepSafe, BesideSafe
<1>2. CASE AtRest /\ (DamageLock \/ \E s \in Systems : DamageDAT(s)) /\ UNCHANGED verifyVars
  <2>1. DatsTypeOK' /\ DatsInv'
    BY <1>0, <1>2, DamageSafe
  <2>2. ver.at # "exec"
    BY <1>2 DEF AtRest
  <2> QED BY <1>2, <2>1, <2>2, BesideSafe
<1>3. CASE (VerifyStart \/ VerifyStep) /\ UNCHANGED datVars
  BY <1>3, BatchSafe, ConsiderSafe, CopyOpenSafe, CopyDoneSafe, GateSafe, IngestSafe DEF VerifyStep
<1>4. CASE /\ \E s \in Staged : CopyFile(s) \/ RunIgir(s)
           /\ UNCHANGED <<head, disk, lock, versions, info, ref, batches, kills>>
  BY <1>4, CopyFileSafe, RunIgirSafe
<1>5. CASE (\E s \in Staged : Aria2(s) \/ TreeGrows(s)) /\ UNCHANGED datVars
  BY <1>5, Aria2Safe, TreeGrowsSafe
<1>6. CASE Kill
  BY <1>6, KillSafe
<1>7. CASE UNCHANGED vars
  <2>1. UNCHANGED datVars /\ UNCHANGED verifyVars /\ UNCHANGED disk /\ UNCHANGED faults
    BY <1>7 DEF vars, datVars
  <2>2. DatsTypeOK' /\ DatsInv'
    BY <1>0, <2>1, DatsKept DEF datVars, DatsTypeOK
  <2> QED BY <2>1, <2>2, BesideSafe
<1> QED BY <1>1, <1>2, <1>3, <1>4, <1>5, <1>6, <1>7 DEF Next

\* The inductive invariant holds of every reachable state.
THEOREM VerifyInvariant == Spec => []VerifyInv
BY VerifyInit, VerifyStepInv, PTL DEF Spec

\* The variables stay within their types: the lock and the ledger of fetchSystemAt
\* hold whole rows, and a verify only names systems that are staged.
THEOREM VerifyTyping == Spec => []TypeOK
<1>1. VerifyInv => TypeOK
  BY DEF VerifyInv
<1> QED BY <1>1, VerifyInvariant, PTL

\* Whatever failed, was killed or was damaged: an entry of the lock file WriteLock
\* wrote has its row in the ledger AppendDATVersion appends to.
THEOREM VerifyLockBacked == Spec => []LockBacked
<1>1. VerifyInv => LockBacked
  BY DEF VerifyInv, DatsInv, Backed, LockBacked
<1> QED BY <1>1, VerifyInvariant, PTL

\* Past CheckLock, igir only matches against bytes fetchSystemAt gated and parsed.
THEOREM VerifyOnlyAttested == Spec => []OnlyAttestedDATs
<1>1. VerifyInv => OnlyAttestedDATs
  BY DEF VerifyInv
<1> QED BY <1>1, VerifyInvariant, PTL

\* The pill classifyVerify shows is the DAT's verdict on the staged file.
THEOREM VerifyPill == Spec => []PillFollowsDAT
<1>1. VerifyInv => PillFollowsDAT
  BY DEF VerifyInv
<1> QED BY <1>1, VerifyInvariant, PTL

\* When WriteLock ends a batch, what Install put on disk for the systems it
\* fetched is what the new lock attests.
THEOREM VerifyReconciles == Spec => RefreshReconciles
<1>1. VerifyInv /\ [Next]_vars =>
        [WriteLock => \A s \in ref.ok : disk[s] = lock'.entries[s].bytes]_datVars
  BY DEF VerifyInv, DatsInv, Agreed, WriteLock
<1> QED BY <1>1, VerifyInvariant, PTL DEF Spec, RefreshReconciles

\* CopyDone records a promotion only of a whole file, unless aria2 wrote to it
\* since the copy took its stamp.
THEOREM VerifyCopyComplete == Spec => CopyComplete
<1>1. VerifyInv /\ [Next]_vars =>
        [\A s \in Staged : CopyDone(s) /\ ver.src = staging[s] => tree[s].data = staging[s]]_vars
  BY DEF VerifyInv, Copying, CopyDone
<1> QED BY <1>1, VerifyInvariant, PTL DEF Spec, CopyComplete

=============================================================================
