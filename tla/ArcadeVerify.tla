---------------------------- MODULE ArcadeVerify ----------------------------
(***************************************************************************)
(* igir verification of one system at a time (internal/igir, processSystem *)
(* with its report ingestion), beside the DAT refreshes of ArcadeDats,     *)
(* aria2's downloads into the staging tree, the generator's launcher files *)
(* in the games tree and a kill.  A system's staged set is one file, whose *)
(* bytes and modification time are its stamp: aria2 makes a new one when   *)
(* it begins to write, under a control file, and another when it is done.  *)
(***************************************************************************)
EXTENDS ArcadeDats

CONSTANTS
  Staged,     \* the systems with a staging directory
  MaxStamps,  \* bound on aria2's writes to a staged file
  Matches,    \* <<bytes, stamp>>: a DAT of these bytes claims that file
  MaxRuns     \* bound on verify batches

Stamps == 1 .. MaxStamps
ASSUME VerifyAssumption ==
  /\ Staged \subseteq Systems
  /\ MaxStamps \in Nat /\ MaxRuns \in Nat
  /\ Matches \subseteq (Commits \cup {Mutated, Damaged}) \X {d \in Stamps : d % 2 = 0}

VARIABLES
  staging,  \* staging[s]: the staged file's stamp; 0: none
  tree,     \* tree[s]: the promoted file's data and mtime, launcher files, a stray
  report,   \* report[s]: the report CSV, and which run wrote it from what
  result,   \* result[s]: the verify_results row
  attempt,  \* attempt[s]: the newest finished run's outcome
  ver,      \* the verify goroutine
  runs,     \* verify runs started
  used      \* history: what igir last matched against, and the gate's verdict on it

verifyVars == <<staging, tree, report, result, attempt, ver, runs, used>>
vars == <<datVars, verifyVars>>

NoFile == [data |-> 0, mtime |-> 0, db |-> FALSE, stray |-> FALSE]
NoReport == [run |-> 0, rows |-> {}, dat |-> 0, stamp |-> 0, stray |-> FALSE]
NoResult == [run |-> 0, pill |-> "unknown", rep |-> NoReport]
NoAttempt == [run |-> 0, outcome |-> "none"]
Quiet == [at |-> "idle", todo |-> {}, sys |-> {}, gate |-> "none", src |-> 0, exit |-> "ok", outs |-> {}]

\* A half-written file, and the time at which it was written here.
TornFile == MaxStamps + 1
Now == MaxStamps + 1

Pills == {"unknown", "unchecked", "unmatched", "missing", "extra", "verified"}
Outcomes == {"skipped", "promoted-unchecked", "dat-lock-mismatch", "failed", "verified"}

File   == [data : 0 .. TornFile, mtime : 0 .. Now, db : BOOLEAN, stray : BOOLEAN]
Rows   == {"FOUND", "MISSING", "UNUSED", "DUPLICATE"} \X {"input", "output", "artifact", "none"}
Report == [run : 0 .. MaxRuns, rows : SUBSET Rows, dat : Bytes \cup {Absent},
           stamp : 0 .. MaxStamps, stray : BOOLEAN]
Verifier ==
  [at : {"idle", "next", "copy", "opened", "copied", "check", "exec", "ingest"},
   todo : SUBSET Staged, sys : SUBSET Staged, gate : {"none", "match", "bootstrap"},
   src : 0 .. MaxStamps, exit : {"ok", "error"}, outs : SUBSET (Staged \X Outcomes)]

TypeOK ==
  /\ DatsTypeOK
  /\ staging \in [Staged -> 0 .. MaxStamps]
  /\ tree \in [Staged -> File]
  /\ report \in [Staged -> Report]
  /\ result \in [Staged -> [run : 0 .. MaxRuns, pill : Pills, rep : Report]]
  /\ attempt \in [Staged -> [run : 0 .. MaxRuns, outcome : Outcomes \cup {"none"}]]
  /\ ver \in Verifier
  /\ runs \in 0 .. MaxRuns
  /\ used \in [bytes : Bytes \cup {Absent}, gate : {"none", "match", "bootstrap"}]

Init ==
  /\ DatsInit
  /\ staging = [s \in Staged |-> 0]
  /\ tree = [s \in Staged |-> NoFile]
  /\ report = [s \in Staged |-> NoReport]
  /\ result = [s \in Staged |-> NoResult]
  /\ attempt = [s \in Staged |-> NoAttempt]
  /\ ver = Quiet
  /\ runs = 0
  /\ used = [bytes |-> Absent, gate |-> "bootstrap"]

----------------------------------------------------------------------------
(* The batch *)

\* Verify, past its locks (ArcadePipeline): the run row is open.
VerifyStart ==
  /\ ver.at = "idle" /\ runs < MaxRuns
  /\ runs' = runs + 1
  /\ ver' = [Quiet EXCEPT !.at = "next", !.todo = Staged]
  /\ UNCHANGED <<staging, tree, report, result, attempt, used>>

\* The system's outcome joins the batch's; the next system is up.
Ends(s, outcome) ==
  ver' = [Quiet EXCEPT !.at = "next", !.todo = ver.todo \ {s}, !.outs = ver.outs \cup {<<s, outcome>>}]

\* lastVerifyAttempts, once the run's detail holds the batch's outcomes: the
\* newest run that names a system speaks for it.
NewestAttempts ==
  [s \in Staged |->
     IF \E o \in Outcomes : <<s, o>> \in ver.outs
     THEN [run |-> runs, outcome |-> CHOOSE o \in Outcomes : <<s, o>> \in ver.outs]
     ELSE attempt[s]]

\* FinishRun stores the outcomes; the rescan that may follow is ArcadeRegen's.
VerifyFinish ==
  /\ ver.at = "next" /\ ver.todo = {}
  /\ attempt' = NewestAttempts
  /\ ver' = Quiet
  /\ UNCHANGED <<staging, tree, report, result, runs, used>>

\* A control file: the download is in flight.
Busy(s) == staging[s] % 2 = 1

Unready(s) == staging[s] = 0 \/ Busy(s)

\* processSystem up to the choice between copying unchecked and verifying.
Consider(s) ==
  /\ ver.at = "next" /\ s \in ver.todo
  /\ \/ Unready(s) /\ Ends(s, "skipped")
     \/ ~Unready(s) /\ ver' = [ver EXCEPT !.at = IF disk[s] = Absent THEN "copy" ELSE "check", !.sys = {s}]
  /\ UNCHANGED <<staging, tree, report, result, attempt, runs, used>>

----------------------------------------------------------------------------
(* No DAT: copyTree *)

\* Mutant: a file of the right name is taken for the right file.
QuickCheckByName(s) == tree[s].data # 0

\* Same size and same mtime: skipped.  A torn file is short.
QuickCheck(s) ==
  tree[s].data \notin {0, TornFile} /\ tree[s].mtime = staging[s]

\* The control files are looked for once more; then the file is skipped, or
\* its target truncated.  The mtime to restore is the one read here.
CopyOpen(s) ==
  /\ ver.at = "copy" /\ ver.sys = {s}
  /\ \/ Busy(s) /\ Ends(s, "skipped") /\ UNCHANGED <<tree, result>>
     \/ /\ ~Busy(s) /\ QuickCheck(s)
        /\ ver' = [ver EXCEPT !.at = "copied", !.src = staging[s]] /\ UNCHANGED <<tree, result>>
     \/ /\ ~Busy(s) /\ ~QuickCheck(s)
        /\ tree' = [tree EXCEPT ![s] = [tree[s] EXCEPT !.data = TornFile, !.mtime = Now]]
        /\ ver' = [ver EXCEPT !.at = "opened", !.src = staging[s]]
        /\ UNCHANGED result
  /\ UNCHANGED <<staging, report, attempt, runs, used>>

\* io.Copy, then Chtimes; or the copy fails and leaves what it wrote.
CopyFile(s) ==
  /\ ver.at = "opened" /\ ver.sys = {s}
  /\ \/ /\ tree[s].data = TornFile
        /\ tree' = [tree EXCEPT ![s] = [tree[s] EXCEPT !.data = staging[s]]]
        /\ UNCHANGED <<ver, faults>>
     \/ /\ tree[s].data # TornFile
        /\ tree' = [tree EXCEPT ![s] = [tree[s] EXCEPT !.mtime = ver.src]]
        /\ ver' = [ver EXCEPT !.at = "copied"] /\ UNCHANGED faults
     \/ faults < MaxFaults /\ faults' = faults + 1 /\ Ends(s, "failed") /\ UNCHANGED tree
  /\ UNCHANGED <<staging, report, result, attempt, runs, used>>

\* RecordVerifyResult with Unchecked, and the offender list cleared.
CopyDone(s) ==
  /\ ver.at = "copied" /\ ver.sys = {s}
  /\ result' = [result EXCEPT ![s] = [run |-> runs, pill |-> "unchecked", rep |-> NoReport]]
  /\ Ends(s, "promoted-unchecked")
  /\ UNCHANGED <<staging, tree, report, attempt, runs, used>>

----------------------------------------------------------------------------
(* A DAT: the lock, igir, the report *)

\* Mutant: an unreadable lock is taken for a missing one.
GateLenient(s) ==
  /\ ver.at = "check" /\ ver.sys = {s}
  /\ \/ CheckLock(s) = "mismatch" /\ Ends(s, "dat-lock-mismatch")
     \/ CheckLock(s) # "mismatch"
        /\ ver' = [ver EXCEPT !.at = "exec", !.gate = CheckLock(s)]
  /\ UNCHANGED <<staging, tree, report, result, attempt, runs, used>>

Gate(s) ==
  /\ ver.at = "check" /\ ver.sys = {s}
  /\ \/ CheckLock(s) = "mismatch" /\ Ends(s, "dat-lock-mismatch")
     \/ CheckLock(s) = "unreadable" /\ Ends(s, "failed")
     \/ CheckLock(s) \in {"match", "bootstrap"}
        /\ ver' = [ver EXCEPT !.at = "exec", !.gate = CheckLock(s)]
  /\ UNCHANGED <<staging, tree, report, result, attempt, runs, used>>

Claimed(b, d) == <<b, d>> \in Matches

\* The rows of igir's report, as (status, side): igir inventories the output
\* tree as well as the input, before and after it copied.
ReportRows(s) ==
  LET in == Claimed(disk[s], staging[s])
      out == Claimed(disk[s], tree[s].data)
  IN  (IF in \/ out THEN {<<"FOUND", "output">>} ELSE {<<"MISSING", "none">>})
      \cup (IF ~in THEN {<<"UNUSED", "input">>} ELSE {})
      \cup (IF in /\ out THEN {<<"DUPLICATE", "output">>} ELSE {})
      \cup (IF tree[s].stray \/ (~in /\ ~out /\ tree[s].data # 0) THEN {<<"UNUSED", "output">>} ELSE {})
      \cup (IF tree[s].db THEN {<<"UNUSED", "artifact">>} ELSE {})

\* The child process.  It may die before its report, leaving the file of an
\* earlier run; exit non-zero after it; or finish.
RunIgir(s) ==
  /\ ver.at = "exec" /\ ver.sys = {s} /\ ~Busy(s)
  /\ used' = [bytes |-> disk[s], gate |-> ver.gate]
  /\ tree' = IF Claimed(disk[s], staging[s])
             THEN [tree EXCEPT ![s] = [tree[s] EXCEPT !.data = staging[s], !.mtime = Now]]
             ELSE tree
  /\ \/ report' = [report EXCEPT ![s] =
          [run |-> runs, rows |-> ReportRows(s), dat |-> disk[s], stamp |-> staging[s],
           stray |-> tree[s].stray]]
        /\ \/ ver' = [ver EXCEPT !.at = "ingest", !.exit = "ok"] /\ UNCHANGED faults
           \/ faults < MaxFaults /\ faults' = faults + 1
              /\ ver' = [ver EXCEPT !.at = "ingest", !.exit = "error"]
     \/ /\ faults < MaxFaults /\ faults' = faults + 1
        /\ UNCHANGED report
        /\ ver' = [ver EXCEPT !.at = "ingest", !.exit = "error"]
  /\ UNCHANGED <<staging, result, attempt, runs>>

\* A download began since the first look.
SkipAtExec(s) ==
  /\ ver.at = "exec" /\ ver.sys = {s} /\ Busy(s)
  /\ Ends(s, "skipped")
  /\ UNCHANGED <<staging, tree, report, result, attempt, runs, used>>

\* Mutant: an echo of a promoted file counts like a staged duplicate.
RowClassAnySide(row) ==
  CASE row[1] = "FOUND" -> "found"
    [] row[1] = "MISSING" -> "missing"
    [] row[1] = "UNUSED" /\ row[2] = "artifact" -> "artifact"
    [] row[1] = "UNUSED" /\ row[2] = "output" -> "extra"
    [] OTHER -> "unmatched"

\* ParseReport: what a row counts as, by its status and the side it is on.
RowClass(row) ==
  CASE row[1] = "FOUND" -> "found"
    [] row[1] = "MISSING" -> "missing"
    [] row[1] \in {"UNUSED", "DUPLICATE"} /\ row[2] = "input" -> "unmatched"
    [] row[1] = "UNUSED" /\ row[2] = "artifact" -> "artifact"
    [] row[1] = "UNUSED" /\ row[2] = "output" -> "extra"
    [] row[1] = "DUPLICATE" /\ row[2] = "output" -> "duplicate"
    [] OTHER -> "other"

\* classifyVerify: the worst of the counts decides.
ClassifyVerify(rows) ==
  LET n == {RowClass(r) : r \in rows}
  IN IF n \cap {"unmatched", "other"} # {} THEN "unmatched"
     ELSE IF n \cap {"found", "missing"} = {} THEN "unknown"
     ELSE IF "missing" \in n THEN "missing"
     ELSE IF "extra" \in n THEN "extra"
     ELSE "verified"

\* Whatever file lies at the report path is parsed and recorded under this run.
Ingest(s) ==
  /\ ver.at = "ingest" /\ ver.sys = {s}
  /\ \/ report[s] = NoReport /\ Ends(s, "failed") /\ UNCHANGED result
     \/ /\ report[s] # NoReport
        /\ result' = [result EXCEPT ![s] =
             [run |-> runs, pill |-> ClassifyVerify(report[s].rows), rep |-> report[s]]]
        /\ Ends(s, IF ver.exit = "ok" THEN "verified" ELSE "failed")
  /\ UNCHANGED <<staging, tree, report, attempt, runs, used>>

VerifyStep ==
  \/ \E s \in Staged :
       \/ Consider(s) \/ CopyOpen(s) \/ CopyDone(s)
       \/ Gate(s) \/ SkipAtExec(s) \/ Ingest(s)
  \/ VerifyFinish

----------------------------------------------------------------------------
(* The rest of the world *)

\* aria2 starts or ends a download.
Aria2(s) ==
  /\ staging[s] < MaxStamps /\ staging' = [staging EXCEPT ![s] = @ + 1]
  /\ UNCHANGED <<tree, report, result, attempt, ver, runs, used>>

\* Beside the games of a system, the generator writes metadata.pegasus.txt and
\* an operator drops a file no DAT knows.
TreeGrows(s) ==
  /\ tree[s].data # 0
  /\ \/ ~tree[s].db /\ tree' = [tree EXCEPT ![s].db = TRUE]
     \/ ~tree[s].stray /\ tree' = [tree EXCEPT ![s].stray = TRUE]
  /\ UNCHANGED <<staging, report, result, attempt, ver, runs, used>>

\* Both goroutines end with the process; nothing on disk does.
Kill ==
  /\ kills < MaxKills /\ kills' = kills + 1
  /\ ref' = Idle /\ ver' = Quiet
  /\ UNCHANGED <<head, disk, lock, versions, info, batches, faults,
                 staging, tree, report, result, attempt, runs, used>>

\* Files are damaged at rest: not between a verify's gate and its child.
AtRest == ver.at \notin {"exec", "ingest"}

Next ==
  \/ DatsNext /\ UNCHANGED verifyVars
  \/ AtRest /\ (DamageLock \/ \E s \in Systems : DamageDAT(s)) /\ UNCHANGED verifyVars
  \/ (VerifyStart \/ VerifyStep) /\ UNCHANGED datVars
  \/ (\E s \in Staged : CopyFile(s) \/ RunIgir(s))
       /\ UNCHANGED <<head, disk, lock, versions, info, ref, batches, kills>>
  \/ (\E s \in Staged : Aria2(s) \/ TreeGrows(s)) /\ UNCHANGED datVars
  \/ Kill

Spec == Init /\ [][Next]_vars

----------------------------------------------------------------------------
(* Properties *)

\* The supply-chain gate with a refresh running beside it: igir only ever
\* matched against bytes a refresh gated and parsed, even though the file can be
\* replaced between CheckLock and igir's reading of it, and whatever was damaged
\* before.  The one exception is the bootstrap, a system the lock does not name.
OnlyAttestedDATs ==
  used.gate # "bootstrap" => Parses(used.bytes)

\* "rsync -a's quick-check": a copy that a kill or a failed write cut short is
\* never taken for done; a batch that promotes unchecked leaves the whole
\* staged file in the games tree, unless aria2 wrote to it meanwhile.
CopyComplete ==
  [][\A s \in Staged : CopyDone(s) /\ ver.src = staging[s] =>
       tree[s].data = staging[s]]_vars

\* The pill is what the DAT says of the staged file: re-verifying a promoted
\* file (echoed as DUPLICATE on the output side) or a tree with launcher files
\* in it does not turn a green system red or amber; a stray file and a file the
\* DAT does not claim do.
PillFollowsDAT ==
  \A s \in Staged : result[s].rep # NoReport =>
    LET r == result[s].rep
    IN  result[s].pill = "verified" <=> Claimed(r.dat, r.stamp) /\ ~r.stray

\* How fetchVerify marks a pill whose newest attempt died.
LastAttemptFailed(s) ==
  /\ attempt[s].run > result[s].run
  /\ attempt[s].outcome \in {"failed", "dat-lock-mismatch"}

\* "the pill keeps the last GOOD ingest ... but must say so when the newest
\* attempt died": a failed attempt that brought no report of its own is marked.
PillHonest ==
  \A s \in Staged :
    attempt[s].outcome = "failed" /\ attempt[s].run # report[s].run => LastAttemptFailed(s)

=============================================================================
