--------------------------- MODULE ArcadeLibrary ---------------------------
(***************************************************************************)
(* The arcade webapp's library: the scanner's reconciliation of the games  *)
(* table with trees that change under it, the eXo import, the catalogue's  *)
(* coming and going, what verify and scrape write into the rows, and the   *)
(* curators, whose pages name rows by id and whose handlers read before    *)
(* they write.  SQLite serialises statements (one connection), enforces    *)
(* foreign keys and never reuses an id (AUTOINCREMENT).                    *)
(*                                                                         *)
(* The tables a scan replaces wholesale and nobody else reads back into a  *)
(* decision (dat_info, coverage, inventory, staging totals) are left out.  *)
(***************************************************************************)
EXTENDS Naturals, FiniteSets

CONSTANTS
  Catalogued,   \* systems the catalogue may list
  Exo,          \* systems of the eXo collections
  Files,        \* games: numbers, in the order of their paths
  SystemOf,     \* SystemOf[f]: the system whose tree f is in
  AtFirst,      \* the files that were there at the last scan before Init
  Collections,
  Curators,
  MaxScans, MaxEdits, MaxChanges, MaxIds   \* bounds

Systems == Catalogued \cup Exo
ASSUME LibraryAssumption ==
  /\ Catalogued \cap Exo = {}
  /\ Files \subseteq Nat /\ IsFiniteSet(Files) /\ AtFirst \subseteq Files
  /\ SystemOf \in [Files -> Systems]
  /\ {MaxScans, MaxEdits, MaxChanges, MaxIds} \subseteq Nat
  /\ Cardinality(AtFirst) <= MaxIds

VARIABLES
  disk,      \* the files in the trees (for eXo: entries of its metadata file)
  cat,       \* the systems the catalogue lists
  row,       \* row[f]: the games row of f
  nextId,    \* the next id AUTOINCREMENT gives
  members,   \* members[k]: the game ids of collection k
  cols,      \* the collections there are
  scan,      \* the scan in flight
  cur,       \* cur[c]: what curator c's page and handler are at
  touched,   \* history: files that came or went since the scan began
  chosen,    \* history: <<k, f>> that a curator added
  scans, edits, changes

vars == <<disk, cat, row, nextId, members, cols, scan, cur, touched, chosen, scans, edits, changes>>
store == <<row, nextId, members, cols>>

NoRow == [id |-> 0, hidden |-> FALSE, verify |-> "none", sha1 |-> FALSE, cover |-> FALSE]
Row == [id : 1 .. MaxIds, hidden : BOOLEAN, verify : {"unknown", "verified", "unmatched"},
        sha1 : BOOLEAN, cover : BOOLEAN]
NoScan == [at |-> "idle", cat |-> {}, todo |-> {}, sys |-> {}, listed |-> {}, found |-> {}, done |-> {}]
Scan == [at : {"idle", "load", "upsert", "next", "stat", "persist", "hash", "exo"},
         cat : SUBSET Catalogued, todo : SUBSET Systems, sys : SUBSET Systems,
         listed : SUBSET Files, found : SUBSET Files, done : SUBSET Systems]
NoPage == [at |-> "idle", id |-> 0, file |-> {}, hidden |-> FALSE, col |-> {}]
Page == [at : {"idle", "page", "toggle", "add"}, id : 0 .. MaxIds, file : SUBSET Files,
         hidden : BOOLEAN, col : SUBSET Collections]

Of(s) == {f \in Files : SystemOf[f] = s}
Listed(r) == {f \in Files : r[f] # NoRow}
Ids(r) == {r[f].id : f \in Listed(r)}

TypeOK ==
  /\ disk \subseteq Files /\ cat \subseteq Catalogued
  /\ row \in [Files -> Row \cup {NoRow}]
  /\ nextId \in 1 .. MaxIds + 1
  /\ members \in [Collections -> SUBSET (1 .. MaxIds)]
  /\ cols \subseteq Collections
  /\ scan \in Scan /\ cur \in [Curators -> Page]
  /\ touched \subseteq Files /\ chosen \subseteq Collections \X Files
  /\ scans \in 0 .. MaxScans /\ edits \in 0 .. MaxEdits /\ changes \in 0 .. MaxChanges

NewRow(id) == [id |-> id, hidden |-> FALSE, verify |-> "unknown", sha1 |-> FALSE, cover |-> FALSE]

\* The ids of the rows inserted for a set of files, in path order.
Nth(fs, f) == Cardinality({g \in fs : g < f})

\* After a first scan.
Init ==
  /\ disk = AtFirst /\ cat = Catalogued
  /\ row = [f \in Files |-> IF f \in disk THEN NewRow(1 + Nth(disk, f)) ELSE NoRow]
  /\ nextId = 1 + Cardinality(disk)
  /\ members = [k \in Collections |-> {}]
  /\ cols = Collections
  /\ scan = NoScan
  /\ cur = [c \in Curators |-> NoPage]
  /\ touched = {} /\ chosen = {}
  /\ scans = 0 /\ edits = 0 /\ changes = 0

----------------------------------------------------------------------------
(* Statements on the games table *)

\* Deleting rows cascades to the memberships.
SetRows(r) ==
  /\ row' = r
  /\ members' = [k \in Collections |-> members[k] \cap Ids(r)]

\* Mutant: without AUTOINCREMENT, SQLite reuses the largest ids once they are free.
FreshIdReused == IF Ids(row) = {} THEN 1 ELSE 1 + CHOOSE i \in Ids(row) : \A j \in Ids(row) : j <= i

\* AUTOINCREMENT.
FreshId == nextId

\* ReplaceSystemGames: an upsert per file found, which keeps what curation,
\* verify and scrape wrote; then rows this scan has not stamped are deleted.
ReplaceSystemGames(s, found) ==
  LET new == {f \in found : row[f] = NoRow}
  IN  /\ FreshId + Cardinality(new) <= MaxIds + 1
      /\ nextId' = FreshId + Cardinality(new)
      /\ SetRows([f \in Files |->
           CASE f \in new -> NewRow(FreshId + Nth(new, f))
             [] SystemOf[f] = s /\ f \notin found -> NoRow
             [] OTHER -> row[f]])

\* Mutant: eXo systems are not in the catalogue either.
DroppedAll(listed) == Systems \ listed

\* UpsertSystems deletes the systems that are not listed, except eXo's.
Dropped(listed) == Catalogued \ listed

----------------------------------------------------------------------------
(* Scanner.Scan and scanAll *)

\* One scan at a time (ErrBusy otherwise).
ScanStart ==
  /\ scan.at = "idle" /\ scans < MaxScans
  /\ scans' = scans + 1 /\ touched' = {}
  /\ scan' = [NoScan EXCEPT !.at = "load"]
  /\ UNCHANGED <<disk, cat, store, cur, chosen, edits, changes>>

\* The catalogue file is read; if it cannot be, the scan ends in error.
LoadCatalogue ==
  /\ scan.at = "load"
  /\ scan' \in {NoScan, [scan EXCEPT !.at = "upsert", !.cat = cat]}
  /\ UNCHANGED <<disk, cat, store, cur, touched, chosen, scans, edits, changes>>

UpsertSystems ==
  /\ scan.at = "upsert"
  /\ SetRows([f \in Files |-> IF SystemOf[f] \in Dropped(scan.cat) THEN NoRow ELSE row[f]])
  /\ scan' = [scan EXCEPT !.at = "next", !.todo = scan.cat]
  /\ UNCHANGED <<disk, cat, nextId, cols, cur, touched, chosen, scans, edits, changes>>

\* scanSystemDir lists the directory, or cannot: the walk failed, rows are kept.
ListDir(s) ==
  /\ scan.at = "next" /\ s \in scan.todo
  /\ \/ scan' = [scan EXCEPT !.todo = @ \ {s}]
     \/ scan' = [scan EXCEPT !.at = "stat", !.sys = {s}, !.todo = @ \ {s}, !.listed = disk \cap Of(s)]
  /\ UNCHANGED <<disk, cat, store, cur, touched, chosen, scans, edits, changes>>

\* Mutant: an absent directory is taken for a walk that failed.
StatEntriesKeepsAbsent ==
  /\ scan.at = "stat"
  /\ scan' = IF scan.listed # {} /\ scan.listed \subseteq disk
             THEN [scan EXCEPT !.at = "persist", !.found = scan.listed]
             ELSE [scan EXCEPT !.at = "next", !.done = @ \cup scan.sys]
  /\ UNCHANGED <<disk, cat, store, cur, touched, chosen, scans, edits, changes>>

\* ... and stats each entry.  An entry that is gone by then is ErrNotExist,
\* which the caller takes for an absent directory: no games, and no error.
StatEntries ==
  /\ scan.at = "stat"
  /\ scan' = [scan EXCEPT !.at = "persist",
                          !.found = IF scan.listed \subseteq disk THEN scan.listed ELSE {}]
  /\ UNCHANGED <<disk, cat, store, cur, touched, chosen, scans, edits, changes>>

\* The transaction, or its failure (rows kept, an error counted).
Persist(s) ==
  /\ scan.at = "persist" /\ scan.sys = {s}
  /\ \/ /\ ReplaceSystemGames(s, scan.found)
        /\ scan' = [scan EXCEPT !.at = IF scan.found = {} THEN "next" ELSE "hash", !.done = @ \cup {s}]
     \/ scan' = [scan EXCEPT !.at = "next"] /\ UNCHANGED <<row, nextId, members>>
  /\ UNCHANGED <<disk, cat, cols, cur, touched, chosen, scans, edits, changes>>

\* persistSHA1s: files without a hash get one, flushed batch by batch; files
\* that cannot be read are passed over, a failed flush ends the fill.
HashBatch(s, batch) ==
  /\ scan.at = "hash" /\ scan.sys = {s}
  /\ batch \subseteq {f \in Of(s) \cap disk : row[f] # NoRow /\ ~row[f].sha1}
  /\ row' = [f \in Files |-> IF f \in batch THEN [row[f] EXCEPT !.sha1 = TRUE] ELSE row[f]]
  /\ scan' = IF batch = {} THEN [scan EXCEPT !.at = "next"] ELSE scan
  /\ UNCHANGED <<disk, cat, nextId, members, cols, cur, touched, chosen, scans, edits, changes>>

\* The catalogue's systems are through; the eXo collections follow.
ScanExo ==
  /\ scan.at = "next" /\ scan.todo = {}
  /\ scan' = [scan EXCEPT !.at = "exo", !.todo = Exo]
  /\ UNCHANGED <<disk, cat, store, cur, touched, chosen, scans, edits, changes>>

\* exo.Import: an absent or unparseable file keeps the rows, another replaces them.
ExoImport(s) ==
  /\ scan.at = "exo" /\ s \in scan.todo
  /\ \/ scan' = [scan EXCEPT !.todo = @ \ {s}] /\ UNCHANGED <<row, nextId, members>>
     \/ /\ ReplaceSystemGames(s, disk \cap Of(s))
        /\ scan' = [scan EXCEPT !.todo = @ \ {s}, !.done = @ \cup {s}]
  /\ UNCHANGED <<disk, cat, cols, cur, touched, chosen, scans, edits, changes>>

ScanFinish ==
  /\ scan.at = "exo" /\ scan.todo = {}
  /\ scan' = NoScan
  /\ UNCHANGED <<disk, cat, store, cur, touched, chosen, scans, edits, changes>>

ScanStep ==
  \/ ScanStart \/ LoadCatalogue \/ UpsertSystems \/ StatEntries \/ ScanExo \/ ScanFinish
  \/ \E s \in Systems :
       \/ ListDir(s) \/ Persist(s) \/ ExoImport(s)
       \/ \E batch \in SUBSET Of(s) : HashBatch(s, batch)

----------------------------------------------------------------------------
(* What the other jobs write into the rows *)

\* SetSystemVerifyStates with the report's FOUND files: all others are unmatched.
IngestVerify(s, found) ==
  /\ edits < MaxEdits /\ edits' = edits + 1
  /\ row' = [f \in Files |->
       IF SystemOf[f] = s /\ row[f] # NoRow
       THEN [row[f] EXCEPT !.verify = IF f \in found THEN "verified" ELSE "unmatched",
                           !.sha1 = @ \/ f \in found]
       ELSE row[f]]
  /\ UNCHANGED <<disk, cat, nextId, members, cols, scan, cur, touched, chosen, scans, changes>>

\* applyCache: flags are replaced for the whole system.
ApplyCache(s, covered) ==
  /\ edits < MaxEdits /\ edits' = edits + 1
  /\ row' = [f \in Files |->
       IF SystemOf[f] = s /\ row[f] # NoRow THEN [row[f] EXCEPT !.cover = f \in covered \cap disk] ELSE row[f]]
  /\ UNCHANGED <<disk, cat, nextId, members, cols, scan, cur, touched, chosen, scans, changes>>

----------------------------------------------------------------------------
(* Curators *)

\* The game a request names: by id, within its system.
Named(c) ==
  {f \in Listed(row) : row[f].id = cur[c].id /\ \A g \in cur[c].file : SystemOf[f] = SystemOf[g]}

\* A page is rendered: it names a game by system and id.
OpenPage(c, f) ==
  /\ cur[c].at = "idle" /\ edits < MaxEdits /\ row[f] # NoRow
  /\ edits' = edits + 1
  /\ cur' = [cur EXCEPT ![c] = [NoPage EXCEPT !.at = "page", !.id = row[f].id, !.file = {f}]]
  /\ UNCHANGED <<disk, cat, store, scan, touched, chosen, scans, changes>>

\* handleGameHideToggle reads the row (404 when it is gone) ...
ToggleRead(c) ==
  /\ cur[c].at = "page"
  /\ cur' = [cur EXCEPT ![c] =
       IF Named(c) = {} THEN NoPage
       ELSE LET f == CHOOSE g \in Named(c) : TRUE
            IN  [cur[c] EXCEPT !.at = "toggle", !.file = {f}, !.hidden = row[f].hidden]]
  /\ UNCHANGED <<disk, cat, store, scan, touched, chosen, scans, edits, changes>>

\* ... and writes the negation, by path.
ToggleWrite(c) ==
  /\ cur[c].at = "toggle"
  /\ row' = [f \in Files |->
       IF f \in cur[c].file /\ row[f] # NoRow THEN [row[f] EXCEPT !.hidden = ~cur[c].hidden] ELSE row[f]]
  /\ cur' = [cur EXCEPT ![c] = NoPage]
  /\ UNCHANGED <<disk, cat, nextId, members, cols, scan, touched, chosen, scans, edits, changes>>

\* AddCollectionGame looks whether the game exists ...
AddRead(c, k) ==
  /\ cur[c].at = "page"
  /\ cur' = [cur EXCEPT ![c] =
       IF Named(c) = {} THEN NoPage ELSE [cur[c] EXCEPT !.at = "add", !.col = {k}]]
  /\ UNCHANGED <<disk, cat, store, scan, touched, chosen, scans, edits, changes>>

\* ... and inserts; the foreign keys refuse a game or a collection that is gone.
AddInsert(c, k) ==
  /\ cur[c].at = "add" /\ cur[c].col = {k}
  /\ members' = IF k \in cols /\ cur[c].id \in Ids(row)
                THEN [members EXCEPT ![k] = @ \cup {cur[c].id}] ELSE members
  /\ chosen' = chosen \cup {<<k, f>> : f \in cur[c].file}
  /\ cur' = [cur EXCEPT ![c] = NoPage]
  /\ UNCHANGED <<disk, cat, row, nextId, cols, scan, touched, scans, edits, changes>>

\* RemoveCollectionGame: one statement, a no-op for a game that is gone.
RemoveGame(c, k) ==
  /\ cur[c].at = "page"
  /\ members' = [members EXCEPT ![k] = @ \ {row[f].id : f \in Named(c)}]
  /\ chosen' = chosen \ {<<k, f>> : f \in Named(c)}
  /\ cur' = [cur EXCEPT ![c] = NoPage]
  /\ UNCHANGED <<disk, cat, row, nextId, cols, scan, touched, scans, edits, changes>>

\* The per-system "show all hidden".
UnhideAll(s) ==
  /\ edits < MaxEdits /\ edits' = edits + 1
  /\ row' = [f \in Files |-> IF SystemOf[f] = s /\ row[f] # NoRow THEN [row[f] EXCEPT !.hidden = FALSE] ELSE row[f]]
  /\ UNCHANGED <<disk, cat, nextId, members, cols, scan, cur, touched, chosen, scans, changes>>

\* CreateCollection, and DeleteCollection, whose memberships cascade away.
EditCollections(k) ==
  /\ edits < MaxEdits /\ edits' = edits + 1
  /\ \/ k \notin cols /\ cols' = cols \cup {k} /\ UNCHANGED <<members, chosen>>
     \/ /\ k \in cols /\ cols' = cols \ {k}
        /\ members' = [members EXCEPT ![k] = {}]
        /\ chosen' = {x \in chosen : x[1] # k}
  /\ UNCHANGED <<disk, cat, row, nextId, scan, cur, touched, scans, changes>>

Curates ==
  \/ \E c \in Curators :
       \/ ToggleRead(c) \/ ToggleWrite(c)
       \/ \E f \in Files : OpenPage(c, f)
       \/ \E k \in Collections : AddRead(c, k) \/ AddInsert(c, k) \/ RemoveGame(c, k)
  \/ \E s \in Systems : UnhideAll(s)
  \/ \E k \in Collections : EditCollections(k)

----------------------------------------------------------------------------
(* The trees and the catalogue *)

\* A promotion or an operator adds a file, or takes one away.
TreeChanges(f) ==
  /\ changes < MaxChanges /\ changes' = changes + 1
  /\ disk' = IF f \in disk THEN disk \ {f} ELSE disk \cup {f}
  /\ touched' = touched \cup {f}
  /\ UNCHANGED <<cat, store, scan, cur, chosen, scans, edits>>

CatalogueChanges(s) ==
  /\ changes < MaxChanges /\ changes' = changes + 1
  /\ cat' = IF s \in cat THEN cat \ {s} ELSE cat \cup {s}
  /\ touched' = touched \cup Of(s)
  /\ UNCHANGED <<disk, store, scan, cur, chosen, scans, edits>>

Next ==
  \/ ScanStep
  \/ \E s \in Systems : \E fs \in SUBSET Of(s) : IngestVerify(s, fs) \/ ApplyCache(s, fs)
  \/ Curates
  \/ \E f \in Files : TreeChanges(f)
  \/ \E s \in Catalogued : CatalogueChanges(s)

Spec == Init /\ [][Next]_vars

----------------------------------------------------------------------------
(* Properties *)

\* "A collection never holds a stale pointer to a renamed/deleted row": every
\* membership is of a row that is there, and of a game some curator chose for
\* it, however old the page was and whatever rescans did to the rows meanwhile.
NoStalePointer ==
  \A k \in Collections :
    /\ members[k] # {} => k \in cols
    /\ members[k] \subseteq Ids(row)
    /\ \A f \in Listed(row) : row[f].id \in members[k] => <<k, f>> \in chosen

Settled(s) == Of(s) \cap touched = {}

\* Rows follow the trees: when a scan is over, the systems it reconciled and
\* that did not change under it have a row for each file in their tree and no other,
\* and a system the catalogue dropped has none.
ScanConverges ==
  [][ScanFinish =>
       /\ \A s \in scan.done : Settled(s) => Listed(row) \cap Of(s) = disk \cap Of(s)
       /\ \A s \in Catalogued \ scan.cat : Listed(row) \cap Of(s) = {}]_vars

\* "Rescans never clobber later-phase state": no step of anyone takes away the
\* row (with its id, which memberships hang on) of a game whose file is in
\* place and whose system did not change during the scan; and only a curator
\* changes whether it is hidden.
CurationSurvives ==
  [][\A f \in disk \cap Listed(row) :
       SystemOf[f] \in cat \cup Exo /\ Settled(SystemOf[f]) =>
         /\ row'[f].id = row[f].id
         /\ row'[f].hidden # row[f].hidden => Curates]_vars

\* "Any walk error (..., a dir vanishing mid-walk): DO NOT replace": the same of a
\* file that stayed in place while others of its system came or went.
StayingFilesKeepRows ==
  [][\A f \in disk \cap Listed(row) :
       SystemOf[f] \in cat \cup Exo /\ f \notin touched => row'[f].id = row[f].id]_vars

=============================================================================
