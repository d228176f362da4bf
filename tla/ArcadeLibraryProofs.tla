------------------------- MODULE ArcadeLibraryProofs -------------------------
(***************************************************************************)
(* For any number of games, systems, collections and curators, and any     *)
(* changes of the trees and the catalogue during scans: a collection holds *)
(* the games a curator chose for it and no other, a scan leaves the rows   *)
(* of what is in the trees, and rescans keep ids and curation.             *)
(*                                                                         *)
(* The first rests on ids: a row's id is its own (UniqueIds) and was given *)
(* out before (IdsGiven), so that an id on an old page is of the game the  *)
(* page was about or of none (PagesNameTheirGame).  The others follow what *)
(* the scan has in its hands between two steps: as long as a system is     *)
(* settled, what was listed is what is there.                              *)
(***************************************************************************)
EXTENDS ArcadeLibrary, FiniteSetTheorems, TLAPS

\* Ids are unique, and AUTOINCREMENT is past them.
UniqueIds == \A f, g \in Listed(row) : row[f].id = row[g].id => f = g
IdsGiven == \A f \in Listed(row) : row[f].id < nextId

\* The id on a page was given out; if a row has it, that of the page's game.
PagesNameTheirGame ==
  \A c \in Curators : cur[c].at # "idle" =>
    /\ cur[c].id < nextId
    /\ \A g \in Listed(row) : row[g].id = cur[c].id => g \in cur[c].file

\* A scan first works on systems of the catalogue it has read, then on eXo's.
Working == {"next", "stat", "persist", "hash"}
ScanInOrder ==
  /\ scan.at \in {"load", "upsert"} => scan.done = {}
  /\ scan.at \in Working => scan.todo \subseteq scan.cat
  /\ scan.at \in Working \ {"next"} => scan.sys \subseteq scan.cat
  /\ scan.at = "exo" => scan.todo \subseteq Exo

\* What it holds of a settled system is what is there.
InHand(fs) == \A s \in scan.sys : fs \subseteq Of(s) /\ (Settled(s) => fs = disk \cap Of(s))
HandsFresh ==
  /\ scan.at = "stat" => InHand(scan.listed)
  /\ scan.at = "persist" => InHand(scan.found)
CatalogueFresh ==
  scan.at = "upsert" =>
    \A f \in Files : SystemOf[f] \in cat /\ Settled(SystemOf[f]) => SystemOf[f] \in scan.cat

\* What it has reconciled stays so, as long as the system is settled.
Reconciled == \A s \in scan.done : Settled(s) => Listed(row) \cap Of(s) = disk \cap Of(s)
DroppedGone ==
  scan.at \in Working \cup {"exo"} => \A s \in Catalogued \ scan.cat : Listed(row) \cap Of(s) = {}

\* What ids and members say, and what scans know.
NamesInv == UniqueIds /\ IdsGiven /\ PagesNameTheirGame /\ NoStalePointer
ScanInv == ScanInOrder /\ HandsFresh /\ CatalogueFresh /\ Reconciled /\ DroppedGone

LibraryInv == TypeOK /\ NamesInv /\ ScanInv

----------------------------------------------------------------------------
(* Rows and ids *)

LEMMA Bounds ==
  /\ MaxScans \in Nat /\ MaxEdits \in Nat /\ MaxChanges \in Nat /\ MaxIds \in Nat
  /\ IsFiniteSet(Files) /\ Files \subseteq Nat /\ AtFirst \subseteq Files
  /\ IsFiniteSet(AtFirst) /\ Cardinality(AtFirst) \in Nat /\ Cardinality(AtFirst) <= MaxIds
  /\ Catalogued \cap Exo = {} /\ SystemOf \in [Files -> Systems]
BY LibraryAssumption, FS_Subset, FS_CardinalityType

Rows == [Files -> Row \cup {NoRow}]

\* A row is listed when it has an id.
LEMMA RowTyping ==
  ASSUME NEW r \in Rows, NEW f \in Files
  PROVE  /\ r[f].id \in 0 .. MaxIds /\ r[f].hidden \in BOOLEAN
         /\ f \in Listed(r) <=> r[f].id # 0
         /\ f \in Listed(r) <=> r[f] # NoRow
         /\ f \in Listed(r) => r[f] \in Row /\ r[f].id >= 1
<1>1. r[f] \in Row \cup {NoRow}
  BY DEF Rows
<1>2. NoRow.id = 0 /\ NoRow.hidden = FALSE
  BY DEF NoRow
<1>3. \A x \in Row : x.id \in 1 .. MaxIds /\ x.hidden \in BOOLEAN
  BY DEF Row
<1>4. f \in Listed(r) <=> r[f] # NoRow
  BY DEF Listed
<1>5. CASE r[f] = NoRow
  <2>1. r[f].id = 0 /\ r[f].hidden \in BOOLEAN /\ f \notin Listed(r)
    BY <1>2, <1>4, <1>5
  <2>2. 0 \in 0 .. MaxIds
    BY Bounds
  <2> QED BY <1>5, <2>1, <2>2
<1>6. CASE r[f] # NoRow
  <2>1. r[f] \in Row /\ r[f].id \in 1 .. MaxIds
    BY <1>1, <1>3, <1>6
  <2> QED BY <1>3, <1>4, <1>6, <2>1, Bounds
<1> QED BY <1>5, <1>6

LEMMA NewRowTyping ==
  ASSUME NEW n \in 1 .. MaxIds
  PROVE  /\ NewRow(n) \in Row /\ NewRow(n).id = n /\ NewRow(n).hidden = FALSE
BY DEF NewRow, Row

\* The ranks of a set's games are different, and less than their number.
LEMMA Ranks ==
  ASSUME NEW fs \in SUBSET Files, NEW f \in fs
  PROVE  /\ Nth(fs, f) \in Nat /\ Nth(fs, f) < Cardinality(fs) /\ Cardinality(fs) \in Nat
         /\ \A g \in fs : f < g => Nth(fs, f) < Nth(fs, g)
<1> DEFINE Below(h) == {e \in fs : e < h}
<1>1. IsFiniteSet(fs) /\ Cardinality(fs) \in Nat /\ fs \subseteq Nat
  BY Bounds, FS_Subset, FS_CardinalityType
<1>2. \A h \in fs : IsFiniteSet(Below(h)) /\ Cardinality(Below(h)) \in Nat
  BY <1>1, FS_Subset, FS_CardinalityType
<1>3. Cardinality(Below(f)) < Cardinality(fs)
  <2>1. Below(f) \in SUBSET fs /\ f \notin Below(f)
    BY <1>1
  <2>2. Cardinality(Below(f)) <= Cardinality(fs) /\ Cardinality(Below(f)) # Cardinality(fs)
    BY <1>1, <2>1, FS_Subset
  <2> QED BY <1>1, <1>2, <2>2
<1>4. ASSUME NEW g \in fs, f < g PROVE Cardinality(Below(f)) < Cardinality(Below(g))
  <2>1. Below(f) \in SUBSET Below(g) /\ f \notin Below(f) /\ f \in Below(g)
    <3>1. \A e \in fs : e < f => e < g
      BY <1>1, <1>4
    <3>2. ~(f < f)
      BY <1>1
    <3> QED BY <1>4, <3>1, <3>2
  <2>2. Cardinality(Below(f)) <= Cardinality(Below(g)) /\ Cardinality(Below(f)) # Cardinality(Below(g))
    BY <1>2, <2>1, FS_Subset
  <2> QED BY <1>2, <2>2
<1> QED BY <1>1, <1>2, <1>3, <1>4 DEF Nth

LEMMA RanksDiffer ==
  ASSUME NEW fs \in SUBSET Files, NEW f \in fs, NEW g \in fs, Nth(fs, f) = Nth(fs, g)
  PROVE  f = g
<1>1. f \in Nat /\ g \in Nat
  BY Bounds
<1>2. Nth(fs, f) \in Nat /\ Nth(fs, g) \in Nat
  BY Ranks
<1>3. ~(f < g)
  BY <1>2, Ranks
<1>4. ~(g < f)
  BY <1>2, Ranks
<1> QED BY <1>1, <1>3, <1>4

\* What a transaction may do to the rows: keep, delete, insert with fresh ids.
Transacts ==
  /\ row' \in Rows /\ nextId' \in nextId .. MaxIds + 1
  /\ \A f \in Files :
       \/ row'[f] = row[f]
       \/ row'[f] = NoRow
       \/ row[f] = NoRow /\ row'[f].id \in nextId .. nextId' - 1
  /\ \A f, g \in Files :
       row[f] = NoRow /\ row[g] = NoRow /\ row'[f] # NoRow /\ row'[f].id = row'[g].id => f = g
  /\ members' = [k \in Collections |-> members[k] \cap Ids(row')]

\* The rows after ReplaceSystemGames.
LEMMA Replacing ==
  ASSUME TypeOK, NEW s \in Systems, NEW found \in SUBSET Of(s), ReplaceSystemGames(s, found)
  PROVE  /\ Transacts
         /\ Listed(row') \cap Of(s) = found
         /\ \A f \in Files : SystemOf[f] # s => row'[f] = row[f]
         /\ \A f \in found : row[f] # NoRow => row'[f] = row[f]
<1> DEFINE new == {f \in found : row[f] = NoRow}
           after == [f \in Files |->
             CASE f \in new -> NewRow(FreshId + Nth(new, f))
               [] SystemOf[f] = s /\ f \notin found -> NoRow
               [] OTHER -> row[f]]
<1>1. /\ nextId + Cardinality(new) <= MaxIds + 1
      /\ nextId' = nextId + Cardinality(new)
      /\ row' = after
      /\ members' = [k \in Collections |-> members[k] \cap Ids(after)]
  BY DEF ReplaceSystemGames, SetRows, FreshId
<1>2. new \in SUBSET Files /\ found \subseteq Files /\ row \in Rows /\ nextId \in 1 .. MaxIds + 1
  BY DEF Of, TypeOK, Rows
<1>3. IsFiniteSet(new) /\ Cardinality(new) \in Nat
  BY <1>2, Bounds, FS_Subset, FS_CardinalityType
<1>4. ASSUME NEW f \in new
      PROVE  /\ nextId + Nth(new, f) \in nextId .. nextId' - 1
             /\ nextId + Nth(new, f) \in 1 .. MaxIds
             /\ after[f] = NewRow(nextId + Nth(new, f))
  <2>1. Nth(new, f) \in Nat /\ Nth(new, f) < Cardinality(new)
    BY <1>2, Ranks
  <2>2. after[f] = NewRow(nextId + Nth(new, f))
    BY <1>2 DEF Of, FreshId
  <2> HIDE DEF new, after
  <2> QED BY <1>1, <1>2, <1>3, <2>1, <2>2, Bounds
<1>5. ASSUME NEW f \in Files, f \notin new
      PROVE  after[f] = IF SystemOf[f] = s /\ f \notin found THEN NoRow ELSE row[f]
  BY <1>5
<1>6. \A f \in new : /\ after[f] \in Row /\ after[f].id = nextId + Nth(new, f) /\ f \in found
                     /\ row[f] = NoRow
  BY <1>4, NewRowTyping
<1>7. \A f \in Files : f \notin new /\ row[f] = NoRow => after[f] = NoRow
  BY <1>5
<1>8. \A f, g \in new : after[f].id = after[g].id => f = g
  <2> SUFFICES ASSUME NEW f \in new, NEW g \in new, after[f].id = after[g].id PROVE f = g
    OBVIOUS
  <2>1. Nth(new, f) \in Nat /\ Nth(new, g) \in Nat
    BY <1>2, Ranks
  <2>2. Nth(new, f) = Nth(new, g)
    <3> HIDE DEF new, after
    <3> QED BY <1>2, <1>6, <2>1
  <2> HIDE DEF new, after
  <2> QED BY <1>2, <2>2, RanksDiffer
<1>9. after \in Rows
  <2>1. \A f \in Files : after[f] \in Row \cup {NoRow}
    BY <1>2, <1>5, <1>6 DEF Rows
  <2> QED BY <2>1 DEF Rows
<1>10. \A f \in new : after[f].id # 0 /\ after[f] # NoRow
  <2> HIDE DEF new, after
  <2> QED BY <1>4, <1>6, <1>2, <1>9, RowTyping
<1>11. NoRow.id = 0
  BY DEF NoRow
<1>12. Transacts
  <2>1. row' \in Rows /\ nextId' \in nextId .. MaxIds + 1
    <3> HIDE DEF new, after
    <3> QED BY <1>1, <1>2, <1>3, <1>9, Bounds
  <2>2. ASSUME NEW f \in Files
        PROVE  \/ row'[f] = row[f] \/ row'[f] = NoRow
               \/ row[f] = NoRow /\ row'[f].id \in nextId .. nextId' - 1
    <3> HIDE DEF new, after
    <3> QED BY <1>1, <1>4, <1>5, <1>6
  <2>3. ASSUME NEW f \in Files, NEW g \in Files, row[f] = NoRow, row[g] = NoRow, row'[f] # NoRow,
               row'[f].id = row'[g].id
        PROVE  f = g
    <3> HIDE DEF new, after
    <3>1. f \in new
      BY <1>1, <1>7, <2>3
    <3>2. g \in new
      BY <1>1, <1>7, <1>10, <1>11, <2>3, <3>1
    <3> QED BY <1>1, <1>8, <2>3, <3>1, <3>2
  <2> HIDE DEF new, after
  <2> QED BY <1>1, <2>1, <2>2, <2>3 DEF Transacts
<1>13. Listed(row') \cap Of(s) = found
  <2>1. ASSUME NEW f \in Of(s) PROVE after[f] # NoRow <=> f \in found
    <3>1. f \in Files /\ SystemOf[f] = s
      BY DEF Of
    <3>2. CASE f \in new
      BY <1>6, <1>10, <3>2
    <3>3. CASE f \notin new /\ f \in found
      <4>1. row[f] # NoRow
        BY <3>3
      <4> QED BY <1>5, <3>1, <3>3, <4>1
    <3>4. CASE f \notin found
      <4>1. f \notin new
        BY <3>4
      <4> QED BY <1>5, <3>1, <3>4, <4>1
    <3> QED BY <3>2, <3>3, <3>4
  <2> HIDE DEF new, after
  <2> QED BY <1>1, <2>1 DEF Listed, Of
<1>14. \A f \in Files : SystemOf[f] # s => row'[f] = row[f]
  <2>1. \A f \in new : SystemOf[f] = s
    BY DEF Of
  <2> HIDE DEF new, after
  <2> QED BY <1>1, <1>5, <2>1
<1>15. \A f \in found : row[f] # NoRow => row'[f] = row[f]
  <2>1. \A f \in found : row[f] # NoRow => f \notin new
    OBVIOUS
  <2> HIDE DEF new, after
  <2> QED BY <1>1, <1>2, <1>5, <2>1
<1> QED BY <1>12, <1>13, <1>14, <1>15

\* Deletions are transactions.
LEMMA Deleting ==
  ASSUME TypeOK, NEW gone \in SUBSET Systems, UNCHANGED nextId,
         SetRows([f \in Files |-> IF SystemOf[f] \in gone THEN NoRow ELSE row[f]])
  PROVE  /\ Transacts
         /\ \A f \in Files : row'[f] = IF SystemOf[f] \in gone THEN NoRow ELSE row[f]
<1> DEFINE after == [f \in Files |-> IF SystemOf[f] \in gone THEN NoRow ELSE row[f]]
<1>1. row' = after /\ members' = [k \in Collections |-> members[k] \cap Ids(after)]
  BY DEF SetRows
<1>2. row \in Rows /\ nextId \in 1 .. MaxIds + 1
  BY DEF TypeOK, Rows
<1>3. after \in Rows
  BY <1>2 DEF Rows
<1>4. \A f \in Files : after[f] = row[f] \/ after[f] = NoRow
  OBVIOUS
<1>5. nextId' \in nextId .. MaxIds + 1
  BY <1>2, Bounds
<1>6. \A f \in Files : row[f] = NoRow => after[f] = NoRow
  OBVIOUS
<1> QED BY <1>1, <1>3, <1>4, <1>5, <1>6 DEF Transacts

\* Whatever a transaction does, ids stay of one game and members chosen ones.
LEMMA NamesAfterTransaction ==
  ASSUME TypeOK, NamesInv, Transacts, UNCHANGED <<cols, chosen, cur>>
  PROVE  NamesInv' /\ members' \in [Collections -> SUBSET (1 .. MaxIds)]
<1>1. row \in Rows /\ row' \in Rows /\ nextId \in 1 .. MaxIds + 1 /\ nextId' \in nextId .. MaxIds + 1
  BY DEF TypeOK, Rows, Transacts
<1>2. ASSUME NEW f \in Listed(row')
      PROVE  /\ f \in Files /\ row'[f].id # 0
             /\ \/ f \in Listed(row) /\ row'[f] = row[f]
                \/ row[f] = NoRow /\ row'[f].id \in nextId .. nextId' - 1
  <2>1. f \in Files /\ row'[f] # NoRow
    BY DEF Listed
  <2>2. row'[f].id # 0
    BY <1>1, <2>1, RowTyping
  <2> QED BY <2>1, <2>2 DEF Transacts, Listed
<1>3. \A f \in Listed(row) : f \in Files /\ row[f].id < nextId /\ row[f].id \in Nat /\ row[f] # NoRow
  BY <1>1, RowTyping DEF NamesInv, IdsGiven, Listed
<1>4. UniqueIds'
  <2> SUFFICES ASSUME NEW f \in Listed(row'), NEW g \in Listed(row'), row'[f].id = row'[g].id
               PROVE  f = g
    BY DEF UniqueIds
  <2>1. CASE f \in Listed(row) /\ row'[f] = row[f] /\ g \in Listed(row) /\ row'[g] = row[g]
    BY <2>1 DEF NamesInv, UniqueIds
  <2>2. CASE row[f] = NoRow /\ row[g] = NoRow
    BY <1>2, <2>2 DEF Transacts, Listed
  <2>3. CASE f \in Listed(row) /\ row'[f] = row[f] /\ row[g] = NoRow
    BY <1>1, <1>2, <1>3, <2>3
  <2>4. CASE row[f] = NoRow /\ g \in Listed(row) /\ row'[g] = row[g]
    BY <1>1, <1>2, <1>3, <2>4
  <2> QED BY <1>2, <2>1, <2>2, <2>3, <2>4
<1>5. IdsGiven'
  BY <1>1, <1>2, <1>3 DEF IdsGiven
<1>6. PagesNameTheirGame'
  <2> SUFFICES ASSUME NEW c \in Curators, cur[c].at # "idle"
               PROVE  /\ cur[c].id < nextId'
                      /\ \A g \in Listed(row') : row'[g].id = cur[c].id => g \in cur[c].file
    BY DEF PagesNameTheirGame
  <2>1. cur[c].id < nextId /\ \A g \in Listed(row) : row[g].id = cur[c].id => g \in cur[c].file
    BY DEF NamesInv, PagesNameTheirGame
  <2>2. cur[c].id \in Nat
    BY Bounds DEF TypeOK, Page
  <2> QED BY <1>1, <1>2, <2>1, <2>2
<1>7. ASSUME NEW k \in Collections
      PROVE  members'[k] = members[k] \cap Ids(row') /\ members[k] \subseteq 1 .. MaxIds
  BY DEF Transacts, TypeOK
<1>8. NoStalePointer'
  <2> SUFFICES ASSUME NEW k \in Collections
               PROVE  /\ members'[k] # {} => k \in cols'
                      /\ members'[k] \subseteq Ids(row')
                      /\ \A f \in Listed(row') : row'[f].id \in members'[k] => <<k, f>> \in chosen'
    BY DEF NoStalePointer
  <2>1. /\ members[k] # {} => k \in cols
        /\ members[k] \subseteq Ids(row)
        /\ \A f \in Listed(row) : row[f].id \in members[k] => <<k, f>> \in chosen
    BY DEF NamesInv, NoStalePointer
  <2>2. \A i \in members[k] : i < nextId /\ i \in Nat
    BY <1>3, <2>1 DEF Ids
  <2>3. ASSUME NEW f \in Listed(row'), row'[f].id \in members'[k] PROVE <<k, f>> \in chosen'
    <3>1. row'[f].id \in members[k] /\ row'[f].id < nextId
      BY <1>7, <2>2, <2>3
    <3>2. f \in Listed(row) /\ row'[f] = row[f]
      BY <1>1, <1>2, <3>1
    <3> QED BY <2>1, <3>1, <3>2
  <2> QED BY <1>7, <2>1, <2>3
<1>9. members' \in [Collections -> SUBSET (1 .. MaxIds)]
  BY <1>7 DEF Transacts
<1> QED BY <1>4, <1>5, <1>6, <1>8, <1>9 DEF NamesInv

----------------------------------------------------------------------------
(* Steps that leave the rows, or their ids, alone *)

\* Marks in the rows change neither what is listed nor its ids.
Marks == row' \in Rows /\ \A f \in Files : row'[f].id = row[f].id

LEMMA MarksKeepIds ==
  ASSUME TypeOK, Marks
  PROVE  Listed(row') = Listed(row) /\ Ids(row') = Ids(row)
<1>1. row \in Rows /\ row' \in Rows
  BY DEF TypeOK, Rows, Marks
<1>2. \A f \in Files : f \in Listed(row') <=> f \in Listed(row)
  BY <1>1, RowTyping DEF Marks
<1>3. Listed(row') = Listed(row)
  BY <1>2 DEF Listed
<1>4. \A f \in Listed(row) : f \in Files /\ row'[f].id = row[f].id
  BY DEF Marks, Listed
<1> QED BY <1>3, <1>4 DEF Ids

\* A page stays about its game, or is closed.
NoNewPage ==
  \A c \in Curators :
    cur'[c].at # "idle" => cur[c].at # "idle" /\ cur'[c].id = cur[c].id /\ cur'[c].file = cur[c].file

LEMMA NamesAfterMarks ==
  ASSUME TypeOK, NamesInv, Marks, UNCHANGED <<nextId, members, cols, chosen>>, NoNewPage
  PROVE  NamesInv'
<1>1. Listed(row') = Listed(row) /\ Ids(row') = Ids(row)
  BY MarksKeepIds
<1>2. \A f \in Listed(row) : row'[f].id = row[f].id
  BY DEF Marks, Listed
<1>3. UniqueIds' /\ IdsGiven'
  BY <1>1, <1>2 DEF NamesInv, UniqueIds, IdsGiven
<1>4. PagesNameTheirGame'
  BY <1>1, <1>2 DEF NamesInv, PagesNameTheirGame, NoNewPage
<1>5. NoStalePointer'
  BY <1>1, <1>2 DEF NamesInv, NoStalePointer
<1> QED BY <1>3, <1>4, <1>5 DEF NamesInv

\* Rows that are not written are kept, marks and all.
LEMMA UnchangedRowsAreMarked == ASSUME TypeOK, UNCHANGED row PROVE Marks
BY DEF TypeOK, Marks, Rows

LEMMA ScanAfterMarks ==
  ASSUME TypeOK, ScanInv, Marks, UNCHANGED <<disk, cat, scan, touched>>
  PROVE  ScanInv'
<1>1. Listed(row') = Listed(row)
  BY MarksKeepIds
<1> QED BY <1>1 DEF ScanInv, ScanInOrder, HandsFresh, InHand, CatalogueFresh, Reconciled,
           DroppedGone, Settled, Of

\* Its type, component by component.
LEMMA ScanTyping ==
  ASSUME TypeOK
  PROVE  /\ scan \in Scan /\ scan.cat \subseteq Catalogued /\ scan.todo \subseteq Systems
         /\ scan.sys \subseteq Systems /\ scan.listed \subseteq Files /\ scan.found \subseteq Files
         /\ scan.done \subseteq Systems
         /\ scan.at \in {"idle", "load", "upsert", "next", "stat", "persist", "hash", "exo"}
BY DEF TypeOK, Scan

LEMMA NoScanTyping ==
  /\ NoScan \in Scan /\ NoScan.at = "idle" /\ NoScan.done = {}
  /\ [NoScan EXCEPT !.at = "load"] \in Scan
  /\ [NoScan EXCEPT !.at = "load"].at = "load" /\ [NoScan EXCEPT !.at = "load"].done = {}
BY DEF NoScan, Scan

----------------------------------------------------------------------------
(* The initial state *)

LEMMA Initially == Init => LibraryInv
<1> SUFFICES ASSUME Init PROVE LibraryInv
  OBVIOUS
<1> DEFINE id(f) == 1 + Nth(AtFirst, f)
<1>1. /\ disk = AtFirst /\ nextId = 1 + Cardinality(AtFirst)
      /\ row = [f \in Files |-> IF f \in AtFirst THEN NewRow(id(f)) ELSE NoRow]
  BY DEF Init
<1>2. \A f \in AtFirst : Nth(AtFirst, f) \in Nat /\ Nth(AtFirst, f) < Cardinality(AtFirst)
  BY Ranks, Bounds
<1>3. nextId \in 1 .. MaxIds + 1
  BY <1>1, Bounds
<1>4. ASSUME NEW f \in AtFirst
      PROVE  id(f) \in 1 .. MaxIds /\ id(f) < nextId /\ NewRow(id(f)) \in Row /\ NewRow(id(f)).id = id(f)
  <2>1. id(f) \in 1 .. MaxIds /\ id(f) < nextId
    BY <1>1, <1>2, <1>4, Bounds
  <2> HIDE DEF id
  <2> QED BY <2>1, NewRowTyping
<1>5. \A f, g \in AtFirst : id(f) = id(g) => f = g
  <2> SUFFICES ASSUME NEW f \in AtFirst, NEW g \in AtFirst, id(f) = id(g) PROVE f = g
    OBVIOUS
  <2>1. Nth(AtFirst, f) = Nth(AtFirst, g)
    BY <1>2
  <2> QED BY <2>1, RanksDiffer, Bounds
<1> HIDE DEF id
<1>6. row \in Rows
  BY <1>1, <1>4 DEF Rows
<1>7. Listed(row) = AtFirst
  <2>1. \A f \in Files : f \in Listed(row) <=> row[f].id # 0
    BY <1>6, RowTyping
  <2>2. \A f \in AtFirst : row[f].id # 0
    BY <1>1, <1>4, Bounds
  <2>3. \A f \in Files \ AtFirst : row[f].id = 0
    BY <1>1 DEF NoRow
  <2> QED BY <2>1, <2>2, <2>3, Bounds DEF Listed
<1>8. \A f \in AtFirst : row[f].id = id(f)
  BY <1>1, <1>4, Bounds
<1>9. scan = NoScan /\ scan \in Scan /\ scan.at = "idle" /\ scan.done = {}
  BY NoScanTyping DEF Init
<1>10. /\ cur \in [Curators -> Page] /\ \A c \in Curators : cur[c].at = "idle"
  BY Bounds DEF Init, NoPage, Page
<1>11. TypeOK
  <2>1. disk \subseteq Files /\ cat \subseteq Catalogued /\ row \in [Files -> Row \cup {NoRow}]
    BY <1>1, <1>6, Bounds DEF Init, Rows
  <2>2. members \in [Collections -> SUBSET (1 .. MaxIds)] /\ cols \subseteq Collections
    BY DEF Init
  <2>3. touched \subseteq Files /\ chosen \subseteq Collections \X Files
    BY DEF Init
  <2>4. scans \in 0 .. MaxScans /\ edits \in 0 .. MaxEdits /\ changes \in 0 .. MaxChanges
    BY Bounds DEF Init
  <2> QED BY <1>3, <1>9, <1>10, <2>1, <2>2, <2>3, <2>4 DEF TypeOK
<1>12. UniqueIds /\ IdsGiven
  BY <1>4, <1>5, <1>7, <1>8 DEF UniqueIds, IdsGiven
<1>13. PagesNameTheirGame
  BY <1>10 DEF PagesNameTheirGame
<1>14. NoStalePointer
  BY DEF Init, NoStalePointer
<1>15. ScanInv
  BY <1>9 DEF ScanInv, ScanInOrder, HandsFresh, CatalogueFresh, Reconciled, DroppedGone, Working
<1> QED BY <1>11, <1>12, <1>13, <1>14, <1>15 DEF LibraryInv, NamesInv

----------------------------------------------------------------------------
(* The scan *)

\* A step of the scan that only moves it on keeps types and names.
LEMMA OnlyTheScan ==
  ASSUME TypeOK, NamesInv, scan' \in Scan, UNCHANGED <<disk, cat, store, cur, chosen, edits, changes>>,
         touched' \subseteq Files, scans' \in 0 .. MaxScans
  PROVE  TypeOK' /\ NamesInv'
<1>1. TypeOK'
  BY DEF TypeOK, store
<1>2. Marks /\ NoNewPage
  BY UnchangedRowsAreMarked DEF NoNewPage, store
<1> QED BY <1>1, <1>2, NamesAfterMarks DEF store

LEMMA ScanStartKeeps == LibraryInv /\ ScanStart => LibraryInv'
<1> SUFFICES ASSUME LibraryInv, ScanStart PROVE LibraryInv'
  OBVIOUS
<1> USE DEF LibraryInv
<1>1. scan' \in Scan /\ scan'.at = "load" /\ scan'.done = {}
  BY NoScanTyping DEF ScanStart
<1>2. scans' \in 0 .. MaxScans /\ touched' \subseteq Files
  BY Bounds DEF TypeOK, ScanStart
<1>3. TypeOK' /\ NamesInv'
  BY <1>1, <1>2, OnlyTheScan DEF ScanStart
<1>4. ScanInv'
  BY <1>1 DEF ScanInv, ScanInOrder, HandsFresh, CatalogueFresh, Reconciled, DroppedGone, Working
<1> QED BY <1>3, <1>4

LEMMA LoadCatalogueKeeps == LibraryInv /\ LoadCatalogue => LibraryInv'
<1> SUFFICES ASSUME LibraryInv, LoadCatalogue PROVE LibraryInv'
  OBVIOUS
<1> USE DEF LibraryInv
<1>1. \/ scan' = NoScan
      \/ scan' \in Scan /\ scan'.at = "upsert" /\ scan'.done = {} /\ scan'.cat = cat
  <2>1. scan \in Scan /\ scan.done = {} /\ cat \subseteq Catalogued
    BY ScanTyping DEF LoadCatalogue, TypeOK, ScanInv, ScanInOrder
  <2>2. CASE scan' = [scan EXCEPT !.at = "upsert", !.cat = cat]
    BY <2>1, <2>2 DEF Scan
  <2> QED BY <2>2 DEF LoadCatalogue
<1>2. scan' \in Scan /\ scan'.at \in {"idle", "upsert"} /\ scan'.done = {}
      /\ (scan'.at = "upsert" => scan'.cat = cat)
  BY <1>1, NoScanTyping
<1>3. TypeOK' /\ NamesInv'
  <2>1. scans' \in 0 .. MaxScans /\ touched' \subseteq Files
    BY DEF TypeOK, LoadCatalogue
  <2> QED BY <1>2, <2>1, OnlyTheScan DEF LoadCatalogue
<1>4. ScanInv'
  BY <1>2 DEF ScanInv, ScanInOrder, HandsFresh, CatalogueFresh, Reconciled, DroppedGone, Working,
              LoadCatalogue
<1> QED BY <1>3, <1>4

LEMMA UpsertSystemsKeeps == LibraryInv /\ UpsertSystems => LibraryInv'
<1> SUFFICES ASSUME LibraryInv, UpsertSystems PROVE LibraryInv'
  OBVIOUS
<1> USE DEF LibraryInv
<1> DEFINE gone == Dropped(scan.cat)
<1>1. gone \subseteq Systems /\ UNCHANGED nextId
      /\ SetRows([f \in Files |-> IF SystemOf[f] \in gone THEN NoRow ELSE row[f]])
  BY DEF UpsertSystems, Dropped, Systems
<1>2. Transacts /\ \A f \in Files : row'[f] = IF SystemOf[f] \in gone THEN NoRow ELSE row[f]
  <2> HIDE DEF gone
  <2> QED BY <1>1, Deleting
<1>3. NamesInv' /\ members' \in [Collections -> SUBSET (1 .. MaxIds)]
  BY <1>2, NamesAfterTransaction DEF UpsertSystems
<1>4. scan' \in Scan /\ scan'.at = "next" /\ scan'.todo = scan.cat /\ scan'.cat = scan.cat
      /\ scan'.done = {}
  <2>1. scan \in Scan /\ scan.done = {} /\ scan.cat \subseteq Systems
    BY ScanTyping DEF UpsertSystems, ScanInv, ScanInOrder, Systems
  <2> QED BY <2>1 DEF UpsertSystems, Scan
<1>5. TypeOK'
  BY <1>2, <1>3, <1>4 DEF TypeOK, UpsertSystems, Transacts, Rows
<1>6. DroppedGone'
  <2>1. \A s \in Catalogued \ scan.cat : \A f \in Of(s) : f \in Files /\ row'[f] = NoRow
    BY <1>2 DEF Dropped, Of
  <2> QED BY <1>4, <2>1 DEF DroppedGone, Listed
<1>7. ScanInOrder' /\ HandsFresh' /\ CatalogueFresh' /\ Reconciled'
  BY <1>4 DEF ScanInOrder, HandsFresh, CatalogueFresh, Reconciled, Working
<1> QED BY <1>3, <1>5, <1>6, <1>7 DEF ScanInv

\* What the scan knows of the rows stays, when it only moves on.
LEMMA RowsStayReconciled ==
  ASSUME ScanInv, UNCHANGED <<disk, row, touched>>, scan'.done \subseteq scan.done, scan'.cat = scan.cat,
         scan.at \in Working \cup {"exo"}
  PROVE  Reconciled' /\ DroppedGone'
BY DEF ScanInv, Reconciled, DroppedGone, Settled, Of

LEMMA ListDirKeeps == ASSUME NEW s \in Systems PROVE LibraryInv /\ ListDir(s) => LibraryInv'
<1> SUFFICES ASSUME LibraryInv, ListDir(s) PROVE LibraryInv'
  OBVIOUS
<1> USE DEF LibraryInv
<1>1. /\ scan \in Scan /\ scan.at = "next" /\ scan.todo \subseteq scan.cat /\ s \in scan.todo
      /\ UNCHANGED <<row, disk, touched>>
  BY ScanTyping DEF ListDir, ScanInv, ScanInOrder, Working, store
<1>2. disk \cap Of(s) \subseteq Files
  BY DEF Of
<1>3. /\ scan' \in Scan /\ scan'.cat = scan.cat /\ scan'.done = scan.done
      /\ scan'.todo = scan.todo \ {s}
      /\ \/ scan'.at = "next"
         \/ scan'.at = "stat" /\ scan'.sys = {s} /\ scan'.listed = disk \cap Of(s)
  <2>1. CASE scan' = [scan EXCEPT !.todo = @ \ {s}]
    BY <1>1, <2>1 DEF Scan
  <2>2. CASE scan' = [scan EXCEPT !.at = "stat", !.sys = {s}, !.todo = @ \ {s}, !.listed = disk \cap Of(s)]
    BY <1>1, <1>2, <2>2 DEF Scan
  <2> QED BY <2>1, <2>2 DEF ListDir
<1>4. TypeOK' /\ NamesInv'
  <2>1. scans' \in 0 .. MaxScans /\ touched' \subseteq Files
    BY DEF TypeOK, ListDir
  <2> QED BY <1>3, <2>1, OnlyTheScan DEF ListDir
<1>5. ScanInOrder' /\ CatalogueFresh'
  BY <1>1, <1>3 DEF ScanInOrder, CatalogueFresh, Working
<1>6. HandsFresh'
  BY <1>1, <1>3 DEF HandsFresh, InHand, Settled, Of
<1>7. Reconciled' /\ DroppedGone'
  BY <1>1, <1>3, RowsStayReconciled DEF Working
<1> QED BY <1>4, <1>5, <1>6, <1>7 DEF ScanInv

LEMMA StatEntriesKeeps == LibraryInv /\ StatEntries => LibraryInv'
<1> SUFFICES ASSUME LibraryInv, StatEntries PROVE LibraryInv'
  OBVIOUS
<1> USE DEF LibraryInv
<1> DEFINE fs == IF scan.listed \subseteq disk THEN scan.listed ELSE {}
<1>1. /\ scan \in Scan /\ scan.at = "stat" /\ scan.todo \subseteq scan.cat /\ scan.sys \subseteq scan.cat
      /\ InHand(scan.listed) /\ UNCHANGED <<row, disk, touched>> /\ fs \subseteq Files
  BY ScanTyping DEF StatEntries, ScanInv, ScanInOrder, HandsFresh, Working, store
<1>2. /\ scan' \in Scan /\ scan'.cat = scan.cat /\ scan'.done = scan.done /\ scan'.sys = scan.sys
      /\ scan'.todo = scan.todo /\ scan'.at = "persist" /\ scan'.found = fs
  <2>1. scan' = [scan EXCEPT !.at = "persist", !.found = fs]
    BY DEF StatEntries
  <2> HIDE DEF fs
  <2> QED BY <1>1, <2>1 DEF Scan
<1>3. InHand(fs)
  BY <1>1 DEF InHand
<1>4. TypeOK' /\ NamesInv'
  <2>1. scans' \in 0 .. MaxScans /\ touched' \subseteq Files
    BY DEF TypeOK, StatEntries
  <2> HIDE DEF fs
  <2> QED BY <1>2, <2>1, OnlyTheScan DEF StatEntries
<1> HIDE DEF fs
<1>5. ScanInOrder' /\ CatalogueFresh'
  BY <1>1, <1>2 DEF ScanInOrder, CatalogueFresh, Working
<1>6. HandsFresh'
  BY <1>1, <1>2, <1>3 DEF HandsFresh, InHand, Settled, Of
<1>7. Reconciled' /\ DroppedGone'
  BY <1>1, <1>2, RowsStayReconciled DEF Working
<1> QED BY <1>4, <1>5, <1>6, <1>7 DEF ScanInv

\* A system is reconciled, and others are left as they are.
LEMMA SystemReconciled ==
  ASSUME TypeOK, ScanInv, NEW s \in Systems, NEW fs \in SUBSET Of(s),
         Settled(s) => fs = disk \cap Of(s), s \in scan.cat \cup Exo,
         ReplaceSystemGames(s, fs), UNCHANGED <<disk, touched>>,
         scan.at \in Working \cup {"exo"}, scan'.cat = scan.cat, scan'.done = scan.done \cup {s}
  PROVE  Reconciled' /\ DroppedGone'
<1>1. /\ Listed(row') \cap Of(s) = fs
      /\ \A f \in Files : SystemOf[f] # s => row'[f] = row[f]
  BY Replacing
<1>2. \A t \in Systems : t # s => Listed(row') \cap Of(t) = Listed(row) \cap Of(t)
  BY <1>1 DEF Listed, Of
<1>3. scan.done \subseteq Systems /\ Catalogued \subseteq Systems /\ Catalogued \cap Exo = {}
  BY ScanTyping, Bounds DEF Systems
<1>4. \A t \in Systems : Settled(t)' = Settled(t)
  BY DEF Settled, Of
<1>5. Reconciled'
  <2> SUFFICES ASSUME NEW t \in scan.done \cup {s}, Settled(t)
               PROVE  Listed(row') \cap Of(t) = disk' \cap Of(t)
    BY <1>3, <1>4 DEF Reconciled, Of
  <2>1. CASE t = s
    BY <1>1, <2>1
  <2>2. CASE t # s
    BY <1>2, <1>3, <2>2 DEF ScanInv, Reconciled
  <2> QED BY <2>1, <2>2
<1>6. DroppedGone'
  <2> SUFFICES ASSUME NEW t \in Catalogued \ scan.cat PROVE Listed(row') \cap Of(t) = {}
    BY DEF DroppedGone, Of
  <2>1. t # s
    BY <1>3
  <2> QED BY <1>2, <1>3, <2>1 DEF ScanInv, DroppedGone
<1> QED BY <1>5, <1>6

LEMMA PersistKeeps == ASSUME NEW s \in Systems PROVE LibraryInv /\ Persist(s) => LibraryInv'
<1> SUFFICES ASSUME LibraryInv, Persist(s) PROVE LibraryInv'
  OBVIOUS
<1> USE DEF LibraryInv
<1>1. /\ scan \in Scan /\ scan.at = "persist" /\ scan.sys = {s} /\ s \in scan.cat
      /\ scan.todo \subseteq scan.cat /\ InHand(scan.found) /\ UNCHANGED <<disk, touched>>
      /\ scan.done \subseteq Systems
  BY ScanTyping DEF Persist, ScanInv, ScanInOrder, HandsFresh, Working
<1>2. CASE scan' = [scan EXCEPT !.at = "next"] /\ UNCHANGED <<row, nextId, members>>
  <2>1. /\ scan' \in Scan /\ scan'.at = "next" /\ scan'.cat = scan.cat /\ scan'.todo = scan.todo
        /\ scan'.done = scan.done
    BY <1>1, <1>2 DEF Scan
  <2>2. TypeOK' /\ NamesInv'
    <3>1. scans' \in 0 .. MaxScans /\ touched' \subseteq Files
      BY DEF TypeOK, Persist
    <3> QED BY <1>2, <2>1, <3>1, OnlyTheScan DEF Persist, store
  <2>3. ScanInOrder' /\ CatalogueFresh' /\ HandsFresh'
    BY <1>1, <2>1 DEF ScanInOrder, CatalogueFresh, HandsFresh, Working
  <2>4. Reconciled' /\ DroppedGone'
    BY <1>1, <1>2, <2>1, RowsStayReconciled DEF Working
  <2> QED BY <2>2, <2>3, <2>4 DEF ScanInv
<1>3. CASE /\ ReplaceSystemGames(s, scan.found)
           /\ scan' = [scan EXCEPT !.at = IF scan.found = {} THEN "next" ELSE "hash",
                                   !.done = @ \cup {s}]
  <2>1. /\ scan' \in Scan /\ scan'.at \in {"next", "hash"} /\ scan'.cat = scan.cat
        /\ scan'.todo = scan.todo /\ scan'.sys = scan.sys /\ scan'.done = scan.done \cup {s}
    <3> DEFINE to == IF scan.found = {} THEN "next" ELSE "hash"
    <3>1. to \in {"next", "hash"} /\ scan' = [scan EXCEPT !.at = to, !.done = @ \cup {s}]
      BY <1>3
    <3> HIDE DEF to
    <3> QED BY <1>1, <3>1 DEF Scan
  <2>2. scan.found \subseteq Of(s) /\ (Settled(s) => scan.found = disk \cap Of(s))
    BY <1>1 DEF InHand
  <2>3. Transacts
    BY <1>3, <2>2, Replacing
  <2>4. NamesInv' /\ members' \in [Collections -> SUBSET (1 .. MaxIds)]
    BY <2>3, NamesAfterTransaction DEF Persist
  <2>5. TypeOK'
    <3>1. row' \in [Files -> Row \cup {NoRow}] /\ nextId' \in 1 .. MaxIds + 1
      BY <2>3 DEF TypeOK, Transacts, Rows
    <3> QED BY <2>1, <2>4, <3>1 DEF TypeOK, Persist
  <2>6. ScanInOrder' /\ CatalogueFresh' /\ HandsFresh'
    BY <1>1, <2>1 DEF ScanInOrder, CatalogueFresh, HandsFresh, Working
  <2>7. Reconciled' /\ DroppedGone'
    BY <1>1, <1>3, <2>1, <2>2, SystemReconciled DEF Working
  <2> QED BY <2>4, <2>5, <2>6, <2>7 DEF ScanInv
<1> QED BY <1>2, <1>3 DEF Persist

LEMMA HashBatchKeeps ==
  ASSUME NEW s \in Systems, NEW batch \in SUBSET Of(s)
  PROVE  LibraryInv /\ HashBatch(s, batch) => LibraryInv'
<1> SUFFICES ASSUME LibraryInv, HashBatch(s, batch) PROVE LibraryInv'
  OBVIOUS
<1> USE DEF LibraryInv
<1>1. /\ scan \in Scan /\ scan.at = "hash" /\ scan.todo \subseteq scan.cat /\ row \in Rows
      /\ UNCHANGED <<disk, cat, touched>>
  BY ScanTyping DEF HashBatch, ScanInv, ScanInOrder, Working, TypeOK, Rows
<1>2. Marks
  <2>1. ASSUME NEW f \in Files
        PROVE  row'[f] \in Row \cup {NoRow} /\ row'[f].id = row[f].id
    <3>1. CASE f \in batch
      <4>1. row[f] \in Row
        BY <1>1, <3>1 DEF HashBatch, Rows
      <4>2. row'[f] = [row[f] EXCEPT !.sha1 = TRUE]
        BY <3>1 DEF HashBatch
      <4> QED BY <4>1, <4>2 DEF Row
    <3>2. CASE f \notin batch
      <4>1. row'[f] = row[f]
        BY <3>2 DEF HashBatch
      <4> QED BY <1>1, <4>1 DEF Rows
    <3> QED BY <3>1, <3>2
  <2>2. row' \in [Files -> Row \cup {NoRow}]
    BY <2>1 DEF HashBatch
  <2> QED BY <2>1, <2>2 DEF Marks, Rows
<1>3. /\ scan' \in Scan /\ scan'.at \in {"next", "hash"} /\ scan'.cat = scan.cat
      /\ scan'.todo = scan.todo /\ scan'.sys = scan.sys /\ scan'.done = scan.done
  <2>1. CASE scan' = [scan EXCEPT !.at = "next"]
    BY <1>1, <2>1 DEF Scan
  <2> QED BY <1>1, <2>1 DEF HashBatch
<1>4. NamesInv'
  BY <1>2, NamesAfterMarks DEF HashBatch, NoNewPage
<1>5. TypeOK'
  BY <1>2, <1>3 DEF TypeOK, HashBatch, Marks, Rows
<1>6. Listed(row') = Listed(row)
  BY <1>2, MarksKeepIds
<1>7. ScanInOrder' /\ CatalogueFresh' /\ HandsFresh'
  BY <1>1, <1>3 DEF ScanInv, ScanInOrder, CatalogueFresh, HandsFresh, Working
<1>8. Reconciled' /\ DroppedGone'
  BY <1>1, <1>3, <1>6 DEF ScanInv, Reconciled, DroppedGone, Settled, Of, Working
<1> QED BY <1>4, <1>5, <1>7, <1>8 DEF ScanInv

LEMMA ScanExoKeeps == LibraryInv /\ ScanExo => LibraryInv'
<1> SUFFICES ASSUME LibraryInv, ScanExo PROVE LibraryInv'
  OBVIOUS
<1> USE DEF LibraryInv
<1>1. scan \in Scan /\ scan.at = "next" /\ UNCHANGED <<row, disk, touched>>
  BY ScanTyping DEF ScanExo, store
<1>2. /\ scan' \in Scan /\ scan'.at = "exo" /\ scan'.cat = scan.cat /\ scan'.todo = Exo
      /\ scan'.done = scan.done
  BY <1>1 DEF ScanExo, Scan, Systems
<1>3. TypeOK' /\ NamesInv'
  <2>1. scans' \in 0 .. MaxScans /\ touched' \subseteq Files
    BY DEF TypeOK, ScanExo
  <2> QED BY <1>2, <2>1, OnlyTheScan DEF ScanExo
<1>4. ScanInOrder' /\ CatalogueFresh' /\ HandsFresh'
  BY <1>2 DEF ScanInOrder, CatalogueFresh, HandsFresh, Working
<1>5. Reconciled' /\ DroppedGone'
  BY <1>1, <1>2, RowsStayReconciled DEF Working
<1> QED BY <1>3, <1>4, <1>5 DEF ScanInv

LEMMA ExoImportKeeps == ASSUME NEW s \in Systems PROVE LibraryInv /\ ExoImport(s) => LibraryInv'
<1> SUFFICES ASSUME LibraryInv, ExoImport(s) PROVE LibraryInv'
  OBVIOUS
<1> USE DEF LibraryInv
<1>1. /\ scan \in Scan /\ scan.at = "exo" /\ s \in scan.todo /\ scan.todo \subseteq Exo
      /\ UNCHANGED <<disk, touched>> /\ scan.done \subseteq Systems
  BY ScanTyping DEF ExoImport, ScanInv, ScanInOrder
<1>2. CASE scan' = [scan EXCEPT !.todo = @ \ {s}] /\ UNCHANGED <<row, nextId, members>>
  <2>1. /\ scan' \in Scan /\ scan'.at = "exo" /\ scan'.cat = scan.cat
        /\ scan'.todo = scan.todo \ {s} /\ scan'.done = scan.done
    BY <1>1, <1>2 DEF Scan
  <2>2. TypeOK' /\ NamesInv'
    <3>1. scans' \in 0 .. MaxScans /\ touched' \subseteq Files
      BY DEF TypeOK, ExoImport
    <3> QED BY <1>2, <2>1, <3>1, OnlyTheScan DEF ExoImport, store
  <2>3. ScanInOrder' /\ CatalogueFresh' /\ HandsFresh'
    BY <1>1, <2>1 DEF ScanInOrder, CatalogueFresh, HandsFresh, Working
  <2>4. Reconciled' /\ DroppedGone'
    BY <1>1, <1>2, <2>1, RowsStayReconciled DEF Working
  <2> QED BY <2>2, <2>3, <2>4 DEF ScanInv
<1>3. CASE /\ ReplaceSystemGames(s, disk \cap Of(s))
           /\ scan' = [scan EXCEPT !.todo = @ \ {s}, !.done = @ \cup {s}]
  <2>1. /\ scan' \in Scan /\ scan'.at = "exo" /\ scan'.cat = scan.cat
        /\ scan'.todo = scan.todo \ {s} /\ scan'.done = scan.done \cup {s}
    BY <1>1, <1>3 DEF Scan
  <2>2. Transacts
    BY <1>3, Replacing
  <2>3. NamesInv' /\ members' \in [Collections -> SUBSET (1 .. MaxIds)]
    BY <2>2, NamesAfterTransaction DEF ExoImport
  <2>4. TypeOK'
    <3>1. row' \in [Files -> Row \cup {NoRow}] /\ nextId' \in 1 .. MaxIds + 1
      BY <2>2 DEF TypeOK, Transacts, Rows
    <3> QED BY <2>1, <2>3, <3>1 DEF TypeOK, ExoImport
  <2>5. ScanInOrder' /\ CatalogueFresh' /\ HandsFresh'
    BY <1>1, <2>1 DEF ScanInOrder, CatalogueFresh, HandsFresh, Working
  <2>6. Reconciled' /\ DroppedGone'
    BY <1>1, <1>3, <2>1, SystemReconciled
  <2> QED BY <2>3, <2>4, <2>5, <2>6 DEF ScanInv
<1> QED BY <1>2, <1>3 DEF ExoImport

LEMMA ScanFinishKeeps == LibraryInv /\ ScanFinish => LibraryInv'
<1> SUFFICES ASSUME LibraryInv, ScanFinish PROVE LibraryInv'
  OBVIOUS
<1> USE DEF LibraryInv
<1>1. scan' \in Scan /\ scan'.at = "idle" /\ scan'.done = {}
  BY NoScanTyping DEF ScanFinish
<1>2. TypeOK' /\ NamesInv'
  <2>1. scans' \in 0 .. MaxScans /\ touched' \subseteq Files
    BY DEF TypeOK, ScanFinish
  <2> QED BY <1>1, <2>1, OnlyTheScan DEF ScanFinish
<1>3. ScanInv'
  BY <1>1 DEF ScanInv, ScanInOrder, HandsFresh, CatalogueFresh, Reconciled, DroppedGone, Working
<1> QED BY <1>2, <1>3

LEMMA ScanStepKeeps == LibraryInv /\ ScanStep => LibraryInv'
BY ScanStartKeeps, LoadCatalogueKeeps, UpsertSystemsKeeps, ListDirKeeps, StatEntriesKeeps,
   PersistKeeps, HashBatchKeeps, ScanExoKeeps, ExoImportKeeps, ScanFinishKeeps DEF ScanStep

----------------------------------------------------------------------------
(* The other jobs and the curators *)

LEMMA MarksKeep ==
  ASSUME LibraryInv, Marks, UNCHANGED <<disk, cat, nextId, members, cols, scan, touched, chosen>>,
         cur' \in [Curators -> Page], NoNewPage,
         scans' \in 0 .. MaxScans, edits' \in 0 .. MaxEdits, changes' \in 0 .. MaxChanges
  PROVE  LibraryInv'
<1> USE DEF LibraryInv
<1>1. NamesInv' /\ ScanInv'
  BY NamesAfterMarks, ScanAfterMarks
<1>2. TypeOK'
  BY DEF TypeOK, Marks, Rows
<1> QED BY <1>1, <1>2

LEMMA EditCounted == ASSUME TypeOK, edits < MaxEdits PROVE edits + 1 \in 0 .. MaxEdits
BY Bounds DEF TypeOK

LEMMA IngestVerifyKeeps ==
  ASSUME NEW s \in Systems, NEW found \in SUBSET Of(s)
  PROVE  LibraryInv /\ IngestVerify(s, found) => LibraryInv'
<1> SUFFICES ASSUME LibraryInv, IngestVerify(s, found) PROVE LibraryInv'
  OBVIOUS
<1> USE DEF LibraryInv
<1>1. ASSUME NEW f \in Files
      PROVE  row'[f] \in Row \cup {NoRow} /\ row'[f].id = row[f].id
  <2>1. CASE SystemOf[f] = s /\ row[f] # NoRow
    <3> DEFINE v == IF f \in found THEN "verified" ELSE "unmatched"
               b == row[f].sha1 \/ f \in found
    <3>1. row'[f] = [row[f] EXCEPT !.verify = v, !.sha1 = b]
      BY <2>1 DEF IngestVerify
    <3>2. row[f] \in Row /\ v \in {"verified", "unmatched"}
      BY <2>1 DEF TypeOK
    <3>3. b \in BOOLEAN
      OBVIOUS
    <3> HIDE DEF v, b
    <3> QED BY <3>1, <3>2, <3>3 DEF Row
  <2>2. CASE ~(SystemOf[f] = s /\ row[f] # NoRow)
    <3>1. row'[f] = row[f]
      BY <2>2 DEF IngestVerify
    <3> QED BY <3>1 DEF TypeOK
  <2> QED BY <2>1, <2>2
<1>2. Marks
  BY <1>1 DEF Marks, Rows, IngestVerify
<1> QED BY <1>2, MarksKeep, EditCounted DEF IngestVerify, NoNewPage, TypeOK

LEMMA ApplyCacheKeeps ==
  ASSUME NEW s \in Systems, NEW covered \in SUBSET Of(s)
  PROVE  LibraryInv /\ ApplyCache(s, covered) => LibraryInv'
<1> SUFFICES ASSUME LibraryInv, ApplyCache(s, covered) PROVE LibraryInv'
  OBVIOUS
<1> USE DEF LibraryInv
<1>1. ASSUME NEW f \in Files
      PROVE  row'[f] \in Row \cup {NoRow} /\ row'[f].id = row[f].id
  <2>1. CASE SystemOf[f] = s /\ row[f] # NoRow
    <3> DEFINE b == f \in covered \cap disk
    <3>1. row'[f] = [row[f] EXCEPT !.cover = b]
      BY <2>1 DEF ApplyCache
    <3>2. row[f] \in Row
      BY <2>1 DEF TypeOK
    <3>3. b \in BOOLEAN
      OBVIOUS
    <3> HIDE DEF b
    <3> QED BY <3>1, <3>2, <3>3 DEF Row
  <2>2. CASE ~(SystemOf[f] = s /\ row[f] # NoRow)
    <3>1. row'[f] = row[f]
      BY <2>2 DEF ApplyCache
    <3> QED BY <3>1 DEF TypeOK
  <2> QED BY <2>1, <2>2
<1>2. Marks
  BY <1>1 DEF Marks, Rows, ApplyCache
<1> QED BY <1>2, MarksKeep, EditCounted DEF ApplyCache, NoNewPage, TypeOK

LEMMA UnhideAllKeeps == ASSUME NEW s \in Systems PROVE LibraryInv /\ UnhideAll(s) => LibraryInv'
<1> SUFFICES ASSUME LibraryInv, UnhideAll(s) PROVE LibraryInv'
  OBVIOUS
<1> USE DEF LibraryInv
<1>1. ASSUME NEW f \in Files
      PROVE  row'[f] \in Row \cup {NoRow} /\ row'[f].id = row[f].id
  <2>1. CASE SystemOf[f] = s /\ row[f] # NoRow
    <3>1. row'[f] = [row[f] EXCEPT !.hidden = FALSE]
      BY <2>1 DEF UnhideAll
    <3>2. row[f] \in Row
      BY <2>1 DEF TypeOK
    <3> QED BY <3>1, <3>2 DEF Row
  <2>2. CASE ~(SystemOf[f] = s /\ row[f] # NoRow)
    <3>1. row'[f] = row[f]
      BY <2>2 DEF UnhideAll
    <3> QED BY <3>1 DEF TypeOK
  <2> QED BY <2>1, <2>2
<1>2. Marks
  BY <1>1 DEF Marks, Rows, UnhideAll
<1> QED BY <1>2, MarksKeep, EditCounted DEF UnhideAll, NoNewPage, TypeOK

LEMMA NoPageTyping == NoPage \in Page /\ NoPage.at = "idle"
BY Bounds DEF NoPage, Page

LEMMA PageTyping ==
  ASSUME TypeOK, NEW c \in Curators
  PROVE  /\ cur[c] \in Page /\ cur[c].id \in 0 .. MaxIds /\ cur[c].file \subseteq Files
         /\ cur[c].hidden \in BOOLEAN
BY DEF TypeOK, Page

\* A curator's page is closed.
LEMMA PageClosed ==
  ASSUME TypeOK, NEW c \in Curators, cur' = [cur EXCEPT ![c] = NoPage]
  PROVE  cur' \in [Curators -> Page] /\ NoNewPage
<1>1. \A d \in Curators : cur'[d] = IF d = c THEN NoPage ELSE cur[d]
  BY DEF TypeOK
<1> QED BY <1>1, NoPageTyping DEF TypeOK, NoNewPage

LEMMA ToggleWriteKeeps == ASSUME NEW c \in Curators PROVE LibraryInv /\ ToggleWrite(c) => LibraryInv'
<1> SUFFICES ASSUME LibraryInv, ToggleWrite(c) PROVE LibraryInv'
  OBVIOUS
<1> USE DEF LibraryInv
<1>1. ASSUME NEW f \in Files
      PROVE  row'[f] \in Row \cup {NoRow} /\ row'[f].id = row[f].id
  <2>1. CASE f \in cur[c].file /\ row[f] # NoRow
    <3> DEFINE b == ~cur[c].hidden
    <3>1. row'[f] = [row[f] EXCEPT !.hidden = b]
      BY <2>1 DEF ToggleWrite
    <3>2. row[f] \in Row
      BY <2>1 DEF TypeOK
    <3>3. b \in BOOLEAN
      OBVIOUS
    <3> HIDE DEF b
    <3> QED BY <3>1, <3>2, <3>3 DEF Row
  <2>2. CASE ~(f \in cur[c].file /\ row[f] # NoRow)
    <3>1. row'[f] = row[f]
      BY <2>2 DEF ToggleWrite
    <3> QED BY <3>1 DEF TypeOK
  <2> QED BY <2>1, <2>2
<1>2. Marks
  BY <1>1 DEF Marks, Rows, ToggleWrite
<1> QED BY <1>2, MarksKeep, PageClosed DEF ToggleWrite, TypeOK

\* A curator's step that leaves the rows alone: what is left to show is about
\* pages, members and choices.
LEMMA CuratorKeeps ==
  ASSUME LibraryInv, UNCHANGED <<disk, cat, row, nextId, scan, touched, scans, changes>>,
         cur' \in [Curators -> Page], members' \in [Collections -> SUBSET (1 .. MaxIds)],
         cols' \subseteq Collections, chosen' \subseteq Collections \X Files,
         edits' \in 0 .. MaxEdits, PagesNameTheirGame', NoStalePointer'
  PROVE  LibraryInv'
<1> USE DEF LibraryInv
<1>1. TypeOK'
  BY DEF TypeOK
<1>2. ScanInv'
  BY UnchangedRowsAreMarked, ScanAfterMarks
<1>3. UniqueIds' /\ IdsGiven'
  BY DEF NamesInv, UniqueIds, IdsGiven, Listed
<1> QED BY <1>1, <1>2, <1>3 DEF NamesInv

\* Pages that close or stay name their game as before.
LEMMA PagesStay ==
  ASSUME PagesNameTheirGame, NoNewPage, UNCHANGED <<row, nextId>>
  PROVE  PagesNameTheirGame'
BY DEF PagesNameTheirGame, NoNewPage, Listed

LEMMA OpenPageKeeps ==
  ASSUME NEW c \in Curators, NEW f \in Files
  PROVE  LibraryInv /\ OpenPage(c, f) => LibraryInv'
<1> SUFFICES ASSUME LibraryInv, OpenPage(c, f) PROVE LibraryInv'
  OBVIOUS
<1> USE DEF LibraryInv
<1>1. f \in Listed(row) /\ row[f].id \in 0 .. MaxIds /\ row[f].id < nextId
  BY RowTyping DEF OpenPage, Listed, TypeOK, Rows, NamesInv, IdsGiven
<1> DEFINE page == [NoPage EXCEPT !.at = "page", !.id = row[f].id, !.file = {f}]
<1>2. page \in Page /\ page.id = row[f].id /\ page.file = {f}
  BY <1>1, NoPageTyping DEF Page
<1>3. cur' = [cur EXCEPT ![c] = page]
  BY DEF OpenPage
<1> HIDE DEF page
<1>4. \A d \in Curators : cur'[d] = IF d = c THEN page ELSE cur[d]
  BY <1>3 DEF TypeOK
<1>5. cur' \in [Curators -> Page]
  BY <1>2, <1>3 DEF TypeOK
<1>6. PagesNameTheirGame'
  <2> SUFFICES ASSUME NEW d \in Curators, cur'[d].at # "idle"
               PROVE  /\ cur'[d].id < nextId
                      /\ \A g \in Listed(row) : row[g].id = cur'[d].id => g \in cur'[d].file
    BY DEF PagesNameTheirGame, OpenPage, store, Listed
  <2>1. CASE d = c
    BY <1>1, <1>2, <1>4, <2>1 DEF NamesInv, UniqueIds
  <2>2. CASE d # c
    BY <1>4, <2>2 DEF NamesInv, PagesNameTheirGame
  <2> QED BY <2>1, <2>2
<1>7. NoStalePointer'
  BY DEF OpenPage, store, NamesInv, NoStalePointer, Listed, Ids
<1>8. edits' \in 0 .. MaxEdits
  BY EditCounted DEF OpenPage
<1> QED BY <1>5, <1>6, <1>7, <1>8, CuratorKeeps DEF OpenPage, store, TypeOK

LEMMA ToggleReadKeeps == ASSUME NEW c \in Curators PROVE LibraryInv /\ ToggleRead(c) => LibraryInv'
<1> SUFFICES ASSUME LibraryInv, ToggleRead(c) PROVE LibraryInv'
  OBVIOUS
<1> USE DEF LibraryInv
<1>1. cur[c].at = "page" /\ cur[c] \in Page /\ row \in Rows
  BY PageTyping DEF ToggleRead, TypeOK, Rows
<1> DEFINE g == CHOOSE h \in Named(c) : TRUE
           page == IF Named(c) = {} THEN NoPage
                   ELSE [cur[c] EXCEPT !.at = "toggle", !.file = {g}, !.hidden = row[g].hidden]
<1>2. cur' = [cur EXCEPT ![c] = page]
  BY DEF ToggleRead
<1>3. /\ page \in Page
      /\ page.at # "idle" =>
           /\ page.id = cur[c].id
           /\ \A h \in Listed(row) : row[h].id = page.id => h \in page.file
  <2>1. CASE Named(c) = {}
    BY <2>1, NoPageTyping
  <2>2. CASE Named(c) # {}
    <3>1. g \in Named(c)
      BY <2>2
    <3>2. g \in Listed(row) /\ row[g].id = cur[c].id /\ g \in Files
      BY <3>1 DEF Named, Listed
    <3>3. row[g].hidden \in BOOLEAN
      BY <1>1, <3>2, RowTyping
    <3> HIDE DEF g
    <3>4. page = [cur[c] EXCEPT !.at = "toggle", !.file = {g}, !.hidden = row[g].hidden]
      BY <2>2
    <3> DEFINE hid == row[g].hidden
    <3>5. hid \in BOOLEAN /\ page = [cur[c] EXCEPT !.at = "toggle", !.file = {g}, !.hidden = hid]
      BY <3>3, <3>4
    <3> HIDE DEF hid, page
    <3>6. page \in Page /\ page.id = cur[c].id /\ page.file = {g}
      BY <1>1, <3>2, <3>5 DEF Page
    <3> QED BY <3>2, <3>6 DEF NamesInv, UniqueIds
  <2> QED BY <2>1, <2>2
<1> HIDE DEF page, g
<1>4. \A d \in Curators : cur'[d] = IF d = c THEN page ELSE cur[d]
  BY <1>2 DEF TypeOK
<1>5. cur' \in [Curators -> Page]
  BY <1>2, <1>3 DEF TypeOK
<1>6. PagesNameTheirGame'
  <2> SUFFICES ASSUME NEW d \in Curators, cur'[d].at # "idle"
               PROVE  /\ cur'[d].id < nextId
                      /\ \A h \in Listed(row) : row[h].id = cur'[d].id => h \in cur'[d].file
    BY DEF PagesNameTheirGame, ToggleRead, store, Listed
  <2>1. CASE d = c
    BY <1>1, <1>3, <1>4, <2>1 DEF NamesInv, PagesNameTheirGame
  <2>2. CASE d # c
    BY <1>4, <2>2 DEF NamesInv, PagesNameTheirGame
  <2> QED BY <2>1, <2>2
<1>7. NoStalePointer'
  BY DEF ToggleRead, store, NamesInv, NoStalePointer, Listed, Ids
<1> QED BY <1>5, <1>6, <1>7, CuratorKeeps DEF ToggleRead, store, TypeOK

LEMMA AddReadKeeps ==
  ASSUME NEW c \in Curators, NEW k \in Collections
  PROVE  LibraryInv /\ AddRead(c, k) => LibraryInv'
<1> SUFFICES ASSUME LibraryInv, AddRead(c, k) PROVE LibraryInv'
  OBVIOUS
<1> USE DEF LibraryInv
<1> DEFINE page == IF Named(c) = {} THEN NoPage ELSE [cur[c] EXCEPT !.at = "add", !.col = {k}]
<1>1. cur[c].at = "page" /\ cur[c] \in Page /\ cur' = [cur EXCEPT ![c] = page]
  BY PageTyping DEF AddRead
<1>2. page \in Page /\ (page.at # "idle" => page.id = cur[c].id /\ page.file = cur[c].file)
  <2>1. [cur[c] EXCEPT !.at = "add", !.col = {k}] \in Page
        /\ [cur[c] EXCEPT !.at = "add", !.col = {k}].id = cur[c].id
        /\ [cur[c] EXCEPT !.at = "add", !.col = {k}].file = cur[c].file
    BY <1>1 DEF Page
  <2> QED BY <2>1, NoPageTyping
<1> HIDE DEF page
<1>3. \A d \in Curators : cur'[d] = IF d = c THEN page ELSE cur[d]
  BY <1>1 DEF TypeOK
<1>4. cur' \in [Curators -> Page] /\ NoNewPage
  BY <1>1, <1>2, <1>3 DEF TypeOK, NoNewPage
<1>5. PagesNameTheirGame'
  BY <1>4, PagesStay DEF AddRead, store, NamesInv
<1>6. NoStalePointer'
  BY DEF AddRead, store, NamesInv, NoStalePointer, Listed, Ids
<1> QED BY <1>4, <1>5, <1>6, CuratorKeeps DEF AddRead, store, TypeOK

LEMMA AddInsertKeeps ==
  ASSUME NEW c \in Curators, NEW k \in Collections
  PROVE  LibraryInv /\ AddInsert(c, k) => LibraryInv'
<1> SUFFICES ASSUME LibraryInv, AddInsert(c, k) PROVE LibraryInv'
  OBVIOUS
<1> USE DEF LibraryInv
<1>1. cur' \in [Curators -> Page] /\ NoNewPage
  BY PageClosed DEF AddInsert
<1>2. PagesNameTheirGame'
  BY <1>1, PagesStay DEF AddInsert, NamesInv
<1>3. cur[c].at = "add" /\ cur[c].file \subseteq Files
      /\ \A g \in Listed(row) : row[g].id = cur[c].id => g \in cur[c].file
  BY PageTyping DEF AddInsert, NamesInv, PagesNameTheirGame
<1>4. chosen' \subseteq Collections \X Files /\ chosen \subseteq chosen'
      /\ \A f \in cur[c].file : <<k, f>> \in chosen'
  BY <1>3 DEF AddInsert, TypeOK
<1>5. \/ UNCHANGED members
      \/ k \in cols /\ cur[c].id \in Ids(row) /\ members' = [members EXCEPT ![k] = @ \cup {cur[c].id}]
  BY DEF AddInsert
<1>6. Ids(row) \subseteq 1 .. MaxIds
  BY RowTyping DEF Ids, Listed, TypeOK, Rows
<1>7. members' \in [Collections -> SUBSET (1 .. MaxIds)]
  BY <1>5, <1>6 DEF TypeOK
<1>8. NoStalePointer'
  <2> SUFFICES ASSUME NEW l \in Collections
               PROVE  /\ members'[l] # {} => l \in cols
                      /\ members'[l] \subseteq Ids(row)
                      /\ \A f \in Listed(row) : row[f].id \in members'[l] => <<l, f>> \in chosen'
    BY DEF NoStalePointer, AddInsert, Listed, Ids
  <2>1. /\ members[l] # {} => l \in cols
        /\ members[l] \subseteq Ids(row)
        /\ \A f \in Listed(row) : row[f].id \in members[l] => <<l, f>> \in chosen'
    BY <1>4 DEF NamesInv, NoStalePointer
  <2>2. CASE members'[l] = members[l]
    BY <2>1, <2>2
  <2>3. CASE l = k /\ k \in cols /\ cur[c].id \in Ids(row) /\ members'[l] = members[l] \cup {cur[c].id}
    BY <1>3, <1>4, <2>1, <2>3
  <2>4. members'[l] = members[l]
        \/ (l = k /\ k \in cols /\ cur[c].id \in Ids(row) /\ members'[l] = members[l] \cup {cur[c].id})
    BY <1>5 DEF TypeOK
  <2> QED BY <2>2, <2>3, <2>4
<1> QED BY <1>1, <1>2, <1>4, <1>7, <1>8, CuratorKeeps DEF AddInsert, TypeOK

LEMMA RemoveGameKeeps ==
  ASSUME NEW c \in Curators, NEW k \in Collections
  PROVE  LibraryInv /\ RemoveGame(c, k) => LibraryInv'
<1> SUFFICES ASSUME LibraryInv, RemoveGame(c, k) PROVE LibraryInv'
  OBVIOUS
<1> USE DEF LibraryInv
<1>1. cur' \in [Curators -> Page] /\ NoNewPage
  BY PageClosed DEF RemoveGame
<1>2. PagesNameTheirGame'
  BY <1>1, PagesStay DEF RemoveGame, NamesInv
<1>3. members' \in [Collections -> SUBSET (1 .. MaxIds)] /\ chosen' \subseteq Collections \X Files
  BY DEF RemoveGame, TypeOK
<1>4. NoStalePointer'
  <2> SUFFICES ASSUME NEW l \in Collections
               PROVE  /\ members'[l] # {} => l \in cols
                      /\ members'[l] \subseteq Ids(row)
                      /\ \A f \in Listed(row) : row[f].id \in members'[l] => <<l, f>> \in chosen'
    BY DEF NoStalePointer, RemoveGame, Listed, Ids
  <2>1. /\ members[l] # {} => l \in cols
        /\ members[l] \subseteq Ids(row)
        /\ \A f \in Listed(row) : row[f].id \in members[l] => <<l, f>> \in chosen
    BY DEF NamesInv, NoStalePointer
  <2>2. members'[l] = IF l = k THEN members[l] \ {row[f].id : f \in Named(c)} ELSE members[l]
    BY DEF RemoveGame, TypeOK
  <2>3. ASSUME NEW f \in Listed(row), row[f].id \in members'[l] PROVE <<l, f>> \in chosen'
    <3>1. <<l, f>> \in chosen
      BY <2>1, <2>2, <2>3
    <3>2. l # k \/ f \notin Named(c)
      BY <2>2, <2>3
    <3> QED BY <3>1, <3>2 DEF RemoveGame
  <2> QED BY <2>1, <2>2, <2>3
<1> QED BY <1>1, <1>2, <1>3, <1>4, CuratorKeeps DEF RemoveGame, TypeOK

LEMMA EditCollectionsKeeps ==
  ASSUME NEW k \in Collections PROVE LibraryInv /\ EditCollections(k) => LibraryInv'
<1> SUFFICES ASSUME LibraryInv, EditCollections(k) PROVE LibraryInv'
  OBVIOUS
<1> USE DEF LibraryInv
<1>1. cur' \in [Curators -> Page] /\ PagesNameTheirGame'
  BY PagesStay DEF EditCollections, NoNewPage, NamesInv, TypeOK
<1>2. /\ members' \in [Collections -> SUBSET (1 .. MaxIds)] /\ chosen' \subseteq Collections \X Files
      /\ cols' \subseteq Collections
  BY DEF EditCollections, TypeOK
<1>3. NoStalePointer'
  <2> SUFFICES ASSUME NEW l \in Collections
               PROVE  /\ members'[l] # {} => l \in cols'
                      /\ members'[l] \subseteq Ids(row)
                      /\ \A f \in Listed(row) : row[f].id \in members'[l] => <<l, f>> \in chosen'
    BY DEF NoStalePointer, EditCollections, Listed, Ids
  <2>1. /\ members[l] # {} => l \in cols
        /\ members[l] \subseteq Ids(row)
        /\ \A f \in Listed(row) : row[f].id \in members[l] => <<l, f>> \in chosen
    BY DEF NamesInv, NoStalePointer
  <2>2. CASE cols' = cols \cup {k} /\ UNCHANGED <<members, chosen>>
    BY <2>1, <2>2
  <2>3. CASE /\ cols' = cols \ {k}
             /\ members' = [members EXCEPT ![k] = {}]
             /\ chosen' = {x \in chosen : x[1] # k}
    <3>1. members'[l] = IF l = k THEN {} ELSE members[l]
      BY <2>3 DEF TypeOK
    <3>2. \A f \in Files : <<l, f>> \in chosen /\ l # k => <<l, f>> \in chosen'
      BY <2>3
    <3>3. \A f \in Listed(row) : f \in Files
      BY DEF Listed
    <3> QED BY <2>1, <2>3, <3>1, <3>2, <3>3
  <2> QED BY <2>2, <2>3 DEF EditCollections
<1>4. edits' \in 0 .. MaxEdits
  BY EditCounted DEF EditCollections
<1> QED BY <1>1, <1>2, <1>3, <1>4, CuratorKeeps DEF EditCollections

LEMMA CuratesKeeps == LibraryInv /\ Curates => LibraryInv'
BY ToggleReadKeeps, ToggleWriteKeeps, OpenPageKeeps, AddReadKeeps, AddInsertKeeps, RemoveGameKeeps,
   UnhideAllKeeps, EditCollectionsKeeps DEF Curates

----------------------------------------------------------------------------
(* The trees and the catalogue *)

LEMMA ChangeCounted == ASSUME TypeOK, changes < MaxChanges PROVE changes + 1 \in 0 .. MaxChanges
BY Bounds DEF TypeOK

LEMMA TreeChangesKeeps == ASSUME NEW f \in Files PROVE LibraryInv /\ TreeChanges(f) => LibraryInv'
<1> SUFFICES ASSUME LibraryInv, TreeChanges(f) PROVE LibraryInv'
  OBVIOUS
<1> USE DEF LibraryInv
<1>1. touched' = touched \cup {f} /\ disk' \subseteq Files /\ \A g \in Files : g # f => (g \in disk' <=> g \in disk)
  BY DEF TreeChanges, TypeOK
<1>2. \A s \in Systems : Settled(s)' => Settled(s) /\ disk' \cap Of(s) = disk \cap Of(s)
  BY <1>1 DEF Settled, Of
<1>3. Listed(row') = Listed(row)
  BY DEF TreeChanges, store, Listed
<1>4. TypeOK'
  BY <1>1, ChangeCounted DEF TypeOK, TreeChanges, store
<1>5. NamesInv'
  BY UnchangedRowsAreMarked, NamesAfterMarks DEF TreeChanges, store, NoNewPage
<1>6. ScanInOrder' /\ DroppedGone'
  BY <1>3 DEF ScanInv, ScanInOrder, DroppedGone, TreeChanges, Of
<1>7. CatalogueFresh'
  BY <1>1 DEF ScanInv, CatalogueFresh, TreeChanges, Settled, Of
<1>8. HandsFresh'
  BY <1>2, ScanTyping DEF ScanInv, HandsFresh, InHand, TreeChanges, Of
<1>9. Reconciled'
  BY <1>2, <1>3, ScanTyping DEF ScanInv, Reconciled, TreeChanges, Of
<1> QED BY <1>4, <1>5, <1>6, <1>7, <1>8, <1>9 DEF ScanInv

LEMMA CatalogueChangesKeeps ==
  ASSUME NEW s \in Catalogued PROVE LibraryInv /\ CatalogueChanges(s) => LibraryInv'
<1> SUFFICES ASSUME LibraryInv, CatalogueChanges(s) PROVE LibraryInv'
  OBVIOUS
<1> USE DEF LibraryInv
<1>1. /\ touched' = touched \cup Of(s) /\ cat' \subseteq Catalogued /\ UNCHANGED <<row, disk, scan>>
      /\ \A t \in Catalogued : t # s => (t \in cat' <=> t \in cat)
  BY DEF CatalogueChanges, TypeOK, store
<1>2. \A t \in Systems : Settled(t)' => Settled(t)
  BY <1>1 DEF Settled, Of
<1>3. Listed(row') = Listed(row)
  BY <1>1 DEF Listed
<1>4. TypeOK'
  BY <1>1, ChangeCounted DEF TypeOK, CatalogueChanges, store, Of
<1>5. NamesInv'
  BY UnchangedRowsAreMarked, NamesAfterMarks DEF CatalogueChanges, store, NoNewPage
<1>6. ScanInOrder' /\ DroppedGone'
  BY <1>1, <1>3 DEF ScanInv, ScanInOrder, DroppedGone, Of
<1>7. CatalogueFresh'
  <2> SUFFICES ASSUME scan.at = "upsert", NEW f \in Files, SystemOf[f] \in cat', Settled(SystemOf[f])'
               PROVE  SystemOf[f] \in scan.cat
    BY <1>1 DEF CatalogueFresh
  <2>1. SystemOf[f] \in Systems /\ f \in Of(SystemOf[f])
    BY Bounds DEF Of
  <2>2. f \notin touched' /\ Settled(SystemOf[f])
    BY <1>2, <2>1 DEF Settled, Of
  <2>3. SystemOf[f] # s
    BY <1>1, <2>2 DEF Of
  <2> QED BY <1>1, <2>2, <2>3 DEF ScanInv, CatalogueFresh
<1>8. HandsFresh'
  BY <1>1, <1>2, ScanTyping DEF ScanInv, HandsFresh, InHand, Of
<1>9. Reconciled'
  BY <1>1, <1>2, <1>3, ScanTyping DEF ScanInv, Reconciled, Of
<1> QED BY <1>4, <1>5, <1>6, <1>7, <1>8, <1>9 DEF ScanInv

----------------------------------------------------------------------------
(* The theorems *)

LEMMA Inductive == LibraryInv /\ [Next]_vars => LibraryInv'
<1> SUFFICES ASSUME LibraryInv, [Next]_vars PROVE LibraryInv'
  OBVIOUS
<1>1. CASE ScanStep
  BY <1>1, ScanStepKeeps
<1>2. ASSUME NEW s \in Systems, NEW fs \in SUBSET Of(s), IngestVerify(s, fs) \/ ApplyCache(s, fs)
      PROVE  LibraryInv'
  BY <1>2, IngestVerifyKeeps, ApplyCacheKeeps
<1>3. CASE Curates
  BY <1>3, CuratesKeeps
<1>4. ASSUME NEW f \in Files, TreeChanges(f) PROVE LibraryInv'
  BY <1>4, TreeChangesKeeps
<1>5. ASSUME NEW s \in Catalogued, CatalogueChanges(s) PROVE LibraryInv'
  BY <1>5, CatalogueChangesKeeps
<1>6. CASE UNCHANGED vars
  <2>1. UNCHANGED <<disk, cat, row, nextId, members, cols, scan, cur, touched, chosen>>
        /\ UNCHANGED <<scans, edits, changes>>
    BY <1>6 DEF vars
  <2>2. cur' \in [Curators -> Page] /\ scans' \in 0 .. MaxScans /\ edits' \in 0 .. MaxEdits
        /\ changes' \in 0 .. MaxChanges /\ Marks /\ NoNewPage
    BY <2>1, UnchangedRowsAreMarked DEF LibraryInv, TypeOK, NoNewPage
  <2> QED BY <2>1, <2>2, MarksKeep
<1> QED BY <1>1, <1>2, <1>3, <1>4, <1>5, <1>6 DEF Next

\* The inductive invariant holds of every reachable state.
THEOREM LibraryInvariant == Spec => []LibraryInv
BY Initially, Inductive, PTL DEF Spec

\* The tables, the scan in flight and the pages stay well typed; ids in
\* particular stay within what AUTOINCREMENT has given.
THEOREM LibraryTyping == Spec => []TypeOK
<1>1. LibraryInv => TypeOK
  BY DEF LibraryInv
<1> QED BY <1>1, LibraryInvariant, PTL

\* A collection never points at a row that is gone, nor at another game than
\* the one AddCollectionGame was asked for, however old the page was.
THEOREM LibraryNoStalePointer == Spec => []NoStalePointer
<1>1. LibraryInv => NoStalePointer
  BY DEF LibraryInv, NamesInv
<1> QED BY <1>1, LibraryInvariant, PTL

\* When scanAll ends, the systems ReplaceSystemGames has reconciled and nobody
\* changed have the rows of their files, and dropped systems have none.
THEOREM LibraryScanConverges == Spec => ScanConverges
<1>1. LibraryInv /\ [Next]_vars =>
        [ScanFinish =>
           /\ \A s \in scan.done : Settled(s) => Listed(row) \cap Of(s) = disk \cap Of(s)
           /\ \A s \in Catalogued \ scan.cat : Listed(row) \cap Of(s) = {}]_vars
  BY DEF LibraryInv, ScanInv, Reconciled, DroppedGone, ScanFinish
<1> QED BY <1>1, LibraryInvariant, PTL DEF Spec, ScanConverges

\* What a step must leave of the rows of files in place.
Survives ==
  \A f \in disk \cap Listed(row) :
    SystemOf[f] \in cat \cup Exo /\ Settled(SystemOf[f]) =>
      /\ row'[f].id = row[f].id
      /\ row'[f].hidden # row[f].hidden => Curates

LEMMA ReplacingSpares ==
  ASSUME TypeOK, NEW s \in Systems, NEW fs \in SUBSET Of(s), ReplaceSystemGames(s, fs),
         Settled(s) => fs = disk \cap Of(s)
  PROVE  Survives
<1> SUFFICES ASSUME NEW f \in disk \cap Listed(row), Settled(SystemOf[f]) PROVE row'[f] = row[f]
  BY DEF Survives
<1>1. f \in Files /\ f \in disk /\ row[f] # NoRow
  BY DEF Listed
<1>2. CASE SystemOf[f] = s
  BY <1>1, <1>2, Replacing DEF Of
<1>3. CASE SystemOf[f] # s
  BY <1>1, <1>3, Replacing
<1> QED BY <1>2, <1>3

LEMMA UpsertSpares == LibraryInv /\ UpsertSystems => Survives
<1> SUFFICES ASSUME LibraryInv, UpsertSystems, NEW f \in disk \cap Listed(row),
                    SystemOf[f] \in cat \cup Exo, Settled(SystemOf[f])
             PROVE  row'[f] = row[f]
  BY DEF Survives
<1>1. f \in Files
  BY DEF Listed
<1>2. SystemOf[f] \notin Dropped(scan.cat)
  BY <1>1, Bounds DEF LibraryInv, ScanInv, CatalogueFresh, UpsertSystems, Dropped
<1> QED BY <1>1, <1>2 DEF UpsertSystems, SetRows

LEMMA HashingSpares ==
  ASSUME NEW s \in Systems, NEW batch \in SUBSET Of(s), TypeOK, HashBatch(s, batch)
  PROVE  Survives
<1> SUFFICES ASSUME NEW f \in disk \cap Listed(row)
             PROVE  row'[f].id = row[f].id /\ row'[f].hidden = row[f].hidden
  BY DEF Survives
<1>1. f \in Files /\ row[f] \in Row
  BY DEF Listed, TypeOK
<1>2. row'[f] = row[f] \/ row'[f] = [row[f] EXCEPT !.sha1 = TRUE]
  BY <1>1 DEF HashBatch
<1> QED BY <1>1, <1>2 DEF Row

LEMMA ScanSpares == LibraryInv /\ ScanStep => Survives
<1> SUFFICES ASSUME LibraryInv, ScanStep PROVE Survives
  OBVIOUS
<1> USE DEF LibraryInv
<1>1. CASE ScanStart \/ LoadCatalogue \/ StatEntries \/ ScanExo \/ ScanFinish
  BY <1>1 DEF ScanStart, LoadCatalogue, StatEntries, ScanExo, ScanFinish, store, Survives
<1>2. CASE UpsertSystems
  BY <1>2, UpsertSpares
<1>3. ASSUME NEW s \in Systems, ListDir(s) PROVE Survives
  BY <1>3 DEF ListDir, store, Survives
<1>4. ASSUME NEW s \in Systems, Persist(s) PROVE Survives
  <2>1. CASE UNCHANGED row
    BY <2>1 DEF Survives
  <2>2. CASE ReplaceSystemGames(s, scan.found)
    <3>1. scan.found \subseteq Of(s) /\ (Settled(s) => scan.found = disk \cap Of(s))
      BY <1>4 DEF Persist, ScanInv, HandsFresh, InHand
    <3> QED BY <2>2, <3>1, ReplacingSpares
  <2> QED BY <1>4, <2>1, <2>2 DEF Persist
<1>5. ASSUME NEW s \in Systems, ExoImport(s) PROVE Survives
  <2>1. CASE UNCHANGED row
    BY <2>1 DEF Survives
  <2>2. CASE ReplaceSystemGames(s, disk \cap Of(s))
    BY <2>2, ReplacingSpares
  <2> QED BY <1>5, <2>1, <2>2 DEF ExoImport
<1>6. ASSUME NEW s \in Systems, NEW batch \in SUBSET Of(s), HashBatch(s, batch) PROVE Survives
  BY <1>6, HashingSpares
<1> QED BY <1>1, <1>2, <1>3, <1>4, <1>5, <1>6 DEF ScanStep

LEMMA JobsSpare ==
  ASSUME NEW s \in Systems, NEW fs \in SUBSET Of(s), TypeOK, IngestVerify(s, fs) \/ ApplyCache(s, fs)
  PROVE  Survives
<1> SUFFICES ASSUME NEW f \in disk \cap Listed(row)
             PROVE  row'[f].id = row[f].id /\ row'[f].hidden = row[f].hidden
  BY DEF Survives
<1>1. f \in Files /\ row[f] \in Row
  BY DEF Listed, TypeOK
<1>2. \/ row'[f] = row[f]
      \/ \E v, b : row'[f] = [row[f] EXCEPT !.verify = v, !.sha1 = b]
      \/ \E b : row'[f] = [row[f] EXCEPT !.cover = b]
  <2>1. CASE IngestVerify(s, fs)
    BY <1>1, <2>1 DEF IngestVerify
  <2>2. CASE ApplyCache(s, fs)
    BY <1>1, <2>2 DEF ApplyCache
  <2> QED BY <2>1, <2>2
<1>3. CASE \E v, b : row'[f] = [row[f] EXCEPT !.verify = v, !.sha1 = b]
  BY <1>1, <1>3 DEF Row
<1>4. CASE \E b : row'[f] = [row[f] EXCEPT !.cover = b]
  BY <1>1, <1>4 DEF Row
<1> QED BY <1>2, <1>3, <1>4

LEMMA CuratorsSpare == TypeOK /\ Curates => Survives
<1> SUFFICES ASSUME TypeOK, Curates, NEW f \in disk \cap Listed(row) PROVE row'[f].id = row[f].id
  BY DEF Survives
<1>1. f \in Files /\ row[f] \in Row
  BY DEF Listed, TypeOK
<1>2. row'[f] = row[f] \/ \E b : row'[f] = [row[f] EXCEPT !.hidden = b]
  <2>1. CASE UNCHANGED row
    BY <2>1
  <2>2. ASSUME NEW c \in Curators, ToggleWrite(c)
        PROVE  row'[f] = row[f] \/ \E b : row'[f] = [row[f] EXCEPT !.hidden = b]
    BY <1>1, <2>2 DEF ToggleWrite
  <2>3. ASSUME NEW s \in Systems, UnhideAll(s)
        PROVE  row'[f] = row[f] \/ \E b : row'[f] = [row[f] EXCEPT !.hidden = b]
    BY <1>1, <2>3 DEF UnhideAll
  <2> QED BY <2>1, <2>2, <2>3 DEF Curates, ToggleRead, OpenPage, AddRead, AddInsert, RemoveGame,
             EditCollections, store
<1> QED BY <1>1, <1>2 DEF Row

\* No scan, verify, art pass, tree or catalogue takes the row of a file that
\* stays in a settled system, or its id, and only a curator hides or shows it.
THEOREM LibraryCurationSurvives == Spec => CurationSurvives
<1>1. LibraryInv /\ [Next]_vars =>
        [\A f \in disk \cap Listed(row) :
           SystemOf[f] \in cat \cup Exo /\ Settled(SystemOf[f]) =>
             /\ row'[f].id = row[f].id
             /\ row'[f].hidden # row[f].hidden => Curates]_vars
  <2> SUFFICES ASSUME LibraryInv, Next PROVE Survives
    BY DEF Survives
  <2>1. CASE ScanStep
    BY <2>1, ScanSpares
  <2>2. ASSUME NEW s \in Systems, NEW fs \in SUBSET Of(s), IngestVerify(s, fs) \/ ApplyCache(s, fs)
        PROVE  Survives
    BY <2>2, JobsSpare DEF LibraryInv
  <2>3. CASE Curates
    BY <2>3, CuratorsSpare DEF LibraryInv
  <2>4. ASSUME NEW f \in Files, TreeChanges(f) PROVE Survives
    BY <2>4 DEF TreeChanges, store, Survives
  <2>5. ASSUME NEW s \in Catalogued, CatalogueChanges(s) PROVE Survives
    BY <2>5 DEF CatalogueChanges, store, Survives
  <2> QED BY <2>1, <2>2, <2>3, <2>4, <2>5 DEF Next
<1> QED BY <1>1, LibraryInvariant, PTL DEF Spec, CurationSurvives
=============================================================================
