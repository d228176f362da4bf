---------------------------- MODULE MCSunoCorpus ----------------------------
(***************************************************************************)
(* Three clips of one creator, the third published while the daemon runs;  *)
(* a tag that lists the first two, and a playlist of the first, the newest *)
(* at the start, which suno-backfill re-visits too.  It may be taken down  *)
(* or voted on: what lies after it then moves towards the cursors.         *)
(***************************************************************************)
EXTENDS SunoCorpus

CONSTANTS clipA, clipB, late, author, tag, list

MCClips == {clipA, clipB, late}
MCAuthor == [c \in MCClips |-> author]
MCPublished == <<clipA, clipB>>
MCStart == [c \in MCClips |-> 1]
MCTagged == [x \in {tag} |-> {clipA, clipB}]
MCContents == [x \in {list} |-> <<clipA>>]
MCOwner == [x \in {list} |-> author]
MCCohort == <<clipA>>
=============================================================================
