---------------------------- MODULE SunoHistory -----------------------------
(***************************************************************************)
(* What the suno schema promises a reader (pkgs/suno-top/main.go, head     *)
(* comment): suno.clip_sightings is an "append-only observation log" that  *)
(* "IS the time-series", and suno.clips holds only winners.  The log alone *)
(* is enough to rebuild the count of every row, and the 2024 cohort enters *)
(* it once.                                                                *)
(***************************************************************************)
EXTENDS Integers, Sequences

CONSTANTS
  Clips,   \* the clip ids
  Counts,  \* the values a count may have
  Floor    \* the upvote floor of the corpus

NoCount == -1

VARIABLES
  log,     \* log[c]: the sightings of c, oldest first
  corpus   \* corpus[c]: the count on the row of c, or NoCount

hvars == <<log, corpus>>

HInit ==
  /\ log = [c \in Clips |-> <<>>]
  /\ corpus = [c \in Clips |-> NoCount]

InCohort(c) == \E i \in DOMAIN log[c] : log[c][i].source = "backfill"

\* A sighting is appended, and the row shows it.
Observe(c, source, n) ==
  /\ n >= Floor
  /\ source = "backfill" => ~InCohort(c)
  /\ log' = [log EXCEPT ![c] = Append(@, [source |-> source, count |-> n])]
  /\ corpus' = [corpus EXCEPT ![c] = n]

HNext == \E c \in Clips, source \in {"top", "backfill"}, n \in Counts : Observe(c, source, n)

HSpec == HInit /\ [][HNext]_hvars
=============================================================================
