---------------------------- MODULE ArcadeRegen ----------------------------
(***************************************************************************)
(* The launcher-DB regeneration coordinator of the arcade webapp           *)
(* (internal/web/generate.go) and what it coordinates: curation handlers   *)
(* that edit the store and ask for a regeneration, the verify that         *)
(* promotes ROMs, rescans and asks too, the scanner, the manual Regenerate *)
(* button and the generator both it and the worker run.                    *)
(*                                                                         *)
(* Data are versions.  edits counts the curation edits in the store, tree  *)
(* the promotions into the games trees; the games table knows the tree as  *)
(* of a scan, and a generated file the store as of the pass that wrote it. *)
(* The pipeline slot is the one of ArcadePipeline, whose finer steps (the  *)
(* guard before the slot) change nothing a pass can observe.               *)
(***************************************************************************)
EXTENDS Naturals, FiniteSets

CONSTANTS
  Curators,   \* concurrent hide/collection requests
  Scenarios   \* what a behaviour may have happen, at most: edits, verify batches, scans at
              \* startup or by POST /rescan, clicks on Regenerate, failed reads, restarts

Requesters == Curators \cup {"verify"}
Generators == {"worker", "manual"}

ASSUME RegenAssumption ==
  /\ "verify" \notin Curators
  /\ Scenarios \subseteq [edits : Nat, verifies : Nat, scans : Nat, clicks : Nat,
                           faults : Nat, kills : Nat]

VARIABLES
  edits, tree, rows, served,      \* the store, the trees, the games table, the files
  dirty, noisy, origins,          \* regenState; noisy: a request within the quiet window
  deferredRow, failMsg, passActive, wake,
  worker, held,                   \* the worker, and the origins its pass took
  slot, gen, seen, result,        \* the slot and the generator's two callers
  req,                            \* where each requester is in requestRegeneration
  verify, scan,                   \* Runner.Verify; the scanner
  left,                           \* what the scenario still allows
  \* history, read by properties only:
  lastPass,   \* how the latest pass over the trees ended
  deferrals,  \* deferral rows written in this busy episode
  forgotten,  \* a kill wiped the memory that an edit is not served yet
  missed      \* files came in that no rescan by their batch has recorded since

coordVars == <<dirty, noisy, origins, deferredRow, failMsg, passActive, wake, worker, held>>
genVars   == <<slot, gen, seen, result, served, lastPass>>
treeVars  == <<tree, rows, verify, scan>>
history   == <<deferrals, forgotten, missed>>
vars == <<edits, req, coordVars, genVars, treeVars, left, history>>

Spend(what) == left[what] > 0 /\ left' = [left EXCEPT ![what] = @ - 1]

Origin(p) == IF p = "verify" THEN "post-verify promotion" ELSE "curation edit"
Origins == {"post-verify promotion", "curation edit"}

Version == [opts : Nat, games : Nat, rows : Nat]
NoScan == [st |-> "no", by |-> "user", walked |-> 0]

CoordTypeOK ==
  /\ dirty \in BOOLEAN /\ noisy \in BOOLEAN /\ deferredRow \in BOOLEAN /\ failMsg \in BOOLEAN
  /\ passActive \in BOOLEAN /\ wake \in BOOLEAN
  /\ origins \subseteq Origins /\ held \subseteq Origins
  /\ worker \in {"parked", "top", "gate", "take", "generating", "backoff"}

GenTypeOK ==
  /\ slot \in {"free", "verify"} \cup Generators
  /\ gen \in [Generators -> {"no", "asked", "claimed", "optsRead", "built", "releasing",
                             "leaving", "returned"}]
  /\ seen \in [Generators -> Version]
  /\ result \in [Generators -> {"none", "busy", "ok", "failed", "error"}]
  /\ served \in Version /\ lastPass \in {"ok", "failed"}

TreesTypeOK ==
  /\ tree \in Nat /\ rows \in 0 .. tree
  /\ verify \in {"idle", "batch", "copied", "rescan", "scanning"}
  /\ scan \in [st : {"no", "started", "walked", "persisted"}, by : {"user", "verify"},
               walked : 0 .. tree]

TypeOK ==
  /\ CoordTypeOK /\ GenTypeOK /\ TreesTypeOK
  /\ edits \in Nat
  /\ req \in [Requesters -> {"no", "due", "marked"}]
  /\ left \in [edits : Nat, verifies : Nat, scans : Nat, clicks : Nat, faults : Nat, kills : Nat]
  /\ deferrals \in Nat /\ forgotten \in BOOLEAN /\ missed \in BOOLEAN

Init ==
  /\ edits = 0 /\ tree = 0 /\ rows = 0 /\ served = [opts |-> 0, games |-> 0, rows |-> 0]
  /\ dirty = FALSE /\ noisy = FALSE /\ origins = {} /\ deferredRow = FALSE
  /\ failMsg = FALSE /\ passActive = FALSE /\ wake = FALSE
  /\ worker = "parked" /\ held = {}
  /\ slot = "free"
  /\ gen = [g \in Generators |-> "no"]
  /\ seen = [g \in Generators |-> served]
  /\ result = [g \in Generators |-> "none"]
  /\ req = [p \in Requesters |-> "no"]
  /\ verify = "idle" /\ scan = NoScan
  /\ left \in Scenarios
  /\ lastPass = "ok" /\ deferrals = 0
  /\ forgotten = FALSE /\ missed = FALSE

----------------------------------------------------------------------------
(* Requests *)

\* A hide toggle, unhide-all, or a collection update, delete, add or remove:
\* the store is updated; the request for a regeneration comes next.
Edit(c) ==
  /\ req[c] = "no" /\ Spend("edits")
  /\ edits' = edits + 1
  /\ req' = [req EXCEPT ![c] = "due"]
  /\ UNCHANGED <<coordVars, genVars, treeVars, history>>

\* Mutant: the worker is woken before the work is marked.
RequestWakesFirst(p) ==
  \/ /\ req[p] = "due"
     /\ req' = [req EXCEPT ![p] = "marked"]
     /\ wake' = TRUE
     /\ UNCHANGED <<dirty, noisy, origins>>
  \/ /\ req[p] = "marked"
     /\ req' = [req EXCEPT ![p] = "no"]
     /\ dirty' = TRUE /\ noisy' = TRUE
     /\ origins' = origins \cup {Origin(p)}
     /\ UNCHANGED wake

\* requestRegeneration: mark under the lock, then leave a wake token.
Request(p) ==
  \/ /\ req[p] = "due"
     /\ req' = [req EXCEPT ![p] = "marked"]
     /\ dirty' = TRUE /\ noisy' = TRUE
     /\ origins' = origins \cup {Origin(p)}
     /\ UNCHANGED wake
  \/ /\ req[p] = "marked"
     /\ req' = [req EXCEPT ![p] = "no"]
     /\ wake' = TRUE
     /\ UNCHANGED <<dirty, noisy, origins>>

Ask(p) ==
  /\ Request(p)
  /\ UNCHANGED <<deferredRow, failMsg, passActive, worker, held>>
  /\ UNCHANGED <<edits, genVars, treeVars, left, history>>

\* The quiet window elapses.
Silence ==
  /\ noisy /\ noisy' = FALSE
  /\ UNCHANGED <<dirty, origins, deferredRow, failMsg, passActive, wake, worker, held>>
  /\ UNCHANGED <<edits, req, genVars, treeVars, left, history>>

----------------------------------------------------------------------------
(* The worker: regenWorker and drainRegen *)

Wake ==
  /\ worker = "parked" /\ wake
  /\ wake' = FALSE /\ worker' = "top"
  /\ UNCHANGED <<dirty, origins, deferredRow, failMsg, passActive, held, gen, deferrals>>

ClaimDirty ==
  /\ worker = "top"
  /\ \/ dirty /\ dirty' = FALSE /\ passActive' = TRUE /\ worker' = "gate"
     \/ ~dirty /\ worker' = "parked" /\ UNCHANGED <<dirty, passActive>>
  /\ UNCHANGED <<wake, origins, deferredRow, failMsg, held, gen, deferrals>>

QuietGate ==
  /\ worker = "gate" /\ ~noisy
  /\ worker' = "take"
  /\ UNCHANGED <<dirty, wake, origins, deferredRow, failMsg, passActive, held, gen, deferrals>>

TakeOrigins ==
  /\ worker = "take"
  /\ worker' = "generating" /\ gen' = [gen EXCEPT !["worker"] = "asked"]
  /\ held' = origins /\ origins' = {}
  /\ UNCHANGED <<dirty, wake, deferredRow, failMsg, passActive, deferrals>>

\* GenerateFresh has its outcome.
Ending == {"releasing", "leaving", "returned"}
Returned(g, outcomes) == gen[g] = "returned" /\ result[g] \in outcomes

\* Mutant: the flag that suppresses further deferral rows is dropped.
PassPutOffForgets ==
  /\ worker = "generating" /\ Returned("worker", {"busy", "error"})
  /\ dirty' = TRUE /\ origins' = origins \cup held
  /\ passActive' = FALSE
  /\ worker' = "backoff" /\ gen' = [gen EXCEPT !["worker"] = "no"]
  /\ deferredRow' = FALSE
  /\ deferrals' = IF result["worker"] = "busy" /\ ~deferredRow THEN deferrals + 1 ELSE deferrals
  /\ UNCHANGED <<wake, failMsg, held>>

\* ErrBusy, or a store that could not be read: requeue, end the pass, back off.
\* Only the worker reads what these three steps write.
PassPutOff ==
  /\ worker = "generating" /\ Returned("worker", {"busy", "error"})
  /\ dirty' = TRUE /\ origins' = origins \cup held
  /\ passActive' = FALSE
  /\ worker' = "backoff" /\ gen' = [gen EXCEPT !["worker"] = "no"]
  /\ LET row == result["worker"] = "busy" /\ ~deferredRow
     IN  /\ deferredRow' \in BOOLEAN /\ (deferredRow' <=> deferredRow \/ row)
         /\ deferrals' = IF row THEN deferrals + 1 ELSE deferrals
  /\ UNCHANGED <<wake, failMsg, held>>

\* Mutant: a finished pass clears the flag, requests that came meanwhile included.
PassDoneClears ==
  /\ worker = "generating" /\ Returned("worker", {"ok", "failed"})
  /\ deferredRow' = FALSE /\ deferrals' = 0
  /\ failMsg' = (result["worker"] = "failed")
  /\ passActive' = FALSE /\ dirty' = FALSE
  /\ worker' = "top" /\ gen' = [gen EXCEPT !["worker"] = "no"]
  /\ UNCHANGED <<wake, origins, held>>

\* The outcome is recorded under the unlock that ends the pass.
PassDone ==
  /\ worker = "generating" /\ Returned("worker", {"ok", "failed"})
  /\ deferredRow' = FALSE /\ deferrals' = 0
  /\ failMsg' = (result["worker"] = "failed")
  /\ passActive' = FALSE
  /\ worker' = "top" /\ gen' = [gen EXCEPT !["worker"] = "no"]
  /\ UNCHANGED <<dirty, wake, origins, held>>

\* waitForRegenSlot: the backoff elapses, or a wake token cuts it short.
BackoffEnds ==
  /\ worker = "backoff"
  /\ wake' \in {wake, FALSE}
  /\ worker' = "top"
  /\ UNCHANGED <<dirty, origins, deferredRow, failMsg, passActive, held, gen, deferrals>>

Worker ==
  /\ \/ Wake \/ ClaimDirty \/ QuietGate \/ TakeOrigins
     \/ PassPutOff \/ PassDone \/ BackoffEnds
  /\ UNCHANGED <<noisy, edits, req, slot, seen, result, served, lastPass, forgotten, missed>>
  /\ UNCHANGED <<treeVars, left>>

----------------------------------------------------------------------------
(* The generator: GenerateFresh(g), called by the worker and by the button *)

Other(g) == CHOOSE h \in Generators : h # g

\* Mutant: the slot's refusal is ignored.
ClaimAnyway(g) ==
  /\ gen[g] = "asked"
  /\ slot' = g /\ gen' = [gen EXCEPT ![g] = "claimed"]
  /\ UNCHANGED <<seen, result, served, lastPass, left, forgotten, missed>>

\* Both locks, or ErrBusy with neither.
Claim(g) ==
  /\ gen[g] = "asked"
  /\ \/ /\ slot = "free" /\ gen[Other(g)] # "leaving"
        /\ slot' = g /\ gen' = [gen EXCEPT ![g] = "claimed"]
        /\ UNCHANGED result
     \/ /\ slot # "free" \/ gen[Other(g)] = "leaving"
        /\ gen' = [gen EXCEPT ![g] = "returned"]
        /\ result' = [result EXCEPT ![g] = "busy"]
        /\ UNCHANGED slot
  /\ UNCHANGED <<seen, served, lastPass, left, forgotten, missed>>

\* generateOptions, then the rows of each system: read under the slot.
ReadStore(g) ==
  /\ \/ /\ gen[g] = "claimed"
        /\ gen' = [gen EXCEPT ![g] = "optsRead"]
        /\ seen' = [seen EXCEPT ![g].opts = edits]
     \/ /\ gen[g] = "optsRead"
        /\ gen' = [gen EXCEPT ![g] = "built"]
        /\ seen' = [seen EXCEPT ![g].games = edits, ![g].rows = rows]
  /\ UNCHANGED <<slot, result, served, lastPass, left, forgotten, missed>>

ReadFails(g) ==
  /\ gen[g] \in {"claimed", "optsRead"} /\ Spend("faults")
  /\ gen' = [gen EXCEPT ![g] = "releasing"]
  /\ result' = [result EXCEPT ![g] = "error"]
  /\ UNCHANGED <<slot, seen, served, lastPass, forgotten, missed>>

\* The files are renamed into place; or a system fails (its directory is gone,
\* its output is refused, the write fails) and keeps its previous file.
Write(g) ==
  /\ gen[g] = "built"
  /\ gen' = [gen EXCEPT ![g] = "releasing"]
  /\ \/ /\ served' = seen[g] /\ lastPass' = "ok"
        /\ result' = [result EXCEPT ![g] = "ok"]
        /\ forgotten' = FALSE
        /\ missed' \in BOOLEAN /\ (missed' <=> missed /\ seen[g].rows # tree)
     \/ /\ lastPass' = "failed"
        /\ result' = [result EXCEPT ![g] = "failed"]
        /\ UNCHANGED <<served, forgotten, missed>>
  /\ UNCHANGED <<slot, seen, left>>

\* release: the slot, then the guard.
LetGo(g) ==
  /\ \/ /\ gen[g] = "releasing"
        /\ gen' = [gen EXCEPT ![g] = "leaving"]
        /\ slot' = "free"
     \/ /\ gen[g] = "leaving"
        /\ gen' = [gen EXCEPT ![g] = "returned"]
        /\ UNCHANGED slot
  /\ UNCHANGED <<seen, result, served, lastPass, left, forgotten, missed>>

Generate(g) ==
  /\ Claim(g) \/ ReadStore(g) \/ ReadFails(g) \/ Write(g) \/ LetGo(g)
  /\ UNCHANGED <<edits, req, coordVars, treeVars, deferrals>>

\* handleGenerate: the button.
Click ==
  /\ gen["manual"] = "no" /\ Spend("clicks")
  /\ gen' = [gen EXCEPT !["manual"] = "asked"]
  /\ UNCHANGED <<slot, seen, result, served, lastPass, edits, req, coordVars, treeVars, history>>

\* ... and its answer: 409, 500, or setRegenAlert and the refreshed page.
Answer ==
  /\ gen["manual"] = "returned"
  /\ gen' = [gen EXCEPT !["manual"] = "no"]
  /\ failMsg' = IF result["manual"] \in {"ok", "failed"} THEN result["manual"] = "failed"
                                                         ELSE failMsg
  /\ UNCHANGED <<dirty, noisy, origins, deferredRow, passActive, wake, worker, held>>
  /\ UNCHANGED <<slot, seen, result, served, lastPass, edits, req, treeVars, left, history>>

----------------------------------------------------------------------------
(* Verify and the scanner *)

\* A batch holds the slot; files come into the trees, or do not; it releases
\* the slot.  It counts as a promotion if a system's outcome is verified or
\* promoted-unchecked, whether or not anything was new.  Files that came in
\* under failed outcomes only (igir exited non-zero after copying, the plain
\* copy stopped half-way) get neither a rescan nor a request.
VerifyBatch ==
  \/ /\ verify = "idle" /\ req["verify"] = "no" /\ slot = "free" /\ Spend("verifies")
     /\ verify' = "batch" /\ slot' = "verify"
     /\ UNCHANGED <<tree, rows, scan, req, missed>>
  \/ /\ verify = "batch"
     /\ verify' = "copied" /\ tree' = tree + 1
     /\ UNCHANGED <<slot, rows, scan, req, left, missed>>
  \/ /\ verify \in {"batch", "copied"}
     /\ slot' = "free"
     /\ verify' \in {"rescan", "idle"} /\ missed' \in BOOLEAN
     /\ missed' <=> missed \/ (verify = "copied" /\ verify' = "idle")
     /\ UNCHANGED <<tree, rows, scan, req, left>>

\* Mutant: the rescan is left to run in the background.
RescanInBackground ==
  /\ verify = "rescan"
  /\ verify' = "idle" /\ req' = [req EXCEPT !["verify"] = "due"]
  /\ \/ /\ scan.st = "no"
        /\ scan' = [NoScan EXCEPT !.st = "started"]
        /\ UNCHANGED missed
     \/ scan.st # "no" /\ missed' = TRUE /\ UNCHANGED scan
  /\ UNCHANGED <<tree, rows, slot, left>>

\* The rescan; refused if any scan is running, and then the request goes out.
Rescan ==
  /\ verify = "rescan"
  /\ \/ /\ scan.st = "no"
        /\ scan' = [NoScan EXCEPT !.st = "started", !.by = "verify"]
        /\ verify' = "scanning"
        /\ UNCHANGED <<req, missed>>
     \/ /\ scan.st # "no"
        /\ verify' = "idle" /\ req' = [req EXCEPT !["verify"] = "due"]
        /\ missed' = TRUE
        /\ UNCHANGED scan
  /\ UNCHANGED <<tree, rows, slot, left>>

\* The walk of a system's tree, the rows, then the other systems and the rest.
ScanStep ==
  /\ \/ /\ scan.st = "started"
        /\ scan' = [scan EXCEPT !.st = "walked", !.walked = tree]
        /\ UNCHANGED <<rows, verify, req, missed>>
     \/ /\ scan.st = "walked"
        /\ scan' = [scan EXCEPT !.st = "persisted"]
        /\ rows' = scan.walked
        /\ missed' \in BOOLEAN /\ (missed' <=> missed /\ scan.by = "user")
        /\ UNCHANGED <<verify, req>>
     \/ /\ scan.st = "persisted" /\ scan.by = "verify"
        /\ scan' = NoScan
        /\ verify' = "idle" /\ req' = [req EXCEPT !["verify"] = "due"]
        /\ UNCHANGED <<rows, missed>>
     \/ /\ scan.st = "persisted" /\ scan.by = "user"
        /\ scan' = NoScan
        /\ UNCHANGED <<rows, verify, req, missed>>
  /\ UNCHANGED <<tree, slot, left>>

\* The catalogue cannot be read, the walk fails or the rows cannot be stored:
\* the previous rows stay.  Verify logs the error and asks all the same.
ScanFails ==
  /\ scan.st \in {"started", "walked"} /\ Spend("faults")
  /\ scan' = [scan EXCEPT !.st = "persisted"]
  /\ missed' \in BOOLEAN /\ (missed' <=> missed \/ scan.by = "verify")
  /\ UNCHANGED <<tree, rows, verify, req, slot>>

\* POST /rescan, or the scan at startup.
UserScan ==
  /\ scan.st = "no" /\ Spend("scans")
  /\ scan' = [NoScan EXCEPT !.st = "started"]
  /\ UNCHANGED <<tree, rows, verify, req, slot, missed>>

Trees(A) ==
  /\ A
  /\ UNCHANGED <<edits, coordVars, gen, seen, result, served, lastPass>>
  /\ UNCHANGED <<deferrals, forgotten>>

----------------------------------------------------------------------------

EditsServed == served.opts = edits /\ served.games = edits

\* kill -9 and restart: only the store and the trees survive.
Kill ==
  /\ Spend("kills")
  /\ dirty' = FALSE /\ noisy' = FALSE /\ origins' = {} /\ deferredRow' = FALSE
  /\ failMsg' = FALSE /\ passActive' = FALSE /\ wake' = FALSE
  /\ worker' = "parked" /\ held' = {}
  /\ slot' = "free"
  /\ gen' = [g \in Generators |-> "no"] /\ result' = [g \in Generators |-> "none"]
  /\ req' = [p \in Requesters |-> "no"]
  /\ verify' = "idle" /\ scan' = NoScan
  /\ deferrals' = 0
  /\ forgotten' \in BOOLEAN /\ missed' \in BOOLEAN
  /\ (forgotten' <=> ~EditsServed) /\ (missed' <=> missed \/ served.rows # tree)
  /\ UNCHANGED <<edits, tree, rows, served, seen, lastPass>>

Next ==
  \/ \E c \in Curators : Edit(c)
  \/ \E p \in Requesters : Ask(p)
  \/ Silence
  \/ Worker
  \/ \E g \in Generators : Generate(g)
  \/ Click \/ Answer
  \/ Trees(VerifyBatch \/ Rescan \/ ScanStep \/ ScanFails \/ UserScan)
  \/ Kill

\* Goroutines that have work are scheduled, timers fire, and verify batches,
\* scans and passes end (their child processes are run under timeouts).
\* Clicks, edits, scans, faults and kills happen or not.
Fairness ==
  /\ \A p \in Requesters : WF_vars(Ask(p))
  /\ WF_vars(Silence) /\ WF_vars(Worker)
  /\ \A g \in Generators : WF_vars(Generate(g))
  /\ WF_vars(verify # "idle" /\ Trees(VerifyBatch \/ Rescan))
  /\ WF_vars(Trees(ScanStep))

Spec == Init /\ [][Next]_vars /\ Fairness

----------------------------------------------------------------------------
(* Properties *)

\* What the worker still holds in its hands: a pass that has not read the
\* store since the latest edit, or one that will be put back.
WorkerWillServe ==
  \/ worker \in {"gate", "take"}
  \/ worker = "generating" /\
       \/ gen["worker"] \in {"asked", "claimed"}
       \/ gen["worker"] = "optsRead" /\ seen["worker"].opts = edits
       \/ gen["worker"] = "built" /\ seen["worker"].opts = edits /\ seen["worker"].games = edits
       \/ gen["worker"] \in Ending /\ result["worker"] \in {"busy", "error"}

\* No edit is forgotten: while a file on the kiosks does not show every edit,
\* a request is on its way, the flag is up, a pass will read the store again,
\* or the latest pass failed (and says so).  Only a kill can break this.
NoEditForgotten ==
  \/ EditsServed
  \/ \E c \in Curators : req[c] = "due"
  \/ dirty \/ WorkerWillServe \/ lastPass = "failed" \/ forgotten

\* No pass overwrites what a later reading of the store produced (ADV-P7-02's
\* lost update), whichever of the two callers runs it.
ServedNeverGoesBack ==
  [][served'.opts >= served.opts /\ served'.games >= served.games]_vars

\* "ONE accurately-labeled deferral row per busy episode": rows do not pile up
\* while the slot is held, however many requests and retries there are.
OneDeferralPerEpisode == deferrals <= 1

\* An edit reaches the kiosks, unless the pass that carried it failed or the
\* process was killed: no wake-up is lost and no busy episode lasts for ever.
EditsReachKiosks == <>[](EditsServed \/ lastPass = "failed" \/ forgotten)

\* A state in which nothing is under way and nothing will start by itself.
Settled ==
  /\ ~dirty /\ ~wake /\ worker = "parked" /\ gen["manual"] = "no"
  /\ verify = "idle" /\ scan.st = "no" /\ \A p \in Requesters : req[p] = "no"
  /\ lastPass = "ok"

\* Once everything has settled the kiosks show every file a verify reported as
\* promoted and could rescan.  The code gives no such promise for files that
\* came in under failed outcomes, or whose rescan was refused because another
\* scan was running, failed, or was killed: those wait for a later verify, or
\* for a scan and a pass somebody asks for.
PromotionsServed == Settled /\ ~missed => served.rows = tree

\* "Promotions changed the served trees - the kiosks must see them" (generate.go):
\* the same with no exception, neither for failed outcomes that copied nor for
\* a rescan that lost to a concurrent scan or failed.
PromotionsAlwaysServed == Settled => served.rows = tree

\* The marker is "the visible warning for the most recent FAILED automatic
\* regeneration", "cleared by the next fully-ok generation" (generate.go).
AlertTruthful == ~passActive /\ gen["manual"] = "no" => (failMsg <=> lastPass = "failed")

=============================================================================
