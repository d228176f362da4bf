--------------------------- MODULE ArcadePipeline ---------------------------
(***************************************************************************)
(* The arcade webapp's heavy jobs: igir verify batches, Skyscraper scrape  *)
(* batches and launcher-DB generations, each with its own "running" guard, *)
(* sharing one try-lock (internal/pipeline).  A job also keeps a row of    *)
(* the runs table, closed when it ends or, after a kill, by the sweep the  *)
(* next process makes before it starts anything.                           *)
(*                                                                         *)
(* The three runners take and drop the two locks in different orders, and  *)
(* the verify handlers take the slot once more, only to see if it is free. *)
(***************************************************************************)
EXTENDS Naturals, FiniteSets

CONSTANTS
  Verifies,     \* the goroutines that may be serving POST /verify
  Scrapes,      \* ... POST /scrape
  Generations,  \* ... POST /generate, and the regeneration worker
  None,         \* nobody: the slot is free
  MaxKills      \* bound on kill -9 and restart

Jobs == Verifies \cup Scrapes \cup Generations
Runners == {"verify", "scrape", "generate"}

ASSUME PipelineAssumption ==
  /\ Verifies \cap Scrapes = {} /\ Verifies \cap Generations = {}
  /\ Scrapes \cap Generations = {}
  /\ None \notin Jobs
  /\ MaxKills \in Nat

VARIABLES
  phase,    \* the process: "up", "down", or "booting" once swept
  mutex,    \* the job that holds pipeline.Mutex
  running,  \* running[r]: the runner's own guard
  at,       \* at[j]: where the goroutine of job j is
  row,      \* row[j]: its row of the runs table
  unclosed, \* a finished job's row could not be closed
  kills

pipelineVars == <<phase, mutex, running, at, row, unclosed, kills>>

RunnerOf(j) ==
  CASE j \in Verifies -> "verify" [] j \in Scrapes -> "scrape" [] OTHER -> "generate"

\* probing: the verify handler holds the slot to see whether it could.
\* spawned: it let go again; its goroutine has not started.
\* claimed: a verify holds the slot, not yet its guard.
\* guarded: a scrape or a generation holds its guard, not yet the slot;
\* refused: ... and did not get it.
\* inside, working, finished: both held; with an open row in between.
\* exited: guard dropped first (verify, scrape); leaving: slot dropped first.
SlotStates  == {"probing", "claimed", "inside", "working", "finished", "exited"}
GuardStates == {"guarded", "refused", "inside", "working", "finished", "leaving"}
HeavyStates == {"inside", "working", "finished"}

PipelineTypeOK ==
  /\ phase \in {"up", "down", "booting"}
  /\ mutex \in Jobs \cup {None}
  /\ running \in [Runners -> BOOLEAN]
  /\ at \in [Jobs -> SlotStates \cup GuardStates \cup {"idle", "spawned"}]
  /\ row \in [Jobs -> {"none", "running"}]
  /\ unclosed \in BOOLEAN
  /\ kills \in 0 .. MaxKills

PipelineInit ==
  /\ phase = "booting"
  /\ mutex = None
  /\ running = [r \in Runners |-> FALSE]
  /\ at = [j \in Jobs |-> "idle"]
  /\ row = [j \in Jobs |-> "none"]
  /\ unclosed = FALSE
  /\ kills = 0

Goes(j, from, to) == at[j] = from /\ at' = [at EXCEPT ![j] = to]

TryAcquire(j) == mutex = None /\ mutex' = j

\* Unlocking a free sync.Mutex is fatal; whose lock it is, it does not check.
Release(j) == mutex' = IF mutex = None THEN "fatal" ELSE None

Guard(j)   == ~running[RunnerOf(j)] /\ running' = [running EXCEPT ![RunnerOf(j)] = TRUE]
Unguard(j) == running' = [running EXCEPT ![RunnerOf(j)] = FALSE]

----------------------------------------------------------------------------
(* Verify: handleVerifyAll / handleVerifySystem, then Runner.Verify *)

\* Both checks pass, or the answer is 409 and nothing changes.
VerifyProbe(j) ==
  /\ Goes(j, "idle", "probing")
  /\ ~running["verify"]
  /\ TryAcquire(j)
  /\ UNCHANGED <<running, row>>

VerifySpawn(j) ==
  /\ Goes(j, "probing", "spawned")
  /\ Release(j)
  /\ UNCHANGED <<running, row>>

\* The goroutine takes the slot again, or drops ErrBusy: nobody is told.
VerifyClaim(j) ==
  /\ \/ Goes(j, "spawned", "claimed") /\ TryAcquire(j)
     \/ Goes(j, "spawned", "idle") /\ mutex # None /\ UNCHANGED mutex
  /\ UNCHANGED <<running, row>>

\* The guard cannot refuse a verify that holds the slot: were it to, the
\* goroutine would be stuck here and SlotIsFreed would fail.
VerifyEnter(j) ==
  /\ Goes(j, "claimed", "inside")
  /\ Guard(j)
  /\ UNCHANGED <<mutex, row>>

----------------------------------------------------------------------------
(* Scrape (Driver.start) and generate (Generator.claim): the guard first *)

ClaimGuard(j) ==
  /\ Goes(j, "idle", "guarded")
  /\ Guard(j)
  /\ UNCHANGED <<mutex, row>>

\* Mutant: TryAcquire's answer is ignored.
ClaimSlotAnyway(j) ==
  /\ Goes(j, "guarded", "inside") /\ mutex' = j
  /\ UNCHANGED <<running, row>>

ClaimSlot(j) ==
  /\ \/ Goes(j, "guarded", "inside") /\ TryAcquire(j)
     \/ Goes(j, "guarded", "refused") /\ mutex # None /\ UNCHANGED mutex
  /\ UNCHANGED <<running, row>>

\* Mutant: the refused job does not lower its guard.
ClaimRefusedKeepsGuard(j) ==
  /\ Goes(j, "refused", "idle")
  /\ UNCHANGED <<running, mutex, row>>

ClaimRefused(j) ==
  /\ Goes(j, "refused", "idle")
  /\ Unguard(j)
  /\ UNCHANGED <<mutex, row>>

----------------------------------------------------------------------------
(* The body and the way out *)

\* StartRun opens the row.
Open(j) ==
  /\ Goes(j, "inside", "working")
  /\ row' = [row EXCEPT ![j] = "running"]
  /\ UNCHANGED <<mutex, running>>

\* The options, the systems or the row itself could not be had.
Abort(j) ==
  /\ Goes(j, "inside", "finished")
  /\ UNCHANGED <<mutex, running, row>>

\* Mutant: a row that could not be closed holds up the jobs after it.
CloseStuck(j) ==
  /\ Goes(j, "working", "finished")
  /\ row' = [row EXCEPT ![j] = "none"]
  /\ ~unclosed /\ unclosed' \in BOOLEAN
  /\ UNCHANGED <<mutex, running>>

\* FinishRun closes the row, or fails and is only logged.
Close(j) ==
  /\ Goes(j, "working", "finished")
  /\ row' = [row EXCEPT ![j] = "none"]
  /\ unclosed' \in {unclosed, TRUE}
  /\ UNCHANGED <<mutex, running>>

\* Deferred calls: verify and scrape lower the guard first, generate the slot.
Exit(j) ==
  \/ j \in Verifies \cup Scrapes /\ Goes(j, "finished", "exited") /\ Unguard(j) /\ UNCHANGED mutex
  \/ j \in Generations /\ Goes(j, "finished", "leaving") /\ Release(j) /\ UNCHANGED running

Leave(j) ==
  /\ \/ Goes(j, "exited", "idle") /\ Release(j) /\ UNCHANGED running
     \/ Goes(j, "leaving", "idle") /\ Unguard(j) /\ UNCHANGED mutex
  /\ UNCHANGED row

\* What a goroutine that has been started goes on to do.
Continues(j) ==
  \/ /\ \/ VerifySpawn(j) \/ VerifyClaim(j) \/ VerifyEnter(j)
        \/ ClaimSlot(j) \/ ClaimRefused(j)
        \/ Open(j) \/ Abort(j)
        \/ Exit(j) /\ UNCHANGED row
        \/ Leave(j)
     /\ UNCHANGED unclosed
  \/ Close(j)

Starts(j) ==
  /\ \/ j \in Verifies /\ VerifyProbe(j)
     \/ j \in Scrapes \cup Generations /\ ClaimGuard(j)
  /\ UNCHANGED unclosed

----------------------------------------------------------------------------
(* The process *)

PipelineKill ==
  /\ phase # "down" /\ kills < MaxKills
  /\ phase' = "down" /\ kills' = kills + 1
  /\ mutex' = None
  /\ running' = [r \in Runners |-> FALSE]
  /\ at' = [j \in Jobs |-> "idle"]
  /\ UNCHANGED <<row, unclosed>>

\* Mutant: the listener and the background jobs start before the sweep.
SweepWithoutRows == phase = "down" /\ phase' = "booting" /\ UNCHANGED <<row, unclosed>>

\* main's startup sweep: FailOrphanedRuns closes every row still running.
Sweep ==
  /\ phase = "down" /\ phase' = "booting"
  /\ row' = [j \in Jobs |-> "none"]
  /\ unclosed' = FALSE

Boot ==
  \/ Sweep /\ UNCHANGED <<mutex, running, at, kills>>
  \/ /\ phase = "booting" /\ phase' = "up"
     /\ UNCHANGED <<mutex, running, at, row, unclosed, kills>>

Step(j) == phase = "up" /\ Continues(j) /\ UNCHANGED <<phase, kills>>
Arrive(j) == phase = "up" /\ Starts(j) /\ UNCHANGED <<phase, kills>>

PipelineNext ==
  \/ \E j \in Jobs : Step(j) \/ Arrive(j)
  \/ PipelineKill
  \/ Boot

\* Goroutines that have started are scheduled and their work ends (the child
\* processes are run under timeouts); systemd restarts the service.
PipelineFairness == (\A j \in Jobs : WF_pipelineVars(Step(j))) /\ WF_pipelineVars(Boot)

PipelineSpec == PipelineInit /\ [][PipelineNext]_pipelineVars /\ PipelineFairness

----------------------------------------------------------------------------
(* Properties *)

\* "The two heavy exec-driven jobs are what never overlap": no two jobs are
\* between taking both locks and dropping the first of them, whatever their
\* kinds and in whatever order the three runners take the locks.
HeavyJobsExclusive ==
  \A i, j \in Jobs : at[i] \in HeavyStates /\ at[j] \in HeavyStates => i = j

\* A lock that is taken has a goroutine that will drop it: no refusal, error or
\* exit path leaves the slot or a guard behind, which would refuse every later
\* job of its kind until a restart.
NoLockLeaked ==
  /\ \A j \in Jobs : mutex = j => at[j] \in SlotStates
  /\ \A r \in Runners : running[r] => \E j \in Jobs : RunnerOf(j) = r /\ at[j] \in GuardStates

\* "A kill -9 mid-verify leaves no orphaned running row after restart": while
\* the service is up, a running row is the row of a job that is working.
RunningRowsAreLive ==
  phase # "down" => \A j \in Jobs : row[j] = "running" => at[j] = "working"

\* No job waits on another: whoever holds the slot, it is freed.
SlotIsFreed == \A j \in Jobs : mutex = j ~> mutex # j

=============================================================================
