--------------------------- MODULE ArcadeGenerate ---------------------------
(***************************************************************************)
(* One pass of the launcher-DB generator (internal/generate), from the     *)
(* opening of its run to the outcome it reports: every system is rendered, *)
(* every render is validated, and each one that passes replaces the served *)
(* metadata.pegasus.txt through a temp sibling, which a kill strands and a *)
(* later process sweeps.                                                   *)
(*                                                                         *)
(* A process makes its passes one at a time (ArcadePipeline); the sweep's  *)
(* second guard is there for restarts that overlap, so several processes   *)
(* may be up.  A render is the set of games it lists.                      *)
(***************************************************************************)
EXTENDS Naturals, FiniteSets

CONSTANTS
  Systems,      \* the systems that are not eXo's, which no pass looks at
  Games,        \* the games a system may have
  Lives,        \* the processes, one after another or overlapping; each has its pid
  MaxToggles,   \* bound on the hide toggles
  MaxFaults,    \* bound on the errors a process meets
  MaxCuts       \* bound on power cuts

ASSUME GenerateAssumption ==
  Systems # {} /\ MaxToggles \in Nat /\ MaxFaults \in Nat /\ MaxCuts \in Nat

VARIABLES
  visible,   \* visible[s]: the games of s in the store that are not hidden
  file,      \* file[s]: the served file; one that is not there lists nothing
  temps,     \* temps[s]: the temp siblings in the directory of s
  life,      \* life[p]: the process p, and its latest pass
  past,      \* history: past[p], of the latest pass of p
  toggles, faults, cuts

generateVars == <<visible, file, temps, life, past, toggles, faults, cuts>>

Writing == {"created", "written", "synced"}

\* safe: its bytes are on the disk.  back: other renders it replaced, while the
\* rename may not be on the disk.
File == [games : SUBSET Games, whole : BOOLEAN, safe : BOOLEAN, back : SUBSET (SUBSET Games)]
NoFile == [games |-> {}, whole |-> TRUE, safe |-> TRUE, back |-> {}]
\* after: the processes that were started when it was written last.
Temp == [by : Lives, after : SUBSET Lives]

Life == [pc : {"off", "idle", "build", "write", "sweep", "dead"},
         at : SUBSET Systems, step : {"next"} \cup Writing,   \* the file being written
         todo : SUBSET Systems,               \* what the present phase has not done
         read : [Systems -> SUBSET Games],    \* the renders
         payloads : SUBSET Systems, failed : SUBSET Systems]

\* good: it was stamped as fully ok.  fresh: no toggle since it began.  lost:
\* files another process replaced since.
Past == [good : BOOLEAN, fresh : BOOLEAN, lost : SUBSET Systems]

GenerateTypeOK ==
  /\ visible \in [Systems -> SUBSET Games] /\ file \in [Systems -> File]
  /\ temps \in [Systems -> SUBSET Temp]
  /\ life \in [Lives -> Life] /\ past \in [Lives -> Past]
  /\ toggles \in 0 .. MaxToggles /\ faults \in 0 .. MaxFaults /\ cuts \in 0 .. MaxCuts

NoRead == [s \in Systems |-> {}]
Off == [pc |-> "off", at |-> {}, step |-> "next", todo |-> {},
        read |-> NoRead, payloads |-> {}, failed |-> {}]
NoPast == [good |-> FALSE, fresh |-> FALSE, lost |-> {}]

GenerateInit ==
  /\ visible \in [Systems -> SUBSET Games]
  /\ file = [s \in Systems |-> NoFile] /\ temps = [s \in Systems |-> {}]
  /\ life = [p \in Lives |-> Off] /\ past = [p \in Lives |-> NoPast]
  /\ toggles = 0 /\ faults = 0 /\ cuts = 0

Up(p) == life[p].pc \notin {"off", "dead"}
Started == {p \in Lives : life[p].pc # "off"}
Fault == faults < MaxFaults /\ faults' = faults + 1

----------------------------------------------------------------------------
(* Curation, and the processes *)

\* A hide toggle: SetGameHidden.
Toggle(s, g) ==
  /\ toggles < MaxToggles /\ toggles' = toggles + 1
  /\ visible' = [visible EXCEPT ![s] = IF g \in @ THEN @ \ {g} ELSE @ \cup {g}]
  /\ past' = [p \in Lives |-> [past[p] EXCEPT !.fresh = FALSE]]
  /\ UNCHANGED <<file, temps, life, faults, cuts>>

StartLife(p) ==
  /\ life[p].pc = "off"
  /\ life' = [life EXCEPT ![p].pc = "idle"]
  /\ UNCHANGED <<visible, file, temps, past, toggles, faults, cuts>>

\* kill -9: the temps stay.  (For the run's row see ArcadePipeline.)
Dead == [Off EXCEPT !.pc = "dead"]
EndLife(p) ==
  /\ Up(p)
  /\ life' = [life EXCEPT ![p] = Dead] /\ past' = [past EXCEPT ![p] = NoPast]
  /\ UNCHANGED <<visible, file, temps, toggles, faults, cuts>>

\* A rename that is not on the disk is undone, or not; bytes that are not there
\* may come back as anything.
PowerCut ==
  /\ cuts < MaxCuts /\ cuts' = cuts + 1
  /\ life' = [p \in Lives |-> IF Up(p) THEN Dead ELSE life[p]]
  /\ past' = [p \in Lives |-> NoPast]
  /\ \E kept \in [Systems -> SUBSET Games] :
       /\ \A s \in Systems : kept[s] \in {file[s].games} \cup file[s].back
       /\ file' = [s \in Systems |-> [NoFile EXCEPT !.games = kept[s],
                                                    !.whole = file[s].whole /\ file[s].safe]]
  /\ UNCHANGED <<visible, temps, toggles, faults>>

----------------------------------------------------------------------------
(* A pass: run(), with both locks held *)

\* StartRun and Systems(); if that fails the run is closed and the pass is over.
BeginPass(p) ==
  /\ life[p].pc = "idle"
  /\ past' = [past EXCEPT ![p] = [NoPast EXCEPT !.fresh = TRUE]]
  /\ \/ /\ life' = [life EXCEPT ![p] = [Off EXCEPT !.pc = "build", !.todo = Systems]]
        /\ UNCHANGED faults
     \/ /\ Fault
        /\ life' = [life EXCEPT ![p] = [Off EXCEPT !.pc = "idle"]]
  /\ UNCHANGED <<visible, file, temps, toggles, cuts>>

\* Phase 1, a system: nothing visible, a render, or a failure (the query, the
\* directory, a launch line that cannot be built).
Build(p, s) ==
  /\ life[p].pc = "build" /\ s \in life[p].todo
  /\ \/ /\ visible[s] = {}
        /\ life' = [life EXCEPT ![p].todo = @ \ {s}]
        /\ UNCHANGED faults
     \/ /\ visible[s] # {}
        /\ life' = [life EXCEPT ![p].todo = @ \ {s}, ![p].payloads = @ \cup {s},
                                ![p].read[s] = visible[s]]
        /\ UNCHANGED faults
     \/ /\ Fault
        /\ life' = [life EXCEPT ![p].todo = @ \ {s}, ![p].failed = @ \cup {s}]
  /\ UNCHANGED <<visible, file, temps, past, toggles, cuts>>

\* Phase 2: the strict parser refuses some renders, or none.
Validate(p) ==
  /\ life[p].pc = "build" /\ life[p].todo = {}
  /\ \E refused \in SUBSET life[p].payloads :
       /\ IF refused = {} THEN UNCHANGED faults ELSE Fault
       /\ life' = [life EXCEPT ![p].pc = "write", ![p].todo = life[p].payloads \ refused,
                               ![p].failed = @ \cup refused]
  /\ UNCHANGED <<visible, file, temps, past, toggles, cuts>>

----------------------------------------------------------------------------
(* Phase 3: writeAtomic *)

Mine(p, s) == {t \in temps[s] : t.by = p}
Stamp(p) == [by |-> p, after |-> Started]

CreateTemp(p, s) ==
  /\ life[p].pc = "write" /\ life[p].step = "next" /\ s \in life[p].todo
  /\ life' = [life EXCEPT ![p].at = {s}, ![p].step = "created"]
  /\ temps' = [temps EXCEPT ![s] = @ \cup {Stamp(p)}]
  /\ UNCHANGED <<visible, file, past, toggles, faults, cuts>>

\* The bytes, which renew the mtime of a temp that is still there.
WriteTemp(p, s) ==
  /\ life[p].pc = "write" /\ s \in life[p].at /\ life[p].step = "created"
  /\ life' = [life EXCEPT ![p].step = "written"]
  /\ temps' = [temps EXCEPT ![s] = IF Mine(p, s) = {} THEN @ ELSE (@ \ Mine(p, s)) \cup {Stamp(p)}]
  /\ UNCHANGED <<visible, file, past, toggles, faults, cuts>>

SyncTemp(p) ==
  /\ life[p].pc = "write" /\ life[p].step = "written"
  /\ life' = [life EXCEPT ![p].step = "synced"]
  /\ UNCHANGED <<visible, file, temps, past, toggles, faults, cuts>>

\* Mutant: renamed without waiting for the bytes to reach the disk.
RenameUnsynced(p, s) ==
  /\ life[p].pc = "write" /\ s \in life[p].at /\ life[p].step \in {"written", "synced"} /\ Mine(p, s) # {}
  /\ \E back \in {{}, ({file[s].games} \cup file[s].back) \ {life[p].read[s]}} :
       file' = [file EXCEPT ![s] = [games |-> life[p].read[s], whole |-> TRUE,
                                    safe |-> life[p].step = "synced", back |-> back]]
  /\ temps' = [temps EXCEPT ![s] = @ \ Mine(p, s)]
  /\ life' = [life EXCEPT ![p].at = {}, ![p].step = "next", ![p].todo = @ \ {s}]
  /\ past' = [q \in Lives |-> IF q = p THEN past[q] ELSE [past[q] EXCEPT !.lost = @ \cup {s}]]
  /\ UNCHANGED <<visible, toggles, faults, cuts>>

\* The rename over the served file, and the sync of the directory, whose failure
\* is ignored.
Rename(p, s) ==
  /\ life[p].pc = "write" /\ s \in life[p].at /\ life[p].step = "synced" /\ Mine(p, s) # {}
  /\ \E back \in {{}, ({file[s].games} \cup file[s].back) \ {life[p].read[s]}} :
       file' = [file EXCEPT ![s] = [games |-> life[p].read[s], whole |-> TRUE,
                                    safe |-> TRUE, back |-> back]]
  /\ temps' = [temps EXCEPT ![s] = @ \ Mine(p, s)]
  /\ life' = [life EXCEPT ![p].at = {}, ![p].step = "next", ![p].todo = @ \ {s}]
  /\ past' = [q \in Lives |-> IF q = p THEN past[q] ELSE [past[q] EXCEPT !.lost = @ \cup {s}]]
  /\ UNCHANGED <<visible, toggles, faults, cuts>>

\* Mutant: the failure of a write is logged and not recorded.
WriteFailsUnrecorded(p, s) ==
  /\ life[p].pc = "write" /\ s \in life[p].todo /\ life[p].at \in {{}, {s}}
  /\ Fault \/ (life[p].step = "synced" /\ Mine(p, s) = {} /\ UNCHANGED faults)
  /\ life' = [life EXCEPT ![p].at = {}, ![p].step = "next", ![p].todo = @ \ {s}]
  /\ temps' = [temps EXCEPT ![s] = @ \ Mine(p, s)]
  /\ UNCHANGED <<visible, file, past, toggles, cuts>>

\* The temp cannot be created, or a later step fails, the chmod and the rename
\* of a temp that is gone among them; what is left of the temp is removed.
WriteFails(p, s) ==
  /\ life[p].pc = "write" /\ s \in life[p].todo /\ life[p].at \in {{}, {s}}
  /\ Fault \/ (life[p].step = "synced" /\ Mine(p, s) = {} /\ UNCHANGED faults)
  /\ life' = [life EXCEPT ![p].at = {}, ![p].step = "next", ![p].todo = @ \ {s},
                          ![p].failed = @ \cup {s}]
  /\ temps' = [temps EXCEPT ![s] = @ \ Mine(p, s)]
  /\ UNCHANGED <<visible, file, past, toggles, cuts>>

----------------------------------------------------------------------------
(* sweepStaleTemps, and the end *)

\* Mutant: only the directories that were written to are swept.
AllWrittenSwept(p) ==
  /\ life[p].pc = "write" /\ life[p].todo = {} /\ life[p].step = "next"
  /\ life' = [life EXCEPT ![p].pc = "sweep", ![p].todo = life[p].payloads \ life[p].failed]
  /\ UNCHANGED <<visible, file, temps, past, toggles, faults, cuts>>

AllWritten(p) ==
  /\ life[p].pc = "write" /\ life[p].todo = {} /\ life[p].step = "next"
  /\ life' = [life EXCEPT ![p].pc = "sweep", ![p].todo = life[p].payloads]
  /\ UNCHANGED <<visible, file, temps, past, toggles, faults, cuts>>

\* Not mine by its pid, and older than this process.
Stale(p, t) == t.by # p /\ p \notin t.after

SweepTemps(p, s) ==
  /\ life[p].pc = "sweep" /\ s \in life[p].todo
  /\ temps' = [temps EXCEPT ![s] = {t \in @ : ~Stale(p, t)}]
  /\ life' = [life EXCEPT ![p].todo = @ \ {s}]
  /\ UNCHANGED <<visible, file, past, toggles, faults, cuts>>

\* finishRun, and the stamp of a fully ok run.
FinishPass(p) ==
  /\ life[p].pc = "sweep" /\ life[p].todo = {}
  /\ life' = [life EXCEPT ![p].pc = "idle"]
  /\ past' = [past EXCEPT ![p].good = (life[p].failed = {})]
  /\ UNCHANGED <<visible, file, temps, toggles, faults, cuts>>

Pass(p) ==
  \/ BeginPass(p) \/ Validate(p) \/ SyncTemp(p) \/ AllWritten(p) \/ FinishPass(p)
  \/ \E s \in Systems :
       Build(p, s) \/ CreateTemp(p, s) \/ WriteTemp(p, s) \/ Rename(p, s) \/ WriteFails(p, s)
         \/ SweepTemps(p, s)

GenerateNext ==
  \/ \E s \in Systems, g \in Games : Toggle(s, g)
  \/ \E p \in Lives : StartLife(p) \/ EndLife(p) \/ Pass(p)
  \/ PowerCut

GenerateSpec == GenerateInit /\ [][GenerateNext]_generateVars

----------------------------------------------------------------------------
(* Properties *)

\* "Writes are temp-sibling + fsync + rename": whatever fails, is killed or
\* loses power, what the kiosks read is a render somebody finished.
ServedWhole == \A s \in Systems : file[s].whole

\* The latest pass of p ended fully ok, and no other process replaced the file
\* of s since it began.
Vouched(p, s) == past[p].good /\ s \notin past[p].lost

\* No failed, swept or interrupted write hides behind a pass stamped as fully
\* ok: it served every render it made.  And curation is "reflected in the next
\* generation": if it began after the latest toggle, it shows all that is
\* visible, where anything is.
OkMeansServed ==
  \A p \in Lives, s \in Systems : Vouched(p, s) =>
    /\ life[p].read[s] # {} => file[s].games = life[p].read[s]
    /\ past[p].fresh /\ visible[s] # {} => file[s].games = visible[s]

\* "Any failure removes the temp": a process that lives has a temp only where it
\* is writing one.  And residue older than a process is gone from every
\* directory it generated into once its pass is over, refused renders included
\* (ADV-P6-02).
NoLitter ==
  \A s \in Systems : \A t \in temps[s] :
    /\ Up(t.by) => life[t.by].pc = "write" /\ s \in life[t.by].at
    /\ \A p \in Lives : life[p].pc = "idle" /\ s \in life[p].payloads => ~Stale(p, t)

\* "Hidden games are excluded": once a pass that began after the latest toggle
\* ended fully ok, no served file lists a game that is hidden.
HiddenStaysOff ==
  \A p \in Lives, s \in Systems :
    Vouched(p, s) /\ past[p].fresh => file[s].games \subseteq visible[s]
=============================================================================
