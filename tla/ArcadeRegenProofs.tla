------------------------- MODULE ArcadeRegenProofs --------------------------
(***************************************************************************)
(* The heavy-job slot and the coordinator that waits for it.               *)
(*                                                                         *)
(* The coordinator, for any number of curators and any scenario: no edit is *)
(* forgotten, no pass overwrites a later one, a busy episode writes one row, *)
(* and the promotions reach the kiosks.  The invariant adds what it relies on *)
(* without saying it: whoever reads the store does so alone; whatever a pass *)
(* under way has not read is still marked by somebody else; and the games  *)
(* table knows the newest promotion unless a rescan of it is to come or was *)
(* lost.                                                                   *)
(*                                                                         *)
(* The slot, for any number of verify, scrape and generate goroutines and any *)
(* number of kills: the heavy jobs exclude each other, no lock is leaked or *)
(* unlocked twice, and no running row outlives its job.  The invariant says *)
(* who must drop each lock: the slot belongs to the one goroutine in a slot *)
(* state, a guard is up for the one goroutine of its runner in a guard state. *)
(*                                                                         *)
(* One pass, for any number of systems and of processes that overlap, with any *)
(* number of errors, kills and power cuts: what the kiosks read is whole, a *)
(* pass stamped as ok served what is visible, and no temp stays.  The      *)
(* invariant says where each render of a pass is, and what a process has   *)
(* on the disk in each phase.                                              *)
(***************************************************************************)
EXTENDS ArcadeRegen, ArcadePipeline, ArcadeGenerate, TLAPS

InSlot == {"claimed", "optsRead", "built", "releasing"}

\* The slot belongs to the one generator between its claim and its release, or
\* to the verify batch; the worker is generating while its generator runs.
SlotAccounted ==
  /\ \A g \in Generators : slot = g <=> gen[g] \in InSlot
  /\ slot = "verify" <=> verify \in {"batch", "copied"}
  /\ gen["worker"] # "no" <=> worker = "generating"

\* Whoever holds a reading of the store holds one no older than the files.
ReadingsNewer ==
  /\ served.opts <= edits /\ served.games <= edits
  /\ served.rows <= rows /\ rows <= tree
  /\ \A g \in Generators :
       /\ gen[g] \in {"optsRead", "built"} =>
            served.opts <= seen[g].opts /\ seen[g].opts <= edits
       /\ gen[g] = "built" =>
            served.games <= seen[g].games /\ seen[g].games <= edits /\ seen[g].rows <= rows

\* An edit a pass has not seen is asked for, or the worker will still see it.
EditCovered == dirty \/ WorkerWillServe \/ \E c \in Curators : req[c] = "due"
EditsCovered ==
  /\ EditsServed \/ EditCovered \/ lastPass = "failed" \/ forgotten
  /\ \A g \in Generators :
       /\ gen[g] = "optsRead" => seen[g].opts = edits \/ EditCovered
       /\ gen[g] = "built" => (seen[g].opts = edits /\ seen[g].games = edits) \/ EditCovered

\* A scan runs for the verify exactly while that waits for it; what a walk has
\* found is the newest tree, unless files came in since.
ScanSound ==
  /\ verify = "scanning" <=> scan.st # "no" /\ scan.by = "verify"
  /\ scan.st = "walked" =>
       /\ rows <= scan.walked /\ scan.walked <= tree
       /\ scan.walked = tree \/ missed \/ verify \in {"copied", "rescan"}
       /\ scan.by = "verify" => scan.walked = tree

\* The games table knows the newest files, or a rescan will tell it, or they are
\* missed, or it is not decided yet.
RowsFollow ==
  \/ missed \/ rows = tree \/ verify \in {"copied", "rescan"}
  \/ verify = "scanning" /\ scan.st \in {"started", "walked"}

\* The same of promotions as of edits.
WorkerWillServeRows ==
  \/ worker \in {"gate", "take"}
  \/ worker = "generating" /\
       \/ gen["worker"] \in {"asked", "claimed", "optsRead"}
       \/ gen["worker"] = "built" /\ seen["worker"].rows = tree
       \/ gen["worker"] \in Ending /\ result["worker"] \in {"busy", "error"}
PromotionCovered ==
  \/ verify \in {"copied", "rescan", "scanning"} \/ req["verify"] = "due"
  \/ dirty \/ WorkerWillServeRows \/ missed
PromotionsCovered ==
  /\ served.rows = tree \/ PromotionCovered \/ lastPass = "failed"
  /\ \A g \in Generators : gen[g] = "built" => seen[g].rows = tree \/ PromotionCovered

\* The one row of an episode is remembered for as long as it lasts.
RowRemembered == deferrals \in {0, 1} /\ (deferrals = 1 <=> deferredRow)

Accounts ==
  /\ SlotAccounted /\ ReadingsNewer /\ EditsCovered
  /\ ScanSound /\ RowsFollow /\ PromotionsCovered
  /\ RowRemembered

RegenInv == TypeOK /\ Accounts

----------------------------------------------------------------------------
(* Type correctness, which is inductive by itself *)

LEMMA TypingInit == Init => TypeOK
<1> SUFFICES ASSUME Init PROVE TypeOK
  OBVIOUS
<1>1. CoordTypeOK
  BY DEF Init, CoordTypeOK
<1>2. GenTypeOK
  BY DEF Init, GenTypeOK, Version, Generators
<1>3. TreesTypeOK
  BY DEF Init, TreesTypeOK, NoScan
<1>4. left \in [edits : Nat, verifies : Nat, scans : Nat, clicks : Nat, faults : Nat, kills : Nat]
  BY RegenAssumption DEF Init
<1> QED BY <1>1, <1>2, <1>3, <1>4 DEF Init, TypeOK

\* What is left of a scenario never goes below nothing.
LEMMA SpendTyping ==
  ASSUME TypeOK, NEW what \in {"edits", "verifies", "scans", "clicks", "faults", "kills"},
         Spend(what)
  PROVE  left' \in [edits : Nat, verifies : Nat, scans : Nat, clicks : Nat, faults : Nat,
                    kills : Nat]
BY DEF TypeOK, Spend

LEMMA TypingStep == TypeOK /\ [Next]_vars => TypeOK'
<1> SUFFICES ASSUME TypeOK, [Next]_vars PROVE TypeOK'
  OBVIOUS
<1> DEFINE LeftOK == left \in [edits : Nat, verifies : Nat, scans : Nat, clicks : Nat,
                               faults : Nat, kills : Nat]
<1> DEFINE ReqOK == edits \in Nat /\ req \in [Requesters -> {"no", "due", "marked"}]
<1> DEFINE HistoryOK == deferrals \in Nat /\ forgotten \in BOOLEAN /\ missed \in BOOLEAN
<1> SUFFICES CoordTypeOK' /\ GenTypeOK' /\ TreesTypeOK' /\ ReqOK' /\ LeftOK' /\ HistoryOK'
  BY DEF TypeOK
<1>1. CoordTypeOK /\ GenTypeOK /\ TreesTypeOK /\ ReqOK /\ LeftOK /\ HistoryOK
  BY DEF TypeOK
<1>2. ASSUME NEW c \in Curators, Edit(c)
      PROVE  CoordTypeOK' /\ GenTypeOK' /\ TreesTypeOK' /\ ReqOK' /\ LeftOK' /\ HistoryOK'
  <2>1. LeftOK'
    BY <1>2, SpendTyping DEF Edit
  <2>2. CoordTypeOK'
    BY <1>1, <1>2 DEF Edit, coordVars, CoordTypeOK
  <2>3. GenTypeOK' /\ TreesTypeOK' /\ HistoryOK'
    BY <1>1, <1>2 DEF Edit, genVars, treeVars, history, GenTypeOK, TreesTypeOK
  <2>4. ReqOK'
    BY <1>1, <1>2 DEF Edit, Requesters
  <2> QED BY <2>1, <2>2, <2>3, <2>4
<1>3. ASSUME NEW p \in Requesters, Ask(p)
      PROVE  CoordTypeOK' /\ GenTypeOK' /\ TreesTypeOK' /\ ReqOK' /\ LeftOK' /\ HistoryOK'
  <2>1. CoordTypeOK'
    BY <1>1, <1>3 DEF Ask, Request, CoordTypeOK, Origin, Origins
  <2>2. GenTypeOK' /\ TreesTypeOK' /\ HistoryOK' /\ LeftOK'
    BY <1>1, <1>3 DEF Ask, genVars, treeVars, history, GenTypeOK, TreesTypeOK
  <2>3. ReqOK'
    BY <1>1, <1>3 DEF Ask, Request
  <2> QED BY <2>1, <2>2, <2>3
<1>4. CASE Silence
  <2>1. CoordTypeOK'
    BY <1>1, <1>4 DEF Silence, CoordTypeOK
  <2> QED BY <1>1, <1>4, <2>1
          DEF Silence, genVars, treeVars, history, GenTypeOK, TreesTypeOK
<1>5. CASE Worker
  <2>1. CoordTypeOK'
    BY <1>1, <1>5 DEF Worker, Wake, ClaimDirty, QuietGate, TakeOrigins, PassPutOff,
                      PassDone,
                      BackoffEnds, CoordTypeOK
  <2>2. GenTypeOK'
    <3>1. \/ gen' = gen
          \/ gen' = [gen EXCEPT !["worker"] = "asked"]
          \/ gen' = [gen EXCEPT !["worker"] = "no"]
      BY <1>5 DEF Worker, Wake, ClaimDirty, QuietGate, TakeOrigins, PassPutOff, PassDone,
                  BackoffEnds
    <3>2. UNCHANGED <<slot, seen, result, served, lastPass>>
      BY <1>5 DEF Worker
    <3> QED BY <1>1, <3>1, <3>2 DEF GenTypeOK, Generators
  <2>3. HistoryOK'
    <3>1. deferrals' \in {deferrals, deferrals + 1, 0}
      BY <1>5 DEF Worker, Wake, ClaimDirty, QuietGate, TakeOrigins, PassPutOff, PassDone,
                  BackoffEnds
    <3>2. UNCHANGED <<forgotten, missed>>
      BY <1>5 DEF Worker
    <3> QED BY <1>1, <3>1, <3>2
  <2> QED BY <1>1, <1>5, <2>1, <2>2, <2>3 DEF Worker, treeVars, TreesTypeOK
<1>6. ASSUME NEW g \in Generators, Generate(g)
      PROVE  CoordTypeOK' /\ GenTypeOK' /\ TreesTypeOK' /\ ReqOK' /\ LeftOK' /\ HistoryOK'
  <2>1. CoordTypeOK'
    BY <1>1, <1>6 DEF Generate, coordVars, CoordTypeOK
  <2>2. GenTypeOK'
    <3>1. CASE Claim(g) \/ ReadFails(g) \/ LetGo(g)
      BY <1>1, <3>1 DEF Claim, ReadFails, LetGo, GenTypeOK
    <3>2. CASE ReadStore(g)
      <4>1. edits \in Nat /\ rows \in Nat
        BY <1>1 DEF TreesTypeOK
      <4>2. /\ gen' \in [Generators ->
                       {"no", "asked", "claimed", "optsRead", "built", "releasing", "leaving",
                        "returned"}]
            /\ UNCHANGED <<slot, result, served, lastPass>>
        BY <1>1, <3>2 DEF ReadStore, GenTypeOK
      <4>3. seen' \in [Generators -> Version]
        <5>1. seen[g] \in Version /\ seen \in [Generators -> Version]
          BY <1>1 DEF GenTypeOK
        <5>2. \/ seen' = [seen EXCEPT ![g] = [seen[g] EXCEPT !.opts = edits]]
              \/ seen' = [seen EXCEPT ![g] =
                            [seen[g] EXCEPT !.games = edits, !.rows = rows]]
          BY <3>2, <5>1 DEF ReadStore
        <5> QED BY <4>1, <5>1, <5>2 DEF Version
      <4> QED BY <1>1, <4>2, <4>3 DEF GenTypeOK
    <3>3. CASE Write(g)
      BY <1>1, <3>3 DEF Write, GenTypeOK
    <3> QED BY <1>6, <3>1, <3>2, <3>3 DEF Generate
  <2>3. LeftOK'
    BY <1>1, <1>6, SpendTyping DEF Generate, Claim, ReadStore, ReadFails, Write, LetGo
  <2>4. HistoryOK'
    BY <1>1, <1>6 DEF Generate, Claim, ReadStore, ReadFails, Write, LetGo
  <2> QED BY <1>1, <1>6, <2>1, <2>2, <2>3, <2>4 DEF Generate, treeVars, TreesTypeOK
<1>7. CASE Click
  <2>1. LeftOK' /\ GenTypeOK'
    BY <1>1, <1>7, SpendTyping DEF Click, GenTypeOK, Generators
  <2>2. CoordTypeOK'
    BY <1>1, <1>7 DEF Click, coordVars, CoordTypeOK
  <2> QED BY <1>1, <1>7, <2>1, <2>2 DEF Click, treeVars, history, TreesTypeOK
<1>8. CASE Answer
  <2>1. GenTypeOK'
    BY <1>1, <1>8 DEF Answer, GenTypeOK, Generators
  <2>2. CoordTypeOK'
    BY <1>1, <1>8 DEF Answer, CoordTypeOK
  <2> QED BY <1>1, <1>8, <2>1, <2>2 DEF Answer, treeVars, history, TreesTypeOK
<1>9. CASE Trees(VerifyBatch \/ Rescan \/ ScanStep \/ ScanFails \/ UserScan)
  <2>1. CoordTypeOK'
    BY <1>1, <1>9 DEF Trees, coordVars, CoordTypeOK
  <2>2. GenTypeOK'
    BY <1>1, <1>9 DEF Trees, VerifyBatch, Rescan, ScanStep, ScanFails, UserScan, GenTypeOK
  <2>3. LeftOK'
    BY <1>1, <1>9, SpendTyping DEF Trees, VerifyBatch, Rescan, ScanStep, ScanFails, UserScan
  <2>4. TreesTypeOK'
    <3>1. CASE VerifyBatch
      BY <1>1, <3>1 DEF VerifyBatch, TreesTypeOK
    <3>2. CASE Rescan
      <4>1. scan' = scan \/ scan' = [st |-> "started", by |-> "verify", walked |-> 0]
        BY <3>2 DEF Rescan, NoScan
      <4> QED BY <1>1, <3>2, <4>1 DEF Rescan, TreesTypeOK
    <3>3. CASE ScanStep
      <4>1. CASE scan.st = "started"
        <5>1. scan' = [st |-> "walked", by |-> scan.by, walked |-> tree]
          BY <1>1, <3>3, <4>1 DEF ScanStep, TreesTypeOK
        <5> QED BY <1>1, <3>3, <4>1, <5>1 DEF ScanStep, TreesTypeOK
      <4>2. CASE scan.st = "walked"
        BY <1>1, <3>3, <4>2 DEF ScanStep, TreesTypeOK
      <4>3. CASE scan.st = "persisted"
        BY <1>1, <3>3, <4>3 DEF ScanStep, NoScan, TreesTypeOK
      <4> QED BY <3>3, <4>1, <4>2, <4>3 DEF ScanStep
    <3>4. CASE UserScan
      BY <1>1, <3>4 DEF UserScan, NoScan, TreesTypeOK
    <3>5. CASE ScanFails
      BY <1>1, <3>5 DEF ScanFails, TreesTypeOK
    <3> QED BY <1>9, <3>1, <3>2, <3>3, <3>4, <3>5 DEF Trees
  <2>5. ReqOK'
    BY <1>1, <1>9 DEF Trees, VerifyBatch, Rescan, ScanStep, ScanFails, UserScan, Requesters
  <2>6. HistoryOK'
    BY <1>1, <1>9 DEF Trees, VerifyBatch, Rescan, ScanStep, ScanFails, UserScan
  <2> QED BY <2>1, <2>2, <2>3, <2>4, <2>5, <2>6
<1>10. CASE Kill
  <2>1. CoordTypeOK'
    BY <1>1, <1>10 DEF Kill, CoordTypeOK
  <2>2. GenTypeOK' /\ TreesTypeOK'
    BY <1>1, <1>10 DEF Kill, GenTypeOK, TreesTypeOK, NoScan
  <2>3. LeftOK' /\ ReqOK' /\ HistoryOK'
    BY <1>1, <1>10, SpendTyping DEF Kill
  <2> QED BY <2>1, <2>2, <2>3
<1>11. CASE UNCHANGED vars
  <2>1. CoordTypeOK'
    BY <1>1, <1>11 DEF vars, coordVars, CoordTypeOK
  <2> QED BY <1>1, <1>11, <2>1
          DEF vars, genVars, treeVars, history, GenTypeOK, TreesTypeOK
<1> QED BY <1>2, <1>3, <1>4, <1>5, <1>6, <1>7, <1>8, <1>9, <1>10, <1>11 DEF Next

\* Asking: an edit is covered by its own request, which gives way to the flag in
\* one step.
LEMMA RequestsKept ==
  ASSUME RegenInv, (\E c \in Curators : Edit(c)) \/ (\E p \in Requesters : Ask(p)) \/ Silence
  PROVE  Accounts'
<1> USE RegenAssumption
        DEF RegenInv, Accounts, TypeOK, CoordTypeOK, GenTypeOK, TreesTypeOK, Version,
            Generators,
            Requesters, coordVars, genVars, treeVars, history, InSlot, Ending, EditsServed,
            EditCovered, WorkerWillServe, PromotionCovered, WorkerWillServeRows
<1>1. ASSUME NEW c \in Curators, Edit(c) PROVE Accounts'
  <2>1. ReadingsNewer'
    BY <1>1 DEF Edit, ReadingsNewer, SlotAccounted
  <2>2. EditsCovered'
    BY <1>1 DEF Edit, EditsCovered, SlotAccounted, ReadingsNewer
  <2>3. PromotionsCovered'
    BY <1>1 DEF Edit, PromotionsCovered, SlotAccounted, ReadingsNewer, RowsFollow, ScanSound
  <2>4. SlotAccounted' /\ ScanSound' /\ RowsFollow' /\ RowRemembered'
    BY <1>1 DEF Edit, SlotAccounted, ScanSound, RowsFollow, RowRemembered
  <2> QED BY <2>1, <2>2, <2>3, <2>4
<1>2. ASSUME NEW p \in Requesters, Ask(p) PROVE Accounts'
  <2>1. EditsCovered'
    BY <1>2 DEF Ask, Request, EditsCovered, SlotAccounted, ReadingsNewer
  <2>2. PromotionsCovered'
    BY <1>2 DEF Ask, Request, PromotionsCovered, SlotAccounted, ReadingsNewer, RowsFollow,
       ScanSound
  <2>3. SlotAccounted' /\ ReadingsNewer' /\ ScanSound' /\ RowsFollow' /\ RowRemembered'
    BY <1>2 DEF Ask, Request, SlotAccounted, ReadingsNewer, ScanSound, RowsFollow,
       RowRemembered
  <2> QED BY <2>1, <2>2, <2>3
<1>3. CASE Silence
  <2>1. SlotAccounted' /\ ReadingsNewer' /\ EditsCovered' /\ ScanSound' /\ RowsFollow' /\
        PromotionsCovered' /\ RowRemembered'
    BY <1>3 DEF Silence, SlotAccounted, ReadingsNewer, EditsCovered, ScanSound, RowsFollow,
       PromotionsCovered, RowRemembered
  <2> QED BY <2>1
<1> QED BY <1>1, <1>2, <1>3

\* The worker: it lowers the flag by taking the work over, and raises it again
\* when it returns without having read the store.
LEMMA WorkerKept ==
  ASSUME RegenInv, Worker
  PROVE  Accounts'
<1> USE RegenAssumption
        DEF RegenInv, Accounts, TypeOK, CoordTypeOK, GenTypeOK, TreesTypeOK, Version,
            Generators,
            Requesters, coordVars, genVars, treeVars, history, InSlot, Ending, EditsServed,
            EditCovered, WorkerWillServe, PromotionCovered, WorkerWillServeRows
<1>1. CASE Wake
  <2>1. SlotAccounted'
    BY <1>1 DEF Wake, Worker, SlotAccounted
  <2>2. EditsCovered'
    BY <1>1 DEF Wake, Worker, EditsCovered, SlotAccounted, ReadingsNewer
  <2>3. PromotionsCovered'
    BY <1>1 DEF Wake, Worker, PromotionsCovered, SlotAccounted, ReadingsNewer, RowsFollow,
       ScanSound
  <2>4. ReadingsNewer' /\ ScanSound' /\ RowsFollow' /\ RowRemembered'
    BY <1>1 DEF Wake, Worker, ReadingsNewer, ScanSound, RowsFollow, RowRemembered
  <2> QED BY <2>1, <2>2, <2>3, <2>4
<1>2. CASE ClaimDirty
  <2>1. SlotAccounted'
    BY <1>2 DEF ClaimDirty, Worker, SlotAccounted
  <2>2. EditsCovered'
    BY <1>2 DEF ClaimDirty, Worker, EditsCovered, SlotAccounted, ReadingsNewer
  <2>3. PromotionsCovered'
    BY <1>2 DEF ClaimDirty, Worker, PromotionsCovered, SlotAccounted, ReadingsNewer,
       RowsFollow, ScanSound
  <2>4. ReadingsNewer' /\ ScanSound' /\ RowsFollow' /\ RowRemembered'
    BY <1>2 DEF ClaimDirty, Worker, ReadingsNewer, ScanSound, RowsFollow, RowRemembered
  <2> QED BY <2>1, <2>2, <2>3, <2>4
<1>3. CASE QuietGate
  <2>1. SlotAccounted'
    BY <1>3 DEF QuietGate, Worker, SlotAccounted
  <2>2. EditsCovered'
    BY <1>3 DEF QuietGate, Worker, EditsCovered, SlotAccounted, ReadingsNewer
  <2>3. PromotionsCovered'
    BY <1>3 DEF QuietGate, Worker, PromotionsCovered, SlotAccounted, ReadingsNewer,
       RowsFollow, ScanSound
  <2>4. ReadingsNewer' /\ ScanSound' /\ RowsFollow' /\ RowRemembered'
    BY <1>3 DEF QuietGate, Worker, ReadingsNewer, ScanSound, RowsFollow, RowRemembered
  <2> QED BY <2>1, <2>2, <2>3, <2>4
<1>4. CASE TakeOrigins
  <2>1. SlotAccounted'
    BY <1>4 DEF TakeOrigins, Worker, SlotAccounted
  <2>2. ReadingsNewer'
    BY <1>4 DEF TakeOrigins, Worker, ReadingsNewer, SlotAccounted
  <2>3. EditsCovered'
    BY <1>4 DEF TakeOrigins, Worker, EditsCovered, SlotAccounted, ReadingsNewer
  <2>4. PromotionsCovered'
    BY <1>4 DEF TakeOrigins, Worker, PromotionsCovered, SlotAccounted, ReadingsNewer,
       RowsFollow, ScanSound
  <2>5. ScanSound' /\ RowsFollow' /\ RowRemembered'
    BY <1>4 DEF TakeOrigins, Worker, ScanSound, RowsFollow, RowRemembered
  <2> QED BY <2>1, <2>2, <2>3, <2>4, <2>5
<1>5. CASE PassPutOff
  <2>1. SlotAccounted'
    BY <1>5 DEF PassPutOff, Returned, Worker, SlotAccounted
  <2>2. ReadingsNewer'
    BY <1>5 DEF PassPutOff, Returned, Worker, ReadingsNewer, SlotAccounted
  <2>3. EditsCovered'
    BY <1>5 DEF PassPutOff, Returned, Worker, EditsCovered, SlotAccounted, ReadingsNewer
  <2>4. PromotionsCovered'
    BY <1>5 DEF PassPutOff, Returned, Worker, PromotionsCovered, SlotAccounted,
       ReadingsNewer, RowsFollow, ScanSound
  <2>5. RowRemembered'
    BY <1>5 DEF PassPutOff, Returned, Worker, RowRemembered
  <2>6. ScanSound' /\ RowsFollow'
    BY <1>5 DEF PassPutOff, Returned, Worker, ScanSound, RowsFollow
  <2> QED BY <2>1, <2>2, <2>3, <2>4, <2>5, <2>6
<1>6. CASE PassDone
  <2>1. SlotAccounted'
    BY <1>6 DEF PassDone, Returned, Worker, SlotAccounted
  <2>2. ReadingsNewer'
    BY <1>6 DEF PassDone, Returned, Worker, ReadingsNewer, SlotAccounted
  <2>3. EditsCovered'
    BY <1>6 DEF PassDone, Returned, Worker, EditsCovered, SlotAccounted, ReadingsNewer
  <2>4. PromotionsCovered'
    BY <1>6 DEF PassDone, Returned, Worker, PromotionsCovered, SlotAccounted, ReadingsNewer,
       RowsFollow, ScanSound
  <2>5. RowRemembered'
    BY <1>6 DEF PassDone, Returned, Worker, RowRemembered
  <2>6. ScanSound' /\ RowsFollow'
    BY <1>6 DEF PassDone, Returned, Worker, ScanSound, RowsFollow
  <2> QED BY <2>1, <2>2, <2>3, <2>4, <2>5, <2>6
<1>7. CASE BackoffEnds
  <2>1. SlotAccounted'
    BY <1>7 DEF BackoffEnds, Worker, SlotAccounted
  <2>2. EditsCovered'
    BY <1>7 DEF BackoffEnds, Worker, EditsCovered, SlotAccounted, ReadingsNewer
  <2>3. PromotionsCovered'
    BY <1>7 DEF BackoffEnds, Worker, PromotionsCovered, SlotAccounted, ReadingsNewer,
       RowsFollow, ScanSound
  <2>4. ReadingsNewer' /\ ScanSound' /\ RowsFollow' /\ RowRemembered'
    BY <1>7 DEF BackoffEnds, Worker, ReadingsNewer, ScanSound, RowsFollow, RowRemembered
  <2> QED BY <2>1, <2>2, <2>3, <2>4
<1> QED BY <1>1, <1>2, <1>3, <1>4, <1>5, <1>6, <1>7 DEF Worker

\* The generator: a reading taken under the slot is the newest there is, and what
\* the pass that writes it did not see is covered by somebody else.
LEMMA GeneratorKept ==
  ASSUME RegenInv, NEW g \in Generators, Generate(g)
  PROVE  Accounts'
<1> USE RegenAssumption
        DEF RegenInv, Accounts, TypeOK, CoordTypeOK, GenTypeOK, TreesTypeOK, Version,
            Generators,
            Requesters, coordVars, genVars, treeVars, history, InSlot, Ending, EditsServed,
            EditCovered, WorkerWillServe, PromotionCovered, WorkerWillServeRows
<1>1. CASE Claim(g)
  <2>1. SlotAccounted'
    BY <1>1 DEF Claim, Generate, SlotAccounted
  <2>2. ReadingsNewer'
    BY <1>1 DEF Claim, Generate, ReadingsNewer, SlotAccounted
  <2>3. EditsCovered'
    BY <1>1 DEF Claim, Generate, EditsCovered, SlotAccounted, ReadingsNewer
  <2>4. PromotionsCovered'
    BY <1>1 DEF Claim, Generate, PromotionsCovered, SlotAccounted, ReadingsNewer,
       RowsFollow, ScanSound
  <2>5. ScanSound' /\ RowsFollow' /\ RowRemembered'
    BY <1>1 DEF Claim, Generate, ScanSound, RowsFollow, RowRemembered
  <2> QED BY <2>1, <2>2, <2>3, <2>4, <2>5
<1>2. CASE ReadStore(g)
  <2>1. SlotAccounted'
    BY <1>2 DEF ReadStore, Generate, SlotAccounted
  <2>2. ReadingsNewer'
    BY <1>2 DEF ReadStore, Generate, ReadingsNewer, SlotAccounted
  <2>3. EditsCovered'
    BY <1>2 DEF ReadStore, Generate, EditsCovered, SlotAccounted, ReadingsNewer
  <2>4. PromotionsCovered'
    BY <1>2 DEF ReadStore, Generate, PromotionsCovered, SlotAccounted, ReadingsNewer,
       RowsFollow, ScanSound
  <2>5. ScanSound' /\ RowsFollow' /\ RowRemembered'
    BY <1>2 DEF ReadStore, Generate, ScanSound, RowsFollow, RowRemembered
  <2> QED BY <2>1, <2>2, <2>3, <2>4, <2>5
<1>3. CASE ReadFails(g)
  <2>1. SlotAccounted'
    BY <1>3 DEF ReadFails, Generate, SlotAccounted
  <2>2. ReadingsNewer'
    BY <1>3 DEF ReadFails, Generate, ReadingsNewer, SlotAccounted
  <2>3. EditsCovered'
    BY <1>3 DEF ReadFails, Generate, EditsCovered, SlotAccounted, ReadingsNewer
  <2>4. PromotionsCovered'
    BY <1>3 DEF ReadFails, Generate, PromotionsCovered, SlotAccounted, ReadingsNewer,
       RowsFollow, ScanSound
  <2>5. ScanSound' /\ RowsFollow' /\ RowRemembered'
    BY <1>3 DEF ReadFails, Generate, ScanSound, RowsFollow, RowRemembered
  <2> QED BY <2>1, <2>2, <2>3, <2>4, <2>5
<1>4. CASE Write(g)
  <2>1. SlotAccounted'
    BY <1>4 DEF Write, Generate, SlotAccounted
  <2>2. ReadingsNewer'
    BY <1>4 DEF Write, Generate, ReadingsNewer, SlotAccounted
  <2>3. EditsCovered'
    BY <1>4 DEF Write, Generate, EditsCovered, SlotAccounted, ReadingsNewer
  <2>4. PromotionsCovered'
    BY <1>4 DEF Write, Generate, PromotionsCovered, SlotAccounted, ReadingsNewer,
       RowsFollow, ScanSound
  <2>5. ScanSound'
    BY <1>4 DEF Write, Generate, ScanSound, ReadingsNewer, RowsFollow
  <2>6. RowsFollow'
    BY <1>4 DEF Write, Generate, RowsFollow, ScanSound, ReadingsNewer
  <2>7. RowRemembered'
    BY <1>4 DEF Write, Generate, RowRemembered
  <2> QED BY <2>1, <2>2, <2>3, <2>4, <2>5, <2>6, <2>7
<1>5. CASE LetGo(g)
  <2>1. SlotAccounted'
    BY <1>5 DEF LetGo, Generate, SlotAccounted
  <2>2. ReadingsNewer'
    BY <1>5 DEF LetGo, Generate, ReadingsNewer, SlotAccounted
  <2>3. EditsCovered'
    BY <1>5 DEF LetGo, Generate, EditsCovered, SlotAccounted, ReadingsNewer
  <2>4. PromotionsCovered'
    BY <1>5 DEF LetGo, Generate, PromotionsCovered, SlotAccounted, ReadingsNewer,
       RowsFollow, ScanSound
  <2>5. ScanSound' /\ RowsFollow' /\ RowRemembered'
    BY <1>5 DEF LetGo, Generate, ScanSound, RowsFollow, RowRemembered
  <2> QED BY <2>1, <2>2, <2>3, <2>4, <2>5
<1> QED BY <1>1, <1>2, <1>3, <1>4, <1>5 DEF Generate

\* The button only starts and collects a generation.
LEMMA ButtonKept ==
  ASSUME RegenInv, Click \/ Answer
  PROVE  Accounts'
<1> USE RegenAssumption
        DEF RegenInv, Accounts, TypeOK, CoordTypeOK, GenTypeOK, TreesTypeOK, Version,
            Generators,
            Requesters, coordVars, genVars, treeVars, history, InSlot, Ending, EditsServed,
            EditCovered, WorkerWillServe, PromotionCovered, WorkerWillServeRows
<1>1. CASE Click
  <2>1. SlotAccounted'
    BY <1>1 DEF Click, SlotAccounted
  <2>2. ReadingsNewer'
    BY <1>1 DEF Click, ReadingsNewer, SlotAccounted
  <2>3. EditsCovered'
    BY <1>1 DEF Click, EditsCovered, SlotAccounted, ReadingsNewer
  <2>4. PromotionsCovered'
    BY <1>1 DEF Click, PromotionsCovered, SlotAccounted, ReadingsNewer, RowsFollow,
       ScanSound
  <2>5. ScanSound' /\ RowsFollow' /\ RowRemembered'
    BY <1>1 DEF Click, ScanSound, RowsFollow, RowRemembered
  <2> QED BY <2>1, <2>2, <2>3, <2>4, <2>5
<1>2. CASE Answer
  <2>1. SlotAccounted'
    BY <1>2 DEF Answer, SlotAccounted
  <2>2. ReadingsNewer'
    BY <1>2 DEF Answer, ReadingsNewer, SlotAccounted
  <2>3. EditsCovered'
    BY <1>2 DEF Answer, EditsCovered, SlotAccounted, ReadingsNewer
  <2>4. PromotionsCovered'
    BY <1>2 DEF Answer, PromotionsCovered, SlotAccounted, ReadingsNewer, RowsFollow,
       ScanSound
  <2>5. ScanSound' /\ RowsFollow' /\ RowRemembered'
    BY <1>2 DEF Answer, ScanSound, RowsFollow, RowRemembered
  <2> QED BY <2>1, <2>2, <2>3, <2>4, <2>5
<1> QED BY <1>1, <1>2

\* A promotion is covered by the rescan to come, by the request that follows it,
\* or is missed for good.
LEMMA TreesKept ==
  ASSUME RegenInv, Trees(VerifyBatch \/ Rescan \/ ScanStep \/ ScanFails \/ UserScan)
  PROVE  Accounts'
<1> USE RegenAssumption
        DEF RegenInv, Accounts, TypeOK, CoordTypeOK, GenTypeOK, TreesTypeOK, Version,
            Generators,
            Requesters, coordVars, genVars, treeVars, history, InSlot, Ending, EditsServed,
            EditCovered, WorkerWillServe, PromotionCovered, WorkerWillServeRows
<1>1. CASE VerifyBatch
  <2>1. SlotAccounted'
    BY <1>1 DEF VerifyBatch, Trees, SlotAccounted
  <2>2. ReadingsNewer'
    BY <1>1 DEF VerifyBatch, Trees, ReadingsNewer, SlotAccounted
  <2>3. ScanSound'
    BY <1>1 DEF VerifyBatch, Trees, ScanSound, ReadingsNewer, RowsFollow
  <2>4. RowsFollow'
    BY <1>1 DEF VerifyBatch, Trees, RowsFollow, ScanSound, ReadingsNewer
  <2>5. PromotionsCovered'
    BY <1>1 DEF VerifyBatch, Trees, PromotionsCovered, SlotAccounted, ReadingsNewer,
       RowsFollow, ScanSound
  <2>6. EditsCovered' /\ RowRemembered'
    BY <1>1 DEF VerifyBatch, Trees, EditsCovered, RowRemembered
  <2> QED BY <2>1, <2>2, <2>3, <2>4, <2>5, <2>6
<1>2. CASE Rescan
  <2>1. SlotAccounted'
    BY <1>2 DEF Rescan, NoScan, Trees, SlotAccounted
  <2>2. EditsCovered'
    BY <1>2 DEF Rescan, NoScan, Trees, EditsCovered, SlotAccounted, ReadingsNewer
  <2>3. ScanSound'
    BY <1>2 DEF Rescan, NoScan, Trees, ScanSound, ReadingsNewer, RowsFollow
  <2>4. RowsFollow'
    BY <1>2 DEF Rescan, NoScan, Trees, RowsFollow, ScanSound, ReadingsNewer
  <2>5. PromotionsCovered'
    BY <1>2 DEF Rescan, NoScan, Trees, PromotionsCovered, SlotAccounted, ReadingsNewer,
       RowsFollow, ScanSound
  <2>6. ReadingsNewer' /\ RowRemembered'
    BY <1>2 DEF Rescan, NoScan, Trees, ReadingsNewer, RowRemembered
  <2> QED BY <2>1, <2>2, <2>3, <2>4, <2>5, <2>6
<1>3. CASE ScanStep /\ scan.st = "started"
  <2>1. SlotAccounted'
    BY <1>3 DEF ScanStep, NoScan, Trees, SlotAccounted
  <2>2. ReadingsNewer'
    BY <1>3 DEF ScanStep, NoScan, Trees, ReadingsNewer, SlotAccounted
  <2>3. EditsCovered'
    BY <1>3 DEF ScanStep, NoScan, Trees, EditsCovered, SlotAccounted, ReadingsNewer
  <2>4. ScanSound'
    <3>1. scan' = [st |-> "walked", by |-> scan.by, walked |-> tree]
      BY <1>3 DEF ScanStep
    <3>2. UNCHANGED <<tree, rows, verify, missed>>
      BY <1>3 DEF ScanStep
    <3> QED BY <1>3, <3>1, <3>2 DEF ScanSound, ReadingsNewer
  <2>5. RowsFollow'
    BY <1>3 DEF ScanStep, NoScan, Trees, RowsFollow, ScanSound, ReadingsNewer
  <2>6. PromotionsCovered'
    BY <1>3 DEF ScanStep, NoScan, Trees, PromotionsCovered, SlotAccounted, ReadingsNewer,
       RowsFollow, ScanSound
  <2>7. RowRemembered'
    BY <1>3 DEF ScanStep, NoScan, Trees, RowRemembered
  <2> QED BY <2>1, <2>2, <2>3, <2>4, <2>5, <2>6, <2>7
<1>4. CASE ScanStep /\ scan.st = "walked"
  <2>1. SlotAccounted'
    BY <1>4 DEF ScanStep, NoScan, Trees, SlotAccounted
  <2>2. ReadingsNewer'
    BY <1>4 DEF ScanStep, NoScan, Trees, ReadingsNewer, SlotAccounted, ScanSound
  <2>3. EditsCovered'
    BY <1>4 DEF ScanStep, NoScan, Trees, EditsCovered, SlotAccounted, ReadingsNewer
  <2>4. ScanSound'
    BY <1>4 DEF ScanStep, NoScan, Trees, ScanSound, ReadingsNewer, RowsFollow
  <2>5. RowsFollow'
    BY <1>4 DEF ScanStep, NoScan, Trees, RowsFollow, ScanSound, ReadingsNewer
  <2>6. PromotionsCovered'
    BY <1>4 DEF ScanStep, NoScan, Trees, PromotionsCovered, SlotAccounted, ReadingsNewer,
       RowsFollow, ScanSound
  <2>7. RowRemembered'
    BY <1>4 DEF ScanStep, NoScan, Trees, RowRemembered
  <2> QED BY <2>1, <2>2, <2>3, <2>4, <2>5, <2>6, <2>7
<1>5. CASE ScanStep /\ scan.st = "persisted"
  <2>1. SlotAccounted'
    BY <1>5 DEF ScanStep, NoScan, Trees, SlotAccounted, ScanSound
  <2>2. ReadingsNewer'
    BY <1>5 DEF ScanStep, NoScan, Trees, ReadingsNewer, SlotAccounted
  <2>3. EditsCovered'
    BY <1>5 DEF ScanStep, NoScan, Trees, EditsCovered, SlotAccounted, ReadingsNewer
  <2>4. ScanSound'
    BY <1>5 DEF ScanStep, NoScan, Trees, ScanSound, ReadingsNewer, RowsFollow
  <2>5. RowsFollow'
    BY <1>5 DEF ScanStep, NoScan, Trees, RowsFollow, ScanSound, ReadingsNewer
  <2>6. PromotionsCovered'
    BY <1>5 DEF ScanStep, NoScan, Trees, PromotionsCovered, SlotAccounted, ReadingsNewer,
       RowsFollow, ScanSound
  <2>7. RowRemembered'
    BY <1>5 DEF ScanStep, NoScan, Trees, RowRemembered
  <2> QED BY <2>1, <2>2, <2>3, <2>4, <2>5, <2>6, <2>7
<1>6. CASE UserScan
  <2>1. ScanSound'
    BY <1>6 DEF UserScan, NoScan, Trees, ScanSound, ReadingsNewer, RowsFollow
  <2>2. RowsFollow'
    BY <1>6 DEF UserScan, NoScan, Trees, RowsFollow, ScanSound, ReadingsNewer
  <2>3. SlotAccounted' /\ ReadingsNewer' /\ EditsCovered' /\ PromotionsCovered' /\
        RowRemembered'
    BY <1>6 DEF UserScan, NoScan, Trees, SlotAccounted, ReadingsNewer, EditsCovered,
       PromotionsCovered, RowRemembered
  <2> QED BY <2>1, <2>2, <2>3
<1>7. CASE ScanFails
  <2>1. SlotAccounted' /\ ReadingsNewer' /\ EditsCovered' /\ RowRemembered'
    BY <1>7 DEF ScanFails, Spend, Trees, SlotAccounted, ReadingsNewer, EditsCovered,
       RowRemembered
  <2>2. scan' = [st |-> "persisted", by |-> scan.by, walked |-> scan.walked]
    BY <1>7 DEF ScanFails
  <2>3. ScanSound'
    BY <1>7, <2>2 DEF ScanFails, Trees, ScanSound
  <2>4. RowsFollow'
    BY <1>7, <2>2 DEF ScanFails, Trees, RowsFollow, ScanSound
  <2>5. PromotionsCovered'
    BY <1>7, <2>2 DEF ScanFails, Trees, PromotionsCovered
  <2> QED BY <2>1, <2>3, <2>4, <2>5
<1> QED BY <1>1, <1>2, <1>3, <1>4, <1>5, <1>6, <1>7 DEF Trees, ScanStep

\* A kill ends every obligation, and the histories say whether one was lost.
LEMMA KilledKept ==
  ASSUME RegenInv, Kill
  PROVE  Accounts'
<1> USE RegenAssumption
        DEF RegenInv, Accounts, TypeOK, CoordTypeOK, GenTypeOK, TreesTypeOK, Version,
            Generators,
            Requesters, coordVars, genVars, treeVars, history, InSlot, Ending, EditsServed,
            EditCovered, WorkerWillServe, PromotionCovered, WorkerWillServeRows
<1>1. CASE Kill
  <2>1. SlotAccounted'
    BY <1>1 DEF Kill, NoScan, SlotAccounted
  <2>2. ReadingsNewer'
    BY <1>1 DEF Kill, NoScan, ReadingsNewer, SlotAccounted
  <2>3. EditsCovered'
    BY <1>1 DEF Kill, NoScan, EditsCovered, SlotAccounted, ReadingsNewer
  <2>4. ScanSound'
    BY <1>1 DEF Kill, NoScan, ScanSound, ReadingsNewer, RowsFollow
  <2>5. RowsFollow'
    BY <1>1 DEF Kill, NoScan, RowsFollow, ScanSound, ReadingsNewer
  <2>6. PromotionsCovered'
    BY <1>1 DEF Kill, NoScan, PromotionsCovered, SlotAccounted, ReadingsNewer, RowsFollow,
       ScanSound
  <2>7. RowRemembered'
    BY <1>1 DEF Kill, NoScan, RowRemembered
  <2> QED BY <2>1, <2>2, <2>3, <2>4, <2>5, <2>6, <2>7
<1> QED BY <1>1

LEMMA AccountsInit == Init => Accounts
<1> SUFFICES ASSUME Init PROVE Accounts
  OBVIOUS
<1> USE DEF Init, Generators, InSlot
<1>1. SlotAccounted /\ ReadingsNewer /\ ScanSound /\ RowsFollow /\ RowRemembered
  BY DEF SlotAccounted, ReadingsNewer, ScanSound, NoScan, RowsFollow, RowRemembered
<1>2. EditsCovered
  BY DEF EditsCovered, EditsServed
<1>3. PromotionsCovered
  BY DEF PromotionsCovered
<1> QED BY <1>1, <1>2, <1>3 DEF Accounts

LEMMA AccountsStep == RegenInv /\ [Next]_vars => Accounts'
<1> SUFFICES ASSUME RegenInv, [Next]_vars PROVE Accounts'
  OBVIOUS
<1>1. CASE UNCHANGED vars
  <2> USE <1>1 DEF RegenInv, Accounts, vars, coordVars, genVars, treeVars, history
  <2>1. SlotAccounted' /\ ReadingsNewer' /\ ScanSound' /\ RowsFollow' /\ RowRemembered'
    BY DEF SlotAccounted, ReadingsNewer, ScanSound, RowsFollow, RowRemembered
  <2>2. EditsCovered'
    BY DEF EditsCovered, EditCovered, EditsServed, WorkerWillServe
  <2>3. PromotionsCovered'
    BY DEF PromotionsCovered, PromotionCovered, WorkerWillServeRows
  <2> QED BY <2>1, <2>2, <2>3
<1> QED
  BY <1>1, RequestsKept, WorkerKept, GeneratorKept, ButtonKept, TreesKept, KilledKept
     DEF Next

----------------------------------------------------------------------------
(* The theorems *)

\* Type correctness of the coordinator and of all it coordinates.
THEOREM RegenTyping == Spec => []TypeOK
BY TypingInit, TypingStep, PTL DEF Spec

\* The accounts of the slot, of readings, edits, scans and promotions balance.
THEOREM RegenInvariant == Spec => []RegenInv
<1>1. Init => RegenInv
  BY TypingInit, AccountsInit DEF RegenInv
<1>2. RegenInv /\ [Next]_vars => RegenInv'
  BY TypingStep, AccountsStep DEF RegenInv
<1> QED BY <1>1, <1>2, PTL DEF Spec

\* While the kiosks lack an edit somebody will see to it, whatever requests,
\* clicks, failed reads and busy slots come together.
THEOREM RegenNoEditForgotten == Spec => []NoEditForgotten
<1>1. RegenInv => NoEditForgotten
  BY DEF RegenInv, Accounts, EditsCovered, EditCovered, NoEditForgotten
<1> QED BY <1>1, RegenInvariant, PTL

\* However long the slot is held, an episode writes one deferral row.
THEOREM RegenOneDeferral == Spec => []OneDeferralPerEpisode
<1>1. RegenInv => OneDeferralPerEpisode
  BY DEF RegenInv, Accounts, RowRemembered, OneDeferralPerEpisode
<1> QED BY <1>1, RegenInvariant, PTL

\* At rest, every promotion whose rescan was not lost is on the kiosks.
THEOREM RegenPromotionsServed == Spec => []PromotionsServed
<1>1. RegenInv => PromotionsServed
  BY DEF RegenInv, Accounts, PromotionsCovered, PromotionCovered, WorkerWillServeRows,
         PromotionsServed, Settled, Requesters
<1> QED BY <1>1, RegenInvariant, PTL

\* No pass puts an older reading of the store back on the kiosks.
THEOREM RegenNeverGoesBack == Spec => ServedNeverGoesBack
<1> DEFINE Onward == served'.opts >= served.opts /\ served'.games >= served.games
<1>1. RegenInv /\ [Next]_vars => [Onward]_vars
  <2> SUFFICES ASSUME RegenInv, Next PROVE Onward
    OBVIOUS
  <2>1. served.opts \in Nat /\ served.games \in Nat
    BY DEF RegenInv, TypeOK, GenTypeOK, Version
  <2>2. ASSUME NEW g \in Generators, Write(g) PROVE Onward
    <3>1. served' \in {served, seen[g]} /\ gen[g] = "built"
      BY <2>2 DEF Write
    <3>2. seen[g] \in Version
      BY DEF RegenInv, TypeOK, GenTypeOK
    <3> QED BY <2>1, <3>1, <3>2 DEF RegenInv, Accounts, ReadingsNewer, Version
  <2>3. ASSUME served' # served PROVE \E g \in Generators : Write(g)
    BY <2>3 DEF Next, Edit, Ask, Silence, Worker, Generate, Claim, ReadStore, ReadFails,
                LetGo,
                Click, Answer, Trees, Kill, genVars
  <2> QED BY <2>1, <2>2, <2>3
<1> QED BY <1>1, RegenInvariant, PTL DEF Spec, ServedNeverGoesBack

----------------------------------------------------------------------------
(* The slot *)

\* The slot is held by j exactly in the states in which j will release it.
MutexAccounted == \A j \in Jobs : (mutex = j) <=> (at[j] \in SlotStates)

\* A goroutine that will lower a guard finds it up, and shares it with nobody.
GuardsUp ==
  \A j \in Jobs : at[j] \in GuardStates => running[RunnerOf(j)]
GuardsUnshared ==
  \A i, j \in Jobs :
    at[i] \in GuardStates /\ at[j] \in GuardStates
    /\ RunnerOf(i) = RunnerOf(j) => i = j
GuardsHeld ==
  \A r \in Runners : running[r]
  => \E j \in Jobs : RunnerOf(j) = r /\ at[j] \in GuardStates

PipelineInv ==
  /\ PipelineTypeOK
  /\ MutexAccounted
  /\ GuardsUp /\ GuardsUnshared /\ GuardsHeld
  /\ RunningRowsAreLive

\* Every goroutine belongs to one of the three runners.
LEMMA RunnerTyping == \A j \in Jobs : RunnerOf(j) \in Runners
BY DEF RunnerOf, Runners

\* A lock is taken or dropped by the goroutine whose state changes; this is
\* what any such step, of any job, does to the two accounts.  Every action of a
\* goroutine is one of these five kinds of step.
LEMMA LockStep ==
  ASSUME PipelineInv, NEW j \in Jobs, NEW to,
         to \in SlotStates \cup GuardStates \cup {"idle", "spawned"},
         at' = [at EXCEPT ![j] = to],
         \/ TryAcquire(j) /\ to \in SlotStates
            /\ at[j] \notin SlotStates
         \/ Release(j) /\ to \notin SlotStates
            /\ at[j] \in SlotStates
         \/ UNCHANGED mutex /\ (to \in SlotStates <=> at[j] \in SlotStates),
         \/ Guard(j) /\ to \in GuardStates
         \/ Unguard(j) /\ to \notin GuardStates
            /\ at[j] \in GuardStates
         \/ UNCHANGED running /\ (to \in GuardStates <=> at[j] \in GuardStates)
  PROVE  /\ mutex' \in Jobs \cup {None}
         /\ running' \in [Runners -> BOOLEAN]
         /\ at' \in [Jobs -> SlotStates \cup GuardStates \cup {"idle", "spawned"}]
         /\ MutexAccounted' /\ GuardsUp' /\ GuardsUnshared' /\ GuardsHeld'
<1> USE RunnerTyping, PipelineAssumption DEF PipelineInv, PipelineTypeOK
<1>1. at' \in [Jobs -> SlotStates \cup GuardStates \cup {"idle", "spawned"}]
  OBVIOUS
<1>2. mutex' \in Jobs \cup {None} /\ MutexAccounted'
  BY DEF MutexAccounted, TryAcquire, Release
<1>3. running' \in [Runners -> BOOLEAN]
  BY DEF Guard, Unguard
<1>4. GuardsUp'
  BY DEF GuardsUp, GuardsUnshared, Guard, Unguard
<1>5. GuardsUnshared'
  <2> SUFFICES ASSUME NEW i \in Jobs, NEW k \in Jobs,
                      at'[i] \in GuardStates, at'[k] \in GuardStates,
                      RunnerOf(i) = RunnerOf(k)
               PROVE  i = k
    BY DEF GuardsUnshared
  <2> QED BY DEF GuardsUp, GuardsUnshared, Guard, Unguard
<1>6. GuardsHeld'
  <2> SUFFICES ASSUME NEW r \in Runners, running'[r]
               PROVE  \E i \in Jobs : RunnerOf(i) = r
                      /\ at'[i] \in GuardStates
    BY DEF GuardsHeld
  <2>1. CASE Guard(j) /\ to \in GuardStates
    <3>1. CASE r = RunnerOf(j)
      BY <2>1, <3>1
    <3>2. CASE r # RunnerOf(j)
      <4>1. PICK i \in Jobs : RunnerOf(i) = r
            /\ at[i] \in GuardStates
        BY <2>1, <3>2 DEF Guard, GuardsHeld
      <4> QED BY <4>1, <3>2
    <3> QED BY <3>1, <3>2
  <2>2. CASE Unguard(j) /\ to \notin GuardStates
             /\ at[j] \in GuardStates
    <3>1. r # RunnerOf(j) /\ running[r]
      BY <2>2 DEF Unguard
    <3>2. PICK i \in Jobs : RunnerOf(i) = r /\ at[i] \in GuardStates
      BY <3>1 DEF GuardsHeld
    <3> QED BY <3>1, <3>2
  <2>3. CASE UNCHANGED running /\ (to \in GuardStates <=> at[j] \in GuardStates)
    <3>1. PICK i \in Jobs : RunnerOf(i) = r /\ at[i] \in GuardStates
      BY <2>3 DEF GuardsHeld
    <3> QED BY <3>1, <2>3
  <2> QED BY <2>1, <2>2, <2>3
<1> QED BY <1>1, <1>2, <1>3, <1>4, <1>5, <1>6

\* A step of a goroutine preserves the invariant.
LEMMA JobStep ==
  ASSUME PipelineInv, NEW j \in Jobs, phase = "up",
         Continues(j) \/ Starts(j), UNCHANGED <<phase, kills>>
  PROVE  PipelineInv'
<1> DEFINE States == SlotStates \cup GuardStates \cup {"idle", "spawned"}
<1> DEFINE Locks ==
      /\ mutex' \in Jobs \cup {None}
      /\ running' \in [Runners -> BOOLEAN]
      /\ at' \in [Jobs -> States]
      /\ MutexAccounted' /\ GuardsUp' /\ GuardsUnshared' /\ GuardsHeld'
<1> DEFINE Rows == row' \in [Jobs -> {"none", "running"}]
/\ RunningRowsAreLive'
<1> SUFFICES Locks /\ Rows /\ unclosed' \in BOOLEAN
  BY DEF PipelineInv, PipelineTypeOK
<1>1. unclosed' \in BOOLEAN
  BY DEF Continues, Starts, Close, PipelineInv, PipelineTypeOK
<1>2. CASE j \in Verifies /\ VerifyProbe(j)
  <2>1. Locks
    BY <1>2, LockStep DEF VerifyProbe, Goes, SlotStates, GuardStates
  <2> QED BY <1>1, <1>2, <2>1 DEF VerifyProbe, Goes, PipelineInv, PipelineTypeOK,
                                  RunningRowsAreLive
<1>3. CASE VerifySpawn(j)
  <2>1. Locks
    BY <1>3, LockStep DEF VerifySpawn, Goes, SlotStates, GuardStates
  <2> QED BY <1>1, <1>3, <2>1 DEF VerifySpawn, Goes, PipelineInv, PipelineTypeOK,
                                  RunningRowsAreLive
<1>4. CASE VerifyClaim(j)
  <2>1. Locks
    BY <1>4, LockStep DEF VerifyClaim, Goes, SlotStates, GuardStates
  <2> QED BY <1>1, <1>4, <2>1 DEF VerifyClaim, Goes, PipelineInv, PipelineTypeOK,
                                  RunningRowsAreLive
<1>5. CASE VerifyEnter(j)
  <2>1. Locks
    BY <1>5, LockStep DEF VerifyEnter, Goes, SlotStates, GuardStates
  <2> QED BY <1>1, <1>5, <2>1 DEF VerifyEnter, Goes, PipelineInv, PipelineTypeOK,
                                  RunningRowsAreLive
<1>6. CASE ClaimGuard(j)
  <2>1. Locks
    BY <1>6, LockStep DEF ClaimGuard, Goes, SlotStates, GuardStates
  <2> QED BY <1>1, <1>6, <2>1 DEF ClaimGuard, Goes, PipelineInv, PipelineTypeOK,
                                  RunningRowsAreLive
<1>7. CASE ClaimSlot(j)
  <2>1. Locks
    BY <1>7, LockStep DEF ClaimSlot, Goes, SlotStates, GuardStates
  <2> QED BY <1>1, <1>7, <2>1 DEF ClaimSlot, Goes, PipelineInv, PipelineTypeOK,
                                  RunningRowsAreLive
<1>8. CASE ClaimRefused(j)
  <2>1. Locks
    BY <1>8, LockStep DEF ClaimRefused, Goes, SlotStates, GuardStates
  <2> QED BY <1>1, <1>8, <2>1 DEF ClaimRefused, Goes, PipelineInv, PipelineTypeOK,
                                  RunningRowsAreLive
<1>9. CASE Open(j)
  <2>1. Locks
    BY <1>9, LockStep DEF Open, Goes, SlotStates, GuardStates
  <2> QED BY <1>1, <1>9, <2>1 DEF Open, Goes, PipelineInv, PipelineTypeOK,
                                  RunningRowsAreLive
<1>10. CASE Abort(j)
  <2>1. Locks
    BY <1>10, LockStep DEF Abort, Goes, SlotStates, GuardStates
  <2> QED BY <1>1, <1>10, <2>1 DEF Abort, Goes, PipelineInv, PipelineTypeOK,
                                   RunningRowsAreLive
<1>11. CASE Close(j)
  <2>1. Locks
    BY <1>11, LockStep DEF Close, Goes, SlotStates, GuardStates
  <2> QED BY <1>1, <1>11, <2>1 DEF Close, Goes, PipelineInv, PipelineTypeOK,
                                   RunningRowsAreLive
<1>12. CASE Exit(j) /\ UNCHANGED row
  <2>1. Locks
    BY <1>12, LockStep DEF Exit, Goes, SlotStates, GuardStates
  <2> QED BY <1>1, <1>12, <2>1 DEF Exit, Goes, PipelineInv, PipelineTypeOK,
                                   RunningRowsAreLive
<1>13. CASE Leave(j)
  <2>1. Locks
    BY <1>13, LockStep DEF Leave, Goes, SlotStates, GuardStates
  <2> QED BY <1>1, <1>13, <2>1 DEF Leave, Goes, PipelineInv, PipelineTypeOK,
                                   RunningRowsAreLive
<1> QED
  BY <1>2, <1>3, <1>4, <1>5, <1>6, <1>7, <1>8, <1>9, <1>10, <1>11, <1>12, <1>13
  DEF Continues, Starts

\* The invariant holds at start and every step keeps it: a kill drops all locks
\* with the goroutines that held them, and the sweep runs before any job.
LEMMA PipelineStarts ==
  ASSUME PipelineInit PROVE PipelineInv
<1>1. PipelineTypeOK
  <2>1. kills \in 0 .. MaxKills
    BY PipelineAssumption DEF PipelineInit
  <2>2. running \in [Runners -> BOOLEAN]
    BY DEF PipelineInit
  <2> QED BY <2>1, <2>2 DEF PipelineInit, PipelineTypeOK
<1>2. \A j \in Jobs : at[j] = "idle" /\ mutex # j
  BY PipelineAssumption DEF PipelineInit
<1>3. MutexAccounted /\ GuardsUp /\ GuardsUnshared
  BY <1>2 DEF MutexAccounted, GuardsUp, GuardsUnshared, SlotStates, GuardStates
<1>4. GuardsHeld /\ RunningRowsAreLive
  BY DEF PipelineInit, GuardsHeld, RunningRowsAreLive
<1> QED BY <1>1, <1>3, <1>4 DEF PipelineInv

LEMMA PipelineSteps ==
  ASSUME PipelineInv, [PipelineNext]_pipelineVars
  PROVE  PipelineInv'
<1>1. CASE \E j \in Jobs : Step(j) \/ Arrive(j)
  BY <1>1, JobStep DEF Step, Arrive
<1>2. CASE PipelineKill
  BY <1>2, RunnerTyping, PipelineAssumption DEF PipelineKill, PipelineInv,
                                                PipelineTypeOK, MutexAccounted,
                                                GuardsUp, GuardsUnshared, GuardsHeld,
                                                RunningRowsAreLive, SlotStates,
                                                GuardStates, Runners
<1>3. CASE Boot
  <2>1. UNCHANGED <<mutex, running, at, kills>>
    BY <1>3 DEF Boot
  <2>2. MutexAccounted' /\ GuardsUp' /\ GuardsUnshared' /\ GuardsHeld'
    BY <2>1 DEF PipelineInv, MutexAccounted, GuardsUp, GuardsUnshared, GuardsHeld
  <2>3. PipelineTypeOK'
    BY <1>3, <2>1 DEF Boot, Sweep, PipelineInv, PipelineTypeOK
  <2>4. RunningRowsAreLive'
    BY <1>3 DEF Boot, Sweep, PipelineInv, PipelineTypeOK, RunningRowsAreLive
  <2> QED BY <2>2, <2>3, <2>4 DEF PipelineInv
<1>4. CASE UNCHANGED pipelineVars
  BY <1>4 DEF pipelineVars, PipelineInv, PipelineTypeOK, MutexAccounted, GuardsUp,
              GuardsUnshared, GuardsHeld, RunningRowsAreLive
<1> QED BY <1>1, <1>2, <1>3, <1>4 DEF PipelineNext

\* The three runners and the handlers' probe account for every lock, always.
THEOREM PipelineInvariant == PipelineSpec => []PipelineInv
BY PipelineStarts, PipelineSteps, PTL DEF PipelineSpec

\* Type correctness; in particular the slot is never unlocked when it is free.
THEOREM PipelineTyping == PipelineSpec => []PipelineTypeOK
<1>1. PipelineInv => PipelineTypeOK
  BY DEF PipelineInv
<1> QED BY <1>1, PipelineInvariant, PTL

\* A verify, a scrape and a generation never overlap, however many requests,
\* schedule ticks and probes compete for the slot.
THEOREM PipelineExclusive == PipelineSpec => []HeavyJobsExclusive
<1>1. PipelineInv => HeavyJobsExclusive
  BY DEF PipelineInv, MutexAccounted, HeavyJobsExclusive, HeavyStates, SlotStates
<1> QED BY <1>1, PipelineInvariant, PTL

\* No error, refusal or exit path leaves the slot or a guard behind.
THEOREM PipelineNoLeak == PipelineSpec => []NoLockLeaked
<1>1. PipelineInv => NoLockLeaked
  BY DEF PipelineInv, MutexAccounted, GuardsHeld, NoLockLeaked
<1> QED BY <1>1, PipelineInvariant, PTL

\* After any number of kills, a running row of the runs table is a live job's.
THEOREM PipelineRowsLive == PipelineSpec => []RunningRowsAreLive
<1>1. PipelineInv => RunningRowsAreLive
  BY DEF PipelineInv
<1> QED BY <1>1, PipelineInvariant, PTL

----------------------------------------------------------------------------
(* One pass of the generator *)

\* Where a pass is: it writes one of the files it has still to write, and only
\* in its third phase; outside a pass nothing of one is left but its outcome.
PassShape(p) ==
  /\ life[p].at = {} <=> life[p].step = "next"
  /\ life[p].at # {} => life[p].pc = "write"
  /\ \A s \in life[p].at : s \in life[p].todo
  /\ \A s, t \in life[p].at : s = t
  /\ life[p].pc = "off" => life[p].payloads = {}
  /\ past[p].good => life[p].pc = "idle" /\ life[p].failed = {}

\* The renders are those of the systems that were seen to have games, and while
\* nobody toggles they show what is visible.
Rendered(p) ==
  \A s \in Systems :
    /\ life[p].read[s] # {} => s \in life[p].payloads
    /\ past[p].fresh /\ visible[s] # {} =>
         \/ life[p].pc = "build" /\ s \in life[p].todo
         \/ life[p].pc = "idle" /\ ~past[p].good
         \/ s \in life[p].failed \/ life[p].read[s] = visible[s]

\* A render is still to be written, is recorded as failed, was replaced by
\* another process, or is served.
Accounted(p) ==
  \A s \in life[p].payloads :
    \/ life[p].pc \in {"off", "build", "dead"}
    \/ life[p].pc = "idle" /\ ~past[p].good
    \/ life[p].pc = "write" /\ s \in life[p].todo
    \/ s \in life[p].failed \/ s \in past[p].lost
    \/ file[s].games = life[p].read[s]

\* The bytes of every served file are on the disk.
FilesSafe == \A s \in Systems : file[s].whole /\ file[s].safe

\* A temp belongs to a process that was started, and is where that writes if it
\* is up; what a sweep has been through holds nothing stale.
TempsOwned ==
  \A s \in Systems : \A t \in temps[s] :
    /\ life[t.by].pc # "off"
    /\ Up(t.by) => s \in life[t.by].at
    /\ \A p \in Lives :
         \/ life[p].pc = "idle" /\ s \in life[p].payloads
         \/ life[p].pc = "sweep" /\ s \in life[p].payloads /\ s \notin life[p].todo
         => ~Stale(p, t)

GenerateInv ==
  /\ GenerateTypeOK
  /\ \A p \in Lives : PassShape(p) /\ Rendered(p) /\ Accounted(p)
  /\ FilesSafe
  /\ TempsOwned

\* What is known of one process, gathered.
PassInv(p) == PassShape(p) /\ Rendered(p) /\ Accounted(p)

\* A process an action leaves alone keeps its facts while the store and the
\* files stay.
LEMMA PassStays ==
  ASSUME NEW q \in Lives, PassInv(q), life'[q] = life[q], past'[q] = past[q],
         visible' = visible, file' = file
  PROVE  PassInv(q)'
BY DEF PassInv, PassShape, Rendered, Accounted

\* The blank pass has the type of one.
LEMMA Blanks ==
  /\ Off \in Life /\ Dead \in Life /\ NoPast \in Past /\ NoFile \in File
  /\ Off.pc = "off" /\ Dead.pc = "dead" /\ Off.at = {} /\ Dead.at = {}
  /\ Off.step = "next" /\ Dead.step = "next" /\ Off.payloads = {} /\ Dead.payloads = {}
  /\ Off.read = [s \in Systems |-> {}] /\ Dead.read = [s \in Systems |-> {}]
  /\ Off.todo = {} /\ Dead.todo = {} /\ Off.failed = {} /\ Dead.failed = {}
  /\ ~NoPast.good /\ ~NoPast.fresh /\ NoPast.lost = {}
  /\ NoFile.whole /\ NoFile.safe
BY DEF Off, Dead, NoPast, NoFile, NoRead, Life, Past, File, Writing

\* Nothing is written, nobody runs.
LEMMA GenerateInit_Inv == GenerateInit => GenerateInv
<1> SUFFICES ASSUME GenerateInit PROVE GenerateInv
  OBVIOUS
<1>1. GenerateTypeOK
  BY Blanks, GenerateAssumption DEF GenerateInit, GenerateTypeOK
<1>2. ASSUME NEW p \in Lives PROVE PassShape(p) /\ Rendered(p) /\ Accounted(p)
  BY Blanks DEF GenerateInit, PassShape, Rendered, Accounted
<1>3. FilesSafe /\ TempsOwned
  BY Blanks DEF GenerateInit, FilesSafe, TempsOwned
<1> QED BY <1>1, <1>2, <1>3 DEF GenerateInv

\* A toggle ends every pass's claim to be fresh.
LEMMA ToggleKeeps ==
  ASSUME GenerateInv, NEW s \in Systems, NEW g \in Games, Toggle(s, g)
  PROVE  GenerateInv'
<1> USE DEF GenerateInv
<1>1. GenerateTypeOK'
  <2>1. past' \in [Lives -> Past]
    BY DEF Toggle, GenerateTypeOK, Past
  <2>2. visible' \in [Systems -> SUBSET Games] /\ toggles' \in 0 .. MaxToggles
    BY GenerateAssumption DEF Toggle, GenerateTypeOK
  <2>3. UNCHANGED <<file, temps, life, faults, cuts>>
    BY DEF Toggle
  <2> QED BY <2>1, <2>2, <2>3 DEF GenerateTypeOK
<1>2. ASSUME NEW q \in Lives PROVE (PassShape(q) /\ Rendered(q) /\ Accounted(q))'
  <2>1. life' = life /\ file' = file /\ ~past'[q].fresh /\ past'[q].good = past[q].good
        /\ past'[q].lost = past[q].lost
    BY DEF Toggle, GenerateTypeOK, Past
  <2> QED BY <1>2, <2>1 DEF PassShape, Rendered, Accounted
<1>3. FilesSafe' /\ TempsOwned'
  BY DEF Toggle, FilesSafe, TempsOwned, Stale, Up
<1> QED BY <1>1, <1>2, <1>3

\* A process comes up with nothing behind it.
LEMMA StartLifeKeeps ==
  ASSUME GenerateInv, NEW p \in Lives, StartLife(p)
  PROVE  GenerateInv'
<1> USE DEF GenerateInv
<1>1. life'[p] = [life[p] EXCEPT !.pc = "idle"] /\ \A q \in Lives \ {p} : life'[q] = life[q]
  BY DEF StartLife, GenerateTypeOK
<1>2. GenerateTypeOK'
  <2>1. life' \in [Lives -> Life]
    <3>1. life[p] \in Life
      BY DEF GenerateTypeOK
    <3>2. [life[p] EXCEPT !.pc = "idle"] \in Life
      BY <3>1 DEF Life
    <3> QED BY <1>1, <3>2 DEF StartLife, GenerateTypeOK
  <2> QED BY <2>1 DEF StartLife, GenerateTypeOK
<1>3. ASSUME NEW q \in Lives PROVE (PassShape(q) /\ Rendered(q) /\ Accounted(q))'
  <2>1. CASE q # p
    BY <1>1, <2>1, PassStays DEF StartLife, PassInv
  <2>2. CASE q = p
    <3>1. /\ life'[p].pc = "idle" /\ life[p].pc = "off" /\ life'[p].at = life[p].at
          /\ life'[p].step = life[p].step /\ life'[p].todo = life[p].todo
          /\ life'[p].payloads = life[p].payloads /\ life'[p].read = life[p].read
          /\ life'[p].failed = life[p].failed /\ past'[p] = past[p]
      BY DEF StartLife, GenerateTypeOK, Life
    <3>2. ~past[p].good /\ life[p].payloads = {}
      BY <3>1 DEF PassShape
    <3> QED BY <2>2, <3>1, <3>2 DEF StartLife, PassShape, Rendered, Accounted
  <2> QED BY <2>1, <2>2
<1>4. FilesSafe'
  BY DEF StartLife, FilesSafe
<1>5. TempsOwned'
  <2> SUFFICES ASSUME NEW s \in Systems, NEW t \in temps[s]
               PROVE  /\ life'[t.by].pc # "off"
                      /\ Up(t.by)' => s \in life'[t.by].at
                      /\ \A q \in Lives :
                           \/ life'[q].pc = "idle" /\ s \in life'[q].payloads
                           \/ life'[q].pc = "sweep" /\ s \in life'[q].payloads /\ s \notin life'[q].todo
                           => ~Stale(q, t)
    BY DEF TempsOwned, StartLife, Stale
  <2>1. t.by # p /\ t.by \in Lives
    BY DEF TempsOwned, StartLife, GenerateTypeOK, Temp
  <2>2. life'[p].payloads = {}
    BY <1>1 DEF StartLife, PassShape, GenerateTypeOK, Life
  <2> QED BY <1>1, <2>1, <2>2 DEF TempsOwned, Up
<1> QED BY <1>2, <1>3, <1>4, <1>5

\* A kill forgets the pass and leaves its temp to nobody.
LEMMA EndLifeKeeps ==
  ASSUME GenerateInv, NEW p \in Lives, EndLife(p)
  PROVE  GenerateInv'
<1> USE DEF GenerateInv
<1>1. /\ life'[p] = Dead /\ \A q \in Lives \ {p} : life'[q] = life[q]
      /\ past'[p] = NoPast /\ \A q \in Lives \ {p} : past'[q] = past[q]
  BY DEF EndLife, GenerateTypeOK
<1>2. GenerateTypeOK'
  BY Blanks DEF EndLife, GenerateTypeOK
<1>3. ASSUME NEW q \in Lives PROVE (PassShape(q) /\ Rendered(q) /\ Accounted(q))'
  <2>1. CASE q # p
    BY <1>1, <2>1, PassStays DEF EndLife, PassInv
  <2>2. CASE q = p
    BY <1>1, <2>2, Blanks DEF PassShape, Rendered, Accounted
  <2> QED BY <2>1, <2>2
<1>4. FilesSafe'
  BY DEF EndLife, FilesSafe
<1>5. TempsOwned'
  BY <1>1, Blanks DEF EndLife, TempsOwned, GenerateTypeOK, Temp, Up, Stale
<1> QED BY <1>2, <1>3, <1>4, <1>5

\* A power cut ends every process and finds every byte on the disk.
LEMMA PowerCutKeeps ==
  ASSUME GenerateInv, PowerCut
  PROVE  GenerateInv'
<1> USE DEF GenerateInv
<1>1. ASSUME NEW q \in Lives
      PROVE  past'[q] = NoPast /\ life'[q] \in {Dead, life[q]} /\ ~Up(q)'
  BY Blanks DEF PowerCut, Up
<1>2. PICK kept \in [Systems -> SUBSET Games] :
        file' = [s \in Systems |-> [NoFile EXCEPT !.games = kept[s],
                                                  !.whole = file[s].whole /\ file[s].safe]]
  BY DEF PowerCut
<1>3. GenerateTypeOK'
  <2>1. file' \in [Systems -> File]
    BY <1>2 DEF GenerateTypeOK, NoFile, File
  <2>2. life' \in [Lives -> Life] /\ past' \in [Lives -> Past]
    BY Blanks DEF PowerCut, GenerateTypeOK
  <2>3. cuts' \in 0 .. MaxCuts /\ UNCHANGED <<visible, temps, toggles, faults>>
    <3>1. cuts < MaxCuts /\ cuts' = cuts + 1 /\ UNCHANGED <<visible, temps, toggles, faults>>
      BY DEF PowerCut
    <3>2. cuts \in 0 .. MaxCuts
      BY DEF GenerateTypeOK
    <3> QED BY <3>1, <3>2, GenerateAssumption
  <2> QED BY <2>1, <2>2, <2>3 DEF GenerateTypeOK
<1>4. ASSUME NEW q \in Lives PROVE (PassShape(q) /\ Rendered(q) /\ Accounted(q))'
  <2>1. life'[q].pc \in {"off", "dead"}
    BY <1>1, <1>3 DEF Up, GenerateTypeOK, Life
  <2> QED BY <1>1, <2>1, Blanks DEF PassShape, Rendered, Accounted
<1>5. FilesSafe'
  BY <1>2 DEF FilesSafe, NoFile
<1>6. TempsOwned'
  <2> SUFFICES ASSUME NEW s \in Systems, NEW t \in temps[s]
               PROVE  /\ life'[t.by].pc # "off" /\ ~Up(t.by)'
                      /\ \A q \in Lives : life'[q].pc \notin {"idle", "sweep"}
    BY DEF TempsOwned, PowerCut
  <2>1. t.by \in Lives
    BY DEF GenerateTypeOK, Temp
  <2> QED BY <1>1, <2>1, Blanks DEF TempsOwned, Up
<1> QED BY <1>3, <1>4, <1>5, <1>6

\* A step of one process that leaves the files and the temps alone keeps the
\* invariant if it keeps the facts of that process, and sweeps what it says.
LEMMA OwnStep ==
  ASSUME GenerateInv, NEW p \in Lives, GenerateTypeOK', PassInv(p)',
         \A q \in Lives \ {p} : life'[q] = life[q] /\ past'[q] = past[q],
         visible' = visible, file' = file, temps' = temps,
         Up(p), Up(p)', life'[p].at = life[p].at,
         \A s \in Systems : \A t \in temps[s] :
           \/ life'[p].pc = "idle" /\ s \in life'[p].payloads
           \/ life'[p].pc = "sweep" /\ s \in life'[p].payloads /\ s \notin life'[p].todo
           => ~Stale(p, t)
  PROVE  GenerateInv'
<1> USE DEF GenerateInv
<1>1. ASSUME NEW q \in Lives PROVE (PassShape(q) /\ Rendered(q) /\ Accounted(q))'
  BY PassStays DEF PassInv
<1>2. FilesSafe'
  BY DEF FilesSafe
<1>3. TempsOwned'
  BY DEF TempsOwned, GenerateTypeOK, Temp, Up, Stale
<1> QED BY <1>1, <1>2, <1>3

\* A pass begins with nothing read, or ends at once.
LEMMA BeginPassKeeps ==
  ASSUME GenerateInv, NEW p \in Lives, BeginPass(p)
  PROVE  GenerateInv'
<1> USE DEF GenerateInv
<1> DEFINE Begun == [Off EXCEPT !.pc = "build", !.todo = Systems]
           Refused == [Off EXCEPT !.pc = "idle"]
<1>0. /\ Begun \in Life /\ Refused \in Life /\ [NoPast EXCEPT !.fresh = TRUE] \in Past
      /\ life' \in {[life EXCEPT ![p] = Begun], [life EXCEPT ![p] = Refused]}
      /\ past' = [past EXCEPT ![p] = [NoPast EXCEPT !.fresh = TRUE]]
      /\ life \in [Lives -> Life] /\ past \in [Lives -> Past]
  <2>1. Begun \in Life /\ Refused \in Life
    BY Blanks DEF Life
  <2>2. [NoPast EXCEPT !.fresh = TRUE] \in Past
    BY Blanks DEF Past
  <2> QED BY <2>1, <2>2 DEF BeginPass, GenerateTypeOK
<1>1. /\ life'[p] \in Life /\ life'[p].pc \in {"build", "idle"} /\ life'[p].at = {}
      /\ life'[p].step = "next" /\ life'[p].payloads = {} /\ life'[p].failed = {}
      /\ life'[p].read = [s \in Systems |-> {}]
      /\ life'[p].pc = "build" => life'[p].todo = Systems
      /\ \A q \in Lives \ {p} : life'[q] = life[q] /\ past'[q] = past[q]
      /\ past'[p] \in Past /\ ~past'[p].good
  <2>1. life'[p] \in {Begun, Refused} /\ past'[p] = [NoPast EXCEPT !.fresh = TRUE]
        /\ \A q \in Lives \ {p} : life'[q] = life[q] /\ past'[q] = past[q]
    BY <1>0
  <2>2. past'[p] \in Past /\ ~past'[p].good
    BY <1>0, <2>1, Blanks DEF Past
  <2>3. \A L \in {Begun, Refused} :
          /\ L.at = Off.at /\ L.step = Off.step /\ L.payloads = Off.payloads
          /\ L.failed = Off.failed /\ L.read = Off.read
    BY Blanks DEF Life
  <2>4. Begun.pc = "build" /\ Begun.todo = Systems /\ Refused.pc = "idle"
    BY Blanks DEF Life
  <2> QED BY <1>0, <2>1, <2>2, <2>3, <2>4, Blanks
<1>2. GenerateTypeOK'
  <2>1. life' \in [Lives -> Life] /\ past' \in [Lives -> Past]
    BY <1>1 DEF BeginPass, GenerateTypeOK
  <2> QED BY <2>1, GenerateAssumption DEF BeginPass, Fault, GenerateTypeOK
<1>3. PassInv(p)'
  BY <1>1 DEF PassInv, PassShape, Rendered, Accounted
<1>4. life[p].at = {}
  BY DEF BeginPass, PassShape
<1> QED BY <1>1, <1>2, <1>3, <1>4, OwnStep DEF BeginPass, Up

\* Once a system is built it has no games, is a failure, or has its render.
LEMMA BuildKeeps ==
  ASSUME GenerateInv, NEW p \in Lives, NEW s \in Systems, Build(p, s)
  PROVE  GenerateInv'
<1> USE DEF GenerateInv
<1> DEFINE L == life[p]
           Skipped == [L EXCEPT !.todo = L.todo \ {s}]
           Ready == [L EXCEPT !.todo = L.todo \ {s}, !.payloads = L.payloads \cup {s},
                              !.read = [L.read EXCEPT ![s] = visible[s]]]
           Fails == [L EXCEPT !.todo = L.todo \ {s}, !.failed = L.failed \cup {s}]
<1>a. L \in Life /\ visible[s] \in SUBSET Games
  BY DEF GenerateTypeOK
<1>b. Skipped \in Life /\ Ready \in Life /\ Fails \in Life
  BY <1>a DEF Life
<1>c. /\ \/ visible[s] = {} /\ life'[p] = Skipped
         \/ life'[p] = Ready
         \/ life'[p] = Fails
      /\ life' = [life EXCEPT ![p] = life'[p]]
  <2>a. life \in [Lives -> Life]
    BY DEF GenerateTypeOK
  <2>b. /\ [life EXCEPT ![p].todo = @ \ {s}] = [life EXCEPT ![p] = Skipped]
        /\ [life EXCEPT ![p].todo = @ \ {s}, ![p].failed = @ \cup {s}] = [life EXCEPT ![p] = Fails]
    BY <2>a
  <2>c. [life EXCEPT ![p].todo = @ \ {s}, ![p].payloads = @ \cup {s}, ![p].read[s] = visible[s]]
          = [life EXCEPT ![p] = Ready]
    BY <1>a, <2>a DEF Life
  <2>1. \/ visible[s] = {} /\ life' = [life EXCEPT ![p] = Skipped]
        \/ life' = [life EXCEPT ![p] = Ready]
        \/ life' = [life EXCEPT ![p] = Fails]
    <3> HIDE DEF Skipped, Ready, Fails
    <3> QED BY <2>b, <2>c DEF Build
  <2> HIDE DEF Skipped, Ready, Fails
  <2> QED BY <2>1 DEF GenerateTypeOK
<1>1. /\ life'[p].pc = "build" /\ life[p].pc = "build"
      /\ life'[p].at = life[p].at /\ life'[p].step = life[p].step
      /\ life'[p].todo = life[p].todo \ {s} /\ life[p].failed \subseteq life'[p].failed
      /\ life[p].payloads \subseteq life'[p].payloads
      /\ \A r \in Systems \ {s} : life'[p].read[r] = life[p].read[r]
      /\ \/ visible[s] = {} /\ life'[p].read[s] = life[p].read[s]
         \/ s \in life'[p].payloads /\ life'[p].read[s] = visible[s]
         \/ s \in life'[p].failed /\ life'[p].read[s] = life[p].read[s]
      /\ \A q \in Lives \ {p} : life'[q] = life[q]
  <2>1. life[p].pc = "build" /\ \A q \in Lives \ {p} : life'[q] = life[q]
    BY <1>c DEF Build, GenerateTypeOK
  <2>2. CASE visible[s] = {} /\ life'[p] = Skipped
    BY <1>a, <2>1, <2>2 DEF Life
  <2>3. CASE life'[p] = Ready
    BY <1>a, <2>1, <2>3 DEF Life
  <2>4. CASE life'[p] = Fails
    BY <1>a, <2>1, <2>4 DEF Life
  <2> QED BY <1>c, <2>2, <2>3, <2>4
<1>2. GenerateTypeOK'
  <2>1. life' \in [Lives -> Life]
    BY <1>b, <1>c DEF GenerateTypeOK
  <2> QED BY <2>1, GenerateAssumption DEF Build, Fault, GenerateTypeOK
<1>3. PassInv(p)'
  <2>1. PassShape(p)'
    BY <1>1 DEF Build, PassShape
  <2>2. Rendered(p)'
    BY <1>1 DEF Build, Rendered
  <2>3. Accounted(p)'
    BY <1>1 DEF Accounted
  <2> QED BY <2>1, <2>2, <2>3 DEF PassInv
<1> QED BY <1>1, <1>2, <1>3, OwnStep DEF Build, Up

\* A refused render is a failed system; the others are to be written.
LEMMA ValidateKeeps ==
  ASSUME GenerateInv, NEW p \in Lives, Validate(p)
  PROVE  GenerateInv'
<1> USE DEF GenerateInv
<1>1. PICK refused \in SUBSET life[p].payloads :
        life' = [life EXCEPT ![p].pc = "write", ![p].todo = life[p].payloads \ refused,
                             ![p].failed = @ \cup refused]
  BY DEF Validate
<1> DEFINE L == life[p]
           Checked == [L EXCEPT !.pc = "write", !.todo = L.payloads \ refused,
                                !.failed = L.failed \cup refused]
<1>a. L \in Life
  BY DEF GenerateTypeOK
<1>b. Checked \in Life
  BY <1>a DEF Life
<1>c. life'[p] = Checked /\ life' = [life EXCEPT ![p] = life'[p]]
  BY <1>1 DEF GenerateTypeOK
<1>2. /\ life'[p].pc = "write" /\ life[p].pc = "build" /\ life[p].todo = {}
      /\ life'[p].at = life[p].at /\ life'[p].step = life[p].step
      /\ life'[p].todo = life[p].payloads \ refused
      /\ life'[p].failed = life[p].failed \cup refused
      /\ life'[p].payloads = life[p].payloads /\ life'[p].read = life[p].read
      /\ \A q \in Lives \ {p} : life'[q] = life[q]
  <2>1. life[p].pc = "build" /\ life[p].todo = {} /\ \A q \in Lives \ {p} : life'[q] = life[q]
    BY <1>c DEF Validate, GenerateTypeOK
  <2> QED BY <1>a, <1>c, <2>1 DEF Life
<1>3. GenerateTypeOK'
  <2>1. life' \in [Lives -> Life]
    BY <1>b, <1>c DEF GenerateTypeOK
  <2>2. faults' \in 0 .. MaxFaults
    BY GenerateAssumption DEF Validate, Fault, GenerateTypeOK
  <2> QED BY <2>1, <2>2 DEF Validate, GenerateTypeOK
<1>4. PassInv(p)'
  <2>1. PassShape(p)'
    BY <1>2 DEF Validate, PassShape
  <2>2. Rendered(p)'
    <3>1. Rendered(p) /\ past' = past /\ visible' = visible
      BY DEF Validate
    <3> QED BY <1>2, <3>1 DEF Rendered
  <2>3. Accounted(p)'
    BY <1>2 DEF Accounted
  <2> QED BY <2>1, <2>2, <2>3 DEF PassInv
<1> QED BY <1>2, <1>3, <1>4, OwnStep DEF Validate, Up

\* The sync changes where the write is, and nothing else.
LEMMA SyncTempKeeps ==
  ASSUME GenerateInv, NEW p \in Lives, SyncTemp(p)
  PROVE  GenerateInv'
<1> USE DEF GenerateInv
<1>1. /\ life'[p] = [life[p] EXCEPT !.step = "synced"] /\ life[p] \in Life
      /\ \A q \in Lives \ {p} : life'[q] = life[q]
  BY DEF SyncTemp, GenerateTypeOK
<1>2. GenerateTypeOK'
  BY <1>1 DEF SyncTemp, GenerateTypeOK, Life, Writing
<1>3. PassInv(p)'
  BY <1>1 DEF SyncTemp, PassInv, PassShape, Rendered, Accounted, Life
<1> QED BY <1>1, <1>2, <1>3, OwnStep DEF SyncTemp, Up, Life

\* The sweep begins with every directory of the pass.
LEMMA AllWrittenKeeps ==
  ASSUME GenerateInv, NEW p \in Lives, AllWritten(p)
  PROVE  GenerateInv'
<1> USE DEF GenerateInv
<1> DEFINE Done == [life[p] EXCEPT !.pc = "sweep", !.todo = life[p].payloads]
<1>1. /\ life'[p] = Done /\ life[p] \in Life /\ life' = [life EXCEPT ![p] = life'[p]]
      /\ life[p].pc = "write" /\ life[p].todo = {}
      /\ \A q \in Lives \ {p} : life'[q] = life[q]
      /\ UNCHANGED <<visible, file, temps, past, toggles, faults, cuts>>
  BY DEF AllWritten, GenerateTypeOK
<1>2. /\ life'[p].pc = "sweep" /\ life'[p].todo = life[p].payloads
      /\ life'[p].at = life[p].at /\ life'[p].step = life[p].step
      /\ life'[p].failed = life[p].failed
      /\ life'[p].payloads = life[p].payloads /\ life'[p].read = life[p].read
  BY <1>1 DEF Life
<1>3. GenerateTypeOK'
  <2>1. Done \in Life
    BY <1>1 DEF Life
  <2> QED BY <1>1, <2>1 DEF GenerateTypeOK
<1>4. PassInv(p)'
  <2>1. PassShape(p)' /\ Rendered(p)'
    BY <1>1, <1>2 DEF PassShape, Rendered
  <2>2. Accounted(p)'
    BY <1>1, <1>2 DEF Accounted
  <2> QED BY <2>1, <2>2 DEF PassInv
<1>5. Up(p) /\ Up(p)'
  BY <1>1, <1>2 DEF Up
<1> QED BY <1>1, <1>2, <1>3, <1>4, <1>5, OwnStep

\* The outcome is what became of every render.
LEMMA FinishPassKeeps ==
  ASSUME GenerateInv, NEW p \in Lives, FinishPass(p)
  PROVE  GenerateInv'
<1> USE DEF GenerateInv
<1> DEFINE L == life[p]
           Closed == [L EXCEPT !.pc = "idle"]
           Told == [past[p] EXCEPT !.good = (L.failed = {})]
<1>1. /\ L \in Life /\ past[p] \in Past /\ L.pc = "sweep" /\ L.todo = {}
      /\ life'[p] = Closed /\ past'[p] = Told
      /\ life' = [life EXCEPT ![p] = life'[p]] /\ past' = [past EXCEPT ![p] = past'[p]]
      /\ \A q \in Lives \ {p} : life'[q] = life[q] /\ past'[q] = past[q]
      /\ UNCHANGED <<visible, file, temps, toggles, faults, cuts>>
  BY DEF FinishPass, GenerateTypeOK
<1>2. /\ life'[p].pc = "idle"
      /\ life'[p].at = L.at /\ life'[p].step = L.step /\ life'[p].failed = L.failed
      /\ life'[p].payloads = L.payloads /\ life'[p].read = L.read
  BY <1>1 DEF Life
<1>3. /\ past'[p].good <=> L.failed = {}
      /\ past'[p].fresh = past[p].fresh /\ past'[p].lost = past[p].lost
  BY <1>1 DEF Past
<1>4. GenerateTypeOK'
  <2>1. Closed \in Life
    BY <1>1 DEF Life
  <2>2. Told \in Past
    BY <1>1 DEF Past
  <2> QED BY <1>1, <2>1, <2>2 DEF GenerateTypeOK
<1>5. PassInv(p)'
  <2>1. PassShape(p)' /\ Rendered(p)'
    BY <1>1, <1>2, <1>3 DEF PassShape, Rendered
  <2>2. Accounted(p)'
    BY <1>1, <1>2, <1>3 DEF Accounted
  <2> QED BY <2>1, <2>2 DEF PassInv
<1>6. \A s \in Systems : \A t \in temps[s] : s \in life[p].payloads => ~Stale(p, t)
  BY <1>1 DEF TempsOwned
<1>7. Up(p) /\ Up(p)'
  BY <1>1, <1>2 DEF Up
<1> QED BY <1>1, <1>2, <1>4, <1>5, <1>6, <1>7, OwnStep

\* The process that writes a temp is up; for every other that is up, it is new.
LEMMA StampIsNew ==
  ASSUME GenerateTypeOK, NEW p \in Lives, Up(p)
  PROVE  /\ Stamp(p) \in Temp /\ Stamp(p).by = p
         /\ \A q \in Lives : Up(q) => ~Stale(q, Stamp(p))
BY DEF GenerateTypeOK, Stamp, Temp, Started, Stale, Up

\* Only the temps of one directory change, by losing some of p's or of no live
\* process's, and p may have a new one where it writes.
LEMMA TempsMove ==
  ASSUME GenerateInv, NEW p \in Lives, NEW s \in Systems, Up(p), Up(p)',
         \A q \in Lives \ {p} : life'[q] = life[q],
         \A r \in Systems \ {s} : temps'[r] = temps[r],
         \A t \in temps'[s] : t \in temps[s] \/ (t = Stamp(p) /\ s \in life'[p].at),
         \A r \in Systems : \A t \in temps'[r] : t.by = p => r \in life'[p].at,
         life'[p].pc \notin {"idle", "sweep"}
  PROVE  TempsOwned'
<1>1. /\ Stamp(p).by = p /\ \A q \in Lives : Up(q) => ~Stale(q, Stamp(p))
  BY StampIsNew DEF GenerateInv
<1> SUFFICES ASSUME NEW r \in Systems, NEW t \in temps'[r]
             PROVE  /\ life'[t.by].pc # "off"
                    /\ Up(t.by)' => r \in life'[t.by].at
                    /\ \A q \in Lives :
                         \/ life'[q].pc = "idle" /\ r \in life'[q].payloads
                         \/ life'[q].pc = "sweep" /\ r \in life'[q].payloads /\ r \notin life'[q].todo
                         => ~Stale(q, t)
  BY DEF TempsOwned, Stale
<1>2. CASE t \in temps[r]
  <2>1. t.by \in Lives /\ TempsOwned
    BY <1>2 DEF GenerateInv, GenerateTypeOK, Temp
  <2> QED BY <1>2, <2>1 DEF TempsOwned, Up
<1>3. CASE t = Stamp(p) /\ r = s /\ s \in life'[p].at
  BY <1>1, <1>3 DEF Up
<1> QED BY <1>2, <1>3

\* What a temp that is there says of its owner.
LEMMA OwnTemps ==
  ASSUME GenerateInv, NEW p \in Lives, Up(p), NEW r \in Systems, NEW t \in temps[r], t.by = p
  PROVE  r \in life[p].at
BY DEF GenerateInv, TempsOwned

\* A write begins with a temp in the directory it is for.
LEMMA CreateTempKeeps ==
  ASSUME GenerateInv, NEW p \in Lives, NEW s \in Systems, CreateTemp(p, s)
  PROVE  GenerateInv'
<1> USE DEF GenerateInv
<1> DEFINE L == life[p]
           Begun == [L EXCEPT !.at = {s}, !.step = "created"]
<1>1. /\ L \in Life /\ L.pc = "write" /\ L.step = "next" /\ s \in L.todo
      /\ life'[p] = Begun /\ life' = [life EXCEPT ![p] = Begun]
      /\ \A q \in Lives \ {p} : life'[q] = life[q]
      /\ temps' = [temps EXCEPT ![s] = @ \cup {Stamp(p)}]
      /\ UNCHANGED <<visible, file, past, toggles, faults, cuts>>
  BY DEF CreateTemp, GenerateTypeOK
<1>2. /\ life'[p].pc = "write" /\ life'[p].at = {s} /\ life'[p].step = "created"
      /\ life'[p].todo = L.todo /\ life'[p].failed = L.failed
      /\ life'[p].payloads = L.payloads /\ life'[p].read = L.read
  BY <1>1 DEF Life
<1>3. Up(p) /\ Up(p)' /\ L.at = {}
  BY <1>1, <1>2 DEF Up, PassShape
<1>4. GenerateTypeOK'
  <2>1. Begun \in Life
    BY <1>1 DEF Life, Writing
  <2>2. temps' \in [Systems -> SUBSET Temp]
    BY <1>1, <1>3, StampIsNew DEF GenerateTypeOK
  <2> QED BY <1>1, <2>1, <2>2 DEF GenerateTypeOK
<1>5. ASSUME NEW q \in Lives PROVE (PassShape(q) /\ Rendered(q) /\ Accounted(q))'
  <2>1. CASE q # p
    BY <1>1, <2>1, PassStays DEF PassInv
  <2>2. CASE q = p
    BY <1>1, <1>2, <2>2 DEF PassShape, Rendered, Accounted
  <2> QED BY <2>1, <2>2
<1>6. FilesSafe'
  BY <1>1 DEF FilesSafe
<1>7. TempsOwned'
  <2>1. \A r \in Systems \ {s} : temps'[r] = temps[r]
    BY <1>1 DEF GenerateTypeOK
  <2>2. \A t \in temps'[s] : t \in temps[s] \/ (t = Stamp(p) /\ s \in life'[p].at)
    BY <1>1, <1>2 DEF GenerateTypeOK
  <2>3. \A r \in Systems : \A t \in temps'[r] : t.by = p => r \in life'[p].at
    BY <1>2, <1>3, <2>1, <2>2, OwnTemps
  <2> QED BY <1>1, <1>2, <1>3, <2>1, <2>2, <2>3, TempsMove
<1> QED BY <1>4, <1>5, <1>6, <1>7

\* The bytes renew the temp, if it is still there.
LEMMA WriteTempKeeps ==
  ASSUME GenerateInv, NEW p \in Lives, NEW s \in Systems, WriteTemp(p, s)
  PROVE  GenerateInv'
<1> USE DEF GenerateInv
<1> DEFINE L == life[p]
           Filled == [L EXCEPT !.step = "written"]
<1>1. /\ L \in Life /\ L.pc = "write" /\ s \in L.at
      /\ life'[p] = Filled /\ life' = [life EXCEPT ![p] = Filled]
      /\ \A q \in Lives \ {p} : life'[q] = life[q]
      /\ UNCHANGED <<visible, file, past, toggles, faults, cuts>>
  BY DEF WriteTemp, GenerateTypeOK
<1>2. /\ life'[p].pc = "write" /\ life'[p].at = L.at /\ life'[p].step = "written"
      /\ life'[p].todo = L.todo /\ life'[p].failed = L.failed
      /\ life'[p].payloads = L.payloads /\ life'[p].read = L.read
  BY <1>1 DEF Life
<1>3. Up(p) /\ Up(p)'
  BY <1>1, <1>2 DEF Up
<1>4. /\ \A r \in Systems \ {s} : temps'[r] = temps[r]
      /\ temps'[s] \subseteq temps[s] \cup {Stamp(p)}
      /\ temps' = [temps EXCEPT ![s] = temps'[s]]
  BY DEF WriteTemp, GenerateTypeOK
<1>5. GenerateTypeOK'
  <2>1. Filled \in Life
    BY <1>1 DEF Life, Writing
  <2>2. temps' \in [Systems -> SUBSET Temp]
    BY <1>3, <1>4, StampIsNew DEF GenerateTypeOK
  <2> QED BY <1>1, <2>1, <2>2 DEF GenerateTypeOK
<1>6. ASSUME NEW q \in Lives PROVE (PassShape(q) /\ Rendered(q) /\ Accounted(q))'
  <2>1. CASE q # p
    BY <1>1, <2>1, PassStays DEF PassInv
  <2>2. CASE q = p
    <3>1. PassShape(p)' /\ Rendered(p)'
      BY <1>1, <1>2 DEF PassShape, Rendered
    <3>2. Accounted(p)'
      BY <1>1, <1>2 DEF Accounted
    <3> QED BY <2>2, <3>1, <3>2
  <2> QED BY <2>1, <2>2
<1>7. FilesSafe'
  BY <1>1 DEF FilesSafe
<1>8. TempsOwned'
  <2>1. \A t \in temps'[s] : t \in temps[s] \/ (t = Stamp(p) /\ s \in life'[p].at)
    BY <1>1, <1>2, <1>4
  <2>2. \A r \in Systems : \A t \in temps'[r] : t.by = p => r \in life'[p].at
    BY <1>2, <1>3, <1>4, <2>1, OwnTemps
  <2> QED BY <1>1, <1>2, <1>3, <1>4, <2>1, <2>2, TempsMove
<1> QED BY <1>5, <1>6, <1>7, <1>8

\* The end of a write, well or badly, as far as the temps go: p's are gone.
LEMMA MineGone ==
  ASSUME GenerateInv, NEW p \in Lives, NEW s \in Systems, life[p].pc = "write",
         life[p].at \in {{}, {s}}, temps' = [temps EXCEPT ![s] = @ \ Mine(p, s)],
         \A q \in Lives \ {p} : life'[q] = life[q], life'[p].pc = "write"
  PROVE  /\ temps' \in [Systems -> SUBSET Temp]
         /\ TempsOwned'
<1> USE DEF GenerateInv
<1>1. /\ \A r \in Systems \ {s} : temps'[r] = temps[r]
      /\ temps'[s] = temps[s] \ Mine(p, s)
  BY DEF GenerateTypeOK
<1>2. Up(p) /\ Up(p)'
  BY DEF Up
<1>3. \A r \in Systems : \A t \in temps'[r] : t.by # p
  BY <1>1, <1>2, OwnTemps DEF Mine
<1>4. temps' \in [Systems -> SUBSET Temp]
  BY <1>1 DEF GenerateTypeOK
<1>5. TempsOwned'
  <2>1. \A t \in temps'[s] : t \in temps[s] \/ (t = Stamp(p) /\ s \in life'[p].at)
    BY <1>1
  <2>2. \A r \in Systems : \A t \in temps'[r] : t.by = p => r \in life'[p].at
    BY <1>3
  <2> QED BY <1>1, <1>2, <2>1, <2>2, TempsMove
<1> QED BY <1>4, <1>5

\* The renamed file is what the pass rendered; for the others it is lost.
LEMMA RenameKeeps ==
  ASSUME GenerateInv, NEW p \in Lives, NEW s \in Systems, Rename(p, s)
  PROVE  GenerateInv'
<1> USE DEF GenerateInv
<1> DEFINE L == life[p]
           Next1 == [L EXCEPT !.at = {}, !.step = "next", !.todo = L.todo \ {s}]
<1>1. /\ L \in Life /\ L.pc = "write" /\ s \in L.at
      /\ life'[p] = Next1 /\ life' = [life EXCEPT ![p] = Next1]
      /\ \A q \in Lives \ {p} : life'[q] = life[q]
      /\ temps' = [temps EXCEPT ![s] = @ \ Mine(p, s)]
      /\ UNCHANGED <<visible, toggles, faults, cuts>>
  <2>1. life \in [Lives -> Life]
    BY DEF GenerateTypeOK
  <2>2. [life EXCEPT ![p].at = {}, ![p].step = "next", ![p].todo = @ \ {s}] = [life EXCEPT ![p] = Next1]
    BY <2>1
  <2> QED BY <2>1, <2>2 DEF Rename
<1>2. /\ life'[p].pc = "write" /\ life'[p].at = {} /\ life'[p].step = "next"
      /\ life'[p].todo = L.todo \ {s} /\ life'[p].failed = L.failed
      /\ life'[p].payloads = L.payloads /\ life'[p].read = L.read
  BY <1>1 DEF Life
<1>3. /\ L.at = {s}
      /\ ~past[p].good
  BY <1>1 DEF PassShape, GenerateTypeOK, Life
<1>4. PICK back \in {{}, ({file[s].games} \cup file[s].back) \ {L.read[s]}} :
        file' = [file EXCEPT ![s] = [games |-> L.read[s], whole |-> TRUE, safe |-> TRUE, back |-> back]]
  BY DEF Rename
<1>5. /\ file'[s].games = L.read[s] /\ file'[s].whole /\ file'[s].safe
      /\ \A r \in Systems \ {s} : file'[r] = file[r]
  BY <1>4 DEF GenerateTypeOK
<1>6. /\ past'[p] = past[p]
      /\ \A q \in Lives \ {p} : past'[q] = [past[q] EXCEPT !.lost = @ \cup {s}]
      /\ \A q \in Lives : past[q] \in Past
      /\ past' = [q \in Lives |-> past'[q]]
  BY DEF Rename, GenerateTypeOK
<1>7. /\ past'[p].good = past[p].good /\ past'[p].fresh = past[p].fresh /\ past'[p].lost = past[p].lost
      /\ past'[p] \in Past
      /\ \A q \in Lives \ {p} :
           /\ past'[q].good = past[q].good /\ past'[q].fresh = past[q].fresh
           /\ past'[q].lost = past[q].lost \cup {s} /\ past'[q] \in Past
  <2>1. ASSUME NEW q \in Lives \ {p}
        PROVE  /\ past'[q].good = past[q].good /\ past'[q].fresh = past[q].fresh
               /\ past'[q].lost = past[q].lost \cup {s} /\ past'[q] \in Past
    BY <1>6 DEF Past
  <2>2. /\ past'[p].good = past[p].good /\ past'[p].fresh = past[p].fresh
        /\ past'[p].lost = past[p].lost /\ past'[p] \in Past
    BY <1>6 DEF Past
  <2> QED BY <2>1, <2>2
<1>8. GenerateTypeOK'
  <2>1. Next1 \in Life
    BY <1>1 DEF Life
  <2>2. file' \in [Systems -> File]
    <3>1. file[s] \in File /\ L.read[s] \in SUBSET Games
      BY <1>1 DEF GenerateTypeOK, Life
    <3>2. back \in SUBSET (SUBSET Games)
      BY <3>1 DEF File
    <3>3. [games |-> L.read[s], whole |-> TRUE, safe |-> TRUE, back |-> back] \in File
      BY <3>1, <3>2 DEF File
    <3> QED BY <1>4, <3>3 DEF GenerateTypeOK
  <2>3. past' \in [Lives -> Past]
    BY <1>6, <1>7
  <2>4. temps' \in [Systems -> SUBSET Temp]
    BY <1>1, <1>2, <1>3, MineGone
  <2> QED BY <1>1, <2>1, <2>2, <2>3, <2>4 DEF GenerateTypeOK
<1>9. ASSUME NEW q \in Lives PROVE (PassShape(q) /\ Rendered(q) /\ Accounted(q))'
  <2>1. CASE q # p
    <3>1. /\ life'[q] = life[q] /\ visible' = visible
          /\ past'[q].good = past[q].good /\ past'[q].fresh = past[q].fresh
          /\ past'[q].lost = past[q].lost \cup {s}
      BY <1>1, <1>7, <2>1
    <3>2. PassShape(q)' /\ Rendered(q)'
      BY <3>1 DEF PassShape, Rendered
    <3>3. Accounted(q)'
      BY <1>5, <3>1 DEF Accounted, GenerateTypeOK, Life
    <3> QED BY <3>2, <3>3
  <2>2. CASE q = p
    <3>1. PassShape(p)'
      BY <1>1, <1>2, <1>3, <1>7 DEF PassShape
    <3>2. Rendered(p)'
      BY <1>1, <1>2, <1>7 DEF Rendered
    <3>3. Accounted(p)'
      <4> SUFFICES ASSUME NEW r \in L.payloads
                   PROVE  \/ r \in life'[p].todo \/ r \in life'[p].failed \/ r \in past'[p].lost
                          \/ file'[r].games = life'[p].read[r]
        BY <1>2 DEF Accounted
      <4>1. CASE r = s
        BY <1>2, <1>5, <4>1
      <4>2. CASE r # s
        <5>1. r \in Systems
          BY <1>1 DEF Life
        <5> QED BY <1>1, <1>2, <1>5, <1>7, <4>2, <5>1 DEF Accounted
      <4> QED BY <4>1, <4>2
    <3> QED BY <2>2, <3>1, <3>2, <3>3
  <2> QED BY <2>1, <2>2
<1>10. FilesSafe'
  BY <1>5 DEF FilesSafe
<1>11. TempsOwned'
  BY <1>1, <1>2, <1>3, MineGone
<1> QED BY <1>8, <1>9, <1>10, <1>11

\* A failed write is recorded, and nothing of it is left.
LEMMA WriteFailsKeeps ==
  ASSUME GenerateInv, NEW p \in Lives, NEW s \in Systems, WriteFails(p, s)
  PROVE  GenerateInv'
<1> USE DEF GenerateInv
<1> DEFINE L == life[p]
           Next1 == [L EXCEPT !.at = {}, !.step = "next", !.todo = L.todo \ {s},
                              !.failed = L.failed \cup {s}]
<1>1. /\ L \in Life /\ L.pc = "write" /\ L.at \in {{}, {s}}
      /\ life'[p] = Next1 /\ life' = [life EXCEPT ![p] = Next1]
      /\ \A q \in Lives \ {p} : life'[q] = life[q]
      /\ temps' = [temps EXCEPT ![s] = @ \ Mine(p, s)]
      /\ UNCHANGED <<visible, file, past, toggles, cuts>>
  <2>1. life \in [Lives -> Life]
    BY DEF GenerateTypeOK
  <2>2. [life EXCEPT ![p].at = {}, ![p].step = "next", ![p].todo = @ \ {s},
                     ![p].failed = @ \cup {s}] = [life EXCEPT ![p] = Next1]
    BY <2>1
  <2> QED BY <2>1, <2>2 DEF WriteFails
<1>2. /\ life'[p].pc = "write" /\ life'[p].at = {} /\ life'[p].step = "next"
      /\ life'[p].todo = L.todo \ {s} /\ life'[p].failed = L.failed \cup {s}
      /\ life'[p].payloads = L.payloads /\ life'[p].read = L.read
  BY <1>1 DEF Life
<1>3. GenerateTypeOK'
  <2>1. Next1 \in Life
    BY <1>1 DEF Life
  <2>2. temps' \in [Systems -> SUBSET Temp]
    BY <1>1, <1>2, MineGone
  <2>3. faults' \in 0 .. MaxFaults
    BY GenerateAssumption DEF WriteFails, Fault, GenerateTypeOK
  <2> QED BY <1>1, <2>1, <2>2, <2>3 DEF GenerateTypeOK
<1>4. ASSUME NEW q \in Lives PROVE (PassShape(q) /\ Rendered(q) /\ Accounted(q))'
  <2>1. CASE q # p
    BY <1>1, <2>1, PassStays DEF PassInv
  <2>2. CASE q = p
    <3>1. PassShape(p)'
      BY <1>1, <1>2 DEF PassShape
    <3>2. Rendered(p)'
      BY <1>1, <1>2 DEF Rendered
    <3>3. Accounted(p)'
      BY <1>1, <1>2 DEF Accounted
    <3> QED BY <2>2, <3>1, <3>2, <3>3
  <2> QED BY <2>1, <2>2
<1>5. FilesSafe'
  BY <1>1 DEF FilesSafe
<1>6. TempsOwned'
  BY <1>1, <1>2, MineGone
<1> QED BY <1>3, <1>4, <1>5, <1>6

\* A swept directory holds nothing stale.
LEMMA SweepTempsKeeps ==
  ASSUME GenerateInv, NEW p \in Lives, NEW s \in Systems, SweepTemps(p, s)
  PROVE  GenerateInv'
<1> USE DEF GenerateInv
<1> DEFINE L == life[p]
           Swept == [L EXCEPT !.todo = L.todo \ {s}]
<1>1. /\ L \in Life /\ L.pc = "sweep"
      /\ life'[p] = Swept /\ life' = [life EXCEPT ![p] = Swept]
      /\ \A q \in Lives \ {p} : life'[q] = life[q]
      /\ UNCHANGED <<visible, file, past, toggles, faults, cuts>>
  BY DEF SweepTemps, GenerateTypeOK
<1>2. /\ life'[p].pc = "sweep" /\ life'[p].at = L.at /\ life'[p].step = L.step
      /\ life'[p].todo = L.todo \ {s} /\ life'[p].failed = L.failed
      /\ life'[p].payloads = L.payloads /\ life'[p].read = L.read
  BY <1>1 DEF Life
<1>3. /\ \A r \in Systems \ {s} : temps'[r] = temps[r]
      /\ temps'[s] \subseteq temps[s] /\ \A t \in temps'[s] : ~Stale(p, t)
      /\ temps' = [temps EXCEPT ![s] = temps'[s]]
  BY DEF SweepTemps, GenerateTypeOK
<1>4. GenerateTypeOK'
  <2>1. Swept \in Life
    BY <1>1 DEF Life
  <2>2. temps' \in [Systems -> SUBSET Temp]
    BY <1>3 DEF GenerateTypeOK
  <2> QED BY <1>1, <2>1, <2>2 DEF GenerateTypeOK
<1>5. ASSUME NEW q \in Lives PROVE (PassShape(q) /\ Rendered(q) /\ Accounted(q))'
  <2>1. CASE q # p
    BY <1>1, <2>1, PassStays DEF PassInv
  <2>2. CASE q = p
    <3>1. PassShape(p)' /\ Rendered(p)'
      BY <1>1, <1>2 DEF PassShape, Rendered
    <3>2. Accounted(p)'
      BY <1>1, <1>2 DEF Accounted
    <3> QED BY <2>2, <3>1, <3>2
  <2> QED BY <2>1, <2>2
<1>6. FilesSafe'
  BY <1>1 DEF FilesSafe
<1>7. TempsOwned'
  <2> SUFFICES ASSUME NEW r \in Systems, NEW t \in temps'[r]
               PROVE  /\ life'[t.by].pc # "off"
                      /\ Up(t.by)' => r \in life'[t.by].at
                      /\ \A q \in Lives :
                           \/ life'[q].pc = "idle" /\ r \in life'[q].payloads
                           \/ life'[q].pc = "sweep" /\ r \in life'[q].payloads /\ r \notin life'[q].todo
                           => ~Stale(q, t)
    BY DEF TempsOwned, Stale
  <2>1. t \in temps[r] /\ t.by \in Lives /\ (r = s => ~Stale(p, t))
    BY <1>3 DEF GenerateTypeOK, Temp
  <2> QED BY <1>1, <1>2, <2>1 DEF TempsOwned, Up
<1> QED BY <1>4, <1>5, <1>6, <1>7

\* Every step of the processes, of curation and of the power keeps the invariant.
LEMMA GenerateStep ==
  ASSUME GenerateInv, [GenerateNext]_generateVars
  PROVE  GenerateInv'
<1>1. CASE UNCHANGED generateVars
  BY <1>1 DEF generateVars, GenerateInv, GenerateTypeOK, PassShape, Rendered, Accounted,
              FilesSafe, TempsOwned, Up, Stale
<1>2. CASE \E s \in Systems, g \in Games : Toggle(s, g)
  BY <1>2, ToggleKeeps
<1>3. CASE PowerCut
  BY <1>3, PowerCutKeeps
<1>4. ASSUME NEW p \in Lives, StartLife(p) \/ EndLife(p) \/ Pass(p)
      PROVE  GenerateInv'
  <2>1. CASE StartLife(p) \/ EndLife(p)
    BY <2>1, StartLifeKeeps, EndLifeKeeps
  <2>2. CASE BeginPass(p) \/ Validate(p) \/ SyncTemp(p) \/ AllWritten(p) \/ FinishPass(p)
    BY <2>2, BeginPassKeeps, ValidateKeeps, SyncTempKeeps, AllWrittenKeeps, FinishPassKeeps
  <2>3. ASSUME NEW s \in Systems,
               \/ Build(p, s) \/ CreateTemp(p, s) \/ WriteTemp(p, s)
               \/ Rename(p, s) \/ WriteFails(p, s) \/ SweepTemps(p, s)
        PROVE  GenerateInv'
    BY <2>3, BuildKeeps, CreateTempKeeps, WriteTempKeeps, RenameKeeps, WriteFailsKeeps,
       SweepTempsKeeps
  <2> QED BY <1>4, <2>1, <2>2, <2>3 DEF Pass
<1> QED BY <1>1, <1>2, <1>3, <1>4 DEF GenerateNext

\* The invariant says what the properties say.
LEMMA GenerateInvSays ==
  ASSUME GenerateInv
  PROVE  ServedWhole /\ OkMeansServed /\ NoLitter
<1> USE DEF GenerateInv
<1>1. ServedWhole
  BY DEF ServedWhole, FilesSafe
<1>2. ASSUME NEW p \in Lives, NEW s \in Systems, Vouched(p, s), life[p].read[s] # {}
      PROVE  file[s].games = life[p].read[s]
  BY <1>2 DEF Vouched, PassShape, Rendered, Accounted
<1>3. ASSUME NEW p \in Lives, NEW s \in Systems, Vouched(p, s), past[p].fresh, visible[s] # {}
      PROVE  file[s].games = visible[s]
  <2>1. life[p].read[s] = visible[s]
    BY <1>3 DEF Vouched, PassShape, Rendered
  <2> QED BY <1>2, <1>3, <2>1
<1>4. NoLitter
  BY DEF NoLitter, TempsOwned, PassShape, GenerateTypeOK, Temp
<1> QED BY <1>1, <1>2, <1>3, <1>4 DEF OkMeansServed

\* For any number of systems, games, processes, toggles, errors, kills and power
\* cuts, one after another or overlapping, the invariant holds.
THEOREM GenerateInvariant == GenerateSpec => []GenerateInv
<1>1. GenerateInv /\ [GenerateNext]_generateVars => GenerateInv'
  BY GenerateStep
<1> QED BY <1>1, GenerateInit_Inv, PTL DEF GenerateSpec

\* What the kiosks read is always a whole render.
THEOREM GenerateServedWhole == GenerateSpec => []ServedWhole
<1>1. GenerateInv => ServedWhole
  BY GenerateInvSays
<1> QED BY <1>1, GenerateInvariant, PTL

\* A pass that was stamped fully ok served every render it made, and all that is
\* visible unless somebody toggled since it began.
THEOREM GenerateOkMeansServed == GenerateSpec => []OkMeansServed
<1>1. GenerateInv => OkMeansServed
  BY GenerateInvSays
<1> QED BY <1>1, GenerateInvariant, PTL

\* No process that lives leaves a temp behind, and the residue of the dead goes.
THEOREM GenerateNoLitter == GenerateSpec => []NoLitter
<1>1. GenerateInv => NoLitter
  BY GenerateInvSays
<1> QED BY <1>1, GenerateInvariant, PTL
=============================================================================
