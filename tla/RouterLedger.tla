---------------------------- MODULE RouterLedger ----------------------------
(***************************************************************************)
(* The quota ledger of the model router (internal/ledger/ledger.go).       *)
(*                                                                         *)
(* Every method of the Go Ledger holds l.mu from its first to its last     *)
(* line, so each one is a single action here.  A lease is the reservation  *)
(* one attempt of one request holds; the model keeps what became of every  *)
(* lease, and numbers the windows of a scope (epoch), so that the counters *)
(* the code keeps can be compared with what was really admitted.           *)
(*                                                                         *)
(* Time is a tick counter; the lengths of a minute, a session, a day and   *)
(* the credit period are constants, and a calendar day is what             *)
(* time.Time.Day() returns: the day of the month.                          *)
(***************************************************************************)
EXTENDS Integers, FiniteSets

CONSTANTS
  Scopes,        \* (provider, model, key) triples
  Leases,        \* lease objects, each used once
  Dims,          \* quota dimensions
  CostDims,      \* dimensions a request reserves one unit of (walk.go: rpm, rpd)
  CapValues,     \* ceilings a seed entry may state (0: the seed states none)
  HintValues,    \* ceilings a response may state
  Minute, Session, Credit, Day,  \* lengths in ticks
  MonthDays,     \* days after which Day() repeats
  PacificOffset, \* ticks by which the Pacific day trails the UTC day
  MaxClock,      \* bound on the clock
  MaxResets      \* bound on the windows in which a stated reset is learnt

ASSUME LedgerAssumption ==
  /\ IsFiniteSet(Leases)
  /\ CostDims \subseteq Dims
  /\ CapValues \subseteq Nat /\ HintValues \subseteq Nat
  /\ {Minute, Session, Credit, Day} \subseteq Nat \ {0}
  /\ MonthDays \in Nat \ {0, 1}
  /\ PacificOffset \in 0 .. Day - 1
  /\ MaxClock \in Nat /\ MaxResets \in Nat

VARIABLES
  clock,        \* l.now()
  kinds,        \* window kind of each scope; the zero value is RollingHeaders
  ceilings,     \* ceilings[sc][dim]; 0 stands for an absent or zero entry
  spent,        \* spent[sc][dim]; absent entries read 0
  windowStart,  \* start of the scope's window, or NoTime
  epoch,        \* history: how many times the scope's counters were reset
  lease         \* history: what became of each lease

vars == <<clock, kinds, ceilings, spent, windowStart, epoch, lease>>

NoTime == -1

WindowKind == {"RollingHeaders", "FixedPacificMidnight", "UTCMidnightShared",
               "ContinuousBucket", "Session5h7d", "CreditExpiry"}

NoHint == -1

LeaseState == {"none", "held", "stands", "released", "refused"}

LeaseRecord ==
  [state : LeaseState, scope : Scopes, window : Nat, closedIn : Nat]

TypeOK ==
  /\ clock \in Nat
  /\ kinds \in [Scopes -> WindowKind]
  /\ ceilings \in [Scopes -> [Dims -> Nat]]
  /\ spent \in [Scopes -> [Dims -> Nat]]
  /\ windowStart \in [Scopes -> Nat \cup {NoTime}]
  /\ epoch \in [Scopes -> Nat]
  /\ lease \in [Leases -> LeaseRecord]

----------------------------------------------------------------------------
(* Windows *)

\* time.Time.Day() of an instant, in UTC and in America/Los_Angeles.
UTCDay(t)     == (t \div Day) % MonthDays
PacificDay(t) == ((t + Day - PacificOffset) \div Day) % MonthDays

\* Mutant: a session that rolls one instant late.
BoundaryLate(kind, start, now) ==
  CASE kind = "FixedPacificMidnight" -> PacificDay(now) # PacificDay(start)
    [] kind = "UTCMidnightShared"    -> UTCDay(now) # UTCDay(start)
    [] kind = "Session5h7d"          -> now > start + Session
    [] kind = "CreditExpiry"         -> now >= start + Credit
    [] OTHER -> now >= (start \div Minute) * Minute + Minute

\* The test each case of rollWindow makes: has a boundary passed since start?
Boundary(kind, start, now) ==
  CASE kind = "FixedPacificMidnight" -> PacificDay(now) # PacificDay(start)
    [] kind = "UTCMidnightShared"    -> UTCDay(now) # UTCDay(start)
    [] kind = "Session5h7d"          -> now >= start + Session
    [] kind = "CreditExpiry"         -> now >= start + Credit
    [] OTHER -> now >= (start \div Minute) * Minute + Minute

Zero == [d \in Dims |-> 0]

\* rollWindow(sc) resets the counters: only when a window is open and over.
Rolls(sc) ==
  /\ windowStart[sc] # NoTime
  /\ Boundary(kinds[sc], windowStart[sc], clock)

RolledSpent(sc) == IF Rolls(sc) THEN Zero ELSE spent[sc]

RolledStart(sc) ==
  IF windowStart[sc] = NoTime \/ Rolls(sc) THEN clock ELSE windowStart[sc]

RolledEpoch(sc) == IF Rolls(sc) THEN epoch[sc] + 1 ELSE epoch[sc]

\* NextReset's answer, computed after its own rollWindow call.
NextReset(sc) ==
  LET kind == kinds[sc] IN
  CASE kind = "FixedPacificMidnight" ->
         ((clock + Day - PacificOffset) \div Day) * Day + PacificOffset
    [] kind = "UTCMidnightShared" -> (clock \div Day) * Day + Day
    [] kind = "Session5h7d"       -> RolledStart(sc) + Session
    [] OTHER                      -> (clock \div Minute) * Minute + Minute

----------------------------------------------------------------------------
(* Operations *)

Init ==
  /\ clock = 0
  /\ kinds = [sc \in Scopes |-> "RollingHeaders"]
  /\ ceilings = [sc \in Scopes |-> Zero]
  /\ spent = [sc \in Scopes |-> Zero]
  /\ windowStart = [sc \in Scopes |-> NoTime]
  /\ epoch = [sc \in Scopes |-> 0]
  /\ lease \in [Leases -> {[state |-> "none", scope |-> sc,
                            window |-> 0, closedIn |-> 0] : sc \in Scopes}]

\* The router configures scopes at startup, before it serves a request; a
\* scope whose key is saved later is never configured.
ConfigureScope(sc, kind, caps) ==
  /\ \A l \in Leases : lease[l].state = "none"
  /\ clock = 0
  /\ windowStart' = [windowStart EXCEPT ![sc] = IF @ = NoTime THEN clock ELSE @]
  /\ kinds' = [kinds EXCEPT ![sc] = kind]
  /\ ceilings' = [ceilings EXCEPT ![sc] =
                    [d \in Dims |-> IF @[d] = 0 THEN caps[d] ELSE @[d]]]
  /\ UNCHANGED <<clock, spent, epoch, lease>>

\* Mutant: the ceiling is tested against what is spent so far.
HasRoomBefore(sc, d) ==
  ceilings[sc][d] = 0 \/ RolledSpent(sc)[d] <= ceilings[sc][d]

\* Does dimension d have room for one more unit once the window is rolled?
HasRoom(sc, d) ==
  ceilings[sc][d] = 0 \/ RolledSpent(sc)[d] + 1 <= ceilings[sc][d]

Roll(sc) ==
  /\ windowStart' = [windowStart EXCEPT ![sc] = RolledStart(sc)]
  /\ epoch' = [epoch EXCEPT ![sc] = RolledEpoch(sc)]

Grant(l, sc) ==
  /\ \A d \in CostDims : HasRoom(sc, d)
  /\ spent' = [spent EXCEPT ![sc] =
        [d \in Dims |-> RolledSpent(sc)[d] + IF d \in CostDims THEN 1 ELSE 0]]
  /\ lease' = [lease EXCEPT ![l] =
                  [@ EXCEPT !.state = "held", !.window = RolledEpoch(sc)]]

Refuse(l, sc) ==
  /\ \E d \in CostDims : ~HasRoom(sc, d)
  /\ spent' = [spent EXCEPT ![sc] = RolledSpent(sc)]
  /\ lease' = [lease EXCEPT ![l] = [@ EXCEPT !.state = "refused"]]

Reserve(l) ==
  LET sc == lease[l].scope IN
  /\ lease[l].state = "none"
  /\ Roll(sc)
  /\ Grant(l, sc) \/ Refuse(l, sc)
  /\ UNCHANGED <<clock, kinds, ceilings>>

\* Commit does nothing to the ledger: the reserved units stand.
Commit(l) ==
  /\ lease[l].state = "held"
  /\ lease' = [lease EXCEPT ![l] = [@ EXCEPT !.state = "stands"]]
  /\ UNCHANGED <<clock, kinds, ceilings, spent, windowStart, epoch>>

\* Mutant: the refund is never made.
ReturnedNothing(n) == n

\* Release returns the units to whatever window is open now, floored at 0.
Returned(n) == IF n = 0 THEN 0 ELSE n - 1

Release(l) ==
  LET sc == lease[l].scope IN
  /\ lease[l].state = "held"
  /\ spent' = [spent EXCEPT ![sc] =
        [d \in Dims |-> IF d \in CostDims THEN Returned(@[d]) ELSE @[d]]]
  /\ lease' = [lease EXCEPT ![l] =
                  [@ EXCEPT !.state = "released", !.closedIn = epoch[sc]]]
  /\ UNCHANGED <<clock, kinds, ceilings, windowStart, epoch>>

\* LearnFromResponse: a reset_at hint clears the counters, a ceiling hint
\* fills an unset dimension or lowers a set one.  A response states at most
\* one figure per dimension.
Learnt(existing, hint) ==
  IF hint # NoHint /\ (existing = 0 \/ hint < existing) THEN hint ELSE existing

LearnFromResponse(sc, reset, hint) ==
  /\ reset => epoch[sc] < MaxResets
  /\ ceilings' = [ceilings EXCEPT ![sc] =
                    [d \in Dims |-> Learnt(@[d], hint[d])]]
  /\ spent' = [spent EXCEPT ![sc] = IF reset THEN Zero ELSE @]
  /\ windowStart' = [windowStart EXCEPT ![sc] = IF reset THEN clock ELSE @]
  /\ epoch' = [epoch EXCEPT ![sc] = IF reset THEN @ + 1 ELSE @]
  /\ UNCHANGED <<clock, kinds, lease>>

\* NextReset and HeadroomRatio answer a reader, and roll the window on the way.
Observe(sc) ==
  /\ Roll(sc)
  /\ spent' = [spent EXCEPT ![sc] = RolledSpent(sc)]
  /\ UNCHANGED <<clock, kinds, ceilings, lease>>

Tick ==
  /\ clock < MaxClock
  /\ clock' = clock + 1
  /\ UNCHANGED <<kinds, ceilings, spent, windowStart, epoch, lease>>

Next ==
  \/ \E sc \in Scopes, k \in WindowKind, caps \in [Dims -> CapValues] :
       ConfigureScope(sc, k, caps)
  \/ \E l \in Leases : Reserve(l) \/ Commit(l) \/ Release(l)
  \/ \E sc \in Scopes, reset \in BOOLEAN, hint \in [Dims -> HintValues \cup {NoHint}] :
       LearnFromResponse(sc, reset, hint)
  \/ \E sc \in Scopes : Observe(sc)
  \/ Tick

Spec == Init /\ [][Next]_vars

----------------------------------------------------------------------------
(* Properties *)

\* The requests of the scope's present window that are in flight or counted.
Live(sc) ==
  {l \in Leases : /\ lease[l].scope = sc
                  /\ lease[l].state \in {"held", "stands"}
                  /\ lease[l].window = epoch[sc]}

\* The leases of earlier windows that were released into the present one.
Stale(sc) ==
  {l \in Leases : /\ lease[l].scope = sc
                  /\ lease[l].state = "released"
                  /\ lease[l].window # epoch[sc]
                  /\ lease[l].closedIn = epoch[sc]}

\* The counters never charge a window for a request that is not its own:
\* what is spent is at most what the window's live leases took.
NoPhantomSpend ==
  \A sc \in Scopes, d \in CostDims : spent[sc][d] <= Cardinality(Live(sc))

\* The counters miss at most one unit per lease that was released after its
\* own window ended: this bounds how far Release's refund can be wrong.
MissBoundedByStale ==
  \A sc \in Scopes, d \in CostDims :
    Cardinality(Live(sc)) <= spent[sc][d] + Cardinality(Stale(sc))

\* What the counters say of a window, between these two bounds.
SpendTracksWindow == NoPhantomSpend /\ MissBoundedByStale

\* A Reserve that is refused is refused with cause: in some capped dimension
\* the window's live leases already fill the ceiling.
RefusalJustified ==
  [][\A l \in Leases :
       (lease[l].state = "none" /\ lease'[l].state = "refused") =>
         \E d \in CostDims :
           /\ ceilings[lease[l].scope][d] > 0
           /\ Cardinality(Live(lease[l].scope)') >= ceilings[lease[l].scope][d]]_vars

\* A Reserve that is granted leaves the window at most one live lease above
\* the ceiling for each stale release: the over-admission of a window is
\* never worse than the refunds that crossed into it.
AdmissionBounded ==
  [][\A l \in Leases :
       (lease[l].state = "none" /\ lease'[l].state = "held") =>
         \A d \in CostDims :
           ceilings[lease[l].scope][d] > 0 =>
             Cardinality(Live(lease[l].scope)') <=
               ceilings[lease[l].scope][d] + Cardinality(Stale(lease[l].scope)')]_vars

\* What a Reserve promises, whichever way it goes.
AdmissionSound == RefusalJustified /\ AdmissionBounded

\* NextReset is the instant rollWindow resets the scope: not before, and then.
RollsExactlyAtNextReset(sc) ==
  LET start == RolledStart(sc) IN
  /\ \A t \in clock .. NextReset(sc) - 1 : ~Boundary(kinds[sc], start, t)
  /\ Boundary(kinds[sc], start, NextReset(sc))

\* NextReset agrees with rollWindow for every kind but credits.
NextResetMatchesRoll ==
  \A sc \in Scopes :
    kinds[sc] # "CreditExpiry" => RollsExactlyAtNextReset(sc)

\* A ceiling, once learnt, is never raised: neither to a larger figure nor to
\* 0, which the ledger reads as no cap at all.
CeilingNeverRaised ==
  [][\A sc \in Scopes, d \in Dims :
       ceilings[sc][d] > 0 => ceilings'[sc][d] \in 1 .. ceilings[sc][d]]_vars

=============================================================================
