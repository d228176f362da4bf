------------------------- MODULE RouterLedgerProofs -------------------------
(***************************************************************************)
(* Proofs about the quota ledger, for every set of scopes and dimensions,  *)
(* every finite set of leases, and every length of the windows.            *)
(*                                                                         *)
(* The two counting invariants are inductive together with typing and the  *)
(* fact that no lease belongs to a window that has not begun: when a       *)
(* window rolls, no lease can already carry the new window's number, so    *)
(* the new window starts with no live and no stale lease.                  *)
(*                                                                         *)
(* That NextReset and rollWindow agree needs only that windows have begun, *)
(* and arithmetic: which period an instant is in, and that the number of   *)
(* the next day is another one.                                            *)
(***************************************************************************)
EXTENDS RouterLedger, FiniteSetTheorems, TLAPS

\* No lease was taken, or closed, in a window later than its scope's present.
LeasesOfThePast ==
  \A l \in Leases : /\ lease[l].window <= epoch[lease[l].scope]
                    /\ lease[l].closedIn <= epoch[lease[l].scope]

LedgerInv == TypeOK /\ LeasesOfThePast /\ NoPhantomSpend /\ MissBoundedByStale

\* What a scope's counters are compared with is a finite number.
LEMMA CountsAreNaturals ==
  \A sc : /\ IsFiniteSet(Live(sc)) /\ Cardinality(Live(sc)) \in Nat
          /\ IsFiniteSet(Stale(sc)) /\ Cardinality(Stale(sc)) \in Nat
<1> TAKE sc
<1>1. Live(sc) \in SUBSET Leases /\ Stale(sc) \in SUBSET Leases
  BY DEF Live, Stale
<1>2. IsFiniteSet(Live(sc)) /\ IsFiniteSet(Stale(sc))
  BY <1>1, FS_Subset, LedgerAssumption
<1> QED BY <1>2, FS_CardinalityType

\* Every operation of the ledger keeps its state well typed.
LEMMA TypingStep == TypeOK /\ [Next]_vars => TypeOK'
<1> SUFFICES ASSUME TypeOK, [Next]_vars PROVE TypeOK'
  OBVIOUS
<1> USE DEF TypeOK, Zero, NoTime
<1>0. \A sc \in Scopes : /\ RolledSpent(sc) \in [Dims -> Nat]
                         /\ RolledStart(sc) \in Nat \cup {NoTime}
                         /\ RolledEpoch(sc) \in Nat
  BY DEF RolledSpent, RolledStart, RolledEpoch
<1>1. ASSUME NEW sc \in Scopes, NEW k \in WindowKind, NEW caps \in [Dims -> CapValues],
             ConfigureScope(sc, k, caps)
      PROVE  TypeOK'
  <2>1. \A d \in Dims : caps[d] \in Nat
    BY LedgerAssumption
  <2>2. [d \in Dims |-> IF ceilings[sc][d] = 0 THEN caps[d] ELSE ceilings[sc][d]]
          \in [Dims -> Nat]
    BY <2>1
  <2> QED BY <1>1, <2>2 DEF ConfigureScope
<1>2. ASSUME NEW l \in Leases, Reserve(l) PROVE TypeOK'
  <2> DEFINE sc == lease[l].scope
  <2>1. sc \in Scopes
    BY DEF LeaseRecord
  <2>2. /\ windowStart' \in [Scopes -> Nat \cup {NoTime}]
        /\ epoch' \in [Scopes -> Nat]
        /\ UNCHANGED <<clock, kinds, ceilings>>
    BY <1>0, <1>2, <2>1 DEF Reserve, Roll
  <2>3. CASE Grant(l, sc)
    <3>1. [d \in Dims |-> RolledSpent(sc)[d] + IF d \in CostDims THEN 1 ELSE 0]
            \in [Dims -> Nat]
      BY <1>0, <2>1
    <3>2. spent' \in [Scopes -> [Dims -> Nat]]
      BY <2>3, <3>1 DEF Grant
    <3>3. lease' \in [Leases -> LeaseRecord]
      BY <1>0, <2>1, <2>3 DEF Grant, LeaseRecord, LeaseState
    <3> QED BY <2>2, <3>2, <3>3
  <2>4. CASE Refuse(l, sc)
    <3>1. spent' \in [Scopes -> [Dims -> Nat]]
      BY <1>0, <2>1, <2>4 DEF Refuse
    <3>2. lease' \in [Leases -> LeaseRecord]
      BY <2>4 DEF Refuse, LeaseRecord, LeaseState
    <3> QED BY <2>2, <3>1, <3>2
  <2> QED BY <1>2, <2>3, <2>4 DEF Reserve
<1>3. ASSUME NEW l \in Leases, Commit(l) PROVE TypeOK'
  BY <1>3 DEF Commit, LeaseRecord, LeaseState
<1>4. ASSUME NEW l \in Leases, Release(l) PROVE TypeOK'
  <2> DEFINE sc == lease[l].scope
  <2>1. sc \in Scopes
    BY DEF LeaseRecord
  <2>2. [d \in Dims |-> IF d \in CostDims THEN Returned(spent[sc][d]) ELSE spent[sc][d]]
          \in [Dims -> Nat]
    BY <2>1 DEF Returned
  <2>3. spent' \in [Scopes -> [Dims -> Nat]]
    BY <1>4, <2>1, <2>2 DEF Release
  <2>4. lease' \in [Leases -> LeaseRecord]
    BY <1>4, <2>1 DEF Release, LeaseRecord, LeaseState
  <2> QED BY <1>4, <2>3, <2>4 DEF Release
<1>5. ASSUME NEW sc \in Scopes, NEW reset \in BOOLEAN,
             NEW hint \in [Dims -> HintValues \cup {NoHint}],
             LearnFromResponse(sc, reset, hint)
      PROVE  TypeOK'
  <2>1. \A d \in Dims : hint[d] = NoHint \/ hint[d] \in Nat
    BY LedgerAssumption
  <2>2. [d \in Dims |-> Learnt(ceilings[sc][d], hint[d])] \in [Dims -> Nat]
    BY <2>1 DEF Learnt
  <2> QED BY <1>5, <2>2 DEF LearnFromResponse
<1>6. ASSUME NEW sc \in Scopes, Observe(sc) PROVE TypeOK'
  BY <1>0, <1>6 DEF Observe, Roll
<1>7. ASSUME Tick PROVE TypeOK'
  BY <1>7 DEF Tick
<1>8. ASSUME UNCHANGED vars PROVE TypeOK'
  BY <1>8 DEF vars
<1> QED BY <1>1, <1>2, <1>3, <1>4, <1>5, <1>6, <1>7, <1>8 DEF Next

\* The ledger's state is well typed: in particular Release never takes a
\* counter below zero.
THEOREM LedgerTyping == Spec => []TypeOK
<1>1. Init => TypeOK
  BY DEF Init, TypeOK, Zero, NoTime, LeaseRecord, LeaseState, WindowKind
<1> QED BY <1>1, TypingStep, PTL DEF Spec
----------------------------------------------------------------------------
\* Rolling a scope's window empties what the new window is compared with and
\* moves no lease into the future.
LEMMA RolledCounts ==
  ASSUME TypeOK, LeasesOfThePast, NEW sc \in Scopes, Rolls(sc),
         NEW l \in Leases, lease[l].scope = sc
  PROVE  lease[l].window # RolledEpoch(sc) /\ lease[l].closedIn # RolledEpoch(sc)
<1>1. RolledEpoch(sc) = epoch[sc] + 1 /\ epoch[sc] \in Nat
  BY DEF RolledEpoch, TypeOK
<1>2. lease[l].window \in Nat /\ lease[l].closedIn \in Nat
  BY DEF TypeOK, LeaseRecord
<1>3. lease[l].window <= epoch[sc] /\ lease[l].closedIn <= epoch[sc]
  BY DEF LeasesOfThePast
<1> QED BY <1>1, <1>2, <1>3

\* What Reserve makes of its lease.
LEMMA ReservedLease ==
  ASSUME TypeOK, NEW l \in Leases, Reserve(l)
  PROVE  /\ lease[l].state = "none"
         /\ lease'[l].scope = lease[l].scope
         /\ lease'[l].closedIn = lease[l].closedIn
         /\ \A m \in Leases : m # l => lease'[m] = lease[m]
         /\ \/ /\ Grant(l, lease[l].scope)
               /\ lease'[l].state = "held"
               /\ lease'[l].window = RolledEpoch(lease[l].scope)
            \/ /\ Refuse(l, lease[l].scope)
               /\ lease'[l].state = "refused"
               /\ lease'[l].window = lease[l].window
<1>0. lease \in [Leases -> LeaseRecord] /\ lease[l] \in LeaseRecord
  BY DEF TypeOK
<1>1. CASE Grant(l, lease[l].scope)
  <2>1. lease'[l] = [lease[l] EXCEPT !.state = "held",
                                     !.window = RolledEpoch(lease[l].scope)]
    BY <1>0, <1>1 DEF Grant
  <2> QED BY <1>0, <1>1, <2>1 DEF Grant, Reserve, LeaseRecord
<1>2. CASE Refuse(l, lease[l].scope)
  <2>1. lease'[l] = [lease[l] EXCEPT !.state = "refused"]
    BY <1>0, <1>2 DEF Refuse
  <2> QED BY <1>0, <1>2, <2>1 DEF Refuse, Reserve, LeaseRecord
<1> QED BY <1>1, <1>2 DEF Reserve

\* No operation puts a lease into a window that has not begun.
LEMMA PastStep == TypeOK /\ LeasesOfThePast /\ [Next]_vars => LeasesOfThePast'
<1> SUFFICES ASSUME TypeOK, LeasesOfThePast, [Next]_vars PROVE LeasesOfThePast'
  OBVIOUS
<1>0. \A l \in Leases : /\ lease[l].scope \in Scopes
                        /\ lease[l].window \in Nat /\ lease[l].closedIn \in Nat
                        /\ lease[l].window <= epoch[lease[l].scope]
                        /\ lease[l].closedIn <= epoch[lease[l].scope]
  BY DEF TypeOK, LeaseRecord, LeasesOfThePast
<1>e. \A sc \in Scopes : epoch[sc] \in Nat /\ RolledEpoch(sc) \in Nat
                          /\ epoch[sc] <= RolledEpoch(sc)
  BY DEF TypeOK, RolledEpoch
\* a step that leaves the leases alone and never moves a window back
<1>a. ASSUME lease' = lease, \A sc \in Scopes : epoch'[sc] \in Nat /\ epoch[sc] <= epoch'[sc]
      PROVE  LeasesOfThePast'
  BY <1>0, <1>e, <1>a DEF LeasesOfThePast
<1>1. ASSUME NEW sc \in Scopes, NEW k \in WindowKind, NEW caps \in [Dims -> CapValues],
             ConfigureScope(sc, k, caps)
      PROVE  LeasesOfThePast'
  BY <1>1, <1>e, <1>a DEF ConfigureScope
<1>2. ASSUME NEW l \in Leases, Reserve(l) PROVE LeasesOfThePast'
  <2> DEFINE sc == lease[l].scope
  <2>1. sc \in Scopes
    BY <1>0
  <2>2. epoch' = [epoch EXCEPT ![sc] = RolledEpoch(sc)]
    BY <1>2 DEF Reserve, Roll
  <2>3. \A s \in Scopes : epoch'[s] \in Nat /\ epoch[s] <= epoch'[s]
    BY <1>e, <2>1, <2>2 DEF TypeOK
  <2>4. epoch'[sc] = RolledEpoch(sc)
    BY <2>1, <2>2 DEF TypeOK
  <2>5. \A m \in Leases : m # l => lease'[m] = lease[m]
    BY <1>2, ReservedLease
  <2>6. /\ lease'[l].scope = sc
        /\ lease'[l].closedIn = lease[l].closedIn
        /\ lease'[l].window \in {lease[l].window, RolledEpoch(sc)}
    BY <1>2, ReservedLease
  <2> QED BY <1>0, <1>e, <2>1, <2>3, <2>4, <2>5, <2>6 DEF LeasesOfThePast
<1>3. ASSUME NEW l \in Leases, Commit(l) PROVE LeasesOfThePast'
  <2>1. epoch' = epoch /\ \A m \in Leases : m # l => lease'[m] = lease[m]
    BY <1>3 DEF Commit, TypeOK
  <2>2. /\ lease'[l].scope = lease[l].scope
        /\ lease'[l].window = lease[l].window
        /\ lease'[l].closedIn = lease[l].closedIn
    BY <1>3 DEF Commit, TypeOK, LeaseRecord
  <2> QED BY <1>0, <2>1, <2>2 DEF LeasesOfThePast
<1>4. ASSUME NEW l \in Leases, Release(l) PROVE LeasesOfThePast'
  <2>1. epoch' = epoch /\ \A m \in Leases : m # l => lease'[m] = lease[m]
    BY <1>4 DEF Release, TypeOK
  <2>2. /\ lease'[l].scope = lease[l].scope
        /\ lease'[l].window = lease[l].window
        /\ lease'[l].closedIn = epoch[lease[l].scope]
    BY <1>4 DEF Release, TypeOK, LeaseRecord
  <2> QED BY <1>0, <1>e, <2>1, <2>2 DEF LeasesOfThePast
<1>5. ASSUME NEW sc \in Scopes, NEW reset \in BOOLEAN,
             NEW hint \in [Dims -> HintValues \cup {NoHint}],
             LearnFromResponse(sc, reset, hint)
      PROVE  LeasesOfThePast'
  <2>1. \A s \in Scopes : epoch'[s] \in Nat /\ epoch[s] <= epoch'[s]
    BY <1>5, <1>e DEF LearnFromResponse, TypeOK
  <2> QED BY <1>5, <1>a, <2>1 DEF LearnFromResponse
<1>6. ASSUME NEW sc \in Scopes, Observe(sc) PROVE LeasesOfThePast'
  <2>1. \A s \in Scopes : epoch'[s] \in Nat /\ epoch[s] <= epoch'[s]
    BY <1>6, <1>e DEF Observe, Roll, TypeOK
  <2> QED BY <1>6, <1>a, <2>1 DEF Observe
<1>7. ASSUME Tick PROVE LeasesOfThePast'
  BY <1>7, <1>e, <1>a DEF Tick
<1>8. ASSUME UNCHANGED vars PROVE LeasesOfThePast'
  BY <1>8, <1>e, <1>a DEF vars
<1> QED BY <1>1, <1>2, <1>3, <1>4, <1>5, <1>6, <1>7, <1>8 DEF Next
----------------------------------------------------------------------------
\* The two counting invariants survive every operation.
CountsRight(sc, d) ==
  /\ spent[sc][d] <= Cardinality(Live(sc))
  /\ Cardinality(Live(sc)) <= spent[sc][d] + Cardinality(Stale(sc))

\* A scope whose counters, epoch and leases a step leaves alone keeps its counts.
LEMMA CountsUntouched ==
  ASSUME NEW sc \in Scopes, NEW d \in CostDims, CountsRight(sc, d),
         spent'[sc][d] = spent[sc][d],
         Live(sc)' = Live(sc), Stale(sc)' = Stale(sc)
  PROVE  CountsRight(sc, d)'
BY DEF CountsRight

\* After its window rolled, a scope's counters and both sets are empty.
LEMMA CountsReset ==
  ASSUME NEW sc \in Scopes, NEW d \in CostDims,
         spent'[sc][d] = 0, Live(sc)' = {}, Stale(sc)' = {}
  PROVE  CountsRight(sc, d)'
<1>1. Cardinality(Live(sc))' = 0 /\ Cardinality(Stale(sc))' = 0
  BY FS_EmptySet
<1> QED BY <1>1 DEF CountsRight

\* Reserve keeps the counts: the granted lease joins the window's live leases
\* exactly when the counters are charged for it.
LEMMA ReserveCounts ==
  ASSUME LedgerInv, TypeOK', NEW l \in Leases, Reserve(l),
         NEW sc \in Scopes, NEW d \in CostDims, CountsRight(sc, d)
  PROVE  CountsRight(sc, d)'
<1>0. /\ lease[l].scope \in Scopes /\ d \in Dims
      /\ TypeOK /\ LeasesOfThePast
  BY LedgerAssumption DEF LedgerInv, TypeOK, LeaseRecord
<1>1. /\ \A m \in Leases : m # l => lease'[m] = lease[m]
      /\ lease'[l].scope = lease[l].scope /\ lease[l].state = "none"
      /\ lease'[l].state # "released"
  BY <1>0, ReservedLease
<1>2. /\ \A x \in Scopes : x # lease[l].scope => epoch'[x] = epoch[x] /\ spent'[x] = spent[x]
      /\ epoch'[lease[l].scope] = RolledEpoch(lease[l].scope)
  BY <1>0 DEF Reserve, Roll, Grant, Refuse, TypeOK
<1>3. CASE sc # lease[l].scope
  <2>1. Live(sc)' = Live(sc) /\ Stale(sc)' = Stale(sc)
    BY <1>1, <1>2, <1>3 DEF Live, Stale
  <2> QED BY <2>1, <1>2, <1>3, CountsUntouched
<1>4. CASE sc = lease[l].scope
  <2> DEFINE live  == IF Rolls(sc) THEN {} ELSE Live(sc)
             stale == IF Rolls(sc) THEN {} ELSE Stale(sc)
  <2>1. /\ RolledSpent(sc)[d] <= Cardinality(live)
        /\ Cardinality(live) <= RolledSpent(sc)[d] + Cardinality(stale)
        /\ IsFiniteSet(live) /\ Cardinality(live) \in Nat
        /\ IsFiniteSet(stale) /\ Cardinality(stale) \in Nat
        /\ RolledSpent(sc)[d] \in Nat
    <3>1. CASE Rolls(sc)
      BY <1>0, <3>1, FS_EmptySet DEF RolledSpent, Zero
    <3>2. CASE ~Rolls(sc)
      BY <1>0, <3>2, CountsAreNaturals DEF RolledSpent, CountsRight, TypeOK
    <3> QED BY <3>1, <3>2
  <2>2. \A m \in Leases : m # l /\ lease[m].scope = sc =>
          /\ lease[m].window = RolledEpoch(sc) <=> ~Rolls(sc) /\ lease[m].window = epoch[sc]
          /\ lease[m].closedIn = RolledEpoch(sc) <=> ~Rolls(sc) /\ lease[m].closedIn = epoch[sc]
    <3>1. CASE Rolls(sc)
      BY <1>0, <3>1, RolledCounts
    <3>2. CASE ~Rolls(sc)
      BY <3>2 DEF RolledEpoch
    <3> QED BY <3>1, <3>2
  <2>3. epoch'[sc] = RolledEpoch(sc)
    BY <1>2, <1>4
  <2>4. Stale(sc)' = stale
    <3>1. CASE Rolls(sc)
      BY <1>1, <2>2, <2>3, <3>1 DEF Stale
    <3>2. CASE ~Rolls(sc)
      <4>1. RolledEpoch(sc) = epoch[sc]
        BY <3>2 DEF RolledEpoch
      <4> QED BY <1>1, <2>3, <3>2, <4>1 DEF Stale
    <3> QED BY <3>1, <3>2
  <2>5. Live(sc)' \ {l} = live /\ l \notin live
    <3>1. CASE Rolls(sc)
      BY <1>1, <2>2, <2>3, <3>1 DEF Live
    <3>2. CASE ~Rolls(sc)
      <4>1. RolledEpoch(sc) = epoch[sc]
        BY <3>2 DEF RolledEpoch
      <4> QED BY <1>1, <2>3, <3>2, <4>1 DEF Live
    <3> QED BY <3>1, <3>2
  <2>6. CASE Grant(l, sc) /\ lease'[l].state = "held" /\ lease'[l].window = RolledEpoch(sc)
    <3>1. l \in Live(sc)'
      BY <1>1, <1>4, <2>3, <2>6 DEF Live
    <3>2. Live(sc)' = live \cup {l}
      BY <2>5, <3>1
    <3>3. Cardinality(Live(sc))' = Cardinality(live) + 1
      BY <2>1, <2>5, <3>2, FS_AddElement
    <3>4. spent'[sc][d] = RolledSpent(sc)[d] + 1
      BY <1>0, <2>6 DEF Grant, TypeOK
    <3> QED BY <2>1, <2>4, <3>3, <3>4 DEF CountsRight
  <2>7. CASE Refuse(l, sc) /\ lease'[l].state = "refused"
    <3>1. Live(sc)' = live
      BY <2>5, <2>7 DEF Live
    <3>2. spent'[sc][d] = RolledSpent(sc)[d]
      BY <1>0, <2>7 DEF Refuse, TypeOK
    <3> QED BY <2>1, <2>4, <3>1, <3>2 DEF CountsRight
  <2> QED BY <1>0, <1>4, <2>6, <2>7, ReservedLease
<1> QED BY <1>3, <1>4

\* Release keeps the counts: a lease of the present window leaves it together
\* with its unit, a lease of an earlier one is one stale refund.
LEMMA ReleaseCounts ==
  ASSUME LedgerInv, NEW l \in Leases, Release(l),
         NEW sc \in Scopes, NEW d \in CostDims, CountsRight(sc, d)
  PROVE  CountsRight(sc, d)'
<1>0. /\ lease[l].scope \in Scopes /\ d \in Dims
      /\ TypeOK /\ LeasesOfThePast /\ lease[l] \in LeaseRecord
  BY LedgerAssumption DEF LedgerInv, TypeOK, LeaseRecord
<1>1. lease'[l] = [lease[l] EXCEPT !.state = "released",
                                   !.closedIn = epoch[lease[l].scope]]
  BY <1>0 DEF Release, TypeOK
<1>2. /\ lease'[l].state = "released" /\ lease'[l].scope = lease[l].scope
      /\ lease'[l].window = lease[l].window
      /\ lease'[l].closedIn = epoch[lease[l].scope]
  BY <1>0, <1>1 DEF LeaseRecord
<1>3. /\ \A m \in Leases : m # l => lease'[m] = lease[m]
      /\ epoch' = epoch /\ lease[l].state = "held"
      /\ \A x \in Scopes : x # lease[l].scope => spent'[x] = spent[x]
  BY <1>0 DEF Release, TypeOK
<1>4. CASE sc # lease[l].scope
  <2>1. Live(sc)' = Live(sc) /\ Stale(sc)' = Stale(sc)
    BY <1>2, <1>3, <1>4 DEF Live, Stale
  <2> QED BY <2>1, <1>3, <1>4, CountsUntouched
<1>5. CASE sc = lease[l].scope
  <2>1. spent'[sc][d] = Returned(spent[sc][d]) /\ spent[sc][d] \in Nat
    BY <1>0, <1>5 DEF Release, TypeOK
  <2>2. CASE lease[l].window = epoch[sc]
    <3>1. l \in Live(sc) /\ Live(sc)' = Live(sc) \ {l}
      BY <1>2, <1>3, <1>5, <2>2 DEF Live
    <3>2. Stale(sc)' = Stale(sc)
      BY <1>2, <1>3, <1>5, <2>2 DEF Stale
    <3>3. Cardinality(Live(sc))' = Cardinality(Live(sc)) - 1
      BY <3>1, CountsAreNaturals, FS_RemoveElement
    <3>4. Cardinality(Live(sc))' \in Nat
      BY <3>1, CountsAreNaturals, FS_RemoveElement, FS_CardinalityType
    <3> QED BY <2>1, <3>2, <3>3, <3>4, CountsAreNaturals DEF CountsRight, Returned
  <2>3. CASE lease[l].window # epoch[sc]
    <3>1. Live(sc)' = Live(sc)
      BY <1>2, <1>3, <1>5, <2>3 DEF Live
    <3>2. l \notin Stale(sc) /\ Stale(sc)' = Stale(sc) \cup {l}
      BY <1>2, <1>3, <1>5, <2>3 DEF Stale
    <3>3. Cardinality(Stale(sc))' = Cardinality(Stale(sc)) + 1
      BY <3>2, CountsAreNaturals, FS_AddElement
    <3> QED BY <2>1, <3>1, <3>3, CountsAreNaturals DEF CountsRight, Returned
  <2> QED BY <2>2, <2>3
<1> QED BY <1>4, <1>5

\* An operation that touches no lease either leaves a scope's counters and
\* window alone or resets both together.
LEMMA WindowCounts ==
  ASSUME LedgerInv, lease' = lease,
         NEW sc \in Scopes, NEW d \in CostDims, CountsRight(sc, d),
         \/ spent'[sc] = spent[sc] /\ epoch'[sc] = epoch[sc]
         \/ spent'[sc] = Zero /\ epoch'[sc] = epoch[sc] + 1
  PROVE  CountsRight(sc, d)'
<1>0. d \in Dims
  BY LedgerAssumption
<1>1. CASE spent'[sc] = spent[sc] /\ epoch'[sc] = epoch[sc]
  <2>1. Live(sc)' = Live(sc) /\ Stale(sc)' = Stale(sc)
    BY <1>1 DEF Live, Stale
  <2> QED BY <1>1, <2>1, CountsUntouched
<1>2. CASE spent'[sc] = Zero /\ epoch'[sc] = epoch[sc] + 1
  <2>1. \A m \in Leases : lease[m].scope = sc =>
          lease[m].window # epoch'[sc] /\ lease[m].closedIn # epoch'[sc]
    <3> SUFFICES ASSUME NEW m \in Leases, lease[m].scope = sc
                 PROVE  lease[m].window # epoch'[sc] /\ lease[m].closedIn # epoch'[sc]
      OBVIOUS
    <3>1. /\ lease[m].window <= epoch[sc] /\ lease[m].closedIn <= epoch[sc]
          /\ lease[m].window \in Nat /\ lease[m].closedIn \in Nat /\ epoch[sc] \in Nat
      BY DEF LedgerInv, LeasesOfThePast, TypeOK, LeaseRecord
    <3> QED BY <1>2, <3>1
  <2>2. Live(sc)' = {} /\ Stale(sc)' = {}
    BY <2>1 DEF Live, Stale
  <2> QED BY <1>0, <1>2, <2>2, CountsReset DEF Zero
<1> QED BY <1>1, <1>2

\* The ledger's invariant is inductive.
LEMMA LedgerStep == LedgerInv /\ [Next]_vars => LedgerInv'
<1> SUFFICES ASSUME LedgerInv, [Next]_vars PROVE LedgerInv'
  OBVIOUS
<1>1. TypeOK' /\ LeasesOfThePast'
  BY TypingStep, PastStep DEF LedgerInv
<1>2. ASSUME NEW sc \in Scopes, NEW d \in CostDims PROVE CountsRight(sc, d)'
  <2>0. CountsRight(sc, d)
    BY DEF LedgerInv, NoPhantomSpend, MissBoundedByStale, CountsRight
  <2>t. TypeOK
    BY DEF LedgerInv
  <2>1. ASSUME NEW x \in Scopes, NEW k \in WindowKind, NEW caps \in [Dims -> CapValues],
               ConfigureScope(x, k, caps)
        PROVE  CountsRight(sc, d)'
    BY <2>0, <2>1, WindowCounts DEF ConfigureScope
  <2>2. ASSUME NEW l \in Leases, Reserve(l) PROVE CountsRight(sc, d)'
    BY <1>1, <2>0, <2>2, ReserveCounts
  <2>3. ASSUME NEW l \in Leases, Commit(l) PROVE CountsRight(sc, d)'
    <3>1. lease'[l] = [lease[l] EXCEPT !.state = "stands"] /\ lease[l] \in LeaseRecord
      BY <2>3, <2>t DEF Commit, TypeOK
    <3>2. /\ lease'[l].scope = lease[l].scope /\ lease'[l].window = lease[l].window
          /\ lease'[l].state = "stands" /\ lease[l].state = "held"
      BY <2>3, <3>1 DEF Commit, LeaseRecord
    <3>3. \A m \in Leases : m # l => lease'[m] = lease[m]
      BY <2>3, <2>t DEF Commit, TypeOK
    <3>4. Live(sc)' = Live(sc) /\ Stale(sc)' = Stale(sc)
      BY <2>3, <3>2, <3>3 DEF Commit, Live, Stale
    <3> QED BY <2>0, <2>3, <3>4, CountsUntouched DEF Commit
  <2>4. ASSUME NEW l \in Leases, Release(l) PROVE CountsRight(sc, d)'
    BY <2>0, <2>4, ReleaseCounts
  <2>5. ASSUME NEW x \in Scopes, NEW reset \in BOOLEAN,
               NEW hint \in [Dims -> HintValues \cup {NoHint}],
               LearnFromResponse(x, reset, hint)
        PROVE  CountsRight(sc, d)'
    <3>1. \/ spent'[sc] = spent[sc] /\ epoch'[sc] = epoch[sc]
          \/ spent'[sc] = Zero /\ epoch'[sc] = epoch[sc] + 1
      BY <2>5, <2>t DEF LearnFromResponse, TypeOK
    <3> QED BY <2>0, <2>5, <3>1, WindowCounts DEF LearnFromResponse
  <2>6. ASSUME NEW x \in Scopes, Observe(x) PROVE CountsRight(sc, d)'
    <3>1. \/ spent'[sc] = spent[sc] /\ epoch'[sc] = epoch[sc]
          \/ spent'[sc] = Zero /\ epoch'[sc] = epoch[sc] + 1
      BY <2>6, <2>t DEF Observe, Roll, RolledSpent, RolledEpoch, TypeOK
    <3> QED BY <2>0, <2>6, <3>1, WindowCounts DEF Observe
  <2>7. ASSUME Tick PROVE CountsRight(sc, d)'
    BY <2>0, <2>7, WindowCounts DEF Tick
  <2>8. ASSUME UNCHANGED vars PROVE CountsRight(sc, d)'
    BY <2>0, <2>8, WindowCounts DEF vars
  <2> QED BY <2>1, <2>2, <2>3, <2>4, <2>5, <2>6, <2>7, <2>8 DEF Next
<1> QED BY <1>1, <1>2 DEF LedgerInv, NoPhantomSpend, MissBoundedByStale, CountsRight

\* Every reachable state of the ledger satisfies its inductive invariant.
THEOREM LedgerInvariant == Spec => []LedgerInv
<1>1. Init => LedgerInv
  <2> SUFFICES ASSUME Init PROVE LedgerInv
    OBVIOUS
  <2>1. TypeOK
    BY DEF Init, TypeOK, Zero, NoTime, LeaseRecord, LeaseState, WindowKind
  <2>2. \A l \in Leases : /\ lease[l].state = "none" /\ lease[l].window = 0
                          /\ lease[l].closedIn = 0 /\ lease[l].scope \in Scopes
    <3> TAKE l \in Leases
    <3>1. lease[l] \in {[state |-> "none", scope |-> sc,
                         window |-> 0, closedIn |-> 0] : sc \in Scopes}
      BY DEF Init
    <3> QED BY <3>1
  <2>3. LeasesOfThePast
    BY <2>1, <2>2 DEF LeasesOfThePast, Init
  <2>4. ASSUME NEW sc \in Scopes PROVE Live(sc) = {} /\ Stale(sc) = {}
    BY <2>2 DEF Live, Stale
  <2>5. ASSUME NEW sc \in Scopes, NEW d \in CostDims PROVE CountsRight(sc, d)
    <3>1. Cardinality(Live(sc)) = 0 /\ Cardinality(Stale(sc)) = 0
      BY <2>4, FS_EmptySet
    <3>2. d \in Dims /\ spent[sc][d] = 0
      BY LedgerAssumption DEF Init, Zero
    <3> QED BY <3>1, <3>2 DEF CountsRight
  <2> QED BY <2>1, <2>3, <2>5 DEF LedgerInv, NoPhantomSpend, MissBoundedByStale, CountsRight
<1> QED BY <1>1, LedgerStep, PTL DEF Spec

\* Whatever the order of reservations, refunds, resets and window rolls, a
\* window is never charged for more than its own live leases.
THEOREM LedgerNoPhantomSpend == Spec => []NoPhantomSpend
BY LedgerInvariant, PTL DEF LedgerInv

\* The counters of a window miss at most one unit per lease that was released
\* after its own window had ended.
THEOREM LedgerMissBounded == Spec => []MissBoundedByStale
BY LedgerInvariant, PTL DEF LedgerInv

\* Hence the counters of a window track its live leases on both sides.
THEOREM LedgerSpendTracks == Spec => []SpendTracksWindow
BY LedgerInvariant, PTL DEF LedgerInv, SpendTracksWindow

\* A refusal always has a cause: some capped dimension is filled by the
\* window's own live leases.
THEOREM LedgerRefusalJustified == Spec => RefusalJustified
<1>1. LedgerInv /\ LedgerInv' /\ [Next]_vars =>
        [\A l \in Leases :
           (lease[l].state = "none" /\ lease'[l].state = "refused") =>
             \E d \in CostDims :
               /\ ceilings[lease[l].scope][d] > 0
               /\ Cardinality(Live(lease[l].scope)') >= ceilings[lease[l].scope][d]]_vars
  <2> SUFFICES ASSUME LedgerInv, LedgerInv', Next,
                      NEW l \in Leases,
                      lease[l].state = "none", lease'[l].state = "refused"
               PROVE  \E d \in CostDims :
                        /\ ceilings[lease[l].scope][d] > 0
                        /\ Cardinality(Live(lease[l].scope)') >= ceilings[lease[l].scope][d]
    OBVIOUS
  <2>1. TypeOK /\ lease[l].scope \in Scopes
    BY DEF LedgerInv, TypeOK, LeaseRecord
  <2>2. Reserve(l) /\ Refuse(l, lease[l].scope) /\ lease'[l].scope = lease[l].scope
    <3>1. ASSUME NEW m \in Leases, Reserve(m) \/ Commit(m) \/ Release(m) PROVE m = l
      BY <2>1, <3>1 DEF Reserve, Grant, Refuse, Commit, Release, TypeOK
    <3>2. ~Commit(l) /\ ~Release(l)
      BY DEF Commit, Release
    <3>3. Reserve(l)
      BY <3>1, <3>2 DEF Next, ConfigureScope, LearnFromResponse, Observe, Tick
    <3> QED BY <2>1, <3>3, ReservedLease
  <2>3. PICK d \in CostDims : ~HasRoom(lease[l].scope, d)
    BY <2>2 DEF Refuse
  <2>4. spent'[lease[l].scope][d] = RolledSpent(lease[l].scope)[d]
    BY <2>1, <2>2 DEF Refuse, TypeOK
  <2>5. /\ ceilings[lease[l].scope][d] \in Nat
        /\ RolledSpent(lease[l].scope)[d] \in Nat
        /\ d \in Dims
    BY <2>1, LedgerAssumption DEF TypeOK, RolledSpent, Zero
  <2>6. ASSUME NEW sc \in Scopes
        PROVE  spent'[sc][d] <= Cardinality(Live(sc)') /\ Cardinality(Live(sc)') \in Nat
    <3>1. Live(sc)' \in SUBSET Leases
      BY DEF Live
    <3>2. Cardinality(Live(sc)') \in Nat
      BY <3>1, FS_Subset, FS_CardinalityType, LedgerAssumption
    <3> QED BY <3>2 DEF LedgerInv, NoPhantomSpend
  <2>7. spent'[lease[l].scope][d] <= Cardinality(Live(lease[l].scope)')
    BY <2>1, <2>2, <2>6
  <2> QED BY <2>1, <2>2, <2>3, <2>4, <2>5, <2>6, <2>7 DEF HasRoom
<1> QED BY <1>1, LedgerInvariant, PTL DEF Spec, RefusalJustified

----------------------------------------------------------------------------
(* The answer of NextReset *)

\* A window never starts after the present.
WindowsBegan == \A sc \in Scopes : windowStart[sc] # NoTime => windowStart[sc] <= clock

LEMMA Lengths ==
  /\ Minute \in Nat \ {0} /\ Session \in Nat \ {0} /\ Credit \in Nat \ {0} /\ Day \in Nat \ {0}
  /\ MonthDays \in Nat \ {0, 1} /\ PacificOffset \in 0 .. Day - 1
BY LedgerAssumption

\* Division by a length: which period an instant is in.
LEMMA PeriodOf ==
  ASSUME NEW d \in Nat \ {0}, NEW q \in Nat, NEW t \in Nat, q * d <= t, t < q * d + d
  PROVE  t \div d = q
OBVIOUS

LEMMA PeriodBounds ==
  ASSUME NEW d \in Nat \ {0}, NEW t \in Nat
  PROVE  /\ t \div d \in Nat
         /\ (t \div d) * d \in Nat
         /\ (t \div d) * d <= t /\ t < (t \div d) * d + d
         /\ ((t \div d) * d + d) \div d = t \div d + 1
OBVIOUS

\* The next day has another number, although the numbers repeat.
LEMMA NextDayDiffers ==
  ASSUME NEW n \in Nat
  PROVE  (n + 1) % MonthDays # n % MonthDays
<1> DEFINE M == MonthDays
           q == n \div M
           r == n % M
<1>1. M \in Nat \ {0, 1}
  BY Lengths
<1>2. q \in Nat /\ r \in 0 .. M - 1 /\ n = M * q + r
  BY <1>1
<1> HIDE DEF M, q, r
<1>3. ASSUME NEW k \in Nat, NEW m \in Nat, NEW s \in 0 .. M - 1, m = M * k + s
      PROVE  m % M = s
  BY <1>1, <1>3
<1>4. CASE r + 1 < M
  <2>1. (n + 1) % M = r + 1
    BY <1>1, <1>2, <1>3, <1>4
  <2>2. n % M = r
    BY <1>2, <1>3
  <2> QED BY <1>2, <2>1, <2>2 DEF M
<1>5. CASE r = M - 1
  <2>1. n + 1 = M * (q + 1) + 0
    BY <1>1, <1>2, <1>5
  <2>2. (n + 1) % M = 0
    BY <1>1, <1>2, <1>3, <2>1
  <2>3. n % M = r
    BY <1>2, <1>3
  <2> QED BY <1>1, <1>5, <2>2, <2>3 DEF M
<1> QED BY <1>1, <1>2, <1>4, <1>5

\* What rollWindow leaves open has begun, and is not over.
LEMMA RolledWindow ==
  ASSUME TypeOK, WindowsBegan, NEW sc \in Scopes
  PROVE  /\ RolledStart(sc) \in Nat /\ RolledStart(sc) <= clock
         /\ ~Boundary(kinds[sc], RolledStart(sc), clock)
<1>1. clock \in Nat
  BY DEF TypeOK
<1>2. CASE RolledStart(sc) = clock
  <2>1. clock < (clock \div Minute) * Minute + Minute /\ (clock \div Minute) * Minute \in Nat
    BY <1>1, Lengths, PeriodBounds
  <2>2. ~(clock >= clock + Session) /\ ~(clock >= clock + Credit)
    BY <1>1, Lengths
  <2>3. ~(clock >= (clock \div Minute) * Minute + Minute)
    BY <1>1, <2>1, Lengths
  <2> QED BY <1>1, <1>2, <2>2, <2>3 DEF Boundary
<1>3. CASE RolledStart(sc) # clock
  <2>1. windowStart[sc] # NoTime /\ ~Rolls(sc) /\ RolledStart(sc) = windowStart[sc]
    BY <1>3 DEF RolledStart
  <2> QED BY <2>1 DEF Rolls, TypeOK, WindowsBegan
<1> QED BY <1>2, <1>3

\* The minute, the UTC day, the Pacific day and the session, one by one.
LEMMA AnswerIsExact ==
  ASSUME TypeOK, WindowsBegan, NEW sc \in Scopes, kinds[sc] # "CreditExpiry"
  PROVE  RollsExactlyAtNextReset(sc)
<1> DEFINE k     == kinds[sc]
           start == RolledStart(sc)
<1>1. /\ clock \in Nat /\ start \in Nat /\ start <= clock /\ ~Boundary(k, start, clock)
  BY RolledWindow DEF TypeOK
<1> HIDE DEF start
<1>2. CASE k = "UTCMidnightShared"
  <2> DEFINE q == clock \div Day
  <2>1. /\ q \in Nat /\ q * Day \in Nat /\ q * Day <= clock /\ clock < q * Day + Day
        /\ (q * Day + Day) \div Day = q + 1
    BY <1>1, Lengths, PeriodBounds
  <2>2. NextReset(sc) = q * Day + Day
    BY <1>2 DEF NextReset
  <2>3. q % MonthDays = UTCDay(start)
    BY <1>1, <1>2 DEF Boundary, UTCDay
  <2> HIDE DEF q
  <2>4. ASSUME NEW t \in clock .. NextReset(sc) - 1
        PROVE  ~Boundary(k, start, t)
    <3>1. t \in Nat /\ q * Day <= t /\ t < q * Day + Day
      BY <1>1, <2>1, <2>2, <2>4, Lengths
    <3>2. t \div Day = q
      BY <2>1, <3>1, PeriodOf, Lengths
    <3> QED BY <1>2, <2>3, <3>2 DEF Boundary, UTCDay
  <2>5. Boundary(k, start, NextReset(sc))
    BY <1>2, <2>1, <2>2, <2>3, NextDayDiffers DEF Boundary, UTCDay
  <2> QED BY <2>4, <2>5 DEF RollsExactlyAtNextReset, start
<1>3. CASE k = "FixedPacificMidnight"
  <2> DEFINE now == clock + Day - PacificOffset
             q   == now \div Day
  <2>1. now \in Nat
    BY <1>1, Lengths
  <2>2. /\ q \in Nat /\ q * Day \in Nat /\ q * Day <= now /\ now < q * Day + Day
        /\ (q * Day + Day) \div Day = q + 1
    BY <2>1, Lengths, PeriodBounds
  <2>3. NextReset(sc) = q * Day + PacificOffset
    BY <1>3 DEF NextReset
  <2>4. q % MonthDays = PacificDay(start)
    BY <1>1, <1>3 DEF Boundary, PacificDay
  <2>5. now = clock + Day - PacificOffset
    OBVIOUS
  <2> HIDE DEF q, now
  <2>6. ASSUME NEW t \in clock .. NextReset(sc) - 1
        PROVE  ~Boundary(k, start, t)
    <3>1. /\ t + Day - PacificOffset \in Nat /\ q * Day <= t + Day - PacificOffset
          /\ t + Day - PacificOffset < q * Day + Day
      BY <1>1, <2>2, <2>3, <2>5, <2>6, Lengths
    <3>2. (t + Day - PacificOffset) \div Day = q
      BY <2>2, <3>1, PeriodOf, Lengths
    <3> QED BY <1>3, <2>4, <3>2 DEF Boundary, PacificDay
  <2>7. NextReset(sc) + Day - PacificOffset = q * Day + Day
    BY <2>2, <2>3, Lengths
  <2>8. Boundary(k, start, NextReset(sc))
    BY <1>3, <2>2, <2>4, <2>7, NextDayDiffers DEF Boundary, PacificDay
  <2> QED BY <2>6, <2>8 DEF RollsExactlyAtNextReset, start
<1>4. CASE k = "Session5h7d"
  <2>1. NextReset(sc) = start + Session
    BY <1>4 DEF NextReset, start
  <2> QED BY <1>1, <1>4, <2>1, Lengths DEF RollsExactlyAtNextReset, Boundary, start
<1>5. CASE k \in {"RollingHeaders", "ContinuousBucket"}
  <2> DEFINE q == start \div Minute
  <2>1. q \in Nat /\ q * Minute \in Nat /\ q * Minute <= start /\ start < q * Minute + Minute
    BY <1>1, Lengths, PeriodBounds
  <2>2. ~(clock >= q * Minute + Minute)
    BY <1>1, <1>5 DEF Boundary
  <2> HIDE DEF q
  <2>3. clock \div Minute = q
    BY <1>1, <2>1, <2>2, PeriodOf, Lengths
  <2>4. NextReset(sc) = q * Minute + Minute
    BY <1>5, <2>3 DEF NextReset
  <2>5. \A t : Boundary(k, start, t) <=> t >= NextReset(sc)
    BY <1>5, <2>4 DEF Boundary, q
  <2> QED BY <1>1, <2>1, <2>4, <2>5, Lengths DEF RollsExactlyAtNextReset, start
<1> QED BY <1>2, <1>3, <1>4, <1>5 DEF TypeOK, WindowKind

\* NextReset tells the instant at which rollWindow will clear the counters, for
\* every kind of window but credits and for any lengths of the periods.
THEOREM LedgerNextReset == Spec => []NextResetMatchesRoll
<1>1. Init => WindowsBegan
  BY DEF Init, WindowsBegan
<1>2. TypeOK /\ WindowsBegan /\ [Next]_vars => WindowsBegan'
  <2> SUFFICES ASSUME TypeOK, WindowsBegan, [Next]_vars, NEW sc \in Scopes, windowStart'[sc] # NoTime
               PROVE  windowStart'[sc] <= clock'
    BY DEF WindowsBegan
  <2>1. clock \in Nat /\ windowStart \in [Scopes -> Nat \cup {NoTime}]
    BY DEF TypeOK
  <2>2. CASE Tick
    BY <2>1, <2>2 DEF Tick, WindowsBegan, NoTime
  <2>3. CASE UNCHANGED <<clock, windowStart>>
    BY <2>1, <2>3 DEF WindowsBegan
  <2>4. CASE clock' = clock /\ \E s2 \in Scopes : windowStart' = [windowStart EXCEPT ![s2] = clock]
    BY <2>1, <2>4 DEF WindowsBegan
  <2>5. CASE clock' = clock /\ \E s2 \in Scopes : windowStart' = [windowStart EXCEPT ![s2] = RolledStart(s2)]
    BY <2>1, <2>5, RolledWindow DEF WindowsBegan
  <2>6. ASSUME NEW s2 \in Scopes, NEW kind \in WindowKind, NEW caps \in [Dims -> CapValues],
               ConfigureScope(s2, kind, caps)
        PROVE  windowStart'[sc] <= clock'
    BY <2>1, <2>6 DEF ConfigureScope, WindowsBegan
  <2>7. ASSUME NEW s2 \in Scopes, NEW reset \in BOOLEAN, NEW hint \in [Dims -> HintValues \cup {NoHint}],
               LearnFromResponse(s2, reset, hint)
        PROVE  windowStart'[sc] <= clock'
    BY <2>1, <2>7 DEF LearnFromResponse, WindowsBegan
  <2>8. CASE \E l \in Leases : Reserve(l)
    BY <2>5, <2>8 DEF Reserve, Roll, TypeOK, LeaseRecord
  <2>9. CASE \E s2 \in Scopes : Observe(s2)
    BY <2>5, <2>9 DEF Observe, Roll
  <2>10. CASE \E l \in Leases : Commit(l) \/ Release(l)
    BY <2>3, <2>10 DEF Commit, Release
  <2>11. CASE UNCHANGED vars
    BY <2>3, <2>11 DEF vars
  <2> QED BY <2>2, <2>6, <2>7, <2>8, <2>9, <2>10, <2>11 DEF Next
<1>3. TypeOK /\ WindowsBegan => NextResetMatchesRoll
  BY AnswerIsExact DEF NextResetMatchesRoll
<1> QED BY <1>1, <1>2, <1>3, LedgerTyping, PTL DEF Spec

\* A Reserve that is granted exceeds a ceiling by no more than the refunds that
\* Release made to this window for requests of earlier ones.
THEOREM LedgerAdmissionBounded == Spec => AdmissionBounded
<1>1. LedgerInv /\ LedgerInv' /\ [Next]_vars =>
        [\A l \in Leases :
           (lease[l].state = "none" /\ lease'[l].state = "held") =>
             \A d \in CostDims :
               ceilings[lease[l].scope][d] > 0 =>
                 Cardinality(Live(lease[l].scope)') <=
                   ceilings[lease[l].scope][d] + Cardinality(Stale(lease[l].scope)')]_vars
  <2> SUFFICES ASSUME LedgerInv, LedgerInv', Next,
                      NEW l \in Leases, lease[l].state = "none", lease'[l].state = "held",
                      NEW d \in CostDims, ceilings[lease[l].scope][d] > 0
               PROVE  Cardinality(Live(lease[l].scope)') <=
                        ceilings[lease[l].scope][d] + Cardinality(Stale(lease[l].scope)')
    OBVIOUS
  <2> DEFINE sc == lease[l].scope
  <2>1. TypeOK /\ sc \in Scopes /\ d \in Dims
    BY LedgerAssumption DEF LedgerInv, TypeOK, LeaseRecord
  <2>2. Grant(l, sc) /\ lease'[l].scope = sc
    <3>1. ASSUME NEW m \in Leases, Reserve(m) \/ Commit(m) \/ Release(m) PROVE m = l
      BY <2>1, <3>1 DEF Reserve, Grant, Refuse, Commit, Release, TypeOK
    <3>2. ~Commit(l) /\ ~Release(l)
      BY DEF Commit, Release
    <3>3. Reserve(l)
      BY <3>1, <3>2 DEF Next, ConfigureScope, LearnFromResponse, Observe, Tick
    <3> QED BY <2>1, <3>3, ReservedLease DEF Reserve, Refuse, TypeOK
  <2>3. /\ ceilings[sc][d] \in Nat /\ RolledSpent(sc)[d] \in Nat
    BY <2>1 DEF TypeOK, RolledSpent, Zero
  <2>4. spent'[sc][d] = RolledSpent(sc)[d] + 1 /\ RolledSpent(sc)[d] + 1 <= ceilings[sc][d]
    BY <2>1, <2>2, <2>3 DEF Grant, HasRoom, TypeOK
  <2>5. /\ Cardinality(Live(sc)') <= spent'[sc][d] + Cardinality(Stale(sc)')
        /\ Cardinality(Live(sc)') \in Nat /\ Cardinality(Stale(sc)') \in Nat
    <3>1. Live(sc)' \in SUBSET Leases /\ Stale(sc)' \in SUBSET Leases
      BY DEF Live, Stale
    <3>2. Cardinality(Live(sc)') \in Nat /\ Cardinality(Stale(sc)') \in Nat
      BY <3>1, FS_Subset, FS_CardinalityType, LedgerAssumption
    <3>3. \A s2 \in Scopes : Cardinality(Live(s2)') <= spent'[s2][d] + Cardinality(Stale(s2)')
      BY DEF LedgerInv, MissBoundedByStale
    <3>4. lease'[l].scope \in Scopes /\ spent'[lease'[l].scope][d] = spent'[sc][d]
      BY <2>1, <2>2
    <3> QED BY <3>2, <3>3, <3>4
  <2> QED BY <2>3, <2>4, <2>5
<1> QED BY <1>1, LedgerInvariant, PTL DEF Spec, AdmissionBounded

\* Whichever way a Reserve goes, it goes so for a reason in its own window.
THEOREM LedgerAdmission == Spec => AdmissionSound
BY LedgerRefusalJustified, LedgerAdmissionBounded DEF AdmissionSound
=============================================================================
