-------------------------- MODULE RouterPoolProofs --------------------------
(***************************************************************************)
(* Who is in the pools and who is healthy, for any providers, scopes and   *)
(* times.                                                                  *)
(*                                                                         *)
(* Membership: however dashboard requests, the discovery loop and restarts *)
(* interleave, no pool holds two endpoints of one key.  A rebuild reads the *)
(* pool, drops the lock and writes; the invariant says what it has in hand: *)
(* a pool without its own provider.                                        *)
(*                                                                         *)
(* Health: a cooldown ends within one tick of its TTL however far the      *)
(* machine's clock trails, the quota ladder only climbs within a day, and the *)
(* event trail never contradicts the states it explains.  The clock the    *)
(* machine stamps entries with lies at most a tick behind the real time, so *)
(* an expiry lies at most a tick before what the real time and the TTL say. *)
(* The ladder needs to know which repeat the last guess of a scope was, and *)
(* that no later day has been counted yet.                                 *)
(***************************************************************************)
EXTENDS RouterMembership, RouterHealth, TLAPS

----------------------------------------------------------------------------
(* Membership *)

Pools == UNION {[E -> Nat] : E \in SUBSET Endpoint}
Single(B) == \A e \in DOMAIN B : B[e] = 1

\* What a rebuild has read: at most one endpoint of a key, none of its provider's.
Foreign(B, p) == Single(B) /\ \A e \in DOMAIN B : e[1] # p
ViewsForeign ==
  /\ \A h \in Handlers : handler[h].pc = "write" => Foreign(handler[h].view, handler[h].p)
  /\ poll.pc = "write" => Foreign(poll.view, poll.p)

MembershipInv == TypeOK /\ ViewsForeign /\ OneEndpointPerKey

LEMMA Typing ==
  TypeOK <=>
    /\ vault \in [Providers -> [Aliases -> Row]]
    /\ tombstoned \subseteq Seed /\ listed \subseteq Seed
    /\ members \in [Families -> Pools]
    /\ handler \in [Handlers -> Request(Pools)] /\ poll \in Poll(Pools)
    /\ happened \in 0 .. MaxEvents
<1>1. \A B : IsPool(B) <=> B \in Pools
  BY DEF IsPool, Pools
<1>2. \A r : IsPool(r.view) /\ r \in Request({r.view}) <=> r \in Request(Pools)
  BY <1>1 DEF Request
<1>3. IsPool(poll.view) /\ poll \in Poll({poll.view}) <=> poll \in Poll(Pools)
  BY <1>1 DEF Poll
<1>4. members = [f \in Families |-> members[f]] /\ (\A f \in Families : IsPool(members[f]))
        <=> members \in [Families -> Pools]
  BY <1>1
<1>5. /\ handler = [h \in Handlers |-> handler[h]]
      /\ \A h \in Handlers : IsPool(handler[h].view)
         /\ handler[h] \in Request({handler[h].view})
      <=> handler \in [Handlers -> Request(Pools)]
  BY <1>2
<1> QED BY <1>3, <1>4, <1>5 DEF TypeOK

LEMMA BagTyping ==
  ASSUME NEW S \in SUBSET Endpoint
  PROVE  SetToBag(S) \in Pools /\ Single(SetToBag(S)) /\ DOMAIN SetToBag(S) = S
BY DEF SetToBag, Pools, Single

LEMMA Sums ==
  ASSUME NEW B \in Pools, NEW C \in Pools, Single(B), Single(C), DOMAIN B \cap DOMAIN C = {}
  PROVE  B (+) C \in Pools /\ Single(B (+) C)
<1>1. B (+) C = [e \in DOMAIN B \cup DOMAIN C |-> IF e \in DOMAIN B THEN 1 ELSE 1]
  BY DEF (+), Single, Pools
<1> QED BY <1>1 DEF Single, Pools

LEMMA OthersForeign ==
  ASSUME NEW B \in Pools, Single(B), NEW p \in Providers
  PROVE  Others(B, p) \in Pools /\ Foreign(Others(B, p), p)
<1>1. B \in [DOMAIN B -> Nat] /\ DOMAIN B \subseteq Endpoint
  BY DEF Pools
<1>2. \A e \in DOMAIN Others(B, p) : e \in DOMAIN B /\ e[1] # p /\ Others(B, p)[e] = B[e]
  BY DEF Others
<1>3. Others(B, p) \in [DOMAIN Others(B, p) -> Nat] /\ DOMAIN Others(B, p) \subseteq Endpoint
  BY <1>1 DEF Others
<1> QED BY <1>2, <1>3 DEF Foreign, Single, Pools

LEMMA OwnOwn ==
  ASSUME NEW p \in Providers, NEW ids \in SUBSET Aliases, NEW B \in Pools, Foreign(B, p)
  PROVE  /\ Own(p, ids) (+) B \in Pools /\ Single(Own(p, ids) (+) B)
         /\ B (+) Own(p, ids) \in Pools /\ Single(B (+) Own(p, ids))
<1>1. {p} \X ids \in SUBSET Endpoint
  BY DEF Endpoint
<1>2. Own(p, ids) \in Pools /\ Single(Own(p, ids)) /\ DOMAIN Own(p, ids) = {p} \X ids
  BY <1>1, BagTyping DEF Own
<1>3. DOMAIN B \cap ({p} \X ids) = {}
  BY DEF Foreign
<1> QED BY <1>2, <1>3, Sums DEF Foreign

LEMMA IdleTyping ==
  /\ Idle \in Request(Pools) /\ Idle.pc = "idle" /\ NotPolling \in Poll(Pools)
     /\ NotPolling.pc = "idle"
  /\ EmptyBag \in Pools
<1>1. EmptyBag \in Pools
  BY DEF EmptyBag, SetToBag, Pools
<1>2. (CHOOSE p \in Providers : TRUE) \in Providers
      /\ (CHOOSE f \in Families : TRUE) \in Families
  BY MembershipAssumption
<1>3. Default \in Aliases
  BY MembershipAssumption DEF Aliases, Default
<1> QED BY <1>1, <1>2, <1>3 DEF Idle, NotPolling, Request, Poll
LEMMA MembershipBounds ==
  /\ Seed \subseteq Families \X Providers /\ Paid \subseteq Seed
  /\ EnvKeys \subseteq Providers /\ MaxEvents \in Nat /\ Default \in Aliases /\ Env \in Aliases
BY MembershipAssumption DEF Aliases, Default, Env

LEMMA AliasTyping ==
  ASSUME NEW v, NEW p \in Providers
  PROVE  AliasesFor(v, p) \in SUBSET Aliases
BY MembershipBounds DEF AliasesFor, ActiveAliases

LEMMA CatalogueTyping ==
  /\ {m[1] : m \in Seed} \in SUBSET Families
  /\ \A p : FreeOf(p) \in SUBSET Families
BY MembershipBounds DEF FreeOf

\* What both halves of the invariant say of a state.
Typed ==
  /\ vault \in [Providers -> [Aliases -> Row]]
  /\ tombstoned \subseteq Seed /\ listed \subseteq Seed
  /\ members \in [Families -> Pools]
  /\ handler \in [Handlers -> Request(Pools)] /\ poll \in Poll(Pools)
  /\ happened \in 0 .. MaxEvents

LEMMA InvTyped == MembershipInv <=> Typed /\ ViewsForeign /\ OneEndpointPerKey
BY Typing DEF MembershipInv, Typed
LEMMA InvTypedNext == MembershipInv' <=> Typed' /\ ViewsForeign' /\ OneEndpointPerKey'
BY InvTyped, PTL

\* The pools built at boot.
LEMMA SeedPoolsSingle ==
  ASSUME NEW v
  PROVE  SeedPools(v) \in [Families -> Pools] /\ \A f \in Families : Single(SeedPools(v)[f])
<1> DEFINE E(f) == {e \in Endpoint : <<f, e[1]>> \in Free /\ e[2] \in AliasesFor(v, e[1])}
<1>1. \A f \in Families : SetToBag(E(f)) \in Pools /\ Single(SetToBag(E(f)))
  BY BagTyping
<1>2. SeedPools(v) = [f \in Families |-> SetToBag(E(f))]
  BY DEF SeedPools
<1> HIDE DEF E
<1> QED BY <1>1, <1>2

LEMMA EmptyVault == [p \in Providers |-> [a \in Aliases |-> NoRow]] \in [Providers -> [Aliases -> Row]]
<1>1. NoRow \in Row
  BY DEF NoRow, Row
<1> QED BY <1>1

LEMMA BootTyping ==
  ASSUME NEW v \in [Providers -> [Aliases -> Row]], NEW u \in BootVaults(v)
  PROVE  u \in [Providers -> [Aliases -> Row]]
<1> DEFINE row(ok, p) == [st |-> IF p \in ok THEN "valid" ELSE "invalid", good |-> TRUE]
           new(ok, p) == IF p \in EnvKeys /\ v[p][Env].st = "none"
                         THEN [v[p] EXCEPT ![Env] = row(ok, p)] ELSE v[p]
<1>1. \A ok, p : row(ok, p) \in Row
  BY DEF Row
<1>2. \E ok : u = [p \in Providers |-> new(ok, p)]
  BY DEF BootVaults
<1> HIDE DEF row
<1>3. \A ok : \A p \in Providers : new(ok, p) \in [Aliases -> Row]
  BY <1>1
<1> HIDE DEF new
<1> QED BY <1>2, <1>3

\* A boot, the first or a later one.
Booted ==
  /\ vault \in [Providers -> [Aliases -> Row]] /\ members = SeedPools(vault)
  /\ tombstoned = {} /\ listed \subseteq Seed
  /\ handler = [h \in Handlers |-> Idle] /\ poll = NotPolling
  /\ happened \in 0 .. MaxEvents
LEMMA BootSound == Booted => MembershipInv
<1> SUFFICES ASSUME Booted PROVE MembershipInv
  OBVIOUS
<1>1. Typed
  BY SeedPoolsSingle, IdleTyping DEF Booted, Typed
<1>2. ViewsForeign
  BY IdleTyping DEF Booted, ViewsForeign
<1>3. OneEndpointPerKey
  BY SeedPoolsSingle DEF Booted, OneEndpointPerKey, Single
<1> QED BY <1>1, <1>2, <1>3, InvTyped

LEMMA MembershipInit == Init => MembershipInv
<1> SUFFICES ASSUME Init PROVE MembershipInv
  OBVIOUS
<1>1. vault \in [Providers -> [Aliases -> Row]]
  BY EmptyVault, BootTyping DEF Init
<1>2. Booted
  BY <1>1, MembershipBounds DEF Init, Booted
<1> QED BY <1>2, BootSound

LEMMA RestartKeeps == MembershipInv /\ Restart => MembershipInv'
<1> SUFFICES ASSUME MembershipInv, Restart PROVE MembershipInv'
  OBVIOUS
<1>1. Typed
  BY InvTyped
<1>2. vault' \in [Providers -> [Aliases -> Row]]
  BY <1>1, BootTyping DEF Restart, Typed
<1>3. happened' \in 0 .. MaxEvents
  BY <1>1, MembershipBounds DEF Restart, Typed
<1>4. Booted'
  BY <1>1, <1>2, <1>3 DEF Restart, Booted, Typed
<1>5. Booted' => MembershipInv'
  BY BootSound, PTL
<1> QED BY <1>4, <1>5

\* Requests and polls that are not writing, and the pools left alone.
LEMMA RequestMoves ==
  ASSUME MembershipInv, NEW h \in Handlers, NEW r \in Request(Pools),
         handler' = [handler EXCEPT ![h] = r],
         r.pc = "write" => Foreign(r.view, r.p),
         UNCHANGED <<tombstoned, listed, poll>>,
         vault' \in [Providers -> [Aliases -> Row]], happened' \in 0 .. MaxEvents,
         members' \in [Families -> Pools], \A f \in Families : Single(members'[f])
  PROVE  MembershipInv'
<1>1. Typed /\ ViewsForeign
  BY InvTyped
<1>2. Typed'
  BY <1>1 DEF Typed
<1>3. ViewsForeign'
  BY <1>1 DEF Typed, ViewsForeign
<1>4. OneEndpointPerKey'
  BY DEF OneEndpointPerKey, Single
<1> QED BY <1>2, <1>3, <1>4, InvTypedNext

LEMMA MembersStay ==
  ASSUME MembershipInv, UNCHANGED members
  PROVE  members' \in [Families -> Pools] /\ \A f \in Families : Single(members'[f])
BY InvTyped DEF Typed, OneEndpointPerKey, Single

LEMMA Started ==
  ASSUME NEW p \in Providers, NEW a \in Aliases
  PROVE  /\ [Idle EXCEPT !.pc = "probe", !.p = p, !.a = a] \in Request(Pools)
         /\ [Idle EXCEPT !.pc = "probe", !.p = p, !.a = a].pc # "write"
         /\ [Idle EXCEPT !.pc = "sync", !.p = p] \in Request(Pools)
         /\ [Idle EXCEPT !.pc = "sync", !.p = p].pc # "write"
BY IdleTyping DEF Request

LEMMA SavePutKeeps ==
  ASSUME NEW h \in Handlers, NEW p \in Providers, NEW a \in Aliases, NEW good \in BOOLEAN
  PROVE  MembershipInv /\ SavePut(h, p, a, good) => MembershipInv'
<1> SUFFICES ASSUME MembershipInv, SavePut(h, p, a, good) PROVE MembershipInv'
  OBVIOUS
<1>1. [st |-> "untested", good |-> good] \in Row
  BY DEF Row
<1>2. vault' \in [Providers -> [Aliases -> Row]] /\ happened' \in 0 .. MaxEvents
  BY <1>1, InvTyped, MembershipBounds DEF SavePut, Typed
<1>3. UNCHANGED <<tombstoned, listed, poll, members>>
  BY DEF SavePut, envVars
<1>4. handler' = [handler EXCEPT ![h] = [Idle EXCEPT !.pc = "probe", !.p = p, !.a = a]]
  BY DEF SavePut
<1> QED BY <1>2, <1>3, <1>4, Started, MembersStay, RequestMoves

LEMMA DeleteKeeps ==
  ASSUME NEW h \in Handlers, NEW p \in Providers, NEW a \in Aliases
  PROVE  MembershipInv /\ Delete(h, p, a) => MembershipInv'
<1> SUFFICES ASSUME MembershipInv, Delete(h, p, a) PROVE MembershipInv'
  OBVIOUS
<1>1. NoRow \in Row
  BY DEF NoRow, Row
<1>2. vault' \in [Providers -> [Aliases -> Row]] /\ happened' \in 0 .. MaxEvents
  BY <1>1, InvTyped, MembershipBounds DEF Delete, Typed
<1>3. UNCHANGED <<tombstoned, listed, poll, members>>
  BY DEF Delete, envVars
<1>4. handler' = [handler EXCEPT ![h] = [Idle EXCEPT !.pc = "sync", !.p = p]]
  BY DEF Delete
<1> QED BY <1>2, <1>3, <1>4, Started, MembersStay, RequestMoves

LEMMA ProbeKeeps == ASSUME NEW h \in Handlers PROVE MembershipInv /\ Probe(h) => MembershipInv'
<1> SUFFICES ASSUME MembershipInv, Probe(h) PROVE MembershipInv'
  OBVIOUS
<1>1. PICK ok \in BOOLEAN : handler' = [handler EXCEPT ![h].pc = "status", ![h].verdict = ok]
  BY DEF Probe
<1> DEFINE r == [handler[h] EXCEPT !.pc = "status", !.verdict = ok]
<1>2. handler[h] \in Request(Pools) /\ handler \in [Handlers -> Request(Pools)]
  BY InvTyped DEF Typed
<1>3. handler' = [handler EXCEPT ![h] = r]
  BY <1>1, <1>2
<1>4. r \in Request(Pools) /\ r.pc # "write"
  BY <1>2 DEF Request
<1>5. UNCHANGED <<vault, members, happened, tombstoned, listed, poll>>
  BY DEF Probe, envVars
<1>6. vault' \in [Providers -> [Aliases -> Row]] /\ happened' \in 0 .. MaxEvents
  BY <1>5, InvTyped DEF Typed
<1> HIDE DEF r
<1> QED BY <1>3, <1>4, <1>5, <1>6, MembersStay, RequestMoves

LEMMA SaveStatusKeeps ==
  ASSUME NEW h \in Handlers PROVE MembershipInv /\ SaveStatus(h) => MembershipInv'
<1> SUFFICES ASSUME MembershipInv, SaveStatus(h) PROVE MembershipInv'
  OBVIOUS
<1> DEFINE p == handler[h].p
           a == handler[h].a
           st == IF handler[h].verdict THEN "valid" ELSE "invalid"
<1>1. p \in Providers /\ a \in Aliases /\ vault \in [Providers -> [Aliases -> Row]]
  BY InvTyped DEF Typed, Request
<1>2. vault' = vault \/ vault' = [vault EXCEPT ![p][a].st = st]
  BY DEF SaveStatus
<1>3. st \in {"valid", "invalid"}
  OBVIOUS
<1>4. handler' = [handler EXCEPT ![h] = [Idle EXCEPT !.pc = "sync", !.p = p]]
  BY DEF SaveStatus
<1>5. UNCHANGED <<members, happened, tombstoned, listed, poll>> /\ happened' \in 0 .. MaxEvents
  BY InvTyped DEF SaveStatus, envVars, Typed
<1> HIDE DEF p, a, st
<1>6. [vault[p][a] EXCEPT !.st = st] \in Row
  BY <1>1, <1>3 DEF Row
<1>7. vault' \in [Providers -> [Aliases -> Row]]
  BY <1>1, <1>2, <1>6
<1> QED BY <1>1, <1>4, <1>5, <1>7, Started, MembersStay, RequestMoves

LEMMA SyncAliasesKeeps ==
  ASSUME NEW h \in Handlers PROVE MembershipInv /\ SyncAliases(h) => MembershipInv'
<1> SUFFICES ASSUME MembershipInv, SyncAliases(h) PROVE MembershipInv'
  OBVIOUS
<1> DEFINE p == handler[h].p
           ids == AliasesFor(vault, p)
           free == FreeOf(p)
           r == IF free = {} THEN Idle
                ELSE [handler[h] EXCEPT !.ids = ids, !.todo = free, !.pc = "read"]
<1>1. handler[h] \in Request(Pools) /\ handler \in [Handlers -> Request(Pools)]
      /\ p \in Providers
  BY InvTyped DEF Typed, Request
<1>2. handler' = [handler EXCEPT ![h] = r]
  BY <1>1 DEF SyncAliases
<1>3. ids \in SUBSET Aliases /\ free \in SUBSET Families
  BY <1>1, AliasTyping, CatalogueTyping
<1>4. UNCHANGED <<vault, members, happened, tombstoned, listed, poll>>
  BY DEF SyncAliases, envVars
<1>5. vault' \in [Providers -> [Aliases -> Row]] /\ happened' \in 0 .. MaxEvents
  BY <1>4, InvTyped DEF Typed
<1> HIDE DEF p, ids, free
<1>6. r \in Request(Pools) /\ r.pc # "write"
  BY <1>1, <1>3, IdleTyping DEF Request
<1> HIDE DEF r
<1> QED BY <1>2, <1>4, <1>5, <1>6, MembersStay, RequestMoves

LEMMA SyncReadKeeps ==
  ASSUME NEW h \in Handlers, NEW f \in Families
  PROVE  MembershipInv /\ SyncRead(h, f) => MembershipInv'
<1> SUFFICES ASSUME MembershipInv, SyncRead(h, f) PROVE MembershipInv'
  OBVIOUS
<1> DEFINE p == handler[h].p
           view == Others(members[f], p)
           r == [handler[h] EXCEPT !.pc = "write", !.f = f, !.view = view]
<1>1. handler[h] \in Request(Pools) /\ handler \in [Handlers -> Request(Pools)]
      /\ p \in Providers
  BY InvTyped DEF Typed, Request
<1>2. handler' = [handler EXCEPT ![h] = r]
  BY <1>1 DEF SyncRead
<1>3. members[f] \in Pools /\ Single(members[f])
  BY InvTyped DEF Typed, OneEndpointPerKey, Single
<1>4. view \in Pools /\ Foreign(view, p)
  BY <1>1, <1>3, OthersForeign
<1>5. UNCHANGED <<vault, members, happened, tombstoned, listed, poll>>
  BY DEF SyncRead, envVars
<1>6. vault' \in [Providers -> [Aliases -> Row]] /\ happened' \in 0 .. MaxEvents
  BY <1>5, InvTyped DEF Typed
<1> HIDE DEF view
<1>7. r \in Request(Pools) /\ r.view = view /\ r.p = p
  BY <1>1, <1>4 DEF Request
<1> HIDE DEF r, p
<1> QED BY <1>2, <1>4, <1>5, <1>6, <1>7, MembersStay, RequestMoves

LEMMA SyncWriteKeeps ==
  ASSUME NEW h \in Handlers PROVE MembershipInv /\ SyncWrite(h) => MembershipInv'
<1> SUFFICES ASSUME MembershipInv, SyncWrite(h) PROVE MembershipInv'
  OBVIOUS
<1> DEFINE w == handler[h]
           rest == w.todo \ {w.f}
           r == IF rest = {} THEN Idle
                ELSE [w EXCEPT !.todo = rest, !.pc = "read", !.view = EmptyBag]
           pool == w.view (+) Own(w.p, w.ids)
<1>1. w \in Request(Pools) /\ handler \in [Handlers -> Request(Pools)]
      /\ members \in [Families -> Pools]
  BY InvTyped DEF Typed
<1>2. w.p \in Providers /\ w.ids \in SUBSET Aliases /\ w.f \in Families /\ w.view \in Pools
      /\ Foreign(w.view, w.p) /\ rest \in SUBSET Families
  BY <1>1, InvTyped DEF Request, ViewsForeign, SyncWrite
<1>3. pool \in Pools /\ Single(pool)
  BY <1>2, OwnOwn
<1>4. handler' = [handler EXCEPT ![h] = r] /\ members' = [members EXCEPT ![w.f] = pool]
  BY DEF SyncWrite
<1>5. UNCHANGED <<vault, happened, tombstoned, listed, poll>>
  BY DEF SyncWrite, envVars
<1>6. vault' \in [Providers -> [Aliases -> Row]] /\ happened' \in 0 .. MaxEvents
  BY <1>5, InvTyped DEF Typed
<1> HIDE DEF rest
<1>7. r \in Request(Pools) /\ r.pc # "write"
  BY <1>1, <1>2, IdleTyping DEF Request
<1> HIDE DEF r, pool, w
<1>8. members' \in [Families -> Pools] /\ \A f \in Families : Single(members'[f])
  <2>1. \A f \in Families : Single(members[f])
    BY InvTyped DEF OneEndpointPerKey, Single
  <2> QED BY <1>1, <1>2, <1>3, <1>4, <2>1
<1> QED BY <1>4, <1>5, <1>6, <1>7, <1>8, RequestMoves

\* The discovery loop.
LEMMA PollMoves ==
  ASSUME MembershipInv, poll' \in Poll(Pools),
         poll'.pc = "write" => Foreign(poll'.view, poll'.p),
         UNCHANGED <<vault, handler, listed, happened>>, tombstoned' \subseteq Seed,
         members' \in [Families -> Pools], \A f \in Families : Single(members'[f])
  PROVE  MembershipInv'
<1>1. Typed /\ ViewsForeign
  BY InvTyped
<1>2. Typed'
  BY <1>1 DEF Typed
<1>3. ViewsForeign'
  BY <1>1 DEF ViewsForeign
<1>4. OneEndpointPerKey'
  BY DEF OneEndpointPerKey, Single
<1> QED BY <1>2, <1>3, <1>4, InvTypedNext

LEMMA PollListKeeps ==
  ASSUME NEW p \in Providers
  PROVE  MembershipInv /\ PollList(p) => MembershipInv'
<1> SUFFICES ASSUME MembershipInv, PollList(p) PROVE MembershipInv'
  OBVIOUS
<1> DEFINE todo == {f \in Families : <<f, p>> \in Free \ tombstoned'}
<1>1. poll' = [NotPolling EXCEPT !.pc = "alias", !.p = p, !.todo = todo]
  BY DEF PollList
<1>2. todo \in SUBSET Families
  OBVIOUS
<1> HIDE DEF todo
<1>3. poll' \in Poll(Pools) /\ poll'.pc # "write"
  BY <1>1, <1>2, IdleTyping DEF Poll
<1>4. tombstoned' \subseteq Seed
  BY InvTyped DEF PollList, Typed
<1>5. UNCHANGED <<vault, handler, listed, happened, members>>
  BY DEF PollList, keyVars
<1> QED BY <1>3, <1>4, <1>5, MembersStay, PollMoves

LEMMA PollAliasesKeeps ==
  ASSUME NEW f \in Families PROVE MembershipInv /\ PollAliases(f) => MembershipInv'
<1> SUFFICES ASSUME MembershipInv, PollAliases(f) PROVE MembershipInv'
  OBVIOUS
<1> DEFINE ids == AliasesFor(vault, poll.p)
           own == poll.own \cup ({f} \X ids)
           todo == poll.todo \ {f}
<1>1. poll \in Poll(Pools) /\ poll.p \in Providers /\ poll.own \subseteq Families \X Aliases
      /\ poll.todo \in SUBSET Families /\ tombstoned \subseteq Seed /\ poll.pc = "alias"
  BY InvTyped DEF Typed, Poll, PollAliases
<1>2. ids \in SUBSET Aliases
  BY <1>1, AliasTyping
<1>3. own \in SUBSET (Families \X Aliases) /\ todo \in SUBSET Families
  BY <1>1, <1>2
<1>4. poll' = [poll EXCEPT !.todo = todo, !.own = own]
  BY DEF PollAliases
<1>5. UNCHANGED <<vault, handler, listed, happened, members, tombstoned>>
  BY DEF PollAliases, keyVars
<1> HIDE DEF ids, own, todo
<1>6. poll' \in Poll(Pools) /\ poll'.pc # "write"
  BY <1>1, <1>3, <1>4 DEF Poll
<1> QED BY <1>1, <1>5, <1>6, MembersStay, PollMoves

LEMMA PollReadKeeps ==
  ASSUME NEW f \in Families PROVE MembershipInv /\ PollRead(f) => MembershipInv'
<1> SUFFICES ASSUME MembershipInv, PollRead(f) PROVE MembershipInv'
  OBVIOUS
<1> DEFINE view == Others(members[f], poll.p)
<1>1. poll \in Poll(Pools) /\ poll.p \in Providers /\ poll.fams \in SUBSET Families
      /\ tombstoned \subseteq Seed /\ members[f] \in Pools /\ Single(members[f])
  BY InvTyped DEF Typed, Poll, OneEndpointPerKey, Single
<1>2. view \in Pools /\ Foreign(view, poll.p)
  BY <1>1, OthersForeign
<1>3. PICK fams \in SUBSET Families :
        poll' = [poll EXCEPT !.pc = "write", !.f = f, !.view = view, !.fams = fams]
  <2>1. {m[1] : m \in Seed} \ {f} \in SUBSET Families /\ poll.fams \ {f} \in SUBSET Families
    BY <1>1, CatalogueTyping
  <2> QED BY <2>1 DEF PollRead
<1>4. UNCHANGED <<vault, handler, listed, happened, members, tombstoned>>
  BY DEF PollRead, keyVars
<1> HIDE DEF view
<1>5. poll' \in Poll(Pools) /\ poll'.view = view /\ poll'.p = poll.p
  BY <1>1, <1>2, <1>3 DEF Poll
<1> QED BY <1>1, <1>2, <1>4, <1>5, MembersStay, PollMoves

LEMMA PollWriteKeeps == MembershipInv /\ PollWrite => MembershipInv'
<1> SUFFICES ASSUME MembershipInv, PollWrite PROVE MembershipInv'
  OBVIOUS
<1> DEFINE ids == {o[2] : o \in {x \in poll.own : x[1] = poll.f}}
           pool == Own(poll.p, ids) (+) poll.view
<1>1. poll \in Poll(Pools) /\ poll.p \in Providers /\ poll.f \in Families /\ poll.view \in Pools
      /\ poll.own \subseteq Families \X Aliases /\ Foreign(poll.view, poll.p)
      /\ tombstoned \subseteq Seed /\ members \in [Families -> Pools]
  BY InvTyped DEF Typed, Poll, ViewsForeign, PollWrite
<1>2. ids \in SUBSET Aliases
  BY <1>1
<1>3. members' = [members EXCEPT ![poll.f] = pool]
      /\ poll' = IF poll.fams = {} THEN NotPolling ELSE [poll EXCEPT !.pc = "read", !.view = EmptyBag]
  BY DEF PollWrite
<1> HIDE DEF ids
<1>4. pool \in Pools /\ Single(pool)
  BY <1>1, <1>2, OwnOwn
<1> HIDE DEF pool
<1>5. poll' \in Poll(Pools) /\ poll'.pc # "write"
  BY <1>1, <1>3, IdleTyping DEF Poll
<1>6. members' \in [Families -> Pools] /\ \A f \in Families : Single(members'[f])
  <2>1. \A f \in Families : Single(members[f])
    BY InvTyped DEF OneEndpointPerKey, Single
  <2> QED BY <1>1, <1>3, <1>4, <2>1
<1>7. UNCHANGED <<vault, handler, listed, happened, tombstoned>>
  BY DEF PollWrite, keyVars
<1> QED BY <1>1, <1>5, <1>6, <1>7, PollMoves

LEMMA RelistKeeps == ASSUME NEW m \in Seed PROVE MembershipInv /\ Relist(m) => MembershipInv'
<1> SUFFICES ASSUME MembershipInv, Relist(m) PROVE MembershipInv'
  OBVIOUS
<1>1. Typed'
  BY InvTyped, MembershipBounds DEF Relist, Typed
<1> QED BY <1>1, InvTyped, InvTypedNext DEF Relist, ViewsForeign, OneEndpointPerKey

LEMMA MembershipStep == MembershipInv /\ [Next]_vars => MembershipInv'
<1> SUFFICES ASSUME MembershipInv, [Next]_vars PROVE MembershipInv'
  OBVIOUS
<1>1. CASE Restart
  BY <1>1, RestartKeeps
<1>2. CASE \E m \in Seed : Relist(m)
  BY <1>2, RelistKeeps
<1>3. CASE \E h \in Handlers : HandlerStep(h)
  BY <1>3, ProbeKeeps, SaveStatusKeeps, SyncAliasesKeeps, SyncWriteKeeps, SyncReadKeeps
     DEF HandlerStep
<1>4. CASE \E h \in Handlers, p \in Providers, a \in Aliases :
             Delete(h, p, a) \/ \E good \in Keys(p) : SavePut(h, p, a, good)
  BY <1>4, DeleteKeeps, SavePutKeeps DEF Keys
<1>5. CASE \E p \in Providers : PollList(p)
  BY <1>5, PollListKeeps
<1>6. CASE PollStep
  BY <1>6, PollWriteKeeps, PollAliasesKeeps, PollReadKeeps DEF PollStep
<1>7. CASE UNCHANGED vars
  BY <1>7, InvTyped, InvTypedNext DEF vars, Typed, ViewsForeign, OneEndpointPerKey
<1> QED BY <1>1, <1>2, <1>3, <1>4, <1>5, <1>6, <1>7 DEF Next

\* Every request, poll and restart keeps what the rebuilds have in hand sound.
THEOREM MembershipInvariant == Spec => []MembershipInv
BY MembershipInit, MembershipStep, PTL DEF Spec

\* Vaults, pools, requests and polls keep their types: a pool is a bag of endpoints.
THEOREM MembershipTyping == Spec => []TypeOK
<1>1. MembershipInv => TypeOK
  BY DEF MembershipInv
<1> QED BY <1>1, MembershipInvariant, PTL

\* However the dashboard's synchronous rebuild and the discovery loop's interleave
\* between SnapshotPool and SetPool, no pool lists an endpoint of a key twice.
THEOREM MembershipOneEndpoint == Spec => []OneEndpointPerKey
<1>1. MembershipInv => OneEndpointPerKey
  BY DEF MembershipInv
<1> QED BY <1>1, MembershipInvariant, PTL

----------------------------------------------------------------------------
(* Health *)

\* The machine's clock trails the real time by a tick at most.
Trailing == now <= real /\ real <= now + TickPeriod /\ real <= MaxClock

\* An entry was stamped by a clock that trailed the time it was set at.
StampedInTime ==
  \A sc \in Scopes, st \in State :
    LET e == states[sc][st] IN
    e.expiresAt <= e.setAt + e.ttl /\ e.setAt + e.ttl <= e.expiresAt + TickPeriod

\* Today's run of guesses is what the ladder has counted for today, the last one
\* stands on its rung, and days to come are not counted.
LadderCounted ==
  \A sc \in Scopes :
    /\ \A d \in Days : d > Today => repeats[sc][d] = 0
    /\ hits[sc][1] = repeats[sc][Today]
    /\ hits[sc][1] > 0 => hits[sc][2] = Escalated(hits[sc][1] - 1, Rung2)

HealthInv == HealthTypeOK /\ Trailing /\ StampedInTime /\ LadderCounted
/\ TrailExplainsStates

----------------------------------------------------------------------------
(* Days, rungs and the ring *)

LEMMA Bounds ==
  /\ TickPeriod \in Nat \ {0} /\ Transient \in Nat \ {0} /\ RetryAfter \in Nat \ {0}
  /\ StatedReset \in Nat \ {0} /\ Day \in Nat \ {0} /\ RingSize \in Nat \ {0}
  /\ Rung1 \in Nat /\ Rung2 \in Nat /\ Rung3 \in Nat /\ Rung4 \in Nat
  /\ Rung1 <= Rung2 /\ Rung2 <= Rung3 /\ Rung3 <= Rung4 /\ MaxClock \in Nat
BY HealthAssumption

\* A day never ends before it began.
LEMMA DaysPass ==
  ASSUME NEW a \in Nat, NEW b \in Nat, a <= b
  PROVE  a \div Day <= b \div Day /\ a \div Day \in Nat /\ b \div Day \in Nat
BY Bounds

LEMMA TodayIsADay ==
  ASSUME HealthTypeOK, Trailing
  PROVE  Today \in Days /\ real \div Day \in Days
         /\ Today <= real \div Day
<1>1. now \in Nat /\ real \in Nat /\ MaxClock \in Nat /\ now <= real /\ real <= MaxClock
  BY Bounds DEF HealthTypeOK, Trailing
<1>2. /\ now \div Day <= real \div Day /\ now \div Day \in Nat
      /\ real \div Day <= MaxClock \div Day /\ real \div Day \in Nat
         /\ MaxClock \div Day \in Nat
  BY <1>1, DaysPass
<1> QED BY <1>2 DEF Today, Days

LEMMA Climbs ==
  ASSUME NEW n \in Nat
  PROVE  /\ Escalated(n, Rung2) \in Nat
         /\ n >= 2 => Escalated(n - 1, Rung2) <= Escalated(n, Rung2)
<1>1. Len(Ladder) = 4 /\ Ladder[1] = Rung1 /\ Ladder[2] = Rung2
      /\ Ladder[3] = Rung3 /\ Ladder[4] = Rung4
  BY DEF Ladder
<1>2. CASE n >= 4
  BY <1>1, <1>2, Bounds DEF Escalated
<1>3. CASE n \in {0, 1, 2, 3}
  BY <1>1, <1>3, Bounds DEF Escalated
<1> QED BY <1>2, <1>3

\* The ring loses its oldest event, or none, and ends in the new one.
LEMMA RecordedFacts ==
  ASSUME events \in Seq(Event), Len(events) <= RingSize,
         NEW ev \in Event
  PROVE  /\ Recorded(ev) \in Seq(Event)
         /\ Len(Recorded(ev)) \in 1 .. RingSize
         /\ Recorded(ev)[Len(Recorded(ev))] = ev
         /\ \E k \in {0, 1} :
              /\ Len(Recorded(ev)) = Len(events) + 1 - k
              /\ \A i \in 1 .. Len(Recorded(ev)) - 1 : Recorded(ev)[i] = events[i + k]
<1> DEFINE all == Append(events, ev)
<1>0. RingSize \in Nat \ {0} /\ Len(events) \in Nat
  BY HealthAssumption
<1>1. /\ all \in Seq(Event) /\ Len(all) = Len(events) + 1 /\ all[Len(all)] = ev
      /\ \A i \in 1 .. Len(events) : all[i] = events[i]
  OBVIOUS
<1>2. CASE Len(all) <= RingSize
  <2>1. Recorded(ev) = all
    BY <1>0, <1>1, <1>2 DEF Recorded
  <2> QED BY <1>0, <1>1, <1>2, <2>1
<1>3. CASE Len(all) > RingSize
  <2>1. /\ Len(all) = RingSize + 1 /\ Len(events) = RingSize
        /\ Recorded(ev) = SubSeq(all, 2, RingSize + 1)
    BY <1>0, <1>1, <1>3 DEF Recorded
  <2> HIDE DEF all
  <2>2. /\ Recorded(ev) \in Seq(Event)
        /\ Len(Recorded(ev)) = RingSize
        /\ \A i \in 1 .. RingSize : Recorded(ev)[i] = all[i + 1]
    BY <1>0, <1>1, <2>1
  <2>3. Recorded(ev)[RingSize] = ev
    BY <1>0, <1>1, <2>1, <2>2
  <2>4. \A i \in 1 .. RingSize - 1 : Recorded(ev)[i] = events[i + 1]
    BY <1>0, <1>1, <2>1, <2>2
  <2>5. Len(Recorded(ev)) = Len(events) + 1 - 1
    BY <1>0, <2>1, <2>2
  <2> QED BY <1>0, <2>2, <2>3, <2>4, <2>5
<1> QED BY <1>0, <1>1, <1>2, <1>3

\* The newest event about (sc, st), if there is one, is a set.
Explained(sc, st, ring) ==
  \A i \in DOMAIN ring :
    (/\ ring[i].scope = sc /\ ring[i].state = st
     /\ \A j \in i + 1 .. Len(ring) : ~(ring[j].scope = sc /\ ring[j].state = st))
      => ring[i].kind = "set"

\* An event about something else leaves a trail as explained as it was; a set explains.
LEMMA RecordedExplains ==
  ASSUME events \in Seq(Event), Len(events) <= RingSize,
         NEW ev \in Event,
         NEW sc \in Scopes, NEW st \in State,
         ev.kind = "set" \/ ~(ev.scope = sc /\ ev.state = st),
         ~(ev.scope = sc /\ ev.state = st) => Explained(sc, st, events)
  PROVE  Explained(sc, st, Recorded(ev))
<1> DEFINE r == Recorded(ev)
<1>1. /\ r \in Seq(Event) /\ Len(r) \in 1 .. RingSize /\ r[Len(r)] = ev
      /\ \E k \in {0, 1} :
           Len(r) = Len(events) + 1 - k /\ \A i \in 1 .. Len(r) - 1 : r[i] = events[i + k]
  BY RecordedFacts
<1> HIDE DEF r
<1>0. DOMAIN r = 1 .. Len(r)
  BY <1>1
<1>2. SUFFICES ASSUME NEW i \in 1 .. Len(r), r[i].scope = sc, r[i].state = st,
                      \A j \in i + 1 .. Len(r) : ~(r[j].scope = sc /\ r[j].state = st)
               PROVE  r[i].kind = "set"
  <2>1. Explained(sc, st, r)
    BY <1>0, <1>2 DEF Explained
  <2> QED BY <2>1 DEF r
<1>3. Len(r) \in Nat /\ Len(events) \in Nat
  BY <1>1
<1>4. CASE i = Len(r)
  BY <1>1, <1>2, <1>4
<1>5. CASE i # Len(r)
  <2>1. ~(ev.scope = sc /\ ev.state = st)
    BY <1>1, <1>2, <1>3, <1>5
  <2>2. PICK k \in {0, 1} :
          Len(r) = Len(events) + 1 - k /\ \A n \in 1 .. Len(r) - 1 : r[n] = events[n + k]
    BY <1>1
  <2>3. i + k \in 1 .. Len(events) /\ r[i] = events[i + k]
    BY <1>2, <1>3, <1>5, <2>2
  <2>4. ASSUME NEW j \in (i + k) + 1 .. Len(events)
        PROVE  ~(events[j].scope = sc /\ events[j].state = st)
    <3>1. j - k \in i + 1 .. Len(r) - 1 /\ (j - k) + k = j
      BY <1>2, <1>3, <2>2, <2>3
    <3>2. r[j - k] = events[j]
      BY <1>2, <1>3, <2>2, <3>1
    <3> QED BY <1>2, <1>3, <3>1, <3>2
  <2> QED BY <1>2, <2>1, <2>3, <2>4 DEF Explained
<1> QED BY <1>4, <1>5

----------------------------------------------------------------------------
(* One step of the machine *)

LEMMA VerdictTyping ==
  ASSUME NEW f \in Faults
  PROVE  /\ Verdict(f)[1] \in State /\ Verdict(f)[2] \in Nat
            /\ Verdict(f)[3] \in Provenance
         /\ Verdict(f)[1] = "Quota" /\ Verdict(f)[3] = "Heuristic"
            => Verdict(f)[2] = Rung2
BY Bounds, FaultAssumption DEF FaultKinds, Verdict, State, Provenance

\* What Set does, without the table it looks the fault up in: the ladder is climbed by guesses only.
LEMMA SetStep ==
  ASSUME HealthTypeOK, Trailing, NEW sc \in Scopes, NEW f \in Faults,
         Set(sc, f)
  PROVE  \E st \in State, ttl \in Nat, p \in Provenance, guessed \in BOOLEAN :
           /\ states' = [states EXCEPT ![sc][st] =
                  [expiresAt |-> now + ttl, provenance |-> p, setAt |-> real, ttl |-> ttl]]
           /\ events' = Recorded([scope |-> sc, state |-> st, kind |-> "set"])
           /\ IF guessed
              THEN /\ ttl = Escalated(repeats[sc][Today], Rung2)
                   /\ repeats' = [repeats EXCEPT ![sc][Today] = repeats[sc][Today] + 1]
                   /\ hits' = [hits EXCEPT ![sc] = <<hits[sc][1] + 1, ttl>>]
              ELSE UNCHANGED <<repeats, hits>>
           /\ UNCHANGED <<real, now>>
<1> DEFINE v       == Verdict(f)
           guessed == v[1] = "Quota" /\ v[3] = "Heuristic"
           n       == repeats[sc][Today]
           ttl     == IF guessed THEN Escalated(n, v[2]) ELSE v[2]
<1>1. n \in Nat
  BY TodayIsADay DEF HealthTypeOK
<1>2. v[1] \in State /\ v[2] \in Nat /\ v[3] \in Provenance
      /\ (guessed => v[2] = Rung2)
  BY VerdictTyping
<1>3. ttl \in Nat /\ (guessed => ttl = Escalated(n, Rung2))
  BY <1>1, <1>2, Climbs
<1>4. /\ states' = [states EXCEPT ![sc][v[1]] =
               [expiresAt |-> now + ttl, provenance |-> v[3], setAt |-> real, ttl |-> ttl]]
      /\ events' = Recorded([scope |-> sc, state |-> v[1], kind |-> "set"])
      /\ repeats' = IF guessed THEN [repeats EXCEPT ![sc][Today] = n + 1] ELSE repeats
      /\ hits' = IF guessed THEN [hits EXCEPT ![sc] = <<hits[sc][1] + 1, ttl>>] ELSE hits
      /\ UNCHANGED <<real, now>>
  BY DEF Set, Expiry
<1>5. guessed \in BOOLEAN
  OBVIOUS
<1> HIDE DEF v, guessed, n, ttl
<1>6. CASE guessed
  <2>1. /\ ttl = Escalated(n, Rung2)
           /\ repeats' = [repeats EXCEPT ![sc][Today] = n + 1]
        /\ hits' = [hits EXCEPT ![sc] = <<hits[sc][1] + 1, ttl>>]
    BY <1>3, <1>4, <1>6
  <2> QED BY <1>2, <1>3, <1>4, <1>6, <2>1 DEF n
<1>7. CASE ~guessed
  <2>1. UNCHANGED <<repeats, hits>>
    BY <1>4, <1>7
  <2> QED BY <1>2, <1>3, <1>4, <1>7, <2>1
<1> QED BY <1>6, <1>7

LEMMA NoEntryTyping ==
  /\ NoEntry \in Entry /\ NoEntry.expiresAt = 0
     /\ NoEntry.setAt = 0 /\ NoEntry.ttl = 0
BY DEF NoEntry, Entry, Provenance

LEMMA SetSafe ==
  ASSUME HealthInv, NEW sc \in Scopes, NEW f \in Faults, Set(sc, f)
  PROVE  HealthInv'
<1> USE DEF HealthInv
<1>1. PICK st \in State, ttl \in Nat, p \in Provenance, guessed \in BOOLEAN :
        /\ states' = [states EXCEPT ![sc][st] =
               [expiresAt |-> now + ttl, provenance |-> p, setAt |-> real, ttl |-> ttl]]
        /\ events' = Recorded([scope |-> sc, state |-> st, kind |-> "set"])
        /\ IF guessed
           THEN /\ ttl = Escalated(repeats[sc][Today], Rung2)
                /\ repeats' = [repeats EXCEPT ![sc][Today] = repeats[sc][Today] + 1]
                /\ hits' = [hits EXCEPT ![sc] = <<hits[sc][1] + 1, ttl>>]
           ELSE UNCHANGED <<repeats, hits>>
        /\ UNCHANGED <<real, now>>
  BY SetStep
<1> DEFINE e == [expiresAt |-> now + ttl, provenance |-> p, setAt |-> real, ttl |-> ttl]
<1>2. /\ e \in Entry /\ e.expiresAt = now + ttl /\ e.setAt = real /\ e.ttl = ttl
      /\ now \in Nat /\ real \in Nat
  BY DEF Entry, HealthTypeOK
<1> HIDE DEF e
<1>3. /\ states' \in [Scopes -> [State -> Entry]] /\ states'[sc][st] = e
      /\ \A s2 \in Scopes, t2 \in State : ~(s2 = sc /\ t2 = st)
         => states'[s2][t2] = states[s2][t2]
  BY <1>1, <1>2 DEF HealthTypeOK, e
<1>4. Trailing' /\ Today' = Today /\ Today \in Days
  BY <1>1, TodayIsADay DEF Trailing, Today
<1>5. StampedInTime'
  BY <1>1, <1>2, <1>3, Bounds DEF StampedInTime, Trailing
<1> DEFINE ev == [scope |-> sc, state |-> st, kind |-> "set"]
<1>6. ev \in Event /\ ev.scope = sc /\ ev.state = st /\ ev.kind = "set"
  BY DEF Event, EventKind
<1> HIDE DEF ev
<1>7. events' = Recorded(ev) /\ events' \in Seq(Event) /\ Len(events') <= RingSize
  BY <1>1, <1>6, RecordedFacts, Bounds DEF ev, HealthTypeOK
<1>8. TrailExplainsStates'
  <2>1. SUFFICES ASSUME NEW s2 \in Scopes, NEW t2 \in State,
        Active(states[s2][t2])'
                 PROVE  Explained(s2, t2, events')
    BY DEF TrailExplainsStates, Explained
  <2>2. ~(ev.scope = s2 /\ ev.state = t2) => Explained(s2, t2, events)
    BY <1>1, <1>3, <1>6, <2>1 DEF TrailExplainsStates, Explained, Active
  <2> QED BY <1>6, <1>7, <2>2, RecordedExplains DEF HealthTypeOK
<1>9. CASE guessed
  <2>0. /\ ttl = Escalated(repeats[sc][Today], Rung2)
        /\ repeats' = [repeats EXCEPT ![sc][Today] = repeats[sc][Today] + 1]
        /\ hits' = [hits EXCEPT ![sc] = <<hits[sc][1] + 1, ttl>>]
    BY Zenon, <1>1, <1>9
  <2>1. /\ repeats' \in [Scopes -> [Days -> Nat]]
        /\ repeats'[sc][Today] = repeats[sc][Today] + 1
        /\ \A d \in Days \ {Today} : repeats'[sc][d] = repeats[sc][d]
        /\ \A s2 \in Scopes \ {sc} : repeats'[s2] = repeats[s2]
    BY <1>4, <2>0 DEF HealthTypeOK
  <2>2. /\ hits' \in [Scopes -> Nat \X Nat]
        /\ hits'[sc][1] = hits[sc][1] + 1 /\ hits'[sc][2] = ttl
        /\ \A s2 \in Scopes \ {sc} : hits'[s2] = hits[s2]
    BY <2>0 DEF HealthTypeOK
  <2>3. \A s2 \in Scopes : hits[s2][1] \in Nat /\ \A d \in Days : repeats[s2][d] \in Nat
    BY DEF HealthTypeOK
  <2>4. LadderCounted'
    <3>1. ASSUME NEW s2 \in Scopes, NEW d \in Days, d > Today
          PROVE  repeats'[s2][d] = 0
      <4>1. d # Today
        BY <1>4, <3>1 DEF Days
      <4> QED BY <2>1, <3>1, <4>1 DEF LadderCounted
    <3>2. ASSUME NEW s2 \in Scopes
          PROVE  /\ hits'[s2][1] = repeats'[s2][Today]
                 /\ hits'[s2][1] > 0 => hits'[s2][2] = Escalated(hits'[s2][1] - 1, Rung2)
      <4>1. CASE s2 = sc
        <5>1. hits'[sc][1] - 1 = repeats[sc][Today]
          BY <1>4, <2>1, <2>2, <2>3 DEF LadderCounted
        <5> QED BY <1>4, <2>0, <2>1, <2>2, <4>1, <5>1 DEF LadderCounted
      <4>2. CASE s2 # sc
        BY <2>1, <2>2, <4>2 DEF LadderCounted
      <4> QED BY <4>1, <4>2
    <3> QED BY <1>4, <3>1, <3>2 DEF LadderCounted, Escalated
  <2>5. HealthTypeOK'
    BY <1>1, <1>3, <1>7, <2>1, <2>2 DEF HealthTypeOK
  <2> QED BY <1>4, <1>5, <1>8, <2>4, <2>5
<1>10. CASE ~guessed
  <2>1. LadderCounted'
    BY <1>1, <1>4, <1>10 DEF LadderCounted, Escalated
  <2>2. HealthTypeOK'
    BY <1>1, <1>3, <1>7, <1>10 DEF HealthTypeOK
  <2> QED BY <1>4, <1>5, <1>8, <2>1, <2>2
<1> QED BY <1>9, <1>10

\* A state that is left out of the table, or stays as it was, needs no new explanation.
LEMMA DropsSafe ==
  ASSUME HealthInv, UNCHANGED <<repeats, hits, now, real>>,
         states' \in [Scopes -> [State -> Entry]],
         \A sc \in Scopes, st \in State : states'[sc][st] \in {states[sc][st], NoEntry}
  PROVE  /\ Trailing' /\ StampedInTime' /\ LadderCounted'
         /\ \A sc \in Scopes, st \in State : Active(states[sc][st])' =>
              states'[sc][st] = states[sc][st] /\ Explained(sc, st, events)
<1> USE DEF HealthInv
<1>1. Trailing' /\ LadderCounted'
  BY DEF Trailing, LadderCounted, Today, Escalated
<1>2. StampedInTime'
  BY NoEntryTyping, Bounds DEF StampedInTime
<1>3. ASSUME NEW sc \in Scopes, NEW st \in State, Active(states[sc][st])'
      PROVE  states'[sc][st] = states[sc][st] /\ Explained(sc, st, events)
  <2>1. states'[sc][st] # NoEntry /\ states'[sc][st] = states[sc][st]
    BY <1>3, NoEntryTyping DEF Active, HealthTypeOK
  <2> QED BY <1>3, <2>1 DEF Active, TrailExplainsStates, Explained
<1> QED BY <1>1, <1>2, <1>3

LEMMA BlocksSafe ==
  ASSUME HealthInv, NEW sc \in Scopes, Blocks(sc)
  PROVE  HealthInv'
<1>1. /\ states' \in [Scopes -> [State -> Entry]]
      /\ \A s2 \in Scopes, st \in State : states'[s2][st] \in {states[s2][st], NoEntry}
  BY NoEntryTyping DEF Blocks, Pruned, HealthInv, HealthTypeOK
<1>2. HealthTypeOK'
  BY <1>1 DEF Blocks, HealthInv, HealthTypeOK
<1> QED BY <1>1, <1>2, DropsSafe DEF Blocks, HealthInv, TrailExplainsStates, Explained

LEMMA ClearSafe ==
  ASSUME HealthInv, NEW sc \in Scopes, NEW st \in State,
         Clear(sc, st)
  PROVE  HealthInv'
<1>1. /\ states' \in [Scopes -> [State -> Entry]]
         /\ states'[sc][st] = NoEntry
      /\ \A s2 \in Scopes, t2 \in State : states'[s2][t2] \in {states[s2][t2], NoEntry}
  BY NoEntryTyping DEF Clear, HealthInv, HealthTypeOK
<1> DEFINE ev == [scope |-> sc, state |-> st, kind |-> "clear"]
<1>2. ev \in Event /\ ev.scope = sc /\ ev.state = st
  BY DEF Event, EventKind
<1>3. events' = Recorded(ev)
  BY DEF Clear
<1> HIDE DEF ev
<1>4. events' \in Seq(Event) /\ Len(events') <= RingSize
  BY <1>2, <1>3, RecordedFacts, Bounds DEF HealthInv, HealthTypeOK
<1>5. HealthTypeOK'
  BY <1>1, <1>4 DEF Clear, HealthInv, HealthTypeOK
<1>6. TrailExplainsStates'
  <2>1. SUFFICES ASSUME NEW s2 \in Scopes, NEW t2 \in State,
        Active(states[s2][t2])'
                 PROVE  Explained(s2, t2, events')
    BY DEF TrailExplainsStates, Explained
  <2>2. Explained(s2, t2, events)
    BY <1>1, <2>1, DropsSafe DEF Clear
  <2>3. ~(ev.scope = s2 /\ ev.state = t2)
    BY <1>1, <1>2, <2>1, NoEntryTyping DEF Active, Clear, HealthInv, HealthTypeOK
  <2> QED BY <1>2, <1>3, <2>2, <2>3, RecordedExplains DEF HealthInv, HealthTypeOK
<1> QED BY <1>1, <1>5, <1>6, DropsSafe DEF Clear, HealthInv

LEMMA SuccessSafe ==
  ASSUME HealthInv, NEW sc \in Scopes, Success(sc)
  PROVE  HealthInv'
<1> USE DEF HealthInv
<1> DEFINE ev == [scope |-> sc, state |-> "none", kind |-> "success"]
<1>1. ev \in Event /\ ev.state \notin State
  BY DEF Event, EventKind, State
<1>2. events' = Recorded(ev)
  BY DEF Success
<1> HIDE DEF ev
<1>3. events' \in Seq(Event) /\ Len(events') <= RingSize
  BY <1>1, <1>2, RecordedFacts, Bounds DEF HealthTypeOK
<1>4. HealthTypeOK'
  BY <1>3 DEF Success, HealthTypeOK
<1>5. Trailing' /\ StampedInTime'
  BY DEF Success, Trailing, StampedInTime
<1>6. LadderCounted'
  <2>1. /\ repeats'[sc] = [d \in Days |-> 0] /\ hits'[sc] = <<0, 0>>
        /\ \A s2 \in Scopes \ {sc} : repeats'[s2] = repeats[s2] /\ hits'[s2] = hits[s2]
    BY DEF Success, HealthTypeOK
  <2>2. Today' = Today /\ Today \in Days
    BY TodayIsADay DEF Success, Today
  <2> QED BY <2>1, <2>2 DEF LadderCounted, Escalated
<1>7. TrailExplainsStates'
  <2>1. SUFFICES ASSUME NEW s2 \in Scopes, NEW t2 \in State,
        Active(states[s2][t2])'
                 PROVE  Explained(s2, t2, events')
    BY DEF TrailExplainsStates, Explained
  <2>2. Explained(s2, t2, events)
    BY <2>1 DEF Success, Active, TrailExplainsStates, Explained
  <2> QED BY <1>1, <1>2, <2>2, RecordedExplains DEF HealthTypeOK
<1> QED BY <1>4, <1>5, <1>6, <1>7

\* A tick moves the clock up to the real time; a new day has counted nothing.
LEMMA TickSafe ==
  ASSUME HealthInv, Tick
  PROVE  HealthInv'
<1> USE DEF HealthInv
<1>1. /\ states' \in [Scopes -> [State -> Entry]]
      /\ \A sc \in Scopes, st \in State :
           states'[sc][st] = IF real < states[sc][st].expiresAt THEN states[sc][st] ELSE NoEntry
  BY NoEntryTyping DEF Tick, Pruned, HealthTypeOK
<1>2. /\ now' = real /\ real' = real /\ repeats' = repeats /\ events' = events
      /\ now \in Nat /\ real \in Nat
  BY DEF Tick, HealthTypeOK
<1>3. hits' = [sc \in Scopes |-> IF real \div Day # Today THEN <<0, 0>> ELSE hits[sc]]
  BY DEF Tick
<1>4. HealthTypeOK'
  BY <1>1, <1>2, <1>3 DEF HealthTypeOK
<1>5. Trailing'
  BY <1>2, Bounds DEF Trailing
<1>6. StampedInTime'
  BY <1>1, NoEntryTyping, Bounds DEF StampedInTime
<1>7. LadderCounted'
  <2>1. Today' = real \div Day /\ Today' \in Days
        /\ Today \in Days /\ Today <= Today'
    BY <1>2, TodayIsADay DEF Today
  <2>2. CASE Today' = Today
    BY <1>2, <1>3, <2>1, <2>2 DEF LadderCounted, Escalated
  <2>3. CASE Today' # Today
    <3>1. Today < Today'
      BY <2>1, <2>3 DEF Days
    <3>2. \A sc \in Scopes : hits'[sc] = <<0, 0>>
      BY <1>3, <2>1, <2>3
    <3>3. \A sc \in Scopes : \A d \in Days : d >= Today' => repeats'[sc][d] = 0
      BY <1>2, <2>1, <3>1 DEF LadderCounted, Days
    <3> QED BY <2>1, <3>2, <3>3 DEF LadderCounted, Days
  <2> QED BY <2>2, <2>3
<1>8. TrailExplainsStates'
  <2>1. SUFFICES ASSUME NEW sc \in Scopes, NEW st \in State,
        Active(states[sc][st])'
                 PROVE  Explained(sc, st, events)
    BY <1>2 DEF TrailExplainsStates, Explained
  <2>2. real < states[sc][st].expiresAt
    BY <1>1, <1>2, <2>1, NoEntryTyping DEF Active
  <2>3. Active(states[sc][st])
    BY <1>2, <2>2 DEF Active, Trailing, HealthTypeOK, Entry
  <2> QED BY <2>3 DEF TrailExplainsStates, Explained
<1> QED BY <1>4, <1>5, <1>6, <1>7, <1>8

LEMMA AdvanceSafe ==
  ASSUME HealthInv, Advance
  PROVE  HealthInv'
<1>1. now \in Nat /\ real \in Nat /\ TickPeriod \in Nat /\ MaxClock \in Nat
  BY Bounds DEF HealthInv, HealthTypeOK
<1>2. Trailing'
  BY <1>1 DEF Advance, HealthInv, Trailing
<1>3. HealthTypeOK'
  BY <1>1 DEF Advance, HealthInv, HealthTypeOK
<1>4. StampedInTime' /\ LadderCounted' /\ TrailExplainsStates'
  BY DEF Advance, HealthInv, StampedInTime, LadderCounted, TrailExplainsStates, Today,
         Escalated, Active
<1> QED BY <1>2, <1>3, <1>4 DEF HealthInv

LEMMA HealthStarts == HealthInit => HealthInv
<1> SUFFICES ASSUME HealthInit PROVE HealthInv
  OBVIOUS
<1>1. HealthTypeOK
  BY NoEntryTyping, Bounds DEF HealthInit, HealthTypeOK
<1>2. Trailing /\ StampedInTime
  BY NoEntryTyping, Bounds DEF HealthInit, Trailing, StampedInTime
<1>3. Today \in Days
  BY <1>1, <1>2, TodayIsADay
<1>4. LadderCounted /\ TrailExplainsStates
  BY <1>3, NoEntryTyping DEF HealthInit, LadderCounted, TrailExplainsStates
<1> QED BY <1>1, <1>2, <1>4 DEF HealthInv

LEMMA HealthSteps ==
  HealthInv /\ [HealthNext]_healthVars => HealthInv'
<1> SUFFICES ASSUME HealthInv, [HealthNext]_healthVars PROVE HealthInv'
  OBVIOUS
<1>1. CASE HealthNext
  BY <1>1, SetSafe, BlocksSafe, SuccessSafe, ClearSafe, TickSafe, AdvanceSafe
  DEF HealthNext
<1>2. CASE UNCHANGED healthVars
  BY <1>2 DEF healthVars, HealthInv, HealthTypeOK, Trailing, StampedInTime,
              LadderCounted, TrailExplainsStates, Today, Escalated, Active
<1> QED BY <1>1, <1>2

----------------------------------------------------------------------------
(* Theorems *)

\* The inductive invariant holds of every reachable state.
THEOREM HealthInvariant == HealthSpec => []HealthInv
BY HealthStarts, HealthSteps, PTL DEF HealthSpec

\* The machine's tables and its ring stay within their types: record never lets
\* the ring grow beyond eventRingSize, and escalate always finds a rung.
THEOREM HealthTyping == HealthSpec => []HealthTypeOK
<1>1. HealthInv => HealthTypeOK
  BY DEF HealthInv
<1> QED BY <1>1, HealthInvariant, PTL

\* An entry Set has stamped with the trailing clock blocks no longer than its TTL and a tick.
THEOREM HealthEndsOnTime == HealthSpec => []CooldownEndsOnTime
<1>1. HealthInv => CooldownEndsOnTime
  <2> SUFFICES ASSUME HealthInv, NEW sc \in Scopes, NEW st \in State,
  Active(states[sc][st])
               PROVE  real < states[sc][st].setAt + states[sc][st].ttl + TickPeriod
    BY DEF CooldownEndsOnTime
  <2>1. states[sc][st] \in Entry /\ now \in Nat /\ real \in Nat /\ TickPeriod \in Nat
    BY Bounds DEF HealthInv, HealthTypeOK
  <2>2. /\ real <= now + TickPeriod /\ now < states[sc][st].expiresAt
        /\ states[sc][st].expiresAt <= states[sc][st].setAt + states[sc][st].ttl
    BY DEF HealthInv, Trailing, StampedInTime, Active
  <2> QED BY <2>1, <2>2 DEF Entry
<1> QED BY <1>1, HealthInvariant, PTL

\* The trail the dashboard reads from the ring agrees with the states in force.
THEOREM HealthTrail == HealthSpec => []TrailExplainsStates
<1>1. HealthInv => TrailExplainsStates
  BY DEF HealthInv
<1> QED BY <1>1, HealthInvariant, PTL

\* Tick ends no cooldown more than a tick before its TTL is over.
THEOREM HealthNotCutShort == HealthSpec => CooldownNotCutShort
<1>1. HealthInv /\ [HealthNext]_healthVars =>
        [now' # now =>
           \A sc \in Scopes, st \in State :
             LET e == states[sc][st] IN
             (Active(e) /\ ~(now' < e.expiresAt)) =>
                real' >= e.setAt + e.ttl - TickPeriod]_healthVars
  <2> SUFFICES ASSUME HealthInv, HealthNext, now' # now, NEW sc \in Scopes,
  NEW st \in State,
                      ~(now' < states[sc][st].expiresAt)
               PROVE  real' >= states[sc][st].setAt + states[sc][st].ttl - TickPeriod
    BY DEF healthVars
  <2>1. Tick
    BY DEF HealthNext, Set, Blocks, Success, Clear, Advance
  <2>2. /\ now' = real /\ real' = real /\ real \in Nat /\ states[sc][st] \in Entry
        /\ states[sc][st].setAt + states[sc][st].ttl <= states[sc][st].expiresAt + TickPeriod
    BY <2>1 DEF Tick, HealthInv, HealthTypeOK, StampedInTime
  <2> QED BY <2>2, Bounds DEF Entry
<1> QED BY <1>1, HealthInvariant, PTL DEF HealthSpec, CooldownNotCutShort

\* Within a day escalate's ladder never waits less than it did for the guess before.
THEOREM HealthClimbs == HealthSpec => RepeatsClimb
<1>1. HealthInv /\ [HealthNext]_healthVars =>
        [\A sc \in Scopes :
           (hits'[sc][1] > hits[sc][1] /\ hits[sc][1] >= 2) =>
              hits'[sc][2] >= hits[sc][2]]_healthVars
  <2> SUFFICES ASSUME HealthInv, HealthNext, NEW sc \in Scopes,
                      hits'[sc][1] > hits[sc][1], hits[sc][1] >= 2
               PROVE  hits'[sc][2] >= hits[sc][2]
    BY DEF healthVars
  <2>1. hits[sc][1] \in Nat /\ hits[sc][2] \in Nat
        /\ hits[sc][2] = Escalated(hits[sc][1] - 1, Rung2)
        /\ hits[sc][1] = repeats[sc][Today]
    BY DEF HealthInv, HealthTypeOK, LadderCounted
  <2>2. CASE \E s2 \in Scopes, f \in Faults : Set(s2, f)
    <3>1. PICK s2 \in Scopes, ttl \in Nat :
            \/ UNCHANGED hits
            \/ /\ ttl = Escalated(repeats[s2][Today], Rung2)
               /\ hits' = [hits EXCEPT ![s2] = <<hits[s2][1] + 1, ttl>>]
      BY <2>2, SetStep DEF HealthInv
    <3>2. hits' # hits /\ s2 = sc
      BY <2>1, <3>1 DEF HealthInv, HealthTypeOK
    <3>3. hits'[sc][2] = Escalated(hits[sc][1], Rung2)
      BY <2>1, <3>1, <3>2 DEF HealthInv, HealthTypeOK
    <3> QED BY <2>1, <3>3, Climbs
  <2>3. CASE \E s2 \in Scopes : Success(s2)
    BY <2>1, <2>3 DEF Success, HealthInv, HealthTypeOK
  <2>4. CASE Tick
    BY <2>1, <2>4 DEF Tick, HealthInv, HealthTypeOK
  <2>5. CASE Advance \/ \E s2 \in Scopes : Blocks(s2)
             \/ \E st \in State : Clear(s2, st)
    <3>1. UNCHANGED hits
      BY <2>5 DEF Advance, Blocks, Clear
    <3> QED BY <2>1, <3>1
  <2> QED BY <2>2, <2>3, <2>4, <2>5 DEF HealthNext
<1> QED BY <1>1, HealthInvariant, PTL DEF HealthSpec, RepeatsClimb

=============================================================================
