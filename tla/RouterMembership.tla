-------------------------- MODULE RouterMembership --------------------------
(***************************************************************************)
(* Which endpoints the model router routes to: the key vault               *)
(* (internal/vault), the dashboard's key handlers and the boot sequence    *)
(* that rebuild the pools from it (cmd/router/main.go, internal/web), the  *)
(* discovery loop that rebuilds them from the providers' live catalogues   *)
(* (internal/discovery) and the pool they all write (internal/pool).       *)
(*                                                                         *)
(* A rebuild is not atomic: it reads the usable aliases from the database, *)
(* then reads each family's members and writes them back, and only the     *)
(* single reads and writes are locked.  Each is a step here.               *)
(***************************************************************************)
EXTENDS Integers, FiniteSets, Bags

CONSTANTS
  Providers,    \* the seed's providers, each with a base URL
  Families,     \* model families
  Seed,         \* sd.Models: the set of <<family, provider>> mappings
  Paid,         \* the mappings v1 never pools (paid, paid_gated, no_host)
  MaxAlias,     \* key aliases are 1 .. MaxAlias, in the order of key_alias
  EnvKeys,      \* providers whose environment variable holds a key
  OpenList,     \* providers that list their models without looking at the key
  Handlers,     \* concurrent requests to the dashboard
  MaxEvents     \* bound on key saves, deletions, catalogue changes, restarts

ASSUME MembershipAssumption ==
  /\ Providers # {} /\ Families # {}
  /\ Seed \subseteq Families \X Providers /\ Paid \subseteq Seed
  /\ EnvKeys \subseteq Providers /\ OpenList \subseteq Providers
  /\ MaxAlias \in Nat \ {0, 1}
  /\ MaxEvents \in Nat

Aliases == 1 .. MaxAlias
Default == 1      \* "default", which also stands in where no key is usable
Env     == 2      \* "env"

VARIABLES
  vault,       \* vault[p][a]: the row of provider_keys
  tombstoned,  \* the mappings the discovery loop has retired
  members,     \* members[f]: the pool of family f, a bag of endpoints
  listed,      \* the mappings whose slug the provider lists (environment)
  handler,     \* handler[h]: a dashboard request
  poll,        \* the discovery loop's goroutine
  happened     \* how many events there were

vars == <<vault, tombstoned, members, listed, handler, poll, happened>>

\* good: whether the provider accepts the key.
Row   == [st : {"none", "untested", "valid", "invalid"}, good : BOOLEAN]
NoRow == [st |-> "none", good |-> FALSE]
Endpoint == Providers \X Aliases

Idle == [pc |-> "idle", p |-> CHOOSE p \in Providers : TRUE, a |-> Default,
         verdict |-> FALSE, ids |-> {}, todo |-> {},
         f |-> CHOOSE f \in Families : TRUE, view |-> EmptyBag]
NotPolling == [pc |-> "idle", p |-> CHOOSE p \in Providers : TRUE,
               own |-> {}, todo |-> {}, fams |-> {},
               f |-> CHOOSE f \in Families : TRUE, view |-> EmptyBag]

IsPool(B) == DOMAIN B \subseteq Endpoint /\ B \in [DOMAIN B -> Nat]
Request(views) ==
  [pc : {"idle", "probe", "status", "sync", "read", "write"},
   p : Providers, a : Aliases, verdict : BOOLEAN,
   ids : SUBSET Aliases, todo : SUBSET Families, f : Families, view : views]
Poll(views) ==
  [pc : {"idle", "alias", "read", "write"}, p : Providers,
   own : SUBSET (Families \X Aliases), todo : SUBSET Families,
   fams : SUBSET Families, f : Families, view : views]

TypeOK ==
  /\ vault \in [Providers -> [Aliases -> Row]]
  /\ tombstoned \subseteq Seed /\ listed \subseteq Seed
  /\ members = [f \in Families |-> members[f]] /\ \A f \in Families : IsPool(members[f])
  /\ handler = [h \in Handlers |-> handler[h]]
  /\ \A h \in Handlers :
       IsPool(handler[h].view) /\ handler[h] \in Request({handler[h].view})
  /\ IsPool(poll.view) /\ poll \in Poll({poll.view})
  /\ happened \in 0 .. MaxEvents

----------------------------------------------------------------------------
(* The vault, as its readers see it *)

ActiveAliases(v, p) == {a \in Aliases : v[p][a].st \in {"untested", "valid"}}

\* Where no key is usable a rebuild keeps one endpoint, under "default".
AliasesFor(v, p) ==
  IF ActiveAliases(v, p) = {} THEN {Default} ELSE ActiveAliases(v, p)

\* keyFn(""): the first alias of that list that has a row, whatever its
\* status, is the key a models listing is made with.
ProbeAlias(v, p) == {a \in AliasesFor(v, p) :
                       /\ v[p][a].st # "none"
                       /\ \A b \in AliasesFor(v, p) : v[p][b].st # "none" => a <= b}

\* The provider answers a listing made with a key it accepts.
Answers(v, p) == p \in OpenList \/ \E a \in ProbeAlias(v, p) : v[p][a].good

Free == Seed \ Paid
FreeOf(p) == {f \in Families : <<f, p>> \in Free}

Own(p, ids) == SetToBag({p} \X ids)

\* Mutant: the provider's previous endpoints are not dropped.
OthersKeepsOwn(B, p) == B

\* The endpoints of the other providers, which a rebuild keeps.
Others(B, p) == [e \in {x \in DOMAIN B : x[1] # p} |-> B[e]]

----------------------------------------------------------------------------
(* Boot: bootstrap from the environment, then every provider's endpoints *)

\* The row Put stores for a provider that has no "env" row yet.
Bootstrapped(v) ==
  [p \in Providers |->
     IF p \in EnvKeys /\ v[p][Env].st = "none"
     THEN [v[p] EXCEPT ![Env] = [st |-> "untested", good |-> TRUE]] ELSE v[p]]

\* Its status, once the listing has been tried.  Both keep existing rows.
BootVaults(v) ==
  {[p \in Providers |->
      IF p \in EnvKeys /\ v[p][Env].st = "none"
      THEN [v[p] EXCEPT ![Env] = [st |-> IF p \in ok THEN "valid" ELSE "invalid",
                                  good |-> TRUE]]
      ELSE v[p]] :
   ok \in SUBSET {p \in EnvKeys : Answers(Bootstrapped(v), p)}}

SeedPools(v) ==
  [f \in Families |->
     SetToBag({e \in Endpoint : <<f, e[1]>> \in Free /\ e[2] \in AliasesFor(v, e[1])})]

Init ==
  /\ vault \in BootVaults([p \in Providers |-> [a \in Aliases |-> NoRow]])
  /\ members = SeedPools(vault)
  /\ tombstoned = {} /\ listed = Seed
  /\ handler = [h \in Handlers |-> Idle] /\ poll = NotPolling
  /\ happened = 0

\* A restart: what only the process held is gone, the tombstones included.
Restart ==
  /\ happened < MaxEvents
  /\ happened' = happened + 1
  /\ vault' \in BootVaults(vault)
  /\ members' = SeedPools(vault')
  /\ tombstoned' = {}
  /\ handler' = [h \in Handlers |-> Idle] /\ poll' = NotPolling
  /\ UNCHANGED listed

\* Environment: a provider drops a model from its catalogue, or lists it again.
Relist(m) ==
  /\ happened < MaxEvents
  /\ happened' = happened + 1
  /\ listed' = IF m \in listed THEN listed \ {m} ELSE listed \cup {m}
  /\ UNCHANGED <<vault, tombstoned, members, handler, poll>>

----------------------------------------------------------------------------
(* saveKey and deleteKey: one dashboard request *)

envVars == <<tombstoned, listed, poll>>

\* The keys a user may paste; at an open provider they are all alike.
Keys(p) == IF p \in OpenList THEN {TRUE} ELSE BOOLEAN

\* Put: the row is replaced and its status resets.
SavePut(h, p, a, good) ==
  /\ handler[h].pc = "idle" /\ happened < MaxEvents
  /\ happened' = happened + 1
  /\ vault' = [vault EXCEPT ![p][a] = [st |-> "untested", good |-> good]]
  /\ handler' = [handler EXCEPT ![h] = [Idle EXCEPT !.pc = "probe", !.p = p, !.a = a]]
  /\ UNCHANGED <<envVars, members>>

\* The probe lists models with the provider's first usable alias.
Probe(h) ==
  /\ handler[h].pc = "probe"
  /\ \E ok \in BOOLEAN :
       /\ ok => Answers(vault, handler[h].p)
       /\ handler' = [handler EXCEPT ![h].pc = "status", ![h].verdict = ok]
  /\ UNCHANGED <<vault, members, happened, envVars>>

\* SetStatus: an error where the row is gone by now, which saveKey ignores.
SaveStatus(h) ==
  LET p == handler[h].p  a == handler[h].a IN
  /\ handler[h].pc = "status"
  /\ vault' = IF vault[p][a].st = "none" THEN vault
              ELSE [vault EXCEPT ![p][a].st =
                      IF handler[h].verdict THEN "valid" ELSE "invalid"]
  /\ handler' = [handler EXCEPT ![h] = [Idle EXCEPT !.pc = "sync", !.p = p]]
  /\ UNCHANGED <<members, happened, envVars>>

Delete(h, p, a) ==
  /\ handler[h].pc = "idle" /\ happened < MaxEvents
  /\ happened' = happened + 1
  /\ vault' = [vault EXCEPT ![p][a] = NoRow]
  /\ handler' = [handler EXCEPT ![h] = [Idle EXCEPT !.pc = "sync", !.p = p]]
  /\ UNCHANGED <<envVars, members>>

----------------------------------------------------------------------------
(* syncProviderKeys: a provider's endpoints, from the seed and the vault *)

SyncAliases(h) ==
  LET p == handler[h].p IN
  /\ handler[h].pc = "sync"
  /\ handler' = [handler EXCEPT ![h] =
       IF FreeOf(p) = {} THEN Idle
       ELSE [@ EXCEPT !.ids = AliasesFor(vault, p), !.todo = FreeOf(p), !.pc = "read"]]
  /\ UNCHANGED <<vault, members, happened, envVars>>

SyncRead(h, f) ==
  /\ handler[h].pc = "read" /\ f \in handler[h].todo
  /\ handler' = [handler EXCEPT ![h].pc = "write", ![h].f = f,
                                ![h].view = Others(members[f], handler[h].p)]
  /\ UNCHANGED <<vault, members, happened, envVars>>

SyncWrite(h) ==
  LET w == handler[h]  rest == w.todo \ {w.f} IN
  /\ w.pc = "write"
  /\ members' = [members EXCEPT ![w.f] = w.view (+) Own(w.p, w.ids)]
  /\ handler' = [handler EXCEPT ![h] =
       IF rest = {} THEN Idle
       ELSE [w EXCEPT !.todo = rest, !.pc = "read", !.view = EmptyBag]]
  /\ UNCHANGED <<vault, happened, envVars>>

----------------------------------------------------------------------------
(* The discovery loop: PollOnce and applyToPools for one provider *)

keyVars == <<vault, handler, listed, happened>>

\* Mutant: a retired mapping stays retired though the provider lists it again.
PollListOneWay(p) ==
  /\ poll.pc = "idle"
  /\ Answers(vault, p)
  /\ tombstoned' = tombstoned \cup {m \in Seed \ listed : m[2] = p}
  /\ poll' = [NotPolling EXCEPT !.pc = "alias", !.p = p,
                !.todo = {f \in Families : <<f, p>> \in Free \ tombstoned'}]
  /\ UNCHANGED <<members, keyVars>>

\* The live list is in; retire what it lacks, resurrect what it names again.
\* A listing that fails is logged and skipped: no step.
PollList(p) ==
  /\ poll.pc = "idle"
  /\ Answers(vault, p)
  /\ tombstoned' = {m \in tombstoned : m[2] # p} \cup {m \in Seed \ listed : m[2] = p}
  /\ poll' = [NotPolling EXCEPT !.pc = "alias", !.p = p,
                !.todo = {f \in Families : <<f, p>> \in Free \ tombstoned'}]
  /\ UNCHANGED <<members, keyVars>>

\* aliasesFor is called anew for every mapping.
PollAliases(f) ==
  /\ poll.pc = "alias" /\ f \in poll.todo
  /\ poll' = [poll EXCEPT !.todo = @ \ {f},
                          !.own = @ \cup ({f} \X AliasesFor(vault, poll.p))]
  /\ UNCHANGED <<tombstoned, members, keyVars>>

\* Every family of the catalogue is then rebuilt, also those the provider
\* no longer serves.
PollRead(f) ==
  /\ \/ poll.pc = "alias" /\ poll.todo = {} /\ f \in {m[1] : m \in Seed}
        /\ poll' = [poll EXCEPT !.pc = "write", !.f = f,
                      !.view = Others(members[f], poll.p),
                      !.fams = {m[1] : m \in Seed} \ {f}]
     \/ poll.pc = "read" /\ f \in poll.fams
        /\ poll' = [poll EXCEPT !.pc = "write", !.f = f,
                      !.view = Others(members[f], poll.p),
                      !.fams = @ \ {f}]
  /\ UNCHANGED <<tombstoned, members, keyVars>>

PollWrite ==
  /\ poll.pc = "write"
  /\ members' = [members EXCEPT ![poll.f] =
       Own(poll.p, {o[2] : o \in {x \in poll.own : x[1] = poll.f}}) (+) poll.view]
  /\ poll' = IF poll.fams = {} THEN NotPolling
             ELSE [poll EXCEPT !.pc = "read", !.view = EmptyBag]
  /\ UNCHANGED <<tombstoned, keyVars>>

HandlerStep(h) ==
  \/ Probe(h) \/ SaveStatus(h) \/ SyncAliases(h) \/ SyncWrite(h)
  \/ \E f \in Families : SyncRead(h, f)

PollStep == PollWrite \/ \E f \in Families : PollAliases(f) \/ PollRead(f)

Next ==
  \/ Restart
  \/ \E m \in Seed : Relist(m)
  \/ \E h \in Handlers :
       \/ HandlerStep(h)
       \/ \E p \in Providers, a \in Aliases :
            Delete(h, p, a) \/ \E good \in Keys(p) : SavePut(h, p, a, good)
  \/ \E p \in Providers : PollList(p)
  \/ PollStep

\* A started request runs to its end, as does a started poll; every tick of
\* the loop polls every provider, and outages pass.  Nothing is assumed of
\* the user, of the providers' catalogues or of restarts.
Spec ==
  /\ Init /\ [][Next]_vars
  /\ \A h \in Handlers : WF_vars(HandlerStep(h))
  /\ WF_vars(PollStep)
  /\ \A p \in Providers : SF_vars(PollList(p))

----------------------------------------------------------------------------
(* Properties *)

\* No family ever holds two endpoints for one key of a provider, whatever
\* rebuilds overlap: main.go says of syncProviderKeys that a provider's
\* endpoints are "replaced, never appended (fresh saves must not duplicate
\* rows)"; the duplicates of an earlier version exhausted whole families.
OneEndpointPerKey ==
  \A f \in Families : \A e \in DOMAIN members[f] : members[f][e] = 1

\* What discovery and the vault together say of a provider's part of a pool.
Right(p) ==
  \A f \in Families :
    {e[2] : e \in {x \in DOMAIN members[f] : x[1] = p}} =
      IF <<f, p>> \in Free \cap listed THEN AliasesFor(vault, p) ELSE {}

\* Rebuilds overlap, lose each other's endpoints and bring back retired ones;
\* still the endpoints of every provider that keeps answering end up exactly
\* its listed free models times its usable keys, and stay so: the discovery
\* loop repairs what applyToPools and syncProviderKeys left wrong.
MembershipConverges ==
  \A p \in Providers : <>[]Answers(vault, p) => <>[]Right(p)

\* "Tombstoned mappings stay in the catalogue (reversible) but leave the
\* routing pools" (discovery/loop.go): a step that adds an endpoint never
\* adds one of a mapping that is retired.
RetiredStayOut ==
  [][\A f \in Families : \A e \in DOMAIN members'[f] \ DOMAIN members[f] :
       <<f, e[1]>> \notin tombstoned']_vars

\* "valid: most recent probe succeeded" (vault.go), and saveKey says it
\* probes "with the new key": a key the provider does not accept is never
\* recorded as valid, where the provider checks keys.
ValidKeysWork ==
  \A p \in Providers \ OpenList : \A a \in Aliases :
    vault[p][a].st = "valid" => vault[p][a].good
=============================================================================
