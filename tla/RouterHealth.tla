---------------------------- MODULE RouterHealth ----------------------------
(***************************************************************************)
(* The health machine of the model router (internal/health/state.go and    *)
(* events.go), driven by the verdicts the walk passes to it                *)
(* (internal/upstream/walk.go, applyClassification).                       *)
(*                                                                         *)
(* Every method but AllBlocked holds m.mu throughout and is one action.    *)
(* The machine does not read the time: cooldowns are measured on a clock   *)
(* of its own that a background ticker moves every TickPeriod, so it       *)
(* trails the real time.  The model keeps both.                            *)
(***************************************************************************)
EXTENDS Integers, Sequences

CONSTANTS
  Scopes,       \* (provider, model, key) triples
  Faults,       \* the failures that happen, a subset of FaultKinds
  TickPeriod,   \* ticks of real time between two calls of Tick
  Transient,    \* transientRateLimitTTL, and the circuit cooldown
  Rung1, Rung2, Rung3, Rung4,   \* escalateQuota
  RetryAfter,   \* a Retry-After a provider states
  StatedReset,  \* time to a reset a provider states
  Day,          \* length of a day
  RingSize,     \* eventRingSize
  MaxClock,     \* bound on real time
  MaxRepeats    \* bound on the quota guesses of a day

ASSUME HealthAssumption ==
  /\ {TickPeriod, Transient, Rung1, Rung2, Rung3, Rung4,
      RetryAfter, StatedReset, Day, RingSize} \subseteq Nat \ {0}
  /\ Rung1 <= Rung2 /\ Rung2 <= Rung3 /\ Rung3 <= Rung4
  /\ MaxClock \in Nat /\ MaxRepeats \in Nat

VARIABLES
  real,     \* the real time
  now,      \* m.now
  states,   \* states[sc][st]: the entry, or NoEntry
  repeats,  \* repeats[sc][day]: heuristic quota hits of that day
  events,   \* the event ring, oldest first
  hits      \* history: <<number, last TTL>> of today's run of quota guesses

healthVars == <<real, now, states, repeats, events, hits>>

State == {"RateLimit", "Quota", "Circuit", "Terminal"}
Provenance == {"Heuristic", "Authoritative"}
Days == 0 .. MaxClock \div Day

Entry == [expiresAt : Nat, provenance : Provenance, setAt : Nat, ttl : Nat]
NoEntry == [expiresAt |-> 0, provenance |-> "Heuristic", setAt |-> 0, ttl |-> 0]

EventKind == {"set", "clear", "success"}
Event == [scope : Scopes, state : State \cup {"none"}, kind : EventKind]

HealthTypeOK ==
  /\ real \in Nat /\ now \in Nat
  /\ states \in [Scopes -> [State -> Entry]]
  /\ repeats \in [Scopes -> [Days -> Nat]]
  /\ events \in Seq(Event) /\ Len(events) <= RingSize
  /\ hits \in [Scopes -> Nat \X Nat]

\* What each kind of failure asks of the machine: the state, the TTL and the
\* provenance that applyClassification and recordStreamFailure pass to Set.
FaultKinds == {"retryable", "rateLimitHinted", "quotaStated", "quotaPast",
               "quotaGuessed", "fatal", "streamFailure"}

Verdict(f) ==
  CASE f = "retryable"       -> <<"RateLimit", Transient,   "Heuristic">>
    [] f = "rateLimitHinted" -> <<"RateLimit", RetryAfter,  "Authoritative">>
    [] f = "quotaStated"     -> <<"Quota",     StatedReset, "Authoritative">>
    [] f = "quotaPast"       -> <<"Quota",     Rung2,       "Authoritative">>
    [] f = "quotaGuessed"    -> <<"Quota",     Rung2,       "Heuristic">>
    [] f = "fatal"           -> <<"Terminal",  Rung4,       "Heuristic">>
    [] f = "streamFailure"   -> <<"Circuit",   Transient,   "Heuristic">>

ASSUME FaultAssumption == Faults \subseteq FaultKinds

----------------------------------------------------------------------------

Active(e) == now < e.expiresAt

\* Tick and Blocks drop the entries that have expired at time t.
Pruned(m, t) == [st \in State |-> IF t < m[st].expiresAt THEN m[st] ELSE NoEntry]

\* Mutant: the full ring drops the new event.
RecordedOldest(ev) == IF Len(events) < RingSize THEN Append(events, ev) ELSE events

\* record: append to the ring and cut it to its newest RingSize events.
Recorded(ev) ==
  LET all == Append(events, ev) IN
  IF Len(all) > RingSize THEN SubSeq(all, Len(all) - RingSize + 1, Len(all)) ELSE all

Today == now \div Day

\* escalate: the first guess of a day keeps the caller's TTL, repeats climb.
Ladder == <<Rung1, Rung2, Rung3, Rung4>>

\* Mutant: the ladder starts over when it is exhausted.
EscalatedWraps(n, base) == IF n = 0 THEN base ELSE Ladder[((n - 1) % 4) + 1]

Escalated(n, base) ==
  IF n >= Len(Ladder) THEN Ladder[Len(Ladder)]
  ELSE IF n = 0 THEN base ELSE Ladder[n]

HealthInit ==
  /\ real = 0 /\ now = 0
  /\ states = [sc \in Scopes |-> [st \in State |-> NoEntry]]
  /\ repeats = [sc \in Scopes |-> [d \in Days |-> 0]]
  /\ events = <<>>
  /\ hits = [sc \in Scopes |-> <<0, 0>>]

\* Mutants: a new cooldown is added to the one in force, or gives way to it.
ExpiryExtends(old, ttl) == (IF Active(old) THEN old.expiresAt ELSE now) + ttl

ExpiryKeepsEarlier(old, ttl) ==
  IF Active(old) /\ old.expiresAt < now + ttl THEN old.expiresAt ELSE now + ttl

\* The expiry of a new entry, measured on the machine's clock.
Expiry(old, ttl) == now + ttl

\* Set: the entry for (sc, st) is overwritten, whatever it was.
Set(sc, f) ==
  LET v       == Verdict(f)
      guessed == v[1] = "Quota" /\ v[3] = "Heuristic"
      n       == repeats[sc][Today]
      ttl     == IF guessed THEN Escalated(n, v[2]) ELSE v[2]
      entry   == [expiresAt |-> Expiry(states[sc][v[1]], ttl), provenance |-> v[3],
                  setAt |-> real, ttl |-> ttl]
  IN
  /\ guessed => n < MaxRepeats
  /\ states' = [states EXCEPT ![sc][v[1]] = entry]
  /\ repeats' = IF guessed THEN [repeats EXCEPT ![sc][Today] = n + 1] ELSE repeats
  /\ hits' = IF guessed THEN [hits EXCEPT ![sc] = <<@[1] + 1, ttl>>] ELSE hits
  /\ events' = Recorded([scope |-> sc, state |-> v[1], kind |-> "set"])
  /\ UNCHANGED <<real, now>>

\* Blocks, and the chain that asks it, prune what has expired.
Blocks(sc) ==
  /\ states' = [states EXCEPT ![sc] = Pruned(@, now)]
  /\ UNCHANGED <<real, now, repeats, events, hits>>

Clear(sc, st) ==
  /\ states[sc][st] # NoEntry
  /\ states' = [states EXCEPT ![sc][st] = NoEntry]
  /\ events' = Recorded([scope |-> sc, state |-> st, kind |-> "clear"])
  /\ UNCHANGED <<real, now, repeats, hits>>

\* Success forgets the ladder; cooldowns stay.
Success(sc) ==
  /\ repeats' = [repeats EXCEPT ![sc] = [d \in Days |-> 0]]
  /\ hits' = [hits EXCEPT ![sc] = <<0, 0>>]
  /\ events' = Recorded([scope |-> sc, state |-> "none", kind |-> "success"])
  /\ UNCHANGED <<real, now, states>>

\* The ticker calls Tick(time.Now()); real time does not pass the next tick.
Tick ==
  /\ real = now + TickPeriod
  /\ now' = real
  /\ states' = [sc \in Scopes |-> Pruned(states[sc], real)]
  /\ hits' = [sc \in Scopes |-> IF real \div Day # Today THEN <<0, 0>> ELSE hits[sc]]
  /\ UNCHANGED <<real, repeats, events>>

Advance ==
  /\ real < now + TickPeriod /\ real < MaxClock
  /\ real' = real + 1
  /\ UNCHANGED <<now, states, repeats, events, hits>>

HealthNext ==
  \/ \E sc \in Scopes, f \in Faults : Set(sc, f)
  \/ \E sc \in Scopes : Blocks(sc) \/ Success(sc)
  \/ \E sc \in Scopes, st \in State : Clear(sc, st)
  \/ Tick
  \/ Advance

HealthSpec == HealthInit /\ [][HealthNext]_healthVars

----------------------------------------------------------------------------
(* Properties *)

\* A cooldown never blocks an endpoint for more than one tick beyond its TTL,
\* measured in real time, although Set stamps it with the trailing clock.
CooldownEndsOnTime ==
  \A sc \in Scopes, st \in State :
    LET e == states[sc][st] IN
    Active(e) => real < e.setAt + e.ttl + TickPeriod

\* A tick never ends a cooldown more than one tick before its TTL has passed
\* in real time.
CooldownNotCutShort ==
  [][now' # now =>
       \A sc \in Scopes, st \in State :
         LET e == states[sc][st] IN
         (Active(e) /\ ~(now' < e.expiresAt)) =>
            real' >= e.setAt + e.ttl - TickPeriod]_healthVars

\* From the second quota guess of a day on, every further guess without a
\* success in between waits at least as long as the one before.
RepeatsClimb ==
  [][\A sc \in Scopes :
       (hits'[sc][1] > hits[sc][1] /\ hits[sc][1] >= 2) =>
          hits'[sc][2] >= hits[sc][2]]_healthVars

\* The dashboard's trail never contradicts the machine: the newest event the
\* ring holds about a state in force is the set that put it there.
TrailExplainsStates ==
  \A sc \in Scopes, st \in State :
    Active(states[sc][st]) =>
      \A i \in DOMAIN events :
        (/\ events[i].scope = sc /\ events[i].state = st
         /\ \A j \in i + 1 .. Len(events) :
              ~(events[j].scope = sc /\ events[j].state = st))
          => events[i].kind = "set"

=============================================================================
