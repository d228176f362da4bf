----------------------------- MODULE RouterWalk -----------------------------
(***************************************************************************)
(* One chat request through the model router: Walk.Run and Walk.stream     *)
(* (internal/upstream/walk.go), the parser that feeds them (sse.go) and    *)
(* the streaming handler that answers the client (internal/facade).        *)
(*                                                                         *)
(* The goroutine of Run walks the chain, hop by hop.  Each accepted hop    *)
(* starts a parser goroutine that relays frames to the client; Run waits   *)
(* for it, for the idle watchdog or for its context, whichever is first,   *)
(* and does not stop the parser: closing the body ends its reads, but the  *)
(* lines already buffered are still parsed.  All parsers of a request      *)
(* share the committed flag and the client connection.                     *)
(*                                                                         *)
(* A frame is abstracted to what contentOf tells apart.                    *)
(***************************************************************************)
EXTENDS Integers, Sequences, FiniteSets

CONSTANTS
  MaxHops,    \* longest chain the pool hands to the walk
  MaxFrames,  \* frames a provider sends on one hop
  Sends,      \* the kinds of frame providers send
  Hedge,      \* PerAttemptHedge, in ticks
  Budget,     \* TotalBudget; no request outlives it, so it bounds the clock
  Idle        \* IdleTimeout

ASSUME WalkAssumption ==
  /\ MaxHops \in Nat /\ MaxFrames \in Nat
  /\ Sends \subseteq {"role", "tool", "text", "finish", "textFinish", "done"}
  /\ {Hedge, Budget, Idle} \subseteq Nat \ {0}

Hops == 1 .. MaxHops

VARIABLES
  clock,      \* time since the request arrived
  gone,       \* the client has disconnected (its context is cancelled)
  chain,      \* length of the failover chain
  hop,        \* the hop Run is at; 0 before the first
  pc,         \* where Run is
  deadline,   \* attemptCtx's deadline
  idleAt,     \* when the idle watchdog of the current stream fires
  ended,      \* why stream returned: "no", "ok", "error", "idle", "ctx"
  committed,  \* the flag the parsers set and Run reads
  parser,     \* parser[h]: the parser goroutine of hop h
  closed,     \* hops whose contentTick channel and body Run has closed
  lease,      \* the ledger lease of each hop
  outcome,    \* what was reported to the pool and the health machine
  out,        \* what the client received: <<hop, frame>>, hop 0 is the router
  result,     \* what Run returned
  crashed     \* a goroutine panicked and took the process with it

vars == <<clock, gone, chain, hop, pc, deadline, idleAt, ended, committed,
          parser, closed, lease, outcome, out, result, crashed>>

\* role: role-only chunks, pings.  tool: a tool-call delta.  text: content.
\* finish: a terminal chunk.  textFinish: a terminal chunk that also carries
\* content, which contentOf reports as terminal without content.
Frame == {"role", "tool", "text", "finish", "textFinish", "done"}
RouterFrame == {"contentFilter", "done", "httpError"}

ParserState == {"none", "reading", "ticking", "emitting", "ended"}
NoParser == [st |-> "none", frames |-> 0, terminal |-> FALSE, err |-> "none"]
Parser == [st : ParserState, frames : 0 .. MaxFrames, terminal : BOOLEAN,
           err : {"none", "nil", "error"}]

TypeOK ==
  /\ clock \in 0 .. Budget /\ gone \in BOOLEAN
  /\ chain \in 0 .. MaxHops /\ hop \in 0 .. chain
  /\ pc \in {"loop", "starting", "streaming", "settling", "returned", "done"}
  /\ deadline \in 0 .. Budget /\ idleAt \in Nat
  /\ ended \in {"no", "ok", "error", "idle", "ctx"}
  /\ committed \in BOOLEAN
  /\ parser \in [Hops -> Parser]
  /\ closed \subseteq Hops
  /\ lease \in [Hops -> {"none", "refused", "held", "released", "stands"}]
  /\ outcome \in [Hops -> {"none", "success", "failure"}]
  /\ out \in Seq((0 .. MaxHops) \X (Frame \cup RouterFrame))
  /\ result \in {"none", "ok", "committed", "failed", "noEndpoints"}
  /\ crashed \in BOOLEAN

Init ==
  /\ clock = 0 /\ gone = FALSE
  /\ chain \in 0 .. MaxHops
  /\ hop = 0
  /\ pc = IF chain = 0 THEN "returned" ELSE "loop"
  /\ result = IF chain = 0 THEN "noEndpoints" ELSE "none"
  /\ deadline = 0 /\ idleAt = 0 /\ ended = "no" /\ committed = FALSE
  /\ parser = [h \in Hops |-> NoParser]
  /\ closed = {}
  /\ lease = [h \in Hops |-> "none"]
  /\ outcome = [h \in Hops |-> "none"]
  /\ out = <<>>
  /\ crashed = FALSE

runVars    == <<chain, hop, pc, deadline, ended, closed, lease, outcome, result>>
parserVars == <<idleAt, committed, parser, out, crashed>>

----------------------------------------------------------------------------
(* Run: the request's own goroutine *)

BudgetSpent == gone \/ clock >= Budget
CtxDone     == gone \/ clock >= deadline

\* The loop's exits: the budget is spent or the chain is exhausted.
Exhaust ==
  /\ pc = "loop"
  /\ BudgetSpent \/ hop = chain
  /\ pc' = "returned"
  /\ result' = IF committed THEN "committed" ELSE "failed"
  /\ UNCHANGED <<chain, hop, deadline, ended, closed, lease, outcome>>

\* The ledger refuses the hop, or no adapter serves its provider.
SkipHop ==
  /\ pc = "loop" /\ ~BudgetSpent /\ hop < chain
  /\ hop' = hop + 1
  /\ \E l \in {"refused", "released"} : lease' = [lease EXCEPT ![hop + 1] = l]
  /\ UNCHANGED <<chain, pc, deadline, ended, closed, outcome, result>>

Attempt ==
  /\ pc = "loop" /\ ~BudgetSpent /\ hop < chain
  /\ hop' = hop + 1
  /\ pc' = "starting"
  /\ lease' = [lease EXCEPT ![hop + 1] = "held"]
  /\ deadline' = IF clock + Hedge < Budget THEN clock + Hedge ELSE Budget
  /\ ended' = "no"
  /\ UNCHANGED <<chain, closed, outcome, result>>

\* Start fails or answers outside 2xx: classify, release, next hop.
StartFails ==
  /\ pc = "starting"
  /\ pc' = "loop"
  /\ outcome' = [outcome EXCEPT ![hop] = "failure"]
  /\ lease' = [lease EXCEPT ![hop] = "released"]
  /\ UNCHANGED <<chain, hop, deadline, ended, closed, result>>

RunAlone ==
  /\ ~crashed
  /\ Exhaust \/ SkipHop \/ Attempt \/ StartFails
  /\ UNCHANGED <<clock, gone>> /\ UNCHANGED parserVars

StartAccepted ==
  /\ ~crashed /\ pc = "starting" /\ ~CtxDone
  /\ pc' = "streaming"
  /\ parser' = [parser EXCEPT ![hop].st = "reading"]
  /\ idleAt' = clock + Idle
  /\ UNCHANGED <<clock, gone, committed, out, crashed>>
  /\ UNCHANGED <<chain, hop, deadline, ended, closed, lease, outcome, result>>

\* Mutant: stream waits for the parser alone.
StreamArmParserOnly(why) ==
  \/ why = "ok"    /\ parser[hop].err = "nil"
  \/ why = "error" /\ parser[hop].err = "error"

\* stream's select: any arm that is ready may be taken.  Run then closes the
\* channel and the body.
StreamArm(why) ==
  \/ why = "ok"    /\ parser[hop].err = "nil"
  \/ why = "error" /\ parser[hop].err = "error"
  \/ why = "idle"  /\ clock >= idleAt
  \/ why = "ctx"   /\ CtxDone

StreamReturns ==
  /\ ~crashed /\ pc = "streaming"
  /\ \E why \in {"ok", "error", "idle", "ctx"} : StreamArm(why) /\ ended' = why
  /\ closed' = closed \cup {hop}
  /\ pc' = "settling"
  /\ UNCHANGED <<clock, gone>> /\ UNCHANGED parserVars
  /\ UNCHANGED <<chain, hop, deadline, lease, outcome, result>>

\* Mutant: a failed stream is always retried on the next hop.
SettleAlwaysFailsOver ==
  /\ pc = "settling"
  /\ \/ /\ ended = "ok"
        /\ pc' = "returned" /\ result' = "ok"
        /\ outcome' = [outcome EXCEPT ![hop] = "success"]
        /\ lease' = [lease EXCEPT ![hop] = "stands"]
     \/ /\ ended # "ok"
        /\ pc' = "loop" /\ UNCHANGED result
        /\ outcome' = [outcome EXCEPT ![hop] = "failure"]
        /\ lease' = [lease EXCEPT ![hop] = "released"]
  /\ UNCHANGED <<chain, hop, deadline, ended, closed>>

\* Mutant: the failed hop keeps its lease.
SettleKeepsLease ==
  /\ pc = "settling"
  /\ \/ /\ ended = "ok"
        /\ pc' = "returned" /\ result' = "ok"
        /\ outcome' = [outcome EXCEPT ![hop] = "success"]
        /\ lease' = [lease EXCEPT ![hop] = "stands"]
     \/ /\ ended # "ok" /\ committed
        /\ pc' = "returned" /\ result' = "committed"
        /\ outcome' = [outcome EXCEPT ![hop] = "failure"]
        /\ lease' = [lease EXCEPT ![hop] = "stands"]
     \/ /\ ended # "ok" /\ ~committed
        /\ pc' = "loop" /\ UNCHANGED result
        /\ outcome' = [outcome EXCEPT ![hop] = "failure"]
        /\ UNCHANGED lease
  /\ UNCHANGED <<chain, hop, deadline, ended, closed>>

\* Run reads the committed flag and settles the hop: success, an honest end
\* after commit, or (circuit cooldown, refund) the next hop.
Settle ==
  /\ pc = "settling"
  /\ \/ /\ ended = "ok"
        /\ pc' = "returned" /\ result' = "ok"
        /\ outcome' = [outcome EXCEPT ![hop] = "success"]
        /\ lease' = [lease EXCEPT ![hop] = "stands"]
     \/ /\ ended # "ok" /\ committed
        /\ pc' = "returned" /\ result' = "committed"
        /\ outcome' = [outcome EXCEPT ![hop] = "failure"]
        /\ lease' = [lease EXCEPT ![hop] = "stands"]
     \/ /\ ended # "ok" /\ ~committed
        /\ pc' = "loop" /\ UNCHANGED result
        /\ outcome' = [outcome EXCEPT ![hop] = "failure"]
        /\ lease' = [lease EXCEPT ![hop] = "released"]
  /\ UNCHANGED <<chain, hop, deadline, ended, closed>>

SettleHop ==
  /\ ~crashed /\ Settle
  /\ UNCHANGED <<clock, gone>> /\ UNCHANGED parserVars

\* handleChat after Run: nothing on success; an in-band terminator when a
\* frame was already relayed (the headers are out), else an HTTP error.
Answer ==
  /\ ~crashed /\ pc = "returned"
  /\ pc' = "done"
  /\ out' = IF result = "ok" THEN out
            ELSE IF out # <<>> THEN out \o <<<<0, "contentFilter">>, <<0, "done">>>>
            ELSE <<<<0, "httpError">>>>
  /\ UNCHANGED <<clock, gone, idleAt, committed, parser, crashed>>
  /\ UNCHANGED <<chain, hop, deadline, ended, closed, lease, outcome, result>>

----------------------------------------------------------------------------
(* The parser goroutine of hop h *)

Sent(h, f) == Append(out, <<h, f>>)

\* Mutant: a stream that just stops is a success.
EofErrTruncated(h) == "nil"

\* EOF without a terminal frame is an error: truncation is not success.
EofErr(h) == IF parser[h].terminal THEN "nil" ELSE "error"

ReadPlain(h, f) ==
  /\ f \in {"role", "tool", "finish", "textFinish"}
  /\ out' = Sent(h, f)
  /\ parser' = [parser EXCEPT ![h].frames = @ + 1,
                              ![h].terminal = @ \/ f \in {"finish", "textFinish"}]
  /\ UNCHANGED committed

\* A [DONE] frame is relayed and ends the parse.
ReadDone(h) ==
  /\ out' = Sent(h, "done")
  /\ parser' = [parser EXCEPT ![h].frames = @ + 1, ![h].terminal = TRUE,
                              ![h].st = "ended", ![h].err = "nil"]
  /\ UNCHANGED committed

\* Content: the flag is set first, the frame is relayed two steps later.
ReadText(h) ==
  /\ parser' = [parser EXCEPT ![h].frames = @ + 1, ![h].st = "ticking"]
  /\ committed' = TRUE
  /\ UNCHANGED out

Read(h) ==
  /\ parser[h].st = "reading" /\ parser[h].frames < MaxFrames
  /\ \/ \E f \in Sends : ReadPlain(h, f)
     \/ "done" \in Sends /\ ReadDone(h)
     \/ "text" \in Sends /\ ReadText(h)
  /\ UNCHANGED <<idleAt, crashed>>

\* contentTick <- struct{}{}: resets the watchdog, or panics once Run has
\* closed the channel.
TickIdle(h) ==
  /\ parser[h].st = "ticking"
  /\ crashed' \in BOOLEAN /\ (crashed' <=> h \in closed)
  /\ idleAt' = IF h \in closed THEN idleAt ELSE clock + Idle
  /\ parser' = [parser EXCEPT ![h].st = "emitting"]
  /\ UNCHANGED <<committed, out>>

EmitText(h) ==
  /\ parser[h].st = "emitting"
  /\ out' = Sent(h, "text")
  /\ parser' = [parser EXCEPT ![h].st = "reading"]
  /\ UNCHANGED <<idleAt, committed, crashed>>

\* The body ends, fails, was closed by Run, or the client cannot be written to.
ReadEnds(h) ==
  /\ parser[h].st = "reading"
  /\ \E e \in {EofErr(h), "error"} :
       parser' = [parser EXCEPT ![h] = [@ EXCEPT !.st = "ended", !.err = e]]
  /\ UNCHANGED <<idleAt, committed, out, crashed>>

Parse(h) ==
  /\ ~crashed
  /\ Read(h) \/ TickIdle(h) \/ EmitText(h) \/ ReadEnds(h)
  /\ UNCHANGED <<clock, gone>> /\ UNCHANGED runVars

----------------------------------------------------------------------------
(* Environment *)

\* Timers are prompt: time does not pass a deadline Run is waiting for.
Advance ==
  /\ ~crashed /\ clock < Budget
  /\ ~(pc \in {"starting", "streaming"} /\ clock >= deadline)
  /\ ~(pc = "streaming" /\ clock >= idleAt)
  /\ pc # "done"
  /\ clock' = clock + 1
  /\ UNCHANGED gone /\ UNCHANGED runVars /\ UNCHANGED parserVars

ClientGoes ==
  /\ ~crashed /\ ~gone /\ pc # "done"
  /\ gone' = TRUE
  /\ UNCHANGED clock /\ UNCHANGED runVars /\ UNCHANGED parserVars

RunStep == RunAlone \/ StartAccepted \/ StreamReturns \/ SettleHop \/ Answer

Next ==
  \/ RunStep
  \/ \E h \in Hops : Parse(h)
  \/ Advance
  \/ ClientGoes

\* Run's goroutine is scheduled, a call that hits its deadline returns, and
\* time passes.  Nothing is assumed of providers, parsers or the client.
Fairness == WF_vars(RunStep) /\ WF_vars(Advance)

Spec == Init /\ [][Next]_vars /\ Fairness

----------------------------------------------------------------------------
(* Properties *)

\* Hops whose frames of the given kinds reached the client.
Heard(kinds) == {h \in Hops : \E i \in DOMAIN out : out[i][1] = h /\ out[i][2] \in kinds}

\* Content the walk commits to comes from one provider only, however a late
\* parser of an abandoned hop is scheduled.
OneProviderOfContent == Cardinality(Heard({"text"})) <= 1

\* Once Run has returned, every lease it took is settled: refunded, or kept
\* for the one hop that answered; and it never holds two at a time.
LeasesSettled ==
  /\ \A h \in Hops : lease[h] = "held" =>
       h = hop /\ pc \in {"starting", "streaming", "settling"}
  /\ \A h \in Hops : lease[h] = "stands" =>
       h = hop /\ result \in {"ok", "committed"}

\* A request that is answered as a success relayed a terminal frame of the hop
\* that is credited with it: a truncated stream is never a success.
SuccessIsTerminated ==
  result = "ok" =>
    /\ outcome[hop] = "success"
    /\ hop \in Heard({"finish", "textFinish", "done"})

\* Every request is answered: a provider that stalls at any point cannot hold
\* it beyond the deadlines.
EveryRequestAnswered == <>(pc = "done" \/ crashed)

\* "A second provider is never spliced into a half-delivered answer": the
\* frames that carry a part of the answer come from one hop.
NeverSpliced == Cardinality(Heard({"tool", "text", "textFinish"})) <= 1

\* "Post-commit: the content clock governs": the per-attempt hedge never ends
\* a stream whose content has begun to flow to a client that still listens.
ContentClockGoverns ==
  [][(pc = "streaming" /\ ended' = "ctx" /\ ~gone) => ~committed]_vars

\* "After commit, failures terminate honestly with an enum-mapped error
\* event": a committed request never takes the process down.
CommittedEndsHonestly == ~(committed /\ crashed)

=============================================================================
