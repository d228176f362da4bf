--------------------------- MODULE RouterWalkProofs ---------------------------
(***************************************************************************)
(* For any chain length, any providers and any timing: the content of an   *)
(* answer comes from one hop, every lease is settled, and a success was    *)
(* terminated by the hop it is credited to.                                *)
(*                                                                         *)
(* None of it is inductive.  The difficulty is that Run never stops the    *)
(* parser of a hop it leaves.  The argument is about the channel Run       *)
(* closes when it leaves: a parser whose channel is open is the one Run is *)
(* waiting for (OpenParserIsCurrent), a parser that got past the channel   *)
(* with content therefore belongs to the current hop, after the flag was   *)
(* set (ContentIsCurrent), and the flag stops Run from moving on.          *)
(***************************************************************************)
EXTENDS RouterWalk, FiniteSetTheorems, SequenceTheorems, TLAPS

Underway == {"starting", "streaming", "settling"}
Terminal == {"finish", "textFinish", "done"}

\* Run is at a hop of the chain, and has no result, while it is working.
HopIsReal ==
  /\ pc \in Underway => hop \in Hops
  /\ pc \in Underway \cup {"loop"} => result = "none"
  /\ result = "ok" => hop \in Hops

\* Hops Run has not come to are untouched.
AheadIsUntouched ==
  \A h \in Hops :
    h > hop \/ (h = hop /\ pc = "starting") =>
      /\ parser[h].st = "none" /\ parser[h].err = "none"
      /\ h \notin closed

\* The content clock of every parser Run has left is closed.
OpenParserIsCurrent ==
  \A h \in Hops \ closed : parser[h].st # "none" => h = hop /\ pc = "streaming"

\* Content that got past the content clock is of the hop Run stays at.
Holding(h) == h = hop /\ committed /\ pc \in {"streaming", "settling", "returned", "done"}
ContentIsCurrent ==
  /\ ~crashed => \A h \in Hops : parser[h].st = "emitting" => Holding(h)
  /\ \A h \in Heard({"text"}) : Holding(h)
CommittedFirst == \A h \in Hops : parser[h].st = "ticking" => committed

\* A parser that reports success has relayed a terminal frame.
NilIsTerminated ==
  /\ \A h \in Hops : parser[h].terminal \/ parser[h].err = "nil" => h \in Heard(Terminal)
  /\ pc = "settling" /\ ended = "ok" => hop \in Heard(Terminal)

WalkInv ==
  /\ TypeOK
  /\ HopIsReal /\ AheadIsUntouched
  /\ OpenParserIsCurrent /\ CommittedFirst /\ ContentIsCurrent
  /\ NilIsTerminated
  /\ LeasesSettled /\ SuccessIsTerminated

LEMMA Durations == /\ Hedge \in Nat /\ Budget \in Nat /\ Idle \in Nat
                   /\ MaxHops \in Nat /\ MaxFrames \in Nat
BY WalkAssumption

\* What one more relayed frame, and the router's own frames, change of what was
\* heard.
LEMMA HeardSent ==
  ASSUME TypeOK, NEW h \in Hops, NEW f \in Frame, out' = Sent(h, f), NEW kinds
  PROVE  /\ out' \in Seq((0 .. MaxHops) \X (Frame \cup RouterFrame))
         /\ Heard(kinds)' = IF f \in kinds THEN Heard(kinds) \cup {h} ELSE Heard(kinds)
<1> DEFINE S == (0 .. MaxHops) \X (Frame \cup RouterFrame)
<1>1. out \in Seq(S) /\ <<h, f>> \in S
  BY WalkAssumption DEF TypeOK, Hops
<1>2. /\ out' \in Seq(S) /\ Len(out') = Len(out) + 1
      /\ out'[Len(out) + 1] = <<h, f>> /\ \A i \in 1 .. Len(out) : out'[i] = out[i]
  BY <1>1, AppendProperties DEF Sent
<1>3. DOMAIN out = 1 .. Len(out) /\ DOMAIN out' = 1 .. Len(out) + 1 /\ Len(out) \in Nat
  BY <1>1, <1>2, LenProperties
<1>4. \A g \in Hops : g \in Heard(kinds)' <=> g \in Heard(kinds) \/ (g = h /\ f \in kinds)
  <2> SUFFICES ASSUME NEW g \in Hops
               PROVE  (\E i \in DOMAIN out' : out'[i][1] = g /\ out'[i][2] \in kinds) <=>
                        \/ \E i \in DOMAIN out : out[i][1] = g /\ out[i][2] \in kinds
                        \/ g = h /\ f \in kinds
    BY DEF Heard
  <2>1. DOMAIN out' = DOMAIN out \cup {Len(out) + 1}
    BY <1>3
  <2>2. <<h, f>>[1] = h /\ <<h, f>>[2] = f
    OBVIOUS
  <2> HIDE DEF S
  <2> QED BY <1>2, <1>3, <2>1, <2>2
<1> QED BY <1>2, <1>4 DEF Heard

LEMMA HeardAnswer ==
  ASSUME TypeOK, Answer, NEW kinds
  PROVE  /\ out' \in Seq((0 .. MaxHops) \X (Frame \cup RouterFrame))
         /\ Heard(kinds)' = Heard(kinds)
<1> DEFINE S == (0 .. MaxHops) \X (Frame \cup RouterFrame)
           end == <<<<0, "contentFilter">>, <<0, "done">>>>
<1>1. /\ out \in Seq(S) /\ <<0, "contentFilter">> \in S /\ <<0, "done">> \in S
      /\ <<0, "httpError">> \in S /\ end \in Seq(S) /\ Len(end) = 2
  BY WalkAssumption DEF TypeOK, RouterFrame
<1>2. CASE out' = out
  BY <1>1, <1>2 DEF Heard
<1>3. CASE out' = out \o end
  <2>1. /\ out' \in Seq(S) /\ Len(out') = Len(out) + 2
        /\ \A i \in 1 .. Len(out) : out'[i] = out[i]
        /\ \A i \in Len(out) + 1 .. Len(out) + 2 : out'[i] = end[i - Len(out)]
    BY <1>1, <1>3, ConcatProperties
  <2>2. DOMAIN out = 1 .. Len(out) /\ DOMAIN out' = 1 .. Len(out) + 2 /\ Len(out) \in Nat
    BY <1>1, <2>1, LenProperties
  <2>3. \A i \in Len(out) + 1 .. Len(out) + 2 : out'[i][1] = 0
    <3> SUFFICES ASSUME NEW i \in Len(out) + 1 .. Len(out) + 2 PROVE out'[i][1] = 0
      OBVIOUS
    <3>1. i - Len(out) = 1 \/ i - Len(out) = 2
      BY <2>2
    <3> QED BY <2>1, <3>1
  <2>4. \A h \in Hops : h \in Heard(kinds)' <=> h \in Heard(kinds)
    <3> SUFFICES ASSUME NEW h \in Hops
                 PROVE  (\E i \in DOMAIN out' : out'[i][1] = h /\ out'[i][2] \in kinds) <=>
                        (\E i \in DOMAIN out : out[i][1] = h /\ out[i][2] \in kinds)
      BY DEF Heard
    <3>1. h # 0
      BY DEF Hops
    <3>2. DOMAIN out' = DOMAIN out \cup (Len(out) + 1 .. Len(out) + 2)
      BY <2>2
    <3> HIDE DEF S, end
    <3> QED BY <2>1, <2>2, <2>3, <3>1, <3>2
  <2> QED BY <2>1, <2>4 DEF Heard
<1>4. CASE out = <<>> /\ out' = <<<<0, "httpError">>>>
  <2>1. Heard(kinds) = {} /\ Heard(kinds)' = {}
    BY <1>4 DEF Heard, Hops
  <2> QED BY <1>1, <1>4, <2>1
<1> QED BY <1>2, <1>3, <1>4 DEF Answer

LEMMA WalkInit == Init => WalkInv
<1> SUFFICES ASSUME Init PROVE WalkInv
  OBVIOUS
<1> USE WalkAssumption
<1>1. TypeOK
  <2>1. out \in Seq((0 .. MaxHops) \X (Frame \cup RouterFrame))
    BY EmptySeq DEF Init
  <2>2. parser \in [Hops -> Parser]
    BY DEF Init, NoParser, Parser, ParserState
  <2>3. pc \in {"loop", "returned"} /\ result \in {"none", "noEndpoints"} /\ hop \in 0 .. chain
    BY Durations DEF Init
  <2>4. clock \in 0 .. Budget /\ deadline \in 0 .. Budget /\ idleAt \in Nat /\ chain \in 0 .. MaxHops
    BY Durations DEF Init
  <2>5. gone \in BOOLEAN /\ committed \in BOOLEAN /\ crashed \in BOOLEAN
    BY DEF Init
  <2>6. /\ lease \in [Hops -> {"none", "refused", "held", "released", "stands"}]
        /\ outcome \in [Hops -> {"none", "success", "failure"}]
        /\ closed \subseteq Hops /\ ended = "no"
    BY DEF Init
  <2> QED BY <2>1, <2>2, <2>3, <2>4, <2>5, <2>6 DEF TypeOK
<1>2. \A kinds : Heard(kinds) = {}
  BY DEF Init, Heard
<1>3. \A h \in Hops : parser[h] = NoParser /\ lease[h] = "none" /\ h \notin closed
  BY DEF Init
<1>4. pc \notin Underway /\ (pc = "loop" => result = "none") /\ result \in {"none", "noEndpoints"}
  BY DEF Init, Underway
<1> QED
  BY <1>1, <1>2, <1>3, <1>4
  DEF WalkInv, HopIsReal, AheadIsUntouched, OpenParserIsCurrent, CommittedFirst, ContentIsCurrent,
      NilIsTerminated, LeasesSettled, SuccessIsTerminated, NoParser, Underway

\* Run's own steps.  They touch no parser and relay nothing; what has to be
\* shown is that Run never leaves a hop that holds content, and that leaving
\* one closes its channel.
LEMMA RunStepsKeep ==
  ASSUME WalkInv, RunAlone \/ StreamReturns \/ SettleHop
  PROVE  WalkInv'
<1> USE WalkAssumption DEF WalkInv, Hops
<1>0. UNCHANGED <<clock, gone, parserVars>> /\ ~crashed
  BY DEF RunAlone, StreamReturns, SettleHop
<1>1. \A kinds : Heard(kinds)' = Heard(kinds)
  BY <1>0 DEF Heard, parserVars
<1>2. CASE Exhaust
  <2>1. TypeOK'
    BY <1>0, <1>2, Durations DEF Exhaust, TypeOK, parserVars, HopIsReal, Underway
  <2>2. HopIsReal' /\ AheadIsUntouched' /\ OpenParserIsCurrent'
    BY <1>0, <1>2, <2>1
    DEF Exhaust, parserVars, HopIsReal, AheadIsUntouched, OpenParserIsCurrent, Underway, TypeOK
  <2>3. CommittedFirst' /\ ContentIsCurrent'
    BY <1>0, <1>1, <1>2, <2>1
    DEF Exhaust, parserVars, CommittedFirst, ContentIsCurrent, Holding, HopIsReal, Underway, TypeOK
  <2>4. NilIsTerminated' /\ SuccessIsTerminated'
    BY <1>0, <1>1, <1>2, <2>1
    DEF Exhaust, parserVars, NilIsTerminated, SuccessIsTerminated, HopIsReal, Underway, Terminal, TypeOK
  <2>5. LeasesSettled'
    BY <1>0, <1>2, <2>1 DEF Exhaust, LeasesSettled, HopIsReal, Underway, TypeOK
  <2> QED BY <2>1, <2>2, <2>3, <2>4, <2>5
<1>3. CASE SkipHop
  <2>1. TypeOK'
    BY <1>0, <1>3, Durations DEF SkipHop, TypeOK, parserVars, HopIsReal, Underway
  <2>2. HopIsReal' /\ AheadIsUntouched' /\ OpenParserIsCurrent'
    BY <1>0, <1>3, <2>1
    DEF SkipHop, parserVars, HopIsReal, AheadIsUntouched, OpenParserIsCurrent, Underway, TypeOK
  <2>3. CommittedFirst' /\ ContentIsCurrent'
    BY <1>0, <1>1, <1>3, <2>1
    DEF SkipHop, parserVars, CommittedFirst, ContentIsCurrent, Holding, HopIsReal, Underway, TypeOK
  <2>4. NilIsTerminated' /\ SuccessIsTerminated'
    BY <1>0, <1>1, <1>3, <2>1
    DEF SkipHop, parserVars, NilIsTerminated, SuccessIsTerminated, HopIsReal, Underway, Terminal, TypeOK
  <2>5. LeasesSettled'
    BY <1>0, <1>3, <2>1 DEF SkipHop, LeasesSettled, HopIsReal, Underway, TypeOK
  <2> QED BY <2>1, <2>2, <2>3, <2>4, <2>5
<1>4. CASE Attempt
  <2>1. TypeOK'
    BY <1>0, <1>4, Durations DEF Attempt, TypeOK, parserVars, HopIsReal, Underway
  <2>2. HopIsReal' /\ AheadIsUntouched' /\ OpenParserIsCurrent'
    BY <1>0, <1>4, <2>1
    DEF Attempt, parserVars, HopIsReal, AheadIsUntouched, OpenParserIsCurrent, Underway, TypeOK
  <2>3. CommittedFirst' /\ ContentIsCurrent'
    BY <1>0, <1>1, <1>4, <2>1
    DEF Attempt, parserVars, CommittedFirst, ContentIsCurrent, Holding, HopIsReal, Underway, TypeOK
  <2>4. NilIsTerminated' /\ SuccessIsTerminated'
    BY <1>0, <1>1, <1>4, <2>1
    DEF Attempt, parserVars, NilIsTerminated, SuccessIsTerminated, HopIsReal, Underway, Terminal, TypeOK
  <2>5. LeasesSettled'
    BY <1>0, <1>4, <2>1 DEF Attempt, LeasesSettled, HopIsReal, Underway, TypeOK
  <2> QED BY <2>1, <2>2, <2>3, <2>4, <2>5
<1>5. CASE StartFails
  <2>1. TypeOK'
    BY <1>0, <1>5, Durations DEF StartFails, TypeOK, parserVars, HopIsReal, Underway
  <2>2. HopIsReal' /\ AheadIsUntouched' /\ OpenParserIsCurrent'
    BY <1>0, <1>5, <2>1
    DEF StartFails, parserVars, HopIsReal, AheadIsUntouched, OpenParserIsCurrent, Underway, TypeOK
  <2>3. CommittedFirst' /\ ContentIsCurrent'
    BY <1>0, <1>1, <1>5, <2>1
    DEF StartFails, parserVars, CommittedFirst, ContentIsCurrent, Holding, HopIsReal, Underway, TypeOK
  <2>4. NilIsTerminated' /\ SuccessIsTerminated'
    BY <1>0, <1>1, <1>5, <2>1
    DEF StartFails, parserVars, NilIsTerminated, SuccessIsTerminated, HopIsReal, Underway, Terminal, TypeOK
  <2>5. LeasesSettled'
    BY <1>0, <1>5, <2>1 DEF StartFails, LeasesSettled, HopIsReal, Underway, TypeOK
  <2> QED BY <2>1, <2>2, <2>3, <2>4, <2>5
<1>6. CASE StreamReturns
  <2>1. TypeOK'
    BY <1>0, <1>6, Durations DEF StreamReturns, StreamArm, TypeOK, parserVars, HopIsReal, Underway
  <2>2. HopIsReal' /\ AheadIsUntouched' /\ OpenParserIsCurrent'
    BY <1>0, <1>6, <2>1
    DEF StreamReturns, StreamArm, parserVars, HopIsReal, AheadIsUntouched, OpenParserIsCurrent, Underway, TypeOK
  <2>3. CommittedFirst' /\ ContentIsCurrent'
    BY <1>0, <1>1, <1>6, <2>1
    DEF StreamReturns, StreamArm, parserVars, CommittedFirst, ContentIsCurrent, Holding, HopIsReal, Underway, TypeOK
  <2>4. NilIsTerminated' /\ SuccessIsTerminated'
    BY <1>0, <1>1, <1>6, <2>1
    DEF StreamReturns, StreamArm, parserVars, NilIsTerminated, SuccessIsTerminated, HopIsReal, Underway, Terminal, TypeOK
  <2>5. LeasesSettled'
    BY <1>0, <1>6, <2>1 DEF StreamReturns, StreamArm, LeasesSettled, HopIsReal, Underway, TypeOK
  <2> QED BY <2>1, <2>2, <2>3, <2>4, <2>5
<1>7. CASE SettleHop
  <2>1. TypeOK'
    BY <1>0, <1>7, Durations DEF SettleHop, Settle, TypeOK, parserVars, HopIsReal, Underway
  <2>2. HopIsReal' /\ AheadIsUntouched' /\ OpenParserIsCurrent'
    BY <1>0, <1>7, <2>1
    DEF SettleHop, Settle, parserVars, HopIsReal, AheadIsUntouched, OpenParserIsCurrent, Underway, TypeOK
  <2>3. CommittedFirst' /\ ContentIsCurrent'
    BY <1>0, <1>1, <1>7, <2>1
    DEF SettleHop, Settle, parserVars, CommittedFirst, ContentIsCurrent, Holding, HopIsReal, Underway, TypeOK
  <2>4. NilIsTerminated' /\ SuccessIsTerminated'
    BY <1>0, <1>1, <1>7, <2>1
    DEF SettleHop, Settle, parserVars, NilIsTerminated, SuccessIsTerminated, HopIsReal, Underway, Terminal, TypeOK
  <2>5. LeasesSettled'
    BY <1>0, <1>7, <2>1 DEF SettleHop, Settle, LeasesSettled, HopIsReal, Underway, TypeOK
  <2> QED BY <2>1, <2>2, <2>3, <2>4, <2>5
<1> QED BY <1>2, <1>3, <1>4, <1>5, <1>6, <1>7 DEF RunAlone

\* A hop is accepted: its parser is the first to run with an open channel.
LEMMA AcceptedKeeps == ASSUME WalkInv, StartAccepted PROVE WalkInv'
<1> USE DEF WalkInv, Hops, StartAccepted
<1>1. \A kinds : Heard(kinds)' = Heard(kinds)
  BY DEF Heard
<1>2. hop \in Hops /\ parser[hop] \in Parser
  BY DEF TypeOK, HopIsReal, Underway
<1>3. parser' \in [Hops -> Parser] /\ idleAt' \in Nat
  <2>1. [parser[hop] EXCEPT !.st = "reading"] \in Parser
    BY <1>2 DEF Parser, ParserState
  <2> QED BY <1>2, <2>1, Durations DEF TypeOK
<1>4. /\ parser'[hop].st = "reading" /\ parser'[hop].err = "none"
      /\ parser'[hop].terminal = parser[hop].terminal
      /\ \A h \in Hops \ {hop} : parser'[h] = parser[h]
  BY <1>2 DEF TypeOK, Parser, AheadIsUntouched
<1>5. TypeOK'
  BY <1>3 DEF TypeOK
<1>6. HopIsReal' /\ AheadIsUntouched'
  BY <1>2, <1>4 DEF TypeOK, HopIsReal, AheadIsUntouched, Underway
<1>7. OpenParserIsCurrent' /\ CommittedFirst' /\ ContentIsCurrent'
  BY <1>1, <1>2, <1>4
  DEF TypeOK, OpenParserIsCurrent, CommittedFirst, ContentIsCurrent, Holding
<1>8. NilIsTerminated' /\ SuccessIsTerminated' /\ LeasesSettled'
  BY <1>1, <1>2, <1>4, Zenon DEF NilIsTerminated, SuccessIsTerminated, LeasesSettled, HopIsReal, Underway
<1> QED BY <1>5, <1>6, <1>7, <1>8

\* The handler's answer adds only frames of the router's own.
LEMMA AnswerKeeps == ASSUME WalkInv, Answer PROVE WalkInv'
<1> USE DEF WalkInv
<1>1. \A kinds : Heard(kinds)' = Heard(kinds)
  BY HeardAnswer
<1>2. TypeOK'
  BY HeardAnswer DEF Answer, TypeOK
<1> QED
  BY <1>1, <1>2
  DEF Answer, HopIsReal, AheadIsUntouched, OpenParserIsCurrent, CommittedFirst, ContentIsCurrent,
      Holding, NilIsTerminated, LeasesSettled, SuccessIsTerminated, Underway, TypeOK

\* What a parser that has started may do, whether Run is waiting for it or has
\* left its hop: set the flag, get past the content clock only where that is
\* open, relay content only from there, and claim success only after a terminal
\* frame.  Every parser that keeps to this keeps the invariant.
LEMMA ParserChange ==
  ASSUME WalkInv, NEW h \in Hops, parser[h].st # "none", ~crashed,
         UNCHANGED <<clock, gone, runVars>>,
         NEW p \in Parser, p.st # "none", parser' = [parser EXCEPT ![h] = p],
         idleAt' \in Nat, committed' \in BOOLEAN, crashed' \in BOOLEAN,
         committed => committed',
         out' = out \/ \E f \in Frame : out' = Sent(h, f) /\ (f = "text" => parser[h].st = "emitting"),
         p.st = "ticking" => committed',
         p.st = "emitting" /\ ~crashed' => h \notin closed /\ committed',
         p.terminal \/ p.err = "nil" =>
           \/ parser[h].terminal \/ parser[h].err = "nil"
           \/ \E f \in Terminal : out' = Sent(h, f)
  PROVE  WalkInv'
<1> USE DEF WalkInv
<1>1. /\ parser' \in [Hops -> Parser] /\ parser'[h] = p
      /\ \A g \in Hops \ {h} : parser'[g] = parser[g]
  BY DEF TypeOK
<1>2. /\ out' \in Seq((0 .. MaxHops) \X (Frame \cup RouterFrame))
      /\ \A kinds : Heard(kinds) \subseteq Heard(kinds)'
  <2>1. CASE out' = out
    BY <2>1 DEF TypeOK, Heard
  <2>2. CASE \E f \in Frame : out' = Sent(h, f)
    BY <2>2, HeardSent
  <2> QED BY <2>1, <2>2
<1>3. TypeOK'
  BY <1>1, <1>2 DEF TypeOK, runVars
<1>4. HopIsReal' /\ AheadIsUntouched' /\ OpenParserIsCurrent' /\ LeasesSettled'
  BY <1>1 DEF runVars, HopIsReal, AheadIsUntouched, OpenParserIsCurrent, LeasesSettled
<1>5. CommittedFirst'
  BY <1>1 DEF CommittedFirst
<1>6. ContentIsCurrent'
  <2>1. \A g \in Heard({"text"})' : g \in Heard({"text"}) \/ (g = h /\ parser[h].st = "emitting")
    <3>1. CASE out' = out
      BY <3>1 DEF Heard
    <3>2. CASE \E f \in Frame : out' = Sent(h, f) /\ (f = "text" => parser[h].st = "emitting")
      BY <3>2, HeardSent
    <3> QED BY <3>1, <3>2
  <2>2. \A g \in Hops : Holding(g) => Holding(g)'
    BY DEF Holding, runVars
  <2>3. p.st = "emitting" /\ ~crashed' => Holding(h)'
    BY DEF OpenParserIsCurrent, Holding, runVars
  <2>4. \A g \in Heard({"text"})' : Holding(g)'
    BY <2>1, <2>2 DEF ContentIsCurrent, Heard
  <2>5. ~crashed' => \A g \in Hops : parser'[g].st = "emitting" => Holding(g)'
    BY <1>1, <2>2, <2>3 DEF ContentIsCurrent
  <2> QED BY <2>4, <2>5 DEF ContentIsCurrent
<1>7. NilIsTerminated' /\ SuccessIsTerminated'
  <2>1. p.terminal \/ p.err = "nil" => h \in Heard(Terminal)'
    <3>1. CASE \E f \in Terminal : out' = Sent(h, f)
      BY <3>1, HeardSent DEF Terminal, Frame
    <3>2. CASE parser[h].terminal \/ parser[h].err = "nil"
      BY <1>2, <3>2 DEF NilIsTerminated
    <3> QED BY <3>1, <3>2
  <2>2. \A g \in Hops : parser'[g].terminal \/ parser'[g].err = "nil" => g \in Heard(Terminal)'
    BY <1>1, <1>2, <2>1 DEF NilIsTerminated
  <2> QED
    BY <1>2, <2>2 DEF NilIsTerminated, SuccessIsTerminated, runVars, Terminal
<1> QED BY <1>3, <1>4, <1>5, <1>6, <1>7

LEMMA ParserStepsKeep == ASSUME WalkInv, NEW h \in Hops, Parse(h) PROVE WalkInv'
<1> DEFINE q == parser[h]
<1>0. /\ UNCHANGED <<clock, gone, runVars>> /\ ~crashed /\ TypeOK /\ q \in Parser
      /\ parser \in [Hops -> Parser] /\ clock \in Nat
  BY Durations DEF Parse, TypeOK, WalkInv
<1> DEFINE Plus == q.frames + 1
<1>a. Read(h) => Plus \in 0 .. MaxFrames /\ q.st = "reading" /\ UNCHANGED <<idleAt, crashed>>
  BY <1>0, Durations DEF Read, Parser
<1>b. idleAt \in Nat /\ committed \in BOOLEAN /\ crashed \in BOOLEAN
  BY <1>0 DEF TypeOK
<1>1. CASE Read(h) /\ \E f \in Sends : ReadPlain(h, f)
  <2>1. PICK f \in Sends : ReadPlain(h, f)
    BY <1>1
  <2> DEFINE t == q.terminal \/ f \in {"finish", "textFinish"}
             p == [q EXCEPT !.frames = Plus, !.terminal = t]
  <2>2. f \in Frame \ {"text"} /\ parser' = [parser EXCEPT ![h] = p]
    BY <1>0, <2>1 DEF ReadPlain, Frame
  <2>3. t \in BOOLEAN /\ (t => q.terminal \/ f \in Terminal)
    BY <1>0 DEF Parser, Terminal
  <2> HIDE DEF t
  <2>4. p \in Parser /\ p.st = "reading" /\ p.err = q.err /\ p.terminal = t
    BY <1>0, <1>1, <1>a, <2>3 DEF Parser, ParserState
  <2>5. out' = Sent(h, f) /\ committed' = committed
    BY <2>1 DEF ReadPlain
  <2> HIDE DEF p, q
  <2> QED BY <1>0, <1>1, <1>a, <1>b, <2>2, <2>3, <2>4, <2>5, ParserChange DEF q
<1>2. CASE Read(h) /\ ReadDone(h)
  <2> DEFINE p == [q EXCEPT !.frames = Plus, !.terminal = TRUE, !.st = "ended", !.err = "nil"]
  <2>1. p \in Parser /\ p.st = "ended"
    BY <1>0, <1>2, <1>a DEF Parser, ParserState
  <2>2. /\ parser' = [parser EXCEPT ![h] = p] /\ committed' = committed
        /\ out' = Sent(h, "done") /\ "done" \in Frame /\ "done" \in Terminal
    BY <1>0, <1>2 DEF ReadDone, Frame, Terminal, Parser
  <2> HIDE DEF p, q
  <2> QED BY <1>0, <1>2, <1>a, <1>b, <2>1, <2>2, ParserChange DEF q
<1>3. CASE Read(h) /\ ReadText(h)
  <2> DEFINE p == [q EXCEPT !.frames = Plus, !.st = "ticking"]
  <2>1. p \in Parser /\ p.st = "ticking" /\ p.terminal = q.terminal /\ p.err = q.err
    BY <1>0, <1>3, <1>a DEF Parser, ParserState
  <2>2. parser' = [parser EXCEPT ![h] = p] /\ committed' = TRUE /\ out' = out
    BY <1>0, <1>3 DEF ReadText, Parser
  <2> HIDE DEF p, q
  <2> QED BY <1>0, <1>3, <1>a, <1>b, <2>1, <2>2, ParserChange DEF q
<1>4. CASE TickIdle(h)
  <2> DEFINE p == [q EXCEPT !.st = "emitting"]
  <2>1. /\ p \in Parser /\ p.st = "emitting" /\ p.terminal = q.terminal /\ p.err = q.err
        /\ parser' = [parser EXCEPT ![h] = p]
    BY <1>0, <1>4 DEF TickIdle, Parser, ParserState
  <2>2. committed /\ idleAt' \in Nat
    BY <1>0, <1>4, Durations DEF TickIdle, TypeOK, WalkInv, CommittedFirst
  <2>3. /\ committed' = committed /\ out' = out /\ q.st = "ticking"
        /\ crashed' \in BOOLEAN /\ (crashed' <=> h \in closed)
    BY <1>4 DEF TickIdle
  <2> HIDE DEF p, q
  <2> QED BY <1>0, <1>b, <2>1, <2>2, <2>3, ParserChange DEF q
<1>5. CASE EmitText(h)
  <2> DEFINE p == [q EXCEPT !.st = "reading"]
  <2>1. /\ p \in Parser /\ p.st = "reading" /\ p.terminal = q.terminal /\ p.err = q.err
        /\ parser' = [parser EXCEPT ![h] = p]
    BY <1>0, <1>5 DEF EmitText, Parser, ParserState
  <2>2. /\ out' = Sent(h, "text") /\ "text" \in Frame /\ q.st = "emitting"
        /\ UNCHANGED <<idleAt, committed, crashed>>
    BY <1>5 DEF EmitText, Frame
  <2> HIDE DEF p, q
  <2> QED BY <1>0, <1>b, <2>1, <2>2, ParserChange DEF q
<1>6. CASE ReadEnds(h)
  <2>1. PICK e \in {EofErr(h), "error"} :
               parser' = [parser EXCEPT ![h] = [@ EXCEPT !.st = "ended", !.err = e]]
    BY <1>6 DEF ReadEnds
  <2> DEFINE p == [q EXCEPT !.st = "ended", !.err = e]
  <2>2. /\ p \in Parser /\ p.st = "ended" /\ p.terminal = q.terminal
        /\ (p.err = "nil" => q.terminal) /\ parser' = [parser EXCEPT ![h] = p]
    BY <1>0, <2>1 DEF EofErr, Parser, ParserState
  <2>3. q.st = "reading" /\ UNCHANGED <<out, idleAt, committed, crashed>>
    BY <1>6 DEF ReadEnds
  <2> HIDE DEF p, q
  <2> QED BY <1>0, <1>b, <2>2, <2>3, ParserChange DEF q
<1> QED BY <1>1, <1>2, <1>3, <1>4, <1>5, <1>6 DEF Parse, Read

LEMMA WalkStep == WalkInv /\ [Next]_vars => WalkInv'
<1> SUFFICES ASSUME WalkInv, [Next]_vars PROVE WalkInv'
  OBVIOUS
<1>1. CASE RunStep
  BY <1>1, RunStepsKeep, AcceptedKeeps, AnswerKeeps DEF RunStep
<1>2. CASE \E h \in Hops : Parse(h)
  BY <1>2, ParserStepsKeep
<1>3. CASE Advance \/ ClientGoes \/ UNCHANGED vars
  <2>1. UNCHANGED <<runVars, parserVars>>
    BY <1>3 DEF Advance, ClientGoes, vars, runVars, parserVars
  <2>0. clock' \in 0 .. Budget /\ gone' \in BOOLEAN
    <3>1. clock \in 0 .. Budget /\ gone \in BOOLEAN
      BY DEF WalkInv, TypeOK
    <3>2. gone' \in {gone, TRUE}
      BY <1>3 DEF Advance, ClientGoes, vars
    <3>3. clock' = clock \/ (clock < Budget /\ clock' = clock + 1)
      BY <1>3 DEF Advance, ClientGoes, vars
    <3>4. clock' \in 0 .. Budget
      BY <3>1, <3>3, Durations
    <3> QED BY <3>1, <3>2, <3>4
  <2>2. \A kinds : Heard(kinds)' = Heard(kinds)
    BY <2>1 DEF Heard, parserVars
  <2> QED
    BY <2>0, <2>1, <2>2
    DEF runVars, parserVars, WalkInv, TypeOK, HopIsReal, AheadIsUntouched, OpenParserIsCurrent,
        CommittedFirst, ContentIsCurrent, Holding, NilIsTerminated, LeasesSettled, SuccessIsTerminated
<1> QED BY <1>1, <1>2, <1>3 DEF Next

\* The inductive invariant of the walk: Run's hop, the parsers behind it, what
\* they relayed and the leases are tied together at every interleaving.
THEOREM WalkInvariant == Spec => []WalkInv
BY WalkInit, WalkStep, PTL DEF Spec

\* The content the client receives is one provider's, for any chain, any
\* timing and any late parser.
THEOREM WalkOneProvider == Spec => []OneProviderOfContent
<1>1. WalkInv => OneProviderOfContent
  <2> SUFFICES ASSUME WalkInv PROVE Cardinality(Heard({"text"})) <= 1
    BY DEF OneProviderOfContent
  <2>1. Heard({"text"}) \subseteq {hop}
    BY DEF WalkInv, ContentIsCurrent, Holding
  <2>2. IsFiniteSet({hop}) /\ Cardinality({hop}) = 1
    BY FS_Singleton
  <2> QED BY <2>1, <2>2, FS_Subset
<1> QED BY <1>1, WalkInvariant, PTL

\* Every lease is settled when Run returns, and one at most is ever held.
THEOREM WalkLeases == Spec => []LeasesSettled
<1>1. WalkInv => LeasesSettled
  BY DEF WalkInv
<1> QED BY <1>1, WalkInvariant, PTL

\* No truncated stream is answered as a success.
THEOREM WalkSuccess == Spec => []SuccessIsTerminated
<1>1. WalkInv => SuccessIsTerminated
  BY DEF WalkInv
<1> QED BY <1>1, WalkInvariant, PTL

===============================================================================
