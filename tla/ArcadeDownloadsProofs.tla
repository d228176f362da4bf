------------------------ MODULE ArcadeDownloadsProofs ------------------------
(***************************************************************************)
(* For any number of systems, operators, retries, lost calls, failed       *)
(* writes and restarts: a run recorded ok has its download in the daemon's *)
(* queue until that is removed, and an upload that was confirmed is at its *)
(* path, whole, until it is removed.                                       *)
(*                                                                         *)
(* Neither property is inductive.  A success is recorded from an answer    *)
(* that is read some time after the daemon gave it, so the invariant has   *)
(* to follow the download from the run through the request and its calls   *)
(* to the queue; and a stored file stays whole because the only request    *)
(* that could still write to it is the one that created it, and that one   *)
(* has not finished.                                                       *)
(***************************************************************************)
EXTENDS ArcadeDownloads, TLAPS

\* A request that is under way has a number, and no other has the same one.
Numbered == \A o \in Operators : req[o].pc # "idle" => req[o].n \in 1 .. started
NumbersDiffer ==
  \A o, p \in Operators :
    req[o].pc # "idle" /\ req[p].pc # "idle" /\ req[o].n = req[p].n => o = p

\* A request that writes still finds its file incomplete, if it is there; one
\* that is done writing finds it whole.
Uploading(o) ==
  LET f == staged[req[o].sys] IN
  f.by = req[o].n =>
    /\ req[o].pc = "write" => f.len < Chunks
    /\ req[o].pc = "stored" => f.len = Chunks

\* A request that submits has a run, for the very download it asks for.
Submitting == {"read", "send", "await", "settle"}
RowsOpened ==
  \A o \in Operators :
    req[o].pc \in Submitting => runs[req[o].n].of = {<<req[o].sys, req[o].what>>}

\* A call on the wire asks for what its request asks for.
CallOf(m, r) == m.n = r.n /\ m.sys = r.sys /\ m.what = r.what
CallsKnown ==
  \A m \in wire :
    /\ m.n \in 1 .. started
    /\ \A o \in Operators : req[o].pc # "idle" /\ req[o].n = m.n => CallOf(m, req[o])

\* Behind an answer of success there is a download, unless it was removed since.
AnswersEarned ==
  \A o \in Operators :
    req[o].pc = "settle" /\ Succeeded(req[o].answer) =>
      <<req[o].sys, req[o].what>> \in queue \/ req[o].n \in removed

DownloadsInv ==
  /\ TypeOK
  /\ Numbered /\ NumbersDiffer
  /\ \A o \in Operators : Uploading(o)
  /\ RowsOpened /\ CallsKnown /\ AnswersEarned
  /\ OkMeansLanded
  /\ StagedStays

\* The bounds are numbers, and an upload takes at least one write.
LEMMA Bounds ==
  /\ SubmitRetries \in Nat /\ MaxRequests \in Nat /\ MaxFaults \in Nat /\ MaxKills \in Nat
  /\ Chunks \in Nat /\ Chunks > 0
BY DownloadsAssumption


\* What an idle request looks like.
LEMMA IdleTyping == Idle \in Request /\ Idle.pc = "idle" /\ Idle.n = 0
<1>1. Idle.sys \in Systems
  BY DownloadsAssumption DEF Idle
<1>2. Idle.pc = "idle" /\ Idle.n = 0 /\ Idle.what = "torrent" /\ Idle.whole = FALSE /\ Idle.at = 0
      /\ Idle.answer = "none"
  BY DEF Idle
<1>3. Idle = [pc |-> Idle.pc, n |-> Idle.n, sys |-> Idle.sys, what |-> Idle.what,
              whole |-> Idle.whole, at |-> Idle.at, answer |-> Idle.answer]
  BY DEF Idle
<1>4. 0 \in 0 .. MaxRequests /\ 0 \in 0 .. SubmitRetries /\ "torrent" \in Whats /\ FALSE \in BOOLEAN
  BY Bounds DEF Whats
<1> QED BY <1>1, <1>2, <1>3, <1>4 DEF Request

\* It holds when the webapp first starts: no file, no run, nobody waiting.
LEMMA Initially == Init => DownloadsInv
<1> SUFFICES ASSUME Init PROVE DownloadsInv
  OBVIOUS
<1> USE IdleTyping, Bounds
<1>1. TypeOK
  <2>1. staged \in [Systems -> File]
    BY DEF Init, File, NoFile
  <2>2. runs \in [1 .. MaxRequests -> Row]
    BY DEF Init, Row, NoRun
  <2>3. req \in [Operators -> Request]
    BY DEF Init
  <2>4. stored \in [Systems -> 0 .. MaxRequests]
    BY DEF Init
  <2> QED BY <2>1, <2>2, <2>3, <2>4 DEF Init, TypeOK
<1>2. Numbered /\ NumbersDiffer /\ RowsOpened /\ CallsKnown /\ AnswersEarned
  BY DEF Init, Numbered, NumbersDiffer, RowsOpened, Submitting, CallsKnown, AnswersEarned
<1>3. ASSUME NEW o \in Operators PROVE Uploading(o)
  BY DEF Init, Uploading
<1>4. OkMeansLanded /\ StagedStays
  BY DEF Init, OkMeansLanded, StagedStays, NoRun
<1> QED BY <1>1, <1>2, <1>3, <1>4 DEF DownloadsInv

\* What a request is, field by field.
LEMMA RequestFields ==
  ASSUME NEW r \in Request
  PROVE  /\ r.pc \in {"idle", "open", "write", "stored", "read", "send", "await", "settle"}
         /\ r.n \in 0 .. MaxRequests /\ r.sys \in Systems /\ r.what \in Whats
         /\ r.whole \in BOOLEAN /\ r.at \in 0 .. SubmitRetries
         /\ r.answer \in {"none", "local", "transport", "gid", "registered", "refused"}
BY DEF Request

\* What a step makes of a request: it goes on, ends, or begins under the next number.
GoesOn(o, v) == /\ started' = started /\ req[o].pc # "idle"
                /\ v.n = req[o].n /\ v.sys = req[o].sys /\ v.what = req[o].what
Ends(v) == started' = started /\ v.pc = "idle"
Begun(v) == started < MaxRequests /\ started' = started + 1 /\ v.n = started'

\* Whatever a request goes on to be, short of a success, the accounts of
\* numbers, calls and answers hold.
LEMMA RequestStep ==
  ASSUME DownloadsInv, NEW o \in Operators, NEW v \in Request,
         req' = [req EXCEPT ![o] = v], Ends(v) \/ GoesOn(o, v) \/ Begun(v),
         UNCHANGED <<queue, removed>>,
         \A m \in wire' : m \in wire \/ (v.pc # "idle" /\ CallOf(m, v)),
         v.pc = "settle" => ~Succeeded(v.answer)
  PROVE  /\ req' \in [Operators -> Request] /\ started' \in 0 .. MaxRequests
         /\ req'[o] = v /\ \A p \in Operators : p # o => req'[p] = req[p]
         /\ Numbered' /\ NumbersDiffer' /\ CallsKnown' /\ AnswersEarned'
<1>1. req \in [Operators -> Request] /\ started \in 0 .. MaxRequests
  BY DEF DownloadsInv, TypeOK
<1>2. \A p \in Operators : req[p].n \in 0 .. MaxRequests
  BY <1>1, RequestFields
<1>3. /\ req' \in [Operators -> Request] /\ req'[o] = v
      /\ \A p \in Operators : p # o => req'[p] = req[p]
  BY <1>1
<1>4. Numbered'
  BY <1>1, <1>3, Bounds DEF Numbered, DownloadsInv, GoesOn, Ends, Begun
<1>5. NumbersDiffer'
  BY <1>1, <1>2, <1>3, Bounds DEF Numbered, NumbersDiffer, DownloadsInv, GoesOn, Ends, Begun
<1>6. AnswersEarned'
  BY <1>3 DEF AnswersEarned, DownloadsInv
<1>7. started' \in 0 .. MaxRequests
  BY <1>1, Bounds DEF GoesOn, Ends, Begun
<1>8. ASSUME NEW m \in wire'
      PROVE  /\ m.n \in 1 .. started'
             /\ \A p \in Operators : req'[p].pc # "idle" /\ req'[p].n = m.n => CallOf(m, req'[p])
  <2>1. CASE m \in wire
    <3>1. /\ m.n \in 1 .. started
          /\ \A p \in Operators : req[p].pc # "idle" /\ req[p].n = m.n => CallOf(m, req[p])
      BY <2>1 DEF DownloadsInv, CallsKnown
    <3>2. v.pc # "idle" /\ v.n = m.n => CallOf(m, v)
      BY <1>1, <3>1, Bounds DEF GoesOn, Ends, Begun, CallOf
    <3> QED BY <1>1, <1>3, <3>1, <3>2, Bounds DEF GoesOn, Ends, Begun
  <2>2. CASE v.pc # "idle" /\ CallOf(m, v)
    <3>1. m.n \in 1 .. started'
      BY <1>3, <1>4, <2>2 DEF Numbered, CallOf
    <3>2. ASSUME NEW p \in Operators, req'[p].pc # "idle", req'[p].n = m.n
          PROVE  CallOf(m, req'[p])
      BY <1>3, <1>5, <2>2, <3>2 DEF NumbersDiffer, CallOf
    <3> QED BY <3>1, <3>2
  <2> QED BY <2>1, <2>2
<1>9. CallsKnown'
  BY <1>8 DEF CallsKnown
<1> QED BY <1>3, <1>4, <1>5, <1>6, <1>7, <1>9

\* While the staged files stay as they are, and no request begins to write, the
\* accounts of files hold.
LEMMA FilesKept ==
  ASSUME DownloadsInv, UNCHANGED <<staged, stored>>,
         \A p \in Operators : \/ req'[p] = req[p]
                              \/ req'[p].pc \notin {"write", "stored"}
  PROVE  /\ staged' \in [Systems -> File] /\ stored' \in [Systems -> 0 .. MaxRequests]
         /\ \A p \in Operators : Uploading(p)'
         /\ StagedStays'
<1>1. /\ staged' \in [Systems -> File] /\ stored' \in [Systems -> 0 .. MaxRequests]
      /\ StagedStays'
  BY DEF DownloadsInv, TypeOK, StagedStays
<1>2. ASSUME NEW p \in Operators PROVE Uploading(p)'
  BY DEF DownloadsInv, Uploading
<1> QED BY <1>1, <1>2

\* While no run changes and only those submit who did before, the accounts of
\* runs hold.
LEMMA RunsKept ==
  ASSUME DownloadsInv, NEW o \in Operators, NEW v \in Request,
         req' = [req EXCEPT ![o] = v], UNCHANGED <<runs, queue, removed>>,
         v.pc \in Submitting => GoesOn(o, v) /\ req[o].pc \in Submitting
  PROVE  runs' \in [1 .. MaxRequests -> Row] /\ RowsOpened' /\ OkMeansLanded'
<1>1. runs' \in [1 .. MaxRequests -> Row] /\ OkMeansLanded'
  BY DEF DownloadsInv, TypeOK, OkMeansLanded
<1>2. RowsOpened'
  BY DEF DownloadsInv, TypeOK, RowsOpened, GoesOn
<1> QED BY <1>1, <1>2

\* A run of no other request is opened or closed; as ok, only if it landed.
Writes(o, v, n, row) ==
  /\ runs' = [runs EXCEPT ![n] = row]
  /\ \A p \in Operators : p # o /\ req[p].pc # "idle" => req[p].n # n
  /\ v.pc \in Submitting => v.n = n /\ row.of = {<<v.sys, v.what>>}
  /\ row.st = "ok" => row.of \subseteq queue \/ n \in removed

LEMMA RunWritten ==
  ASSUME DownloadsInv, NEW o \in Operators, NEW v \in Request,
         req' = [req EXCEPT ![o] = v], UNCHANGED <<queue, removed>>,
         NEW n \in 1 .. MaxRequests, NEW row \in Row, Writes(o, v, n, row)
  PROVE  runs' \in [1 .. MaxRequests -> Row] /\ RowsOpened' /\ OkMeansLanded'
<1> USE DEF Writes
<1>1. runs \in [1 .. MaxRequests -> Row] /\ req \in [Operators -> Request]
  BY DEF DownloadsInv, TypeOK
<1>2. runs' \in [1 .. MaxRequests -> Row] /\ OkMeansLanded'
  BY <1>1 DEF DownloadsInv, OkMeansLanded
<1>3. ASSUME NEW p \in Operators, req'[p].pc \in Submitting
      PROVE  runs'[req'[p].n].of = {<<req'[p].sys, req'[p].what>>}
  <2>1. CASE p = o
    BY <1>1, <1>3, <2>1
  <2>2. CASE p # o
    <3>1. req'[p] = req[p] /\ req[p].pc # "idle" /\ req[p].n # n
      BY <1>1, <1>3, <2>2 DEF Submitting
    <3>2. runs[req[p].n].of = {<<req[p].sys, req[p].what>>}
      BY <1>3, <3>1 DEF DownloadsInv, RowsOpened
    <3> QED BY <1>1, <3>1, <3>2
  <2> QED BY <2>1, <2>2
<1>4. RowsOpened'
  BY <1>3 DEF RowsOpened
<1> QED BY <1>2, <1>4

\* The number of a request that begins is nobody else's yet, and that of one
\* that goes on nobody else's any more.
LEMMA OwnNumber ==
  ASSUME DownloadsInv, NEW o \in Operators, NEW n,
         \/ n = started + 1
         \/ req[o].pc # "idle" /\ n = req[o].n
  PROVE  \A p \in Operators : p # o /\ req[p].pc # "idle" => req[p].n # n
<1>1. started \in 0 .. MaxRequests
  BY DEF DownloadsInv, TypeOK
<1> QED BY <1>1, Bounds DEF DownloadsInv, Numbered, NumbersDiffer

\* Most steps move one request on without touching a file or winning an answer.
LEMMA QuietStep ==
  ASSUME DownloadsInv, NEW o \in Operators, NEW v \in Request,
         req' = [req EXCEPT ![o] = v], UNCHANGED <<staged, stored, queue, removed>>,
         v.pc \notin {"write", "stored"}, v.pc = "settle" => ~Succeeded(v.answer),
         Ends(v) \/ GoesOn(o, v) \/ Begun(v),
         \/ UNCHANGED runs /\ (v.pc \in Submitting => GoesOn(o, v) /\ req[o].pc \in Submitting)
         \/ Begun(v) /\ runs' = [runs EXCEPT ![v.n] = [of |-> {<<v.sys, v.what>>}, st |-> "running"]],
         wire' \subseteq Call,
         \A m \in wire' : m \in wire \/ (v.pc # "idle" /\ CallOf(m, v)),
         faults' \in 0 .. MaxFaults, kills' \in 0 .. MaxKills
  PROVE  DownloadsInv'
<1>1. /\ req' \in [Operators -> Request] /\ started' \in 0 .. MaxRequests
      /\ req'[o] = v /\ \A p \in Operators : p # o => req'[p] = req[p]
      /\ Numbered' /\ NumbersDiffer' /\ CallsKnown' /\ AnswersEarned'
  BY RequestStep
<1>2. /\ staged' \in [Systems -> File] /\ stored' \in [Systems -> 0 .. MaxRequests]
      /\ (\A p \in Operators : Uploading(p))' /\ StagedStays'
  BY <1>1, FilesKept
<1>3. runs' \in [1 .. MaxRequests -> Row] /\ RowsOpened' /\ OkMeansLanded'
  <2>1. CASE UNCHANGED runs /\ (v.pc \in Submitting => GoesOn(o, v) /\ req[o].pc \in Submitting)
    BY <2>1, RunsKept
  <2>2. CASE Begun(v) /\ runs' = [runs EXCEPT ![v.n] = [of |-> {<<v.sys, v.what>>}, st |-> "running"]]
    <3> DEFINE row == [of |-> {<<v.sys, v.what>>}, st |-> "running"]
    <3>1. v.n \in 1 .. MaxRequests /\ v.n = started + 1
      BY <2>2, Bounds DEF Begun, DownloadsInv, TypeOK
    <3>2. row \in Row
      BY RequestFields DEF Row, Downloads
    <3>3. row.of = {<<v.sys, v.what>>} /\ row.st # "ok" /\ runs' = [runs EXCEPT ![v.n] = row]
      BY <2>2
    <3>4. \A p \in Operators : p # o /\ req[p].pc # "idle" => req[p].n # v.n
      BY <3>1, OwnNumber
    <3>5. Writes(o, v, v.n, row)
      <4> HIDE DEF row
      <4> QED BY <3>3, <3>4 DEF Writes
    <3> HIDE DEF row
    <3> QED BY <3>1, <3>2, <3>5, RunWritten
  <2> QED BY <2>1, <2>2
<1>4. queue' \subseteq Downloads /\ removed' \subseteq 1 .. MaxRequests
  BY DEF DownloadsInv, TypeOK
<1> QED BY <1>1, <1>2, <1>3, <1>4 DEF DownloadsInv, TypeOK

\* The quiet steps, one lemma per action: what the request becomes, and why it
\* is a request that neither writes nor succeeds.
LEMMA WriteFailsKept ==
  ASSUME DownloadsInv, NEW o \in Operators, WriteFails(o)
  PROVE  DownloadsInv'
<1> DEFINE v == Idle
<1> USE Bounds, IdleTyping DEF WriteFails, Fault
<1>1. req[o] \in Request /\ req \in [Operators -> Request] /\ started \in 0 .. MaxRequests
  BY DEF DownloadsInv, TypeOK
<1>2. v \in Request
  BY <1>1 DEF Request
<1>3. req' = [req EXCEPT ![o] = v]
  BY <1>1 DEF Request
<1>4. v.pc \notin {"write", "stored"} /\ (v.pc = "settle" => ~Succeeded(v.answer))
  BY <1>1 DEF Request, Succeeded
<1>5. Ends(v) /\ UNCHANGED runs /\ v.pc \notin Submitting
  BY DEF Ends, Submitting
<1>6. /\ wire' \subseteq Call
      /\ \A m \in wire' : m \in wire \/ (v.pc # "idle" /\ CallOf(m, v))
      /\ faults' \in 0 .. MaxFaults /\ kills' \in 0 .. MaxKills
  BY <1>1 DEF DownloadsInv, TypeOK
<1> HIDE DEF v
<1> QED BY <1>2, <1>3, <1>4, <1>5, <1>6, QuietStep

LEMMA CallFailsKept ==
  ASSUME DownloadsInv, NEW o \in Operators, CallFails(o)
  PROVE  DownloadsInv'
<1> DEFINE v == IF req[o].at < SubmitRetries THEN [req[o] EXCEPT !.pc = "send", !.at = @ + 1]
              ELSE [req[o] EXCEPT !.pc = "settle", !.answer = "transport"]
<1> USE Bounds, IdleTyping DEF CallFails, TryAgain, Fault
<1>1. req[o] \in Request /\ req \in [Operators -> Request] /\ started \in 0 .. MaxRequests
  BY DEF DownloadsInv, TypeOK
<1>2. v \in Request
  <2>1. req[o].at < SubmitRetries => req[o].at + 1 \in 0 .. SubmitRetries
    BY <1>1, RequestFields
  <2>2. CASE req[o].at < SubmitRetries
    BY <1>1, <2>1, <2>2 DEF Request
  <2>3. CASE ~(req[o].at < SubmitRetries)
    BY <1>1, <2>3 DEF Request
  <2> QED BY <2>2, <2>3
<1>3. req' = [req EXCEPT ![o] = v]
  BY <1>1 DEF Request
<1>4. v.pc \notin {"write", "stored"} /\ (v.pc = "settle" => ~Succeeded(v.answer))
  BY <1>1 DEF Request, Succeeded
<1>5. GoesOn(o, v) /\ UNCHANGED runs /\ req[o].pc \in Submitting
  BY <1>1 DEF GoesOn, Request, Submitting
<1>6. /\ wire' \subseteq Call
      /\ \A m \in wire' : m \in wire \/ (v.pc # "idle" /\ CallOf(m, v))
      /\ faults' \in 0 .. MaxFaults /\ kills' \in 0 .. MaxKills
  BY <1>1 DEF DownloadsInv, TypeOK
<1> HIDE DEF v
<1> QED BY <1>2, <1>3, <1>4, <1>5, <1>6, QuietStep

LEMMA DepartsKept ==
  ASSUME DownloadsInv, NEW o \in Operators, Departs(o)
  PROVE  DownloadsInv'
<1> DEFINE v == [req[o] EXCEPT !.pc = "settle", !.answer = "transport"]
<1> USE Bounds, IdleTyping DEF Departs, Fault
<1>1. req[o] \in Request /\ req \in [Operators -> Request] /\ started \in 0 .. MaxRequests
  BY DEF DownloadsInv, TypeOK
<1>2. v \in Request
  BY <1>1 DEF Request
<1>3. req' = [req EXCEPT ![o] = v]
  BY <1>1 DEF Request
<1>4. v.pc \notin {"write", "stored"} /\ (v.pc = "settle" => ~Succeeded(v.answer))
  BY <1>1 DEF Request, Succeeded
<1>5. GoesOn(o, v) /\ UNCHANGED runs /\ req[o].pc \in Submitting
  BY <1>1 DEF GoesOn, Request, Submitting
<1>6. /\ wire' \subseteq Call
      /\ \A m \in wire' : m \in wire \/ (v.pc # "idle" /\ CallOf(m, v))
      /\ faults' \in 0 .. MaxFaults /\ kills' \in 0 .. MaxKills
  BY <1>1 DEF DownloadsInv, TypeOK
<1> HIDE DEF v
<1> QED BY <1>2, <1>3, <1>4, <1>5, <1>6, QuietStep

LEMMA TransportFailsKept ==
  ASSUME DownloadsInv, NEW o \in Operators, TransportFails(o)
  PROVE  DownloadsInv'
<1> DEFINE v == IF req[o].at < SubmitRetries THEN [req[o] EXCEPT !.pc = "send", !.at = @ + 1]
              ELSE [req[o] EXCEPT !.pc = "settle", !.answer = "transport"]
<1> USE Bounds, IdleTyping DEF TransportFails, TryAgain, Fault
<1>1. req[o] \in Request /\ req \in [Operators -> Request] /\ started \in 0 .. MaxRequests
  BY DEF DownloadsInv, TypeOK
<1>2. v \in Request
  
  <2>1. req[o].at < SubmitRetries => req[o].at + 1 \in 0 .. SubmitRetries
    BY <1>1, RequestFields
  <2>2. CASE req[o].at < SubmitRetries
    BY <1>1, <2>1, <2>2 DEF Request
  <2>3. CASE ~(req[o].at < SubmitRetries)
    BY <1>1, <2>3 DEF Request
  <2> QED BY <2>2, <2>3
<1>3. req' = [req EXCEPT ![o] = v]
  BY <1>1 DEF Request
<1>4. v.pc \notin {"write", "stored"} /\ (v.pc = "settle" => ~Succeeded(v.answer))
  BY <1>1 DEF Request, Succeeded
<1>5. GoesOn(o, v) /\ UNCHANGED runs /\ req[o].pc \in Submitting
  BY <1>1 DEF GoesOn, Request, Submitting
<1>6. /\ wire' \subseteq Call
      /\ \A m \in wire' : m \in wire \/ (v.pc # "idle" /\ CallOf(m, v))
      /\ faults' \in 0 .. MaxFaults /\ kills' \in 0 .. MaxKills
  BY <1>1 DEF DownloadsInv, TypeOK
<1> HIDE DEF v
<1> QED BY <1>2, <1>3, <1>4, <1>5, <1>6, QuietStep

LEMMA ReadTorrentKept ==
  ASSUME DownloadsInv, NEW o \in Operators, ReadTorrent(o)
  PROVE  DownloadsInv'
<1> DEFINE v == IF staged[req[o].sys] = NoFile THEN [req[o] EXCEPT !.pc = "settle", !.answer = "local"]
              ELSE [req[o] EXCEPT !.pc = "send", !.whole = (staged[req[o].sys].len = Chunks)]
<1> USE Bounds, IdleTyping DEF ReadTorrent
<1>1. req[o] \in Request /\ req \in [Operators -> Request] /\ started \in 0 .. MaxRequests
  BY DEF DownloadsInv, TypeOK
<1>2. v \in Request
  BY <1>1 DEF Request
<1>3. req' = [req EXCEPT ![o] = v]
  BY <1>1 DEF Request
<1>4. v.pc \notin {"write", "stored"} /\ (v.pc = "settle" => ~Succeeded(v.answer))
  BY <1>1 DEF Request, Succeeded
<1>5. GoesOn(o, v) /\ UNCHANGED runs /\ req[o].pc \in Submitting
  BY <1>1 DEF GoesOn, Request, Submitting
<1>6. /\ wire' \subseteq Call
      /\ \A m \in wire' : m \in wire \/ (v.pc # "idle" /\ CallOf(m, v))
      /\ faults' \in 0 .. MaxFaults /\ kills' \in 0 .. MaxKills
  BY <1>1 DEF DownloadsInv, TypeOK
<1> HIDE DEF v
<1> QED BY <1>2, <1>3, <1>4, <1>5, <1>6, QuietStep

LEMMA SendKept ==
  ASSUME DownloadsInv, NEW o \in Operators, Send(o)
  PROVE  DownloadsInv'
<1> DEFINE v == [req[o] EXCEPT !.pc = "await"]
<1> USE Bounds, IdleTyping DEF Send, Goto
<1>1. req[o] \in Request /\ req \in [Operators -> Request] /\ started \in 0 .. MaxRequests
  BY DEF DownloadsInv, TypeOK
<1>0. [n |-> req[o].n, at |-> req[o].at, sys |-> req[o].sys, what |-> req[o].what,
       whole |-> req[o].whole] \in Call
  <2>1. req[o].n \in 1 .. MaxRequests
    BY <1>1 DEF DownloadsInv, Numbered
  <2> QED BY <1>1, <2>1, RequestFields DEF Call
<1>2. v \in Request
  BY <1>1 DEF Request
<1>3. req' = [req EXCEPT ![o] = v]
  BY <1>1 DEF Request
<1>4. v.pc \notin {"write", "stored"} /\ (v.pc = "settle" => ~Succeeded(v.answer))
  BY <1>1 DEF Request, Succeeded
<1>5. GoesOn(o, v) /\ UNCHANGED runs /\ req[o].pc \in Submitting
  BY <1>1 DEF GoesOn, Request, Submitting
<1>6. /\ wire' \subseteq Call
      /\ \A m \in wire' : m \in wire \/ (v.pc # "idle" /\ CallOf(m, v))
      /\ faults' \in 0 .. MaxFaults /\ kills' \in 0 .. MaxKills
  BY <1>0, <1>1 DEF DownloadsInv, TypeOK, CallOf, Request
<1> HIDE DEF v
<1> QED BY <1>2, <1>3, <1>4, <1>5, <1>6, QuietStep

\* The three ways a request begins; two of them open their run at once.
LEMMA StageTorrentKept ==
  ASSUME DownloadsInv, NEW o \in Operators, NEW s \in Systems, StageTorrent(o, s)
  PROVE  DownloadsInv'
<1> DEFINE v == [Idle EXCEPT !.pc = "open", !.n = started', !.sys = s, !.what = "torrent"]
<1> USE Bounds, IdleTyping DEF StageTorrent, Begins
<1>1. req[o] \in Request /\ req \in [Operators -> Request] /\ started \in 0 .. MaxRequests
  BY DEF DownloadsInv, TypeOK
<1>2. v \in Request
  
  <2>1. started' \in 0 .. MaxRequests
    BY <1>1
  <2> QED BY <2>1 DEF Request, Whats
<1>3. req' = [req EXCEPT ![o] = v]
  BY <1>1 DEF Request
<1>4. v.pc \notin {"write", "stored"} /\ (v.pc = "settle" => ~Succeeded(v.answer))
  BY <1>1 DEF Request, Succeeded
<1>5. Begun(v) /\ UNCHANGED runs /\ v.pc \notin Submitting
  BY <1>1 DEF Begun, Submitting
<1>6. /\ wire' \subseteq Call
      /\ \A m \in wire' : m \in wire \/ (v.pc # "idle" /\ CallOf(m, v))
      /\ faults' \in 0 .. MaxFaults /\ kills' \in 0 .. MaxKills
  BY <1>1 DEF DownloadsInv, TypeOK
<1> HIDE DEF v
<1> QED BY <1>2, <1>3, <1>4, <1>5, <1>6, QuietStep

LEMMA AcquireKept ==
  ASSUME DownloadsInv, NEW o \in Operators, NEW s \in Systems, Acquire(o, s)
  PROVE  DownloadsInv'
<1> DEFINE v == [Idle EXCEPT !.pc = "read", !.n = started', !.sys = s, !.what = "torrent"]
<1> USE Bounds, IdleTyping DEF Acquire, Begins
<1>1. req[o] \in Request /\ req \in [Operators -> Request] /\ started \in 0 .. MaxRequests
  BY DEF DownloadsInv, TypeOK
<1>2. v \in Request
  
  <2>1. started' \in 0 .. MaxRequests
    BY <1>1
  <2> QED BY <2>1 DEF Request, Whats
<1>3. req' = [req EXCEPT ![o] = v]
  BY <1>1 DEF Request
<1>4. v.pc \notin {"write", "stored"} /\ (v.pc = "settle" => ~Succeeded(v.answer))
  BY <1>1 DEF Request, Succeeded
<1>5. Begun(v) /\ runs' = [runs EXCEPT ![v.n] = [of |-> {<<v.sys, v.what>>}, st |-> "running"]]
  BY <1>1 DEF Begun
<1>6. /\ wire' \subseteq Call
      /\ \A m \in wire' : m \in wire \/ (v.pc # "idle" /\ CallOf(m, v))
      /\ faults' \in 0 .. MaxFaults /\ kills' \in 0 .. MaxKills
  BY <1>1 DEF DownloadsInv, TypeOK
<1> HIDE DEF v
<1> QED BY <1>2, <1>3, <1>4, <1>5, <1>6, QuietStep

LEMMA StageURIKept ==
  ASSUME DownloadsInv, NEW o \in Operators, NEW s \in Systems, StageURI(o, s)
  PROVE  DownloadsInv'
<1> DEFINE v == [Idle EXCEPT !.pc = "send", !.n = started', !.sys = s, !.what = "uri"]
<1> USE Bounds, IdleTyping DEF StageURI, Begins
<1>1. req[o] \in Request /\ req \in [Operators -> Request] /\ started \in 0 .. MaxRequests
  BY DEF DownloadsInv, TypeOK
<1>2. v \in Request
  
  <2>1. started' \in 0 .. MaxRequests
    BY <1>1
  <2> QED BY <2>1 DEF Request, Whats
<1>3. req' = [req EXCEPT ![o] = v]
  BY <1>1 DEF Request
<1>4. v.pc \notin {"write", "stored"} /\ (v.pc = "settle" => ~Succeeded(v.answer))
  BY <1>1 DEF Request, Succeeded
<1>5. Begun(v) /\ runs' = [runs EXCEPT ![v.n] = [of |-> {<<v.sys, v.what>>}, st |-> "running"]]
  BY <1>1 DEF Begun
<1>6. /\ wire' \subseteq Call
      /\ \A m \in wire' : m \in wire \/ (v.pc # "idle" /\ CallOf(m, v))
      /\ faults' \in 0 .. MaxFaults /\ kills' \in 0 .. MaxKills
  BY <1>1 DEF DownloadsInv, TypeOK
<1> HIDE DEF v
<1> QED BY <1>2, <1>3, <1>4, <1>5, <1>6, QuietStep

\* The request that creates the file finds nothing stored there; no other
\* request has its number, so none takes the new file for its own.
LEMMA OpenExclusiveKept ==
  ASSUME DownloadsInv, NEW o \in Operators, OpenExclusive(o)
  PROVE  DownloadsInv'
<1> DEFINE s == req[o].sys
<1> DEFINE n == req[o].n
<1> DEFINE v == IF staged[s] # NoFile THEN Idle ELSE [req[o] EXCEPT !.pc = "write"]
<1> USE Bounds, IdleTyping DEF OpenExclusive, Goto
<1>1. req[o] \in Request /\ req \in [Operators -> Request] /\ staged \in [Systems -> File]
  BY DEF DownloadsInv, TypeOK
<1>2. v \in Request /\ req' = [req EXCEPT ![o] = v]
  BY <1>1 DEF Request
<1>3. v.pc \notin Submitting /\ (Ends(v) \/ GoesOn(o, v)) /\ UNCHANGED <<runs, queue, wire, removed>>
  BY <1>1 DEF Request, Submitting, Ends, GoesOn
<1>4. s \in Systems /\ n \in 1 .. started /\ started \in 0 .. MaxRequests
  BY <1>1, RequestFields DEF DownloadsInv, Numbered, TypeOK
<1>5. /\ req' \in [Operators -> Request] /\ started' \in 0 .. MaxRequests
      /\ req'[o] = v /\ \A p \in Operators : p # o => req'[p] = req[p]
      /\ Numbered' /\ NumbersDiffer' /\ CallsKnown' /\ AnswersEarned'
      /\ runs' \in [1 .. MaxRequests -> Row] /\ RowsOpened' /\ OkMeansLanded'
  <2>1. v.pc # "settle"
    BY <1>3 DEF Submitting
  <2> HIDE DEF v, OpenExclusive
  <2> QED BY <1>2, <1>3, <2>1, RequestStep, RunsKept
<1>6. CASE staged[s] # NoFile
  <2>1. UNCHANGED <<staged, stored>>
    BY <1>6
  <2>2. req'[o].pc \notin {"write", "stored"}
    BY <1>5, <1>6
  <2>3. /\ staged' \in [Systems -> File] /\ stored' \in [Systems -> 0 .. MaxRequests]
        /\ (\A p \in Operators : Uploading(p))' /\ StagedStays'
    BY <1>5, <2>1, <2>2, FilesKept
  <2> QED BY <1>5, <2>3 DEF DownloadsInv, TypeOK
<1>7. CASE staged[s] = NoFile
  <2>1. [by |-> n, len |-> 0] \in File
    BY <1>4 DEF File
  <2>2. staged' = [staged EXCEPT ![s] = [by |-> n, len |-> 0]] /\ UNCHANGED stored
    BY <1>7
  <2>3. staged' \in [Systems -> File] /\ stored' \in [Systems -> 0 .. MaxRequests]
    BY <1>1, <2>1, <2>2 DEF DownloadsInv, TypeOK
  <2>4. StagedStays'
    <3>1. stored[s] # 0 => NoFile = [by |-> stored[s], len |-> Chunks]
      BY <1>4, <1>7 DEF DownloadsInv, StagedStays
    <3>2. stored[s] = 0
      BY <3>1 DEF NoFile
    <3> QED BY <1>1, <1>4, <2>2, <3>2 DEF DownloadsInv, StagedStays
  <2>5. ASSUME NEW p \in Operators PROVE Uploading(p)'
    <3>1. CASE p = o
      BY <1>1, <1>4, <1>5, <1>7, <2>2, <3>1 DEF Uploading, Request
    <3>2. CASE p # o
      <4>1. req[p].pc \in {"write", "stored"} => req[p].n # n
        BY <1>4, <3>2 DEF DownloadsInv, NumbersDiffer
      <4>2. Uploading(p) /\ req'[p] = req[p] /\ req[p].sys \in Systems
        BY <1>1, <1>5, <3>2, RequestFields DEF DownloadsInv
      <4>3. CASE req[p].sys = s
        BY <1>1, <2>2, <4>1, <4>2, <4>3 DEF Uploading
      <4>4. CASE req[p].sys # s
        BY <1>1, <2>2, <4>2, <4>4 DEF Uploading
      <4> QED BY <4>3, <4>4
    <3> QED BY <3>1, <3>2
  <2> QED BY <1>5, <2>3, <2>4, <2>5 DEF DownloadsInv, TypeOK
<1> QED BY <1>6, <1>7

\* What is written goes to the request's own, still incomplete file: not to one
\* that an operator was told is stored.
LEMMA WriteChunkKept ==
  ASSUME DownloadsInv, NEW o \in Operators, WriteChunk(o)
  PROVE  DownloadsInv'
<1> DEFINE s == req[o].sys
<1> DEFINE n == req[o].n
<1> DEFINE f == staged[s]
<1> DEFINE v == [req[o] EXCEPT !.pc = IF f.by # n \/ f.len + 1 = Chunks THEN "stored" ELSE "write"]
<1> USE Bounds DEF WriteChunk, Goto
<1>1. req[o] \in Request /\ req \in [Operators -> Request] /\ staged \in [Systems -> File]
  BY DEF DownloadsInv, TypeOK
<1>2. v \in Request /\ req' = [req EXCEPT ![o] = v]
  BY <1>1 DEF Request
<1>3. v.pc \notin Submitting /\ GoesOn(o, v) /\ UNCHANGED <<runs, queue, wire, removed>>
  BY <1>1 DEF Request, Submitting, GoesOn
<1>4. s \in Systems /\ n \in 1 .. started /\ started \in 0 .. MaxRequests /\ f \in File
  BY <1>1, RequestFields DEF DownloadsInv, Numbered, TypeOK
<1>5. /\ req' \in [Operators -> Request] /\ started' \in 0 .. MaxRequests
      /\ req'[o] = v /\ \A p \in Operators : p # o => req'[p] = req[p]
      /\ Numbered' /\ NumbersDiffer' /\ CallsKnown' /\ AnswersEarned'
      /\ runs' \in [1 .. MaxRequests -> Row] /\ RowsOpened' /\ OkMeansLanded'
  <2>1. v.pc # "settle"
    BY <1>3 DEF Submitting
  <2> HIDE DEF v, WriteChunk
  <2> QED BY <1>2, <1>3, <2>1, RequestStep, RunsKept
<1>6. f.by = n => f.len < Chunks /\ stored[s] = 0
  <2>1. f.by = n => f.len < Chunks
    BY DEF DownloadsInv, Uploading
  <2>2. stored[s] # 0 => f = [by |-> stored[s], len |-> Chunks]
    BY <1>4 DEF DownloadsInv, StagedStays
  <2> QED BY <1>4, <2>1, <2>2 DEF File
<1>7. /\ f.by # n => staged' = staged
      /\ f.by = n => staged'[s] = [by |-> n, len |-> f.len + 1]
                     /\ \A t \in Systems : t # s => staged'[t] = staged[t]
      /\ staged' \in [Systems -> File]
  <2>1. CASE f.by # n
    BY <1>1, <2>1
  <2>2. CASE f.by = n
    <3>1. [f EXCEPT !.len = @ + 1] = [by |-> n, len |-> f.len + 1]
      BY <1>4, <2>2 DEF File
    <3>2. [by |-> n, len |-> f.len + 1] \in File
      BY <1>4, <1>6, <2>2 DEF File
    <3>3. staged' = [staged EXCEPT ![s] = [f EXCEPT !.len = @ + 1]]
      BY <2>2
    <3> HIDE DEF f
    <3> QED BY <1>1, <1>4, <2>2, <3>1, <3>2, <3>3
  <2> QED BY <2>1, <2>2
<1>8. StagedStays' /\ stored' \in [Systems -> 0 .. MaxRequests]
  BY <1>6, <1>7 DEF DownloadsInv, StagedStays, TypeOK
<1>9. ASSUME NEW p \in Operators PROVE Uploading(p)'
  <2>1. CASE p = o
    BY <1>1, <1>4, <1>5, <1>6, <1>7, <2>1 DEF Uploading, Request, File
  <2>2. CASE p # o
    <3>1. req[p].pc \in {"write", "stored"} => req[p].n # n
      BY <1>4, <2>2 DEF DownloadsInv, NumbersDiffer
    <3>2. Uploading(p) /\ req'[p] = req[p] /\ req[p].sys \in Systems
      BY <1>1, <1>5, <2>2, RequestFields DEF DownloadsInv
    <3> QED BY <1>7, <3>1, <3>2 DEF Uploading
  <2> QED BY <2>1, <2>2
<1> QED BY <1>5, <1>7, <1>8, <1>9 DEF DownloadsInv, TypeOK

\* The operator is told of a file that is whole.
LEMMA StoredKept ==
  ASSUME DownloadsInv, NEW o \in Operators, Stored(o)
  PROVE  DownloadsInv'
<1> DEFINE s == req[o].sys
<1> DEFINE n == req[o].n
<1> USE Bounds, IdleTyping DEF Stored
<1>1. req[o] \in Request /\ req \in [Operators -> Request] /\ staged \in [Systems -> File]
      /\ stored \in [Systems -> 0 .. MaxRequests]
  BY DEF DownloadsInv, TypeOK
<1>2. s \in Systems /\ n \in 1 .. MaxRequests
  BY <1>1, RequestFields DEF DownloadsInv, Numbered, TypeOK
<1>3. /\ req' \in [Operators -> Request] /\ started' \in 0 .. MaxRequests
      /\ req'[o] = Idle /\ \A p \in Operators : p # o => req'[p] = req[p]
      /\ Numbered' /\ NumbersDiffer' /\ CallsKnown' /\ AnswersEarned'
  <2>1. Ends(Idle)
    BY DEF Ends
  <2> QED BY <2>1, RequestStep
<1>4. [of |-> {<<s, "torrent">>}, st |-> "staged"] \in Row
  BY <1>2 DEF Row, Downloads, Whats
<1>5. runs' \in [1 .. MaxRequests -> Row] /\ RowsOpened' /\ OkMeansLanded'
  <2> DEFINE row == [of |-> {<<s, "torrent">>}, st |-> "staged"]
  <2>1. runs' = [runs EXCEPT ![n] = row] /\ UNCHANGED <<queue, removed>> /\ row.st # "ok"
    OBVIOUS
  <2>2. \A p \in Operators : p # o /\ req[p].pc # "idle" => req[p].n # n
    BY OwnNumber
  <2>3. Idle.pc \notin Submitting /\ req' = [req EXCEPT ![o] = Idle]
    BY DEF Submitting
  <2> HIDE DEF Stored, row, s, n
  <2>4. row \in Row
    BY <1>4 DEF row
  <2>5. Writes(o, Idle, n, row)
    BY <2>1, <2>2, <2>3 DEF Writes
  <2> QED BY <1>2, <2>1, <2>3, <2>4, <2>5, RunWritten
<1>6. ASSUME NEW p \in Operators PROVE Uploading(p)'
  BY <1>3 DEF DownloadsInv, Uploading
<1>7. staged' \in [Systems -> File] /\ stored' \in [Systems -> 0 .. MaxRequests]
  BY <1>1, <1>2
<1>8. StagedStays'
  <2> SUFFICES ASSUME NEW t \in Systems, stored'[t] # 0
               PROVE  staged[t] = [by |-> stored'[t], len |-> Chunks]
    BY DEF StagedStays
  <2>1. CASE t = s /\ staged[s].by = n
    <3>1. staged[s].len = Chunks /\ stored'[s] = n /\ staged[s] \in File
      BY <1>1, <1>2, <2>1 DEF DownloadsInv, Uploading
    <3> QED BY <2>1, <3>1 DEF File
  <2>2. CASE t # s \/ staged[s].by # n
    BY <1>1, <2>2 DEF DownloadsInv, StagedStays
  <2> QED BY <2>1, <2>2
<1> QED BY <1>3, <1>5, <1>6, <1>7, <1>8 DEF DownloadsInv, TypeOK

\* With the file its confirmation goes, and a request still writing finds nothing.
LEMMA UnstageKept ==
  ASSUME DownloadsInv, NEW s \in Systems, Unstage(s)
  PROVE  DownloadsInv'
<1> USE Bounds DEF Unstage, Fault
<1>1. staged \in [Systems -> File] /\ stored \in [Systems -> 0 .. MaxRequests] /\ NoFile \in File
  BY DEF DownloadsInv, TypeOK, File, NoFile
<1>2. StagedStays'
  BY <1>1 DEF DownloadsInv, StagedStays
<1>3. ASSUME NEW p \in Operators PROVE Uploading(p)'
  <2>1. req[p] \in Request
    BY DEF DownloadsInv, TypeOK
  <2>2. req[p].pc \in {"write", "stored"} => NoFile.by # req[p].n
    BY DEF DownloadsInv, TypeOK, Numbered, NoFile
  <2>3. req[p].sys \in Systems
    BY <2>1, RequestFields
  <2> QED BY <1>1, <2>2, <2>3 DEF DownloadsInv, Uploading
<1> QED
  BY <1>1, <1>2, <1>3
  DEF DownloadsInv, TypeOK, Numbered, NumbersDiffer, RowsOpened, CallsKnown, AnswersEarned,
      OkMeansLanded

\* The one step that can close a run as ok.
LEMMA SettleKept ==
  ASSUME DownloadsInv, NEW o \in Operators, Settle(o)
  PROVE  DownloadsInv'
<1> DEFINE n == req[o].n
<1> DEFINE row == [runs[n] EXCEPT !.st = IF Succeeded(req[o].answer) THEN "ok" ELSE "error"]
<1> USE Bounds, IdleTyping DEF Settle
<1>1. req[o] \in Request /\ req \in [Operators -> Request]
      /\ runs \in [1 .. MaxRequests -> Row]
  BY DEF DownloadsInv, TypeOK
<1>2. n \in 1 .. MaxRequests
  BY <1>1 DEF DownloadsInv, Numbered, TypeOK
<1>3. row \in Row /\ row.of = runs[n].of /\ (row.st = "ok" => Succeeded(req[o].answer))
  BY <1>1, <1>2 DEF Row
<1>4. row.st = "ok" => row.of \subseteq queue \/ n \in removed
  <2>1. runs[n].of = {<<req[o].sys, req[o].what>>}
    BY DEF DownloadsInv, RowsOpened, Submitting
  <2>2. Succeeded(req[o].answer) => <<req[o].sys, req[o].what>> \in queue \/ n \in removed
    BY DEF DownloadsInv, AnswersEarned
  <2> HIDE DEF row, n
  <2> QED BY <1>3, <2>1, <2>2
<1>5. runs' = [runs EXCEPT ![n] = row] /\ UNCHANGED <<queue, removed>>
  BY <1>1, <1>2
<1>6. /\ req' \in [Operators -> Request] /\ started' \in 0 .. MaxRequests
      /\ req'[o] = Idle /\ \A p \in Operators : p # o => req'[p] = req[p]
      /\ Numbered' /\ NumbersDiffer' /\ CallsKnown' /\ AnswersEarned'
  <2>1. Ends(Idle)
    BY DEF Ends
  <2> QED BY <2>1, RequestStep
<1>7. /\ staged' \in [Systems -> File] /\ stored' \in [Systems -> 0 .. MaxRequests]
      /\ (\A p \in Operators : Uploading(p))' /\ StagedStays'
  BY <1>6, FilesKept
<1>8. runs' \in [1 .. MaxRequests -> Row] /\ RowsOpened' /\ OkMeansLanded'
  <2>1. \A p \in Operators : p # o /\ req[p].pc # "idle" => req[p].n # n
    BY OwnNumber
  <2>2. Idle.pc \notin Submitting /\ req' = [req EXCEPT ![o] = Idle]
    BY DEF Submitting
  <2> HIDE DEF Settle, row, n
  <2>3. Writes(o, Idle, n, row)
    BY <1>4, <1>5, <2>1, <2>2 DEF Writes
  <2> QED BY <1>2, <1>3, <1>5, <2>2, <2>3, RunWritten
<1> QED BY <1>6, <1>7, <1>8 DEF DownloadsInv, TypeOK

\* The daemon answers whoever still waits for this very call, which asks for what
\* the request asks for: behind a success the download is in the queue.
LEMMA ServeKept ==
  ASSUME DownloadsInv, NEW m \in wire, Serve(m)
  PROVE  DownloadsInv'
<1> DEFINE Answered(o) == req[o].pc = "await" /\ req[o].n = m.n /\ req[o].at = m.at
<1>1. m \in Call /\ req \in [Operators -> Request]
  BY DEF DownloadsInv, TypeOK
<1>2. m.n \in 1 .. MaxRequests /\ m.sys \in Systems /\ m.what \in Whats
  BY <1>1 DEF Call
<1>3. AnswerTo(m) \in {"gid", "registered", "refused"}
  BY DEF AnswerTo
<1>4. \A o \in Operators : req'[o] =
        IF Answered(o) THEN [req[o] EXCEPT !.pc = "settle", !.answer = AnswerTo(m)] ELSE req[o]
  BY DEF Serve
<1>5. ASSUME NEW o \in Operators
      PROVE  /\ req'[o] \in Request /\ req'[o].n = req[o].n
             /\ req'[o].sys = req[o].sys /\ req'[o].what = req[o].what
             /\ req'[o].pc = "idle" <=> req[o].pc = "idle"
             /\ req'[o] # req[o] =>
                  /\ req[o].pc = "await" /\ req[o].n = m.n
                  /\ req'[o].pc = "settle" /\ req'[o].answer = AnswerTo(m)
  BY <1>1, <1>3, <1>4 DEF Request
<1>6. req' \in [Operators -> Request]
  BY <1>5 DEF Serve
<1>7. Numbered' /\ NumbersDiffer'
  <2>1. Numbered'
    BY <1>5 DEF Serve, DownloadsInv, Numbered
  <2>2. ASSUME NEW o \in Operators, NEW p \in Operators, req'[o].pc # "idle",
               req'[p].pc # "idle", req'[o].n = req'[p].n
        PROVE  o = p
    <3>1. req[o].pc # "idle" /\ req[p].pc # "idle" /\ req[o].n = req[p].n
      BY <1>5, <2>2
    <3> QED BY <3>1 DEF DownloadsInv, NumbersDiffer
  <2> QED BY <2>1, <2>2 DEF NumbersDiffer
<1>8. /\ queue \subseteq queue' /\ UNCHANGED <<runs, removed, started>>
      /\ Succeeded(AnswerTo(m)) => <<m.sys, m.what>> \in queue'
  BY <1>3 DEF Serve, AnswerTo, Succeeded
<1>9. AnswersEarned'
  <2> SUFFICES ASSUME NEW o \in Operators, req'[o].pc = "settle", Succeeded(req'[o].answer)
               PROVE  <<req'[o].sys, req'[o].what>> \in queue' \/ req'[o].n \in removed'
    BY DEF AnswersEarned
  <2>1. CASE req'[o] = req[o]
    BY <1>8, <2>1 DEF DownloadsInv, AnswersEarned
  <2>2. CASE req'[o] # req[o]
    <3>1. CallOf(m, req[o])
      BY <1>5, <2>2 DEF DownloadsInv, CallsKnown
    <3>2. <<m.sys, m.what>> \in queue'
      BY <1>5, <1>8, <2>2
    <3> QED BY <1>5, <3>1, <3>2 DEF CallOf
  <2> QED BY <2>1, <2>2
<1>10. /\ staged' \in [Systems -> File] /\ stored' \in [Systems -> 0 .. MaxRequests]
       /\ (\A p \in Operators : Uploading(p))' /\ StagedStays'
  <2>1. UNCHANGED <<staged, stored>>
    BY DEF Serve
  <2> QED BY <1>5, <2>1, FilesKept
<1>11. runs' \in [1 .. MaxRequests -> Row] /\ RowsOpened' /\ OkMeansLanded'
  <2>1. runs' \in [1 .. MaxRequests -> Row] /\ OkMeansLanded'
    BY <1>8 DEF DownloadsInv, TypeOK, OkMeansLanded
  <2>2. ASSUME NEW o \in Operators, req'[o].pc \in Submitting
        PROVE  runs'[req'[o].n].of = {<<req'[o].sys, req'[o].what>>}
    <3>1. req[o].pc \in Submitting
      BY <1>5, <2>2 DEF Submitting
    <3> QED BY <1>5, <1>8, <3>1 DEF DownloadsInv, RowsOpened
  <2> QED BY <2>1, <2>2 DEF RowsOpened
<1>12. queue' \subseteq Downloads /\ wire' \subseteq Call
  <2>1. <<m.sys, m.what>> \in Downloads
    BY <1>2 DEF Downloads
  <2>2. queue \subseteq Downloads /\ wire \subseteq Call
    BY DEF DownloadsInv, TypeOK
  <2>3. wire' \subseteq wire /\ queue' \subseteq queue \cup {<<m.sys, m.what>>}
    BY DEF Serve
  <2> QED BY <2>1, <2>2, <2>3
<1>13. CallsKnown'
  <2> SUFFICES ASSUME NEW c \in wire'
               PROVE  /\ c.n \in 1 .. started'
                      /\ \A o \in Operators :
                           req'[o].pc # "idle" /\ req'[o].n = c.n => CallOf(c, req'[o])
    BY DEF CallsKnown
  <2>1. c \in wire
    BY DEF Serve
  <2>2. /\ c.n \in 1 .. started
        /\ \A o \in Operators : req[o].pc # "idle" /\ req[o].n = c.n => CallOf(c, req[o])
    BY <2>1 DEF DownloadsInv, CallsKnown
  <2>3. ASSUME NEW o \in Operators, req'[o].pc # "idle", req'[o].n = c.n
        PROVE  CallOf(c, req'[o])
    <3>1. req[o].pc # "idle" /\ req[o].n = c.n
      BY <1>5, <2>3
    <3>2. CallOf(c, req[o])
      BY <2>2, <3>1
    <3> QED BY <1>5, <3>2 DEF CallOf
  <2> QED BY <1>8, <2>2, <2>3
<1> QED
  BY <1>6, <1>7, <1>8, <1>9, <1>10, <1>11, <1>12, <1>13 DEF Serve, DownloadsInv, TypeOK

\* A removal takes the download from the runs that have it, and says so.
LEMMA RemoveKept ==
  ASSUME DownloadsInv, NEW d \in queue, Remove(d)
  PROVE  DownloadsInv'
<1> USE Bounds DEF Remove, Fault
<1>1. /\ runs \in [1 .. MaxRequests -> Row] /\ DOMAIN runs = 1 .. MaxRequests
      /\ UNCHANGED <<runs, req, started, wire>>
      /\ queue' = queue \ {d} /\ removed' = removed \cup Served(d)
  BY DEF DownloadsInv, TypeOK
<1>2. removed' \subseteq 1 .. MaxRequests /\ queue' \subseteq Downloads
  BY <1>1 DEF DownloadsInv, TypeOK, Served
<1>3. OkMeansLanded'
  <2> SUFFICES ASSUME NEW n \in 1 .. MaxRequests, runs[n].st = "ok"
               PROVE  runs[n].of \subseteq queue' \/ n \in removed'
    BY <1>1 DEF OkMeansLanded
  <2>1. runs[n].of \subseteq queue \/ n \in removed
    BY <1>1 DEF DownloadsInv, OkMeansLanded
  <2>2. d \in runs[n].of => n \in Served(d)
    BY <1>1 DEF Served
  <2> QED BY <1>1, <2>1, <2>2
<1>4. AnswersEarned'
  <2> SUFFICES ASSUME NEW o \in Operators, req[o].pc = "settle", Succeeded(req[o].answer)
               PROVE  <<req[o].sys, req[o].what>> \in queue' \/ req[o].n \in removed'
    BY <1>1 DEF AnswersEarned
  <2>1. <<req[o].sys, req[o].what>> \in queue \/ req[o].n \in removed
    BY DEF DownloadsInv, AnswersEarned
  <2>2. runs[req[o].n].of = {<<req[o].sys, req[o].what>>} /\ req[o].n \in 1 .. MaxRequests
    BY DEF DownloadsInv, RowsOpened, Submitting, Numbered, TypeOK
  <2>3. <<req[o].sys, req[o].what>> = d => req[o].n \in Served(d)
    BY <1>1, <2>2 DEF Served
  <2> QED BY <1>1, <2>1, <2>3
<1>5. Numbered' /\ NumbersDiffer' /\ RowsOpened' /\ CallsKnown'
  BY <1>1 DEF DownloadsInv, Numbered, NumbersDiffer, RowsOpened, CallsKnown
<1>6. (\A p \in Operators : Uploading(p))' /\ StagedStays'
  BY DEF DownloadsInv, Uploading, StagedStays
<1> QED BY <1>2, <1>3, <1>4, <1>5, <1>6 DEF DownloadsInv, TypeOK

\* A restart forgets the requests and closes the rows left running, as errors.
LEMMA KillKept ==
  ASSUME DownloadsInv, Kill
  PROVE  DownloadsInv'
<1> USE Bounds, IdleTyping DEF Kill
<1>1. runs \in [1 .. MaxRequests -> Row] /\ DOMAIN runs = 1 .. MaxRequests
  BY DEF DownloadsInv, TypeOK
<1>2. ASSUME NEW n \in 1 .. MaxRequests
      PROVE  runs'[n] \in Row /\ runs'[n].of = runs[n].of
             /\ (runs'[n].st = "ok" => runs[n].st = "ok")
  BY <1>1 DEF Row
<1>3. runs' \in [1 .. MaxRequests -> Row]
  BY <1>1, <1>2
<1>4. OkMeansLanded'
  BY <1>1, <1>2, <1>3 DEF DownloadsInv, OkMeansLanded
<1>5. \A o \in Operators : req'[o] = Idle
  OBVIOUS
<1>6. /\ Numbered' /\ NumbersDiffer' /\ RowsOpened' /\ CallsKnown' /\ AnswersEarned'
      /\ req' \in [Operators -> Request]
  BY <1>5 DEF Numbered, NumbersDiffer, RowsOpened, Submitting, DownloadsInv, CallsKnown, AnswersEarned
<1>7. /\ staged' \in [Systems -> File] /\ stored' \in [Systems -> 0 .. MaxRequests]
      /\ (\A p \in Operators : Uploading(p))' /\ StagedStays'
  BY <1>5, FilesKept
<1> QED BY <1>3, <1>4, <1>6, <1>7 DEF DownloadsInv, TypeOK

\* Every step of an operator's request, of the daemon, of the outside or of a
\* restart keeps the invariant.
LEMMA Stepwise == DownloadsInv /\ [Next]_vars => DownloadsInv'
<1> SUFFICES ASSUME DownloadsInv, [Next]_vars PROVE DownloadsInv'
  OBVIOUS
<1>1. ASSUME NEW o \in Operators, Handler(o) \/ Departs(o) PROVE DownloadsInv'
  BY <1>1, OpenExclusiveKept, WriteChunkKept, WriteFailsKept, StoredKept, ReadTorrentKept,
     SendKept, CallFailsKept, TransportFailsKept, SettleKept, DepartsKept DEF Handler
<1>2. ASSUME NEW o \in Operators, NEW s \in Systems,
             StageTorrent(o, s) \/ Acquire(o, s) \/ StageURI(o, s)
      PROVE  DownloadsInv'
  BY <1>2, StageTorrentKept, AcquireKept, StageURIKept
<1>3. ASSUME NEW m \in wire, Lose(m) PROVE DownloadsInv'
  BY <1>3, Bounds DEF Lose, Fault, DownloadsInv, TypeOK, Numbered, NumbersDiffer, Uploading,
                      RowsOpened, CallsKnown, AnswersEarned, OkMeansLanded, StagedStays
<1>4. CASE UNCHANGED vars
  BY <1>4 DEF vars, DownloadsInv, TypeOK, Numbered, NumbersDiffer, Uploading,
              RowsOpened, CallsKnown, AnswersEarned, OkMeansLanded, StagedStays
<1> QED BY <1>1, <1>2, <1>3, <1>4, ServeKept, RemoveKept, UnstageKept, KillKept DEF Next

\* The accounts of requests, answers and files hold in every reachable state.
THEOREM DownloadsInvariant == Spec => []DownloadsInv
BY Initially, Stepwise, PTL DEF Spec

\* Type correctness of the download control.
THEOREM DownloadsTyping == Spec => []TypeOK
<1>1. DownloadsInv => TypeOK
  BY DEF DownloadsInv
<1> QED BY <1>1, DownloadsInvariant, PTL

\* A run recorded ok has its download in the daemon's queue until an operator
\* removes it, however many retries, late answers, losses and restarts come between.
THEOREM DownloadsOkLanded == Spec => []OkMeansLanded
<1>1. DownloadsInv => OkMeansLanded
  BY DEF DownloadsInv
<1> QED BY <1>1, DownloadsInvariant, PTL

\* A torrent an operator was told is staged is never truncated or replaced.
THEOREM DownloadsStagedStays == Spec => []StagedStays
<1>1. DownloadsInv => StagedStays
  BY DEF DownloadsInv
<1> QED BY <1>1, DownloadsInvariant, PTL

=============================================================================
