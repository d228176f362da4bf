--------------------------- MODULE ArcadeDownloads ---------------------------
(***************************************************************************)
(* The arcade webapp's download control (internal/web/downloads.go and     *)
(* internal/aria2): operators upload the .torrent of a system, acquire it, *)
(* submit a URI instead, or remove a download, all through one slow aria2  *)
(* daemon.                                                                 *)
(*                                                                         *)
(* A submission is retried when its call times out or could not be made;   *)
(* the daemon may still act on the call it was given up on, at any later   *)
(* time, even bring back a download removed since or queue a URI twice.    *)
(* The queue page only reads and is left out, and so are the options of a  *)
(* submission, which follow from its system.                               *)
(***************************************************************************)
EXTENDS Naturals, FiniteSets

CONSTANTS
  Systems,        \* the systems of the store
  WithTorrent,    \* those whose catalogue entry names a torrent (never eXo)
  Operators,
  SubmitRetries,  \* retries of a submission: 2
  Chunks,         \* writes it takes to store an upload
  MaxRequests,    \* bound on requests
  MaxFaults,      \* bound on failed writes, lost calls, timeouts, departures, removals
  MaxKills        \* bound on restarts of the webapp

ASSUME DownloadsAssumption ==
  /\ IsFiniteSet(Systems) /\ Systems # {} /\ WithTorrent \subseteq Systems
  /\ IsFiniteSet(Operators)
  /\ {SubmitRetries, MaxRequests, MaxFaults, MaxKills} \subseteq Nat /\ Chunks \in Nat \ {0}

VARIABLES
  staged,     \* staged[s]: the file at torrentDir/<name>, whose bytes and how many
  queue,      \* the daemon's downloads: <<system, what>>
  wire,       \* calls the daemon has not read yet
  runs,       \* runs[n]: the row request n opened
  req,        \* req[o]: the request operator o is waiting for
  started,    \* how many requests there were; request n stages upload n
  stored,     \* history: the upload each system's operator was told is staged
  removed,    \* history: the runs whose download was removed once they had it
  faults, kills

vars == <<staged, queue, wire, runs, req, started, stored, removed, faults, kills>>

Whats == {"torrent", "uri"}
Downloads == Systems \X Whats
NoFile == [by |-> 0, len |-> 0]
NoRun == [of |-> {}, st |-> "none"]
Idle == [pc |-> "idle", n |-> 0, sys |-> CHOOSE s \in Systems : TRUE, what |-> "torrent",
         whole |-> FALSE, at |-> 0, answer |-> "none"]

File  == [by : 0 .. MaxRequests, len : 0 .. Chunks]
Call  == [n : 1 .. MaxRequests, at : 0 .. SubmitRetries, sys : Systems, what : Whats,
          whole : BOOLEAN]
Row   == [of : SUBSET Downloads, st : {"none", "staged", "running", "ok", "error"}]
Request ==
  [pc : {"idle", "open", "write", "stored", "read", "send", "await", "settle"},
   n : 0 .. MaxRequests, sys : Systems, what : Whats, whole : BOOLEAN, at : 0 .. SubmitRetries,
   answer : {"none", "local", "transport", "gid", "registered", "refused"}]

TypeOK ==
  /\ staged \in [Systems -> File]
  /\ queue \subseteq Downloads
  /\ wire \subseteq Call
  /\ runs \in [1 .. MaxRequests -> Row]
  /\ req \in [Operators -> Request]
  /\ started \in 0 .. MaxRequests
  /\ stored \in [Systems -> 0 .. MaxRequests] /\ removed \subseteq 1 .. MaxRequests
  /\ faults \in 0 .. MaxFaults /\ kills \in 0 .. MaxKills

Init ==
  /\ staged = [s \in Systems |-> NoFile]
  /\ queue = {} /\ wire = {}
  /\ runs = [n \in 1 .. MaxRequests |-> NoRun]
  /\ req = [o \in Operators |-> Idle]
  /\ started = 0 /\ faults = 0 /\ kills = 0
  /\ stored = [s \in Systems |-> 0] /\ removed = {}

Fault == faults < MaxFaults /\ faults' = faults + 1
Goto(o, pc) == req' = [req EXCEPT ![o].pc = pc]

\* stageTarget: a system of the store with a torrent, eXo excepted.
StageTarget(s) == s \in WithTorrent

\* A request of operator o about system s begins.
Begins(o, s, what, pc) ==
  /\ req[o].pc = "idle" /\ started < MaxRequests
  /\ started' = started + 1
  /\ req' = [req EXCEPT ![o] = [Idle EXCEPT !.pc = pc, !.n = started', !.sys = s, !.what = what]]

----------------------------------------------------------------------------
(* handleStageTorrent *)

\* stageTarget, and the upload is read into memory.
StageTorrent(o, s) ==
  /\ StageTarget(s)
  /\ Begins(o, s, "torrent", "open")
  /\ UNCHANGED <<staged, queue, wire, runs, stored, removed, faults, kills>>

\* Mutant: the file is opened as os.WriteFile would, truncating what is there.
OpenExclusiveNot(o) ==
  /\ req[o].pc = "open"
  /\ staged' = [staged EXCEPT ![req[o].sys] = [by |-> req[o].n, len |-> 0]]
  /\ Goto(o, "write")
  /\ UNCHANGED <<queue, wire, runs, started, stored, removed, faults, kills>>

\* O_CREATE|O_EXCL: whatever is at the path is refused with a conflict.
OpenExclusive(o) ==
  /\ req[o].pc = "open"
  /\ IF staged[req[o].sys] # NoFile
     THEN req' = [req EXCEPT ![o] = Idle] /\ UNCHANGED staged
     ELSE /\ staged' = [staged EXCEPT ![req[o].sys] = [by |-> req[o].n, len |-> 0]]
          /\ Goto(o, "write")
  /\ UNCHANGED <<queue, wire, runs, started, stored, removed, faults, kills>>

\* The descriptor's file may have been removed by now: then nothing is at the path.
WriteChunk(o) ==
  LET f == staged[req[o].sys] IN
  /\ req[o].pc = "write"
  /\ staged' = IF f.by # req[o].n THEN staged
               ELSE [staged EXCEPT ![req[o].sys].len = @ + 1]
  /\ Goto(o, IF f.by # req[o].n \/ f.len + 1 = Chunks THEN "stored" ELSE "write")
  /\ UNCHANGED <<queue, wire, runs, started, stored, removed, faults, kills>>

\* A failed write leaves what was written.
WriteFails(o) ==
  /\ req[o].pc = "write" /\ Fault
  /\ req' = [req EXCEPT ![o] = Idle]
  /\ UNCHANGED <<staged, queue, wire, runs, started, stored, removed, kills>>

\* The run is recorded and the operator told, unless the file was removed.
Stored(o) ==
  LET s == req[o].sys  n == req[o].n IN
  /\ req[o].pc = "stored"
  /\ runs' = [runs EXCEPT ![n] = [of |-> {<<s, "torrent">>}, st |-> "staged"]]
  /\ stored' = IF staged[s].by = n THEN [stored EXCEPT ![s] = n] ELSE stored
  /\ req' = [req EXCEPT ![o] = Idle]
  /\ UNCHANGED <<staged, queue, wire, started, removed, faults, kills>>

\* External: an operator deletes the file, as the conflict's answer asks.
Unstage(s) ==
  /\ staged[s] # NoFile /\ Fault
  /\ staged' = [staged EXCEPT ![s] = NoFile]
  /\ stored' = [stored EXCEPT ![s] = 0]
  /\ UNCHANGED <<queue, wire, runs, req, started, removed, kills>>

----------------------------------------------------------------------------
(* acquire and handleStageURI *)

\* acquire finds the staged file and opens its run.
Acquire(o, s) ==
  /\ s \in WithTorrent /\ staged[s] # NoFile
  /\ Begins(o, s, "torrent", "read")
  /\ runs' = [runs EXCEPT ![started'] = [of |-> {<<s, "torrent">>}, st |-> "running"]]
  /\ UNCHANGED <<staged, queue, wire, stored, removed, faults, kills>>

\* AddTorrent reads the file, which may be gone or not complete yet.
ReadTorrent(o) ==
  LET f == staged[req[o].sys] IN
  /\ req[o].pc = "read"
  /\ req' = IF f = NoFile THEN [req EXCEPT ![o].pc = "settle", ![o].answer = "local"]
            ELSE [req EXCEPT ![o].pc = "send", ![o].whole = (f.len = Chunks)]
  /\ UNCHANGED <<staged, queue, wire, runs, started, stored, removed, faults, kills>>

StageURI(o, s) ==
  /\ StageTarget(s)
  /\ Begins(o, s, "uri", "send")
  /\ runs' = [runs EXCEPT ![started'] = [of |-> {<<s, "uri">>}, st |-> "running"]]
  /\ UNCHANGED <<staged, queue, wire, stored, removed, faults, kills>>

\* call: the request is posted.
Send(o) ==
  LET r == req[o] IN
  /\ r.pc = "send"
  /\ wire' = wire \cup {[n |-> r.n, at |-> r.at, sys |-> r.sys, what |-> r.what, whole |-> r.whole]}
  /\ Goto(o, "await")
  /\ UNCHANGED <<staged, queue, runs, started, stored, removed, faults, kills>>

\* submit, after a transport failure: it tries again until the retries are used up.
TryAgain(o) ==
  req' = IF req[o].at < SubmitRetries
         THEN [req EXCEPT ![o].pc = "send", ![o].at = @ + 1]
         ELSE [req EXCEPT ![o].pc = "settle", ![o].answer = "transport"]

\* The RPC secret, read afresh for every call, is missing or empty, or the
\* daemon cannot be dialled: nothing is posted, and that is a transport failure.
CallFails(o) ==
  /\ req[o].pc = "send" /\ Fault
  /\ TryAgain(o)
  /\ UNCHANGED <<staged, queue, wire, runs, started, stored, removed, kills>>

\* The call times out, or its answer is lost or malformed.
TransportFails(o) ==
  /\ req[o].pc = "await" /\ Fault
  /\ TryAgain(o)
  /\ UNCHANGED <<staged, queue, wire, runs, started, stored, removed, kills>>

\* The operator's page is closed: the request's context ends, and the retries.
Departs(o) ==
  /\ req[o].pc \in {"send", "await"} /\ Fault
  /\ req' = [req EXCEPT ![o].pc = "settle", ![o].answer = "transport"]
  /\ UNCHANGED <<staged, queue, wire, runs, started, stored, removed, kills>>

\* Mutant: any answer of the daemon's own counts as "already registered".
SucceededHard(answer) == answer \in {"gid", "registered", "refused"}

\* A gid, or code 12: "the submission DID land".
Succeeded(answer) == answer \in {"gid", "registered"}

\* FinishRun, and the answer to the operator.
Settle(o) ==
  LET r == req[o] IN
  /\ r.pc = "settle"
  /\ runs' = [runs EXCEPT ![r.n].st = IF Succeeded(r.answer) THEN "ok" ELSE "error"]
  /\ req' = [req EXCEPT ![o] = Idle]
  /\ UNCHANGED <<staged, queue, wire, started, stored, removed, faults, kills>>

----------------------------------------------------------------------------
(* The daemon (external) *)

\* A torn torrent is refused, a torrent it has is "already registered", a URI
\* is queued once more (its copies are one download here).
AnswerTo(m) ==
  IF m.what = "torrent" /\ ~m.whole THEN "refused"
  ELSE IF m.what = "torrent" /\ <<m.sys, m.what>> \in queue THEN "registered" ELSE "gid"

\* It reads a call; nobody may be waiting for the answer any more.
Serve(m) ==
  /\ m \in wire /\ wire' = wire \ {m}
  /\ queue' = IF AnswerTo(m) = "gid" THEN queue \cup {<<m.sys, m.what>>} ELSE queue
  /\ req' = [o \in Operators |->
       IF req[o].pc = "await" /\ req[o].n = m.n /\ req[o].at = m.at
       THEN [req[o] EXCEPT !.pc = "settle", !.answer = AnswerTo(m)] ELSE req[o]]
  /\ UNCHANGED <<staged, runs, started, stored, removed, faults, kills>>

\* A call is lost on its way.
Lose(m) ==
  /\ m \in wire /\ Fault
  /\ wire' = wire \ {m}
  /\ UNCHANGED <<staged, queue, runs, req, started, stored, removed, kills>>

\* The runs that have their download, or are about to be closed as if they had.
Served(d) ==
  {n \in DOMAIN runs : /\ d \in runs[n].of
                       /\ \/ runs[n].st = "ok"
                          \/ \E o \in Operators : /\ req[o].pc = "settle" /\ req[o].n = n
                                                  /\ Succeeded(req[o].answer)}

\* dlControl: an operator removes a download (pause and resume keep it).
Remove(d) ==
  /\ d \in queue /\ Fault
  /\ queue' = queue \ {d}
  /\ removed' = removed \cup Served(d)
  /\ UNCHANGED <<staged, wire, runs, req, started, stored, kills>>

\* The webapp dies; its next start closes the rows left running.
Kill ==
  /\ kills < MaxKills /\ kills' = kills + 1
  /\ req' = [o \in Operators |-> Idle]
  /\ runs' = [n \in DOMAIN runs |->
                IF runs[n].st = "running" THEN [runs[n] EXCEPT !.st = "error"] ELSE runs[n]]
  /\ UNCHANGED <<staged, queue, wire, started, stored, removed, faults>>

Handler(o) ==
  \/ OpenExclusive(o) \/ WriteChunk(o) \/ WriteFails(o) \/ Stored(o)
  \/ ReadTorrent(o) \/ Send(o) \/ CallFails(o) \/ TransportFails(o) \/ Settle(o)

Next ==
  \/ \E o \in Operators :
       \/ Handler(o) \/ Departs(o)
       \/ \E s \in Systems : StageTorrent(o, s) \/ Acquire(o, s) \/ StageURI(o, s)
  \/ \E m \in wire : Serve(m) \/ Lose(m)
  \/ \E d \in queue : Remove(d)
  \/ \E s \in Systems : Unstage(s)
  \/ Kill

Spec == Init /\ [][Next]_vars

----------------------------------------------------------------------------
(* Properties *)

\* A run recorded ok means the daemon has the download it was opened for, until
\* an operator removes it: whatever attempts fail, time out or are answered
\* late, and whoever else submits, uploads or removes for the same system,
\* acquire and handleStageURI never report a success that is not in the queue.
OkMeansLanded ==
  \A n \in DOMAIN runs : runs[n].st = "ok" => runs[n].of \subseteq queue \/ n \in removed

\* An upload the operator was told is staged is the file at the path, whole,
\* until somebody deletes it: no later upload, half-failed write or restart
\* overwrites it ("refusing to overwrite", handleStageTorrent).
StagedStays ==
  \A s \in Systems : stored[s] # 0 => staged[s] = [by |-> stored[s], len |-> Chunks]
=============================================================================
