---------------------------- MODULE HttpDownload ----------------------------
(***************************************************************************)
(* The HTTP downloader of http.rs with the `.get.part` file of resume.rs,  *)
(* over any number of runs of the program on one output path.              *)
(*                                                                         *)
(* A run asks for one of the Contents, probes the server with HEAD, and    *)
(* then either fetches byte ranges in parallel (segmented_download), each  *)
(* range in a task of its own, or the whole body in one stream             *)
(* (simple_download).  The output file and the part file are all that      *)
(* survives a run.                                                         *)
(*                                                                         *)
(* File writes go through tokio::fs::File: write_all returns as soon as    *)
(* the bytes are in the handle's buffer and a thread of the blocking pool  *)
(* has been asked to write them.  The next write_all, and flush, wait for  *)
(* that write and report its error.  `pend` is that buffer.                *)
(*                                                                         *)
(* What the environment may do wrong is the constant Faults:               *)
(*   net           requests and streams fail                               *)
(*   kill          the process dies between two steps (Ctrl-C)             *)
(*   save          writing the part file fails, leaving it torn or as it   *)
(*                 was                                                     *)
(*   write         a write to the output file fails                        *)
(*   killInFlight  the process dies while a write is still in a buffer     *)
(*   openGap       a run ends, killed or unable to write the part file,    *)
(*                 between set_len on the output file and the first save   *)
(*   head          HEAD fails or does not offer ranges                     *)
(*   short         a body ends early and still looks complete: a 206 of    *)
(*                 less than the range, or a body without a length whose   *)
(*                 connection closes                                       *)
(*                                                                         *)
(* Not modelled: another program changing the output file or deleting the  *)
(* part file between runs, and a server that answers 206 with bytes of     *)
(* another range.                                                          *)
(***************************************************************************)
EXTENDS Segments, OutputFile

CONSTANTS
    UrlOf,         \* [Contents -> the URL it is served at]
    SizeOf,        \* [Contents -> its length, the Content-Length of HEAD]
    ThreadChoices, \* values of --threads
    MaxThreads,    \* bound of ThreadChoices
    MinSegment,    \* MIN_SEGMENT_SIZE
    SaveInterval,  \* 256 KiB, the distance between two saves of a task
    MaxChunk,      \* longest chunk a stream yields
    MaxRuns,       \* how often the user starts the program
    Faults,        \* what may go wrong, see above
    NoPart, Torn   \* part file absent; part file that does not parse

ASSUME HttpConstants ==
    /\ MaxThreads \in Nat \ {0}
    /\ MinSegment \in Nat \ {0}
    /\ SaveInterval \in Nat \ {0}
    /\ MaxChunk \in Nat \ {0}
    /\ MaxRuns \in Nat
    /\ SizeOf \in [Contents -> 1 .. MaxSize]
    /\ ThreadChoices \subseteq 1 .. MaxThreads

\* The server never replaces a body by another one of the same length at the
\* same URL: url and total_size are all the part file knows a body by.
ASSUME KeyIdentifiesContent ==
    \A c, d \in Contents : UrlOf[c] = UrlOf[d] /\ SizeOf[c] = SizeOf[d] => c = d

Tasks == 0 .. MaxThreads - 1

VARIABLES
    disk,      \* [Offsets -> Contents \cup {Zero, None}]: the output file
    partFile,  \* the `.get.part` file: a PartFile(n), NoPart or Torn
    phase,     \* where the program is: stopped, open, save, running, simple
    outcome,   \* how the last run ended: none, ok, err, killed
    job,       \* the content the run downloads
    shared,    \* the SharedPart of the run
    pc,        \* [Tasks -> where the task of a segment is]
    pos,       \* [Tasks -> file offset after the last chunk received]
    written,   \* [Tasks -> bytes received since the last mark_progress]
    pend,      \* [Tasks -> bytes before pos still in the write buffer]
    werr,      \* [Tasks -> the last buffered write failed, not yet reported]
    saved,     \* the last save of this run did its work (no code reads it)
    runs       \* runs started so far

fileVars == <<disk, partFile>>
taskVars == <<pc, pos, written, pend, werr>>
vars == <<disk, partFile, phase, outcome, job, shared, taskVars, saved, runs>>
-----------------------------------------------------------------------------
PartFile(n) == [url : {UrlOf[c] : c \in Contents}, total_size : Nat,
                segments : [0 .. n - 1 -> Segment]]

IsPart(part) == \E n \in 1 .. MaxThreads : part \in PartFile(n)

ASSUME NoFileDistinct == ~IsPart(NoPart) /\ ~IsPart(Torn)

TypeOK ==
    /\ disk \in [Offsets -> Contents \union {Zero, None}]
    /\ partFile \in {NoPart, Torn} \/ IsPart(partFile)
    /\ phase \in {"stopped", "open", "save", "running", "simple"}
    /\ outcome \in {"none", "ok", "err", "killed"}
    /\ job \in Contents
    /\ IsPart(shared)
    /\ pc \in [Tasks -> {"off", "request", "stream", "mark", "flush", "done", "failed"}]
    /\ pos \in [Tasks -> Nat]
    /\ written \in [Tasks -> Nat]
    /\ pend \in [Tasks -> Nat]
    /\ werr \in [Tasks -> BOOLEAN]
    /\ saved \in BOOLEAN
    /\ runs \in 0 .. MaxRuns

EffectiveThreads(total, threads) ==
    LET fit == total \div MinSegment
    IN  IF threads <= fit THEN threads ELSE IF fit >= 1 THEN fit ELSE 1

\* The test of download() that picks segmented_download.
Segmentable(c, threads) == threads > 1 /\ SizeOf[c] >= 2 * MinSegment

FreshPart(c, threads) ==
    [ url |-> UrlOf[c], total_size |-> SizeOf[c],
      segments |-> CreateSegments(SizeOf[c], EffectiveThreads(SizeOf[c], threads)) ]

KeyMatchesUrl(part, c) == part.url = UrlOf[c]   \* mutant

\* resume::load succeeded and the part file is about this download.
KeyMatches(part, c) == part.url = UrlOf[c] /\ part.total_size = SizeOf[c]

ResumableAnyKey(c) == partFile \notin {NoPart, Torn}   \* mutant

Resumable(c) == partFile \notin {NoPart, Torn} /\ KeyMatches(partFile, c)

PartForFresh(c, threads) == FreshPart(c, threads)   \* mutant

PartFor(c, threads) == IF Resumable(c) THEN partFile ELSE FreshPart(c, threads)

AllDone(part) == \A i \in DOMAIN part.segments : IsDone(part.segments[i])

Idle ==
    /\ pc = [t \in Tasks |-> "off"]
    /\ pos = [t \in Tasks |-> 0]
    /\ written = [t \in Tasks |-> 0]
    /\ pend = [t \in Tasks |-> 0]
    /\ werr = [t \in Tasks |-> FALSE]

Init ==
    /\ disk = Empty
    /\ partFile = NoPart
    /\ phase = "stopped"
    /\ outcome = "none"
    /\ job \in Contents
    /\ shared = FreshPart(job, 1)
    /\ Idle
    /\ saved = FALSE
    /\ runs = 0
-----------------------------------------------------------------------------
(***************************************************************************)
(* The start of a run, up to the first thing it does to a file.            *)
(***************************************************************************)
StartRun ==
    /\ phase = "stopped"
    /\ runs < MaxRuns
    /\ runs' = runs + 1
    /\ UNCHANGED saved

\* All segments of the part file are done: drop it and report success.
AlreadyComplete(c, threads) ==
    /\ StartRun
    /\ Segmentable(c, threads)
    /\ AllDone(PartFor(c, threads))
    /\ job' = c
    /\ shared' = PartFor(c, threads)
    /\ partFile' = NoPart
    /\ outcome' = "ok"
    /\ UNCHANGED <<disk, phase, taskVars>>

StartSegmented(c, threads) ==
    /\ StartRun
    /\ Segmentable(c, threads)
    /\ ~AllDone(PartFor(c, threads))
    /\ job' = c
    /\ shared' = PartFor(c, threads)
    /\ phase' = "open"
    /\ outcome' = "none"
    /\ UNCHANGED <<disk, partFile, taskVars>>

\* GET was answered and File::create has truncated the output file.
StartSimple(c, threads) ==
    /\ StartRun
    /\ ~Segmentable(c, threads) \/ "head" \in Faults
    /\ job' = c
    /\ phase' = "simple"
    /\ outcome' = "none"
    /\ disk' = Empty
    /\ pc' = [pc EXCEPT ![0] = "stream"]
    /\ UNCHANGED <<partFile, shared, pos, written, pend, werr>>

\* simple_download fails before it opens the output file.
StartFails(c, threads) ==
    /\ StartRun
    /\ "net" \in Faults
    /\ ~Segmentable(c, threads) \/ "head" \in Faults
    /\ job' = c
    /\ outcome' = "err"
    /\ UNCHANGED <<disk, partFile, phase, shared, taskVars>>

OpenOutput ==
    /\ phase = "open"
    /\ disk' = SetLen(disk, SizeOf[job])
    /\ phase' = "save"
    /\ UNCHANGED <<partFile, outcome, job, shared, taskVars, saved, runs>>

\* The first save, and a task spawned for every segment that is not done.
SavePart ==
    /\ phase = "save"
    /\ partFile' = shared
    /\ saved' = TRUE
    /\ phase' = "running"
    /\ pc' = [t \in Tasks |->
                IF t \in DOMAIN shared.segments /\ ~IsDone(shared.segments[t])
                THEN "request" ELSE "off"]
    /\ UNCHANGED <<disk, outcome, job, shared, pos, written, pend, werr, runs>>

SavePartFails ==
    /\ phase = "save"
    /\ "save" \in Faults
    /\ \/ partFile' = Torn
       \/ "openGap" \in Faults /\ UNCHANGED partFile
    /\ phase' = "stopped"
    /\ outcome' = "err"
    /\ UNCHANGED <<disk, job, shared, taskVars, saved, runs>>
-----------------------------------------------------------------------------
(***************************************************************************)
(* One task per segment.  In a simple download task 0 is the only stream.  *)
(***************************************************************************)
Last(t) == IF phase = "simple" THEN SizeOf[job] - 1 ELSE shared.segments[t].end

Goto(t, label) == pc' = [pc EXCEPT ![t] = label]

\* The server answers 206 and the file is positioned where the range starts.
Request(t) ==
    /\ phase = "running" /\ pc[t] = "request"
    /\ pos' = [pos EXCEPT ![t] = ResumeOffset(shared.segments[t])]
    /\ Goto(t, "stream")
    /\ UNCHANGED <<disk, partFile, phase, outcome, job, shared, written, pend, werr, saved, runs>>

CrossesExactly(w, n) == w % SaveInterval = 0   \* mutant

\* The chunk of n bytes that made it w carried `written` over a save interval.
Crosses(w, n) == w % SaveInterval < n

\* A chunk of n bytes goes into the write buffer, which must be empty.
Receive(t, n) ==
    /\ pc[t] = "stream" /\ pend[t] = 0 /\ ~werr[t]
    /\ pos[t] + n <= Last(t) + 1
    /\ pos' = [pos EXCEPT ![t] = @ + n]
    /\ pend' = [pend EXCEPT ![t] = n]
    /\ IF phase = "running"
       THEN /\ written' = [written EXCEPT ![t] = @ + n]
            /\ IF Crosses(written[t] + n, n)
               THEN Goto(t, "mark")
               ELSE UNCHANGED pc
       ELSE UNCHANGED <<written, pc>>
    /\ UNCHANGED <<disk, partFile, phase, outcome, job, shared, werr, saved, runs>>

\* resume::save: its error is ignored by both callers below.
Save(part) ==
    \/ partFile' = part /\ saved' = TRUE
    \/ "save" \in Faults /\ partFile' \in {partFile, Torn} /\ saved' = FALSE

\* Mutant: `written` goes on counting from the first chunk.
MarkProgressNoReset(t) ==
    /\ pc[t] = "mark"
    /\ shared' = [shared EXCEPT !.segments[t].downloaded = @ + written[t]]
    /\ Save(shared')
    /\ Goto(t, "stream")
    /\ UNCHANGED <<disk, phase, outcome, job, pos, written, pend, werr, runs>>

\* resume::mark_progress, and the reset of `written` behind it.
MarkProgress(t) ==
    /\ pc[t] = "mark"
    /\ shared' = [shared EXCEPT !.segments[t].downloaded = @ + written[t]]
    /\ Save(shared')
    /\ written' = [written EXCEPT ![t] = 0]
    /\ Goto(t, "stream")
    /\ UNCHANGED <<disk, phase, outcome, job, pos, pend, werr, runs>>

\* The body ends.  Neither mode compares what came with a length.
StreamEnds(t) ==
    /\ pc[t] = "stream"
    /\ pos[t] = Last(t) + 1 \/ "short" \in Faults
    /\ Goto(t, "flush")
    /\ UNCHANGED <<fileVars, phase, outcome, job, shared, pos, written, pend, werr, saved, runs>>

\* flush returned, so nothing is buffered; then resume::mark_segment_done.
FinishSegment(t) ==
    /\ phase = "running" /\ pc[t] = "flush" /\ pend[t] = 0 /\ ~werr[t]
    /\ shared' = [shared EXCEPT !.segments[t].downloaded =
                    shared.segments[t].end - shared.segments[t].start + 1]
    /\ Save(shared')
    /\ Goto(t, "done")
    /\ UNCHANGED <<disk, phase, outcome, job, pos, written, pend, werr, runs>>

\* write_all or flush reports the error of the write before it.
ReportError(t) ==
    /\ werr[t] /\ pc[t] \in {"stream", "flush"}
    /\ Goto(t, "failed")
    /\ UNCHANGED <<fileVars, phase, outcome, job, shared, pos, written, pend, werr, saved, runs>>

\* The request is refused or the stream breaks: the task returns Err.
TaskFails(t) ==
    /\ "net" \in Faults /\ pc[t] \in {"request", "stream"}
    /\ Goto(t, "failed")
    /\ UNCHANGED <<fileVars, phase, outcome, job, shared, pos, written, pend, werr, saved, runs>>

(***************************************************************************)
(* The blocking pool performs a buffered write.                            *)
(***************************************************************************)
WriteLands(t) ==
    /\ pend[t] > 0
    /\ disk' = Write(disk, pos[t] - pend[t], pend[t], job)
    /\ pend' = [pend EXCEPT ![t] = 0]
    /\ UNCHANGED <<partFile, phase, outcome, job, shared, pc, pos, written, werr, saved, runs>>

WriteFails(t) ==
    /\ "write" \in Faults
    /\ pend[t] > 0
    /\ pend' = [pend EXCEPT ![t] = 0]
    /\ werr' = [werr EXCEPT ![t] = TRUE]
    /\ UNCHANGED <<fileVars, phase, outcome, job, shared, pc, pos, written, saved, runs>>
-----------------------------------------------------------------------------
(***************************************************************************)
(* The end of a run.  main awaits the handles in order, so an error shows  *)
(* once every handle before it is Ok; the other tasks go on until then.    *)
(* When main returns, the runtime lets a task in synchronous code reach     *)
(* its next await, drops the tasks and finishes the buffered writes.       *)
(***************************************************************************)
Stop(how) ==
    /\ phase' = "stopped"
    /\ outcome' = how
    /\ pc' = [t \in Tasks |-> "off"]
    /\ pos' = [t \in Tasks |-> 0]
    /\ written' = [t \in Tasks |-> 0]
    /\ pend' = [t \in Tasks |-> 0]
    /\ werr' = [t \in Tasks |-> FALSE]
    /\ saved' = FALSE
    /\ UNCHANGED <<job, shared, runs>>

ReturnedEverySegment(t) == pc[t] = "done" \/ t \notin DOMAIN shared.segments  \* mutant

Returned(t) == pc[t] \in {"off", "done"}

Complete ==
    /\ phase = "running"
    /\ \A t \in Tasks : Returned(t)
    /\ partFile' = NoPart
    /\ UNCHANGED disk
    /\ Stop("ok")

CompleteSimpleUnflushed ==   \* mutant
    /\ phase = "simple"
    /\ pc[0] = "flush"
    /\ partFile' = NoPart
    /\ UNCHANGED disk
    /\ Stop("ok")

CompleteSimple ==
    /\ phase = "simple"
    /\ pc[0] = "flush" /\ pend[0] = 0 /\ ~werr[0]
    /\ partFile' = NoPart
    /\ UNCHANGED disk
    /\ Stop("ok")

Fail ==
    /\ \E t \in Tasks :
        /\ pc[t] = "failed"
        /\ \A u \in Tasks : u < t => Returned(u)
    /\ \A t \in Tasks : pend[t] = 0 /\ pc[t] # "mark"
    /\ UNCHANGED fileVars
    /\ Stop("err")

Saving ==
    \/ phase = "save"
    \/ \E t \in Tasks : pc[t] = "mark"
    \/ phase = "running" /\ \E t \in Tasks : pc[t] = "flush" /\ pend[t] = 0 /\ ~werr[t]

\* Killed.  std::fs::write truncates before it writes, so a kill inside a save
\* leaves a part file that does not parse.
Kill ==
    /\ phase # "stopped"
    /\ "kill" \in Faults
    /\ (\E t \in Tasks : pend[t] > 0) => "killInFlight" \in Faults
    /\ \/ (phase = "save" => "openGap" \in Faults) /\ UNCHANGED partFile
       \/ Saving /\ partFile' = Torn
    /\ UNCHANGED disk
    /\ Stop("killed")

Step(t) ==
    \/ Request(t)
    \/ \E n \in 1 .. MaxChunk : Receive(t, n)
    \/ MarkProgress(t)
    \/ StreamEnds(t)
    \/ FinishSegment(t)
    \/ ReportError(t)
    \/ WriteLands(t)

Mishap(t) == TaskFails(t) \/ WriteFails(t)

Start ==
    \E c \in Contents, threads \in ThreadChoices :
        \/ AlreadyComplete(c, threads)
        \/ StartSegmented(c, threads)
        \/ StartSimple(c, threads)
        \/ StartFails(c, threads)

Progress ==
    \/ OpenOutput \/ SavePart
    \/ \E t \in Tasks : Step(t)
    \/ Complete \/ CompleteSimple \/ Fail

\* The user does not start the program again.
GiveUp == phase = "stopped" /\ runs = MaxRuns /\ UNCHANGED vars

Next ==
    \/ Start
    \/ Progress
    \/ SavePartFails
    \/ \E t \in Tasks : Mishap(t)
    \/ Kill
    \/ GiveUp

Spec == Init /\ [][Next]_vars

\* The scheduler runs every task that can go on, and a server that neither
\* answers nor closes is taken to close in the end: the client has no timeout.
\* Faults, kills and the user's next run are never owed.
FairSpec == Spec /\ WF_vars(Progress)
-----------------------------------------------------------------------------
(***************************************************************************)
(* Properties.                                                             *)
(***************************************************************************)
\* A run that reports success leaves exactly the bytes it was asked for,
\* whatever earlier runs left behind (http.rs, download returning Ok).
CompletedIntact ==
    outcome = "ok" =>
        disk = Body(job, SizeOf[job])

\* A one-stream run that reports success leaves exactly the bytes it received,
\* from the first to the last and nothing of an earlier file, a failed write of
\* the last chunk included.  That is the whole body unless the body ended early:
\* no length is compared (simple_download: File::create, the loop, flush).
SimpleExact ==
    [][phase = "simple" /\ outcome' = "ok" =>
        /\ disk' = Body(job, pos[0])
        /\ "short" \in Faults \/ pos[0] = SizeOf[job]]_vars

\* Byte o is in the buffer of a task of this run and will be written as c.
InFlight(o, c) ==
    /\ phase = "running" /\ job = c
    /\ \E t \in Tasks : o \in pos[t] - pend[t] .. pos[t] - 1

\* Every byte the part file counts as downloaded is in the output file or on
\* its way there, so that skipping it on the next run is right
\* (resume::mark_progress and mark_segment_done against the writes they follow).
ClaimsOnDisk ==
    phase # "save" /\ partFile \notin {NoPart, Torn} =>
        \A c \in Contents : KeyMatches(partFile, c) =>
            \A i \in DOMAIN partFile.segments :
                \A o \in Claimed(partFile.segments[i]) : disk[o] = c \/ InFlight(o, c)

\* A kill costs less than one save interval per segment, measured against the
\* part file itself: a task waiting for its next chunk has received less than that
\* beyond the offset the next run will resume its segment at.  The part file lags
\* further only after a save that failed, whose error is ignored, and the next
\* save of any task makes up for it (download_segment's test on `written`,
\* resume::mark_progress, resume::save).
UnsavedBounded ==
    phase = "running" /\ saved =>
        /\ partFile \notin {NoPart, Torn}
        /\ \A t \in Tasks : pc[t] = "stream" =>
            pos[t] - ResumeOffset(partFile.segments[t]) < SaveInterval

SamePart(p, q) ==
    /\ p \notin {NoPart, Torn} /\ q \notin {NoPart, Torn}
    /\ p.url = q.url /\ p.total_size = q.total_size

\* What the part file says of a download is only ever added to: no save puts an
\* older state over a newer one, and no run starts over what it could resume
\* (the lock around SharedPart, and segmented_download's use of resume::load).
ClaimsKept ==
    [][SamePart(partFile, partFile') =>
        \A i \in DOMAIN partFile.segments :
            Claimed(partFile.segments[i]) \subseteq Claimed(partFile'.segments[i])]_vars

\* Every run ends: no task waits for another one that has returned, and no
\* handle is awaited that was never spawned (the await loop of
\* segmented_download).
RunEnds == phase # "stopped" ~> phase = "stopped"

\* A run that got as far as its tasks, lost none of them and is not killed
\* reports success, however much of the file earlier runs had already fetched.
UnfailedSucceeds ==
    phase = "running" ~> outcome \in {"ok", "killed"} \/ \E t \in Tasks : pc[t] = "failed"
=============================================================================
