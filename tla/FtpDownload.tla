----------------------------- MODULE FtpDownload -----------------------------
(***************************************************************************)
(* The FTP downloader of ftp.rs: one stream, and the `.get.part` file with *)
(* a single segment, over any number of runs on one output path.           *)
(*                                                                         *)
(* The control dialogue up to the answer to RETR touches no file; it is    *)
(* one step, which reads the part file and opens the output.  Of the part  *)
(* file only url, total_size and segments[0].downloaded are ever read.     *)
(* `pend` is the write buffer of the output's tokio::fs::File: write_all   *)
(* returns before the write is performed.                                  *)
(*                                                                         *)
(* What the environment may do wrong is `faults`, one of FaultSets:        *)
(*   net           control or data connection fails                        *)
(*   kill          the process dies between two steps (Ctrl-C)             *)
(*   save          writing the part file fails, leaving it torn or as it   *)
(*                 was                                                     *)
(*   write         a write to the output file fails                        *)
(*   killInFlight  the process dies while a write is still in the buffer   *)
(*   openGap       a run ends between the truncation of the output and the *)
(*                 first save                                              *)
(*   nosize        the server does not answer SIZE                         *)
(*   short         the data connection closes early and the server still   *)
(*                 answers 226                                             *)
(*   debug         a build with overflow checks                            *)
(*                                                                         *)
(* Not modelled: a file that changes on the server during a run, and other *)
(* programs that touch the files between runs.                             *)
(***************************************************************************)
EXTENDS OutputFile

CONSTANTS
    UrlOf,        \* [Contents -> the URL it is served at]
    SizeOf,       \* [Contents -> its length, the answer to SIZE]
    SaveInterval, \* 256 KiB
    MaxChunk,     \* longest chunk a read yields
    MaxRuns,      \* how often the user starts the program
    FaultSets,    \* environments: sets of what may go wrong, see above
    NoPart, Torn  \* part file absent; part file that does not parse

ASSUME FtpConstants ==
    /\ SaveInterval \in Nat \ {0}
    /\ MaxChunk \in Nat \ {0}
    /\ MaxRuns \in Nat
    /\ SizeOf \in [Contents -> 0 .. MaxSize]

\* url and total_size are all the part file knows a body by.
ASSUME KeyIdentifiesContent ==
    \A c, d \in Contents : UrlOf[c] = UrlOf[d] /\ SizeOf[c] = SizeOf[d] => c = d

PartFile == [url : {UrlOf[c] : c \in Contents}, total_size : Nat, downloaded : Nat]

ASSUME NoFileDistinct == NoPart \notin PartFile /\ Torn \notin PartFile

VARIABLES
    disk,      \* the output file
    partFile,  \* a PartFile, NoPart or Torn
    phase,     \* stopped, save, stream, mark (a save in the loop), flush, failed
    outcome,   \* how the last run ended: none, ok, err, killed
    job,       \* the content the run downloads
    sized,     \* the server answered SIZE
    pos,       \* `downloaded`, and the position in the output file
    pend,      \* bytes before pos still in the write buffer
    werr,      \* the last buffered write failed, not yet reported
    runs,      \* runs started so far
    faults     \* what may go wrong in this behaviour

fileVars == <<disk, partFile>>
vars == <<disk, partFile, phase, outcome, job, sized, pos, pend, werr, runs, faults>>

IsFile(part) == part \notin {NoPart, Torn}

TypeOK ==
    /\ disk \in [Offsets -> Contents \union {Zero, None}]
    /\ partFile \in PartFile \union {NoPart, Torn}
    /\ phase \in {"stopped", "save", "stream", "mark", "flush", "failed"}
    /\ outcome \in {"none", "ok", "err", "killed"}
    /\ job \in Contents
    /\ sized \in BOOLEAN
    /\ pos \in 0 .. SizeOf[job] /\ pend \in 0 .. pos
    /\ werr \in BOOLEAN
    /\ runs \in 0 .. MaxRuns
    /\ faults \in FaultSets

Init ==
    /\ disk = Empty /\ partFile = NoPart
    /\ phase = "stopped" /\ outcome = "none"
    /\ job \in Contents
    /\ sized = TRUE
    /\ pos = 0 /\ pend = 0 /\ werr = FALSE
    /\ runs = 0
    /\ faults \in FaultSets
-----------------------------------------------------------------------------
Part(n) == [url |-> UrlOf[job], total_size |-> SizeOf[job], downloaded |-> n]

KeyMatchesUrl(part, c) == part.url = UrlOf[c]   \* mutant

KeyMatches(part, c) == part.url = UrlOf[c] /\ part.total_size = SizeOf[c]

ResumableAnyKey(c) == IsFile(partFile)   \* mutant

\* resume_from: the part file is about this file, and between its ends.
Resumable(c) ==
    /\ IsFile(partFile) /\ KeyMatches(partFile, c)
    /\ 0 < partFile.downloaded /\ partFile.downloaded < SizeOf[c]

FirstStageUnsaved(known) == "stream"   \* mutant

\* A download from the start of a file of known length saves its part file first.
FirstStage(known) == IF known THEN "save" ELSE "stream"

\* The answer to SIZE is a number, or it is not: then there is no size.
SizeAnswer(known) == known \/ "nosize" \in faults

\* A reply is missing, is not a reply, or has another code than expected.
BadReply == "net" \in faults

\* The dialogue up to RETR, and the output file opened: truncated, or
\* positioned at the resumed offset.
Start(c, known) ==
    /\ phase = "stopped" /\ runs < MaxRuns
    /\ SizeAnswer(known)
    /\ runs' = runs + 1
    /\ job' = c
    /\ sized' = known
    /\ outcome' = "none"
    /\ IF known /\ Resumable(c)
       THEN /\ phase' = "stream"
            /\ pos' = partFile.downloaded
            /\ UNCHANGED disk
       ELSE /\ phase' = FirstStage(known)
            /\ pos' = 0
            /\ disk' = Empty
    /\ pend' = 0 /\ werr' = FALSE
    /\ UNCHANGED <<partFile, faults>>

\* Anything in the dialogue fails before the output file is opened.
StartFails(c) ==
    /\ phase = "stopped" /\ runs < MaxRuns
    /\ BadReply
    /\ runs' = runs + 1
    /\ job' = c
    /\ outcome' = "err"
    /\ pos' = 0 /\ pend' = 0 /\ werr' = FALSE
    /\ UNCHANGED <<fileVars, phase, sized, faults>>

\* The part file of a download from the start.  For an empty file t - 1 wraps,
\* or panics.
SavePart ==
    /\ phase = "save"
    /\ partFile' = Part(0)
    /\ phase' = "stream"
    /\ UNCHANGED <<disk, outcome, job, sized, pos, pend, werr, runs, faults>>

SavePartFails ==
    /\ phase = "save"
    /\ \/ "save" \in faults /\ partFile' = Torn
       \/ "openGap" \in faults /\ "save" \in faults /\ UNCHANGED partFile
       \/ "debug" \in faults /\ SizeOf[job] = 0 /\ UNCHANGED partFile
    /\ phase' = "failed"
    /\ UNCHANGED <<disk, outcome, job, sized, pos, pend, werr, runs, faults>>

CrossesExactly(n) == pos % SaveInterval = 0   \* mutant

\* The n bytes up to the new position carried it over a save interval.
Crosses(n) == pos' % SaveInterval < n

\* A read of n bytes, and write_all, which waits until the buffer is empty.
Receive(n) ==
    /\ phase = "stream" /\ pend = 0 /\ ~werr
    /\ pos + n <= SizeOf[job]
    /\ pos' = pos + n
    /\ pend' = n
    /\ phase' = IF sized /\ Crosses(n) THEN "mark" ELSE "stream"
    /\ UNCHANGED <<fileVars, outcome, job, sized, werr, runs, faults>>

MarkProgressChunk ==   \* mutant
    /\ phase = "mark"
    /\ partFile' = Part(pend)
    /\ phase' = "stream"
    /\ UNCHANGED <<disk, outcome, job, sized, pos, pend, werr, runs, faults>>

\* resume::save in the loop; its error ends the run.
MarkProgress ==
    /\ phase = "mark"
    /\ partFile' = Part(pos)
    /\ phase' = "stream"
    /\ UNCHANGED <<disk, outcome, job, sized, pos, pend, werr, runs, faults>>

MarkProgressFails ==
    /\ "save" \in faults
    /\ phase = "mark"
    /\ partFile' \in {partFile, Torn}
    /\ phase' = "failed"
    /\ UNCHANGED <<disk, outcome, job, sized, pos, pend, werr, runs, faults>>

StreamEnds ==
    /\ phase = "stream"
    /\ pos = SizeOf[job] \/ "short" \in faults
    /\ phase' = "flush"
    /\ UNCHANGED <<fileVars, outcome, job, sized, pos, pend, werr, runs, faults>>

\* write_all or flush reports the error of the write before it.
ReportError ==
    /\ werr /\ phase \in {"stream", "flush"}
    /\ phase' = "failed"
    /\ UNCHANGED <<fileVars, outcome, job, sized, pos, pend, werr, runs, faults>>

\* The data connection breaks, 226 does not come, or QUIT cannot be sent.
NetFails ==
    /\ \/ phase = "stream" /\ "net" \in faults
       \/ phase = "flush" /\ pend = 0 /\ BadReply
    /\ phase' = "failed"
    /\ UNCHANGED <<fileVars, outcome, job, sized, pos, pend, werr, runs, faults>>

\* The blocking pool performs the buffered write.
WriteLands ==
    /\ pend > 0
    /\ disk' = WriteAt(disk, pos - pend, pend, job)
    /\ pend' = 0
    /\ UNCHANGED <<partFile, phase, outcome, job, sized, pos, werr, runs, faults>>

WriteFails ==
    /\ "write" \in faults
    /\ pend > 0
    /\ pend' = 0
    /\ werr' = TRUE
    /\ UNCHANGED <<fileVars, phase, outcome, job, sized, pos, runs, faults>>
-----------------------------------------------------------------------------
Stop(how) ==
    /\ phase' = "stopped"
    /\ outcome' = how
    /\ pos' = 0 /\ pend' = 0 /\ werr' = FALSE
    /\ UNCHANGED <<disk, job, sized, runs, faults>>

CompleteUnflushed ==   \* mutant
    /\ phase = "flush"
    /\ partFile' = NoPart
    /\ Stop("ok")

\* Flushed, answered 226, said QUIT: the part file goes.
Complete ==
    /\ phase = "flush" /\ pend = 0 /\ ~werr
    /\ partFile' = NoPart
    /\ Stop("ok")

\* download returned Err; the runtime finishes the buffered write.
Fail ==
    /\ phase = "failed" /\ pend = 0
    /\ Stop("err")
    /\ UNCHANGED partFile

\* std::fs::write truncates before it writes: a kill inside a save tears it.
Kill ==
    /\ "kill" \in faults
    /\ phase # "stopped"
    /\ (pend > 0) => "killInFlight" \in faults
    /\ \/ (phase = "save" => "openGap" \in faults) /\ UNCHANGED partFile
       \/ phase \in {"save", "mark"} /\ partFile' = Torn
    /\ Stop("killed")

\* The user does not start the program again.
GiveUp == phase = "stopped" /\ runs = MaxRuns /\ UNCHANGED vars

Progress ==
    \/ SavePart \/ MarkProgress \/ StreamEnds \/ ReportError \/ WriteLands
    \/ \E n \in 1 .. MaxChunk : Receive(n)
    \/ Complete \/ Fail

Next ==
    \/ \E c \in Contents : StartFails(c) \/ \E known \in BOOLEAN : Start(c, known)
    \/ Progress
    \/ SavePartFails \/ MarkProgressFails \/ NetFails \/ WriteFails \/ Kill
    \/ GiveUp

Spec == Init /\ [][Next]_vars
-----------------------------------------------------------------------------
(***************************************************************************)
(* Properties.                                                             *)
(***************************************************************************)
\* Connections break, the process dies between two steps and saves fail; no more.
Benign == faults \subseteq {"net", "kill", "save"}

Truthful == faults \subseteq {"net", "kill", "save", "short"}

\* In a benign environment a run that reports success leaves exactly the file it
\* was asked for, whatever earlier runs left behind (download returning Ok).
CompletedIntact == Benign /\ outcome = "ok" => disk = Body(job, SizeOf[job])

\* There, and also if data connections close early and the server answers 226 to
\* it, what the part file counts is in the output file or in the buffer, so that
\* REST may skip it (the order of write_all and save in the loop).
ClaimsOnDisk ==
    Truthful /\ phase # "save" /\ IsFile(partFile) =>
        \A c \in Contents : KeyMatches(partFile, c) =>
            \A o \in 0 .. partFile.downloaded - 1 :
                disk[o] = c \/ (job = c /\ o \in pos - pend .. pos - 1)

\* While a file of known length is received the part file is less than one save
\* interval behind, in resumed runs too, whose first chunk need not start at a
\* multiple of the interval.
LossBounded ==
    phase = "stream" /\ sized =>
        IsFile(partFile) /\ pos - partFile.downloaded < SaveInterval

\* What the part file counts of an unfinished file is not taken back.  Its count
\* never shrinks; and a run for that file that was told its size resumes: no byte
\* that is counted and on disk is cut off or overwritten with another (README.md,
\* "FTP": resume from the last byte written).  Not said, because the code does not
\* do it: a run whose SIZE is not answered truncates the output and starts over
\* while the part file stays (resume_from, truncate); and a part file that counts
\* the whole file, of a run that only missed the 226, is started over as well.
ClaimsKept ==
    [][IsFile(partFile) /\ partFile.downloaded < partFile.total_size =>
        /\ IsFile(partFile') /\ partFile'.url = partFile.url
             /\ partFile'.total_size = partFile.total_size
           => partFile'.downloaded >= partFile.downloaded
        /\ sized' /\ KeyMatches(partFile, job') =>
             \A o \in 0 .. partFile.downloaded - 1 : disk[o] = job' => disk'[o] = job']_vars
=============================================================================
