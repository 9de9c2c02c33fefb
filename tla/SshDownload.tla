----------------------------- MODULE SshDownload -----------------------------
(***************************************************************************)
(* The SFTP downloader of ssh.rs over any number of runs on one output     *)
(* path.  It keeps no part file: what a run resumes is told by the length  *)
(* of the output file alone.  `pend` is the write buffer of the output's   *)
(* tokio::fs::File, which is never flushed: download returns, and the      *)
(* runtime performs the last write before the process ends.                *)
(*                                                                         *)
(* What the environment may do wrong is the constant Faults:               *)
(*   net      the session or a read fails                                  *)
(*   kill     the process dies, with a write still in the buffer or not    *)
(*   write    a write fails, before the last one                           *)
(*   last     the last write of a run fails                                *)
(*   nosize   the server does not tell the size                            *)
(*                                                                         *)
(* Connecting and authenticating touch no state of the program.            *)
(***************************************************************************)
EXTENDS OutputFile

CONSTANTS
    SizeOf,     \* [Contents -> its length on the server]
    MaxChunk,   \* longest chunk a read yields
    MaxRuns,    \* how often the user starts the program
    Faults      \* what may go wrong, see above

ASSUME SshConstants ==
    /\ MaxChunk \in Nat \ {0}
    /\ MaxRuns \in Nat
    /\ SizeOf \in [Contents -> 0 .. MaxSize]

VARIABLES
    disk,      \* the output file
    phase,     \* stopped, stream, failed, closing (download returned Ok)
    outcome,   \* how the last run ended: none, ok, err, killed
    job,       \* the content the run downloads
    sized,     \* the server told the size
    from,      \* resume_offset
    pos,       \* position in the remote file
    pend,      \* bytes still in the write buffer
    werr,      \* the last buffered write failed, not yet reported
    runs       \* runs started so far

vars == <<disk, phase, outcome, job, sized, from, pos, pend, werr, runs>>

TypeOK ==
    /\ disk \in [Offsets -> Contents \union {Zero, None}]
    /\ phase \in {"stopped", "stream", "failed", "closing"}
    /\ outcome \in {"none", "ok", "err", "killed"}
    /\ job \in Contents /\ sized \in BOOLEAN
    /\ from \in 0 .. SizeOf[job] /\ pos \in from .. SizeOf[job] /\ pend \in 0 .. pos - from
    /\ werr \in BOOLEAN
    /\ runs \in 0 .. MaxRuns

Init ==
    /\ disk = Empty
    /\ phase = "stopped" /\ outcome = "none"
    /\ job \in Contents /\ sized = TRUE
    /\ from = 0 /\ pos = 0 /\ pend = 0 /\ werr = FALSE
    /\ runs = 0
-----------------------------------------------------------------------------
\* The length of the output file: it has n units.
HasLength(n) == \A o \in Offsets : disk[o] # None <=> o < n

ResumesReversed(c, told, n) == told /\ n > SizeOf[c]   \* mutant

\* resume_offset > 0: the output is shorter than the remote file.
Resumes(c, told, n) == told /\ n > 0 /\ n < SizeOf[c]

SeekForgotten(offset) == 0   \* mutant

\* Where reading starts: the seek on the remote file.
Seek(offset) == offset

\* Up to the output file being opened, to append or from the start.
Start(c, told) ==
    /\ phase = "stopped" /\ runs < MaxRuns
    /\ told \/ "nosize" \in Faults
    /\ runs' = runs + 1
    /\ job' = c /\ sized' = told
    /\ \E n \in 0 .. MaxSize :
        /\ HasLength(n)
        /\ from' = IF Resumes(c, told, n) THEN n ELSE 0
        /\ disk' = IF Resumes(c, told, n) THEN disk ELSE Empty
    /\ pos' = Seek(from')
    /\ phase' = "stream" /\ outcome' = "none"
    /\ UNCHANGED <<pend, werr>>

\* Connecting, authenticating or opening fails before the output is touched.
StartFails(c) ==
    /\ "net" \in Faults
    /\ phase = "stopped" /\ runs < MaxRuns
    /\ runs' = runs + 1
    /\ job' = c
    /\ outcome' = "err"
    /\ UNCHANGED <<disk, phase, sized, from, pos, pend, werr>>

\* Mutant: the next chunk does not wait for the write before it to succeed.
ReceiveAnyway(n) ==
    /\ phase = "stream" /\ pend = 0
    /\ pos + n <= SizeOf[job]
    /\ pos' = pos + n
    /\ pend' = n
    /\ werr' = FALSE
    /\ UNCHANGED <<disk, phase, outcome, job, sized, from, runs>>

\* A read of n bytes, and write_all, which waits until the buffer is empty.
Receive(n) ==
    /\ phase = "stream" /\ pend = 0 /\ ~werr
    /\ pos + n <= SizeOf[job]
    /\ pos' = pos + n
    /\ pend' = n
    /\ UNCHANGED <<disk, phase, outcome, job, sized, from, werr, runs>>

\* write_all reports the error of the write before it.
ReportError ==
    /\ phase = "stream" /\ werr /\ pos < SizeOf[job]
    /\ phase' = "failed"
    /\ UNCHANGED <<disk, outcome, job, sized, from, pos, pend, werr, runs>>

NetFails ==
    /\ "net" \in Faults
    /\ phase = "stream"
    /\ phase' = "failed"
    /\ UNCHANGED <<disk, outcome, job, sized, from, pos, pend, werr, runs>>

\* A read of 0 bytes: download returns Ok, without a flush.
StreamEnds ==
    /\ phase = "stream" /\ pos = SizeOf[job]
    /\ phase' = "closing"
    /\ UNCHANGED <<disk, outcome, job, sized, from, pos, pend, werr, runs>>

\* The blocking pool appends the buffer to the file.
WriteLands ==
    /\ pend > 0
    /\ \E n \in 0 .. MaxSize : HasLength(n) /\ disk' = Write(disk, n, pend, job)
    /\ pend' = 0
    /\ UNCHANGED <<phase, outcome, job, sized, from, pos, werr, runs>>

\* A part of it may have been written.
WriteFails ==
    /\ pend > 0
    /\ IF pos < SizeOf[job] THEN "write" \in Faults ELSE "last" \in Faults
    /\ \E n \in 0 .. MaxSize, m \in 0 .. pend - 1 :
        HasLength(n) /\ disk' = Write(disk, n, m, job)
    /\ pend' = 0
    /\ werr' = TRUE
    /\ UNCHANGED <<phase, outcome, job, sized, from, pos, runs>>
-----------------------------------------------------------------------------
Stop(how) ==
    /\ phase' = "stopped"
    /\ outcome' = how
    /\ from' = 0 /\ pos' = 0 /\ pend' = 0 /\ werr' = FALSE
    /\ UNCHANGED <<job, sized, runs>>

CompleteAtOnce == phase = "closing" /\ Stop("ok") /\ UNCHANGED disk   \* mutant

\* The runtime has finished the last write.
Complete == phase = "closing" /\ pend = 0 /\ Stop("ok") /\ UNCHANGED disk

Fail == phase = "failed" /\ pend = 0 /\ Stop("err") /\ UNCHANGED disk

Kill == "kill" \in Faults /\ phase # "stopped" /\ Stop("killed") /\ UNCHANGED disk

\* The user does not start the program again.
GiveUp == phase = "stopped" /\ runs = MaxRuns /\ UNCHANGED vars

Next ==
    \/ \E c \in Contents : StartFails(c) \/ \E told \in BOOLEAN : Start(c, told)
    \/ \E n \in 1 .. MaxChunk : Receive(n)
    \/ ReportError \/ NetFails \/ StreamEnds \/ WriteLands \/ WriteFails
    \/ Complete \/ Fail \/ Kill
    \/ GiveUp

Spec == Init /\ [][Next]_vars
-----------------------------------------------------------------------------
(***************************************************************************)
(* Properties.                                                             *)
(***************************************************************************)
\* A run that reports success leaves exactly the remote file (README.md, "SSH":
\* re-running the command will overwrite the existing file).
CompletedIntact == outcome = "ok" => disk = Body(job, SizeOf[job])

\* The output is a prefix of the remote file, the position of the run is where
\* that prefix will end once the buffer is written, and so the length of the
\* file is the right place to go on, whenever the run dies.
PrefixOnly ==
    \E n \in 0 .. SizeOf[job] :
        /\ disk = Body(job, n)
        /\ phase = "stream" /\ ~werr => n = pos - pend

\* Nothing received is given up: the output only shrinks when it is as long as
\* the remote file, which a run downloads again from the start, or when the
\* server does not tell the size.
OnlyGrows ==
    [][sized' => \A n \in 0 .. SizeOf[job] - 1 :
            disk = Body(job, n) => \E m \in n .. SizeOf[job] : disk' = Body(job, m)]_vars
=============================================================================
