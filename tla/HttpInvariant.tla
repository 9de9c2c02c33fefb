---------------------------- MODULE HttpInvariant ----------------------------
(***************************************************************************)
(* The inductive invariants of HttpDownload: why a part file may be        *)
(* trusted.  TypeInv and KeptInv hold whatever goes wrong; SafeInv needs   *)
(* the Benign environment.                                                 *)
(***************************************************************************)
EXTENDS HttpDownload

IsFile(part) == part \notin {NoPart, Torn}

(***************************************************************************)
(* For every environment.                                                  *)
(***************************************************************************)
Proper(part) ==
    \A i \in DOMAIN part.segments : part.segments[i].start <= part.segments[i].end

ShapeInv ==
    /\ Proper(shared)
    /\ IsFile(partFile) => Proper(partFile)
    /\ phase \notin {"running", "simple"} => Idle
    /\ \A t \in Tasks :
        /\ pc[t] \in {"off", "request"} => written[t] = 0
        /\ phase = "running" /\ pc[t] # "off" => t \in DOMAIN shared.segments
        /\ phase = "simple" => pc[t] \notin {"request", "mark", "done"}

TypeInv == TypeOK /\ ShapeInv

\* q knows of everything p says is downloaded, cut at the same places.
Extends(p, q) ==
    /\ DOMAIN p.segments = DOMAIN q.segments
    /\ \A i \in DOMAIN p.segments :
        /\ p.segments[i].start = q.segments[i].start
        /\ p.segments[i].end = q.segments[i].end
        /\ Claimed(p.segments[i]) \subseteq Claimed(q.segments[i])

\* The SharedPart of a run is never behind the part file on disk.
KeptInv ==
    /\ phase \in {"open", "save", "running"} /\ IsFile(partFile)
    /\ partFile.url = shared.url /\ partFile.total_size = shared.total_size
    => Extends(partFile, shared)

\* What a save that worked left behind, and where a task is beyond it.
UnsavedInv ==
    /\ saved => phase = "running" /\ partFile = shared
    /\ \A t \in Tasks :
        /\ pc[t] = "stream" => written[t] < SaveInterval
        /\ phase = "running" /\ pc[t] \in {"stream", "mark"} =>
            pos[t] = ResumeOffset(shared.segments[t]) + written[t]

(***************************************************************************)
(* What CompletedIntact needs of the environment: nothing but requests,    *)
(* streams, saves and the process itself fails, a killed process has its   *)
(* buffered writes performed, and every download that uses this output     *)
(* path is big enough, and given threads enough, to be segmented.          *)
(***************************************************************************)
Benign ==
    /\ Faults \subseteq {"net", "kill", "save"}
    /\ \A c \in Contents, threads \in ThreadChoices : Segmentable(c, threads)

\* A part file that describes c: every byte of c in a range, no counter beyond
\* its range.
Describes(part, c) ==
    /\ KeyMatches(part, c)
    /\ Covers(part.segments, SizeOf[c])
    /\ \A i \in DOMAIN part.segments :
        ResumeOffset(part.segments[i]) <= part.segments[i].end + 1

PartInv ==
    /\ Describes(shared, job)
    /\ IsFile(partFile) => \E c \in Contents : Describes(partFile, c)
    /\ phase = "running" /\ IsFile(partFile) => KeyMatches(partFile, job)

RunInv ==
    /\ phase # "simple"
    /\ outcome = "ok" => phase = "stopped"
    /\ \A t \in Tasks : ~werr[t]

\* Byte o of the run's content is written or about to be.
Safe(o) == disk[o] = job \/ InFlight(o, job)

\* Where the task of segment t is, and that it left no byte behind it.
TaskInv(t) ==
    LET seg == shared.segments[t]
    IN  /\ pc[t] \in {"off", "request", "done"} => pend[t] = 0
        /\ phase = "running" /\ t \in DOMAIN shared.segments =>
            /\ pc[t] \in {"off", "done"} => IsDone(seg)
            /\ pend[t] <= pos[t] /\ pos[t] <= seg.end + 1
            /\ pc[t] = "flush" => pos[t] = seg.end + 1
            /\ pc[t] \in {"stream", "mark", "flush"} =>
                /\ pos[t] = ResumeOffset(seg) + written[t]
                /\ \A o \in ResumeOffset(seg) .. pos[t] - 1 : Safe(o)

SharedOnDisk ==
    phase \in {"open", "save", "running"} =>
        \A i \in DOMAIN shared.segments : \A o \in Claimed(shared.segments[i]) : Safe(o)

\* The file is as long as the part file says, and so is the one being written.
TailInv ==
    /\ phase \in {"save", "running"} => \A o \in Offsets : o >= SizeOf[job] => disk[o] = None
    /\ phase # "save" /\ IsFile(partFile) =>
        \A c \in Contents : KeyMatches(partFile, c) =>
            \A o \in Offsets : o >= SizeOf[c] => disk[o] = None

SafeInv ==
    /\ TypeInv
    /\ PartInv
    /\ RunInv
    /\ \A t \in Tasks : TaskInv(t)
    /\ SharedOnDisk
    /\ ClaimsOnDisk
    /\ TailInv
    /\ CompletedIntact
=============================================================================
