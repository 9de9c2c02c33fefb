------------------------------ MODULE FtpProofs ------------------------------
(***************************************************************************)
(* Proofs about the FTP downloader, for every file, chunk size and number  *)
(* of runs: what holds in every environment (types, the bound on unsaved   *)
(* bytes, counts that are never taken back), in a Truthful one (counts are *)
(* true) and in a Benign one (success means the whole file).               *)
(***************************************************************************)
EXTENDS FtpDownload, TLAPS

-----------------------------------------------------------------------------
(***************************************************************************)
(* Types.                                                                  *)
(***************************************************************************)
\* Outside a run nothing of one is left; only an idle program has an outcome;
\* the part file is saved for a file of known length only.
Idle ==
    /\ phase = "stopped" => pos = 0 /\ pend = 0 /\ ~werr
    /\ phase # "stopped" => outcome = "none"
    /\ phase = "save" => pos = 0 /\ pend = 0
    /\ phase = "mark" => sized

TypeInv == TypeOK /\ Idle

LEMMA SizeType == ASSUME NEW c \in Contents PROVE SizeOf[c] \in 0 .. MaxSize /\ SizeOf[c] \in Nat
BY FtpConstants, FileConstants

LEMMA WriteType ==
    ASSUME NEW d \in [Offsets -> Contents \union {Zero, None}], NEW c \in Contents,
           NEW n, NEW m
    PROVE  WriteAt(d, n, m, c) \in [Offsets -> Contents \union {Zero, None}]
BY DEF WriteAt, Write

LEMMA EmptyType == Empty \in [Offsets -> Contents \union {Zero, None}]
BY DEF Empty

LEMMA PartType ==
    ASSUME job \in Contents, NEW n \in Nat
    PROVE  Part(n) \in PartFile /\ IsFile(Part(n))
<1>1. Part(n) \in PartFile
    BY SizeType DEF Part, PartFile
<1> QED BY <1>1, NoFileDistinct DEF IsFile

LEMMA TypeInit == Init => TypeInv
<1> SUFFICES ASSUME Init PROVE TypeInv
    OBVIOUS
<1>1. /\ job \in Contents /\ sized \in BOOLEAN /\ werr \in BOOLEAN
      /\ disk \in [Offsets -> Contents \union {Zero, None}]
    BY EmptyType DEF Init
<1>2. ~werr
    BY DEF Init
<1>3. SizeOf[job] \in Nat /\ MaxRuns \in Nat
    BY <1>1, SizeType, FtpConstants
<1> QED BY <1>1, <1>2, <1>3 DEF Init, TypeInv, TypeOK, Idle

LEMMA TypeStep == TypeInv /\ [Next]_vars => TypeInv'
<1> SUFFICES ASSUME TypeOK, Idle, [Next]_vars PROVE TypeInv'
    BY DEF TypeInv
<1> USE DEF TypeOK, Idle, TypeInv
<1>a. job \in Contents /\ SizeOf[job] \in Nat /\ MaxRuns \in Nat /\ MaxChunk \in Nat
    BY SizeType, FtpConstants
<1>1. ASSUME NEW c \in Contents, StartFails(c) PROVE TypeInv'
    <2>1. SizeOf[c] \in Nat /\ werr' \in BOOLEAN /\ ~werr'
        BY <1>1, SizeType DEF StartFails
    <2> QED BY <1>1, <1>a, <2>1 DEF StartFails, fileVars
<1>2. ASSUME NEW c \in Contents, NEW known \in BOOLEAN, Start(c, known) PROVE TypeInv'
    <2>1. SizeOf[c] \in Nat /\ werr' \in BOOLEAN /\ ~werr'
        BY <1>2, SizeType DEF Start
    <2>2. disk' \in [Offsets -> Contents \union {Zero, None}] /\ pos' \in 0 .. SizeOf[c]
        BY <1>2, <2>1, EmptyType DEF Start, Resumable, IsFile, PartFile
    <2>3. /\ phase' \in {"stream", "save"} /\ outcome' = "none" /\ pend' = 0
          /\ phase' = "save" => pos' = 0
        BY <1>2 DEF Start, FirstStage
    <2> QED BY <1>2, <1>a, <2>1, <2>2, <2>3 DEF Start
<1>3. CASE SavePart
    BY <1>3, <1>a, PartType DEF SavePart
<1>4. CASE SavePartFails
    BY <1>4, <1>a DEF SavePartFails
<1>5. ASSUME NEW n \in 1 .. MaxChunk, Receive(n) PROVE TypeInv'
    BY <1>5, <1>a DEF Receive, fileVars
<1>6. CASE MarkProgress
    BY <1>6, <1>a, PartType DEF MarkProgress
<1>7. CASE MarkProgressFails
    BY <1>7, <1>a DEF MarkProgressFails
<1>8. CASE StreamEnds \/ ReportError \/ NetFails
    BY <1>8, <1>a DEF StreamEnds, ReportError, NetFails, fileVars
<1>9. CASE WriteLands
    BY <1>9, <1>a, WriteType DEF WriteLands
<1>10. CASE WriteFails
    BY <1>10, <1>a DEF WriteFails, fileVars
<1>11. CASE Complete \/ Fail \/ Kill
    <2>1. ~werr' /\ werr' \in BOOLEAN /\ UNCHANGED <<disk, job, sized, runs, faults>>
        BY <1>11 DEF Complete, Fail, Kill, Stop
    <2>2. phase' = "stopped" /\ pos' = 0 /\ pend' = 0
        BY <1>11 DEF Complete, Fail, Kill, Stop
    <2>3. outcome' \in {"ok", "err", "killed"}
        BY <1>11 DEF Complete, Fail, Kill, Stop
    <2>4. partFile' \in {partFile, NoPart, Torn}
        BY <1>11 DEF Complete, Fail, Kill
    <2> QED BY <1>a, <2>1, <2>2, <2>3, <2>4
<1>12. CASE UNCHANGED vars
    BY <1>12 DEF vars
<1> QED BY <1>1, <1>2, <1>3, <1>4, <1>5, <1>6, <1>7, <1>8, <1>9, <1>10, <1>11, <1>12
        DEF Next, Progress, GiveUp

\* The values of the state in every environment: the position stays inside the
\* remote file and the buffer inside what this run received.
THEOREM FtpTypeCorrect == Spec => []TypeOK
<1>1. TypeInv => TypeOK
    BY DEF TypeInv
<1> QED BY <1>1, TypeInit, TypeStep, PTL DEF Spec

-----------------------------------------------------------------------------
(***************************************************************************)
(* What the part file counts, compared with what was received.             *)
(***************************************************************************)
\* While a file of known length is received the part file counts at least the
\* whole save intervals; one that is about to be overwritten counts nothing, or
\* everything, of the file that is downloaded.
LossInv ==
    /\ phase = "stream" /\ sized =>
        /\ IsFile(partFile)
        /\ partFile.downloaded <= pos
        /\ pos - partFile.downloaded <= pos % SaveInterval
    /\ phase = "mark" => IsFile(partFile) /\ partFile.downloaded <= pos
    /\ phase = "save" /\ IsFile(partFile) /\ KeyMatches(partFile, job) =>
        partFile.downloaded = 0 \/ partFile.downloaded >= SizeOf[job]

LEMMA MulMono ==
    ASSUME NEW a \in Int, NEW b \in Int, NEW s \in Nat, a <= b
    PROVE  a * s <= b * s
BY Z3

LEMMA DivModulo ==
    ASSUME NEW a \in Nat, NEW b \in Nat \ {0}
    PROVE  \E q \in Nat : a = q * b + (a % b) /\ (a % b) \in 0 .. b - 1
<1> WITNESS a \div b \in Nat
<1> QED BY Z3

\* Quotient and remainder are unique.
LEMMA SameRemainder ==
    ASSUME NEW b \in Nat \ {0}, NEW p \in Nat, NEW q \in Nat,
           NEW r \in 0 .. b - 1, NEW s \in 0 .. b - 1, p * b + r = q * b + s
    PROVE  r = s
<1>1. p * b \in Nat /\ q * b \in Nat /\ (p + 1) * b = p * b + b /\ (q + 1) * b = q * b + b
    BY Z3
<1>2. CASE p < q
    <2>1. (p + 1) * b <= q * b
        BY <1>2, MulMono
    <2> QED BY <1>1, <2>1
<1>3. CASE q < p
    <2>1. (q + 1) * b <= p * b
        BY <1>3, MulMono
    <2> QED BY <1>1, <2>1
<1>4. CASE p = q
    BY <1>1, <1>4
<1> QED BY <1>2, <1>3, <1>4

\* A chunk that does not carry the position over a save interval adds its length
\* to the remainder.
LEMMA NotCrossed ==
    ASSUME NEW p \in Nat, NEW n \in Nat, (p + n) % SaveInterval >= n
    PROVE  (p % SaveInterval) + n = (p + n) % SaveInterval
<1>1. SaveInterval \in Nat \ {0}
    BY FtpConstants
<1>2. PICK q \in Nat : p = q * SaveInterval + (p % SaveInterval) /\ (p % SaveInterval) \in 0 .. SaveInterval - 1
    BY <1>1, DivModulo
<1>3. p + n \in Nat
    OBVIOUS
<1>4. PICK k \in Nat : /\ p + n = k * SaveInterval + ((p + n) % SaveInterval)
                       /\ ((p + n) % SaveInterval) \in 0 .. SaveInterval - 1
    BY <1>1, <1>3, DivModulo
<1> DEFINE r == p % SaveInterval
           s == (p + n) % SaveInterval
           a == q * SaveInterval
           b == k * SaveInterval
<1>5. a \in Nat /\ b \in Nat
    BY <1>1, <1>2, <1>4, Z3
<1>6. r \in 0 .. SaveInterval - 1 /\ s \in 0 .. SaveInterval - 1
    BY <1>2, <1>4
<1>7. p = a + r /\ p + n = b + s /\ s >= n
    BY <1>2, <1>4
<1>8. \A t \in 0 .. SaveInterval - 1 : a + r = b + t => r = t
    BY <1>1, <1>2, <1>4, <1>6, SameRemainder
<1> HIDE DEF r, s, a, b
<1>9. s - n \in 0 .. SaveInterval - 1 /\ a + r = b + (s - n)
    BY <1>1, <1>5, <1>6, <1>7
<1>10. r = s - n
    BY <1>8, <1>9
<1>11. r + n = s
    BY <1>1, <1>6, <1>10
<1> QED BY <1>11 DEF r, s

LEMMA Shift ==
    ASSUME NEW p \in Nat, NEW d \in Nat, NEW n \in Nat, NEW r \in Nat, NEW s \in Nat,
           p - d <= r, r + n = s
    PROVE  (p + n) - d <= s
OBVIOUS

LEMMA LossInit == Init => LossInv
BY DEF Init, LossInv

LEMMA LossStep == TypeInv /\ LossInv /\ [Next]_vars => LossInv'
<1> SUFFICES ASSUME TypeOK, Idle, LossInv, [Next]_vars PROVE LossInv'
    BY DEF TypeInv
<1>a. job \in Contents /\ SizeOf[job] \in Nat /\ pos \in Nat /\ SaveInterval \in Nat \ {0}
    BY SizeType, FtpConstants DEF TypeOK
<1>b. IsFile(partFile) => partFile.downloaded \in Nat
    BY DEF TypeOK, IsFile, PartFile
<1>1. ASSUME NEW c \in Contents, StartFails(c) PROVE LossInv'
    BY <1>1 DEF StartFails, LossInv
<1>2. ASSUME NEW c \in Contents, NEW known \in BOOLEAN, Start(c, known) PROVE LossInv'
    <2>1. job' = c /\ sized' = known /\ partFile' = partFile /\ SizeOf[c] \in Nat
        BY <1>2, SizeType DEF Start
    <2>2. CASE known /\ Resumable(c)
        <3>1. phase' = "stream" /\ pos' = partFile.downloaded /\ IsFile(partFile)
            BY <1>2, <2>2 DEF Start, Resumable
        <3>2. pos' - partFile.downloaded = 0 /\ 0 <= pos' % SaveInterval
            BY <1>a, <1>b, <3>1, DivModulo
        <3> QED BY <1>b, <2>1, <3>1, <3>2 DEF LossInv
    <2>3. CASE ~(known /\ Resumable(c))
        <3>1. phase' = IF known THEN "save" ELSE "stream"
            BY <1>2, <2>3 DEF Start, FirstStage
        <3>2. known /\ IsFile(partFile) /\ KeyMatches(partFile, c) =>
                partFile.downloaded = 0 \/ partFile.downloaded >= SizeOf[c]
            BY <1>b, <2>1, <2>3 DEF Resumable
        <3> QED BY <2>1, <3>1, <3>2 DEF LossInv
    <2> QED BY <2>2, <2>3
<1>3. CASE SavePart
    <2>1. IsFile(partFile') /\ partFile'.downloaded = 0
        BY <1>3, PartType DEF SavePart, Part, TypeOK
    <2>2. pos' = 0 /\ phase' = "stream"
        BY <1>3 DEF SavePart, Idle
    <2>3. 0 <= pos' % SaveInterval
        BY <1>a, <2>2, DivModulo
    <2> QED BY <2>1, <2>2, <2>3 DEF LossInv
<1>4. ASSUME NEW n \in 1 .. MaxChunk, Receive(n) PROVE LossInv'
    <2>1. /\ phase = "stream" /\ pos' = pos + n /\ sized' = sized /\ partFile' = partFile
          /\ n \in Nat /\ phase' = IF sized /\ Crosses(n) THEN "mark" ELSE "stream"
        BY <1>4, FtpConstants DEF Receive, fileVars
    <2>2. CASE sized /\ Crosses(n)
        BY <1>a, <1>b, <2>1, <2>2 DEF LossInv
    <2>3. CASE sized /\ ~Crosses(n)
        <3>1. pos' % SaveInterval \in Nat /\ pos % SaveInterval \in Nat
            BY <1>a, <2>1, DivModulo
        <3>2. pos' % SaveInterval >= n
            BY <2>1, <2>3, <3>1 DEF Crosses
        <3>3. (pos % SaveInterval) + n = pos' % SaveInterval
            BY <1>a, <2>1, <3>2, NotCrossed
        <3>4. /\ IsFile(partFile) /\ partFile.downloaded <= pos
              /\ pos - partFile.downloaded <= pos % SaveInterval
            BY <2>1, <2>3 DEF LossInv
        <3>5. (pos + n) - partFile.downloaded <= pos' % SaveInterval
            BY <1>a, <1>b, <2>1, <3>1, <3>3, <3>4, Shift
        <3> QED BY <1>a, <1>b, <2>1, <2>3, <3>4, <3>5 DEF LossInv
    <2>4. CASE ~sized
        BY <2>1, <2>4 DEF LossInv
    <2> QED BY <2>2, <2>3, <2>4
<1>5. CASE MarkProgress
    <2>1. IsFile(partFile') /\ partFile'.downloaded = pos /\ pos' = pos /\ phase' = "stream"
        BY <1>5, <1>a, PartType DEF MarkProgress, Part
    <2>2. 0 <= pos' % SaveInterval
        BY <1>a, <2>1, DivModulo
    <2> QED BY <1>a, <2>1, <2>2 DEF LossInv
<1>6. CASE SavePartFails \/ MarkProgressFails \/ ReportError \/ NetFails \/ StreamEnds
    <2>1. phase' \in {"failed", "flush"}
        BY <1>6 DEF SavePartFails, MarkProgressFails, ReportError, NetFails, StreamEnds
    <2> QED BY <2>1 DEF LossInv
<1>7. CASE WriteLands \/ WriteFails \/ UNCHANGED vars
    <2>1. UNCHANGED <<partFile, phase, job, sized, pos>>
        BY <1>7 DEF WriteLands, WriteFails, vars, fileVars
    <2> QED BY <2>1 DEF LossInv, KeyMatches
<1>8. CASE Complete \/ Fail \/ Kill
    <2>1. phase' = "stopped"
        BY <1>8 DEF Complete, Fail, Kill, Stop
    <2> QED BY <2>1 DEF LossInv
<1> QED BY <1>1, <1>2, <1>3, <1>4, <1>5, <1>6, <1>7, <1>8 DEF Next, Progress, GiveUp

LEMMA LossAlways == Spec => [](TypeInv /\ LossInv)
<1> TypeInv /\ LossInv /\ [Next]_vars => (TypeInv /\ LossInv)'
    BY TypeStep, LossStep
<1> QED BY TypeInit, LossInit, PTL DEF Spec

\* In every environment less than one save interval of a file of known length is
\* received and not counted, in resumed runs too.
THEOREM FtpLossIsBounded == Spec => []LossBounded
<1>1. TypeInv /\ LossInv => LossBounded
    <2> SUFFICES ASSUME TypeInv, LossInv, phase = "stream", sized
                 PROVE  IsFile(partFile) /\ pos - partFile.downloaded < SaveInterval
        BY DEF LossBounded
    <2>1. /\ IsFile(partFile) /\ partFile.downloaded <= pos
          /\ pos - partFile.downloaded <= pos % SaveInterval
        BY DEF LossInv
    <2>2. pos \in Nat /\ partFile.downloaded \in Nat /\ SaveInterval \in Nat \ {0}
        BY <2>1, SizeType, FtpConstants DEF TypeInv, TypeOK, IsFile, PartFile
    <2>3. pos % SaveInterval \in 0 .. SaveInterval - 1
        BY <2>2, DivModulo
    <2> QED BY <2>1, <2>2, <2>3
<1> QED BY <1>1, LossAlways, PTL

\* The step does not lower the count of a file that is not complete.
CountKept ==
    IsFile(partFile) /\ IsFile(partFile') /\ partFile'.url = partFile.url
    /\ partFile'.total_size = partFile.total_size
    /\ partFile.downloaded < partFile.total_size
    => partFile'.downloaded >= partFile.downloaded

LEMMA CountStep == TypeInv /\ LossInv /\ Next => CountKept
<1> SUFFICES ASSUME TypeInv, LossInv, Next, IsFile(partFile), IsFile(partFile'),
                    partFile'.url = partFile.url, partFile'.total_size = partFile.total_size,
                    partFile.downloaded < partFile.total_size
             PROVE  partFile'.downloaded >= partFile.downloaded
    BY DEF CountKept
<1>a. job \in Contents /\ partFile.downloaded \in Nat
    BY DEF TypeInv, TypeOK, IsFile, PartFile
<1>1. CASE SavePart
    <2>1. phase = "save" /\ partFile' = Part(0)
        BY <1>1 DEF SavePart
    <2>2. KeyMatches(partFile, job) /\ partFile.downloaded < SizeOf[job]
        BY <2>1 DEF Part, KeyMatches
    <2>3. partFile.downloaded = 0
        BY <1>a, <2>1, <2>2, SizeType DEF LossInv
    <2> QED BY <2>1, <2>3 DEF Part
<1>2. CASE MarkProgress
    BY <1>2, <1>a DEF MarkProgress, Part, LossInv
<1>3. CASE partFile' = partFile
    BY <1>a, <1>3
<1>4. SavePart \/ MarkProgress \/ partFile' \in {partFile, NoPart, Torn}
    BY DEF Next, Progress, GiveUp, vars, fileVars, StartFails, Start, SavePartFails, Receive,
           MarkProgressFails, StreamEnds, ReportError, NetFails, WriteLands, WriteFails,
           Complete, Fail, Kill
<1> QED BY <1>1, <1>2, <1>3, <1>4 DEF IsFile

\* The step does not take a counted byte off the disk in a run that knows its size.
BytesKept ==
    IsFile(partFile) /\ partFile.downloaded < partFile.total_size
    /\ sized' /\ KeyMatches(partFile, job') =>
        \A o \in 0 .. partFile.downloaded - 1 : disk[o] = job' => disk'[o] = job'

LEMMA BytesStep == TypeInv /\ Next => BytesKept
<1> SUFFICES ASSUME TypeInv, Next, IsFile(partFile), partFile.downloaded < partFile.total_size,
                    sized', KeyMatches(partFile, job'),
                    NEW o \in 0 .. partFile.downloaded - 1, disk[o] = job'
             PROVE  disk'[o] = job'
    BY DEF BytesKept
<1>1. partFile.downloaded \in Nat /\ partFile.downloaded > 0
    BY DEF TypeInv, TypeOK, IsFile, PartFile
<1>2. ASSUME NEW c \in Contents, NEW known \in BOOLEAN, Start(c, known)
      PROVE  disk'[o] = job'
    <2>1. job' = c /\ sized' = known
        BY <1>2 DEF Start
    <2>2. known /\ Resumable(c)
        BY <1>1, <2>1 DEF Resumable, KeyMatches
    <2>3. disk' = disk
        BY <1>2, <2>2 DEF Start
    <2> QED BY <2>3
<1>3. CASE WriteLands
    <2>1. job' = job /\ disk' = WriteAt(disk, pos - pend, pend, job)
        BY <1>3 DEF WriteLands
    <2>2. job \in Contents /\ job # None
        BY FileConstants DEF TypeInv, TypeOK
    <2>3. SizeOf[job] \in 0 .. MaxSize /\ o < SizeOf[job] /\ o \in Nat /\ MaxSize \in Nat
        BY <1>1, <2>1, <2>2, FtpConstants, FileConstants DEF KeyMatches
    <2>4. o \in Offsets
        BY <2>3 DEF Offsets
    <2> QED BY <2>1, <2>2, <2>4 DEF WriteAt, Write
<1>4. CASE disk' = disk
    BY <1>4
<1>5. \/ \E c \in Contents, known \in BOOLEAN : Start(c, known)
      \/ WriteLands
      \/ disk' = disk
    BY DEF Next, Progress, GiveUp, vars, fileVars, StartFails, SavePart, SavePartFails, Receive,
           MarkProgress, MarkProgressFails, StreamEnds, ReportError, NetFails, WriteFails,
           Complete, Fail, Kill, Stop
<1> QED BY <1>2, <1>3, <1>4, <1>5

\* In every environment the count of an unfinished file only grows, and a run that
\* was told the file's size keeps every counted byte that is on disk.
THEOREM FtpClaimsAreKept == Spec => ClaimsKept
<1>1. TypeInv /\ LossInv /\ [Next]_vars => [CountKept /\ BytesKept]_vars
    BY CountStep, BytesStep
<1>2. Spec => [][CountKept /\ BytesKept]_vars
    BY <1>1, LossAlways, PTL DEF Spec
<1>3. [CountKept /\ BytesKept]_vars =>
        [IsFile(partFile) /\ partFile.downloaded < partFile.total_size =>
          /\ IsFile(partFile') /\ partFile'.url = partFile.url
               /\ partFile'.total_size = partFile.total_size
             => partFile'.downloaded >= partFile.downloaded
          /\ sized' /\ KeyMatches(partFile, job') =>
               \A o \in 0 .. partFile.downloaded - 1 : disk[o] = job' => disk'[o] = job']_vars
    BY DEF CountKept, BytesKept
<1> QED BY <1>2, <1>3, PTL DEF ClaimsKept

-----------------------------------------------------------------------------
(***************************************************************************)
(* Where the part file tells the truth.                                    *)
(***************************************************************************)
\* The first n units of c are on disk, and nothing past its end.
OnDisk(c, n) ==
    /\ \A o \in 0 .. n - 1 : disk[o] = c
    /\ \A o \in Offsets : o >= SizeOf[c] => disk[o] = None

\* In a run, what was received and is not in the buffer is on disk, and the part
\* file counts no more than was received of this very file, unless the output was
\* just truncated; between runs what the part file counts is on disk.
DiskInv ==
    /\ ~werr
    /\ phase # "stopped" => OnDisk(job, pos - pend)
    /\ phase = "flush" /\ "short" \notin faults => pos = SizeOf[job]
    /\ phase \notin {"stopped", "save"} /\ IsFile(partFile) =>
        KeyMatches(partFile, job) /\ partFile.downloaded <= pos
    /\ phase = "stopped" /\ IsFile(partFile) =>
        \A c \in Contents : KeyMatches(partFile, c) => OnDisk(c, partFile.downloaded)
    /\ phase = "stopped" /\ outcome = "ok" /\ "short" \notin faults =>
        disk = Body(job, SizeOf[job])

TruthInv == Truthful => DiskInv

\* The faults Truthful leaves out.
Others == {"write", "killInFlight", "openGap", "nosize", "debug"}

LEMMA TruthfulFaults == Truthful => faults \intersect Others = {}
BY DEF Truthful, Others

LEMMA PartFacts ==
    ASSUME TypeInv, IsFile(partFile)
    PROVE  partFile.downloaded \in Nat
BY DEF TypeInv, TypeOK, IsFile, PartFile

\* The end of a run with an empty buffer.
LEMMA StopKeeps ==
    ASSUME TypeInv, DiskInv, NEW how, how # "ok", Stop(how), phase \notin {"stopped", "save"}, pend = 0,
           partFile' \in {partFile, Torn}
    PROVE  DiskInv'
<1>1. /\ phase' = "stopped" /\ ~werr' /\ UNCHANGED <<disk, job>> /\ outcome' # "ok"
    BY DEF Stop
<1>2. ASSUME IsFile(partFile'), NEW c \in Contents, KeyMatches(partFile', c)
      PROVE  OnDisk(c, partFile.downloaded)'
    <2>1. partFile' = partFile /\ IsFile(partFile)
        BY <1>2 DEF IsFile
    <2>2. job \in Contents /\ pos \in Nat /\ partFile.downloaded \in Nat
        BY <2>1, SizeType, PartFacts DEF TypeInv, TypeOK
    <2>3. c = job /\ partFile.downloaded <= pos
        BY <1>2, <2>1, <2>2, KeyIdentifiesContent DEF DiskInv, KeyMatches
    <2>4. OnDisk(job, pos)
        BY <2>2 DEF DiskInv
    <2> QED BY <1>1, <2>1, <2>2, <2>3, <2>4 DEF OnDisk
<1> QED BY <1>1, <1>2 DEF DiskInv

LEMMA TruthInit == Init => TruthInv
<1> SUFFICES ASSUME Init PROVE DiskInv
    BY DEF TruthInv
<1>1. ~werr /\ phase = "stopped" /\ outcome = "none" /\ ~IsFile(partFile)
    BY DEF Init, IsFile
<1> QED BY <1>1 DEF DiskInv

LEMMA TruthStep == TypeInv /\ TruthInv /\ [Next]_vars => TruthInv'
<1> SUFFICES ASSUME TypeInv, TruthInv, [Next]_vars, Truthful' PROVE DiskInv'
    BY DEF TruthInv
<1>f. faults' = faults
    BY DEF Next, Progress, GiveUp, vars, StartFails, Start, SavePart, SavePartFails, Receive,
           MarkProgress, MarkProgressFails, StreamEnds, ReportError, NetFails, WriteLands,
           WriteFails, Complete, Fail, Kill, Stop
<1>g. DiskInv /\ faults \intersect Others = {}
    BY <1>f, TruthfulFaults DEF Truthful, TruthInv
<1>a. /\ job \in Contents /\ SizeOf[job] \in 0 .. MaxSize /\ SizeOf[job] \in Nat /\ MaxSize \in Nat
      /\ pos \in 0 .. SizeOf[job] /\ pend \in 0 .. pos /\ pos \in Nat /\ pend \in Nat
    BY SizeType, FileConstants DEF TypeInv, TypeOK
<1>1. ASSUME NEW c \in Contents, StartFails(c) PROVE DiskInv'
    <2>1. /\ phase = "stopped" /\ UNCHANGED <<disk, partFile, phase>> /\ outcome' = "err"
          /\ pos' = 0 /\ pend' = 0 /\ ~werr'
        BY <1>1 DEF StartFails, fileVars
    <2> QED BY <1>g, <2>1 DEF DiskInv, OnDisk
<1>2. ASSUME NEW c \in Contents, NEW known \in BOOLEAN, Start(c, known) PROVE DiskInv'
    <2>1. /\ phase = "stopped" /\ job' = c /\ partFile' = partFile /\ pend' = 0 /\ ~werr'
          /\ outcome' = "none"
        BY <1>2 DEF Start
    <2>2. known
        BY <1>2, <1>g DEF Start, SizeAnswer, Others
    <2>3. CASE Resumable(c)
        <3>1. phase' = "stream" /\ pos' = partFile.downloaded /\ disk' = disk
            BY <1>2, <2>2, <2>3 DEF Start
        <3>2. IsFile(partFile) /\ KeyMatches(partFile, c) /\ partFile.downloaded \in Nat
            BY <2>3, PartFacts DEF Resumable
        <3>3. OnDisk(c, partFile.downloaded)
            BY <1>g, <2>1, <3>2 DEF DiskInv
        <3> QED BY <2>1, <3>1, <3>2, <3>3 DEF DiskInv, OnDisk, KeyMatches
    <2>4. CASE ~Resumable(c)
        <3>1. phase' = "save" /\ pos' = 0 /\ disk' = Empty
            BY <1>2, <2>2, <2>4 DEF Start, FirstStage
        <3> QED BY <2>1, <3>1 DEF DiskInv, OnDisk, Empty
    <2> QED BY <2>3, <2>4
<1>3. CASE SavePart
    <2>1. /\ phase = "save" /\ phase' = "stream" /\ partFile' = Part(0)
          /\ UNCHANGED <<disk, outcome, job, pos, pend, werr>>
        BY <1>3 DEF SavePart
    <2> QED BY <1>a, <1>g, <2>1 DEF DiskInv, OnDisk, KeyMatches, Part
<1>4. CASE SavePartFails
    <2>1. /\ phase = "save" /\ phase' = "failed" /\ partFile' = Torn
          /\ UNCHANGED <<disk, outcome, job, pos, pend, werr>>
        BY <1>4, <1>g DEF SavePartFails, Others
    <2> QED BY <1>g, <2>1 DEF DiskInv, OnDisk, IsFile
<1>5. ASSUME NEW n \in 1 .. MaxChunk, Receive(n) PROVE DiskInv'
    <2>1. /\ phase = "stream" /\ pend = 0 /\ pos' = pos + n /\ pend' = n
          /\ phase' \in {"stream", "mark"}
          /\ UNCHANGED <<disk, partFile, outcome, job, werr>> /\ n \in Nat
        BY <1>5, FtpConstants DEF Receive, fileVars
    <2>2. pos' - pend' = pos - pend /\ pos <= pos'
        BY <1>a, <2>1
    <2>3. IsFile(partFile) => partFile.downloaded \in Nat
        BY PartFacts
    <2>4. IsFile(partFile) => KeyMatches(partFile, job) /\ partFile.downloaded <= pos'
        BY <1>a, <1>g, <2>1, <2>3 DEF DiskInv
    <2>5. OnDisk(job, pos - pend)'
        BY <1>g, <2>1, <2>2 DEF DiskInv, OnDisk
    <2>6. KeyMatches(partFile, job) => KeyMatches(partFile, job)'
        BY <2>1 DEF KeyMatches
    <2> QED BY <1>g, <2>1, <2>4, <2>5, <2>6 DEF DiskInv
<1>6. CASE MarkProgress
    <2>1. /\ phase = "mark" /\ phase' = "stream" /\ partFile' = Part(pos)
          /\ UNCHANGED <<disk, outcome, job, pos, pend, werr>>
        BY <1>6 DEF MarkProgress
    <2> QED BY <1>a, <1>g, <2>1 DEF DiskInv, OnDisk, KeyMatches, Part
<1>7. CASE MarkProgressFails
    <2>1. /\ phase = "mark" /\ phase' = "failed" /\ partFile' \in {partFile, Torn}
          /\ UNCHANGED <<disk, outcome, job, pos, pend, werr>>
        BY <1>7 DEF MarkProgressFails
    <2> QED BY <1>g, <2>1 DEF DiskInv, OnDisk, KeyMatches, IsFile
<1>8. CASE StreamEnds
    <2>1. /\ phase = "stream" /\ phase' = "flush" /\ (pos = SizeOf[job] \/ "short" \in faults)
          /\ UNCHANGED <<disk, partFile, outcome, job, pos, pend, werr>>
        BY <1>8, <1>g DEF StreamEnds, fileVars, Others
    <2> QED BY <1>f, <1>g, <2>1 DEF DiskInv, OnDisk, KeyMatches
<1>9. CASE ReportError \/ NetFails
    <2>1. /\ phase \in {"stream", "flush"} /\ phase' = "failed"
          /\ UNCHANGED <<disk, partFile, outcome, job, pos, pend, werr>>
        BY <1>9 DEF ReportError, NetFails, fileVars
    <2> QED BY <1>g, <2>1 DEF DiskInv, OnDisk, KeyMatches
<1>10. CASE WriteLands
    <2>1. /\ pend > 0 /\ disk' = WriteAt(disk, pos - pend, pend, job) /\ pend' = 0
          /\ UNCHANGED <<partFile, phase, outcome, job, pos, werr>>
        BY <1>10 DEF WriteLands
    <2>2. phase # "stopped"
        BY <2>1 DEF TypeInv, Idle
    <2>3. OnDisk(job, pos - pend) /\ job # None
        BY <1>a, <1>g, <2>2, FileConstants DEF DiskInv
    <2>4. OnDisk(job, pos)'
        <3>1. ASSUME NEW o \in Offsets PROVE disk'[o] = IF o < pos THEN job ELSE disk[o]
            BY <1>a, <2>1, <2>3, <3>1 DEF WriteAt, Write, OnDisk, Offsets
        <3>2. 0 .. pos - 1 \subseteq Offsets
            BY <1>a DEF Offsets
        <3> QED BY <1>a, <2>1, <2>3, <3>1, <3>2 DEF OnDisk, Offsets
    <2> QED BY <1>f, <1>a, <1>g, <2>1, <2>2, <2>4 DEF DiskInv, KeyMatches
<1>11. CASE WriteFails
    BY <1>11, <1>g DEF WriteFails, Others
<1>12. CASE Complete
    <2>1. /\ phase = "flush" /\ pend = 0 /\ partFile' = NoPart /\ phase' = "stopped" /\ ~werr'
          /\ UNCHANGED <<disk, job>>
        BY <1>12 DEF Complete, Stop
    <2>2. "short" \notin faults => OnDisk(job, SizeOf[job])
        BY <1>a, <1>g, <2>1 DEF DiskInv
    <2>3. ASSUME "short" \notin faults PROVE disk = Body(job, SizeOf[job])
        <3>1. disk = [o \in Offsets |-> disk[o]]
            BY DEF TypeInv, TypeOK
        <3>2. \A o \in Offsets : disk[o] = IF o < SizeOf[job] THEN job ELSE None
            BY <1>a, <2>2, <2>3 DEF OnDisk, Offsets
        <3> QED BY <3>1, <3>2 DEF Body
    <2> QED BY <1>f, <2>1, <2>3 DEF DiskInv, IsFile
<1>13. CASE Fail
    <2>1. phase = "failed" /\ pend = 0 /\ Stop("err") /\ partFile' = partFile
        BY <1>13 DEF Fail
    <2> QED BY <1>g, <2>1, StopKeeps
<1>14. CASE Kill
    <2>1. phase # "stopped" /\ pend = 0 /\ Stop("killed")
        BY <1>14, <1>a, <1>g DEF Kill, Others
    <2>2. partFile' \in {partFile, Torn} /\ (phase = "save" => partFile' = Torn)
        BY <1>14, <1>g DEF Kill, Others
    <2>3. CASE phase = "save"
        <3>1. phase' = "stopped" /\ ~werr' /\ partFile' = Torn /\ outcome' = "killed"
            BY <2>1, <2>2, <2>3 DEF Stop
        <3> QED BY <3>1 DEF DiskInv, IsFile
    <2>4. CASE phase # "save"
        BY <1>g, <2>1, <2>2, <2>4, StopKeeps
    <2> QED BY <2>3, <2>4
<1>15. CASE UNCHANGED vars
    BY <1>15, <1>g DEF vars, DiskInv, OnDisk, KeyMatches
<1> QED BY <1>1, <1>2, <1>3, <1>4, <1>5, <1>6, <1>7, <1>8, <1>9, <1>10, <1>11, <1>12, <1>13,
           <1>14, <1>15 DEF Next, Progress, GiveUp

LEMMA TruthAlways == Spec => [](TypeInv /\ TruthInv)
<1> TypeInv /\ TruthInv /\ [Next]_vars => (TypeInv /\ TruthInv)'
    BY TypeStep, TruthStep
<1> QED BY TypeInit, TruthInit, PTL DEF Spec

\* Connections that break or end early, kills between two steps and failing saves
\* never make the part file count a byte that is neither on disk nor in the buffer.
THEOREM FtpClaimsAreTrue == Spec => []ClaimsOnDisk
<1>1. TypeInv /\ TruthInv => ClaimsOnDisk
    <2> SUFFICES ASSUME TypeInv, DiskInv, phase # "save", IsFile(partFile), NEW c \in Contents,
                        KeyMatches(partFile, c), NEW o \in 0 .. partFile.downloaded - 1
                 PROVE  disk[o] = c \/ (job = c /\ o \in pos - pend .. pos - 1)
        BY DEF ClaimsOnDisk, TruthInv
    <2>1. /\ job \in Contents /\ pos \in Nat /\ pend \in 0 .. pos /\ partFile.downloaded \in Nat
        BY SizeType, PartFacts DEF TypeInv, TypeOK
    <2>2. CASE phase = "stopped"
        BY <2>2 DEF DiskInv, OnDisk
    <2>3. CASE phase # "stopped"
        <3>1. KeyMatches(partFile, job) /\ partFile.downloaded <= pos /\ OnDisk(job, pos - pend)
            BY <2>3 DEF DiskInv
        <3>2. c = job
            BY <2>1, <3>1, KeyIdentifiesContent DEF KeyMatches
        <3> QED BY <2>1, <3>1, <3>2 DEF OnDisk
    <2> QED BY <2>2, <2>3
<1> QED BY <1>1, TruthAlways, PTL

\* Over any sequence of runs in which no connection ends early, besides, success
\* means that the output is the file.
THEOREM FtpSuccessIsIntact == Spec => []CompletedIntact
<1>1. TypeInv /\ TruthInv => CompletedIntact
    BY DEF TypeInv, Idle, TruthInv, DiskInv, CompletedIntact, Benign, Truthful
<1> QED BY <1>1, TruthAlways, PTL
=============================================================================
