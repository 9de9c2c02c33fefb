------------------------------ MODULE SshProofs ------------------------------
(***************************************************************************)
(* Proofs about the SFTP downloader.  TypeOK holds of every instance; what *)
(* the length of the output tells holds where one remote file is           *)
(* downloaded to the path, which is the assumption OneFile.                *)
(***************************************************************************)
EXTENDS SshDownload, TLAPS

OneFile == \A c, d \in Contents : c = d

\* Outside a run nothing of one is left; a failed write leaves the buffer empty.
Idle ==
    /\ phase = "stopped" => from = 0 /\ pos = 0 /\ pend = 0 /\ werr = FALSE
    /\ werr => pend = 0
    /\ phase # "stopped" => outcome = "none"

TypeInv == TypeOK /\ Idle

\* What the length of the output is, at every point of a run and after one.
Written(n) ==
    /\ disk = Body(job, n)
    /\ phase # "stopped" /\ ~werr => n = pos - pend
    /\ phase = "stopped" /\ outcome = "ok" => n = SizeOf[job] \/ "last" \in Faults

PrefixInv ==
    /\ \E n \in 0 .. SizeOf[job] : Written(n)
    /\ phase = "closing" => pos = SizeOf[job]
    /\ werr => pos < SizeOf[job] \/ "last" \in Faults
-----------------------------------------------------------------------------
\* Types.
LEMMA SizeType == ASSUME NEW c \in Contents PROVE SizeOf[c] \in 0 .. MaxSize
BY SshConstants

LEMMA WriteType ==
    ASSUME NEW d \in [Offsets -> Contents \union {Zero, None}], NEW c \in Contents,
           NEW n, NEW m
    PROVE  Write(d, n, m, c) \in [Offsets -> Contents \union {Zero, None}]
BY DEF Write

LEMMA EmptyType == Empty \in [Offsets -> Contents \union {Zero, None}]
BY DEF Empty

LEMMA TypeInit == Init => TypeInv
<1> SUFFICES ASSUME Init PROVE TypeInv
    OBVIOUS
<1>1. /\ job \in Contents /\ sized \in BOOLEAN /\ werr \in BOOLEAN
      /\ disk \in [Offsets -> Contents \union {Zero, None}]
    BY EmptyType DEF Init
<1>2. ~werr
    BY DEF Init
<1>3. SizeOf[job] \in Nat /\ MaxRuns \in Nat
    BY <1>1, SizeType, SshConstants, FileConstants
<1> QED BY <1>1, <1>2, <1>3 DEF Init, TypeInv, TypeOK, Idle

LEMMA TypeStep == TypeInv /\ [Next]_vars => TypeInv'
<1> SUFFICES ASSUME TypeOK, Idle, [Next]_vars PROVE TypeInv'
    BY DEF TypeInv
<1> USE DEF TypeOK, Idle, TypeInv
<1> job \in Contents /\ SizeOf[job] \in Nat /\ MaxRuns \in Nat /\ MaxChunk \in Nat
    BY SizeType, SshConstants, FileConstants
<1>1. ASSUME NEW c \in Contents, StartFails(c) PROVE TypeInv'
    BY <1>1, SizeType DEF StartFails
<1>2. ASSUME NEW c \in Contents, NEW told \in BOOLEAN, Start(c, told) PROVE TypeInv'
    <2> SizeOf[c] \in Nat /\ MaxSize \in Nat
        BY SizeType, FileConstants
    <2>1. from' \in 0 .. SizeOf[c] /\ pos' = from'
        BY <1>2 DEF Start, Resumes, Seek
    <2>2. disk' \in [Offsets -> Contents \union {Zero, None}]
        BY <1>2, EmptyType DEF Start
    <2> QED BY <1>2, <2>1, <2>2 DEF Start
<1>3. ASSUME NEW n \in 1 .. MaxChunk, Receive(n) PROVE TypeInv'
    BY <1>3 DEF Receive
<1>4. CASE ReportError \/ NetFails \/ StreamEnds
    BY <1>4 DEF ReportError, NetFails, StreamEnds
<1>5. CASE WriteLands
    BY <1>5, WriteType DEF WriteLands
<1>6. CASE WriteFails
    BY <1>6, WriteType DEF WriteFails
<1>7. CASE Complete \/ Fail \/ Kill
    <2>1. ~werr' /\ werr' \in BOOLEAN /\ UNCHANGED <<disk, job, sized, runs>>
        BY <1>7 DEF Complete, Fail, Kill, Stop
    <2>2. phase' = "stopped" /\ from' = 0 /\ pos' = 0 /\ pend' = 0
        BY <1>7 DEF Complete, Fail, Kill, Stop
    <2>3. outcome' \in {"ok", "err", "killed"}
        BY <1>7 DEF Complete, Fail, Kill, Stop
    <2> QED BY <2>1, <2>2, <2>3
<1>8. CASE UNCHANGED vars
    BY <1>8 DEF vars
<1> QED BY <1>1, <1>2, <1>3, <1>4, <1>5, <1>6, <1>7, <1>8 DEF Next, GiveUp

\* The values of the state, in every instance and with every fault: positions
\* stay inside the remote file, the buffer inside what this run received.
THEOREM SshTypeCorrect == Spec => []TypeOK
<1>1. TypeInv => TypeOK
    BY DEF TypeInv
<1> QED BY <1>1, TypeInit, TypeStep, PTL DEF Spec
-----------------------------------------------------------------------------
(***************************************************************************)
(* What the length of the output tells.                                    *)
(***************************************************************************)
\* A body has the length it is cut at.
LEMMA BodyLength ==
    ASSUME NEW c \in Contents, NEW k \in 0 .. MaxSize, NEW n \in 0 .. MaxSize,
           disk = Body(c, k), HasLength(n)
    PROVE  k = n
<1> MaxSize \in Nat /\ None \notin Contents
    BY FileConstants
<1>1. \A o \in Offsets : o < k <=> o < n
    BY DEF Body, HasLength
<1>2. k < n => k \in Offsets
    BY DEF Offsets
<1>3. n < k => n \in Offsets
    BY DEF Offsets
<1> QED BY <1>1, <1>2, <1>3

LEMMA Append ==
    ASSUME NEW c \in Contents, NEW n \in Nat, NEW m \in Nat
    PROVE  Write(Body(c, n), n, m, c) = Body(c, n + m)
<1> MaxSize \in Nat
    BY FileConstants
<1> QED BY DEF Write, Body, Offsets

LEMMA EmptyBody == ASSUME NEW c PROVE Empty = Body(c, 0)
<1> MaxSize \in Nat
    BY FileConstants
<1> QED BY DEF Empty, Body, Offsets

\* Where a run starts to read is where the output ends.
LEMMA StartAt ==
    ASSUME TypeInv, OneFile, NEW c \in Contents, NEW told \in BOOLEAN, Start(c, told),
           NEW k \in 0 .. SizeOf[job], disk = Body(job, k)
    PROVE  /\ job' = job /\ pos' = from'
           /\ \/ disk' = Body(job, k) /\ pos' = k
              \/ disk' = Body(job, 0) /\ pos' = 0 /\ (told => k = 0 \/ k = SizeOf[job])
<1>1. job \in Contents /\ SizeOf[job] \in 0 .. MaxSize /\ MaxSize \in Nat
    BY SizeType, FileConstants DEF TypeInv, TypeOK
<1>2. c = job /\ job' = job
    BY <1>1 DEF OneFile, Start
<1>3. PICK n \in 0 .. MaxSize :
        /\ HasLength(n)
        /\ from' = IF Resumes(c, told, n) THEN n ELSE 0
        /\ disk' = IF Resumes(c, told, n) THEN disk ELSE Empty
    BY DEF Start
<1>4. n = k
    BY <1>1, <1>3, BodyLength
<1>5. pos' = from'
    BY DEF Start, Seek
<1>6. CASE Resumes(c, told, n)
    BY <1>2, <1>3, <1>4, <1>5, <1>6
<1>7. CASE ~Resumes(c, told, n)
    <2>1. told => k = 0 \/ k = SizeOf[job]
        BY <1>1, <1>2, <1>4, <1>7 DEF Resumes
    <2> QED BY <1>2, <1>3, <1>5, <1>7, <2>1, EmptyBody
<1> QED BY <1>6, <1>7

LEMMA PrefixInit == Init => PrefixInv
<1> SUFFICES ASSUME Init PROVE PrefixInv
    OBVIOUS
<1>1. SizeOf[job] \in Nat /\ phase = "stopped" /\ outcome = "none" /\ ~werr
    BY SizeType, FileConstants DEF Init
<1>2. Written(0)
    BY <1>1, EmptyBody DEF Init, Written
<1> QED BY <1>1, <1>2 DEF PrefixInv

LEMMA PrefixStep == TypeInv /\ OneFile /\ PrefixInv /\ [Next]_vars => PrefixInv'
<1> SUFFICES ASSUME TypeInv, OneFile, PrefixInv, [Next]_vars PROVE PrefixInv'
    OBVIOUS
<1>a. PICK k \in 0 .. SizeOf[job] : Written(k)
    BY DEF PrefixInv
<1>b. /\ job \in Contents /\ SizeOf[job] \in Nat
      /\ from \in Nat /\ pos \in from .. SizeOf[job] /\ pend \in 0 .. pos - from
    BY SizeType, FileConstants DEF TypeInv, TypeOK
<1>c. k \in 0 .. MaxSize /\ disk = Body(job, k)
    BY <1>a, <1>b, SizeType, FileConstants DEF Written
<1>1. ASSUME NEW c \in Contents, StartFails(c) PROVE PrefixInv'
    <2>1. job' = job /\ UNCHANGED <<disk, phase, pos, pend, werr>> /\ outcome' = "err" /\ phase = "stopped"
        BY <1>1, <1>b DEF StartFails, OneFile
    <2>2. Written(k)'
        BY <1>a, <2>1 DEF Written
    <2> QED BY <2>1, <2>2 DEF PrefixInv
<1>2. ASSUME NEW c \in Contents, NEW told \in BOOLEAN, Start(c, told) PROVE PrefixInv'
    <2>1. pend' = 0 /\ ~werr' /\ phase' = "stream"
        BY <1>2 DEF Start, TypeInv, Idle
    <2>2. PICK n \in {0, k} : disk' = Body(job, n) /\ job' = job /\ pos' = n
        BY <1>2, <1>a, StartAt DEF Written
    <2>3. Written(n)' /\ n \in 0 .. SizeOf[job']
        BY <1>b, <2>1, <2>2 DEF Written
    <2> QED BY <2>1, <2>3 DEF PrefixInv
<1>3. ASSUME NEW n \in 1 .. MaxChunk, Receive(n) PROVE PrefixInv'
    <2>1. /\ pend' = n /\ pos' = pos + n /\ pend = 0 /\ ~werr /\ ~werr' /\ phase' = phase /\ phase = "stream"
          /\ UNCHANGED <<disk, job, outcome>>
        BY <1>3 DEF Receive
    <2>2. Written(k)'
        BY <1>a, <1>b, <2>1, SshConstants DEF Written
    <2> QED BY <2>1, <2>2 DEF PrefixInv
<1>4. CASE ReportError \/ NetFails
    <2>1. UNCHANGED <<disk, job, outcome, pos, pend, werr>> /\ phase = "stream" /\ phase' = "failed"
        BY <1>4 DEF ReportError, NetFails
    <2>2. Written(k)'
        BY <1>a, <2>1 DEF Written
    <2> QED BY <2>1, <2>2 DEF PrefixInv
<1>5. CASE StreamEnds
    <2>1. /\ UNCHANGED <<disk, job, outcome, pos, pend, werr>> /\ phase = "stream" /\ phase' = "closing"
          /\ pos = SizeOf[job]
        BY <1>5 DEF StreamEnds
    <2>2. Written(k)'
        BY <1>a, <2>1 DEF Written
    <2> QED BY <2>1, <2>2 DEF PrefixInv
<1>6. CASE WriteLands
    <2>1. PICK n \in 0 .. MaxSize : HasLength(n) /\ disk' = Write(disk, n, pend, job)
        BY <1>6 DEF WriteLands
    <2>2. n = k
        BY <1>b, <1>c, <2>1, BodyLength
    <2>3. /\ pend > 0 /\ ~werr /\ phase # "stopped" /\ pend' = 0
          /\ UNCHANGED <<phase, outcome, job, pos, werr>>
        BY <1>6, <1>b DEF WriteLands, TypeInv, Idle
    <2>4. k = pos - pend
        BY <1>a, <2>3 DEF Written
    <2>5. disk' = Body(job, pos)
        <3>1. k + pend = pos
            BY <1>b, <2>4
        <3>2. k \in Nat /\ pend \in Nat
            BY <1>b
        <3> QED BY <1>b, <1>c, <2>1, <2>2, <3>1, <3>2, Append
    <2>6. Written(pos)' /\ pos \in 0 .. SizeOf[job]
        BY <1>b, <2>3, <2>5 DEF Written
    <2> QED BY <2>3, <2>6 DEF PrefixInv
<1>7. CASE WriteFails
    <2>1. PICK n \in 0 .. MaxSize, m \in 0 .. pend - 1 : HasLength(n) /\ disk' = Write(disk, n, m, job)
        BY <1>7 DEF WriteFails
    <2>2. n = k
        BY <1>b, <1>c, <2>1, BodyLength
    <2>3. /\ pend > 0 /\ ~werr /\ phase # "stopped" /\ pend' = 0 /\ werr'
          /\ UNCHANGED <<phase, outcome, job, pos>>
          /\ pos < SizeOf[job] \/ "last" \in Faults
        BY <1>7, <1>b DEF WriteFails, TypeInv, Idle
    <2>4. k = pos - pend
        BY <1>a, <2>3 DEF Written
    <2>5. disk' = Body(job, k + m)
        BY <1>a, <1>b, <2>1, <2>2, Append DEF Written
    <2>6. k + m \in 0 .. SizeOf[job]
        BY <1>b, <2>4
    <2>7. Written(k + m)'
        BY <2>3, <2>5 DEF Written
    <2> QED BY <2>3, <2>6, <2>7 DEF PrefixInv
<1>8. CASE Complete
    <2>1. /\ UNCHANGED <<disk, job>> /\ phase = "closing" /\ phase' = "stopped" /\ ~werr' /\ pend = 0
        BY <1>8 DEF Complete, Stop
    <2>2. k = SizeOf[job] \/ "last" \in Faults
        BY <1>a, <1>b, <2>1 DEF Written, PrefixInv
    <2>3. Written(k)'
        BY <1>a, <2>1, <2>2 DEF Written
    <2> QED BY <2>1, <2>3 DEF PrefixInv
<1>9. CASE Fail \/ Kill
    <2>1. UNCHANGED <<disk, job>> /\ phase' = "stopped" /\ ~werr' /\ outcome' # "ok"
        BY <1>9 DEF Fail, Kill, Stop
    <2>2. Written(k)'
        BY <1>a, <2>1 DEF Written
    <2> QED BY <2>1, <2>2 DEF PrefixInv
<1>10. CASE UNCHANGED vars
    BY <1>10 DEF vars, PrefixInv, Written
<1> QED BY <1>1, <1>2, <1>3, <1>4, <1>5, <1>6, <1>7, <1>8, <1>9, <1>10 DEF Next, GiveUp

LEMMA PrefixAlways == ASSUME OneFile PROVE Spec => [](TypeInv /\ PrefixInv)
<1> TypeInv /\ PrefixInv /\ [Next]_vars => (TypeInv /\ PrefixInv)'
    BY TypeStep, PrefixStep
<1> QED BY TypeInit, PrefixInit, PTL DEF Spec

\* One remote file per path: whatever fails and however often the process dies,
\* the output is a prefix of that file and its length is where to go on.
THEOREM SshPrefixOnly == ASSUME OneFile PROVE Spec => []PrefixOnly
<1>1. TypeInv /\ PrefixInv => PrefixOnly
    BY DEF PrefixInv, Written, PrefixOnly
<1> QED BY <1>1, PrefixAlways, PTL

\* One remote file per path, and the last write of a run does not fail: success
\* means the whole file.
THEOREM SshSuccessIsIntact ==
    ASSUME OneFile, "last" \notin Faults PROVE Spec => []CompletedIntact
<1>1. TypeInv /\ PrefixInv => CompletedIntact
    BY DEF PrefixInv, Written, CompletedIntact, TypeInv, Idle
<1> QED BY <1>1, PrefixAlways, PTL

LEMMA WriteGrows ==
    ASSUME TypeInv, PrefixInv, NEW n \in 0 .. SizeOf[job], disk = Body(job, n), pend > 0,
           NEW at \in 0 .. MaxSize, HasLength(at), NEW m \in 0 .. pend,
           disk' = Write(disk, at, m, job)
    PROVE  \E q \in n .. SizeOf[job] : disk' = Body(job, q)
<1>1. /\ job \in Contents /\ SizeOf[job] \in 0 .. MaxSize /\ MaxSize \in Nat
      /\ pos \in 0 .. SizeOf[job] /\ pend \in 0 .. pos
    BY SizeType, FileConstants DEF TypeInv, TypeOK
<1>2. PICK k \in 0 .. SizeOf[job] : Written(k)
    BY DEF PrefixInv
<1>3. at = n /\ at = k
    <2>1. n \in 0 .. MaxSize /\ k \in 0 .. MaxSize
        BY <1>1
    <2>2. disk = Body(job, k)
        BY <1>2 DEF Written
    <2> QED BY <1>1, <2>1, <2>2, BodyLength
<1>4. ~werr /\ phase # "stopped"
    BY <1>1 DEF TypeInv, Idle
<1>5. n = pos - pend
    BY <1>2, <1>3, <1>4 DEF Written
<1>6. n + m \in n .. SizeOf[job] /\ n \in Nat /\ m \in Nat
    BY <1>1, <1>5
<1> QED BY <1>1, <1>3, <1>6, Append

LEMMA GrowsStep ==
    ASSUME TypeInv, OneFile, PrefixInv, [Next]_vars, sized',
           NEW n \in 0 .. SizeOf[job] - 1, disk = Body(job, n)
    PROVE  \E m \in n .. SizeOf[job] : disk' = Body(job, m)
<1>1. SizeOf[job] \in Nat /\ n \in 0 .. SizeOf[job] /\ n # SizeOf[job] /\ n \in n .. SizeOf[job]
    BY SizeType, FileConstants DEF TypeInv, TypeOK
<1>2. ASSUME NEW c \in Contents, NEW told \in BOOLEAN, Start(c, told)
      PROVE  \E m \in n .. SizeOf[job] : disk' = Body(job, m)
    <2>1. told
        BY <1>2 DEF Start
    <2> QED BY <1>1, <1>2, <2>1, StartAt
<1>3. CASE WriteLands
    <2>1. PICK at \in 0 .. MaxSize : HasLength(at) /\ disk' = Write(disk, at, pend, job)
        BY <1>3 DEF WriteLands
    <2>2. pend > 0 /\ pend \in 0 .. pend
        BY <1>3, SizeType, FileConstants DEF WriteLands, TypeInv, TypeOK
    <2> QED BY <1>1, <2>1, <2>2, WriteGrows
<1>4. CASE WriteFails
    <2>1. PICK at \in 0 .. MaxSize, m \in 0 .. pend - 1 : HasLength(at) /\ disk' = Write(disk, at, m, job)
        BY <1>4 DEF WriteFails
    <2>2. pend > 0 /\ m \in 0 .. pend
        BY <1>4, SizeType, FileConstants DEF WriteFails, TypeInv, TypeOK
    <2> QED BY <1>1, <2>1, <2>2, WriteGrows
<1>5. CASE UNCHANGED disk
    BY <1>1, <1>5
<1>6. (\E c \in Contents : StartFails(c)) \/ (\E m \in 1 .. MaxChunk : Receive(m))
          \/ ReportError \/ NetFails \/ StreamEnds \/ Complete \/ Fail \/ Kill
          \/ UNCHANGED vars
      => UNCHANGED disk
    BY DEF StartFails, Receive, ReportError, NetFails, StreamEnds, Complete, Fail, Kill, vars
<1> QED BY <1>2, <1>3, <1>4, <1>5, <1>6 DEF Next, GiveUp

\* One remote file per path: nothing received is given up, as long as the server
\* tells the size and the output is not yet as long as the remote file.
THEOREM SshOnlyGrows == ASSUME OneFile PROVE Spec => OnlyGrows
<1>1. TypeInv /\ PrefixInv /\ [Next]_vars =>
        [sized' => \A n \in 0 .. SizeOf[job] - 1 :
            disk = Body(job, n) => \E m \in n .. SizeOf[job] : disk' = Body(job, m)]_vars
    BY GrowsStep
<1> QED BY <1>1, PrefixAlways, PTL DEF Spec, OnlyGrows
=============================================================================
