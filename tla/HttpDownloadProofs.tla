------------------------- MODULE HttpDownloadProofs -------------------------
(***************************************************************************)
(* Proofs about HttpDownload: what holds in every environment (types, the  *)
(* bound on unsaved bytes, claims are only added to) and what holds in a   *)
(* Benign one (claims are true, success means the whole body).             *)
(***************************************************************************)
EXTENDS HttpInvariant, SegmentsProofs

-----------------------------------------------------------------------------
(***************************************************************************)
(* Part files.                                                             *)
(***************************************************************************)
\* What IsPart says of the fields.
LEMMA PartFields ==
    ASSUME NEW part, IsPart(part)
    PROVE  /\ part.url \in {UrlOf[c] : c \in Contents}
           /\ part.total_size \in Nat
           /\ DOMAIN part.segments \subseteq Tasks
           /\ \A i \in DOMAIN part.segments : part.segments[i] \in Segment
  <1>1. PICK n \in 1 .. MaxThreads : part \in PartFile(n)
    BY DEF IsPart
  <1>2. DOMAIN part.segments = 0 .. n - 1
    BY <1>1 DEF PartFile
  <1>3. 0 .. n - 1 \subseteq Tasks
    BY <1>1, HttpConstants DEF Tasks
  <1> QED
    BY <1>1, <1>2, <1>3 DEF PartFile

\* A part file with one counter changed, as mark_progress and
\* mark_segment_done change it.
LEMMA CounterChanged ==
    ASSUME NEW part, IsPart(part), NEW t \in DOMAIN part.segments, NEW d \in Nat,
           NEW q, q = [part EXCEPT !.segments[t].downloaded = d]
    PROVE  /\ IsPart(q)
           /\ q.url = part.url /\ q.total_size = part.total_size
           /\ DOMAIN q.segments = DOMAIN part.segments
           /\ \A i \in DOMAIN part.segments :
                /\ q.segments[i].start = part.segments[i].start
                /\ q.segments[i].end = part.segments[i].end
                /\ i # t => q.segments[i] = part.segments[i]
           /\ q.segments[t].downloaded = d
  <1>1. PICK n \in 1 .. MaxThreads : part \in PartFile(n)
    BY DEF IsPart
  <1>2. /\ part.segments \in [0 .. n - 1 -> Segment]
        /\ t \in 0 .. n - 1
    BY <1>1 DEF PartFile
  <1>3. part.segments[t] \in Segment
    BY <1>2
  <1>4. q \in PartFile(n)
    BY <1>1, <1>2, <1>3 DEF PartFile, Segment
  <1>5. /\ q.segments = [part.segments EXCEPT ![t].downloaded = d]
        /\ q.url = part.url /\ q.total_size = part.total_size
    BY <1>1 DEF PartFile
  <1>6. q.segments[t] = [part.segments[t] EXCEPT !.downloaded = d]
    BY <1>2, <1>5
  <1>7. /\ q.segments[t].downloaded = d
        /\ q.segments[t].start = part.segments[t].start
        /\ q.segments[t].end = part.segments[t].end
    BY <1>3, <1>6 DEF Segment
  <1>8. \A i \in DOMAIN part.segments : i # t => q.segments[i] = part.segments[i]
    BY <1>2, <1>5
  <1>9. DOMAIN q.segments = DOMAIN part.segments
    BY <1>2, <1>5
  <1>10. IsPart(q)
    BY <1>1, <1>4 DEF IsPart
  <1> QED
    BY <1>5, <1>7, <1>8, <1>9, <1>10

\* The number of threads create_segments gets is one it can cut the file for.
LEMMA EffectiveFits ==
    ASSUME NEW total \in Nat \ {0}, NEW threads \in 1 .. MaxThreads
    PROVE  /\ EffectiveThreads(total, threads) \in 1 .. threads
           /\ EffectiveThreads(total, threads) <= total
  <1> DEFINE fit == total \div MinSegment
  <1>1. fit \in Nat /\ fit * MinSegment <= total
    BY HttpConstants, DivBounds
  <1>2. fit <= fit * MinSegment
    <2>1. 1 * fit <= MinSegment * fit
      BY <1>1, HttpConstants, MulMono
    <2> QED
      BY <1>1, <2>1, HttpConstants, Z3
  <1>3. fit <= total
    BY <1>1, <1>2, HttpConstants, Z3
  <1> HIDE DEF fit
  <1>4. EffectiveThreads(total, threads) =
          IF threads <= fit THEN threads ELSE IF fit >= 1 THEN fit ELSE 1
    BY DEF EffectiveThreads, fit
  <1> QED
    BY <1>1, <1>3, <1>4, HttpConstants

\* The part file a run starts with when there is none for its download.
LEMMA FreshPartShape ==
    ASSUME NEW c \in Contents, NEW threads \in 1 .. MaxThreads
    PROVE  LET part == FreshPart(c, threads)
           IN  /\ IsPart(part)
               /\ KeyMatches(part, c)
               /\ Proper(part)
               /\ Covers(part.segments, SizeOf[c])
               /\ \A i \in DOMAIN part.segments : part.segments[i].downloaded = 0
  <1> DEFINE n == EffectiveThreads(SizeOf[c], threads)
             segs == CreateSegments(SizeOf[c], n)
  <1>1. SizeOf[c] \in Nat \ {0}
    BY HttpConstants
  <1>2. n \in Nat \ {0} /\ n <= SizeOf[c] /\ n \in 1 .. MaxThreads
    BY <1>1, EffectiveFits, HttpConstants
  <1> HIDE DEF n
  <1>3. DOMAIN segs = 0 .. n - 1
    BY DEF CreateSegments
  <1>4. \A i \in 0 .. n - 1 : /\ segs[i] \in Segment
                              /\ segs[i].downloaded = 0
                              /\ segs[i].start <= segs[i].end
    BY <1>1, <1>2, CreatedRanges
  <1>5. Covers(segs, SizeOf[c])
    BY <1>1, <1>2, SegmentsCover
  <1>6. segs \in [0 .. n - 1 -> Segment]
    <2>1. segs = [i \in 0 .. n - 1 |-> segs[i]]
      BY DEF CreateSegments
    <2> QED
      BY <1>4, <2>1
  <1> HIDE DEF segs
  <1>7. FreshPart(c, threads) = [url |-> UrlOf[c], total_size |-> SizeOf[c], segments |-> segs]
    BY DEF FreshPart, segs, n
  <1>8. FreshPart(c, threads) \in PartFile(n)
    BY <1>1, <1>6, <1>7 DEF PartFile
  <1>9. IsPart(FreshPart(c, threads))
    BY <1>2, <1>8 DEF IsPart
  <1> QED
    BY <1>3, <1>4, <1>5, <1>7, <1>9 DEF KeyMatches, Proper

\* The part file a run starts with.
LEMMA PartForShape ==
    ASSUME TypeInv, NEW c \in Contents, NEW threads \in ThreadChoices
    PROVE  /\ IsPart(PartFor(c, threads))
           /\ KeyMatches(PartFor(c, threads), c)
           /\ Proper(PartFor(c, threads))
  <1>1. CASE Resumable(c)
    BY <1>1 DEF Resumable, PartFor, TypeInv, TypeOK, ShapeInv, IsFile
  <1>2. CASE ~Resumable(c)
    BY <1>2, FreshPartShape, HttpConstants DEF PartFor
  <1> QED
    BY <1>1, <1>2

-----------------------------------------------------------------------------
(***************************************************************************)
(* Types and shapes, in every environment.                                 *)
(***************************************************************************)
LEMMA TypeInit == Init => TypeInv
  <1> SUFFICES ASSUME Init PROVE TypeInv
    OBVIOUS
  <1>1. IsPart(shared) /\ Proper(shared)
    BY FreshPartShape, HttpConstants DEF Init
  <1>2. saved \in BOOLEAN
    BY DEF Init
  <1>3. TypeOK
    BY <1>1, <1>2, HttpConstants DEF Init, TypeOK, Empty, Idle
  <1> QED
    BY <1>1, <1>3 DEF Init, TypeInv, ShapeInv, IsFile, Idle, Tasks

\* The steps that start a run.
LEMMA TypeStart ==
    ASSUME TypeInv, Start
    PROVE  TypeInv'
  <1> USE DEF TypeInv
  <1>1. PICK c \in Contents, threads \in ThreadChoices :
            \/ AlreadyComplete(c, threads) \/ StartSegmented(c, threads)
            \/ StartSimple(c, threads) \/ StartFails(c, threads)
    BY DEF Start
  <1>2. runs' \in 0 .. MaxRuns /\ saved' = saved /\ phase = "stopped" /\ Idle
    BY <1>1, HttpConstants
       DEF AlreadyComplete, StartSegmented, StartSimple, StartFails, StartRun, TypeOK, ShapeInv
  <1>3. CASE AlreadyComplete(c, threads) \/ StartSegmented(c, threads)
    <2>1. IsPart(shared') /\ Proper(shared')
      BY <1>3, PartForShape DEF AlreadyComplete, StartSegmented
    <2>2. TypeOK'
      BY <1>2, <1>3, <2>1 DEF TypeOK, AlreadyComplete, StartSegmented, taskVars
    <2>3. ShapeInv'
      BY <1>2, <1>3, <2>1
         DEF ShapeInv, AlreadyComplete, StartSegmented, taskVars, Idle, IsFile, Proper
    <2> QED
      BY <2>2, <2>3
  <1>4. CASE StartSimple(c, threads)
    <2>1. TypeOK'
      BY <1>2, <1>4, HttpConstants DEF TypeOK, StartSimple, Empty, Tasks
    <2>2. ShapeInv'
      BY <1>2, <1>4, HttpConstants
         DEF ShapeInv, StartSimple, Idle, IsFile, Proper, Tasks
    <2> QED
      BY <2>1, <2>2
  <1>5. CASE StartFails(c, threads)
    <2>1. TypeOK'
      BY <1>2, <1>5 DEF TypeOK, StartFails, taskVars
    <2>2. ShapeInv'
      BY <1>2, <1>5 DEF ShapeInv, StartFails, taskVars, Idle, IsFile, Proper
    <2> QED
      BY <2>1, <2>2
  <1> QED
    BY <1>1, <1>3, <1>4, <1>5

\* The steps between the decision to segment and the tasks.
LEMMA TypeOpen ==
    ASSUME TypeInv, OpenOutput \/ SavePart \/ SavePartFails
    PROVE  TypeInv'
  <1> USE DEF TypeInv
  <1>1. CASE OpenOutput
    <2>1. TypeOK'
      BY <1>1 DEF TypeOK, OpenOutput, SetLen, taskVars
    <2>2. ShapeInv'
      BY <1>1 DEF ShapeInv, OpenOutput, taskVars, Idle, IsFile, Proper
    <2> QED
      BY <2>1, <2>2
  <1>2. CASE SavePart
    <2>1. TypeOK'
      BY <1>2 DEF TypeOK, SavePart
    <2>2. ShapeInv'
      BY <1>2 DEF ShapeInv, SavePart, Idle, IsFile, Proper
    <2> QED
      BY <2>1, <2>2
  <1>3. CASE SavePartFails
    <2>1. TypeOK'
      BY <1>3 DEF TypeOK, SavePartFails, taskVars
    <2>2. ShapeInv'
      BY <1>3 DEF ShapeInv, SavePartFails, taskVars, Idle, IsFile, Proper
    <2> QED
      BY <2>1, <2>2
  <1> QED
    BY <1>1, <1>2, <1>3

\* The steps of a task that leave the part file alone.
LEMMA TypeTask ==
    ASSUME TypeInv, NEW t \in Tasks,
           \/ Request(t) \/ \E n \in 1 .. MaxChunk : Receive(t, n)
           \/ StreamEnds(t) \/ ReportError(t) \/ TaskFails(t)
           \/ WriteLands(t) \/ WriteFails(t)
    PROVE  TypeInv'
  <1> USE DEF TypeInv
  <1>1. CASE Request(t)
    <2>1. t \in DOMAIN shared.segments
      BY <1>1 DEF Request, ShapeInv
    <2>2. ResumeOffset(shared.segments[t]) \in Nat
      BY <2>1, PartFields DEF TypeOK, Segment, ResumeOffset
    <2>3. TypeOK'
      BY <1>1, <2>2 DEF TypeOK, Request, Goto
    <2>4. ShapeInv'
      BY <1>1, <2>1 DEF ShapeInv, TypeOK, Request, Goto, IsFile, Proper
    <2> QED
      BY <2>3, <2>4
  <1>2. ASSUME NEW n \in 1 .. MaxChunk, Receive(t, n) PROVE TypeInv'
    <2>1. TypeOK'
      BY <1>2, HttpConstants DEF TypeOK, Receive, Goto
    <2>2. ShapeInv'
      BY <1>2, HttpConstants DEF ShapeInv, TypeOK, Receive, Goto, IsFile, Proper, Idle
    <2> QED
      BY <2>1, <2>2
  <1>3. CASE StreamEnds(t) \/ ReportError(t) \/ TaskFails(t)
    <2>1. TypeOK'
      BY <1>3 DEF TypeOK, StreamEnds, ReportError, TaskFails, Goto, fileVars
    <2>2. ShapeInv'
      BY <1>3
         DEF ShapeInv, TypeOK, StreamEnds, ReportError, TaskFails, Goto, fileVars, IsFile, Proper, Idle
    <2> QED
      BY <2>1, <2>2
  <1>4. CASE WriteLands(t) \/ WriteFails(t)
    <2>1. TypeOK'
      <3>1. disk' \in [Offsets -> Contents \union {Zero, None}]
        BY <1>4 DEF TypeOK, WriteLands, WriteFails, Write, fileVars
      <3>2. pend' \in [Tasks -> Nat]
        BY <1>4 DEF TypeOK, WriteLands, WriteFails
      <3>3. werr' \in [Tasks -> BOOLEAN]
        BY <1>4 DEF TypeOK, WriteLands, WriteFails
      <3> QED
        BY <1>4, <3>1, <3>2, <3>3 DEF TypeOK, WriteLands, WriteFails, fileVars
    <2>2. phase \in {"running", "simple"}
      <3>1. ~Idle
        BY <1>4 DEF WriteLands, WriteFails, Idle
      <3> QED
        BY <3>1 DEF ShapeInv
    <2>3. ShapeInv'
      BY <1>4, <2>2 DEF ShapeInv, WriteLands, WriteFails, fileVars, IsFile, Proper
    <2> QED
      BY <2>1, <2>3
  <1> QED
    BY <1>1, <1>2, <1>3, <1>4

\* What mark_progress and mark_segment_done do to the shared part file.
LEMMA MarkChanges ==
    ASSUME TypeInv, NEW t \in Tasks, MarkProgress(t) \/ FinishSegment(t)
    PROVE  /\ phase = "running" /\ t \in DOMAIN shared.segments
           /\ shared.segments[t] \in Segment
           /\ IsPart(shared')
           /\ shared'.url = shared.url /\ shared'.total_size = shared.total_size
           /\ DOMAIN shared'.segments = DOMAIN shared.segments
           /\ \A i \in DOMAIN shared.segments :
                /\ shared'.segments[i].start = shared.segments[i].start
                /\ shared'.segments[i].end = shared.segments[i].end
                /\ i # t => shared'.segments[i] = shared.segments[i]
           /\ MarkProgress(t) => shared'.segments[t].downloaded =
                                   shared.segments[t].downloaded + written[t]
           /\ FinishSegment(t) => shared'.segments[t].downloaded =
                                   shared.segments[t].end - shared.segments[t].start + 1
  <1> USE DEF TypeInv
  <1>1. phase = "running" /\ t \in DOMAIN shared.segments /\ shared.segments[t] \in Segment
    BY PartFields DEF MarkProgress, FinishSegment, ShapeInv, TypeOK, Idle
  <1> DEFINE marked == shared.segments[t].downloaded + written[t]
             all    == shared.segments[t].end - shared.segments[t].start + 1
  <1>2. marked \in Nat /\ all \in Nat
    BY <1>1 DEF TypeOK, Segment, ShapeInv, Proper
  <1>3. /\ MarkProgress(t) => shared' = [shared EXCEPT !.segments[t].downloaded = marked]
        /\ FinishSegment(t) => shared' = [shared EXCEPT !.segments[t].downloaded = all]
    BY DEF MarkProgress, FinishSegment
  <1>4. ~(MarkProgress(t) /\ FinishSegment(t))
    BY DEF MarkProgress, FinishSegment
  <1>5. IsPart(shared)
    BY DEF TypeOK
  <1> HIDE DEF marked, all
  <1>6. CASE MarkProgress(t)
    <2>1. shared'.segments[t].downloaded = marked
      BY <1>1, <1>2, <1>3, <1>5, <1>6, CounterChanged
    <2> QED
      BY <1>1, <1>2, <1>3, <1>4, <1>5, <1>6, <2>1, CounterChanged DEF marked
  <1>7. CASE FinishSegment(t)
    <2>1. shared'.segments[t].downloaded = all
      BY <1>1, <1>2, <1>3, <1>5, <1>7, CounterChanged
    <2> QED
      BY <1>1, <1>2, <1>3, <1>4, <1>5, <1>7, <2>1, CounterChanged DEF all
  <1> QED
    BY <1>6, <1>7

\* A counter and the part file change together.
LEMMA TypeMark ==
    ASSUME TypeInv, NEW t \in Tasks, MarkProgress(t) \/ FinishSegment(t)
    PROVE  TypeInv'
  <1> USE DEF TypeInv
  <1>1. /\ phase = "running" /\ t \in DOMAIN shared.segments
        /\ IsPart(shared') /\ DOMAIN shared'.segments = DOMAIN shared.segments
    BY MarkChanges
  <1>2. Proper(shared')
    BY MarkChanges DEF ShapeInv, Proper
  <1>3. saved' \in BOOLEAN
    BY DEF MarkProgress, FinishSegment, Save
  <1>4. TypeOK'
    BY <1>1, <1>3 DEF TypeOK, MarkProgress, FinishSegment, Save, Goto
  <1>5. ShapeInv'
    BY <1>1, <1>2
       DEF ShapeInv, TypeOK, MarkProgress, FinishSegment, Save, Goto, IsFile, Proper, Idle
  <1> QED
    BY <1>4, <1>5

\* The steps that end a run.
LEMMA TypeStop ==
    ASSUME TypeInv, Complete \/ CompleteSimple \/ Fail \/ Kill
    PROVE  TypeInv'
  <1> USE DEF TypeInv
  <1>1. /\ Idle' /\ phase' = "stopped" /\ outcome' \in {"ok", "err", "killed"}
        /\ partFile' \in {partFile, NoPart, Torn}
        /\ saved' = FALSE
        /\ UNCHANGED <<disk, job, shared, runs>>
    BY DEF Complete, CompleteSimple, Fail, Kill, Stop, Idle, fileVars
  <1>2. TypeOK'
    BY <1>1 DEF TypeOK, Idle
  <1>3. ShapeInv'
    BY <1>1 DEF ShapeInv, Idle, IsFile, Proper
  <1> QED
    BY <1>2, <1>3

LEMMA TypeStep == TypeInv /\ [Next]_vars => TypeInv'
  <1> SUFFICES ASSUME TypeInv, [Next]_vars PROVE TypeInv'
    OBVIOUS
  <1>1. CASE Start
    BY <1>1, TypeStart
  <1>2. CASE OpenOutput \/ SavePart \/ SavePartFails
    BY <1>2, TypeOpen
  <1>3. ASSUME NEW t \in Tasks, Step(t) \/ Mishap(t) PROVE TypeInv'
    BY <1>3, TypeTask, TypeMark DEF Step, Mishap
  <1>4. CASE Complete \/ CompleteSimple \/ Fail \/ Kill
    BY <1>4, TypeStop
  <1>5. CASE UNCHANGED vars
    BY <1>5 DEF TypeInv, TypeOK, ShapeInv, vars, taskVars, Idle, IsFile, Proper
  <1> QED
    BY <1>1, <1>2, <1>3, <1>4, <1>5 DEF Next, Progress, GiveUp

\* Every variable has its type in every reachable state, whatever goes wrong.
THEOREM TypeCorrect == Spec => []TypeOK
  <1>1. TypeInv => TypeOK
    BY DEF TypeInv
  <1> QED
    BY <1>1, TypeInit, TypeStep, PTL DEF Spec

-----------------------------------------------------------------------------
(***************************************************************************)
(* Bytes the part file does not know of, in every environment.             *)
(***************************************************************************)
\* A chunk that does not cross a multiple of the interval leaves the count
\* below the first one.
LEMMA CrossedOrBelow ==
    ASSUME NEW w \in Nat, w < SaveInterval, NEW n \in Nat, ~Crosses(w + n, n)
    PROVE  w + n < SaveInterval
  <1> DEFINE q == (w + n) \div SaveInterval
             r == (w + n) % SaveInterval
  <1>1. SaveInterval \in Nat \ {0} /\ w + n \in Nat
    BY HttpConstants
  <1>2. q \in Nat /\ r \in Nat /\ w + n = q * SaveInterval + r
    BY <1>1, Z3
  <1>3. r >= n
    BY <1>1, <1>2 DEF Crosses
  <1> HIDE DEF q, r
  <1>4. CASE q = 0
    <2>1. w + n < ((w + n) \div SaveInterval) * SaveInterval + SaveInterval
      BY <1>1, DivBounds
    <2>2. ((w + n) \div SaveInterval) * SaveInterval = 0
      BY <1>1, <1>4 DEF q
    <2> QED
      BY <1>1, <2>1, <2>2
  <1>5. CASE q # 0
    <2>1. 1 * SaveInterval <= q * SaveInterval
      BY <1>1, <1>2, <1>5, MulMono
    <2>2. q * SaveInterval \in Nat
      BY <1>1, <1>2, Z3
    <2> QED
      BY <1>1, <1>2, <1>3, <2>1, <2>2
  <1> QED
    BY <1>4, <1>5

LEMMA UnsavedReceive ==
    ASSUME TypeInv, UnsavedInv, NEW t \in Tasks, NEW n \in 1 .. MaxChunk, Receive(t, n)
    PROVE  UnsavedInv'
  <1>1. /\ pc[t] = "stream" /\ n \in Nat /\ written[t] < SaveInterval
        /\ pos' = [pos EXCEPT ![t] = @ + n]
        /\ UNCHANGED <<partFile, phase, shared, saved>>
    BY HttpConstants DEF Receive, UnsavedInv
  <1>2. \A u \in Tasks \ {t} : UNCHANGED <<pc[u], pos[u], written[u]>>
    BY DEF Receive, Goto, TypeInv, TypeOK
  <1>3. pc'[t] \in {"stream", "mark"} /\ pos'[t] = pos[t] + n
    BY <1>1 DEF Receive, Goto, TypeInv, TypeOK
  <1>4. pc'[t] = "stream" => written'[t] < SaveInterval
    <2>1. CASE phase = "running" /\ ~Crosses(written[t] + n, n)
      BY <1>1, <2>1, CrossedOrBelow, HttpConstants DEF Receive, TypeInv, TypeOK
    <2>2. CASE phase # "running"
      BY <1>1, <2>2 DEF Receive
    <2>3. CASE phase = "running" /\ Crosses(written[t] + n, n)
      BY <2>3 DEF Receive, Goto, TypeInv, TypeOK
    <2> QED
      BY <2>1, <2>2, <2>3
  <1>5. phase = "running" => pos'[t] = ResumeOffset(shared.segments[t]) + written'[t]
    <2> SUFFICES ASSUME phase = "running" PROVE pos'[t] = ResumeOffset(shared.segments[t]) + written'[t]
      OBVIOUS
    <2>1. t \in DOMAIN shared.segments
      BY <1>1 DEF TypeInv, ShapeInv
    <2>2. ResumeOffset(shared.segments[t]) \in Nat
      BY <2>1, PartFields DEF TypeInv, TypeOK, Segment, ResumeOffset
    <2>3. written'[t] = written[t] + n /\ written[t] \in Nat
      BY DEF Receive, TypeInv, TypeOK
    <2> QED
      BY <1>1, <1>3, <2>2, <2>3 DEF UnsavedInv
  <1> QED
    BY <1>1, <1>2, <1>3, <1>4, <1>5 DEF UnsavedInv

LEMMA UnsavedMark ==
    ASSUME TypeInv, UnsavedInv, NEW t \in Tasks, MarkProgress(t) \/ FinishSegment(t)
    PROVE  UnsavedInv'
  <1>1. /\ phase = "running" /\ t \in DOMAIN shared.segments
        /\ shared.segments[t] \in Segment
        /\ DOMAIN shared'.segments = DOMAIN shared.segments
        /\ \A i \in DOMAIN shared.segments :
             /\ shared'.segments[i].start = shared.segments[i].start
             /\ i # t => shared'.segments[i] = shared.segments[i]
    BY MarkChanges
  <1>2. phase' = phase /\ pos' = pos /\ (saved' => partFile' = shared')
    BY DEF MarkProgress, FinishSegment, Save
  <1>3. \A u \in Tasks \ {t} : UNCHANGED <<pc[u], written[u]>>
    BY DEF MarkProgress, FinishSegment, Goto, TypeInv, TypeOK
  <1>4. \A u \in Tasks : pc[u] # "off" => u \in DOMAIN shared.segments
    BY <1>1 DEF TypeInv, ShapeInv
  <1>5. CASE MarkProgress(t)
    <2>1. pc[t] = "mark" /\ pc'[t] = "stream" /\ written'[t] = 0
      BY <1>5 DEF MarkProgress, Goto, TypeInv, TypeOK
    <2>2. shared'.segments[t].downloaded = shared.segments[t].downloaded + written[t]
      BY <1>5, MarkChanges
    <2>3. pos[t] = ResumeOffset(shared.segments[t]) + written[t] /\ written[t] \in Nat
      BY <1>1, <2>1 DEF UnsavedInv, TypeInv, TypeOK
    <2>4. pos[t] = ResumeOffset(shared'.segments[t]) + 0
      BY <1>1, <2>2, <2>3 DEF ResumeOffset, Segment
    <2> QED
      BY <1>1, <1>2, <1>3, <1>4, <2>1, <2>4, HttpConstants DEF UnsavedInv
  <1>6. CASE FinishSegment(t)
    <2>1. pc'[t] = "done"
      BY <1>6 DEF FinishSegment, Goto, TypeInv, TypeOK
    <2> QED
      BY <1>1, <1>2, <1>3, <1>4, <2>1 DEF UnsavedInv
  <1> QED
    BY <1>5, <1>6

LEMMA UnsavedStep == TypeInv /\ UnsavedInv /\ [Next]_vars => UnsavedInv'
  <1> SUFFICES ASSUME TypeInv, UnsavedInv, [Next]_vars PROVE UnsavedInv'
    OBVIOUS
  <1>1. ASSUME NEW c \in Contents, NEW threads \in ThreadChoices,
               \/ AlreadyComplete(c, threads) \/ StartSegmented(c, threads)
               \/ StartSimple(c, threads) \/ StartFails(c, threads)
        PROVE  UnsavedInv'
    <2>1. phase = "stopped" /\ saved' = saved /\ phase' # "running" /\ Idle
      BY <1>1 DEF AlreadyComplete, StartSegmented, StartSimple, StartFails, StartRun,
                  TypeInv, ShapeInv
    <2>2. \A t \in Tasks : written'[t] = 0
      BY <1>1, <2>1 DEF AlreadyComplete, StartSegmented, StartSimple, StartFails, taskVars, Idle
    <2> QED
      BY <2>1, <2>2, HttpConstants DEF UnsavedInv
  <1>2. CASE OpenOutput \/ SavePartFails
    <2>1. Idle /\ ~saved
      BY <1>2 DEF OpenOutput, SavePartFails, TypeInv, ShapeInv, UnsavedInv
    <2>2. UNCHANGED <<taskVars, saved>>
      BY <1>2 DEF OpenOutput, SavePartFails
    <2> QED
      BY <2>1, <2>2 DEF UnsavedInv, taskVars, Idle
  <1>3. CASE SavePart
    BY <1>3 DEF SavePart, UnsavedInv
  <1>4. ASSUME NEW t \in Tasks, Request(t)
        PROVE  UnsavedInv'
    <2>1. /\ pos'[t] = ResumeOffset(shared.segments[t]) /\ pc'[t] = "stream" /\ written[t] = 0
          /\ \A u \in Tasks \ {t} : UNCHANGED <<pc[u], pos[u]>>
          /\ UNCHANGED <<partFile, phase, shared, written, saved>> /\ phase = "running"
      BY <1>4 DEF Request, Goto, TypeInv, TypeOK, ShapeInv
    <2>2. ResumeOffset(shared.segments[t]) \in Nat
      BY <1>4, PartFields DEF Request, TypeInv, TypeOK, ShapeInv, Segment, ResumeOffset
    <2> QED
      BY <2>1, <2>2, HttpConstants DEF UnsavedInv
  <1>5. ASSUME NEW t \in Tasks, NEW n \in 1 .. MaxChunk, Receive(t, n)
        PROVE  UnsavedInv'
    BY <1>5, UnsavedReceive
  <1>6. ASSUME NEW t \in Tasks, MarkProgress(t) \/ FinishSegment(t)
        PROVE  UnsavedInv'
    BY <1>6, UnsavedMark
  <1>7. ASSUME NEW t \in Tasks, StreamEnds(t) \/ ReportError(t) \/ TaskFails(t)
        PROVE  UnsavedInv'
    BY <1>7 DEF StreamEnds, ReportError, TaskFails, Goto, fileVars, UnsavedInv, TypeInv, TypeOK
  <1>8. ASSUME NEW t \in Tasks, WriteLands(t) \/ WriteFails(t)
        PROVE  UnsavedInv'
    BY <1>8 DEF WriteLands, WriteFails, fileVars, UnsavedInv
  <1>9. CASE Complete \/ CompleteSimple \/ Fail \/ Kill
    BY <1>9 DEF Complete, CompleteSimple, Fail, Kill, Stop, UnsavedInv
  <1>10. CASE UNCHANGED vars
    BY <1>10 DEF UnsavedInv, vars, taskVars
  <1> QED
    BY <1>1, <1>2, <1>3, <1>4, <1>5, <1>6, <1>7, <1>8, <1>9, <1>10
       DEF Next, Start, Progress, Step, Mishap, GiveUp

LEMMA UnsavedImplied == TypeInv /\ UnsavedInv => UnsavedBounded
  <1> SUFFICES ASSUME TypeInv, UnsavedInv, phase = "running", saved
               PROVE  /\ partFile \notin {NoPart, Torn}
                      /\ \A t \in Tasks : pc[t] = "stream" =>
                          pos[t] - ResumeOffset(partFile.segments[t]) < SaveInterval
    BY DEF UnsavedBounded
  <1>1. partFile = shared /\ IsPart(shared)
    BY DEF UnsavedInv, TypeInv, TypeOK
  <1>2. partFile \notin {NoPart, Torn}
    BY <1>1, NoFileDistinct
  <1>3. ASSUME NEW t \in Tasks, pc[t] = "stream"
        PROVE  pos[t] - ResumeOffset(partFile.segments[t]) < SaveInterval
    <2>1. t \in DOMAIN shared.segments
      BY <1>3 DEF TypeInv, ShapeInv
    <2>2. ResumeOffset(shared.segments[t]) \in Nat /\ written[t] \in Nat
      BY <1>1, <2>1, PartFields DEF TypeInv, TypeOK, Segment, ResumeOffset
    <2> QED
      BY <1>1, <1>3, <2>2, HttpConstants DEF UnsavedInv
  <1> QED
    BY <1>2, <1>3

\* While a task waits for a chunk, the part file is less than a save interval
\* behind it unless the last save failed, whatever else goes wrong.
THEOREM UnsavedIsBounded == Spec => []UnsavedBounded
  <1>1. Init => UnsavedInv
    BY HttpConstants DEF Init, Idle, UnsavedInv
  <1> QED
    BY <1>1, TypeInit, TypeStep, UnsavedStep, UnsavedImplied, PTL DEF Spec

-----------------------------------------------------------------------------
(***************************************************************************)
(* What the part file records is only added to, in every environment.      *)
(***************************************************************************)
LEMMA ExtendsReflexive ==
    ASSUME NEW p
    PROVE  Extends(p, p)
  BY DEF Extends

LEMMA ExtendsTransitive ==
    ASSUME NEW p, NEW q, NEW r, Extends(p, q), Extends(q, r)
    PROVE  Extends(p, r)
  BY DEF Extends

LEMMA MarkExtends ==
    ASSUME TypeInv, NEW t \in Tasks, MarkProgress(t) \/ FinishSegment(t)
    PROVE  Extends(shared, shared')
  <1>1. shared.segments[t] \in Segment /\ written[t] \in Nat
    BY MarkChanges DEF TypeInv, TypeOK
  <1>2. Claimed(shared.segments[t]) \subseteq Claimed(shared'.segments[t])
    BY <1>1, MarkChanges DEF Claimed, Bytes, ResumeOffset, Segment
  <1> QED
    BY <1>2, MarkChanges DEF Extends

\* The claims of the part file after a step include those before it.
NothingLost ==
    SamePart(partFile, partFile') => Extends(partFile, partFile')

LEMMA KeptStep ==
    ASSUME TypeInv, KeptInv, [Next]_vars
    PROVE  KeptInv' /\ NothingLost
  <1> USE DEF NothingLost
  <1>1. ASSUME UNCHANGED <<partFile, shared>>,
               phase' \notin {"open", "save", "running"} \/ phase \in {"open", "save", "running"}
        PROVE  KeptInv' /\ NothingLost
    BY <1>1, ExtendsReflexive DEF KeptInv, SamePart, IsFile
  <1>2. ASSUME partFile' \in {partFile, NoPart, Torn},
               phase' \notin {"open", "save", "running"}
        PROVE  KeptInv' /\ NothingLost
    BY <1>2, ExtendsReflexive DEF KeptInv, SamePart, IsFile
  <1>3. ASSUME NEW c \in Contents, NEW threads \in ThreadChoices,
               StartSegmented(c, threads)
        PROVE  KeptInv' /\ NothingLost
    <2>1. shared' = PartFor(c, threads) /\ UNCHANGED partFile
      BY <1>3 DEF StartSegmented
    <2>2. KeyMatches(shared', c)
      BY <2>1, PartForShape
    <2>3. IsFile(partFile) /\ KeyMatches(partFile, c) => shared' = partFile
      BY <2>1 DEF IsFile, PartFor, Resumable
    <2> QED
      BY <2>1, <2>2, <2>3, ExtendsReflexive DEF KeptInv, KeyMatches
  <1>4. ASSUME NEW c \in Contents, NEW threads \in ThreadChoices,
               \/ AlreadyComplete(c, threads) \/ StartSimple(c, threads)
               \/ StartFails(c, threads)
        PROVE  KeptInv' /\ NothingLost
    BY <1>2, <1>4 DEF AlreadyComplete, StartSimple, StartFails, StartRun
  <1>5. CASE SavePart
    BY <1>5, ExtendsReflexive DEF SavePart, KeptInv, SamePart, IsFile
  <1>6. ASSUME NEW t \in Tasks, MarkProgress(t) \/ FinishSegment(t)
        PROVE  KeptInv' /\ NothingLost
    <2>1. Extends(shared, shared') /\ phase = "running"
      BY <1>6, MarkExtends, MarkChanges
    <2>2. partFile' \in {shared', partFile, Torn}
      BY <1>6 DEF MarkProgress, FinishSegment, Save
    <2>3. shared'.url = shared.url /\ shared'.total_size = shared.total_size
      BY <1>6, MarkChanges
    <2> QED
      BY <2>1, <2>2, <2>3, ExtendsReflexive, ExtendsTransitive DEF KeptInv, SamePart, IsFile
  <1>7. ASSUME NEW t \in Tasks,
               \/ Request(t) \/ \E n \in 1 .. MaxChunk : Receive(t, n)
               \/ StreamEnds(t) \/ ReportError(t) \/ Mishap(t) \/ WriteLands(t)
        PROVE  KeptInv' /\ NothingLost
    <2>1. UNCHANGED <<partFile, shared, phase>>
      BY <1>7 DEF Request, Receive, StreamEnds, ReportError, Mishap, TaskFails,
                  WriteFails, WriteLands, fileVars
    <2> QED
      BY <1>1, <2>1
  <1>8. CASE SavePartFails \/ Complete \/ CompleteSimple \/ Fail \/ Kill
    BY <1>2, <1>8
       DEF SavePartFails, Complete, CompleteSimple, Fail, Kill, Stop, fileVars
  <1>9. CASE OpenOutput \/ GiveUp \/ UNCHANGED vars
    BY <1>1, <1>9 DEF OpenOutput, GiveUp, vars
  <1> QED
    BY <1>3, <1>4, <1>5, <1>6, <1>7, <1>8, <1>9 DEF Next, Start, Progress, Step

\* No save of the part file forgets what an earlier one recorded of the same
\* download, whatever goes wrong and whichever task saves last.
THEOREM ClaimsAreKept == Spec => ClaimsKept
  <1>1. Init => KeptInv
    BY DEF Init, KeptInv, IsFile
  <1>2. TypeInv /\ KeptInv /\ [Next]_vars => KeptInv'
    BY KeptStep
  <1>3. TypeInv /\ KeptInv /\ [Next]_vars =>
          [SamePart(partFile, partFile') =>
             \A i \in DOMAIN partFile.segments :
                Claimed(partFile.segments[i]) \subseteq Claimed(partFile'.segments[i])]_vars
    BY KeptStep DEF NothingLost, Extends
  <1> QED
    BY <1>1, <1>2, <1>3, TypeInit, TypeStep, PTL DEF Spec, ClaimsKept

-----------------------------------------------------------------------------
(***************************************************************************)
(* A Benign environment: the part file tells the truth.                    *)
(***************************************************************************)
\* A part file can describe one content only.
LEMMA OneContentPerKey ==
    ASSUME NEW part, NEW c \in Contents, NEW d \in Contents,
           KeyMatches(part, c), KeyMatches(part, d)
    PROVE  c = d
  BY KeyIdentifiesContent DEF KeyMatches

\* The offsets of a described content.
LEMMA DescribedOffsets ==
    ASSUME NEW part, IsPart(part), Proper(part), NEW c \in Contents, Describes(part, c),
           NEW i \in DOMAIN part.segments
    PROVE  /\ Bytes(part.segments[i]) \subseteq Offsets
           /\ \A o \in Bytes(part.segments[i]) : o < SizeOf[c]
           /\ part.segments[i].end < SizeOf[c]
  <1>1. part.segments[i] \in Segment /\ SizeOf[c] \in 1 .. MaxSize /\ MaxSize \in Nat
    BY PartFields, HttpConstants, FileConstants
  <1>2. Bytes(part.segments[i]) \subseteq 0 .. SizeOf[c] - 1
    BY DEF Describes, Covers
  <1>3. part.segments[i].end \in Bytes(part.segments[i])
    BY <1>1 DEF Proper, Bytes, Segment
  <1> QED
    BY <1>1, <1>2, <1>3 DEF Offsets

\* When every range is done, every byte of the content is claimed.
LEMMA AllClaimed ==
    ASSUME NEW part, IsPart(part), NEW c \in Contents, Describes(part, c), AllDone(part),
           NEW o \in Offsets, o < SizeOf[c]
    PROVE  \E i \in DOMAIN part.segments : o \in Claimed(part.segments[i])
  <1>1. o \in 0 .. SizeOf[c] - 1
    BY HttpConstants DEF Offsets
  <1>2. PICK i \in DOMAIN part.segments : o \in Bytes(part.segments[i])
    BY <1>1 DEF Describes, Covers
  <1>3. part.segments[i] \in Segment /\ IsDone(part.segments[i])
    BY PartFields DEF AllDone
  <1>4. o \in Claimed(part.segments[i])
    BY <1>2, <1>3 DEF Claimed, Bytes, IsDone, ResumeOffset, Segment
  <1> QED
    BY <1>4

\* A run starts from a part file that describes its content, and everything
\* this file claims is on disk.
LEMMA PartForSafe ==
    ASSUME SafeInv, phase = "stopped", NEW c \in Contents, NEW threads \in ThreadChoices
    PROVE  LET part == PartFor(c, threads)
           IN  /\ Describes(part, c)
               /\ \A i \in DOMAIN part.segments : \A o \in Claimed(part.segments[i]) : disk[o] = c
               /\ AllDone(part) => Resumable(c)
  <1>1. CASE Resumable(c)
    <2>1. PartFor(c, threads) = partFile /\ IsFile(partFile) /\ KeyMatches(partFile, c)
      BY <1>1 DEF PartFor, Resumable, IsFile
    <2>2. Describes(partFile, c)
      BY <2>1, OneContentPerKey DEF SafeInv, PartInv, Describes
    <2>3. \A i \in DOMAIN partFile.segments :
             \A o \in Claimed(partFile.segments[i]) : disk[o] = c
      BY <2>1 DEF SafeInv, ClaimsOnDisk, InFlight, IsFile
    <2> QED
      BY <1>1, <2>1, <2>2, <2>3
  <1>2. CASE ~Resumable(c)
    <2> DEFINE part == FreshPart(c, threads)
    <2>1. PartFor(c, threads) = part
      BY <1>2 DEF PartFor
    <2>2. /\ IsPart(part) /\ KeyMatches(part, c) /\ Proper(part)
          /\ Covers(part.segments, SizeOf[c])
          /\ \A i \in DOMAIN part.segments : part.segments[i].downloaded = 0
      BY FreshPartShape, HttpConstants
    <2> HIDE DEF part
    <2>3. \A i \in DOMAIN part.segments : part.segments[i] \in Segment
      BY <2>2, PartFields
    <2>4. \A i \in DOMAIN part.segments :
             /\ ResumeOffset(part.segments[i]) <= part.segments[i].end + 1
             /\ Claimed(part.segments[i]) = {}
             /\ ~IsDone(part.segments[i])
      BY <2>2, <2>3 DEF ResumeOffset, Claimed, Bytes, IsDone, Segment, Proper
    <2>5. \E i \in DOMAIN part.segments : 0 \in Bytes(part.segments[i])
      BY <2>2, HttpConstants DEF Covers
    <2> QED
      BY <2>1, <2>2, <2>4, <2>5 DEF Describes, AllDone
  <1> QED
    BY <1>1, <1>2

\* Nothing is in a buffer, so what is safe is on disk.
LEMMA NothingInFlight ==
    ASSUME TypeInv, \A t \in Tasks : pend[t] = 0
    PROVE  \A o \in Offsets, c \in Contents : ~InFlight(o, c)
  BY DEF InFlight, TypeInv, TypeOK, Offsets

LEMMA SafeInit == Init => SafeInv
  <1> SUFFICES ASSUME Init PROVE SafeInv
    OBVIOUS
  <1>1. TypeInv
    BY TypeInit
  <1>2. Describes(shared, job)
    <2>1. job \in Contents /\ shared = FreshPart(job, 1) /\ 1 \in 1 .. MaxThreads
      BY HttpConstants DEF Init
    <2>2. \A i \in DOMAIN shared.segments : shared.segments[i] \in Segment
      BY <1>1, PartFields DEF TypeInv, TypeOK
    <2> QED
      BY <2>1, <2>2, FreshPartShape DEF Describes, ResumeOffset, Segment, Proper
  <1> QED
    BY <1>1, <1>2
       DEF Init, Idle, SafeInv, PartInv, RunInv, TaskInv, SharedOnDisk, ClaimsOnDisk,
           TailInv, CompletedIntact, IsFile

\* The steps that start a run.
LEMMA SafeStart ==
    ASSUME SafeInv, TypeInv', Benign, Start
    PROVE  SafeInv'
  <1>1. PICK c \in Contents, threads \in ThreadChoices :
            AlreadyComplete(c, threads) \/ StartSegmented(c, threads)
    BY DEF Start, Benign, StartSimple, StartFails
  <1> DEFINE part == PartFor(c, threads)
  <1>2. /\ phase = "stopped" /\ Idle /\ SafeInv /\ IsPart(part) /\ Proper(part)
        /\ UNCHANGED <<disk, taskVars>>
        /\ job' = c /\ shared' = part
    BY <1>1, PartForShape
       DEF AlreadyComplete, StartSegmented, StartRun, SafeInv, TypeInv, ShapeInv
  <1>3. /\ Describes(part, c)
        /\ \A i \in DOMAIN part.segments : \A o \in Claimed(part.segments[i]) : disk[o] = c
        /\ AllDone(part) => Resumable(c)
    BY <1>2, PartForSafe
  <1> HIDE DEF part
  <1>4. (\A t \in Tasks : TaskInv(t))' /\ phase' \in {"stopped", "open"}
    BY <1>1, <1>2 DEF AlreadyComplete, StartSegmented, TaskInv, taskVars, Idle
  <1>5. CASE AlreadyComplete(c, threads)
    <2>1. /\ partFile' = NoPart /\ outcome' = "ok" /\ phase' = "stopped"
          /\ AllDone(part) /\ Resumable(c)
      <3>1. AllDone(part)
        BY <1>5 DEF AlreadyComplete, part
      <3> QED
        BY <1>2, <1>3, <1>5, <3>1 DEF AlreadyComplete
    <2>2. \A o \in Offsets : o < SizeOf[c] => disk[o] = c
      BY <1>2, <1>3, <2>1, AllClaimed
    <2>3. \A o \in Offsets : o >= SizeOf[c] => disk[o] = None
      BY <1>2, <2>1 DEF SafeInv, TailInv, Resumable, IsFile
    <2>4. CompletedIntact'
      BY <1>2, <2>2, <2>3, HttpConstants
         DEF CompletedIntact, Body, Offsets, SafeInv, TypeInv, TypeOK
    <2> QED
      BY <1>2, <1>3, <1>4, <2>1, <2>4
         DEF SafeInv, PartInv, RunInv, SharedOnDisk, ClaimsOnDisk, TailInv, IsFile, taskVars
  <1>6. CASE StartSegmented(c, threads)
    <2>1. partFile' = partFile /\ outcome' = "none" /\ phase' = "open"
      BY <1>6 DEF StartSegmented
    <2>2. PartInv'
      BY <1>2, <1>3, <2>1 DEF SafeInv, PartInv, IsFile, Describes, KeyMatches
    <2>3. RunInv' /\ CompletedIntact'
      BY <1>2, <2>1 DEF SafeInv, RunInv, CompletedIntact, Body, taskVars
    <2>4. SharedOnDisk'
      BY <1>2, <1>3, <2>1 DEF SharedOnDisk, Safe
    <2>5. ClaimsOnDisk'
      BY <1>2, <2>1 DEF SafeInv, ClaimsOnDisk, InFlight, KeyMatches, Claimed, Bytes
    <2>6. TailInv'
      BY <1>2, <2>1 DEF SafeInv, TailInv, IsFile, KeyMatches
    <2> QED
      BY <1>4, <2>2, <2>3, <2>4, <2>5, <2>6 DEF SafeInv
  <1> QED
    BY <1>1, <1>5, <1>6

\* set_len keeps what the run will not fetch again and cuts the rest.
LEMMA SafeOpen ==
    ASSUME SafeInv, TypeInv', OpenOutput
    PROVE  SafeInv'
  <1>1. /\ phase = "open" /\ phase' = "save" /\ disk' = SetLen(disk, SizeOf[job])
        /\ UNCHANGED <<partFile, outcome, job, shared, taskVars>>
    BY DEF OpenOutput
  <1>2. SharedOnDisk'
    <2> SUFFICES ASSUME NEW i \in DOMAIN shared.segments,
                        NEW o \in Claimed(shared.segments[i])
                 PROVE  disk'[o] = job
      BY <1>1 DEF SharedOnDisk, Safe
    <2>1. o \in Offsets /\ o < SizeOf[job] /\ job \in Contents
      BY DescribedOffsets DEF SafeInv, PartInv, TypeInv, TypeOK, ShapeInv, Claimed
    <2>2. disk[o] = job
      BY <1>1 DEF SafeInv, SharedOnDisk, Safe, InFlight
    <2>3. job # None /\ ~(o >= SizeOf[job])
      BY <2>1, HttpConstants, FileConstants DEF Offsets
    <2> QED
      BY <1>1, <2>1, <2>2, <2>3 DEF SetLen
  <1>3. TailInv'
    BY <1>1 DEF TailInv, SetLen
  <1>4. PartInv' /\ RunInv' /\ CompletedIntact'
    BY <1>1 DEF SafeInv, PartInv, RunInv, CompletedIntact, Body, IsFile, Describes, KeyMatches, taskVars
  <1>5. (\A t \in Tasks : TaskInv(t))'
    BY <1>1 DEF SafeInv, TaskInv, taskVars
  <1>6. ClaimsOnDisk'
    BY <1>1 DEF ClaimsOnDisk
  <1> QED
    BY <1>2, <1>3, <1>4, <1>5, <1>6 DEF SafeInv

\* The first save, and the tasks it lets start.
LEMMA SafeSave ==
    ASSUME SafeInv, TypeInv', SavePart
    PROVE  SafeInv'
  <1>1. /\ phase = "save" /\ phase' = "running" /\ partFile' = shared /\ Idle
        /\ UNCHANGED <<disk, outcome, job, shared, pos, written, pend, werr>>
        /\ pc' = [t \in Tasks |->
                    IF t \in DOMAIN shared.segments /\ ~IsDone(shared.segments[t])
                    THEN "request" ELSE "off"]
    BY DEF SavePart, SafeInv, TypeInv, ShapeInv
  <1>2. IsPart(shared) /\ Proper(shared) /\ job \in Contents /\ Describes(shared, job)
    BY DEF SafeInv, TypeInv, TypeOK, ShapeInv, PartInv
  <1>3. \A i \in DOMAIN shared.segments : \A o \in Claimed(shared.segments[i]) : disk[o] = job
    BY <1>1 DEF SafeInv, SharedOnDisk, Safe, InFlight
  <1>4. PartInv' /\ RunInv' /\ CompletedIntact'
    BY <1>1, <1>2
       DEF SafeInv, PartInv, RunInv, CompletedIntact, Body, IsFile, Describes, KeyMatches
  <1>5. SharedOnDisk'
    BY <1>1, <1>3 DEF SharedOnDisk, Safe
  <1>6. ClaimsOnDisk'
    BY <1>1, <1>2, <1>3, OneContentPerKey DEF ClaimsOnDisk, Describes, KeyMatches
  <1>7. TailInv'
    BY <1>1, <1>2, OneContentPerKey DEF SafeInv, TailInv, Describes, KeyMatches
  <1>8. ASSUME NEW t \in Tasks PROVE TaskInv(t)'
    <2>1. t \in DOMAIN shared.segments => shared.segments[t] \in Segment
      BY <1>2, PartFields
    <2>2. t \in DOMAIN shared.segments => 0 <= shared.segments[t].end + 1
      BY <1>2, <2>1 DEF Proper, Segment
    <2>3. pos'[t] = 0 /\ pend'[t] = 0
      BY <1>1 DEF Idle
    <2>4. pc'[t] \in {"off", "request"} /\ (pc'[t] = "off" /\ t \in DOMAIN shared.segments
             => IsDone(shared.segments[t]))
      BY <1>1
    <2> QED
      BY <1>1, <2>2, <2>3, <2>4 DEF TaskInv
  <1> QED
    BY <1>4, <1>5, <1>6, <1>7, <1>8 DEF SafeInv

\* A task step that leaves the part file, the segments and the run alone keeps
\* everything but the place of the task, if no byte it relied on gets lost.
LEMMA SafeFrame ==
    ASSUME SafeInv, phase = "running",
           UNCHANGED <<partFile, phase, outcome, job, shared, werr>>,
           \A o \in Offsets : Safe(o) => Safe(o)',
           \A o \in Offsets : o >= SizeOf[job] => disk'[o] = disk[o]
    PROVE  /\ PartInv' /\ RunInv' /\ CompletedIntact'
           /\ SharedOnDisk' /\ ClaimsOnDisk' /\ TailInv'
  <1>1. IsPart(shared) /\ Proper(shared) /\ job \in Contents /\ Describes(shared, job)
    BY DEF SafeInv, TypeInv, TypeOK, ShapeInv, PartInv
  <1>2. PartInv' /\ RunInv' /\ CompletedIntact'
    BY DEF SafeInv, PartInv, RunInv, CompletedIntact, Body, IsFile, Describes, KeyMatches
  <1>3. SharedOnDisk'
    BY <1>1, DescribedOffsets DEF SafeInv, SharedOnDisk, Claimed
  <1>4. ASSUME IsFile(partFile), NEW c \in Contents, KeyMatches(partFile, c)
        PROVE  c = job /\ IsPart(partFile) /\ Proper(partFile) /\ Describes(partFile, job)
    <2>1. PICK d \in Contents : Describes(partFile, d)
      BY <1>4 DEF SafeInv, PartInv
    <2>2. d = job /\ c = job
      BY <1>1, <1>4, <2>1, OneContentPerKey DEF SafeInv, PartInv, Describes
    <2> QED
      BY <1>4, <2>1, <2>2 DEF SafeInv, TypeInv, TypeOK, ShapeInv, IsFile
  <1>5. ClaimsOnDisk'
    <2> SUFFICES ASSUME IsFile(partFile), NEW c \in Contents, KeyMatches(partFile, c),
                        NEW i \in DOMAIN partFile.segments,
                        NEW o \in Claimed(partFile.segments[i])
                 PROVE  Safe(o)' /\ c = job
      BY DEF ClaimsOnDisk, IsFile, KeyMatches, Safe
    <2>1. c = job /\ o \in Offsets
      BY <1>4, <1>1, DescribedOffsets DEF Claimed
    <2>2. Safe(o)
      BY <2>1 DEF SafeInv, ClaimsOnDisk, IsFile, Safe
    <2> QED
      BY <2>1, <2>2
  <1>6. TailInv'
    BY <1>1, <1>4 DEF SafeInv, TailInv, IsFile, KeyMatches
  <1> QED
    BY <1>2, <1>3, <1>5, <1>6

\* The bytes a task has received lie in the file.
LEMMA ReceivedOffsets ==
    ASSUME SafeInv, phase = "running", NEW t \in DOMAIN shared.segments
    PROVE  /\ shared.segments[t] \in Segment /\ t \in Tasks
           /\ ResumeOffset(shared.segments[t]) \in Nat
           /\ ResumeOffset(shared.segments[t]) <= shared.segments[t].end + 1
           /\ SizeOf[job] \in Nat
           /\ pos[t] <= SizeOf[job]
           /\ \A o \in Int : 0 <= o /\ o < pos[t] => o \in Offsets
  <1>1. /\ IsPart(shared) /\ Proper(shared) /\ job \in Contents /\ Describes(shared, job)
        /\ pos \in [Tasks -> Nat]
    BY DEF SafeInv, TypeInv, TypeOK, ShapeInv, PartInv
  <1>2. /\ shared.segments[t] \in Segment /\ t \in Tasks
        /\ ResumeOffset(shared.segments[t]) \in Nat
        /\ ResumeOffset(shared.segments[t]) <= shared.segments[t].end + 1
    BY <1>1, PartFields DEF Describes, ResumeOffset, Segment
  <1>3. shared.segments[t].end < SizeOf[job] /\ SizeOf[job] \in 1 .. MaxSize
    BY <1>1, DescribedOffsets, HttpConstants
  <1>4. pos[t] <= shared.segments[t].end + 1
    BY <1>2 DEF SafeInv, TaskInv
  <1> QED
    BY <1>1, <1>2, <1>3, <1>4, HttpConstants, FileConstants DEF Offsets, Segment

\* A step of one task does not move another one.
LEMMA SafeOthers ==
    ASSUME SafeInv, phase = "running", UNCHANGED <<phase, job>>,
           DOMAIN shared'.segments = DOMAIN shared.segments,
           \A o \in Offsets : Safe(o) => Safe(o)',
           NEW u \in Tasks,
           u \in DOMAIN shared.segments => shared'.segments[u] = shared.segments[u],
           pc'[u] = pc[u], pos'[u] = pos[u], written'[u] = written[u], pend'[u] = pend[u]
    PROVE  TaskInv(u)'
  <1>1. CASE u \notin DOMAIN shared.segments
    BY <1>1 DEF SafeInv, TaskInv
  <1>2. CASE u \in DOMAIN shared.segments
    <2> DEFINE seg == shared.segments[u]
    <2>1. TaskInv(u)
      BY DEF SafeInv
    <2>2. \A o \in ResumeOffset(seg) .. pos[u] - 1 : o \in Offsets
      BY <1>2, ReceivedOffsets DEF SafeInv, TypeInv, TypeOK
    <2>3. pc[u] \in {"stream", "mark", "flush"} =>
             \A o \in ResumeOffset(seg) .. pos[u] - 1 : Safe(o)'
      BY <1>2, <2>1, <2>2 DEF TaskInv
    <2> QED
      BY <1>2, <2>1, <2>3 DEF TaskInv
  <1> QED
    BY <1>1, <1>2

\* The server answers: the task starts where the claims end.
LEMMA SafeRequest ==
    ASSUME SafeInv, TypeInv', NEW t \in Tasks, Request(t)
    PROVE  SafeInv'
  <1>1. /\ phase = "running" /\ pc[t] = "request" /\ t \in DOMAIN shared.segments
        /\ pend[t] = 0 /\ written[t] = 0
    BY DEF Request, SafeInv, TypeInv, ShapeInv, TaskInv
  <1>2. /\ UNCHANGED <<disk, partFile, phase, outcome, job, shared, written, pend, werr>>
        /\ pos' = [pos EXCEPT ![t] = ResumeOffset(shared.segments[t])]
        /\ pc' = [pc EXCEPT ![t] = "stream"]
    BY DEF Request, Goto
  <1>3. DOMAIN pc = Tasks /\ pos \in [Tasks -> Nat]
    BY DEF SafeInv, TypeInv, TypeOK
  <1>4. ASSUME NEW o \in Offsets, Safe(o) PROVE Safe(o)'
    <2>1. ASSUME NEW u \in Tasks, o \in pos[u] - pend[u] .. pos[u] - 1
          PROVE  o \in pos'[u] - pend'[u] .. pos'[u] - 1
      <3>1. u # t
        BY <1>1, <1>3, <2>1 DEF Offsets
      <3> QED
        BY <1>2, <1>3, <2>1, <3>1
    <2> QED
      BY <1>2, <1>4, <2>1 DEF Safe, InFlight
  <1>5. \A u \in Tasks : u # t => TaskInv(u)'
    BY <1>1, <1>2, <1>3, <1>4, SafeOthers
  <1>6. TaskInv(t)'
    BY <1>1, <1>2, <1>3, ReceivedOffsets DEF TaskInv
  <1> QED
    BY <1>1, <1>2, <1>4, <1>5, <1>6, SafeFrame DEF SafeInv

\* A chunk is received: its bytes are in the buffer.
LEMMA SafeReceive ==
    ASSUME SafeInv, TypeInv', NEW t \in Tasks, NEW n \in 1 .. MaxChunk, Receive(t, n)
    PROVE  SafeInv'
  <1>1. /\ phase = "running" /\ pc[t] = "stream" /\ t \in DOMAIN shared.segments
        /\ pend[t] = 0 /\ pos[t] + n <= shared.segments[t].end + 1 /\ n \in Nat
    BY HttpConstants DEF Receive, SafeInv, TypeInv, ShapeInv, RunInv, Idle, Last, TypeOK
  <1>2. /\ UNCHANGED <<disk, partFile, phase, outcome, job, shared, werr>>
        /\ pos' = [pos EXCEPT ![t] = @ + n]
        /\ pend' = [pend EXCEPT ![t] = n]
        /\ written' = [written EXCEPT ![t] = @ + n]
        /\ pc' \in {pc, [pc EXCEPT ![t] = "mark"]}
    BY <1>1 DEF Receive, Goto
  <1>3. /\ DOMAIN pc = Tasks /\ pos \in [Tasks -> Nat]
        /\ pend \in [Tasks -> Nat] /\ written \in [Tasks -> Nat]
    BY DEF SafeInv, TypeInv, TypeOK
  <1>4. ASSUME NEW o \in Offsets, Safe(o) PROVE Safe(o)'
    <2>1. ASSUME NEW u \in Tasks, o \in pos[u] - pend[u] .. pos[u] - 1
          PROVE  o \in pos'[u] - pend'[u] .. pos'[u] - 1
      <3>1. u # t
        BY <1>1, <1>3, <2>1 DEF Offsets
      <3> QED
        BY <1>2, <1>3, <2>1, <3>1
    <2> QED
      BY <1>2, <1>4, <2>1 DEF Safe, InFlight
  <1>5. \A u \in Tasks : u # t => TaskInv(u)'
    BY <1>1, <1>2, <1>3, <1>4, SafeOthers
  <1>6. TaskInv(t)'
    <2> DEFINE seg == shared.segments[t]
    <2>1. /\ pos[t] = ResumeOffset(seg) + written[t] /\ ResumeOffset(seg) \in Nat
          /\ \A o \in ResumeOffset(seg) .. pos[t] - 1 : o \in Offsets /\ Safe(o)
      BY <1>1, <1>3, ReceivedOffsets DEF SafeInv, TaskInv
    <2>2. pos'[t] = pos[t] + n /\ pend'[t] = n /\ written'[t] = written[t] + n
      BY <1>2, <1>3
    <2>3. \A o \in ResumeOffset(seg) .. pos'[t] - 1 : Safe(o)'
      <3> SUFFICES ASSUME NEW o \in ResumeOffset(seg) .. pos'[t] - 1 PROVE Safe(o)'
        OBVIOUS
      <3>1. CASE o < pos[t]
        BY <1>3, <1>4, <2>1, <3>1
      <3>2. CASE ~(o < pos[t])
        <4>1. o \in pos'[t] - pend'[t] .. pos'[t] - 1
          BY <1>1, <1>3, <2>1, <2>2, <3>2
        <4> QED
          BY <1>1, <1>2, <4>1 DEF Safe, InFlight
      <3> QED
        BY <3>1, <3>2
    <2>4. pc'[t] \in {"stream", "mark"}
      BY <1>1, <1>2, <1>3
    <2>5. pos'[t] = ResumeOffset(seg) + written'[t] /\ pend'[t] <= pos'[t]
      BY <1>1, <1>3, <2>1, <2>2
    <2> QED
      BY <1>1, <1>2, <2>2, <2>3, <2>4, <2>5 DEF TaskInv
  <1> QED
    BY <1>1, <1>2, <1>4, <1>5, <1>6, SafeFrame DEF SafeInv

\* The stream ends where its range does, or breaks.
LEMMA SafeStreamEnds ==
    ASSUME SafeInv, TypeInv', Benign, NEW t \in Tasks, StreamEnds(t) \/ TaskFails(t)
    PROVE  SafeInv'
  <1>1. /\ phase = "running" /\ t \in DOMAIN shared.segments
        /\ pc[t] \in {"request", "stream"}
    BY DEF StreamEnds, TaskFails, SafeInv, TypeInv, ShapeInv, RunInv, Idle, TypeOK
  <1>2. /\ UNCHANGED <<disk, partFile, phase, outcome, job, shared, pos, written, pend, werr>>
        /\ DOMAIN pc = Tasks
    BY DEF StreamEnds, TaskFails, fileVars, SafeInv, TypeInv, TypeOK
  <1>3. \A o \in Offsets : Safe(o) => Safe(o)'
    BY <1>2 DEF Safe, InFlight
  <1>4. \A u \in Tasks : u # t => TaskInv(u)'
    BY <1>1, <1>2, <1>3, SafeOthers DEF StreamEnds, TaskFails, Goto
  <1>5. TaskInv(t)'
    <2>1. TaskInv(t)
      BY DEF SafeInv
    <2>2. CASE StreamEnds(t)
      <3>1. pc[t] = "stream" /\ pc'[t] = "flush" /\ pos[t] = shared.segments[t].end + 1
        BY <1>1, <1>2, <2>2 DEF StreamEnds, Goto, Benign, Last
      <3>2. \A o \in ResumeOffset(shared.segments[t]) .. pos[t] - 1 : o \in Offsets
        BY <1>1, ReceivedOffsets DEF SafeInv, TypeInv, TypeOK
      <3> QED
        BY <1>1, <1>2, <1>3, <2>1, <3>1, <3>2 DEF TaskInv
    <2>3. CASE TaskFails(t)
      BY <1>1, <1>2, <2>1, <2>3 DEF TaskFails, Goto, TaskInv
    <2> QED
      BY <2>2, <2>3
  <1> QED
    BY <1>1, <1>2, <1>3, <1>4, <1>5, SafeFrame DEF SafeInv

\* A buffered write is performed: its bytes move from the buffer to the disk.
LEMMA SafeWriteLands ==
    ASSUME SafeInv, TypeInv', NEW t \in Tasks, WriteLands(t)
    PROVE  SafeInv'
  <1>1. /\ phase = "running" /\ pend[t] > 0 /\ t \in DOMAIN shared.segments
    <2>1. pend[t] > 0 /\ pend[t] # 0 /\ ~Idle
      BY DEF WriteLands, Idle, SafeInv, TypeInv, TypeOK
    <2>2. pc[t] # "off" /\ phase = "running"
      BY <2>1 DEF SafeInv, TaskInv, RunInv, TypeInv, ShapeInv
    <2> QED
      BY <2>1, <2>2 DEF SafeInv, TypeInv, ShapeInv
  <1>2. /\ UNCHANGED <<partFile, phase, outcome, job, shared, pc, pos, written, werr>>
        /\ pend' = [pend EXCEPT ![t] = 0]
        /\ disk' = Write(disk, pos[t] - pend[t], pend[t], job)
    BY DEF WriteLands
  <1>3. /\ pos \in [Tasks -> Nat] /\ pend \in [Tasks -> Nat]
        /\ disk \in [Offsets -> Contents \union {Zero, None}]
    BY DEF SafeInv, TypeInv, TypeOK
  <1>4. ASSUME NEW o \in Offsets, Safe(o) PROVE Safe(o)'
    <2>1. CASE o \in pos[t] - pend[t] .. pos[t] - 1
      BY <1>2, <1>3, <2>1 DEF Write, Safe
    <2>2. CASE o \notin pos[t] - pend[t] .. pos[t] - 1
      <3>1. disk'[o] = disk[o]
        BY <1>2, <1>3, <2>2 DEF Write
      <3>2. ASSUME NEW u \in Tasks, o \in pos[u] - pend[u] .. pos[u] - 1
            PROVE  o \in pos'[u] - pend'[u] .. pos'[u] - 1
        BY <1>2, <1>3, <2>2, <3>2
      <3> QED
        BY <1>2, <1>4, <3>1, <3>2 DEF Safe, InFlight
    <2> QED
      BY <2>1, <2>2
  <1>5. \A o \in Offsets : o >= SizeOf[job] => disk'[o] = disk[o]
    <2>1. pos[t] <= SizeOf[job] /\ SizeOf[job] \in Nat
      BY <1>1, ReceivedOffsets
    <2> QED
      BY <1>2, <1>3, <2>1 DEF Write, Offsets
  <1>6. \A u \in Tasks : u # t => TaskInv(u)'
    BY <1>1, <1>2, <1>3, <1>4, SafeOthers
  <1>7. TaskInv(t)'
    <2>1. \A o \in ResumeOffset(shared.segments[t]) .. pos[t] - 1 : o \in Offsets
      BY <1>1, <1>3, ReceivedOffsets
    <2>2. pend'[t] = 0
      BY <1>2, <1>3
    <2> QED
      BY <1>1, <1>2, <1>3, <1>4, <2>1, <2>2 DEF SafeInv, TaskInv
  <1> QED
    BY <1>1, <1>2, <1>4, <1>5, <1>6, <1>7, SafeFrame DEF SafeInv

\* A counter is moved over bytes that are safe.
LEMMA SafeMark ==
    ASSUME SafeInv, TypeInv', NEW t \in Tasks, MarkProgress(t) \/ FinishSegment(t)
    PROVE  SafeInv'
  <1> DEFINE seg == shared.segments[t]
             new == shared'.segments[t]
  <1>1. /\ phase = "running" /\ t \in DOMAIN shared.segments /\ seg \in Segment
        /\ shared'.url = shared.url /\ shared'.total_size = shared.total_size
        /\ DOMAIN shared'.segments = DOMAIN shared.segments
        /\ \A i \in DOMAIN shared.segments :
             /\ shared'.segments[i].start = shared.segments[i].start
             /\ shared'.segments[i].end = shared.segments[i].end
             /\ i # t => shared'.segments[i] = shared.segments[i]
    BY MarkChanges DEF SafeInv
  <1>2. /\ UNCHANGED <<disk, phase, outcome, job, pos, pend, werr>>
        /\ partFile' \in {shared', partFile, Torn}
        /\ DOMAIN pc = Tasks
    BY DEF MarkProgress, FinishSegment, Save, SafeInv, TypeInv, TypeOK
  <1>3. \A o : Safe(o)' <=> Safe(o)
    BY <1>2 DEF Safe, InFlight
  <1>4. /\ pc[t] \in {"mark", "flush"}
        /\ pos[t] = ResumeOffset(seg) + written[t] /\ pos[t] <= seg.end + 1
        /\ \A o \in ResumeOffset(seg) .. pos[t] - 1 : Safe(o)
        /\ pos[t] \in Nat /\ written[t] \in Nat /\ ResumeOffset(seg) \in Nat
    BY <1>1, ReceivedOffsets DEF MarkProgress, FinishSegment, SafeInv, TaskInv, TypeInv, TypeOK
  <1>5. /\ ResumeOffset(new) = pos[t] /\ new.end = seg.end /\ new.start = seg.start
        /\ FinishSegment(t) => IsDone(new)
    <2>1. new.end = seg.end /\ new.start = seg.start
      BY <1>1
    <2>2. CASE MarkProgress(t)
      <3>1. new.downloaded = seg.downloaded + written[t] /\ ~FinishSegment(t)
        BY <2>2, MarkChanges DEF SafeInv, MarkProgress, FinishSegment
      <3> QED
        BY <1>1, <1>4, <2>1, <3>1 DEF ResumeOffset, Segment
    <2>3. CASE FinishSegment(t)
      <3>1. new.downloaded = seg.end - seg.start + 1
        BY <2>3, MarkChanges DEF SafeInv
      <3>2. pos[t] = seg.end + 1
        BY <1>1, <2>3 DEF SafeInv, TaskInv, FinishSegment
      <3> QED
        BY <1>1, <2>1, <3>1, <3>2 DEF ResumeOffset, IsDone, Segment
    <2> QED
      BY <2>2, <2>3
  <1>6. ASSUME NEW i \in DOMAIN shared.segments, NEW o \in Claimed(shared'.segments[i])
        PROVE  Safe(o)
    <2>1. CASE i # t
      BY <1>1, <1>6, <2>1 DEF SafeInv, SharedOnDisk
    <2>2. CASE i = t
      <3>1. o \in Bytes(seg) /\ o < pos[t] /\ o \in Int
        BY <1>1, <1>5, <1>6, <2>2 DEF Claimed, Bytes, Segment
      <3>2. CASE o < ResumeOffset(seg)
        BY <1>1, <3>1, <3>2 DEF SafeInv, SharedOnDisk, Claimed
      <3>3. CASE ~(o < ResumeOffset(seg))
        BY <1>4, <3>1, <3>3
      <3> QED
        BY <3>2, <3>3
    <2> QED
      BY <2>1, <2>2
  <1>7. SharedOnDisk'
    BY <1>1, <1>3, <1>6 DEF SharedOnDisk
  <1>8. /\ Describes(shared, job) /\ job \in Contents
        /\ IsPart(shared) /\ Proper(shared)
    BY DEF SafeInv, PartInv, TypeInv, TypeOK, ShapeInv
  <1>9. Describes(shared', job)
    <2>1. KeyMatches(shared', job)
      BY <1>1, <1>8 DEF Describes, KeyMatches
    <2>2. Covers(shared'.segments, SizeOf[job])
      <3>1. \A i \in DOMAIN shared.segments :
               Bytes(shared'.segments[i]) = Bytes(shared.segments[i])
        BY <1>1 DEF Bytes
      <3>2. \A o : (\E i \in DOMAIN shared.segments : o \in Bytes(shared'.segments[i]))
                   <=> (\E i \in DOMAIN shared.segments : o \in Bytes(shared.segments[i]))
        BY <3>1
      <3> QED
        BY <1>1, <1>8, <3>2 DEF Describes, Covers
    <2>3. \A i \in DOMAIN shared'.segments :
             ResumeOffset(shared'.segments[i]) <= shared'.segments[i].end + 1
      BY <1>1, <1>4, <1>5, <1>8 DEF Describes
    <2> QED
      BY <2>1, <2>2, <2>3 DEF Describes
  <1>10. PartInv'
    BY <1>1, <1>2, <1>8, <1>9
       DEF SafeInv, PartInv, IsFile, Describes, KeyMatches
  <1>11. RunInv' /\ CompletedIntact'
    BY <1>1, <1>2 DEF SafeInv, RunInv, CompletedIntact, Body
  <1>12. ASSUME IsFile(partFile'), NEW c \in Contents, KeyMatches(partFile', c)
         PROVE  c = job
    BY <1>1, <1>2, <1>8, <1>10, <1>12, OneContentPerKey DEF PartInv, IsFile, KeyMatches
  <1>13. ClaimsOnDisk'
    <2> SUFFICES ASSUME IsFile(partFile'), NEW c \in Contents, KeyMatches(partFile', c),
                        NEW i \in DOMAIN partFile'.segments,
                        NEW o \in Claimed(partFile'.segments[i])
                 PROVE  Safe(o) /\ c = job
      BY <1>2 DEF ClaimsOnDisk, IsFile, KeyMatches, Safe, InFlight
    <2>1. c = job
      BY <1>12
    <2>2. CASE partFile' = shared'
      BY <1>1, <1>6, <2>1, <2>2
    <2>3. CASE partFile' = partFile
      BY <1>1, <2>1, <2>3 DEF SafeInv, ClaimsOnDisk, IsFile, KeyMatches, Safe
    <2> QED
      BY <1>2, <2>1, <2>2, <2>3 DEF IsFile
  <1>14. TailInv'
    BY <1>1, <1>2, <1>12 DEF SafeInv, TailInv, KeyMatches
  <1>15. \A u \in Tasks : u # t => TaskInv(u)'
    BY <1>1, <1>2, <1>3, SafeOthers
       DEF MarkProgress, FinishSegment, Goto, SafeInv, TypeInv, TypeOK
  <1>16. TaskInv(t)'
    <2>1. TaskInv(t)
      BY DEF SafeInv
    <2>2. CASE MarkProgress(t)
      <3>1. pc'[t] = "stream" /\ written'[t] = 0
        BY <1>2, <2>2 DEF MarkProgress, Goto, SafeInv, TypeInv, TypeOK
      <3> QED
        BY <1>1, <1>2, <1>4, <1>5, <2>1, <3>1 DEF TaskInv
    <2>3. CASE FinishSegment(t)
      <3>1. pc'[t] = "done" /\ pend[t] = 0
        BY <1>2, <2>3 DEF FinishSegment, Goto
      <3> QED
        BY <1>1, <1>2, <1>4, <1>5, <2>1, <2>3, <3>1 DEF TaskInv
    <2> QED
      BY <2>2, <2>3
  <1> QED
    BY <1>7, <1>10, <1>11, <1>13, <1>14, <1>15, <1>16 DEF SafeInv

\* Success: every range is done, and nothing is left in a buffer.
LEMMA SafeComplete ==
    ASSUME SafeInv, TypeInv', Complete
    PROVE  SafeInv'
  <1>1. /\ phase = "running" /\ \A t \in Tasks : Returned(t)
        /\ partFile' = NoPart /\ phase' = "stopped" /\ outcome' = "ok" /\ Idle'
        /\ UNCHANGED <<disk, job, shared>>
    BY DEF Complete, Stop, Idle
  <1>2. /\ IsPart(shared) /\ job \in Contents /\ Describes(shared, job)
        /\ disk \in [Offsets -> Contents \union {Zero, None}]
    BY DEF SafeInv, PartInv, TypeInv, TypeOK
  <1>3. \A t \in Tasks : pend[t] = 0
    BY <1>1 DEF SafeInv, TaskInv, Returned
  <1>4. AllDone(shared)
    BY <1>1, <1>2, PartFields DEF SafeInv, TaskInv, Returned, AllDone
  <1>5. \A o \in Offsets : o < SizeOf[job] => disk[o] = job
    BY <1>1, <1>2, <1>3, <1>4, AllClaimed, NothingInFlight DEF SafeInv, SharedOnDisk, Safe
  <1>6. \A o \in Offsets : o >= SizeOf[job] => disk[o] = None
    BY <1>1 DEF SafeInv, TailInv
  <1>7. CompletedIntact'
    BY <1>1, <1>2, <1>5, <1>6, HttpConstants DEF CompletedIntact, Body, Offsets
  <1>8. (\A t \in Tasks : TaskInv(t))' /\ RunInv'
    BY <1>1 DEF TaskInv, RunInv, Idle
  <1>9. PartInv' /\ SharedOnDisk' /\ ClaimsOnDisk' /\ TailInv'
    BY <1>1, <1>2
       DEF PartInv, SharedOnDisk, ClaimsOnDisk, TailInv, IsFile, Describes, KeyMatches
  <1> QED
    BY <1>7, <1>8, <1>9 DEF SafeInv

\* A run that is not a success leaves a part file that is true, or none that parses.
LEMMA SafeStop ==
    ASSUME SafeInv, TypeInv', Benign, SavePartFails \/ Fail \/ Kill
    PROVE  SafeInv'
  <1>1. /\ phase' = "stopped" /\ outcome' \in {"err", "killed"} /\ Idle'
        /\ UNCHANGED <<disk, job, shared>>
    BY DEF SavePartFails, Fail, Kill, Stop, Idle, fileVars, taskVars, SafeInv, TypeInv, ShapeInv
  <1>2. \/ partFile' = Torn
        \/ partFile' = partFile /\ phase # "save" /\ \A t \in Tasks : pend[t] = 0
    <2>1. CASE SavePartFails
      BY <2>1 DEF SavePartFails, Benign
    <2>2. CASE Fail
      <3>1. phase # "save"
        BY <2>2 DEF Fail, SafeInv, TypeInv, ShapeInv, Idle
      <3> QED
        BY <2>2, <3>1 DEF Fail, fileVars
    <2>3. CASE Kill
      <3>1. \A t \in Tasks : pend[t] = 0
        BY <2>3 DEF Kill, Benign, SafeInv, TypeInv, TypeOK
      <3> QED
        BY <2>3, <3>1 DEF Kill, Benign
    <2> QED
      BY <2>1, <2>2, <2>3
  <1>3. PartInv' /\ RunInv' /\ CompletedIntact' /\ SharedOnDisk'
    BY <1>1, <1>2
       DEF SafeInv, PartInv, RunInv, CompletedIntact, Body, SharedOnDisk, IsFile, Describes,
           KeyMatches, Idle
  <1>4. (\A t \in Tasks : TaskInv(t))'
    BY <1>1 DEF TaskInv, Idle
  <1>5. TailInv'
    BY <1>1, <1>2 DEF SafeInv, TailInv, IsFile, KeyMatches
  <1>6. ClaimsOnDisk'
    <2>1. CASE partFile' = Torn
      BY <2>1 DEF ClaimsOnDisk
    <2>2. CASE partFile' # Torn
      <3> SUFFICES ASSUME IsFile(partFile), NEW c \in Contents, KeyMatches(partFile, c),
                          NEW i \in DOMAIN partFile.segments,
                          NEW o \in Claimed(partFile.segments[i])
                   PROVE  disk[o] = c
        BY <1>1, <1>2, <2>2 DEF ClaimsOnDisk, IsFile, KeyMatches
      <3>1. disk[o] = c \/ InFlight(o, c)
        BY <1>2, <2>2 DEF SafeInv, ClaimsOnDisk, IsFile
      <3>2. o \in Offsets
        <4>1. PICK d \in Contents : Describes(partFile, d)
          BY DEF SafeInv, PartInv
        <4> QED
          BY <4>1, DescribedOffsets
             DEF SafeInv, TypeInv, TypeOK, ShapeInv, IsFile, Claimed
      <3>3. ~InFlight(o, c)
        BY <1>2, <2>2, <3>2, NothingInFlight DEF SafeInv
      <3> QED
        BY <3>1, <3>3
    <2> QED
      BY <2>1, <2>2
  <1> QED
    BY <1>3, <1>4, <1>5, <1>6 DEF SafeInv

LEMMA SafeStep ==
    ASSUME Benign
    PROVE  SafeInv /\ [Next]_vars => SafeInv'
  <1> SUFFICES ASSUME SafeInv, [Next]_vars PROVE SafeInv'
    OBVIOUS
  <1>1. TypeInv'
    BY TypeStep DEF SafeInv
  <1>2. CASE Start
    BY <1>1, <1>2, SafeStart
  <1>3. CASE OpenOutput
    BY <1>1, <1>3, SafeOpen
  <1>4. CASE SavePart
    BY <1>1, <1>4, SafeSave
  <1>5. ASSUME NEW t \in Tasks, Step(t) \/ Mishap(t)
        PROVE  SafeInv'
    <2>1. ~ReportError(t) /\ ~WriteFails(t)
      BY DEF ReportError, WriteFails, SafeInv, RunInv, Benign
    <2> QED
      BY <1>1, <1>5, <2>1, SafeRequest, SafeReceive, SafeMark, SafeStreamEnds, SafeWriteLands
         DEF Step, Mishap
  <1>6. CASE Complete
    BY <1>1, <1>6, SafeComplete
  <1>7. CASE CompleteSimple
    BY <1>7 DEF CompleteSimple, SafeInv, RunInv
  <1>8. CASE SavePartFails \/ Fail \/ Kill
    BY <1>1, <1>8, SafeStop
  <1>9. CASE UNCHANGED vars
    BY <1>9
       DEF SafeInv, TypeInv, TypeOK, ShapeInv, PartInv, RunInv, TaskInv, SharedOnDisk,
           ClaimsOnDisk, TailInv, CompletedIntact, vars, taskVars, Idle, IsFile, Proper,
           Describes, KeyMatches, Safe, InFlight
  <1> QED
    BY <1>2, <1>3, <1>4, <1>5, <1>6, <1>7, <1>8, <1>9 DEF Next, Progress, GiveUp

\* In a benign environment the invariant that relates the output file, the part
\* file, `shared` and every task holds at each step of each run.
THEOREM SafeAlways ==
    ASSUME Benign
    PROVE  Spec => []SafeInv
  BY SafeInit, SafeStep, PTL DEF Spec

\* In a benign environment the part file never counts a byte that is neither on
\* disk nor on its way there, for any size, cut, chunking and number of runs.
THEOREM ClaimsAreTrue ==
    ASSUME Benign
    PROVE  Spec => []ClaimsOnDisk
  <1>1. SafeInv => ClaimsOnDisk
    BY DEF SafeInv
  <1> QED
    BY <1>1, SafeAlways, PTL

\* In a benign environment a run that reports success leaves the whole body it
\* was asked for and nothing else, whatever earlier runs did.
THEOREM SuccessIsIntact ==
    ASSUME Benign
    PROVE  Spec => []CompletedIntact
  <1>1. SafeInv => CompletedIntact
    BY DEF SafeInv
  <1> QED
    BY <1>1, SafeAlways, PTL

-----------------------------------------------------------------------------
(***************************************************************************)
(* The one-stream mode, in every environment.                              *)
(***************************************************************************)
\* Task 0 is alone and, until a write fails, the output is the body up to what is
\* still in its buffer.
SimpleInv ==
    phase = "simple" =>
        /\ outcome = "none"
        /\ \A t \in Tasks \ {0} : pc[t] = "off" /\ pend[t] = 0
        /\ pend[0] <= pos[0] /\ pos[0] <= SizeOf[job]
        /\ pc[0] = "flush" => "short" \in Faults \/ pos[0] = SizeOf[job]
        /\ ~werr[0] => disk = Body(job, pos[0] - pend[0])

LEMMA BodyGrows ==
    ASSUME NEW c \in Contents, NEW n \in Nat, NEW m \in Nat
    PROVE  Write(Body(c, n), n, m, c) = Body(c, n + m)
  <1>1. MaxSize \in Nat
    BY FileConstants
  <1> QED
    BY <1>1 DEF Write, Body, Offsets

LEMMA SimpleStart ==
    ASSUME TypeInv, NEW c \in Contents, NEW threads \in ThreadChoices, StartSimple(c, threads)
    PROVE  SimpleInv'
  <1>1. Idle /\ 0 \in Tasks
    BY HttpConstants DEF StartSimple, StartRun, TypeInv, ShapeInv, Tasks
  <1>2. /\ job' = c /\ disk' = Empty /\ outcome' = "none" /\ pc' = [pc EXCEPT ![0] = "stream"]
        /\ UNCHANGED <<pos, pend, werr>>
    BY DEF StartSimple
  <1>3. SizeOf[c] \in Nat /\ MaxSize \in Nat
    BY HttpConstants, FileConstants
  <1>4. Empty = Body(c, 0)
    BY <1>3 DEF Empty, Body, Offsets
  <1>5. pos'[0] = 0 /\ pend'[0] = 0 /\ pc'[0] = "stream"
    BY <1>1, <1>2 DEF Idle
  <1>6. \A t \in Tasks \ {0} : pc'[t] = "off" /\ pend'[t] = 0
    BY <1>1, <1>2 DEF Idle
  <1> QED
    BY <1>2, <1>3, <1>4, <1>5, <1>6 DEF SimpleInv

LEMMA SimpleTask ==
    ASSUME TypeInv, SimpleInv, phase = "simple", NEW t \in Tasks, Step(t) \/ Mishap(t)
    PROVE  SimpleInv'
  <1>1. /\ 0 \in Tasks /\ job \in Contents /\ SizeOf[job] \in Nat
        /\ pos[0] \in Nat /\ pend[0] \in Nat /\ pend[0] <= pos[0] /\ pos[0] <= SizeOf[job]
    BY HttpConstants, FileConstants DEF TypeInv, TypeOK, Tasks, SimpleInv
  <1>2. phase' = phase /\ job' = job /\ outcome' = outcome
    BY DEF Step, Mishap, Request, Receive, MarkProgress, StreamEnds, FinishSegment, ReportError,
           WriteLands, TaskFails, WriteFails
  <1>3. t = 0
    <2> SUFFICES ASSUME t # 0 PROVE FALSE
      OBVIOUS
    <2>1. pc[t] = "off" /\ pend[t] = 0
      BY DEF SimpleInv
    <2> QED
      BY <2>1 DEF Step, Mishap, Request, Receive, MarkProgress, StreamEnds, FinishSegment,
                  ReportError, WriteLands, TaskFails, WriteFails
  <1>4. pc[0] \notin {"request", "mark", "done"}
    BY <1>1 DEF TypeInv, ShapeInv
  <1>5. ASSUME NEW n \in 1 .. MaxChunk, Receive(0, n)
        PROVE  SimpleInv'
    <2>1. /\ pc[0] = "stream" /\ pend[0] = 0 /\ pos[0] + n <= SizeOf[job] /\ n \in Nat
          /\ pos' = [pos EXCEPT ![0] = @ + n] /\ pend' = [pend EXCEPT ![0] = n]
          /\ UNCHANGED <<pc, disk, werr>>
      BY <1>1, <1>5, HttpConstants DEF Receive, Last
    <2>2. pos'[0] = pos[0] + n /\ pend'[0] = n /\ pos'[0] - pend'[0] = pos[0] - pend[0]
      BY <1>1, <2>1 DEF TypeInv, TypeOK
    <2>3. \A u \in Tasks \ {0} : pc'[u] = "off" /\ pend'[u] = 0
      BY <2>1 DEF SimpleInv, TypeInv, TypeOK
    <2> QED
      BY <1>1, <1>2, <2>1, <2>2, <2>3 DEF SimpleInv
  <1>6. CASE StreamEnds(0)
    <2>1. /\ pc' = [pc EXCEPT ![0] = "flush"] /\ UNCHANGED <<disk, pos, pend, werr>>
          /\ "short" \in Faults \/ pos[0] = SizeOf[job]
      BY <1>1, <1>6, HttpConstants DEF StreamEnds, Last, Goto, fileVars
    <2> QED
      BY <1>1, <1>2, <2>1 DEF SimpleInv, TypeInv, TypeOK
  <1>7. CASE ReportError(0) \/ TaskFails(0)
    <2>1. pc' = [pc EXCEPT ![0] = "failed"] /\ UNCHANGED <<disk, pos, pend, werr>>
      BY <1>7 DEF ReportError, TaskFails, Goto, fileVars
    <2> QED
      BY <1>1, <1>2, <2>1 DEF SimpleInv, TypeInv, TypeOK
  <1>8. CASE WriteLands(0)
    <2>1. /\ disk' = Write(disk, pos[0] - pend[0], pend[0], job) /\ pend' = [pend EXCEPT ![0] = 0]
          /\ UNCHANGED <<pc, pos, werr>>
      BY <1>8 DEF WriteLands
    <2>2. pend'[0] = 0 /\ \A u \in Tasks \ {0} : pend'[u] = pend[u]
      BY <1>1, <2>1 DEF TypeInv, TypeOK
    <2>3. ~werr[0] => disk' = Body(job, pos[0])
      <3>1. pos[0] - pend[0] \in Nat /\ (pos[0] - pend[0]) + pend[0] = pos[0]
        BY <1>1
      <3> QED
        BY <1>1, <2>1, <3>1, BodyGrows DEF SimpleInv
    <2> QED
      BY <1>1, <1>2, <2>1, <2>2, <2>3 DEF SimpleInv
  <1>9. CASE WriteFails(0)
    <2>1. /\ pend' = [pend EXCEPT ![0] = 0] /\ werr' = [werr EXCEPT ![0] = TRUE]
          /\ UNCHANGED <<pc, pos>>
      BY <1>9 DEF WriteFails
    <2>2. werr'[0] /\ pend'[0] = 0 /\ \A u \in Tasks \ {0} : pend'[u] = pend[u]
      BY <1>1, <2>1 DEF TypeInv, TypeOK
    <2> QED
      BY <1>1, <1>2, <2>1, <2>2 DEF SimpleInv
  <1> QED
    BY <1>3, <1>4, <1>5, <1>6, <1>7, <1>8, <1>9
       DEF Step, Mishap, Request, MarkProgress, FinishSegment

LEMMA SimpleStep == TypeInv /\ SimpleInv /\ [Next]_vars => SimpleInv'
  <1> SUFFICES ASSUME TypeInv, SimpleInv, [Next]_vars PROVE SimpleInv'
    OBVIOUS
  <1>1. CASE phase' # "simple"
    BY <1>1 DEF SimpleInv
  <1>2. ASSUME NEW c \in Contents, NEW threads \in ThreadChoices, StartSimple(c, threads)
        PROVE  SimpleInv'
    BY <1>2, SimpleStart
  <1>3. ASSUME NEW t \in Tasks, Step(t) \/ Mishap(t), phase' = "simple"
        PROVE  SimpleInv'
    <2>1. phase' = phase
      BY <1>3 DEF Step, Mishap, Request, Receive, MarkProgress, StreamEnds, FinishSegment,
                  ReportError, WriteLands, TaskFails, WriteFails
    <2> QED
      BY <1>3, <2>1, SimpleTask
  <1>4. CASE UNCHANGED vars
    BY <1>4 DEF vars, taskVars, SimpleInv
  <1>5. ASSUME NEW c \in Contents, NEW threads \in ThreadChoices,
               \/ AlreadyComplete(c, threads) \/ StartSegmented(c, threads) \/ StartFails(c, threads)
        PROVE  phase' # "simple"
    BY <1>5 DEF AlreadyComplete, StartSegmented, StartFails, StartRun
  <1>6. OpenOutput \/ SavePart \/ SavePartFails \/ Complete \/ CompleteSimple \/ Fail \/ Kill
          => phase' # "simple"
    BY DEF OpenOutput, SavePart, SavePartFails, Complete, CompleteSimple, Fail, Kill, Stop
  <1> QED
    BY <1>1, <1>2, <1>3, <1>4, <1>5, <1>6 DEF Next, Start, Progress, GiveUp

LEMMA SimpleAlways == Spec => [](TypeInv /\ SimpleInv)
  <1>1. Init => SimpleInv
    BY DEF Init, SimpleInv
  <1>2. TypeInv /\ SimpleInv /\ [Next]_vars => (TypeInv /\ SimpleInv)'
    BY TypeStep, SimpleStep
  <1> QED
    BY <1>1, <1>2, TypeInit, PTL DEF Spec

\* A one-stream run that reports success leaves exactly the bytes it received,
\* failed writes included, and the whole body where no body ends early.
THEOREM SimpleRunsAreExact == Spec => SimpleExact
  <1>1. TypeInv /\ SimpleInv /\ [Next]_vars =>
          [phase = "simple" /\ outcome' = "ok" =>
              /\ disk' = Body(job, pos[0])
              /\ "short" \in Faults \/ pos[0] = SizeOf[job]]_vars
    <2> SUFFICES ASSUME TypeInv, SimpleInv, Next, phase = "simple", outcome' = "ok"
                 PROVE  /\ disk' = Body(job, pos[0])
                        /\ "short" \in Faults \/ pos[0] = SizeOf[job]
      OBVIOUS
    <2>1. CompleteSimple
      <3>1. ASSUME NEW t \in Tasks, Step(t) \/ Mishap(t)
            PROVE  outcome' = outcome
        BY <3>1 DEF Step, Mishap, Request, Receive, MarkProgress, StreamEnds, FinishSegment,
                    ReportError, WriteLands, TaskFails, WriteFails
      <3>2. outcome # "ok"
        BY DEF SimpleInv
      <3> QED
        BY <3>1, <3>2 DEF Next, Start, AlreadyComplete, StartSegmented, StartSimple, StartFails,
              StartRun, Progress, OpenOutput, SavePart, SavePartFails, Complete, Fail, Kill, Stop, GiveUp
    <2>2. pc[0] = "flush" /\ pend[0] = 0 /\ ~werr[0] /\ disk' = disk
      BY <2>1 DEF CompleteSimple
    <2>3. 0 \in Tasks /\ pos[0] \in Nat
      BY HttpConstants DEF TypeInv, TypeOK, Tasks
    <2> QED
      BY <2>2, <2>3 DEF SimpleInv
  <1> QED
    BY <1>1, SimpleAlways, PTL DEF Spec, SimpleExact
=============================================================================
