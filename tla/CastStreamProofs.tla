-------------------------- MODULE CastStreamProofs ---------------------------
(***************************************************************************)
(* What one cast guarantees for any sizes, buffers and numbers of frames   *)
(* and unanswered offers: in which order frames leave, which buffers are   *)
(* with whom, and that a frame fits the buffer it is rendered into.        *)
(***************************************************************************)
EXTENDS CastStream, SequenceTheorems, WellFoundedInduction, TLAPS

Place == {"absent", "free", "rendering", "consumer"}
Entry == [buffer : Buffer, frame : Nat]
State == [kind : {"ResizePending", "ConfirmationPending", "Ready"}, size : Size]

-----------------------------------------------------------------------------
(* The entries of rendering_buffers that a drain sends.                    *)

\* A set of natural numbers has a least element.
LEMMA SmallestNat ==
  ASSUME NEW T \in SUBSET Nat, T # {}
  PROVE  \E n \in T : \A m \in T : n <= m
<1>1. PICK n \in T : \A m \in T : ~ (<<m, n>> \in OpToRel(<, Nat))
  BY NatLessThanWellFounded, WFMin
<1>2. \A m \in T : ~(m < n)
  BY <1>1 DEF OpToRel
<1>3. QED BY <1>2

\* and a bounded one a greatest.
LEMMA GreatestNat ==
  ASSUME NEW top \in Nat, NEW T \in SUBSET (0..top), T # {}
  PROVE  \E n \in T : \A m \in T : m <= n
<1> DEFINE below == {k \in Nat : top - k \in T}
<1>1. \A m \in T : m \in 0..top /\ top - m \in Nat /\ top - (top - m) = m
  OBVIOUS
<1>2. \A m \in T : top - m \in below
  BY <1>1
<1>3. below # {}
  BY <1>2
<1>4. PICK k \in below : \A j \in below : k <= j
  <2>1. below \in SUBSET Nat
    OBVIOUS
  <2> HIDE DEF below
  <2>2. QED BY <1>3, <2>1, SmallestNat
<1>5. top - k \in T
  OBVIOUS
<1>6. \A m \in T : m <= top - k
  <2>1. SUFFICES ASSUME NEW m \in T PROVE m <= top - k
    OBVIOUS
  <2>2. k <= top - m
    BY <1>2, <1>4
  <2>3. QED BY <1>1, <2>2
<1>7. QED BY <1>5, <1>6

\* queue_completed_buffers splits the queue at its first entry whose fence is
\* not reached.
LEMMA SplitOfQueue ==
  ASSUME NEW q \in Seq(Entry), NEW done
  PROVE  \E n \in 0..Len(q) :
           /\ QueueCompleted(q, done) =
                [sent |-> SubSeq(q, 1, n), kept |-> SubSeq(q, n + 1, Len(q))]
           /\ \A i \in 1..n : q[i].frame \in done
           /\ n < Len(q) => q[n + 1].frame \notin done
<1> DEFINE prefixes == {k \in 0..Len(q) : \A i \in 1..k : q[i].frame \in done}
           n == CHOOSE k \in prefixes : \A j \in prefixes : j <= k
<1>1. Len(q) \in Nat
  BY LenProperties
<1>2. 0 \in prefixes
  BY <1>1
<1>3. prefixes \in SUBSET (0..Len(q))
  OBVIOUS
<1>4. \E k \in prefixes : \A j \in prefixes : j <= k
  <2> HIDE DEF prefixes
  <2>1. QED BY <1>1, <1>2, <1>3, GreatestNat
<1>5. n \in prefixes /\ \A j \in prefixes : j <= n
  <2> HIDE DEF prefixes
  <2>1. QED BY <1>4
<1>6. n \in 0..Len(q) /\ \A i \in 1..n : q[i].frame \in done
  BY <1>5
<1>7. QueueCompleted(q, done) =
        [sent |-> SubSeq(q, 1, n), kept |-> SubSeq(q, n + 1, Len(q))]
  BY DEF QueueCompleted
<1>8. n < Len(q) => q[n + 1].frame \notin done
  <2> HIDE DEF n
  <2>1. SUFFICES ASSUME n < Len(q), q[n + 1].frame \in done PROVE FALSE
    OBVIOUS
  <2>2. n + 1 \in 0..Len(q)
    BY <1>1, <1>6, <2>1
  <2>3. \A i \in 1..(n + 1) : q[i].frame \in done
    BY <1>1, <1>6, <2>1
  <2>4. n + 1 <= n
    BY <1>5, <2>2, <2>3
  <2>5. QED BY <1>1, <1>6, <2>4
<1>9. QED
  <2> HIDE DEF n, prefixes
  <2>1. QED BY <1>6, <1>7, <1>8

\* What is left when a drain has sent the first n entries of q.
Drained(n, q, where, done) ==
  /\ rendering' \in Seq(Entry) /\ Len(rendering') = Len(q) - n
  /\ \A i \in 1..(Len(q) - n) : rendering'[i] = q[n + i]
  /\ place' = [b \in Buffer |->
       IF \E i \in 1..n : q[i].buffer = b THEN "consumer" ELSE where[b]]
  /\ lastSent' = IF n = 0 THEN lastSent ELSE q[n].frame
  /\ n < Len(q) => q[n + 1].frame \notin done

LEMMA DrainResult ==
  ASSUME NEW q \in Seq(Entry), NEW where \in [Buffer -> Place], NEW done,
         lastSent \in Nat, Drain(where, q, done)
  PROVE  \E n \in 0..Len(q) : Drained(n, q, where, done)
<1>1. PICK n \in 0..Len(q) :
        /\ QueueCompleted(q, done) =
             [sent |-> SubSeq(q, 1, n), kept |-> SubSeq(q, n + 1, Len(q))]
        /\ n < Len(q) => q[n + 1].frame \notin done
  BY SplitOfQueue
<1>2. Len(q) \in Nat /\ \A i \in 1..Len(q) : q[i] \in Entry
  BY LenProperties, ElementOfSeq
<1> DEFINE sent == SubSeq(q, 1, n)
           kept == SubSeq(q, n + 1, Len(q))
<1>3. sent \in Seq(Entry) /\ Len(sent) = n /\ \A i \in 1..n : sent[i] = q[i]
  BY <1>2, SubSeqProperties
<1>4. kept \in Seq(Entry) /\ Len(kept) = Len(q) - n
      /\ \A i \in 1..(Len(q) - n) : kept[i] = q[n + i]
  <2>1. \A i \in (n + 1)..Len(q) : q[i] \in Entry
    BY <1>2
  <2>2. /\ kept \in Seq(Entry)
        /\ Len(kept) = IF n + 1 <= Len(q) THEN Len(q) - (n + 1) + 1 ELSE 0
        /\ \A i \in 1..(Len(q) - (n + 1) + 1) : kept[i] = q[(n + 1) + i - 1]
    <3>1. n + 1 \in Int /\ Len(q) \in Int
      BY <1>2
    <3>2. QED BY <2>1, <3>1, SubSeqProperties
  <2>3. QED BY <1>2, <2>2
<1> DEFINE gone == {sent[i].buffer : i \in 1..Len(sent)}
<1>5. /\ rendering' = kept
      /\ place' = [b \in Buffer |-> IF b \in gone THEN "consumer" ELSE where[b]]
      /\ lastSent' = IF sent = <<>> THEN lastSent ELSE sent[Len(sent)].frame
  <2>1. QueueCompleted(q, done).sent = sent /\ QueueCompleted(q, done).kept = kept
    BY <1>1
  <2> HIDE DEF sent, kept
  <2>2. QED BY <2>1 DEF Drain
<1>6. \A b : b \in gone <=> \E i \in 1..n : q[i].buffer = b
  BY <1>3
<1>7. sent = <<>> <=> n = 0
  BY <1>3, EmptySeq
<1>8. lastSent' = IF n = 0 THEN lastSent ELSE q[n].frame
  <2> HIDE DEF sent, kept, gone
  <2>1. QED BY <1>3, <1>5, <1>7
<1>9. place' = [b \in Buffer |->
        IF \E i \in 1..n : q[i].buffer = b THEN "consumer" ELSE where[b]]
  BY <1>5, <1>6
<1>10. Drained(n, q, where, done)
  <2> HIDE DEF sent, kept, gone
  <2>1. QED BY <1>1, <1>4, <1>5, <1>8, <1>9 DEF Drained
<1>11. QED BY <1>10

-----------------------------------------------------------------------------
(* The queue of frames and the places of their buffers.                    *)

\* The entries of q are newer than the frame last sent, no newer than the
\* newest, and in the order of their frames.
Ordered(q, last, newest) ==
  /\ last <= newest
  /\ \A i \in 1..Len(q) : last < q[i].frame /\ q[i].frame <= newest
  /\ \A i, j \in 1..Len(q) : i < j => q[i].frame < q[j].frame

\* The buffers being rendered to are those of the entries of q, each of one.
Matched(q, where) ==
  /\ \A b \in Buffer : where[b] = "rendering" <=> \E i \in 1..Len(q) : q[i].buffer = b
  /\ \A i, j \in 1..Len(q) : q[i].buffer = q[j].buffer => i = j

BufferTypes ==
  /\ place \in [Buffer -> Place]
  /\ rendering \in Seq(Entry)
  /\ fences \subseteq Nat /\ reached \subseteq Nat
  /\ frameNo \in Nat /\ lastSent \in Nat

QueueInv ==
  /\ BufferTypes
  /\ Ordered(rendering, lastSent, frameNo)
  /\ Matched(rendering, place)

\* A drain takes the oldest frames, so what stays is newer than all it sent.
LEMMA DrainKeeps ==
  ASSUME NEW q \in Seq(Entry), NEW where \in [Buffer -> Place], NEW done,
         NEW newest \in Nat, lastSent \in Nat,
         Ordered(q, lastSent, newest), Matched(q, where), Drain(where, q, done)
  PROVE  /\ rendering' \in Seq(Entry) /\ place' \in [Buffer -> Place] /\ lastSent' \in Nat
         /\ Ordered(rendering', lastSent', newest)
         /\ Matched(rendering', place')
<1>0. PICK n \in 0..Len(q) : Drained(n, q, where, done)
  BY DrainResult
<1>1. /\ rendering' \in Seq(Entry) /\ Len(rendering') = Len(q) - n
      /\ \A i \in 1..(Len(q) - n) : rendering'[i] = q[n + i]
      /\ place' = [b \in Buffer |->
           IF \E i \in 1..n : q[i].buffer = b THEN "consumer" ELSE where[b]]
      /\ lastSent' = IF n = 0 THEN lastSent ELSE q[n].frame
  BY <1>0 DEF Drained
<1>2. Len(q) \in Nat /\ \A i \in 1..Len(q) : q[i] \in Entry
  BY LenProperties, ElementOfSeq
<1>3. \A i \in 1..Len(q) : q[i].frame \in Nat /\ q[i].buffer \in Buffer
  BY <1>2 DEF Entry
<1>4. place' \in [Buffer -> Place] /\ lastSent' \in Nat
  BY <1>1, <1>2, <1>3 DEF Place
<1>5. \A i \in 1..(Len(q) - n) : n + i \in 1..Len(q)
  BY <1>2
<1>6. Ordered(rendering', lastSent', newest)
  <2>1. lastSent' <= newest
    BY <1>1, <1>2, <1>3 DEF Ordered
  <2>2. \A i \in 1..(Len(q) - n) : lastSent' < q[n + i].frame /\ q[n + i].frame <= newest
    BY <1>1, <1>2, <1>3, <1>5 DEF Ordered
  <2>3. \A i, j \in 1..(Len(q) - n) : i < j => q[n + i].frame < q[n + j].frame
    BY <1>2, <1>5 DEF Ordered
  <2>4. QED BY <1>1, <2>1, <2>2, <2>3 DEF Ordered
<1>7. Matched(rendering', place')
  <2>1. \A i, j \in 1..(Len(q) - n) : q[n + i].buffer = q[n + j].buffer => i = j
    <3>1. \A i, j \in 1..(Len(q) - n) : q[n + i].buffer = q[n + j].buffer => n + i = n + j
      BY <1>5 DEF Matched
    <3>2. QED BY <3>1, <1>2
  <2>2. ASSUME NEW b \in Buffer, place'[b] = "rendering"
        PROVE  \E i \in 1..(Len(q) - n) : q[n + i].buffer = b
    <3>1. where[b] = "rendering" /\ ~ \E i \in 1..n : q[i].buffer = b
      BY <1>1, <2>2
    <3>2. PICK i \in 1..Len(q) : q[i].buffer = b
      BY <3>1 DEF Matched
    <3>3. i - n \in 1..(Len(q) - n) /\ n + (i - n) = i
      BY <1>2, <3>1, <3>2
    <3>4. QED BY <3>2, <3>3
  <2>3. ASSUME NEW b \in Buffer, NEW i \in 1..(Len(q) - n), q[n + i].buffer = b
        PROVE  place'[b] = "rendering"
    <3>1. where[b] = "rendering"
      BY <1>5, <2>3 DEF Matched
    <3>2. \A j \in 1..n : q[j].buffer # b
      <4>1. ASSUME NEW j \in 1..n, q[j].buffer = b PROVE FALSE
        <5>1. j \in 1..Len(q) /\ j # n + i
          BY <1>2
        <5>2. QED BY <4>1, <5>1, <1>5, <2>3 DEF Matched
      <4>2. QED BY <4>1
    <3>3. QED BY <1>1, <3>1, <3>2
  <2>4. \A i \in 1..Len(rendering') : i \in 1..(Len(q) - n) /\ rendering'[i] = q[n + i]
    BY <1>1
  <2>5. 1..Len(rendering') = 1..(Len(q) - n)
    BY <1>1
  <2>6. \A i, j \in 1..Len(rendering') : rendering'[i].buffer = rendering'[j].buffer => i = j
    BY <2>1, <2>4
  <2>7. ASSUME NEW b \in Buffer, place'[b] = "rendering"
        PROVE  \E i \in 1..Len(rendering') : rendering'[i].buffer = b
    <3>1. PICK i \in 1..(Len(q) - n) : q[n + i].buffer = b
      BY <2>2, <2>7
    <3>2. QED BY <3>1, <2>4, <2>5
  <2>8. ASSUME NEW b \in Buffer, NEW i \in 1..Len(rendering'), rendering'[i].buffer = b
        PROVE  place'[b] = "rendering"
    BY <2>3, <2>4, <2>8
  <2>9. QED BY <2>6, <2>7, <2>8 DEF Matched
<1>8. QED BY <1>1, <1>4, <1>6, <1>7

\* What a step does to the buffers and their queue.
LEMMA BufferSteps ==
  ASSUME [Next]_vars
  PROVE  \/ UNCHANGED buffers
         \/ Dropped
         \/ RemoveBuffers /\ UNCHANGED <<fences, reached, frameNo, lastSent>>
         \/ \E b \in Buffer : AddBuffer(b)
         \/ \E n \in 1..MaxFrames : GpuDone(n)
         \/ \E n \in 1..MaxFrames : FenceReadable(n)
         \/ \E b \in Buffer : ConsumerReturns(b)
         \/ FrameRendered
         \/ FrameCorrupted
<1>1. CASE StatePaused \/ StateStreaming \/ StateError \/ RenderOutputFails
           \/ OutputModeChanges \/ WindowChanges \/ UNCHANGED vars
  BY <1>1 DEF StatePaused, StateStreaming, StateError, RenderOutputFails,
       OutputModeChanges, WindowChanges, vars
<1>2. CASE FormatOfOtherSize \/ FormatToFixate \/ FormatFixed
  BY <1>2 DEF FormatOfOtherSize, FormatToFixate, FormatFixed, FormatArrives
<1>3. CASE RenderOutput \/ RenderWindow \/ ClearStream
  BY <1>3 DEF RenderOutput, RenderWindow, ClearStream, Feed, Draw, FrameSkipped
<1>4. CASE OutputCastFails \/ WindowCastFails \/ StopHandled
  BY <1>4 DEF OutputCastFails, WindowCastFails, StopHandled
<1>5. QED
  BY <1>1, <1>2, <1>3, <1>4 DEF Next, GpuStep, FenceStep, WindowsStep

LEMMA InitQueue == Init => QueueInv
<1> SUFFICES ASSUME Init PROVE QueueInv
  OBVIOUS
<1>1. <<>> \in Seq(Entry) /\ Len(<<>>) = 0
  BY EmptySeq
<1>2. BufferTypes
  BY <1>1 DEF Init, BufferTypes, Place
<1>3. QED BY <1>1, <1>2 DEF Init, QueueInv, Ordered, Matched

\* Rendering appends the newest frame, and drains the queue if the frame has no
\* fence to wait for.
LEMMA RenderedKeeps ==
  ASSUME QueueInv, FrameRendered
  PROVE  QueueInv'
<1>1. PICK b \in Buffer :
        /\ place[b] = "free"
        /\ LET n == frameNo + 1
               where == [place EXCEPT ![b] = "rendering"]
               queue == Append(rendering, [buffer |-> b, frame |-> n])
           IN  /\ frameNo' = n
               /\ \/ /\ fences' = fences \cup {n}
                     /\ place' = where /\ rendering' = queue
                     /\ UNCHANGED <<reached, lastSent>>
                  \/ /\ reached' = reached \cup {n}
                     /\ Drain(where, queue, reached')
                     /\ UNCHANGED fences
  BY DEF FrameRendered
<1> DEFINE entry == [buffer |-> b, frame |-> frameNo + 1]
           where == [place EXCEPT ![b] = "rendering"]
           queue == Append(rendering, entry)
<1>2. frameNo \in Nat /\ lastSent \in Nat /\ frameNo + 1 \in Nat
  BY DEF QueueInv, BufferTypes
<1>3. entry \in Entry /\ entry.buffer = b /\ entry.frame = frameNo + 1
  BY <1>2 DEF Entry
<1>4. where \in [Buffer -> Place]
  BY DEF QueueInv, BufferTypes, Place
<1>5. rendering \in Seq(Entry) /\ Len(rendering) \in Nat
  BY LenProperties DEF QueueInv, BufferTypes
<1>6. /\ queue \in Seq(Entry) /\ Len(queue) = Len(rendering) + 1
      /\ \A i \in 1..Len(rendering) : queue[i] = rendering[i]
      /\ queue[Len(rendering) + 1] = entry
  <2> HIDE DEF entry
  <2>1. QED BY <1>3, <1>5, AppendProperties
<1>7. \A i \in 1..Len(rendering) : rendering[i].frame \in Nat
  <2>1. \A i \in 1..Len(rendering) : rendering[i] \in Entry
    BY <1>5, ElementOfSeq
  <2>2. QED BY <2>1 DEF Entry
<1>8. Ordered(queue, lastSent, frameNo + 1)
  <2> HIDE DEF queue, entry
  <2>1. \A i \in 1..Len(queue) : i \in 1..Len(rendering) \/ i = Len(rendering) + 1
    BY <1>5, <1>6
  <2>2. lastSent <= frameNo /\ \A i \in 1..Len(rendering) :
          lastSent < queue[i].frame /\ queue[i].frame <= frameNo
    BY <1>6 DEF QueueInv, Ordered
  <2>3. queue[Len(rendering) + 1].frame = frameNo + 1
    BY <1>3, <1>6
  <2>4. \A i, j \in 1..Len(queue) : i < j => queue[i].frame < queue[j].frame
    BY <1>2, <1>5, <1>6, <1>7, <2>1, <2>2, <2>3 DEF QueueInv, Ordered
  <2>5. QED BY <1>2, <1>6, <1>7, <2>1, <2>2, <2>3, <2>4 DEF Ordered
<1>9. Matched(queue, where)
  <2> HIDE DEF queue, entry
  <2>1. \A i \in 1..Len(queue) : i \in 1..Len(rendering) \/ i = Len(rendering) + 1
    BY <1>5, <1>6
  <2>2. \A i \in 1..Len(rendering) : i \in 1..Len(queue) /\ queue[i].buffer # b
    BY <1>1, <1>5, <1>6 DEF QueueInv, Matched
  <2>3. Len(rendering) + 1 \in 1..Len(queue) /\ queue[Len(rendering) + 1].buffer = b
    BY <1>3, <1>5, <1>6
  <2>4. \A i, j \in 1..Len(queue) : queue[i].buffer = queue[j].buffer => i = j
    BY <1>6, <2>1, <2>2, <2>3 DEF QueueInv, Matched
  <2>5. \A c \in Buffer \ {b} : where[c] = place[c]
    BY DEF QueueInv, BufferTypes
  <2>6. where[b] = "rendering"
    BY DEF QueueInv, BufferTypes
  <2> HIDE DEF where
  <2>7. \A c \in Buffer : where[c] = "rendering" <=> \E i \in 1..Len(queue) : queue[i].buffer = c
    BY <1>6, <2>1, <2>2, <2>3, <2>5, <2>6 DEF QueueInv, Matched
  <2>8. QED BY <2>4, <2>7 DEF Matched
<1>10. CASE fences' = fences \cup {frameNo + 1} /\ place' = where /\ rendering' = queue
            /\ UNCHANGED <<reached, lastSent>>
  <2>1. BufferTypes'
    BY <1>1, <1>2, <1>4, <1>6, <1>10 DEF QueueInv, BufferTypes, FrameRendered
  <2> HIDE DEF queue, where
  <2>2. QED BY <1>1, <1>8, <1>9, <1>10, <2>1 DEF QueueInv
<1>11. CASE reached' = reached \cup {frameNo + 1} /\ Drain(where, queue, reached')
            /\ UNCHANGED fences
  <2> HIDE DEF queue, where
  <2>1. /\ rendering' \in Seq(Entry) /\ place' \in [Buffer -> Place] /\ lastSent' \in Nat
        /\ Ordered(rendering', lastSent', frameNo + 1)
        /\ Matched(rendering', place')
    BY <1>2, <1>4, <1>6, <1>8, <1>9, <1>11, DrainKeeps
  <2>2. BufferTypes'
    BY <1>1, <1>2, <1>11, <2>1 DEF QueueInv, BufferTypes, FrameRendered
  <2>3. QED BY <1>1, <2>1, <2>2 DEF QueueInv
<1>12. QED BY <1>1, <1>10, <1>11

LEMMA NextQueue == QueueInv /\ [Next]_vars => QueueInv'
<1> SUFFICES ASSUME QueueInv, [Next]_vars PROVE QueueInv'
  OBVIOUS
<1>0. <<>> \in Seq(Entry) /\ Len(<<>>) = 0
  BY EmptySeq
<1>1. CASE UNCHANGED buffers
  BY <1>1 DEF buffers, QueueInv, BufferTypes, Ordered, Matched
<1>2. CASE Dropped
  <2>1. BufferTypes'
    BY <1>0, <1>2 DEF Dropped, QueueInv, BufferTypes, Place
  <2>2. QED BY <1>0, <1>2, <2>1 DEF Dropped, QueueInv, Ordered, Matched
<1>3. CASE RemoveBuffers /\ UNCHANGED <<fences, reached, frameNo, lastSent>>
  <2>1. BufferTypes'
    BY <1>0, <1>3 DEF RemoveBuffers, QueueInv, BufferTypes, Place
  <2>2. QED BY <1>0, <1>3, <2>1 DEF RemoveBuffers, QueueInv, Ordered, Matched
<1>4. ASSUME NEW b \in Buffer, AddBuffer(b) PROVE QueueInv'
  BY <1>4 DEF AddBuffer, QueueInv, BufferTypes, Ordered, Matched, Place
<1>5. ASSUME NEW n \in 1..MaxFrames, GpuDone(n) PROVE QueueInv'
  BY <1>5, StreamAssumption DEF GpuDone, QueueInv, BufferTypes, Ordered, Matched
<1>6. ASSUME NEW n \in 1..MaxFrames, FenceReadable(n) PROVE QueueInv'
  <2>1. Drain(place, rendering, reached)
    BY <1>6 DEF FenceReadable
  <2>2. /\ rendering' \in Seq(Entry) /\ place' \in [Buffer -> Place] /\ lastSent' \in Nat
        /\ Ordered(rendering', lastSent', frameNo)
        /\ Matched(rendering', place')
    BY <2>1, DrainKeeps DEF QueueInv, BufferTypes
  <2>3. QED BY <1>6, <2>2 DEF FenceReadable, QueueInv, BufferTypes
<1>7. ASSUME NEW b \in Buffer, ConsumerReturns(b) PROVE QueueInv'
  BY <1>7 DEF ConsumerReturns, QueueInv, BufferTypes, Ordered, Matched, Place
<1>8. CASE FrameRendered
  BY <1>8, RenderedKeeps
<1>9. CASE FrameCorrupted
  BY <1>9 DEF FrameCorrupted, QueueInv, BufferTypes, Ordered, Matched, Place
<1>10. QED
  BY <1>1, <1>2, <1>3, <1>4, <1>5, <1>6, <1>7, <1>8, <1>9, BufferSteps

-----------------------------------------------------------------------------
(* The types of the rest, and the buffers of a stream that is ready.       *)

NegotiationTypes ==
  /\ target \in {"output", "window"} /\ alive \in BOOLEAN /\ stopSent \in BOOLEAN
  /\ state \in State
  /\ streamState \in {"connecting", "paused", "streaming", "error"}
  /\ active \in BOOLEAN /\ announced \in BOOLEAN /\ allocating \in BOOLEAN
  /\ offers \in Seq(Offer)
  /\ backing \in [Buffer -> Size \cup {NoSize}]
  /\ outSize \in Size /\ winSize \in Size \cup {NoSize}
  /\ pass \in {"none", "windows", "windowsThenStop"}

LEMMA States ==
  ASSUME NEW sz \in Size
  PROVE  Resizing(sz) \in State /\ Confirming(sz) \in State /\ Ready(sz) \in State
  BY DEF Resizing, Confirming, Ready, State

\* ensure_size leaves a state and a queue of offers.
LEMMA FeedTypes ==
  ASSUME state \in State, offers \in Seq(Offer), NEW sz \in Size, Feed(sz)
  PROVE  state' \in State /\ offers' \in Seq(Offer)
<1>1. [size |-> sz, fixated |-> FALSE] \in Offer
  BY DEF Offer
<1>2. Append(offers, [size |-> sz, fixated |-> FALSE]) \in Seq(Offer)
  BY <1>1, AppendProperties
<1>3. QED BY <1>2, States DEF Feed, SizeReady, SizePending

LEMMA InitTypes == Init => NegotiationTypes
<1> SUFFICES ASSUME Init PROVE NegotiationTypes
  OBVIOUS
<1>1. [size |-> outSize, fixated |-> FALSE] \in Offer
  BY DEF Init, Offer
<1>2. <<[size |-> outSize, fixated |-> FALSE]>> \in Seq(Offer)
  BY <1>1
<1>3. state \in State
  BY States DEF Init
<1>4. QED BY <1>2, <1>3 DEF Init, NegotiationTypes

LEMMA NextTypes == NegotiationTypes /\ [Next]_vars => NegotiationTypes'
<1> SUFFICES ASSUME NegotiationTypes, [Next]_vars PROVE NegotiationTypes'
  OBVIOUS
<1> USE DEF negotiation, buffers, scene
<1>0. state.size \in Size
  BY DEF NegotiationTypes, State
<1>1. CASE StatePaused \/ StateStreaming \/ StateError
  BY <1>1 DEF StatePaused, StateStreaming, StateError, NegotiationTypes
<1>2. CASE FormatOfOtherSize \/ FormatToFixate \/ FormatFixed
  <2>1. Tail(offers) \in Seq(Offer)
    BY <1>2, HeadTailProperties DEF NegotiationTypes, FormatOfOtherSize, FormatToFixate,
         FormatFixed, FormatArrives
  <2>2. [size |-> state.size, fixated |-> TRUE] \in Offer
    BY <1>0 DEF Offer
  <2>3. Append(Tail(offers), [size |-> state.size, fixated |-> TRUE]) \in Seq(Offer)
    BY <2>1, <2>2, AppendProperties
  <2>4. backing' \in [Buffer -> Size \cup {NoSize}]
    BY <1>2 DEF FormatOfOtherSize, FormatToFixate, FormatFixed, FormatArrives, RemoveBuffers
  <2>5. CASE FormatOfOtherSize
    BY <2>5, <2>1, <2>4 DEF FormatOfOtherSize, FormatArrives, NegotiationTypes
  <2>6. CASE FormatToFixate
    BY <2>6, <1>0, <2>1, <2>3, <2>4, States DEF FormatToFixate, FormatArrives, NegotiationTypes
  <2>7. CASE FormatFixed
    BY <2>7, <1>0, <2>1, <2>4, States DEF FormatFixed, FormatArrives, NegotiationTypes
  <2>8. QED BY <1>2, <2>5, <2>6, <2>7
<1>3. ASSUME NEW b \in Buffer, AddBuffer(b) PROVE NegotiationTypes'
  BY <1>0, <1>3 DEF AddBuffer, NegotiationTypes
<1>4. ASSUME NEW b \in Buffer, ConsumerReturns(b) PROVE NegotiationTypes'
  BY <1>4 DEF ConsumerReturns, NegotiationTypes
<1>5. ASSUME NEW n \in 1..MaxFrames, GpuDone(n) \/ FenceReadable(n) PROVE NegotiationTypes'
  BY <1>5 DEF GpuDone, FenceReadable, NegotiationTypes
<1>6. CASE RenderOutput
  <2>1. state' \in State /\ offers' \in Seq(Offer) /\ UNCHANGED backing
    BY <1>6, FeedTypes
      DEF RenderOutput, NegotiationTypes, Feed, Draw, FrameSkipped, FrameRendered, FrameCorrupted
  <2>2. QED BY <1>6, <2>1 DEF RenderOutput, AfterOutputs, NegotiationTypes
<1>7. CASE RenderOutputFails
  BY <1>7, States DEF RenderOutputFails, SizeFails, NegotiationTypes
<1>8. CASE OutputCastFails \/ WindowCastFails \/ StopHandled
  <2>1. <<>> \in Seq(Offer)
    BY EmptySeq
  <2>2. Dropped
    BY <1>8 DEF OutputCastFails, WindowCastFails, StopHandled
  <2>3. QED BY <2>1, <2>2, States DEF Dropped, NegotiationTypes
<1>9. CASE RenderWindow
  <2>1. winSize \in Size
    BY <1>9 DEF RenderWindow, NegotiationTypes
  <2>2. state' \in State /\ offers' \in Seq(Offer) /\ UNCHANGED backing
    BY <1>9, <2>1, FeedTypes
      DEF RenderWindow, NegotiationTypes, Feed, Draw, FrameSkipped, FrameRendered, FrameCorrupted
  <2>3. QED BY <1>9, <2>2 DEF RenderWindow, NegotiationTypes
<1>10. CASE ClearStream
  BY <1>10 DEF ClearStream, NegotiationTypes, FrameSkipped, FrameRendered, FrameCorrupted
<1>11. CASE OutputModeChanges \/ WindowChanges
  BY <1>11 DEF OutputModeChanges, WindowChanges, NegotiationTypes
<1>12. CASE UNCHANGED vars
  BY <1>12 DEF vars, NegotiationTypes
<1>13. QED
  BY <1>1, <1>2, <1>3, <1>4, <1>5, <1>6, <1>7, <1>8, <1>9, <1>10, <1>11, <1>12
    DEF Next, GpuStep, FenceStep, WindowsStep

\* In a stream that is ready and not to be stopped, every buffer the server has
\* is backed by a dma-buf of the negotiated size: not only those that can be
\* dequeued, since the others come back.
Backed ==
  IsReady /\ ~stopSent =>
    \A b \in Buffer : place[b] # "absent" => backing[b] = state.size

\* Buffers join the stream in add_buffer and nowhere else.
LEMMA NoneAppears ==
  ASSUME QueueInv, [Next]_vars, NEW b \in Buffer, place'[b] # "absent", place[b] = "absent"
  PROVE  \E c \in Buffer : AddBuffer(c)
<1>1. SUFFICES ASSUME ~ \E c \in Buffer : AddBuffer(c) PROVE FALSE
  OBVIOUS
<1>2. place \in [Buffer -> Place] /\ rendering \in Seq(Entry) /\ lastSent \in Nat
      /\ Matched(rendering, place)
  BY DEF QueueInv, BufferTypes
<1>3. CASE UNCHANGED buffers
  BY <1>3 DEF buffers
<1>4. CASE Dropped \/ RemoveBuffers
  BY <1>4 DEF Dropped, RemoveBuffers
<1>5. ASSUME NEW n \in 1..MaxFrames, GpuDone(n) PROVE FALSE
  BY <1>5 DEF GpuDone
<1>6. ASSUME NEW n \in 1..MaxFrames, FenceReadable(n) PROVE FALSE
  <2>1. PICK k \in 0..Len(rendering) : Drained(k, rendering, place, reached)
    BY <1>2, <1>6, DrainResult DEF FenceReadable
  <2>2. PICK i \in 1..k : rendering[i].buffer = b
    BY <2>1 DEF Drained
  <2>3. i \in 1..Len(rendering)
    BY <1>2, LenProperties
  <2>4. QED BY <1>2, <2>2, <2>3 DEF Matched
<1>7. ASSUME NEW c \in Buffer, ConsumerReturns(c) PROVE FALSE
  BY <1>2, <1>7 DEF ConsumerReturns
<1>8. CASE FrameCorrupted
  BY <1>2, <1>8 DEF FrameCorrupted
<1>9. CASE FrameRendered
  <2>1. QueueInv' /\ place' \in [Buffer -> Place]
    BY <1>9, RenderedKeeps DEF QueueInv, BufferTypes
  <2>2. PICK c \in Buffer :
          /\ place[c] = "free"
          /\ \/ place' = [place EXCEPT ![c] = "rendering"]
             \/ Drain([place EXCEPT ![c] = "rendering"],
                      Append(rendering, [buffer |-> c, frame |-> frameNo + 1]), reached')
    BY <1>9 DEF FrameRendered
  <2> DEFINE where == [place EXCEPT ![c] = "rendering"]
             queue == Append(rendering, [buffer |-> c, frame |-> frameNo + 1])
  <2>3. c # b /\ where[b] = "absent" /\ where \in [Buffer -> Place]
    BY <1>2, <2>2 DEF Place
  <2>4. [buffer |-> c, frame |-> frameNo + 1] \in Entry
    BY DEF QueueInv, BufferTypes, Entry
  <2>5. queue \in Seq(Entry) /\ Len(queue) = Len(rendering) + 1
        /\ \A i \in 1..Len(rendering) : queue[i] = rendering[i]
    BY <1>2, <2>4, AppendProperties
  <2>6. queue[Len(rendering) + 1].buffer = c
    BY <1>2, <2>4, AppendProperties
  <2>7. ASSUME NEW i \in 1..Len(queue), queue[i].buffer = b PROVE FALSE
    <3> HIDE DEF queue
    <3>1. Len(rendering) \in Nat
      BY <1>2, LenProperties
    <3>2. i \in 1..Len(rendering)
      BY <2>3, <2>5, <2>6, <2>7, <3>1
    <3>3. QED BY <1>2, <2>5, <2>7, <3>2 DEF Matched
  <2>8. place' # where
    BY <2>3
  <2>9. Drain(where, queue, reached')
    BY <2>2, <2>8
  <2> HIDE DEF where, queue
  <2>10. PICK k \in 0..Len(queue) : Drained(k, queue, where, reached')
    BY <1>2, <2>3, <2>5, <2>9, DrainResult
  <2>11. \E i \in 1..k : queue[i].buffer = b
    BY <2>3, <2>10 DEF Drained
  <2>12. QED BY <2>5, <2>7, <2>11, LenProperties
<1>10. QED
  BY <1>1, <1>3, <1>4, <1>5, <1>6, <1>7, <1>8, <1>9, BufferSteps

StreamInv == NegotiationTypes /\ QueueInv /\ Backed

LEMMA InitBacked == Init => Backed
  BY DEF Init, Backed

\* A step that leaves the negotiated size and the dma-bufs as they are and adds
\* no buffer keeps the buffers backed.
LEMMA BackedKept ==
  ASSUME StreamInv, [Next]_vars, \A b \in Buffer : ~AddBuffer(b),
         UNCHANGED <<state, backing>>, stopSent => stopSent'
  PROVE  Backed'
<1>1. \A b \in Buffer : place'[b] # "absent" => place[b] # "absent"
  BY NoneAppears DEF StreamInv
<1>2. QED BY <1>1 DEF StreamInv, Backed, IsReady

LEMMA NextBacked == StreamInv /\ [Next]_vars => Backed'
<1> SUFFICES ASSUME StreamInv, [Next]_vars PROVE Backed'
  OBVIOUS
<1>1. ASSUME NEW b \in Buffer, AddBuffer(b) PROVE Backed'
  <2>1. place \in [Buffer -> Place] /\ backing \in [Buffer -> Size \cup {NoSize}]
    BY DEF StreamInv, QueueInv, BufferTypes, NegotiationTypes
  <2>2. QED BY <1>1, <2>1 DEF StreamInv, Backed, AddBuffer, IsReady, negotiation
<1>2. SUFFICES ASSUME \A b \in Buffer : ~AddBuffer(b) PROVE Backed'
  BY <1>1
<1> USE DEF negotiation, buffers, scene
<1>3. CASE StatePaused \/ StateStreaming \/ StateError \/ OutputModeChanges \/ WindowChanges
           \/ UNCHANGED vars
  <2>1. UNCHANGED <<state, backing>> /\ (stopSent => stopSent')
    BY <1>3 DEF StatePaused, StateStreaming, StateError, OutputModeChanges, WindowChanges,
         StreamInv, NegotiationTypes, vars
  <2>2. QED BY <1>2, <2>1, BackedKept
<1>11. CASE ClearStream
  <2>1. UNCHANGED <<state, backing, stopSent>>
    BY <1>11 DEF ClearStream, FrameSkipped, FrameRendered, FrameCorrupted
  <2>2. QED BY <1>2, <2>1, BackedKept
<1>4. ASSUME NEW n \in 1..MaxFrames, GpuDone(n) \/ FenceReadable(n) PROVE Backed'
  BY <1>2, <1>4, BackedKept DEF GpuDone, FenceReadable
<1>5. ASSUME NEW b \in Buffer, ConsumerReturns(b) PROVE Backed'
  BY <1>2, <1>5, BackedKept DEF ConsumerReturns
<1>6. CASE FormatOfOtherSize \/ FormatToFixate \/ FormatFixed
  <2>1. RemoveBuffers
    BY <1>6 DEF FormatOfOtherSize, FormatToFixate, FormatFixed, FormatArrives
  <2>2. QED BY <2>1 DEF RemoveBuffers, Backed
<1>7. CASE RenderOutput \/ RenderWindow
  <2>1. UNCHANGED <<backing, stopSent>>
    BY <1>7 DEF RenderOutput, RenderWindow, Feed, Draw, FrameSkipped, FrameRendered,
         FrameCorrupted
  <2>2. UNCHANGED state \/ state'.kind = "ResizePending"
    BY <1>7 DEF RenderOutput, RenderWindow, Feed, SizeReady, SizePending, Resizing
  <2>3. CASE UNCHANGED state
    BY <1>2, <2>1, <2>3, BackedKept
  <2>4. CASE state'.kind = "ResizePending"
    BY <2>4 DEF Backed, IsReady
  <2>5. QED BY <2>2, <2>3, <2>4
<1>8. CASE RenderOutputFails
  BY <1>8 DEF RenderOutputFails, SizeFails, Resizing, Backed, IsReady
<1>9. CASE OutputCastFails \/ WindowCastFails \/ StopHandled
  BY <1>9 DEF OutputCastFails, WindowCastFails, StopHandled, Dropped, Backed
<1>10. QED
  BY <1>2, <1>3, <1>4, <1>5, <1>6, <1>7, <1>8, <1>9, <1>11
    DEF Next, GpuStep, FenceStep, WindowsStep

LEMMA StreamInvHolds == Spec => []StreamInv
<1>1. Init => StreamInv
  BY InitTypes, InitQueue, InitBacked DEF StreamInv
<1>2. StreamInv /\ [Next]_vars => StreamInv'
  BY NextTypes, NextQueue, NextBacked DEF StreamInv
<1>3. QED BY <1>1, <1>2, PTL DEF Spec

-----------------------------------------------------------------------------
(* The theorems.                                                           *)

\* Every variable of the stream keeps its type.
THEOREM TypesHold == Spec => []TypeOK
<1>1. StreamInv => TypeOK
  BY DEF StreamInv, NegotiationTypes, QueueInv, BufferTypes, TypeOK, State, Entry, Place
<1>2. QED BY <1>1, StreamInvHolds, PTL

\* The consumer gets the frames in the order they were rendered, in whatever
\* order the GPU finishes them and the fences are noticed.
THEOREM OrderHolds == Spec => []FramesInOrder
<1>1. StreamInv => FramesInOrder
  BY DEF StreamInv, QueueInv, Ordered, FramesInOrder
<1>2. QED BY <1>1, StreamInvHolds, PTL

\* Every dequeued buffer is in the queue once, and only those are.
THEOREM BuffersKept == Spec => []NoBufferLost
<1>1. StreamInv => NoBufferLost
  BY DEF StreamInv, QueueInv, Matched, NoBufferLost
<1>2. QED BY <1>1, StreamInvHolds, PTL

\* A frame is rendered in the pass over the outputs at the output's size, in
\* the pass over the windows at the window's.
LEMMA FrameFits ==
  ASSUME StreamInv, [Next]_vars, NEW b \in Buffer, Dequeued(b), ~stopSent
  PROVE  backing[b] = IF pass = "none" THEN outSize
                      ELSE IF winSize = NoSize THEN backing[b] ELSE winSize
<1> USE DEF negotiation, buffers, scene
<1>1. frameNo' > frameNo /\ frameNo \in Nat /\ place[b] = "free"
  BY DEF Dequeued, StreamInv, QueueInv, BufferTypes
<1>2. ASSUME NEW sz \in Size, SizeReady(sz) PROVE backing[b] = sz
  BY <1>1, <1>2 DEF StreamInv, Backed, SizeReady, IsReady, Ready
<1>3. ASSUME NEW sz \in Size, Feed(sz) PROVE backing[b] = sz
  BY <1>1, <1>2, <1>3 DEF Feed, FrameSkipped
<1>4. CASE RenderOutput
  BY <1>3, <1>4 DEF RenderOutput, FrameGuard, Callback, StreamInv, NegotiationTypes
<1>5. CASE RenderWindow
  <2>1. pass = "windows" /\ winSize \in Size /\ winSize # NoSize
    BY <1>5 DEF RenderWindow, StreamInv, NegotiationTypes
  <2>2. Feed(winSize)
    BY <1>1, <1>5 DEF RenderWindow
  <2>3. QED BY <1>3, <2>1, <2>2
<1>6. CASE ClearStream
  BY <1>6 DEF ClearStream
<1>7. ~(FormatOfOtherSize \/ FormatToFixate \/ FormatFixed \/ StatePaused \/ StateStreaming
        \/ StateError \/ RenderOutputFails \/ OutputModeChanges \/ WindowChanges
        \/ UNCHANGED vars)
  <2>1. ~UNCHANGED frameNo
    BY <1>1
  <2>2. ~(FormatOfOtherSize \/ FormatToFixate \/ FormatFixed)
    BY <2>1 DEF FormatOfOtherSize, FormatToFixate, FormatFixed, FormatArrives
  <2>3. ~(StatePaused \/ StateStreaming \/ StateError \/ OutputModeChanges \/ WindowChanges)
    BY <2>1 DEF StatePaused, StateStreaming, StateError, OutputModeChanges, WindowChanges
  <2>4. ~(RenderOutputFails \/ UNCHANGED vars)
    BY <2>1 DEF RenderOutputFails, vars
  <2>5. QED BY <2>2, <2>3, <2>4
<1>8. ~(OutputCastFails \/ WindowCastFails \/ StopHandled)
  BY <1>1 DEF OutputCastFails, WindowCastFails, StopHandled, Dropped
<1>9. \A n \in 1..MaxFrames : ~GpuDone(n) /\ ~FenceReadable(n)
  BY <1>1 DEF GpuDone, FenceReadable
<1>10. \A c \in Buffer : ~AddBuffer(c) /\ ~ConsumerReturns(c)
  BY <1>1 DEF AddBuffer, ConsumerReturns
<1>11. QED
  BY <1>4, <1>5, <1>6, <1>7, <1>8, <1>9, <1>10 DEF Next, GpuStep, FenceStep, WindowsStep

\* Between steps every buffer that can be dequeued fits the negotiated size, and
\* in the step that renders the one that is dequeued fits the frame.
THEOREM FitsHold == Spec => BuffersFit
<1>1. StreamInv => ReadyBuffersFit
  BY DEF StreamInv, Backed, ReadyBuffersFit
<1>2. StreamInv /\ [Next]_vars =>
        [\A b \in Buffer : (Dequeued(b) /\ ~stopSent) =>
           backing[b] = IF pass = "none" THEN outSize
                        ELSE IF winSize = NoSize THEN backing[b] ELSE winSize]_vars
  BY FrameFits
<1>3. QED
  BY <1>1, <1>2, StreamInvHolds, PTL DEF Spec, BuffersFit, FrameFitsBuffer

=============================================================================
