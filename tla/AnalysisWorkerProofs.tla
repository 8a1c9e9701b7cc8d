------------------------ MODULE AnalysisWorkerProofs ------------------------
(***************************************************************************)
(* Proofs about AnalysisWorker, for every size of the queues, length of    *)
(* the windows and number of connections and attempts.                     *)
(***************************************************************************)
EXTENDS AnalysisWorker, SequenceTheorems, TLAPS

-----------------------------------------------------------------------------
(* The inductive invariant.                                                *)

WindowSet == [seq : Nat, audio : {a \in Seq(Frames) : Len(a) = WindowLength}]
EventSet == [seq : Nat, type : Types, audio : Seq(Frames)]

\* The types, with the fields of windows and events spelt out.
ShapeInv ==
  /\ media \in [pc : {"start", "connect", "stream", "sleep", "ended"}, attempt : 0..ConnectMax]
  /\ position \in Nat
  /\ frames \in Seq(Frames) /\ Len(frames) <= FrameMax
  /\ buffer \in Seq(Frames) /\ Len(buffer) < WindowLength
  /\ next \in Nat \ {0}
  /\ windows \in Seq(WindowSet) /\ Len(windows) <= WindowMax
  /\ fast \in WindowSet \cup {None}
  /\ deep \in SUBSET WindowSet
  /\ evidence \in Seq(EventSet) /\ Len(evidence) <= EvidenceMax
  /\ taken \in SUBSET EventSet
  /\ sender \in [event : EventSet \cup {None}, attempt : 0..PostMax]
  /\ closed \in BOOLEAN

\* An attempt that is left is below the maximum, and one that runs is numbered.
AttemptsInv ==
  /\ media.pc = "start" => media.attempt = 0
  /\ media.pc = "sleep" => media.attempt < ConnectMax
  /\ media.pc \in {"connect", "stream"} => media.attempt > 0

TypeInv == ShapeInv /\ AttemptsInv

\* A stretch of audio in which no frame is missing.
Unbroken(audio) ==
  \A i \in 1..(Len(audio) - 1) : audio[i + 1] = <<audio[i][1], audio[i][2] + 1>>

SegmentInv ==
  /\ Unbroken(buffer)
  /\ \A w \in InUse : Unbroken(w.audio)

\* The audio of the windows whose deep verdict was queued, and of all windows
\* that were cut and can still be told from later ones.
DeepAudio(queue, events) ==
  {e.audio : e \in {d \in ToSet(queue) \cup events : d.type = "SPOOF_DEEP"}}
Reported == DeepAudio(evidence, taken)
Emitted == {w.audio : w \in InUse} \cup Reported

\* The frame was delivered before the media worker got there.
Past(frame, worker, reached) ==
  /\ frame \in Frames
  /\ frame[1] <= worker.attempt
  /\ worker.pc = "connect" => frame[1] < worker.attempt
  /\ (worker.pc = "stream" /\ frame[1] = worker.attempt) => frame[2] <= reached

\* No frame is delivered twice, and none that is still queued ended a window.
FramesInv ==
  /\ \A i \in DOMAIN frames : Past(frames[i], media, position)
  /\ \A i, j \in DOMAIN frames : frames[i] = frames[j] => i = j
  /\ \A audio \in Emitted :
       /\ Len(audio) = WindowLength
       /\ Past(audio[WindowLength], media, position)
       /\ \A i \in DOMAIN frames : audio[WindowLength] # frames[i]

\* A window is at one place of the pipeline at a time.
StagesInv ==
  /\ \A i, j \in DOMAIN windows : windows[i].audio = windows[j].audio => i = j
  /\ \A i \in DOMAIN windows :
       /\ windows[i].audio \notin Reported
       /\ fast # None => windows[i].audio # fast.audio
       /\ \A d \in deep : windows[i].audio # d.audio
  /\ fast # None => fast.audio \notin Reported /\ \A d \in deep : fast.audio # d.audio
  /\ \A d \in deep : d.audio \notin Reported /\ \A c \in deep : c.audio = d.audio => c = d

\* The fast verdict on a window is queued before the deep one, and is gone from
\* the queue when the deep one was taken from it.
Verdicts(queue, events) ==
  \A j \in DOMAIN queue : queue[j].type = "SPOOF_FAST" =>
    /\ \A i \in DOMAIN queue : (i < j /\ queue[i].type = "SPOOF_DEEP")
                                 => queue[i].audio # queue[j].audio
    /\ \A d \in events : d.type = "SPOOF_DEEP" => d.audio # queue[j].audio
VerdictsInv == Verdicts(evidence, taken)

OrderInv == FramesInv /\ StagesInv /\ VerdictsInv

-----------------------------------------------------------------------------
(* Queues and buffers.                                                     *)

\* How many items a queue loses when one is put.
Dropped(queue, maximum) == IF Len(queue) >= maximum THEN 1 ELSE 0

\* put is the queue without its head, if it was full, and with the item at its end.
IsPut(S, queue, maximum, item, put) ==
  LET k == Dropped(queue, maximum) IN
  /\ put \in Seq(S)
  /\ Len(queue) <= maximum => Len(put) <= maximum
  /\ k \in {0, 1}
  /\ Len(queue) \in Nat /\ DOMAIN queue = 1..Len(queue)
  /\ Len(put) = Len(queue) - k + 1
  /\ Len(put) \in Nat \ {0} /\ DOMAIN put = 1..Len(put)
  /\ put[Len(put)] = item
  /\ \A i \in 1..(Len(put) - 1) : i + k \in DOMAIN queue /\ put[i] = queue[i + k]

\* BoundedLatestQueue keeps the latest items in their order.
LEMMA PutLatestProperties ==
  ASSUME NEW S, NEW queue \in Seq(S), NEW maximum \in Nat \ {0}, NEW item \in S,
         NEW put, put = PutLatest(queue, maximum, item)
  PROVE  IsPut(S, queue, maximum, item, put)
<1> DEFINE rest == IF Len(queue) >= maximum THEN Tail(queue) ELSE queue
           k == Dropped(queue, maximum)
<1>1. Len(queue) \in Nat /\ DOMAIN queue = 1..Len(queue)
  BY LenProperties
<1>2. /\ rest \in Seq(S)
      /\ Len(rest) = Len(queue) - k
      /\ \A i \in 1..Len(rest) : rest[i] = queue[i + k]
  <2>1. CASE Len(queue) >= maximum
    <3>1. queue # <<>>
      BY <1>1, <2>1, EmptySeq
    <3> QED BY <1>1, <2>1, <3>1, HeadTailProperties DEF Dropped
  <2>2. CASE ~(Len(queue) >= maximum)
    BY <1>1, <2>2 DEF Dropped
  <2> QED BY <2>1, <2>2
<1>3. Len(rest) \in Nat
  BY <1>2, LenProperties
<1>4. Len(queue) <= maximum => Len(rest) + 1 <= maximum
  BY <1>1, <1>2 DEF Dropped
<1>5. put = Append(rest, item)
  BY DEF PutLatest
<1>6. k \in {0, 1}
  BY DEF Dropped
<1> HIDE DEF rest, k
<1>7. /\ put \in Seq(S)
      /\ Len(put) = Len(rest) + 1
      /\ \A i \in 1..Len(rest) : put[i] = rest[i]
      /\ put[Len(rest) + 1] = item
  BY <1>2, <1>5, AppendProperties
<1>8. DOMAIN put = 1..Len(put)
  BY <1>7, LenProperties
<1> QED BY <1>1, <1>2, <1>3, <1>4, <1>6, <1>7, <1>8 DEF k, IsPut

\* What the queue then holds: the new item and what it held before.
LEMMA PutLatestElements ==
  ASSUME NEW S, NEW queue, NEW maximum, NEW item, NEW put,
         IsPut(S, queue, maximum, item, put)
  PROVE  ToSet(put) \subseteq ToSet(queue) \cup {item}
<1>1. ASSUME NEW i \in 1..(Len(put) - 1)
      PROVE  put[i] \in ToSet(queue)
  BY DEF IsPut, ToSet
<1>2. /\ DOMAIN put = 1..Len(put) /\ Len(put) \in Nat \ {0}
      /\ put[Len(put)] = item
  BY DEF IsPut
<1>3. ASSUME NEW i \in DOMAIN put
      PROVE  put[i] \in ToSet(queue) \cup {item}
  <2>1. CASE i = Len(put)
    BY <1>2, <2>1
  <2>2. CASE i # Len(put)
    <3>1. i \in 1..(Len(put) - 1)
      BY <1>2, <1>3, <2>2
    <3> QED BY <1>1, <3>1
  <2> QED BY <2>1, <2>2
<1> QED BY <1>3 DEF ToSet

\* The frame a worker takes and the buffer it makes.
LEMMA AppendedProperties ==
  ASSUME TypeInv, frames # <<>>,
         NEW filled, filled = Appended(Head(frames))
  PROVE  /\ filled \in Seq(Frames)
         /\ Len(filled) \in 1..WindowLength
         /\ filled[Len(filled)] = Head(frames)
         /\ Unbroken(buffer) => Unbroken(filled)
<1> DEFINE frame == Head(frames)
<1>1. frame \in Frames
  BY HeadTailProperties DEF TypeInv, ShapeInv
<1>2. buffer \in Seq(Frames) /\ Len(buffer) \in Nat /\ Len(buffer) < WindowLength
  BY LenProperties DEF TypeInv, ShapeInv
<1>3. WindowLength \in Nat \ {0}
  BY WorkerAssumption
<1> HIDE DEF frame
<1>4. CASE buffer # <<>> /\ frame # <<Last(buffer)[1], Last(buffer)[2] + 1>>
  <2>1. filled = <<frame>>
    BY <1>4 DEF Appended, frame
  <2>2. filled \in Seq(Frames) /\ Len(filled) = 1 /\ filled[1] = frame
    <3>1. PICK none \in Seq(Frames) : none = <<>>
      BY EmptySeq
    <3>2. filled = Append(none, frame) /\ Len(none) = 0
      BY <2>1, <3>1
    <3> QED BY <1>1, <3>2, AppendProperties
  <2>3. Unbroken(filled)
    BY <2>2 DEF Unbroken
  <2> QED BY <1>3, <2>2, <2>3 DEF frame
<1>5. CASE ~(buffer # <<>> /\ frame # <<Last(buffer)[1], Last(buffer)[2] + 1>>)
  <2>1. filled = Append(buffer, frame)
    BY <1>5 DEF Appended, frame
  <2>2. /\ filled \in Seq(Frames)
        /\ Len(filled) = Len(buffer) + 1
        /\ \A i \in 1..Len(buffer) : filled[i] = buffer[i]
        /\ filled[Len(buffer) + 1] = frame
    BY <1>1, <1>2, <2>1, AppendProperties, SMTT(30)
  <2>3. Unbroken(buffer) => Unbroken(filled)
    <3> SUFFICES ASSUME Unbroken(buffer), NEW i \in 1..Len(buffer)
                 PROVE  filled[i + 1] = <<filled[i][1], filled[i][2] + 1>>
      <4>1. Len(filled) - 1 = Len(buffer)
        BY <1>2, <2>2
      <4> QED BY <4>1 DEF Unbroken
    <3>1. CASE i = Len(buffer)
      <4>1. buffer # <<>>
        BY <3>1, EmptySeq
      <4> QED BY <1>2, <1>5, <2>2, <3>1, <4>1 DEF Last
    <3>2. CASE i # Len(buffer)
      BY <1>2, <2>2, <3>2 DEF Unbroken
    <3> QED BY <3>1, <3>2
  <2> QED BY <1>2, <1>3, <2>1, <2>2, <2>3 DEF frame
<1> QED BY <1>4, <1>5

-----------------------------------------------------------------------------
(* Types.                                                                  *)

\* The worker makes nothing but evidence events.
LEMMA EventType ==
  /\ \A w \in WindowSet, type \in Types : Event(w, type) \in EventSet
  /\ ReconnectExhausted \in EventSet
<1>1. \A w \in WindowSet, type \in Types : Event(w, type) \in EventSet
  BY DEF WindowSet, EventSet, Event
<1>2. ReconnectExhausted \in EventSet
  <2>1. <<>> \in Seq(Frames)
    BY EmptySeq
  <2> QED BY <2>1 DEF ReconnectExhausted, EventSet, Types
<1> QED BY <1>1, <1>2

\* What _enqueue_evidence does to the queue.
LEMMA EnqueueProperties ==
  ASSUME ShapeInv, NEW e \in EventSet, Enqueue(e)
  PROVE  IsPut(EventSet, evidence, EvidenceMax, e, evidence')
<1>1. evidence \in Seq(EventSet) /\ EvidenceMax \in Nat \ {0}
  BY WorkerAssumption DEF ShapeInv
<1>2. evidence' = PutLatest(evidence, EvidenceMax, e)
  BY DEF Enqueue
<1> QED BY <1>1, <1>2, PutLatestProperties, SMTT(30)

\* enqueue leaves a sequence of events that fits the evidence queue.
LEMMA EnqueueType ==
  ASSUME ShapeInv, NEW e \in EventSet, Enqueue(e)
  PROVE  evidence' \in Seq(EventSet) /\ Len(evidence') <= EvidenceMax
BY EnqueueProperties DEF IsPut, ShapeInv

\* The head of a queue is taken.
LEMMA TailProperties ==
  ASSUME NEW S, NEW queue \in Seq(S), queue # <<>>
  PROVE  /\ Head(queue) \in S /\ Head(queue) = queue[1] /\ 1 \in DOMAIN queue
         /\ Tail(queue) \in Seq(S)
         /\ Len(Tail(queue)) = Len(queue) - 1 /\ Len(queue) \in Nat \ {0}
         /\ DOMAIN queue = 1..Len(queue) /\ DOMAIN Tail(queue) = 1..(Len(queue) - 1)
         /\ \A i \in 1..(Len(queue) - 1) :
              i + 1 \in DOMAIN queue /\ Tail(queue)[i] = queue[i + 1]
<1>1. /\ Head(queue) \in S /\ Tail(queue) \in Seq(S)
      /\ Len(Tail(queue)) = Len(queue) - 1
      /\ \A i \in 1..Len(Tail(queue)) : Tail(queue)[i] = queue[i + 1]
  BY HeadTailProperties
<1>2. Len(queue) \in Nat \ {0} /\ DOMAIN queue = 1..Len(queue)
  BY EmptySeq, LenProperties
<1>3. DOMAIN Tail(queue) = 1..(Len(queue) - 1)
  BY <1>1, LenProperties
<1>4. Head(queue) = queue[1]
  OBVIOUS
<1> QED BY <1>1, <1>2, <1>3, <1>4

\* The initial state is of the types.
LEMMA InitTypeInv == Init => TypeInv
<1> SUFFICES ASSUME Init PROVE TypeInv
  OBVIOUS
<1>1. /\ <<>> \in Seq(Frames) /\ <<>> \in Seq(WindowSet) /\ <<>> \in Seq(EventSet)
      /\ Len(<<>>) = 0
  BY EmptySeq
<1>2. /\ FrameMax \in Nat /\ WindowMax \in Nat /\ EvidenceMax \in Nat /\ 0 < WindowLength
      /\ ConnectMax \in Nat /\ PostMax \in Nat
  BY WorkerAssumption
<1>3. ShapeInv
  <2>1. media \in [pc : {"start", "connect", "stream", "sleep", "ended"}, attempt : 0..ConnectMax]
    BY <1>2 DEF Init
  <2>2. sender \in [event : EventSet \cup {None}, attempt : 0..PostMax]
    BY <1>2 DEF Init, NoSend
  <2>3. next \in Nat \ {0}
    BY DEF Init
  <2>4. frames \in Seq(Frames) /\ buffer \in Seq(Frames) /\ windows \in Seq(WindowSet)
    BY <1>1 DEF Init
  <2>5. /\ Len(frames) <= FrameMax /\ Len(buffer) < WindowLength
        /\ Len(windows) <= WindowMax /\ Len(evidence) <= EvidenceMax
    BY <1>1, <1>2 DEF Init
  <2>6. evidence \in Seq(EventSet)
    BY <1>1 DEF Init
  <2> QED BY <2>1, <2>2, <2>3, <2>4, <2>5, <2>6 DEF Init, ShapeInv
<1>4. AttemptsInv
  BY DEF Init, AttemptsInv
<1> QED BY <1>3, <1>4 DEF TypeInv

\* A frame extends the buffer, or completes a window and leaves in the buffer what
\* the next window begins with.
LEMMA AcceptFrameProperties ==
  ASSUME TypeInv, AcceptFrame, NEW filled, filled = Appended(Head(frames))
  PROVE  \/ /\ Len(filled) < WindowLength
            /\ buffer' = filled
            /\ UNCHANGED <<next, windows>>
         \/ /\ Len(filled) = WindowLength
            /\ buffer' \in Seq(Frames) /\ Len(buffer') < WindowLength
            /\ \A i \in 1..Len(buffer') : buffer'[i] = filled[i + Stride]
            /\ Len(buffer') = WindowLength - Stride
            /\ [seq |-> next, audio |-> filled] \in WindowSet
            /\ IsPut(WindowSet, windows, WindowMax, [seq |-> next, audio |-> filled], windows')
            /\ next' = next + 1
<1>1. filled \in Seq(Frames) /\ Len(filled) \in 1..WindowLength
  BY AppendedProperties DEF AcceptFrame
<1>2. /\ WindowLength \in Nat \ {0} /\ Stride \in Nat \ {0} /\ Stride <= WindowLength
      /\ WindowMax \in Nat \ {0}
  BY WorkerAssumption
<1>3. CASE Len(filled) < WindowLength
  BY <1>3 DEF AcceptFrame
<1>4. CASE ~(Len(filled) < WindowLength)
  <2>1. Len(filled) = WindowLength
    BY <1>1, <1>2, <1>4
  <2> DEFINE w == [seq |-> next, audio |-> filled]
  <2>2. w \in WindowSet
    BY <1>1, <2>1 DEF TypeInv, ShapeInv, WindowSet
  <2>3. windows' = PutLatest(windows, WindowMax, w) /\ next' = next + 1
    BY <1>4 DEF AcceptFrame
  <2>4. buffer' = SubSeq(filled, Stride + 1, WindowLength)
    BY <1>4, <2>1 DEF AcceptFrame
  <2>5. \A i \in (Stride + 1)..WindowLength : filled[i] \in Frames
    BY <1>1, <1>2, <2>1, ElementOfSeq
  <2>6. /\ buffer' \in Seq(Frames)
        /\ Len(buffer') = IF Stride + 1 <= WindowLength THEN WindowLength - (Stride + 1) + 1 ELSE 0
        /\ \A i \in 1..(WindowLength - (Stride + 1) + 1) : buffer'[i] = filled[Stride + 1 + i - 1]
    BY <1>2, <2>4, <2>5, SubSeqProperties
  <2>7. Len(buffer') = WindowLength - Stride
    BY <1>2, <2>6
  <2>8. \A i \in 1..Len(buffer') : buffer'[i] = filled[i + Stride]
    BY <1>2, <2>6, <2>7
  <2>9. windows \in Seq(WindowSet)
    BY DEF TypeInv, ShapeInv
  <2> HIDE DEF w
  <2>10. IsPut(WindowSet, windows, WindowMax, w, windows')
    BY <1>2, <2>2, <2>3, <2>9, PutLatestProperties, SMTT(30)
  <2> QED BY <1>2, <2>1, <2>2, <2>3, <2>6, <2>7, <2>8, <2>10 DEF w
<1> QED BY <1>3, <1>4

\* Every step keeps the types.
LEMMA StepKeepsTypeInv ==
  ASSUME TypeInv, [Next]_vars
  PROVE  TypeInv'
<1> USE DEF TypeInv
<1>0. /\ FrameMax \in Nat \ {0} /\ ConnectMax \in Nat \ {0} /\ PostMax \in Nat \ {0}
      /\ 0 < WindowLength
  BY WorkerAssumption
<1>1. CASE Attempt
  BY <1>0, <1>1 DEF Attempt, runtimeVars, ShapeInv, AttemptsInv
<1>2. CASE Connected
  BY <1>2 DEF Connected, runtimeVars, ShapeInv, AttemptsInv
<1>3. CASE ConnectionEnds
  <2>1. <<>> \in Seq(Frames) /\ Len(<<>>) = 0
    BY EmptySeq
  <2>2. evidence' \in Seq(EventSet) /\ Len(evidence') <= EvidenceMax
    BY <1>3, EnqueueType, EventType DEF ConnectionEnds, ShapeInv
  <2>3. /\ media' \in [pc : {"start", "connect", "stream", "sleep", "ended"},
                       attempt : 0..ConnectMax]
        /\ AttemptsInv'
    BY <1>0, <1>3 DEF ConnectionEnds, ShapeInv, AttemptsInv
  <2>4. /\ frames' \in Seq(Frames) /\ Len(frames') <= FrameMax
        /\ buffer' \in Seq(Frames) /\ Len(buffer') < WindowLength
        /\ position' \in Nat /\ next' \in Nat \ {0}
    BY <1>0, <1>3, <2>1 DEF ConnectionEnds
  <2> QED BY <1>3, <2>2, <2>3, <2>4 DEF ConnectionEnds, ShapeInv
<1>4. CASE FrameArrives
  <2> DEFINE frame == <<media.attempt, position + 1>>
  <2>1. frame \in Frames /\ position' \in Nat
    BY <1>0, <1>4 DEF FrameArrives, ShapeInv, AttemptsInv, Frames
  <2>2. frames' = PutLatest(frames, FrameMax, frame)
    BY <1>4 DEF FrameArrives
  <2> HIDE DEF frame
  <2>3. IsPut(Frames, frames, FrameMax, frame, frames')
    BY <1>0, <2>1, <2>2, PutLatestProperties, SMTT(30) DEF ShapeInv
  <2>4. frames' \in Seq(Frames) /\ Len(frames') <= FrameMax
    BY <2>3 DEF IsPut, ShapeInv
  <2> QED BY <1>4, <2>1, <2>4 DEF FrameArrives, runtimeVars, ShapeInv, AttemptsInv
<1>5. CASE AcceptFrame
  <2> DEFINE filled == Appended(Head(frames))
  <2>1. filled \in Seq(Frames)
    BY <1>5, AppendedProperties DEF AcceptFrame
  <2>2. /\ buffer' \in Seq(Frames) /\ Len(buffer') < WindowLength
        /\ windows' \in Seq(WindowSet) /\ Len(windows') <= WindowMax
        /\ next' \in Nat \ {0}
    <3>1. \/ Len(filled) < WindowLength /\ buffer' = filled /\ UNCHANGED <<next, windows>>
          \/ /\ buffer' \in Seq(Frames) /\ Len(buffer') < WindowLength
             /\ IsPut(WindowSet, windows, WindowMax, [seq |-> next, audio |-> filled], windows')
             /\ next' = next + 1
      BY <1>5, AcceptFrameProperties
    <3> HIDE DEF filled
    <3> QED BY <2>1, <3>1 DEF IsPut, ShapeInv
  <2>3. frames' \in Seq(Frames) /\ Len(frames') <= FrameMax
    <3>1. /\ frames \in Seq(Frames) /\ frames # <<>> /\ frames' = Tail(frames)
          /\ Len(frames) <= FrameMax
      BY <1>5 DEF AcceptFrame, ShapeInv
    <3>2. Tail(frames) \in Seq(Frames) /\ Len(Tail(frames)) = Len(frames) - 1 /\ Len(frames) \in Nat
      BY <3>1, TailProperties
    <3> QED BY <1>0, <3>1, <3>2
  <2> QED BY <1>5, <2>2, <2>3 DEF AcceptFrame, ShapeInv, AttemptsInv
<1>6. CASE TakeWindow
  <2>1. windows \in Seq(WindowSet) /\ windows # <<>> /\ windows' = Tail(windows)
    BY <1>6 DEF TakeWindow, ShapeInv
  <2>2. /\ Tail(windows) \in Seq(WindowSet) /\ Head(windows) \in WindowSet
        /\ Len(Tail(windows)) = Len(windows) - 1 /\ Len(windows) \in Nat
    BY <2>1, TailProperties
  <2>3. Event(Head(windows), "INSUFFICIENT_EVIDENCE") \in EventSet
    BY <2>2, EventType DEF Types
  <2>4. evidence' \in Seq(EventSet) /\ Len(evidence') <= EvidenceMax
    BY <1>6, <2>3, EnqueueType DEF TakeWindow, ShapeInv
  <2>5. windows' \in Seq(WindowSet) /\ Len(windows') <= WindowMax
    BY <2>1, <2>2, WorkerAssumption DEF ShapeInv
  <2> QED BY <1>6, <2>2, <2>4, <2>5 DEF TakeWindow, mediaVars, ShapeInv, AttemptsInv
<1>7. CASE FastDone
  <2>1. fast \in WindowSet
    BY <1>7 DEF FastDone, ShapeInv
  <2>2. \A type \in {"IDENTITY", "SPOOF_FAST", "PIPELINE_ERROR"} : Event(fast, type) \in EventSet
    BY <2>1, EventType DEF Types
  <2>3. evidence' \in Seq(EventSet) /\ Len(evidence') <= EvidenceMax
    <3> DEFINE one == PutLatest(evidence, EvidenceMax, Event(fast, "IDENTITY"))
    <3>1. EvidenceMax \in Nat \ {0} /\ evidence \in Seq(EventSet) /\ Len(evidence) <= EvidenceMax
      BY WorkerAssumption DEF ShapeInv
    <3>2. IsPut(EventSet, evidence, EvidenceMax, Event(fast, "IDENTITY"), one)
      BY <2>2, <3>1, PutLatestProperties, SMTT(30)
    <3> HIDE DEF one
    <3>3. one \in Seq(EventSet) /\ Len(one) <= EvidenceMax
      BY <3>1, <3>2 DEF IsPut
    <3>4. CASE evidence' = PutLatest(one, EvidenceMax, Event(fast, "SPOOF_FAST"))
      <4>1. IsPut(EventSet, one, EvidenceMax, Event(fast, "SPOOF_FAST"), evidence')
        BY <2>2, <3>1, <3>3, <3>4, PutLatestProperties, SMTT(30)
      <4> QED BY <3>3, <4>1 DEF IsPut
    <3>5. CASE \E type \in {"SPOOF_FAST", "PIPELINE_ERROR"} : Enqueue(Event(fast, type))
      BY <2>2, <3>5, EnqueueType
    <3> QED BY <1>7, <3>4, <3>5 DEF FastDone, one
  <2> QED BY <1>7, <2>1, <2>3 DEF FastDone, mediaVars, ShapeInv, AttemptsInv
<1>8. ASSUME NEW w \in deep, DeepDone(w)
      PROVE  TypeInv'
  <2>1. \A type \in {"SPOOF_DEEP", "PIPELINE_ERROR"} : Event(w, type) \in EventSet
    BY EventType DEF Types, ShapeInv
  <2>2. evidence' \in Seq(EventSet) /\ Len(evidence') <= EvidenceMax
    BY <1>8, <2>1, EnqueueType DEF DeepDone
  <2> QED BY <1>8, <2>2 DEF DeepDone, mediaVars, ShapeInv, AttemptsInv
<1>9. CASE TakeEvent
  <2>1. evidence \in Seq(EventSet) /\ evidence # <<>> /\ evidence' = Tail(evidence)
    BY <1>9 DEF TakeEvent, ShapeInv
  <2>2. /\ Tail(evidence) \in Seq(EventSet) /\ Head(evidence) \in EventSet
        /\ Len(Tail(evidence)) = Len(evidence) - 1 /\ Len(evidence) \in Nat
    BY <2>1, TailProperties
  <2>3. evidence' \in Seq(EventSet) /\ Len(evidence') <= EvidenceMax
    BY <2>1, <2>2, WorkerAssumption DEF ShapeInv
  <2>4. /\ taken' \in SUBSET EventSet
        /\ sender' \in [event : EventSet \cup {None}, attempt : 0..PostMax]
    BY <1>0, <1>9, <2>2 DEF TakeEvent, ShapeInv
  <2> QED BY <1>9, <2>3, <2>4 DEF TakeEvent, mediaVars, ShapeInv, AttemptsInv
<1>10. CASE Post
  <2>1. sender' \in [event : EventSet \cup {None}, attempt : 0..PostMax]
    <3>1. sender \in [event : EventSet \cup {None}, attempt : 0..PostMax]
      BY DEF ShapeInv
    <3>2. \/ sender' = NoSend
          \/ (sender.attempt < PostMax /\ sender' = [sender EXCEPT !.attempt = @ + 1])
      BY <1>10 DEF Post, Answered, PostFails
    <3>3. NoSend \in [event : EventSet \cup {None}, attempt : 0..PostMax]
      BY <1>0 DEF NoSend
    <3> QED BY <1>0, <3>1, <3>2, <3>3
  <2> QED BY <1>10, <2>1 DEF Post, Answered, PostFails, mediaVars, ShapeInv, AttemptsInv
<1>11. CASE Stop
  <2>1. /\ <<>> \in Seq(Frames) /\ <<>> \in Seq(WindowSet) /\ <<>> \in Seq(EventSet)
        /\ Len(<<>>) = 0
    BY EmptySeq
  <2>2. WindowMax \in Nat /\ EvidenceMax \in Nat
    BY WorkerAssumption
  <2>3. sender' \in [event : EventSet \cup {None}, attempt : 0..PostMax]
    BY <1>0, <1>11 DEF Stop, NoSend
  <2>4. /\ frames' \in Seq(Frames) /\ Len(frames') <= FrameMax
        /\ buffer' \in Seq(Frames) /\ Len(buffer') < WindowLength
        /\ position' \in Nat /\ next' \in Nat \ {0}
    BY <1>0, <1>11, <2>1 DEF Stop
  <2>5. /\ windows' \in Seq(WindowSet) /\ Len(windows') <= WindowMax
        /\ evidence' \in Seq(EventSet) /\ Len(evidence') <= EvidenceMax
    BY <1>11, <2>1, <2>2 DEF Stop
  <2> QED BY <1>11, <2>3, <2>4, <2>5 DEF Stop, ShapeInv, AttemptsInv
<1>12. CASE UNCHANGED vars
  BY <1>12 DEF vars, mediaVars, runtimeVars, ShapeInv, AttemptsInv
<1> QED
  BY <1>1, <1>2, <1>3, <1>4, <1>5, <1>6, <1>7, <1>8, <1>9, <1>10, <1>11, <1>12 DEF Next

\* Shapes, queue bounds and attempt counts of a session's runtime hold in every
\* reachable state: the part of the inductive invariant the others stand on.
THEOREM WorkerTypes == Spec => []TypeInv
BY InitTypeInv, StepKeepsTypeInv, PTL DEF Spec

\* No queue is ever beyond its bound, and the buffer never holds a whole window.
THEOREM QueuesAreBounded == Spec => []TypeOK
<1>1. TypeInv => TypeOK
  <2> SUFFICES ASSUME TypeInv PROVE TypeOK
    OBVIOUS
  <2>1. \A w \in WindowSet : IsWindow(w)
    BY DEF WindowSet, IsWindow
  <2>2. \A e \in EventSet : IsEvent(e)
    BY DEF EventSet, IsEvent, IdOf, Ids
  <2>3. \A i \in DOMAIN windows : windows[i] \in WindowSet
    BY LenProperties, ElementOfSeq DEF TypeInv, ShapeInv
  <2>4. \A i \in DOMAIN evidence : evidence[i] \in EventSet
    BY LenProperties, ElementOfSeq DEF TypeInv, ShapeInv
  <2>5. (\A w \in ToSet(windows) : IsWindow(w)) /\ (\A e \in ToSet(evidence) : IsEvent(e))
    BY <2>1, <2>2, <2>3, <2>4 DEF ToSet
  <2> QED BY <2>1, <2>2, <2>5 DEF TypeInv, ShapeInv, TypeOK
<1> QED BY WorkerTypes, <1>1, PTL

-----------------------------------------------------------------------------
(* Windows are unbroken.                                                   *)

\* A step that takes up no new window and leaves the buffer or clears it.
LEMMA KeepsSegments ==
  ASSUME SegmentInv, InUse' \subseteq InUse, buffer' = buffer \/ buffer' = <<>>
  PROVE  SegmentInv'
<1>1. Unbroken(<<>>)
  <2>1. Len(<<>>) = 0
    BY EmptySeq
  <2> QED BY <2>1 DEF Unbroken
<1>2. Unbroken(buffer')
  BY <1>1 DEF SegmentInv
<1> QED BY <1>2 DEF SegmentInv, Unbroken

\* The windows in use after a window was taken from the queue.
LEMMA TakenFromWindows ==
  ASSUME ShapeInv, windows # <<>>
  PROVE  /\ Head(windows) \in ToSet(windows)
         /\ ToSet(Tail(windows)) \subseteq ToSet(windows)
<1>1. windows \in Seq(WindowSet)
  BY DEF ShapeInv
<1>2. /\ Head(windows) = windows[1] /\ 1 \in DOMAIN windows
      /\ DOMAIN Tail(windows) = 1..(Len(windows) - 1)
      /\ \A i \in 1..(Len(windows) - 1) :
           i + 1 \in DOMAIN windows /\ Tail(windows)[i] = windows[i + 1]
  BY <1>1, TailProperties
<1> QED BY <1>2 DEF ToSet

\* The initial state has no audio.
LEMMA InitSegmentInv == Init => SegmentInv
<1>1. \A s : Len(s) = 0 => Unbroken(s)
  BY DEF Unbroken
<1>2. Len(<<>>) = 0 /\ ToSet(<<>>) = {}
  BY EmptySeq DEF ToSet
<1> QED BY <1>1, <1>2 DEF Init, SegmentInv, InUse

\* Every step keeps the audio unbroken.
LEMMA StepKeepsSegmentInv ==
  ASSUME TypeInv, SegmentInv, [Next]_vars
  PROVE  SegmentInv'
<1>1. CASE AcceptFrame
  <2> DEFINE filled == Appended(Head(frames))
             w == [seq |-> next, audio |-> filled]
  <2>1. Unbroken(filled) /\ Len(filled) \in 1..WindowLength
    BY <1>1, AppendedProperties DEF AcceptFrame, SegmentInv
  <2>2. \/ /\ buffer' = filled /\ UNCHANGED windows
        \/ /\ Len(filled) = WindowLength
           /\ Len(buffer') = WindowLength - Stride
           /\ \A i \in 1..Len(buffer') : buffer'[i] = filled[i + Stride]
           /\ IsPut(WindowSet, windows, WindowMax, w, windows')
    BY <1>1, AcceptFrameProperties
  <2>3. UNCHANGED <<fast, deep>>
    BY <1>1 DEF AcceptFrame
  <2> HIDE DEF filled
  <2>4. CASE buffer' = filled /\ UNCHANGED windows
    BY <2>1, <2>3, <2>4 DEF SegmentInv, InUse, Unbroken
  <2>5. CASE /\ Len(filled) = WindowLength
             /\ Len(buffer') = WindowLength - Stride
             /\ \A i \in 1..Len(buffer') : buffer'[i] = filled[i + Stride]
             /\ IsPut(WindowSet, windows, WindowMax, w, windows')
    <3>1. WindowLength \in Nat /\ Stride \in Nat \ {0} /\ Stride <= WindowLength
      BY WorkerAssumption
    <3>2. Unbroken(buffer')
      <4> SUFFICES ASSUME NEW i \in 1..(Len(buffer') - 1)
                   PROVE  buffer'[i + 1] = <<buffer'[i][1], buffer'[i][2] + 1>>
        BY DEF Unbroken
      <4>1. /\ buffer'[i] = filled[i + Stride] /\ buffer'[i + 1] = filled[i + Stride + 1]
            /\ i + Stride \in 1..(Len(filled) - 1)
        <5>1. i \in 1..Len(buffer') /\ i + 1 \in 1..Len(buffer')
          BY <2>5, <3>1
        <5> QED BY <2>5, <3>1, <5>1
      <4> QED BY <2>1, <4>1 DEF Unbroken
    <3>3. ToSet(windows') \subseteq ToSet(windows) \cup {w}
      BY <2>5, PutLatestElements
    <3>4. Unbroken(w.audio)
      BY <2>1
    <3> HIDE DEF w
    <3>5. \A v \in InUse' : Unbroken(v.audio)
      BY <2>3, <3>3, <3>4 DEF SegmentInv, InUse
    <3> QED BY <3>2, <3>5 DEF SegmentInv, Unbroken
  <2> QED BY <2>2, <2>4, <2>5
<1>2. CASE TakeWindow
  <2>1. Head(windows) \in ToSet(windows) /\ ToSet(Tail(windows)) \subseteq ToSet(windows)
    BY <1>2, TakenFromWindows DEF TakeWindow, TypeInv
  <2>2. InUse' \subseteq InUse /\ buffer' = buffer
    BY <1>2, <2>1 DEF TakeWindow, InUse, mediaVars
  <2> QED BY <2>2, KeepsSegments
<1>3. CASE FastDone
  <2>1. InUse' \subseteq InUse /\ buffer' = buffer
    BY <1>3 DEF FastDone, InUse, mediaVars
  <2> QED BY <2>1, KeepsSegments
<1>4. CASE \E w \in deep : DeepDone(w)
  <2>1. InUse' \subseteq InUse /\ buffer' = buffer
    BY <1>4 DEF DeepDone, InUse, mediaVars
  <2> QED BY <2>1, KeepsSegments
<1>5. CASE Stop
  <2>1. ToSet(<<>>) = {}
    BY EmptySeq DEF ToSet
  <2>2. InUse' \subseteq InUse /\ buffer' = <<>>
    BY <1>5, <2>1 DEF Stop, InUse
  <2> QED BY <2>2, KeepsSegments
<1>6. ASSUME UNCHANGED <<windows, fast, deep>>, buffer' = buffer \/ buffer' = <<>>
      PROVE  SegmentInv'
  <2>1. InUse' = InUse
    BY <1>6 DEF InUse
  <2> QED BY <1>6, <2>1, KeepsSegments
<1>7. CASE \/ Attempt \/ Connected \/ ConnectionEnds \/ FrameArrives \/ TakeEvent \/ Post
           \/ UNCHANGED vars
  BY <1>6, <1>7 DEF Attempt, Connected, ConnectionEnds, FrameArrives, TakeEvent, Post,
                    Answered, PostFails, runtimeVars, mediaVars, vars
<1> QED BY <1>1, <1>2, <1>3, <1>4, <1>5, <1>7 DEF Next

\* What a model is asked about is one unbroken stretch of one connection, whatever
\* frames were let go and whatever connections broke.
THEOREM WindowsAreUnbroken == Spec => []WindowSpansNoGap
<1>1. Spec => []SegmentInv
  BY InitSegmentInv, StepKeepsSegmentInv, WorkerTypes, PTL DEF Spec
<1>2. TypeInv /\ SegmentInv => WindowSpansNoGap
  <2> SUFFICES ASSUME TypeInv, SegmentInv, NEW w \in InUse
               PROVE  \A i \in 1..(WindowLength - 1) :
                        w.audio[i + 1] = <<w.audio[i][1], w.audio[i][2] + 1>>
    BY DEF WindowSpansNoGap
  <2>1. ToSet(windows) \subseteq WindowSet
    <3>1. \A i \in DOMAIN windows : windows[i] \in WindowSet
      BY LenProperties, ElementOfSeq DEF TypeInv, ShapeInv
    <3> QED BY <3>1 DEF ToSet
  <2>2. w \in WindowSet
    BY <2>1 DEF InUse, TypeInv, ShapeInv
  <2> QED BY <2>2 DEF SegmentInv, Unbroken, WindowSet
<1> QED BY <1>1, <1>2, WorkerTypes, PTL

-----------------------------------------------------------------------------
(* The deep verdict follows the fast one.                                  *)

\* An event that is queued adds its audio to the reported if it is a deep verdict.
LEMMA PutReports ==
  ASSUME NEW queue, NEW events, NEW e, NEW put,
         IsPut(EventSet, queue, EvidenceMax, e, put)
  PROVE  /\ DeepAudio(put, events) \subseteq DeepAudio(queue, events) \cup {e.audio}
         /\ e.type # "SPOOF_DEEP" => DeepAudio(put, events) \subseteq DeepAudio(queue, events)
<1>1. ToSet(put) \subseteq ToSet(queue) \cup {e}
  BY PutLatestElements
<1> QED BY <1>1 DEF DeepAudio

\* A fast verdict on audio without a deep verdict may be queued, and every other event.
LEMMA PutKeepsVerdicts ==
  ASSUME NEW queue, NEW events, NEW e, NEW put,
         IsPut(EventSet, queue, EvidenceMax, e, put),
         Verdicts(queue, events),
         e.type = "SPOOF_FAST" => e.audio \notin DeepAudio(queue, events)
  PROVE  Verdicts(put, events)
<1> DEFINE k == Dropped(queue, EvidenceMax)
<1>1. /\ DOMAIN put = 1..Len(put) /\ Len(put) \in Nat \ {0} /\ put[Len(put)] = e
      /\ k \in {0, 1}
      /\ \A i \in 1..(Len(put) - 1) : i + k \in DOMAIN queue /\ put[i] = queue[i + k]
  BY DEF IsPut
<1> HIDE DEF k
<1>2. SUFFICES ASSUME NEW j \in DOMAIN put, put[j].type = "SPOOF_FAST"
               PROVE  /\ \A i \in DOMAIN put : (i < j /\ put[i].type = "SPOOF_DEEP")
                                                => put[i].audio # put[j].audio
                      /\ \A d \in events : d.type = "SPOOF_DEEP" => d.audio # put[j].audio
  BY DEF Verdicts
<1>3. CASE j = Len(put)
  <2>1. e.audio \notin DeepAudio(queue, events)
    BY <1>1, <1>2, <1>3
  <2>2. \A i \in DOMAIN put : i < j => put[i] \in ToSet(queue)
    BY <1>1, <1>3 DEF ToSet
  <2> QED BY <1>1, <1>3, <2>1, <2>2 DEF DeepAudio
<1>4. CASE j # Len(put)
  <2>1. j + k \in DOMAIN queue /\ put[j] = queue[j + k]
    <3>1. j \in 1..(Len(put) - 1)
      BY <1>1, <1>2, <1>4
    <3> QED BY <1>1, <3>1
  <2>2. \A i \in DOMAIN put : i < j =>
          i + k \in DOMAIN queue /\ put[i] = queue[i + k] /\ i + k < j + k
    BY <1>1
  <2> QED BY <1>2, <2>1, <2>2 DEF Verdicts
<1> QED BY <1>3, <1>4

\* Where only windows and events move, the frames stay new.
LEMMA KeepsFrames ==
  ASSUME FramesInv, UNCHANGED <<media, position, frames>>, Emitted' \subseteq Emitted
  PROVE  FramesInv'
BY DEF FramesInv, Past

\* Before the first window nothing is out of order.
LEMMA InitOrderInv == Init => OrderInv
<1> SUFFICES ASSUME Init PROVE OrderInv
  OBVIOUS
<1>1. ToSet(<<>>) = {} /\ DOMAIN <<>> = {}
  BY EmptySeq DEF ToSet
<1>2. Emitted = {} /\ Reported = {}
  BY <1>1 DEF Init, Emitted, Reported, DeepAudio, InUse
<1> QED BY <1>1, <1>2 DEF Init, OrderInv, FramesInv, StagesInv, VerdictsInv, Verdicts

\* The media worker: connections come and go, and frames arrive.
LEMMA ConnectionKeepsOrderInv ==
  ASSUME TypeInv, OrderInv, Attempt \/ Connected \/ ConnectionEnds
  PROVE  OrderInv'
<1> USE DEF OrderInv
<1>1. Reported' \subseteq Reported /\ VerdictsInv' /\ UNCHANGED <<windows, fast, deep, taken>>
  <2>1. CASE evidence' = evidence /\ UNCHANGED <<windows, fast, deep, taken>>
    BY <2>1 DEF Reported, VerdictsInv
  <2>2. CASE Enqueue(ReconnectExhausted) /\ UNCHANGED <<windows, fast, deep, taken>>
    <3>1. IsPut(EventSet, evidence, EvidenceMax, ReconnectExhausted, evidence')
      BY <2>2, EnqueueProperties, EventType DEF TypeInv
    <3>2. ReconnectExhausted.type = "PIPELINE_ERROR"
      BY DEF ReconnectExhausted
    <3>3. Verdicts(evidence', taken)
      BY <3>1, <3>2, PutKeepsVerdicts DEF VerdictsInv
    <3>4. DeepAudio(evidence', taken) \subseteq DeepAudio(evidence, taken)
      BY <3>1, <3>2, PutReports
    <3> QED BY <2>2, <3>3, <3>4 DEF Reported, VerdictsInv
  <2> QED BY <2>1, <2>2 DEF Attempt, Connected, ConnectionEnds, runtimeVars
<1>2. StagesInv'
  BY <1>1 DEF StagesInv
<1>3. \A f : Past(f, media, position) => Past(f, media', position')
  <2> SUFFICES ASSUME NEW f, Past(f, media, position)
               PROVE  Past(f, media', position')
    OBVIOUS
  <2>1. f[1] \in Nat /\ f[2] \in Nat
    BY DEF Past, Frames
  <2>2. media.attempt \in Nat /\ media'.attempt \in Nat
    BY StepKeepsTypeInv DEF Next, TypeInv, ShapeInv
  <2>3. \/ media'.pc = "ended" /\ media'.attempt = media.attempt
        \/ media'.pc = "connect" /\ media'.attempt = media.attempt + 1
        \/ media'.pc = "sleep" /\ media'.attempt = media.attempt
        \/ /\ media.pc = "connect"
           /\ media'.pc = "stream" /\ media'.attempt = media.attempt
    BY DEF Attempt, Connected, ConnectionEnds, TypeInv, ShapeInv
  <2> QED BY <2>1, <2>2, <2>3 DEF Past
<1>4. Emitted' \subseteq Emitted
  BY <1>1 DEF Emitted, InUse
<1>5. FramesInv'
  <2>1. CASE frames' = frames
    BY <1>3, <1>4, <2>1 DEF FramesInv
  <2>2. CASE frames' = <<>>
    <3>1. DOMAIN frames' = {}
      BY <2>2
    <3> QED BY <1>3, <1>4, <3>1 DEF FramesInv
  <2> QED BY <2>1, <2>2 DEF Attempt, Connected, ConnectionEnds
<1> QED BY <1>1, <1>2, <1>5

\* A frame from the media stream adds no event and no window to infer.
LEMMA FrameArrivesKeepsOrderInv ==
  ASSUME TypeInv, OrderInv, FrameArrives
  PROVE  OrderInv'
<1> USE DEF OrderInv
<1> DEFINE frame == <<media.attempt, position + 1>>
<1>1. UNCHANGED <<windows, fast, deep, evidence, taken, media>>
  BY DEF FrameArrives, runtimeVars
<1>2. StagesInv' /\ VerdictsInv'
  BY <1>1 DEF StagesInv, VerdictsInv, Reported, DeepAudio, Verdicts
<1>3. Emitted' = Emitted
  BY <1>1 DEF Emitted, Reported, InUse
<1>4. /\ media.attempt \in Nat /\ position \in Nat /\ position' = position + 1
      /\ media.pc = "stream"
  BY DEF FrameArrives, TypeInv, ShapeInv
<1>5. \A f : Past(f, media, position) => f # frame /\ Past(f, media', position')
  <2> SUFFICES ASSUME NEW f, Past(f, media, position)
               PROVE  f # frame /\ Past(f, media', position')
    OBVIOUS
  <2>1. CASE f[1] = media.attempt
    <3>1. f[2] <= position /\ f[2] \in Nat
      BY <1>4, <2>1 DEF Past, Frames
    <3>2. f # frame
      BY <1>4, <3>1
    <3> QED BY <1>1, <1>4, <2>1, <3>1, <3>2 DEF Past
  <2>2. CASE f[1] # media.attempt
    <3>1. f # frame
      BY <2>2
    <3> QED BY <1>1, <1>4, <2>2, <3>1 DEF Past
  <2> QED BY <2>1, <2>2
<1>6. frame \in Frames /\ FrameMax \in Nat \ {0} /\ frames \in Seq(Frames)
  BY <1>4, WorkerAssumption DEF Frames, TypeInv, ShapeInv, AttemptsInv
<1>7. Past(frame, media', position')
  BY <1>1, <1>4, <1>6 DEF Past
<1>8. frames' = PutLatest(frames, FrameMax, frame)
  BY DEF FrameArrives
<1> DEFINE k == Dropped(frames, FrameMax)
<1> HIDE DEF frame
<1>9. IsPut(Frames, frames, FrameMax, frame, frames')
  BY <1>6, <1>8, PutLatestProperties, SMTT(30)
<1>10. /\ DOMAIN frames' = 1..Len(frames') /\ Len(frames') \in Nat \ {0}
       /\ frames'[Len(frames')] = frame
       /\ \A i \in 1..(Len(frames') - 1) : i + k \in DOMAIN frames /\ frames'[i] = frames[i + k]
       /\ k \in {0, 1}
  BY <1>9 DEF IsPut
<1> HIDE DEF k
<1>11. \A i \in DOMAIN frames' : \/ i = Len(frames') /\ frames'[i] = frame
                                 \/ /\ i + k \in DOMAIN frames /\ frames'[i] = frames[i + k]
                                    /\ Past(frames'[i], media, position) /\ frames'[i] # frame
  BY <1>5, <1>10 DEF FramesInv
<1>12. \A i \in DOMAIN frames' : Past(frames'[i], media', position')
  BY <1>5, <1>7, <1>11
<1>13. \A i, j \in DOMAIN frames' : frames'[i] = frames'[j] => i = j
  <2> SUFFICES ASSUME NEW i \in DOMAIN frames', NEW j \in DOMAIN frames',
                      frames'[i] = frames'[j]
               PROVE  i = j
    OBVIOUS
  <2>1. CASE i + k \in DOMAIN frames /\ frames'[i] = frames[i + k] /\ frames'[i] # frame
    <3>1. j + k \in DOMAIN frames /\ frames'[j] = frames[j + k]
      BY <1>11, <2>1
    <3>2. i + k = j + k
      BY <2>1, <3>1 DEF FramesInv
    <3> QED BY <1>10, <3>2
  <2>2. CASE frames'[i] = frame
    BY <1>11, <2>2
  <2> QED BY <1>11, <2>1, <2>2
<1>14. \A audio \in Emitted : /\ Len(audio) = WindowLength
                              /\ Past(audio[WindowLength], media', position')
                              /\ \A i \in DOMAIN frames' : audio[WindowLength] # frames'[i]
  <2> SUFFICES ASSUME NEW audio \in Emitted
               PROVE  /\ Len(audio) = WindowLength
                      /\ Past(audio[WindowLength], media', position')
                      /\ \A i \in DOMAIN frames' : audio[WindowLength] # frames'[i]
    OBVIOUS
  <2>1. /\ Len(audio) = WindowLength /\ Past(audio[WindowLength], media, position)
        /\ \A i \in DOMAIN frames : audio[WindowLength] # frames[i]
    BY DEF FramesInv
  <2>2. audio[WindowLength] # frame /\ Past(audio[WindowLength], media', position')
    BY <1>5, <2>1
  <2> QED BY <1>11, <2>1, <2>2
<1>15. FramesInv'
  BY <1>3, <1>12, <1>13, <1>14 DEF FramesInv
<1> QED BY <1>2, <1>15

\* A new window ends in a frame that ended none before.
LEMMA AcceptFrameKeepsOrderInv ==
  ASSUME TypeInv, OrderInv, AcceptFrame
  PROVE  OrderInv'
<1> USE DEF OrderInv
<1> DEFINE filled == Appended(Head(frames))
           w == [seq |-> next, audio |-> filled]
           k == Dropped(windows, WindowMax)
<1>1. /\ UNCHANGED <<media, position, fast, deep, evidence, taken>>
      /\ frames # <<>> /\ frames' = Tail(frames) /\ media.pc = "stream"
  BY DEF AcceptFrame
<1>2. /\ frames \in Seq(Frames) /\ Len(frames) \in Nat \ {0}
      /\ DOMAIN frames' = 1..(Len(frames) - 1)
      /\ Head(frames) = frames[1] /\ 1 \in DOMAIN frames
      /\ \A i \in 1..(Len(frames) - 1) : i + 1 \in DOMAIN frames /\ frames'[i] = frames[i + 1]
  BY <1>1, TailProperties DEF TypeInv, ShapeInv
<1>3. \/ UNCHANGED windows
      \/ /\ Len(filled) = WindowLength
         /\ IsPut(WindowSet, windows, WindowMax, w, windows')
  BY AcceptFrameProperties
<1>4. filled[Len(filled)] = Head(frames)
  BY <1>1, AppendedProperties
<1>5. Reported' = Reported /\ VerdictsInv'
  BY <1>1 DEF Reported, VerdictsInv
<1> HIDE DEF filled
<1>6. \A f : Past(f, media', position') <=> Past(f, media, position)
  BY <1>1 DEF Past
<1>7. /\ \A i \in DOMAIN frames' : Past(frames'[i], media', position') /\ frames'[i] # Head(frames)
      /\ \A i, j \in DOMAIN frames' : frames'[i] = frames'[j] => i = j
  <2>1. \A i \in DOMAIN frames' : Past(frames'[i], media', position')
    BY <1>2, <1>6 DEF FramesInv
  <2>2. \A i \in DOMAIN frames' : frames'[i] # Head(frames)
    <3> SUFFICES ASSUME NEW i \in DOMAIN frames', frames[i + 1] = frames[1]
                 PROVE  FALSE
      BY <1>2
    <3>1. i + 1 = 1
      BY <1>2 DEF FramesInv
    <3> QED BY <1>2, <3>1
  <2>3. ASSUME NEW i \in DOMAIN frames', NEW j \in DOMAIN frames', frames'[i] = frames'[j]
        PROVE  i = j
    <3>1. i + 1 = j + 1
      BY <1>2, <2>3 DEF FramesInv
    <3> QED BY <1>2, <3>1
  <2> QED BY <2>1, <2>2, <2>3
<1>8. \A audio \in Emitted : /\ Len(audio) = WindowLength
                             /\ Past(audio[WindowLength], media', position')
                             /\ audio[WindowLength] # Head(frames)
                             /\ \A i \in DOMAIN frames' : audio[WindowLength] # frames'[i]
  BY <1>2, <1>6 DEF FramesInv
<1>9. CASE UNCHANGED windows
  <2>1. Emitted' = Emitted
    BY <1>1, <1>5, <1>9 DEF Emitted, InUse
  <2>2. FramesInv'
    BY <1>7, <1>8, <2>1 DEF FramesInv
  <2> QED BY <1>1, <1>5, <1>9, <2>2 DEF StagesInv
<1>10. CASE Len(filled) = WindowLength /\ IsPut(WindowSet, windows, WindowMax, w, windows')
  <2>1. ToSet(windows') \subseteq ToSet(windows) \cup {w}
    BY <1>10, PutLatestElements
  <2>2. w.audio = filled
    OBVIOUS
  <2>3. filled \notin Emitted
    BY <1>4, <1>8, <1>10
  <2>4. /\ DOMAIN windows' = 1..Len(windows') /\ Len(windows') \in Nat \ {0}
        /\ windows'[Len(windows')] = w
        /\ \A i \in 1..(Len(windows') - 1) :
             i + k \in DOMAIN windows /\ windows'[i] = windows[i + k]
        /\ k \in {0, 1}
    BY <1>10 DEF IsPut
  <2> HIDE DEF w, k
  <2>5. Emitted' \subseteq Emitted \cup {filled}
    BY <1>1, <1>5, <2>1, <2>2 DEF Emitted, InUse
  <2>6. /\ Past(filled[WindowLength], media', position')
        /\ \A i \in DOMAIN frames' : filled[WindowLength] # frames'[i]
    <3>1. Past(Head(frames), media, position)
      BY <1>2 DEF FramesInv
    <3> QED BY <1>4, <1>6, <1>7, <1>10, <3>1
  <2>7. FramesInv'
    <3> SUFFICES ASSUME NEW audio \in Emitted'
                 PROVE  /\ Len(audio) = WindowLength
                        /\ Past(audio[WindowLength], media', position')
                        /\ \A i \in DOMAIN frames' : audio[WindowLength] # frames'[i]
      BY <1>7 DEF FramesInv
    <3> QED BY <1>8, <1>10, <2>5, <2>6
  <2>8. \A i \in DOMAIN windows' : \/ i = Len(windows') /\ windows'[i].audio = filled
                                   \/ i + k \in DOMAIN windows /\ windows'[i] = windows[i + k]
    BY <2>2, <2>4, SMTT(30)
  <2>9. \A i \in DOMAIN windows : windows[i].audio # filled
    BY <2>3 DEF Emitted, InUse, ToSet
  <2>10. \A i, j \in DOMAIN windows' : windows'[i].audio = windows'[j].audio => i = j
    <3> SUFFICES ASSUME NEW i \in DOMAIN windows', NEW j \in DOMAIN windows',
                        windows'[i].audio = windows'[j].audio
                 PROVE  i = j
      OBVIOUS
    <3>1. CASE i + k \in DOMAIN windows /\ windows'[i] = windows[i + k]
      <4>1. j + k \in DOMAIN windows /\ windows'[j] = windows[j + k]
        BY <2>8, <2>9, <3>1
      <4>2. i + k = j + k
        BY <3>1, <4>1 DEF StagesInv
      <4> QED BY <2>4, <4>2
    <3>2. CASE i = Len(windows') /\ windows'[i].audio = filled
      BY <2>8, <2>9, <3>2
    <3> QED BY <2>8, <3>1, <3>2
  <2>11. \A i \in DOMAIN windows' : /\ windows'[i].audio \notin Reported
                                    /\ fast # None => windows'[i].audio # fast.audio
                                    /\ \A d \in deep : windows'[i].audio # d.audio
    <3>1. filled \notin Reported /\ (fast # None => filled # fast.audio)
            /\ \A d \in deep : filled # d.audio
      BY <2>3 DEF Emitted, InUse
    <3> QED BY <2>8, <3>1 DEF StagesInv
  <2>12. StagesInv'
    BY <1>1, <1>5, <2>10, <2>11 DEF StagesInv
  <2> QED BY <1>5, <2>7, <2>12
<1> QED BY <1>3, <1>9, <1>10

\* A window goes to the fast inference, or is done with.
LEMMA TakeWindowKeepsOrderInv ==
  ASSUME TypeInv, OrderInv, TakeWindow
  PROVE  OrderInv'
<1> USE DEF OrderInv
<1>1. /\ UNCHANGED <<media, position, frames, deep, taken>>
      /\ windows # <<>> /\ windows' = Tail(windows) /\ windows \in Seq(WindowSet) /\ fast = None
  BY DEF TakeWindow, mediaVars, TypeInv, ShapeInv
<1>2. /\ DOMAIN windows' = 1..(Len(windows) - 1) /\ Len(windows) \in Nat \ {0}
      /\ Head(windows) = windows[1] /\ 1 \in DOMAIN windows /\ Head(windows) \in WindowSet
      /\ \A i \in 1..(Len(windows) - 1) : i + 1 \in DOMAIN windows /\ windows'[i] = windows[i + 1]
  BY <1>1, TailProperties
<1>3. Reported' \subseteq Reported /\ VerdictsInv'
  <2> DEFINE e == Event(Head(windows), "INSUFFICIENT_EVIDENCE")
  <2>1. CASE evidence' = evidence
    BY <1>1, <2>1 DEF Reported, VerdictsInv
  <2>2. CASE Enqueue(e)
    <3>1. e \in EventSet /\ e.type = "INSUFFICIENT_EVIDENCE"
      BY <1>2, EventType DEF Types, Event
    <3> HIDE DEF e
    <3>2. IsPut(EventSet, evidence, EvidenceMax, e, evidence')
      BY <2>2, <3>1, EnqueueProperties DEF TypeInv
    <3>3. Verdicts(evidence', taken)
      BY <3>1, <3>2, PutKeepsVerdicts DEF VerdictsInv
    <3>4. DeepAudio(evidence', taken) \subseteq DeepAudio(evidence, taken)
      BY <3>1, <3>2, PutReports
    <3> QED BY <1>1, <3>3, <3>4 DEF Reported, VerdictsInv
  <2> QED BY <2>1, <2>2 DEF TakeWindow
<1>4. Head(windows) \in ToSet(windows) /\ ToSet(windows') \subseteq ToSet(windows)
  BY <1>1, TakenFromWindows DEF TypeInv
<1>5. fast' \in {None, Head(windows)}
  BY <1>1 DEF TakeWindow
<1>6. FramesInv'
  <2>1. Emitted' \subseteq Emitted
    BY <1>1, <1>3, <1>4, <1>5 DEF Emitted, InUse
  <2> QED BY <1>1, <2>1, KeepsFrames
<1>7. \A i \in DOMAIN windows' : windows'[i].audio # Head(windows).audio
  <2> SUFFICES ASSUME NEW i \in DOMAIN windows', windows[i + 1].audio = windows[1].audio
               PROVE  FALSE
    BY <1>2
  <2>1. i + 1 = 1
    BY <1>2 DEF StagesInv
  <2> QED BY <1>2, <2>1
<1>8. \A i, j \in DOMAIN windows' : windows'[i].audio = windows'[j].audio => i = j
  <2> SUFFICES ASSUME NEW i \in DOMAIN windows', NEW j \in DOMAIN windows',
                      windows'[i].audio = windows'[j].audio
               PROVE  i = j
    OBVIOUS
  <2>1. i + 1 = j + 1
    BY <1>2 DEF StagesInv
  <2> QED BY <1>2, <2>1
<1>9. \A i \in DOMAIN windows' : /\ windows'[i].audio \notin Reported
                                 /\ \A d \in deep : windows'[i].audio # d.audio
  BY <1>2 DEF StagesInv
<1>10. Head(windows).audio \notin Reported /\ \A d \in deep : Head(windows).audio # d.audio
  BY <1>2 DEF StagesInv
<1>11. StagesInv'
  BY <1>1, <1>3, <1>5, <1>7, <1>8, <1>9, <1>10 DEF StagesInv
<1> QED BY <1>3, <1>6, <1>11

\* The fast verdict is queued when the deep inference begins.
LEMMA FastDoneKeepsOrderInv ==
  ASSUME TypeInv, OrderInv, FastDone
  PROVE  OrderInv'
<1> USE DEF OrderInv
<1>1. /\ UNCHANGED <<media, position, frames, windows, taken>>
      /\ fast # None /\ fast' = None /\ fast \in WindowSet
      /\ deep' \in {deep, deep \cup {fast}}
  BY DEF FastDone, mediaVars, TypeInv, ShapeInv
<1>2. /\ \A type \in {"IDENTITY", "SPOOF_FAST", "PIPELINE_ERROR"} :
           /\ Event(fast, type) \in EventSet
           /\ Event(fast, type).type = type /\ Event(fast, type).audio = fast.audio
  BY <1>1, EventType DEF Types, Event
<1>3. fast.audio \notin DeepAudio(evidence, taken)
  BY <1>1 DEF StagesInv, Reported
<1>4. ASSUME NEW type \in {"SPOOF_FAST", "PIPELINE_ERROR"}, Enqueue(Event(fast, type))
      PROVE  Reported' \subseteq Reported /\ VerdictsInv'
  <2>1. IsPut(EventSet, evidence, EvidenceMax, Event(fast, type), evidence')
    BY <1>2, <1>4, EnqueueProperties DEF TypeInv
  <2>2. Verdicts(evidence', taken)
    BY <1>2, <1>3, <2>1, PutKeepsVerdicts DEF VerdictsInv
  <2>3. DeepAudio(evidence', taken) \subseteq DeepAudio(evidence, taken)
    BY <1>2, <2>1, PutReports
  <2> QED BY <1>1, <2>2, <2>3 DEF Reported, VerdictsInv
<1>5. ASSUME evidence' = PutLatest(PutLatest(evidence, EvidenceMax, Event(fast, "IDENTITY")),
                                   EvidenceMax, Event(fast, "SPOOF_FAST"))
      PROVE  Reported' \subseteq Reported /\ VerdictsInv'
  <2> DEFINE identity == Event(fast, "IDENTITY")
             spoof == Event(fast, "SPOOF_FAST")
             one == PutLatest(evidence, EvidenceMax, identity)
  <2>1. EvidenceMax \in Nat \ {0} /\ evidence \in Seq(EventSet)
    BY WorkerAssumption DEF TypeInv, ShapeInv
  <2>2. /\ identity \in EventSet /\ identity.type = "IDENTITY"
        /\ spoof \in EventSet /\ spoof.type = "SPOOF_FAST" /\ spoof.audio = fast.audio
    BY <1>2
  <2> HIDE DEF identity, spoof
  <2>3. IsPut(EventSet, evidence, EvidenceMax, identity, one)
    BY <2>1, <2>2, PutLatestProperties, SMTT(30)
  <2>4. evidence' = PutLatest(one, EvidenceMax, spoof)
    BY <1>5 DEF identity, spoof
  <2> HIDE DEF one
  <2>5. one \in Seq(EventSet)
    BY <2>3 DEF IsPut
  <2>6. IsPut(EventSet, one, EvidenceMax, spoof, evidence')
    BY <2>1, <2>2, <2>4, <2>5, PutLatestProperties, SMTT(30)
  <2>7. /\ Verdicts(one, taken)
        /\ DeepAudio(one, taken) \subseteq DeepAudio(evidence, taken)
    BY <2>2, <2>3, PutKeepsVerdicts, PutReports DEF VerdictsInv
  <2>8. /\ Verdicts(evidence', taken)
        /\ DeepAudio(evidence', taken) \subseteq DeepAudio(one, taken)
    <3>1. spoof.audio \notin DeepAudio(one, taken)
      BY <1>3, <2>2, <2>7
    <3>2. Verdicts(evidence', taken)
      BY <2>6, <2>7, <3>1, PutKeepsVerdicts
    <3> QED BY <2>2, <2>6, <3>2, PutReports
  <2> QED BY <1>1, <2>7, <2>8 DEF Reported, VerdictsInv
<1>6. Reported' \subseteq Reported /\ VerdictsInv'
  BY <1>4, <1>5 DEF FastDone
<1>7. FramesInv'
  <2>1. Emitted' \subseteq Emitted
    BY <1>1, <1>6 DEF Emitted, InUse
  <2> QED BY <1>1, <2>1, KeepsFrames
<1>8. StagesInv'
  BY <1>1, <1>6 DEF StagesInv
<1> QED BY <1>6, <1>7, <1>8

\* The deep verdict is queued after everything that was queued before.
LEMMA DeepDoneKeepsOrderInv ==
  ASSUME TypeInv, OrderInv, NEW w \in deep, DeepDone(w)
  PROVE  OrderInv'
<1> USE DEF OrderInv
<1>1. /\ UNCHANGED <<media, position, frames, windows, fast, taken>>
      /\ deep' = deep \ {w} /\ w \in WindowSet
  BY DEF DeepDone, mediaVars, TypeInv, ShapeInv
<1>2. PICK type \in {"SPOOF_DEEP", "PIPELINE_ERROR"} : Enqueue(Event(w, type))
  BY DEF DeepDone
<1> DEFINE e == Event(w, type)
<1>3. e \in EventSet /\ e.type = type /\ e.audio = w.audio
  BY <1>1, EventType DEF Types, Event
<1> HIDE DEF e
<1>4. IsPut(EventSet, evidence, EvidenceMax, e, evidence')
  BY <1>2, <1>3, EnqueueProperties DEF TypeInv, e
<1>5. Verdicts(evidence', taken)
  BY <1>3, <1>4, PutKeepsVerdicts DEF VerdictsInv
<1>6. DeepAudio(evidence', taken) \subseteq DeepAudio(evidence, taken) \cup {w.audio}
  BY <1>3, <1>4, PutReports
<1>7. Reported' \subseteq Reported \cup {w.audio} /\ VerdictsInv'
  BY <1>1, <1>5, <1>6 DEF Reported, VerdictsInv
<1>8. FramesInv'
  <2>1. Emitted' \subseteq Emitted
    BY <1>1, <1>7 DEF Emitted, InUse
  <2> QED BY <1>1, <2>1, KeepsFrames
<1>9. StagesInv'
  BY <1>1, <1>7 DEF StagesInv
<1> QED BY <1>7, <1>8, <1>9

\* The sender takes the head of the queue.
LEMMA TakeEventKeepsOrderInv ==
  ASSUME TypeInv, OrderInv, TakeEvent
  PROVE  OrderInv'
<1> USE DEF OrderInv
<1>1. /\ UNCHANGED <<media, position, frames, windows, fast, deep>>
      /\ evidence # <<>> /\ evidence' = Tail(evidence) /\ evidence \in Seq(EventSet)
      /\ taken' \in {taken, taken \cup {Head(evidence)}}
  BY DEF TakeEvent, mediaVars, TypeInv, ShapeInv
<1>2. /\ DOMAIN evidence' = 1..(Len(evidence) - 1) /\ Len(evidence) \in Nat \ {0}
      /\ Head(evidence) = evidence[1] /\ 1 \in DOMAIN evidence
      /\ \A i \in 1..(Len(evidence) - 1) :
           i + 1 \in DOMAIN evidence /\ evidence'[i] = evidence[i + 1]
  BY <1>1, TailProperties
<1>3. ToSet(evidence') \cup taken' \subseteq ToSet(evidence) \cup taken
  BY <1>1, <1>2 DEF ToSet
<1>4. Reported' \subseteq Reported
  BY <1>3 DEF Reported, DeepAudio
<1>5. VerdictsInv'
  <2> SUFFICES ASSUME NEW j \in DOMAIN evidence', evidence'[j].type = "SPOOF_FAST"
               PROVE  /\ \A i \in DOMAIN evidence' : (i < j /\ evidence'[i].type = "SPOOF_DEEP")
                                                  => evidence'[i].audio # evidence'[j].audio
                      /\ \A d \in taken' : d.type = "SPOOF_DEEP" => d.audio # evidence'[j].audio
    BY DEF VerdictsInv, Verdicts
  <2>1. /\ j + 1 \in DOMAIN evidence /\ evidence'[j] = evidence[j + 1] /\ 1 < j + 1
        /\ \A i \in DOMAIN evidence' : i < j =>
             i + 1 \in DOMAIN evidence /\ evidence'[i] = evidence[i + 1] /\ i + 1 < j + 1
    BY <1>2
  <2> QED BY <1>1, <1>2, <2>1 DEF VerdictsInv, Verdicts
<1>6. FramesInv'
  <2>1. Emitted' \subseteq Emitted
    BY <1>1, <1>4 DEF Emitted, InUse
  <2> QED BY <1>1, <2>1, KeepsFrames
<1>7. StagesInv'
  BY <1>1, <1>4 DEF StagesInv
<1> QED BY <1>5, <1>6, <1>7

\* Every step keeps the order.
LEMMA StepKeepsOrderInv ==
  ASSUME TypeInv, OrderInv, [Next]_vars
  PROVE  OrderInv'
<1>1. CASE Post \/ UNCHANGED vars
  <2>1. UNCHANGED <<mediaVars, windows, fast, deep, evidence, taken>>
    BY <1>1 DEF Post, Answered, PostFails, vars, runtimeVars
  <2>2. Reported' = Reported /\ Emitted' = Emitted
    BY <2>1 DEF Reported, Emitted, InUse
  <2> QED BY <2>1, <2>2 DEF OrderInv, FramesInv, StagesInv, VerdictsInv, mediaVars
<1>2. CASE Stop
  <2>1. ToSet(<<>>) = {} /\ DOMAIN <<>> = {}
    BY EmptySeq DEF ToSet
  <2>2. Emitted' = {} /\ Reported' = {}
    BY <1>2, <2>1 DEF Stop, Emitted, Reported, DeepAudio, InUse
  <2> QED BY <1>2, <2>1, <2>2 DEF Stop, OrderInv, FramesInv, StagesInv, VerdictsInv, Verdicts
<1> QED BY <1>1, <1>2, ConnectionKeepsOrderInv, FrameArrivesKeepsOrderInv,
           AcceptFrameKeepsOrderInv, TakeWindowKeepsOrderInv, FastDoneKeepsOrderInv,
           DeepDoneKeepsOrderInv, TakeEventKeepsOrderInv DEF Next

\* The backend never sees the deep verdict on a window before the fast one, which
\* was sent before it or let go by an overfull queue.
THEOREM DeepVerdictIsSecond == Spec => []DeepFollowsFast
<1>1. Spec => []OrderInv
  BY InitOrderInv, StepKeepsOrderInv, WorkerTypes, PTL DEF Spec
<1>2. OrderInv => DeepFollowsFast
  <2> SUFFICES ASSUME OrderInv, NEW d \in taken, d.type = "SPOOF_DEEP",
                      NEW e \in ToSet(evidence), e.type = "SPOOF_FAST", e.audio = d.audio
               PROVE  FALSE
    BY DEF DeepFollowsFast
  <2>1. PICK j \in DOMAIN evidence : evidence[j] = e
    BY DEF ToSet
  <2> QED BY <2>1 DEF OrderInv, VerdictsInv, Verdicts
<1> QED BY <1>1, <1>2, PTL
=============================================================================
