--------------------------- MODULE AnalysisWorker ---------------------------
(***************************************************************************)
(* AnalysisSessionRuntime: one analysis session in the ML service, from    *)
(* the frames of the authorized track to the evidence callbacks.  Three    *)
(* asyncio workers and a task per deep inference share two bounded queues; *)
(* what happens between two awaits is one step.                            *)
(*                                                                         *)
(* A frame is <<connection, position in its stream>>.  Lengths count       *)
(* frames, and a window is the frames it consists of.                      *)
(***************************************************************************)
EXTENDS Naturals, FiniteSets, Sequences, SequencesExt

CONSTANTS
  WindowLength,  \* window_samples
  Stride,        \* stride_samples
  FrameMax,      \* frame_queue_max
  WindowMax,     \* window_queue_max
  EvidenceMax,   \* evidence_queue_max
  ConnectMax,    \* reconnect_max_attempts
  PostMax,       \* callback_max_attempts
  StreamMax,     \* bound: frames of each connection
  None           \* nothing

ASSUME WorkerAssumption ==
  /\ {WindowLength, Stride, FrameMax, WindowMax, EvidenceMax, ConnectMax, PostMax} \subseteq Nat \ {0}
  /\ Stride <= WindowLength
  /\ StreamMax \in [1..ConnectMax -> Nat]

VARIABLES
  \* the subscription and the preprocessor of the current connection
  media,     \* what _media_worker awaits, and its attempt
  position,  \* _sequence: frames of this connection so far
  frames,    \* its queue
  buffer,    \* RollingWindowBuffer: frames from the next window's start on
  next,      \* _next_sequence
  \* the runtime
  windows,   \* _windows
  fast,      \* the window whose FAST inference is awaited
  deep,      \* the windows of the _run_deep tasks
  evidence,  \* _evidence
  taken,     \* _event_ids, with the audio the event was about
  sender,    \* the event that _evidence_worker delivers, and its attempt
  closed     \* stop was called

mediaVars == <<media, position, frames, buffer, next>>
runtimeVars == <<windows, fast, deep, evidence, taken, sender>>
vars == <<mediaVars, runtimeVars, closed>>

Frames == (1..ConnectMax) \X Nat
Types == {"INSUFFICIENT_EVIDENCE", "IDENTITY", "SPOOF_FAST", "SPOOF_DEEP", "PIPELINE_ERROR"}
Ids == [seq : Nat, type : Types]
IdOf(e) == [seq |-> e.seq, type |-> e.type]
TakenIds == {IdOf(e) : e \in taken}
NoSend == [event |-> None, attempt |-> 0]

\* _event_id.  The revision follows from the type, and the mode is of the session.
Event(w, type) == [seq |-> w.seq, type |-> type, audio |-> w.audio]
ReconnectExhausted == [seq |-> 0, type |-> "PIPELINE_ERROR", audio |-> <<>>]

IsWindow(w) == w.seq \in Nat /\ w.audio \in Seq(Frames) /\ Len(w.audio) = WindowLength
IsEvent(e) == IdOf(e) \in Ids /\ e.audio \in Seq(Frames)

\* No queue is ever beyond its bound, and the buffer never holds a whole window
\* between two frames.
TypeOK ==
  /\ media \in [pc : {"start", "connect", "stream", "sleep", "ended"}, attempt : 0..ConnectMax]
  /\ position \in Nat
  /\ frames \in Seq(Frames) /\ Len(frames) <= FrameMax
  /\ buffer \in Seq(Frames) /\ Len(buffer) < WindowLength
  /\ next \in Nat \ {0}
  /\ Len(windows) <= WindowMax /\ \A w \in ToSet(windows) : IsWindow(w)
  /\ fast = None \/ IsWindow(fast)
  /\ \A w \in deep : IsWindow(w)
  /\ Len(evidence) <= EvidenceMax /\ \A e \in ToSet(evidence) : IsEvent(e)
  /\ \A e \in taken : IsEvent(e)
  /\ sender.event = None \/ IsEvent(sender.event)
  /\ sender.attempt \in 0..PostMax
  /\ closed \in BOOLEAN

Init ==
  /\ media = [pc |-> "start", attempt |-> 0]
  /\ position = 0
  /\ frames = <<>> /\ buffer = <<>> /\ next = 1
  /\ windows = <<>> /\ fast = None /\ deep = {}
  /\ evidence = <<>> /\ taken = {} /\ sender = NoSend
  /\ closed = FALSE

-----------------------------------------------------------------------------
(* BoundedLatestQueue.                                                     *)

\* Mutant: a queue that is full grows.
MutantPutLatestUnbounded(queue, maximum, item) == Append(queue, item)
PutLatest(queue, maximum, item) ==
  Append(IF Len(queue) >= maximum THEN Tail(queue) ELSE queue, item)

\* _enqueue_evidence, of a session that is not closed.
Enqueue(e) == evidence' = PutLatest(evidence, EvidenceMax, e)

-----------------------------------------------------------------------------
(* _media_worker and LiveKitMediaSubscription.                             *)

\* The next attempt, with a new preprocessor and a new subscription, or the return
\* if grant_expires_at has passed by now, which nothing else looks at.
Attempt ==
  /\ ~closed
  /\ media.pc \in {"start", "sleep"}
  /\ media' \in {[media EXCEPT !.pc = "ended"],
                [pc |-> "connect", attempt |-> media.attempt + 1]}
  /\ UNCHANGED <<position, frames, buffer, next, runtimeVars, closed>>

Connected ==
  /\ ~closed
  /\ media.pc = "connect"
  /\ media' = [media EXCEPT !.pc = "stream"]
  /\ UNCHANGED <<position, frames, buffer, next, runtimeVars, closed>>

\* The connection cannot be made, or is lost, or audio is not fit: the preprocessor
\* is cleared and the subscription closed, whatever its queue holds.  What was
\* reached does not count: the attempts of a session are never given back.
ConnectionEnds ==
  /\ ~closed
  /\ media.pc \in {"connect", "stream"}
  /\ position' = 0 /\ frames' = <<>> /\ buffer' = <<>> /\ next' = 1
  /\ IF media.attempt < ConnectMax
     THEN media' = [media EXCEPT !.pc = "sleep"] /\ UNCHANGED evidence
     ELSE media' = [media EXCEPT !.pc = "ended"] /\ Enqueue(ReconnectExhausted)
  /\ UNCHANGED <<windows, fast, deep, taken, sender, closed>>

\* _consume_audio: the stream delivers whether or not the worker keeps up.
FrameArrives ==
  /\ ~closed
  /\ media.pc = "stream"
  /\ position < StreamMax[media.attempt]
  /\ position' = position + 1
  /\ frames' = PutLatest(frames, FrameMax, <<media.attempt, position + 1>>)
  /\ UNCHANGED <<media, buffer, next, runtimeVars, closed>>

\* Mutant: a jump of the source sequence is not noticed.
MutantAppendedAcrossGaps(frame) == Append(buffer, frame)

\* RollingWindowBuffer.append: a jump of the source sequence begins a segment.  The
\* buffer is empty between two windows only when a window and the stride are one
\* length, and then the jump makes no difference.
Appended(frame) ==
  IF buffer # <<>> /\ frame # <<Last(buffer)[1], Last(buffer)[2] + 1>>
  THEN <<frame>> ELSE Append(buffer, frame)

\* _accept_frame: one frame completes one window at most.
AcceptFrame ==
  LET filled == Appended(Head(frames)) IN
  /\ ~closed
  /\ media.pc = "stream"
  /\ frames # <<>>
  /\ frames' = Tail(frames)
  /\ IF Len(filled) < WindowLength
     THEN buffer' = filled /\ UNCHANGED <<next, windows>>
     ELSE /\ buffer' = SubSeq(filled, Stride + 1, Len(filled))
          /\ windows' = PutLatest(windows, WindowMax, [seq |-> next, audio |-> filled])
          /\ next' = next + 1
  /\ UNCHANGED <<media, position, fast, deep, evidence, taken, sender, closed>>

-----------------------------------------------------------------------------
(* _window_worker and _run_deep.                                           *)

\* Mutant: DEEP is started together with FAST.
MutantTakeWindowStartsBoth ==
  /\ ~closed
  /\ fast = None
  /\ windows # <<>>
  /\ windows' = Tail(windows)
  /\ fast' = Head(windows)
  /\ deep' = deep \cup {Head(windows)}
  /\ UNCHANGED evidence
  /\ UNCHANGED <<mediaVars, taken, sender, closed>>

\* A window is too old, or not sufficient, or goes to FAST inference.
TakeWindow ==
  /\ ~closed
  /\ fast = None
  /\ windows # <<>>
  /\ windows' = Tail(windows)
  /\ \/ UNCHANGED <<fast, evidence>>
     \/ Enqueue(Event(Head(windows), "INSUFFICIENT_EVIDENCE")) /\ UNCHANGED fast
     \/ fast' = Head(windows) /\ UNCHANGED evidence
  /\ UNCHANGED <<mediaVars, deep, taken, sender, closed>>

\* The results of FAST, with that of the identity first if there is a voiceprint.
FastDone ==
  /\ ~closed
  /\ fast # None
  /\ fast' = None
  /\ \/ Enqueue(Event(fast, "SPOOF_FAST")) /\ deep' = deep \cup {fast}
     \/ /\ evidence' = PutLatest(PutLatest(evidence, EvidenceMax, Event(fast, "IDENTITY")),
                                 EvidenceMax, Event(fast, "SPOOF_FAST"))
        /\ deep' = deep \cup {fast}
     \/ Enqueue(Event(fast, "PIPELINE_ERROR")) /\ UNCHANGED deep
  /\ UNCHANGED <<mediaVars, windows, taken, sender, closed>>

DeepDone(w) ==
  /\ ~closed
  /\ w \in deep
  /\ deep' = deep \ {w}
  /\ \E type \in {"SPOOF_DEEP", "PIPELINE_ERROR"} : Enqueue(Event(w, type))
  /\ UNCHANGED <<mediaVars, windows, fast, taken, sender, closed>>

-----------------------------------------------------------------------------
(* _evidence_worker and EvidenceClient.send.                               *)

\* The id is remembered before the event is sent.
TakeEvent ==
  /\ ~closed
  /\ sender.event = None
  /\ evidence # <<>>
  /\ evidence' = Tail(evidence)
  /\ IF IdOf(Head(evidence)) \in TakenIds
     THEN UNCHANGED <<taken, sender>>
     ELSE /\ taken' = taken \cup {Head(evidence)}
          /\ sender' = [event |-> Head(evidence), attempt |-> 1]
  /\ UNCHANGED <<mediaVars, windows, fast, deep, closed>>

\* An answer that is not tried again: 202, or 202 with a body that does not fit, or
\* 4xx but for 429.
Answered ==
  /\ ~closed
  /\ sender.attempt > 0
  /\ sender' = NoSend
  /\ UNCHANGED <<mediaVars, windows, fast, deep, evidence, taken, closed>>

\* Mutant: the error of the last attempt ends the worker.
MutantPostFailsEndsWorker ==
  /\ ~closed
  /\ sender.attempt > 0
  /\ IF sender.attempt < PostMax
     THEN sender' = [sender EXCEPT !.attempt = @ + 1]
     ELSE sender' = [sender EXCEPT !.attempt = 0]
  /\ UNCHANGED <<mediaVars, windows, fast, deep, evidence, taken, closed>>

\* A timeout, 429 or 5xx, of a request that was processed or not; the last one ends
\* the delivery, with a DeadLetterDiagnostic.
PostFails ==
  /\ ~closed
  /\ sender.attempt > 0
  /\ IF sender.attempt < PostMax
     THEN sender' = [sender EXCEPT !.attempt = @ + 1]
     ELSE sender' = NoSend
  /\ UNCHANGED <<mediaVars, windows, fast, deep, evidence, taken, closed>>

-----------------------------------------------------------------------------
\* stop: no task goes on after its cancellation, and everything is cleared.
Stop ==
  /\ ~closed
  /\ closed' = TRUE
  /\ media' = [media EXCEPT !.pc = "ended"]
  /\ position' = 0 /\ frames' = <<>> /\ buffer' = <<>> /\ next' = 1
  /\ windows' = <<>> /\ fast' = None /\ deep' = {}
  /\ evidence' = <<>> /\ taken' = {} /\ sender' = NoSend

Post == Answered \/ PostFails

Next ==
  \/ Attempt \/ Connected \/ ConnectionEnds \/ FrameArrives \/ AcceptFrame
  \/ TakeWindow \/ FastDone
  \/ \E w \in deep : DeepDone(w)
  \/ TakeEvent \/ Post
  \/ Stop

Spec == Init /\ [][Next]_vars

\* Every await of the delivery is bounded: a request by its timeout, a pause by its
\* length.  Nothing is assumed of the room, of the models or of the backend.
FairSpec == Spec /\ WF_vars(TakeEvent) /\ WF_vars(Post)

-----------------------------------------------------------------------------
(* Safety.                                                                 *)

InUse == ToSet(windows) \cup deep \cup ({fast} \ {None})

\* Frames are let go and connections break, but what a model is asked about is one
\* unbroken stretch of one connection.
WindowSpansNoGap ==
  \A w \in InUse : \A i \in 1..(WindowLength - 1) :
    w.audio[i + 1] = <<w.audio[i][1], w.audio[i][2] + 1>>

\* The backend never sees the revision of a window before its FAST event: when DEEP
\* was taken up, FAST was before it or was let go by an overfull queue.
DeepFollowsFast ==
  \A d \in taken : d.type = "SPOOF_DEEP" =>
    \A e \in ToSet(evidence) :
      ~(e.type = "SPOOF_FAST" /\ e.seq = d.seq /\ e.audio = d.audio /\ IdOf(e) \notin TakenIds)

(* Liveness.                                                               *)

\* Whatever becomes of one delivery, the worker comes to its end and goes on with
\* what is queued.
DeliveryGoesOn ==
  /\ sender.event # None ~> sender.event = None
  /\ evidence # <<>> ~> evidence = <<>> \/ sender.event # None

-----------------------------------------------------------------------------
(* What the documents say and the code does not do.                        *)

\* "window sequence: integer starting at 1 and increasing in emission order", so that
\* a window has "one stable window ID": an event that is discarded as a duplicate is
\* about the audio that was already reported under its id.
DuplicateIsOfTheSameWindow ==
  \A e \in ToSet(evidence), t \in taken : IdOf(e) = IdOf(t) => e.audio = t.audio
=============================================================================
