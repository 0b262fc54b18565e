-------------------------- MODULE GpuPipelineProofs --------------------------
(***************************************************************************)
(* What holds of run_pass for every number of slots, RAW buffers, entropy  *)
(* workers and frames, and whichever stages throw: its types; completed    *)
(* frames are captured frames; slots and RAW buffers have one owner; and   *)
(* frames leave the pipeline in order with none left behind.               *)
(***************************************************************************)
EXTENDS GpuPipeline, FiniteSetTheorems, TLAPS

\* A thread that works on a buffer or a slot really holds one.
HandsMatchPc ==
    /\ pc["capture"] \in {"fill", "push"} => camera \in Buffers
    /\ pc["split"] \in {"token", "slot", "fill", "return"} =>
          splitBuf \in Buffers
    /\ pc["split"] \in {"fill", "return", "submit", "publish"} =>
          splitSlot \in Slots
    /\ pc["gpu"] \in {"wait", "token", "forward"} => gpuSlot \in Slots
    /\ \A w \in Workers : pc[w] \in {"encode", "push"} => work[w] \in Slots
    /\ pc["writer"] \in {"count", "release"} => writing \in Slots

TypeInv == TypeOK /\ HandsMatchPc

-----------------------------------------------------------------------------
(* The type invariant.                                                     *)

LEMMA InitTypeInv == Init => TypeInv
  BY PipelineAssumption
  DEF Init, TypeInv, TypeOK, HandsMatchPc, Labels, Maybe, Threads, Stages,
      Buffers, CaptureTypes, SplitTypes, GpuTypes, EntropyTypes, WriterTypes,
      QueueTypes, CounterTypes

\* A group of variables a step leaves alone keeps its types.
LEMMA Untouched ==
  ASSUME TypeOK
  PROVE  /\ UNCHANGED captureVars => CaptureTypes'
         /\ UNCHANGED splitVars => SplitTypes'
         /\ UNCHANGED gpuVars => GpuTypes'
         /\ UNCHANGED entropyVars => EntropyTypes'
         /\ UNCHANGED writerVars => WriterTypes'
         /\ UNCHANGED queueVars => QueueTypes'
         /\ UNCHANGED counterVars => CounterTypes'
  BY DEF TypeOK, CaptureTypes, SplitTypes, GpuTypes, EntropyTypes,
         WriterTypes, QueueTypes, CounterTypes, captureVars, splitVars,
         gpuVars, entropyVars, writerVars, queueVars, counterVars

\* The stages are different threads, and no worker is one of them.
LEMMA ThreadFacts == /\ Threads = Stages \cup Workers
                     /\ Stages = {"capture", "split", "gpu", "writer"}
                     /\ \A w \in Workers : w \notin Stages
  BY PipelineAssumption DEF Threads, Stages

\* What taking from and adding to a queue does to its type.
LEMMA QueueFacts ==
  ASSUME NEW S, NEW q \in Seq(S)
  PROVE  /\ \A e \in S : Append(q, e) \in Seq(S)
         /\ q # <<>> => Head(q) \in S /\ Tail(q) \in Seq(S)
  OBVIOUS

\* Each thread keeps the type invariant, one step per action of the thread.
LEMMA CaptureTypeInv ==
  TypeInv /\ Capture => TypeInv'
<1> SUFFICES ASSUME TypeOK, HandsMatchPc, Capture PROVE TypeInv'
  BY DEF TypeInv
<1> USE ThreadFacts, Untouched
        DEF TypeOK, HandsMatchPc, TypeInv, Maybe, Goto, At
<1>1. CASE CaptureTryPop
  <2>1. pc' \in [Threads -> Labels]
    BY <1>1 DEF CaptureTryPop, Labels
  <2>2. CaptureTypes'
    BY <1>1 DEF CaptureTryPop, CaptureTypes
  <2>3. HandsMatchPc'
    BY <1>1, <2>1, <2>2 DEF CaptureTryPop, CaptureTypes, splitVars, gpuVars,
       entropyVars, writerVars
  <2> QED BY <1>1, <2>1, <2>2, <2>3 DEF CaptureTryPop
<1>2. CASE CaptureAllocate
  <2>1. pc' \in [Threads -> Labels]
    BY <1>2 DEF CaptureAllocate, Labels
  <2>2. CaptureTypes'
    BY <1>2 DEF CaptureAllocate, CaptureTypes
  <2>3. HandsMatchPc'
    BY <1>2, <2>1, <2>2 DEF CaptureAllocate, CaptureTypes, splitVars,
       gpuVars, entropyVars, writerVars
  <2> QED BY <1>2, <2>1, <2>2, <2>3 DEF CaptureAllocate
<1>3. CASE CaptureUnblock
  <2>1. pc' \in [Threads -> Labels]
    BY <1>3 DEF CaptureUnblock, Labels
  <2>2. CaptureTypes'
    BY <1>3 DEF CaptureUnblock, CaptureTypes
  <2>3. HandsMatchPc'
    BY <1>3, <2>1, <2>2 DEF CaptureUnblock, CaptureTypes, splitVars,
       gpuVars, entropyVars, writerVars
  <2> QED BY <1>3, <2>1, <2>2, <2>3 DEF CaptureUnblock
<1>4. CASE CaptureFill
  <2>1. pc' \in [Threads -> Labels]
    BY <1>4 DEF CaptureFill, Labels
  <2>2. CaptureTypes'
    BY <1>4 DEF CaptureFill, CaptureTypes, CounterTypes
  <2>3. CounterTypes'
    <3>1. enqueued \in Nat
      BY DEF CounterTypes
    <3>2. enqueued' = enqueued + 1
      BY <1>4 DEF CaptureFill
    <3>3. enqueued' \in Nat
      BY ONLY <3>1, <3>2
    <3> QED BY <1>4, <3>3 DEF CaptureFill, CounterTypes
  <2>4. HandsMatchPc'
    BY <1>4, <2>1, <2>2, <2>3 DEF CaptureFill, CaptureTypes, CounterTypes,
       splitVars, gpuVars, entropyVars, writerVars
  <2> QED BY <1>4, <2>1, <2>2, <2>3, <2>4 DEF CaptureFill
<1>5. CASE CapturePublish
  <2>1. pc' \in [Threads -> Labels]
    BY <1>5 DEF CapturePublish, Labels
  <2>2. CaptureTypes'
    BY <1>5 DEF CapturePublish, CaptureTypes, QueueTypes
  <2>3. QueueTypes'
    BY <1>5 DEF CapturePublish, QueueTypes, CaptureTypes
  <2>4. HandsMatchPc'
    BY <1>5, <2>1, <2>2, <2>3 DEF CapturePublish, CaptureTypes, QueueTypes,
       splitVars, gpuVars, entropyVars, writerVars
  <2> QED BY <1>5, <2>1, <2>2, <2>3, <2>4 DEF CapturePublish
<1>6. CASE CaptureStop
  <2>1. pc' \in [Threads -> Labels]
    BY <1>6 DEF CaptureStop, Labels
  <2>2. CounterTypes'
    <3>1. enqueued \in Nat /\ completed \in Nat
      BY DEF CounterTypes
    <3>2. NonnegativeDifference(enqueued, completed) \in Nat
      BY ONLY <3>1 DEF NonnegativeDifference
    <3> QED BY <1>6, <3>2 DEF CaptureStop, CounterTypes
  <2>3. HandsMatchPc'
    BY <1>6, <2>1, <2>2 DEF CaptureStop, CounterTypes, captureVars,
       splitVars, gpuVars, entropyVars, writerVars
  <2> QED BY <1>6, <2>1, <2>2, <2>3 DEF CaptureStop
<1>7. CASE CaptureAnnounceStop
  <2>1. pc' \in [Threads -> Labels]
    BY <1>7 DEF CaptureAnnounceStop, Labels
  <2>2. CounterTypes'
    BY <1>7 DEF CaptureAnnounceStop, CounterTypes
  <2>3. HandsMatchPc'
    BY <1>7, <2>1, <2>2 DEF CaptureAnnounceStop, CounterTypes, captureVars,
       splitVars, gpuVars, entropyVars, writerVars
  <2> QED BY <1>7, <2>1, <2>2, <2>3 DEF CaptureAnnounceStop
<1>9. CASE CaptureStoreStop
  <2>1. pc' \in [Threads -> Labels]
    BY <1>9 DEF CaptureStoreStop, Labels
  <2>2. CounterTypes'
    BY <1>9 DEF CaptureStoreStop, CounterTypes
  <2>3. HandsMatchPc'
    BY <1>9, <2>1, <2>2 DEF CaptureStoreStop, CounterTypes, captureVars,
       splitVars, gpuVars, entropyVars, writerVars
  <2> QED BY <1>9, <2>1, <2>2, <2>3 DEF CaptureStoreStop
<1>8. CASE CaptureEnd
  <2>1. pc' \in [Threads -> Labels]
    BY <1>8 DEF CaptureEnd, Labels
  <2>2. QueueTypes'
    BY <1>8 DEF CaptureEnd, QueueTypes
  <2>3. HandsMatchPc'
    BY <1>8, <2>1, <2>2 DEF CaptureEnd, QueueTypes, captureVars, splitVars,
       gpuVars, entropyVars, writerVars
  <2> QED BY <1>8, <2>1, <2>2, <2>3 DEF CaptureEnd
<1> QED
  BY <1>1, <1>2, <1>3, <1>4, <1>5, <1>6, <1>7, <1>8, <1>9 DEF Capture

LEMMA SplitTypeInv ==
  TypeInv /\ Split => TypeInv'
<1> SUFFICES ASSUME TypeOK, HandsMatchPc, Split PROVE TypeInv'
  BY DEF TypeInv
<1> USE ThreadFacts, Untouched
        DEF TypeOK, HandsMatchPc, TypeInv, Maybe, Goto, At
<1>1. CASE SplitPop
  <2>1. pc' \in [Threads -> Labels]
    BY <1>1 DEF SplitPop, Labels
  <2>2. SplitTypes'
    BY <1>1 DEF SplitPop, SplitTypes, QueueTypes
  <2>3. QueueTypes'
    BY <1>1 DEF SplitPop, QueueTypes, SplitTypes
  <2>4. HandsMatchPc'
    <3>1. Head(captureReady) \in Buffers \cup {End}
      BY <1>1, QueueFacts DEF SplitPop, QueueTypes
    <3>2. pc'["split"] \in {"token", "end"}
      BY <1>1 DEF SplitPop
    <3>3. pc'["split"] = "token" => splitBuf' \in Buffers
      BY <1>1, <3>1 DEF SplitPop
    <3> QED BY <1>1, <3>2, <3>3 DEF SplitPop, captureVars, gpuVars,
            entropyVars, writerVars
  <2> QED BY <1>1, <2>1, <2>2, <2>3, <2>4 DEF SplitPop
<1>2. CASE SplitTakeToken
  <2>1. pc' \in [Threads -> Labels]
    BY <1>2 DEF SplitTakeToken, Labels
  <2>2. QueueTypes'
    BY <1>2 DEF SplitTakeToken, QueueTypes
  <2>3. HandsMatchPc'
    BY <1>2, <2>1, <2>2 DEF SplitTakeToken, QueueTypes, captureVars,
       splitVars, gpuVars, entropyVars, writerVars
  <2> QED BY <1>2, <2>1, <2>2, <2>3 DEF SplitTakeToken
<1>3. CASE SplitTakeSlot
  <2>1. pc' \in [Threads -> Labels]
    BY <1>3 DEF SplitTakeSlot, Labels
  <2>2. SplitTypes'
    <3>1. CASE freeq = {}
      BY <1>3, <3>1 DEF SplitTakeSlot, SplitTypes
    <3>2. CASE freeq # {}
      <4>1. PICK s \in freeq : /\ splitSlot' = s
                              /\ slotFrame' = [slotFrame EXCEPT ![s] = split]
        BY <1>3, <3>2 DEF SplitTakeSlot
      <4>2. split \in Maybe(Nat) /\ s \in Slots
        BY DEF SplitTypes, QueueTypes
      <4> QED BY <1>3, <4>1, <4>2 DEF SplitTakeSlot, SplitTypes
    <3> QED BY <3>1, <3>2
  <2>3. EntropyTypes'
    BY <1>3 DEF SplitTakeSlot, EntropyTypes, SplitTypes, QueueTypes
  <2>4. QueueTypes'
    BY <1>3 DEF SplitTakeSlot, QueueTypes, SplitTypes, EntropyTypes
  <2>5. HandsMatchPc'
    <3>1. pc'["split"] \in {"fill", "done"}
      BY <1>3 DEF SplitTakeSlot
    <3>2. pc'["split"] = "fill" => splitSlot' \in Slots /\ splitBuf' \in Buffers
      BY <1>3 DEF SplitTakeSlot, QueueTypes
    <3> QED BY <1>3, <3>1, <3>2 DEF SplitTakeSlot, captureVars, gpuVars,
            writerVars
  <2> QED BY <1>3, <2>1, <2>2, <2>3, <2>4, <2>5 DEF SplitTakeSlot
<1>4. CASE SplitFill
  <2>1. pc' \in [Threads -> Labels]
    BY <1>4 DEF SplitFill, Labels
  <2>2. SplitTypes'
    BY <1>4 DEF SplitFill, SplitTypes, CaptureTypes
  <2>3. HandsMatchPc'
    BY <1>4, <2>1, <2>2 DEF SplitFill, SplitTypes, captureVars, gpuVars,
       entropyVars, writerVars, CaptureTypes
  <2> QED BY <1>4, <2>1, <2>2, <2>3 DEF SplitFill
<1>5. CASE SplitReturnBuffer
  <2>1. pc' \in [Threads -> Labels]
    BY <1>5 DEF SplitReturnBuffer, Labels
  <2>2. CaptureTypes'
    BY <1>5 DEF SplitReturnBuffer, CaptureTypes, SplitTypes
  <2>3. SplitTypes'
    BY <1>5 DEF SplitReturnBuffer, SplitTypes, CaptureTypes
  <2>4. HandsMatchPc'
    BY <1>5, <2>1, <2>2, <2>3 DEF SplitReturnBuffer, CaptureTypes,
       SplitTypes, gpuVars, entropyVars, writerVars
  <2> QED BY <1>5, <2>1, <2>2, <2>3, <2>4 DEF SplitReturnBuffer
<1>6. CASE SplitSubmit
  <2>1. pc' \in [Threads -> Labels]
    BY <1>6 DEF SplitSubmit, Labels
  <2>2. SplitTypes'
    BY <1>6 DEF SplitSubmit, SplitTypes, GpuTypes
  <2>3. GpuTypes'
    BY <1>6 DEF SplitSubmit, GpuTypes, SplitTypes
  <2>4. HandsMatchPc'
    BY <1>6, <2>1, <2>2, <2>3 DEF SplitSubmit, SplitTypes, GpuTypes,
       captureVars, entropyVars, writerVars
  <2> QED BY <1>6, <2>1, <2>2, <2>3, <2>4 DEF SplitSubmit
<1>7. CASE SplitPublish
  <2>1. pc' \in [Threads -> Labels]
    BY <1>7 DEF SplitPublish, Labels
  <2>2. SplitTypes'
    BY <1>7 DEF SplitPublish, SplitTypes, QueueTypes
  <2>3. QueueTypes'
    <3>1. splitSlot \in Slots \cup {End}
      BY <1>7 DEF SplitPublish
    <3>2. Append(gpuq, splitSlot) \in Seq(Slots \cup {End})
      BY <3>1, QueueFacts DEF QueueTypes
    <3>3. gpuq' \in {gpuq, Append(gpuq, splitSlot)}
      BY <1>7 DEF SplitPublish
    <3> QED BY <1>7, <3>2, <3>3 DEF SplitPublish, QueueTypes
  <2>4. HandsMatchPc'
    BY <1>7, <2>1, <2>2, <2>3 DEF SplitPublish, SplitTypes, QueueTypes,
       captureVars, gpuVars, entropyVars, writerVars
  <2> QED BY <1>7, <2>1, <2>2, <2>3, <2>4 DEF SplitPublish
<1>8. CASE SplitEnd
  <2>1. pc' \in [Threads -> Labels]
    BY <1>8 DEF SplitEnd, Labels
  <2>2. QueueTypes'
    <3>1. End \in Slots \cup {End}
      OBVIOUS
    <3>2. Append(gpuq, End) \in Seq(Slots \cup {End})
      BY <3>1, QueueFacts DEF QueueTypes
    <3>3. gpuq' \in {gpuq, Append(gpuq, End)}
      BY <1>8 DEF SplitEnd
    <3> QED BY <1>8, <3>2, <3>3 DEF SplitEnd, QueueTypes
  <2>3. HandsMatchPc'
    BY <1>8, <2>1, <2>2 DEF SplitEnd, QueueTypes, captureVars, splitVars,
       gpuVars, entropyVars, writerVars
  <2> QED BY <1>8, <2>1, <2>2, <2>3 DEF SplitEnd
<1> QED
  BY <1>1, <1>2, <1>3, <1>4, <1>5, <1>6, <1>7, <1>8 DEF Split

LEMMA CompletionTypeInv ==
  TypeInv /\ Completion => TypeInv'
<1> SUFFICES ASSUME TypeOK, HandsMatchPc, Completion PROVE TypeInv'
  BY DEF TypeInv
<1> USE ThreadFacts, Untouched
        DEF TypeOK, HandsMatchPc, TypeInv, Maybe, Goto, At
<1>1. CASE GpuPop
  <2>1. pc' \in [Threads -> Labels]
    BY <1>1 DEF GpuPop, Labels
  <2>2. GpuTypes'
    BY <1>1 DEF GpuPop, GpuTypes, QueueTypes
  <2>3. QueueTypes'
    <3>1. CASE gpuq # <<>>
      <4>1. Tail(gpuq) \in Seq(Slots \cup {End})
        BY <3>1, QueueFacts DEF QueueTypes
      <4>2. gpuq' = Tail(gpuq)
        BY <1>1, <3>1 DEF GpuPop
      <4> QED BY <1>1, <4>1, <4>2 DEF GpuPop, QueueTypes
    <3>2. CASE gpuq = <<>>
      BY <1>1, <3>2 DEF GpuPop, QueueTypes
    <3> QED BY <3>1, <3>2
  <2>4. HandsMatchPc'
    <3>1. gpuq # <<>> => Head(gpuq) \in Slots \cup {End}
      BY QueueFacts DEF QueueTypes
    <3>2. pc'["gpu"] \in {"wait", "token", "forward"} => gpuSlot' \in Slots
      BY <1>1, <3>1 DEF GpuPop, GpuTypes
    <3> QED BY <1>1, <3>2 DEF GpuPop, captureVars, splitVars, entropyVars,
            writerVars
  <2> QED BY <1>1, <2>1, <2>2, <2>3, <2>4 DEF GpuPop
<1>2. CASE GpuWait
  <2>1. pc' \in [Threads -> Labels]
    BY <1>2 DEF GpuWait, Labels
  <2>2. HandsMatchPc'
    BY <1>2, <2>1 DEF GpuWait, captureVars, splitVars, gpuVars, entropyVars,
       writerVars
  <2> QED BY <1>2, <2>1, <2>2 DEF GpuWait
<1>3. CASE GpuReturnToken
  <2>1. pc' \in [Threads -> Labels]
    BY <1>3 DEF GpuReturnToken, Labels
  <2>2. QueueTypes'
    BY <1>3 DEF GpuReturnToken, QueueTypes
  <2>3. HandsMatchPc'
    BY <1>3, <2>1, <2>2 DEF GpuReturnToken, QueueTypes, captureVars,
       splitVars, gpuVars, entropyVars, writerVars
  <2> QED BY <1>3, <2>1, <2>2, <2>3 DEF GpuReturnToken
<1>4. CASE GpuForward
  <2>1. pc' \in [Threads -> Labels]
    BY <1>4 DEF GpuForward, Labels
  <2>2. GpuTypes'
    BY <1>4 DEF GpuForward, GpuTypes, QueueTypes
  <2>3. QueueTypes'
    <3>1. gpuSlot \in Slots \cup {End}
      BY <1>4 DEF GpuForward
    <3>2. Append(entq, gpuSlot) \in Seq(Slots \cup {End})
      BY <3>1, QueueFacts DEF QueueTypes
    <3>3. entq' \in {entq, Append(entq, gpuSlot)}
      BY <1>4 DEF GpuForward
    <3> QED BY <1>4, <3>2, <3>3 DEF GpuForward, QueueTypes
  <2>4. HandsMatchPc'
    BY <1>4, <2>1, <2>2, <2>3 DEF GpuForward, GpuTypes, QueueTypes,
       captureVars, splitVars, entropyVars, writerVars
  <2> QED BY <1>4, <2>1, <2>2, <2>3, <2>4 DEF GpuForward
<1>5. CASE GpuSendEnds
  <2>1. pc' \in [Threads -> Labels]
    BY <1>5 DEF GpuSendEnds, Labels
  <2>2. GpuTypes'
    BY <1>5 DEF GpuSendEnds, GpuTypes, QueueTypes
  <2>3. QueueTypes'
    <3>1. End \in Slots \cup {End}
      OBVIOUS
    <3>2. Append(entq, End) \in Seq(Slots \cup {End})
      BY <3>1, QueueFacts DEF QueueTypes
    <3>3. entq' \in {entq, Append(entq, End)}
      BY <1>5 DEF GpuSendEnds
    <3> QED BY <1>5, <3>2, <3>3 DEF GpuSendEnds, QueueTypes
  <2>4. HandsMatchPc'
    BY <1>5, <2>1, <2>2, <2>3 DEF GpuSendEnds, GpuTypes, QueueTypes,
       captureVars, splitVars, entropyVars, writerVars
  <2> QED BY <1>5, <2>1, <2>2, <2>3, <2>4 DEF GpuSendEnds
<1> QED
  BY <1>1, <1>2, <1>3, <1>4, <1>5 DEF Completion

LEMMA EntropyTypeInv ==
  ASSUME NEW w \in Workers
  PROVE  TypeInv /\ Entropy(w) => TypeInv'
<1> SUFFICES ASSUME TypeOK, HandsMatchPc, Entropy(w) PROVE TypeInv'
  BY DEF TypeInv
<1> USE ThreadFacts, Untouched
        DEF TypeOK, HandsMatchPc, TypeInv, Maybe, Goto, At
<1>1. CASE EntropyPop(w)
  <2>1. pc' \in [Threads -> Labels]
    BY <1>1 DEF EntropyPop, Labels
  <2>2. EntropyTypes'
    <3>1. entq # <<>> => Head(entq) \in Slots \cup {End}
      BY QueueFacts DEF QueueTypes
    <3> QED BY <1>1, <3>1 DEF EntropyPop, EntropyTypes
  <2>3. QueueTypes'
    <3>1. CASE entq # <<>>
      <4>1. Tail(entq) \in Seq(Slots \cup {End})
        BY <3>1, QueueFacts DEF QueueTypes
      <4>2. entq' = Tail(entq)
        BY <1>1, <3>1 DEF EntropyPop
      <4> QED BY <1>1, <4>1, <4>2 DEF EntropyPop, QueueTypes
    <3>2. CASE entq = <<>>
      BY <1>1, <3>2 DEF EntropyPop, QueueTypes
    <3> QED BY <3>1, <3>2
  <2>4. HandsMatchPc'
    <3>1. entq # <<>> => Head(entq) \in Slots \cup {End}
      BY QueueFacts DEF QueueTypes
    <3>2. pc'[w] = "encode" => work'[w] \in Slots
      BY <1>1, <3>1 DEF EntropyPop, EntropyTypes
    <3>3. pc'[w] # "push"
      BY <1>1 DEF EntropyPop
    <3>4. \A v \in Workers \ {w} : pc'[v] = pc[v] /\ work'[v] = work[v]
      BY <1>1 DEF EntropyPop, EntropyTypes
    <3>5. UNCHANGED <<pc["capture"], pc["split"], pc["gpu"], pc["writer"]>>
      BY <1>1 DEF EntropyPop
    <3> QED BY <1>1, <3>2, <3>3, <3>4, <3>5 DEF EntropyPop, captureVars,
            splitVars, gpuVars, writerVars
  <2> QED BY <1>1, <2>1, <2>2, <2>3, <2>4 DEF EntropyPop
<1>2. CASE EntropyEncode(w)
  <2>1. pc' \in [Threads -> Labels]
    BY <1>2 DEF EntropyEncode, Labels
  <2>2. EntropyTypes'
    BY <1>2 DEF EntropyEncode, EntropyTypes, Outputs, SplitTypes
  <2>3. HandsMatchPc'
    BY <1>2, <2>1, <2>2 DEF EntropyEncode, EntropyTypes, captureVars,
       splitVars, gpuVars, writerVars, SplitTypes
  <2> QED BY <1>2, <2>1, <2>2, <2>3 DEF EntropyEncode
<1>3. CASE EntropyPush(w)
  <2>1. pc' \in [Threads -> Labels]
    BY <1>3 DEF EntropyPush, Labels
  <2>2. EntropyTypes'
    BY <1>3 DEF EntropyPush, EntropyTypes, QueueTypes
  <2>3. QueueTypes'
    <3>1. work[w] \in Slots \cup {End}
      BY <1>3 DEF EntropyPush
    <3>2. Append(writeq, work[w]) \in Seq(Slots \cup {End})
      BY <3>1, QueueFacts DEF QueueTypes
    <3>3. writeq' \in {writeq, Append(writeq, work[w])}
      BY <1>3 DEF EntropyPush
    <3> QED BY <1>3, <3>2, <3>3 DEF EntropyPush, QueueTypes
  <2>4. HandsMatchPc'
    BY <1>3, <2>1, <2>2, <2>3 DEF EntropyPush, EntropyTypes, QueueTypes,
       captureVars, splitVars, gpuVars, writerVars
  <2> QED BY <1>3, <2>1, <2>2, <2>3, <2>4 DEF EntropyPush
<1>4. CASE EntropyEnd(w)
  <2>1. pc' \in [Threads -> Labels]
    BY <1>4 DEF EntropyEnd, Labels
  <2>2. QueueTypes'
    <3>1. End \in Slots \cup {End}
      OBVIOUS
    <3>2. Append(writeq, End) \in Seq(Slots \cup {End})
      BY <3>1, QueueFacts DEF QueueTypes
    <3>3. writeq' \in {writeq, Append(writeq, End)}
      BY <1>4 DEF EntropyEnd
    <3> QED BY <1>4, <3>2, <3>3 DEF EntropyEnd, QueueTypes
  <2>3. HandsMatchPc'
    BY <1>4, <2>1, <2>2 DEF EntropyEnd, QueueTypes, captureVars, splitVars,
       gpuVars, entropyVars, writerVars
  <2> QED BY <1>4, <2>1, <2>2, <2>3 DEF EntropyEnd
<1> QED
  BY <1>1, <1>2, <1>3, <1>4 DEF Entropy

LEMMA WriterTypeInv ==
  TypeInv /\ Writer => TypeInv'
<1> SUFFICES ASSUME TypeOK, HandsMatchPc, Writer PROVE TypeInv'
  BY DEF TypeInv
<1> USE ThreadFacts, Untouched
        DEF TypeOK, HandsMatchPc, TypeInv, Maybe, Goto, At
<1>1. CASE WriterPop
  <2>1. pc' \in [Threads -> Labels]
    BY <1>1 DEF WriterPop, Labels
  <2>2. WriterTypes'
    BY <1>1 DEF WriterPop, WriterTypes, QueueTypes
  <2>3. QueueTypes'
    <3>1. CASE writeq # <<>>
      <4>1. Tail(writeq) \in Seq(Slots \cup {End})
        BY <3>1, QueueFacts DEF QueueTypes
      <4>2. writeq' = Tail(writeq)
        BY <1>1, <3>1 DEF WriterPop
      <4> QED BY <1>1, <4>1, <4>2 DEF WriterPop, QueueTypes
    <3>2. CASE writeq = <<>>
      BY <1>1, <3>2 DEF WriterPop, QueueTypes
    <3> QED BY <3>1, <3>2
  <2>4. HandsMatchPc'
    BY <1>1, <2>1, <2>2, <2>3 DEF WriterPop, WriterTypes, QueueTypes,
       captureVars, splitVars, gpuVars, entropyVars
  <2> QED BY <1>1, <2>1, <2>2, <2>3, <2>4 DEF WriterPop
<1>2. CASE WriterCommit
  <2>1. pc' \in [Threads -> Labels]
    BY <1>2 DEF WriterCommit, Labels
  <2>2. WriterTypes'
    <3>1. PICK s \in reorder : /\ reorder' = reorder \ {s}
                              /\ writing' = s
                              /\ delivered' = Append(delivered, slotGpr[s])
      BY <1>2 DEF WriterCommit, NextInOrder
    <3>2. slotGpr[s] \in Maybe(Outputs)
      BY <3>1 DEF EntropyTypes, WriterTypes
    <3>3. delivered' \in Seq(Maybe(Outputs))
      BY <3>1, <3>2, QueueFacts DEF WriterTypes
    <3> QED BY <1>2, <3>1, <3>3 DEF WriterCommit, WriterTypes
  <2>3. CounterTypes'
    <3>1. completed \in Nat
      BY DEF CounterTypes
    <3>2. completed' = completed + 1
      BY <1>2 DEF WriterCommit
    <3>3. completed' \in Nat
      BY ONLY <3>1, <3>2
    <3> QED BY <1>2, <3>3 DEF WriterCommit, CounterTypes
  <2>4. HandsMatchPc'
    BY <1>2, <2>1, <2>2, <2>3 DEF WriterCommit, WriterTypes, CounterTypes,
       captureVars, splitVars, gpuVars, entropyVars, NextInOrder
  <2> QED BY <1>2, <2>1, <2>2, <2>3, <2>4 DEF WriterCommit
<1>3. CASE WriterRelease
  <2>1. pc' \in [Threads -> Labels]
    BY <1>3 DEF WriterRelease, Labels
  <2>2. EntropyTypes'
    BY <1>3 DEF WriterRelease, EntropyTypes, WriterTypes, QueueTypes,
       CounterTypes
  <2>3. WriterTypes'
    BY <1>3 DEF WriterRelease, WriterTypes, EntropyTypes, QueueTypes,
       CounterTypes
  <2>4. QueueTypes'
    BY <1>3 DEF WriterRelease, QueueTypes, EntropyTypes, WriterTypes,
       CounterTypes
  <2>5. CounterTypes'
    BY <1>3 DEF WriterRelease, CounterTypes, EntropyTypes, WriterTypes,
       QueueTypes
  <2>6. HandsMatchPc'
    BY <1>3, <2>1, <2>2, <2>3, <2>4, <2>5 DEF WriterRelease, EntropyTypes,
       WriterTypes, QueueTypes, CounterTypes, captureVars, splitVars,
       gpuVars
  <2> QED BY <1>3, <2>1, <2>2, <2>3, <2>4, <2>5, <2>6 DEF WriterRelease
<1>4. CASE WriterDrained
  <2>1. pc' \in [Threads -> Labels]
    BY <1>4 DEF WriterDrained, Labels
  <2>2. HandsMatchPc'
    BY <1>4, <2>1 DEF WriterDrained, captureVars, splitVars, gpuVars,
       entropyVars, writerVars
  <2> QED BY <1>4, <2>1, <2>2 DEF WriterDrained
<1>5. CASE WriterCount
  <2>1. pc' \in [Threads -> Labels]
    BY <1>5 DEF WriterCount, Labels
  <2>2. WriterTypes'
    <3>1. enqueued \in Nat /\ completed \in Nat
      BY DEF CounterTypes
    <3>2. NonnegativeDifference(enqueued, completed) \in Nat
      BY ONLY <3>1 DEF NonnegativeDifference
    <3> QED BY <1>5, <3>2 DEF WriterCount, WriterTypes
  <2>3. HandsMatchPc'
    BY <1>5, <2>1, <2>2 DEF WriterCount, WriterTypes, captureVars,
       splitVars, gpuVars, entropyVars, counterVars
  <2> QED BY <1>5, <2>1, <2>2, <2>3 DEF WriterCount
<1> QED
  BY <1>1, <1>2, <1>3, <1>4, <1>5 DEF Writer

\* The end of a thread, of a submission and of the pass.
LEMMA EndTypeInv ==
  ASSUME NEW t \in Threads
  PROVE  TypeInv /\ (Throw(t) \/ Cancel(t) \/ Join \/ GpuFinish) => TypeInv'
<1> SUFFICES ASSUME TypeOK, HandsMatchPc,
                    Throw(t) \/ Cancel(t) \/ Join \/ GpuFinish
             PROVE  TypeInv'
  BY DEF TypeInv
<1> USE ThreadFacts, Untouched
        DEF TypeOK, HandsMatchPc, TypeInv, Maybe, Goto, At
<1>1. CASE Throw(t)
  <2>1. pc' \in [Threads -> Labels]
    BY <1>1 DEF Throw, Labels
  <2>2. HandsMatchPc'
    BY <1>1, <2>1 DEF Throw, captureVars, splitVars, gpuVars, entropyVars,
       writerVars
  <2> QED BY <1>1, <2>1, <2>2 DEF Throw
<1>2. CASE Cancel(t)
  <2>1. pc' \in [Threads -> Labels]
    BY <1>2 DEF Cancel, Labels
  <2>2. closed' \in 0..5
    <3>1. closed \in 0..5
      BY DEF QueueTypes
    <3>2. closed' = closed \/ (closed < 5 /\ closed' = closed + 1)
      BY <1>2 DEF Cancel
    <3> QED BY ONLY <3>1, <3>2
  <2>3. QueueTypes'
    BY <1>2, <2>2 DEF Cancel, QueueTypes
  <2>4. HandsMatchPc'
    BY <1>2, <2>1 DEF Cancel, captureVars, splitVars, gpuVars, entropyVars,
       writerVars
  <2> QED BY <1>2, <2>1, <2>3, <2>4 DEF Cancel
<1>3. CASE Join
  <2>1. EntropyTypes'
    BY <1>3 DEF Join, EntropyTypes
  <2>2. QueueTypes'
    BY <1>3 DEF Join, QueueTypes
  <2>3. HandsMatchPc'
    BY <1>3 DEF Join, captureVars, splitVars, gpuVars, writerVars
  <2> QED BY <1>3, <2>1, <2>2, <2>3 DEF Join
<1>4. CASE GpuFinish
  <2>1. GpuTypes'
    BY <1>4 DEF GpuFinish, GpuTypes
  <2>2. HandsMatchPc'
    BY <1>4 DEF GpuFinish, captureVars, splitVars, entropyVars, writerVars
  <2> QED BY <1>4, <2>1, <2>2 DEF GpuFinish
<1> QED
  BY <1>1, <1>2, <1>3, <1>4

LEMMA StutterTypeInv == TypeInv /\ UNCHANGED vars => TypeInv'
<1> SUFFICES ASSUME TypeOK, HandsMatchPc, UNCHANGED vars PROVE TypeInv'
  BY DEF TypeInv
<1>1. TypeOK'
  BY Untouched DEF vars, TypeOK
<1>2. HandsMatchPc'
  BY DEF vars, HandsMatchPc, captureVars, splitVars, gpuVars, entropyVars,
         writerVars
<1> QED BY <1>1, <1>2 DEF TypeInv

LEMMA NextTypeInv == TypeInv /\ [Next]_vars => TypeInv'
<1> SUFFICES ASSUME TypeInv, [Next]_vars PROVE TypeInv'
  OBVIOUS
<1>1. "capture" \in Threads
  BY ThreadFacts
<1> QED
  BY <1>1, CaptureTypeInv, SplitTypeInv, CompletionTypeInv, EntropyTypeInv,
     WriterTypeInv, EndTypeInv, StutterTypeInv DEF Next, Finished

\* Every variable of run_pass keeps its type in every pass, whatever its
\* size and whichever stages throw; no thread works on a buffer or a slot it
\* does not hold, and the GPU limiter never goes negative.
THEOREM TypeCorrect == Spec => []TypeOK
<1>1. Spec => []TypeInv
  BY InitTypeInv, NextTypeInv, PTL DEF Spec
<1>2. TypeInv => TypeOK
  BY DEF TypeInv
<1> QED BY <1>1, <1>2, PTL

-----------------------------------------------------------------------------
(* Completed frames are captured frames.                                   *)

\* Frames in a queue that may end with the END sentinel.
Data(q) == IF q # <<>> /\ q[Len(q)] = End THEN Len(q) - 1 ELSE Len(q)
EndOnlyLast(q) == \A i \in 1..Len(q) : q[i] = End => i = Len(q)
NoEnd(q)       == \A i \in 1..Len(q) : q[i] # End

\* A frame on its way from the camera to its number: published next, or in
\* the hands of the split thread.
Publishing == IF pc["capture"] = "push" THEN 1 ELSE 0
Splitting  == IF pc["split"] \in {"token", "slot", "fill", "return", "submit"}
              THEN 1 ELSE 0

\* The END is the last thing the capture thread publishes.
EndComesLast == /\ EndOnlyLast(captureReady)
                /\ pc["capture"] # "done" => NoEnd(captureReady)

\* Every frame number given out, or to be given out for a frame already on
\* its way, is one the capture thread has counted.
Counted  == Data(captureReady) + Splitting + split + Publishing <= enqueued
Numbered == \A s \in Slots : slotFrame[s] \in Nat => slotFrame[s] < enqueued

CountInv == EndComesLast /\ Counted /\ Numbered /\ CompletedWithinCaptured

LEMMA DataFacts ==
  ASSUME NEW q \in Seq(Buffers \cup {End})
  PROVE  /\ Data(q) \in Nat
         /\ NoEnd(q) => /\ \A b \in Buffers :
                              /\ Data(Append(q, b)) = Data(q) + 1
                              /\ NoEnd(Append(q, b))
                        /\ Data(Append(q, End)) = Data(q)
                        /\ EndOnlyLast(Append(q, End))
         /\ q # <<>> /\ EndOnlyLast(q) =>
               /\ Data(q) = Data(Tail(q)) + (IF Head(q) = End THEN 0 ELSE 1)
               /\ EndOnlyLast(Tail(q))
               /\ NoEnd(q) => NoEnd(Tail(q))
<1>1. End \notin Buffers
  BY PipelineAssumption
<1>2. Data(q) \in Nat
  BY DEF Data
<1>3. ASSUME NoEnd(q), NEW b \in Buffers
      PROVE  Data(Append(q, b)) = Data(q) + 1 /\ NoEnd(Append(q, b))
  <2>1. Append(q, b) \in Seq(Buffers \cup {End})
    OBVIOUS
  <2>2. Len(Append(q, b)) = Len(q) + 1 /\ Append(q, b)[Len(q) + 1] = b
    OBVIOUS
  <2>3. \A i \in 1..Len(q) : Append(q, b)[i] = q[i]
    OBVIOUS
  <2> QED BY <1>1, <1>3, <2>1, <2>2, <2>3 DEF Data, NoEnd
<1>4. ASSUME NoEnd(q)
      PROVE  Data(Append(q, End)) = Data(q) /\ EndOnlyLast(Append(q, End))
  <2>1. Append(q, End) \in Seq(Buffers \cup {End})
    OBVIOUS
  <2>2. Len(Append(q, End)) = Len(q) + 1 /\ Append(q, End)[Len(q) + 1] = End
    OBVIOUS
  <2>3. \A i \in 1..Len(q) : Append(q, End)[i] = q[i]
    OBVIOUS
  <2> QED BY <1>4, <2>1, <2>2, <2>3 DEF Data, NoEnd, EndOnlyLast
<1>5. ASSUME q # <<>>, EndOnlyLast(q)
      PROVE  /\ Data(q) = Data(Tail(q)) + (IF Head(q) = End THEN 0 ELSE 1)
             /\ EndOnlyLast(Tail(q))
             /\ NoEnd(q) => NoEnd(Tail(q))
  <2> DEFINE r == Tail(q)
  <2>1. /\ Len(q) \in Nat /\ Len(q) >= 1 /\ Head(q) = q[1]
        /\ r \in Seq(Buffers \cup {End}) /\ Len(r) = Len(q) - 1
    BY <1>5
  <2>2. ASSUME NEW i \in 1..Len(r)
        PROVE  i + 1 \in 1..Len(q) /\ r[i] = q[i + 1]
    BY <1>5
  <2> HIDE DEF r
  <2>3. EndOnlyLast(r)
    <3>1. SUFFICES ASSUME NEW i \in 1..Len(r), r[i] = End PROVE i = Len(r)
      BY DEF EndOnlyLast
    <3>2. i + 1 = Len(q)
      BY <1>5, <2>2, <3>1 DEF EndOnlyLast
    <3> QED BY <2>1, <3>2
  <2>4. NoEnd(q) => NoEnd(r)
    BY <2>2 DEF NoEnd
  <2>5. Data(q) = Data(r) + (IF Head(q) = End THEN 0 ELSE 1)
    <3>1. CASE Len(q) = 1
      <4>1. r = <<>> /\ Data(r) = 0
        BY <2>1, <3>1 DEF Data
      <4> QED BY <1>5, <2>1, <3>1, <4>1 DEF Data
    <3>2. CASE Len(q) # 1
      <4>1. Len(r) \in 1..Len(r) /\ r # <<>>
        BY <2>1, <3>2
      <4>2. r[Len(r)] = q[Len(q)]
        BY <2>1, <2>2, <4>1
      <4>3. Head(q) # End
        BY <1>5, <2>1, <3>2 DEF EndOnlyLast
      <4> QED BY <1>5, <2>1, <4>1, <4>2, <4>3 DEF Data
    <3> QED BY <3>1, <3>2
  <2> QED BY <2>3, <2>4, <2>5 DEF r
<1> QED BY <1>2, <1>3, <1>4, <1>5

LEMMA CountTypes ==
  ASSUME TypeOK
  PROVE  /\ Publishing \in {0, 1} /\ Splitting \in {0, 1}
         /\ captureReady \in Seq(Buffers \cup {End})
         /\ Data(captureReady) \in Nat
         /\ split \in Nat /\ enqueued \in Nat /\ completed \in Nat
<1>1. captureReady \in Seq(Buffers \cup {End}) /\ split \in Nat
  BY DEF TypeOK, QueueTypes, SplitTypes
<1>2. enqueued \in Nat /\ completed \in Nat
  BY DEF TypeOK, CounterTypes
<1> QED BY <1>1, <1>2, DataFacts DEF Publishing, Splitting

\* A step that moves no frame towards its number keeps the count.
LEMMA CountUntouched ==
  ASSUME TypeOK, TypeOK', CountInv,
         UNCHANGED <<captureReady, split, slotFrame, enqueued, completed>>,
         Publishing' <= Publishing, Splitting' <= Splitting,
         pc["capture"] = "done" => pc'["capture"] = "done"
  PROVE  CountInv'
<1>1. EndComesLast'
  BY DEF CountInv, EndComesLast, EndOnlyLast, NoEnd
<1>2. Data(captureReady') = Data(captureReady)
  OBVIOUS
<1>3. Publishing' \in {0, 1} /\ Splitting' \in {0, 1}
  BY DEF Publishing, Splitting
<1>4. Counted'
  BY <1>2, <1>3, CountTypes DEF CountInv, Counted
<1> QED
  BY <1>1, <1>4 DEF CountInv, Numbered, CompletedWithinCaptured

LEMMA CaptureCountInv == TypeInv /\ CountInv /\ Capture => CountInv'
<1> SUFFICES ASSUME TypeOK, TypeOK', HandsMatchPc, CountInv, Capture
             PROVE  CountInv'
  BY CaptureTypeInv DEF TypeInv
<1> USE ThreadFacts
<1>1. pc \in [Threads -> Labels]
  BY DEF TypeOK
<1>2. CASE \/ CaptureTryPop \/ CaptureAllocate \/ CaptureUnblock
           \/ CaptureStop \/ CaptureStoreStop \/ CaptureAnnounceStop
  <2>1. UNCHANGED <<captureReady, split, slotFrame, enqueued, completed>>
    BY <1>2 DEF CaptureTryPop, CaptureAllocate, CaptureUnblock, CaptureStop, CaptureStoreStop,
       CaptureAnnounceStop, queueVars, splitVars, counterVars
  <2>2. /\ pc["capture"] \notin {"push", "done"}
        /\ pc'["capture"] # "push" /\ pc'["split"] = pc["split"]
    BY <1>1, <1>2 DEF CaptureTryPop, CaptureAllocate, CaptureUnblock,
       CaptureStop, CaptureStoreStop, CaptureAnnounceStop, Goto, At
  <2>3. Publishing' <= Publishing /\ Splitting' <= Splitting
    BY <2>2 DEF Publishing, Splitting
  <2> QED BY <2>1, <2>2, <2>3, CountUntouched
<1>3. CASE CaptureFill
  <2>1. /\ enqueued' = enqueued + 1
        /\ UNCHANGED <<captureReady, split, slotFrame, completed>>
    BY <1>3 DEF CaptureFill, queueVars, splitVars
  <2>2. /\ pc["capture"] = "fill" /\ pc'["capture"] = "push"
        /\ pc'["split"] = pc["split"]
    BY <1>1, <1>3 DEF CaptureFill, Goto, At
  <2>3. Publishing = 0 /\ Publishing' = 1 /\ Splitting' = Splitting
    BY <2>2 DEF Publishing, Splitting
  <2>4. EndComesLast'
    BY <2>1, <2>2 DEF CountInv, EndComesLast, EndOnlyLast, NoEnd
  <2>5. Data(captureReady') = Data(captureReady)
    BY <2>1
  <2>6. Counted'
    BY <2>1, <2>3, <2>5, CountTypes DEF CountInv, Counted
  <2>7. Numbered'
    BY <2>1, CountTypes DEF CountInv, Numbered
  <2>8. CompletedWithinCaptured'
    BY <2>1, CountTypes DEF CountInv, CompletedWithinCaptured
  <2> QED BY <2>4, <2>6, <2>7, <2>8 DEF CountInv
<1>4. CASE CapturePublish
  <2>1. /\ captureReady' = Append(captureReady, camera)
        /\ UNCHANGED <<split, slotFrame, enqueued, completed>>
    BY <1>4 DEF CapturePublish, splitVars, counterVars
  <2>2. /\ pc["capture"] = "push" /\ pc'["capture"] = "next"
        /\ pc'["split"] = pc["split"]
    BY <1>1, <1>4 DEF CapturePublish, Goto, At
  <2>3. Publishing = 1 /\ Publishing' = 0 /\ Splitting' = Splitting
    BY <2>2 DEF Publishing, Splitting
  <2>4. NoEnd(captureReady) /\ camera \in Buffers
    BY <2>2 DEF CountInv, EndComesLast, HandsMatchPc
  <2>5. Data(captureReady') = Data(captureReady) + 1 /\ NoEnd(captureReady')
    BY <2>1, <2>4, DataFacts, CountTypes
  <2>6. EndComesLast'
    BY <2>2, <2>5 DEF EndComesLast, EndOnlyLast, NoEnd
  <2>7. Counted'
    BY <2>1, <2>3, <2>5, CountTypes DEF CountInv, Counted
  <2> QED
    BY <2>1, <2>6, <2>7 DEF CountInv, Numbered, CompletedWithinCaptured
<1>5. CASE CaptureEnd
  <2>1. /\ captureReady' = Append(captureReady, End)
        /\ UNCHANGED <<split, slotFrame, enqueued, completed>>
    BY <1>5 DEF CaptureEnd, splitVars, counterVars
  <2>2. /\ pc["capture"] = "end" /\ pc'["capture"] = "done"
        /\ pc'["split"] = pc["split"]
    BY <1>1, <1>5 DEF CaptureEnd, Goto, At
  <2>3. Publishing = 0 /\ Publishing' = 0 /\ Splitting' = Splitting
    BY <2>2 DEF Publishing, Splitting
  <2>4. /\ Data(captureReady') = Data(captureReady)
        /\ EndOnlyLast(captureReady')
    BY <2>1, <2>2, DataFacts, CountTypes DEF CountInv, EndComesLast
  <2>5. EndComesLast'
    BY <2>2, <2>4 DEF EndComesLast, EndOnlyLast
  <2>6. Counted'
    BY <2>1, <2>3, <2>4, CountTypes DEF CountInv, Counted
  <2> QED
    BY <2>1, <2>5, <2>6 DEF CountInv, Numbered, CompletedWithinCaptured
<1> QED
  BY <1>2, <1>3, <1>4, <1>5 DEF Capture

LEMMA SplitCountInv == TypeInv /\ CountInv /\ Split => CountInv'
<1> SUFFICES ASSUME TypeOK, TypeOK', HandsMatchPc, CountInv, Split
             PROVE  CountInv'
  BY SplitTypeInv DEF TypeInv
<1> USE ThreadFacts
<1>1. pc \in [Threads -> Labels]
  BY DEF TypeOK
<1>2. CASE SplitPop
  <2>1. /\ captureReady # <<>> /\ captureReady' = Tail(captureReady)
        /\ UNCHANGED <<split, slotFrame, enqueued, completed>>
    BY <1>2 DEF SplitPop, counterVars
  <2>2. /\ pc["split"] = "pop" /\ pc'["capture"] = pc["capture"]
        /\ pc'["split"] = IF Head(captureReady) = End THEN "end" ELSE "token"
    BY <1>1, <1>2 DEF SplitPop, Goto, At
  <2>3. /\ Publishing' = Publishing /\ Splitting = 0
        /\ Splitting' = IF Head(captureReady) = End THEN 0 ELSE 1
    BY <2>2 DEF Publishing, Splitting
  <2>4. /\ Data(captureReady) = Data(captureReady')
                                + (IF Head(captureReady) = End THEN 0 ELSE 1)
        /\ EndOnlyLast(captureReady')
        /\ NoEnd(captureReady) => NoEnd(captureReady')
    BY <2>1, DataFacts, CountTypes DEF CountInv, EndComesLast
  <2>5. EndComesLast'
    BY <2>2, <2>4 DEF CountInv, EndComesLast, EndOnlyLast, NoEnd
  <2>6. Data(captureReady') \in Nat
    BY DataFacts DEF TypeOK, QueueTypes
  <2>7. Counted'
    BY <2>1, <2>3, <2>4, <2>6, CountTypes DEF CountInv, Counted
  <2> QED
    BY <2>1, <2>5, <2>7 DEF CountInv, Numbered, CompletedWithinCaptured
<1>3. CASE \/ SplitTakeToken \/ SplitFill \/ SplitReturnBuffer
           \/ SplitPublish \/ SplitEnd
  <2>1. UNCHANGED <<captureReady, split, slotFrame, enqueued, completed>>
    BY <1>3 DEF SplitTakeToken, SplitFill, SplitReturnBuffer, SplitPublish,
       SplitEnd, queueVars, splitVars, counterVars
  <2>2. /\ pc'["capture"] = pc["capture"]
        /\ pc'["split"] \in {"slot", "return", "submit"} =>
              pc["split"] \in {"token", "fill", "return"}
        /\ pc'["split"] \in {"slot", "return", "submit", "pop", "done"}
    BY <1>1, <1>3 DEF SplitTakeToken, SplitFill, SplitReturnBuffer,
       SplitPublish, SplitEnd, Goto, At
  <2>3. Publishing' <= Publishing /\ Splitting' <= Splitting
    BY <2>2 DEF Publishing, Splitting
  <2> QED BY <2>1, <2>2, <2>3, CountUntouched
<1>4. CASE SplitTakeSlot
  <2>1. UNCHANGED <<captureReady, split, enqueued, completed>>
    BY <1>4 DEF SplitTakeSlot, counterVars
  <2>2. /\ pc["split"] = "slot" /\ pc'["capture"] = pc["capture"]
    BY <1>1, <1>4 DEF SplitTakeSlot, Goto, At
  <2>3. Publishing' = Publishing /\ Splitting = 1 /\ Splitting' \in {0, 1}
    BY <2>2 DEF Publishing, Splitting
  <2>4. EndComesLast'
    BY <2>1, <2>2 DEF CountInv, EndComesLast, EndOnlyLast, NoEnd
  <2>5. Data(captureReady') = Data(captureReady)
    BY <2>1
  <2>6. Counted'
    BY <2>1, <2>3, <2>5, CountTypes DEF CountInv, Counted
  <2>7. split < enqueued
    BY <2>3, CountTypes DEF CountInv, Counted
  <2>8. \A s \in Slots : slotFrame'[s] \in {slotFrame[s], split}
    <3>1. slotFrame \in [Slots -> Maybe(Nat)]
      BY DEF TypeOK, SplitTypes
    <3> QED BY <1>4, <3>1 DEF SplitTakeSlot
  <2>9. Numbered'
    BY <2>1, <2>7, <2>8 DEF CountInv, Numbered
  <2> QED
    BY <2>1, <2>4, <2>6, <2>9 DEF CountInv, CompletedWithinCaptured
<1>5. CASE SplitSubmit
  <2>1. /\ split' = split + 1
        /\ UNCHANGED <<captureReady, slotFrame, enqueued, completed>>
    BY <1>5 DEF SplitSubmit, queueVars, counterVars
  <2>2. /\ pc["split"] = "submit" /\ pc'["split"] = "publish"
        /\ pc'["capture"] = pc["capture"]
    BY <1>1, <1>5 DEF SplitSubmit, Goto, At
  <2>3. Publishing' = Publishing /\ Splitting = 1 /\ Splitting' = 0
    BY <2>2 DEF Publishing, Splitting
  <2>4. EndComesLast'
    BY <2>1, <2>2 DEF CountInv, EndComesLast, EndOnlyLast, NoEnd
  <2>5. Data(captureReady') = Data(captureReady)
    BY <2>1
  <2>6. Counted'
    BY <2>1, <2>3, <2>5, CountTypes DEF CountInv, Counted
  <2> QED
    BY <2>1, <2>4, <2>6 DEF CountInv, Numbered, CompletedWithinCaptured
<1> QED
  BY <1>2, <1>3, <1>4, <1>5 DEF Split

LEMMA WriterCountInv == TypeInv /\ CountInv /\ Writer => CountInv'
<1> SUFFICES ASSUME TypeOK, TypeOK', CountInv, Writer PROVE CountInv'
  BY WriterTypeInv DEF TypeInv
<1> USE ThreadFacts
<1>1. pc \in [Threads -> Labels]
  BY DEF TypeOK
<1>2. UNCHANGED <<captureReady, split, slotFrame, enqueued>>
  BY DEF Writer, WriterPop, WriterCommit, WriterCount, WriterRelease, WriterDrained,
     queueVars, splitVars, counterVars
<1>3. UNCHANGED <<pc["capture"], pc["split"]>>
  BY <1>1 DEF Writer, WriterPop, WriterCommit, WriterCount, WriterRelease, WriterDrained,
     Goto
<1>4. Publishing' = Publishing /\ Splitting' = Splitting
  BY <1>3 DEF Publishing, Splitting
<1>5. CASE WriterCommit
  <2>1. PICK s \in reorder : slotFrame[s] = completed
    BY <1>5 DEF WriterCommit, NextInOrder
  <2>2. completed < enqueued
    BY <2>1, CountTypes DEF TypeOK, WriterTypes, CountInv, Numbered
  <2>3. completed' = completed + 1
    BY <1>5 DEF WriterCommit
  <2>4. CompletedWithinCaptured'
    BY <1>2, <2>2, <2>3, CountTypes DEF CompletedWithinCaptured
  <2>5. EndComesLast'
    BY <1>2, <1>3 DEF CountInv, EndComesLast, EndOnlyLast, NoEnd
  <2>6. Data(captureReady') = Data(captureReady)
    BY <1>2
  <2>7. Counted'
    BY <1>2, <1>4, <2>6, CountTypes DEF CountInv, Counted
  <2> QED BY <1>2, <2>4, <2>5, <2>7 DEF CountInv, Numbered
<1>6. CASE WriterPop \/ WriterCount \/ WriterRelease \/ WriterDrained
  <2>1. completed' = completed
    BY <1>6 DEF WriterPop, WriterCount, WriterRelease, WriterDrained, counterVars
  <2>2. Publishing' <= Publishing /\ Splitting' <= Splitting
    BY <1>4, CountTypes
  <2> QED BY <1>2, <1>3, <2>1, <2>2, CountUntouched
<1> QED
  BY <1>5, <1>6 DEF Writer

\* The other threads, the GPU and the end of the pass move no frame towards
\* its number.
LEMMA OtherCountInv ==
  ASSUME NEW t \in Threads, NEW w \in Workers
  PROVE  TypeInv /\ CountInv
         /\ (Completion \/ GpuFinish \/ Entropy(w) \/ Throw(t) \/ Cancel(t)
             \/ Join \/ UNCHANGED vars)
         => CountInv'
<1> SUFFICES ASSUME TypeInv, CountInv,
                    Completion \/ GpuFinish \/ Entropy(w) \/ Throw(t)
                    \/ Cancel(t) \/ Join \/ UNCHANGED vars
             PROVE  CountInv'
  OBVIOUS
<1>1. TypeOK /\ TypeOK'
  BY CompletionTypeInv, EntropyTypeInv, EndTypeInv, StutterTypeInv
     DEF TypeInv
<1>2. UNCHANGED <<captureReady, split, slotFrame, enqueued, completed>>
  BY DEF Completion, GpuPop, GpuWait, GpuReturnToken, GpuForward,
     GpuSendEnds, GpuFinish, Entropy, EntropyPop, EntropyEncode, EntropyPush,
     EntropyEnd, Throw, Cancel, Join, vars, queueVars, splitVars, counterVars
<1>3. /\ pc'["capture"] \in {pc["capture"], "cancel", "done"}
      /\ pc["capture"] = "done" => pc'["capture"] = "done"
      /\ pc'["split"] \in {pc["split"], "cancel", "done"}
  <2>1. pc \in [Threads -> Labels]
    BY <1>1 DEF TypeOK
  <2>2. CASE Completion \/ GpuFinish
    BY <2>1, <2>2, ThreadFacts DEF Completion, GpuPop, GpuWait,
       GpuReturnToken, GpuForward, GpuSendEnds, GpuFinish, Goto
  <2>3. CASE Entropy(w)
    BY <2>1, <2>3, ThreadFacts DEF Entropy, EntropyPop, EntropyEncode,
       EntropyPush, EntropyEnd, Goto
  <2>4. CASE Throw(t) \/ Cancel(t)
    BY <2>1, <2>4, ThreadFacts DEF Throw, MayThrow, Cancel, Goto, At
  <2>5. CASE Join \/ UNCHANGED vars
    BY <2>5 DEF Join, vars
  <2> QED BY <2>2, <2>3, <2>4, <2>5
<1>4. Publishing' <= Publishing /\ Splitting' <= Splitting
  BY <1>3 DEF Publishing, Splitting
<1> QED BY <1>1, <1>2, <1>3, <1>4, CountUntouched

LEMMA InitCountInv == Init => CountInv
<1> SUFFICES ASSUME Init PROVE CountInv
  OBVIOUS
<1>1. captureReady = <<>> /\ split = 0 /\ enqueued = 0 /\ completed = 0
  BY DEF Init
<1>2. pc["capture"] = "next" /\ pc["split"] = "pop"
  BY ThreadFacts DEF Init
<1>3. Publishing = 0 /\ Splitting = 0
  BY <1>2 DEF Publishing, Splitting
<1>4. Data(captureReady) = 0 /\ EndComesLast
  BY <1>1 DEF Data, EndComesLast, EndOnlyLast, NoEnd
<1>5. Numbered
  BY PipelineAssumption DEF Init, Numbered
<1> QED
  BY <1>1, <1>3, <1>4, <1>5 DEF CountInv, Counted, CompletedWithinCaptured

LEMMA NextCountInv == TypeInv /\ CountInv /\ [Next]_vars => CountInv'
<1> SUFFICES ASSUME TypeInv, CountInv, [Next]_vars PROVE CountInv'
  OBVIOUS
<1>1. "capture" \in Threads /\ \E w \in Workers : TRUE
  BY ThreadFacts, PipelineAssumption
<1> QED
  BY <1>1, CaptureCountInv, SplitCountInv, WriterCountInv, OtherCountInv
     DEF Next, Finished

LEMMA Invariants == Spec => [](TypeInv /\ CountInv)
<1> QED
  BY InitTypeInv, NextTypeInv, InitCountInv, NextCountInv, PTL DEF Spec

\* However many frames, slots and workers, and whichever stages throw, a
\* frame is complete only after the capture thread has counted it, so the
\* deficit enqueued - completed the display and the record-stop notice are
\* computed from never underflows.
THEOREM CompletedIsCaptured == Spec => []CompletedWithinCaptured
<1>1. TypeInv /\ CountInv => CompletedWithinCaptured
  BY DEF CountInv
<1> QED BY Invariants, <1>1, PTL

-----------------------------------------------------------------------------
(* The notices about power.                                                *)

Ended == {"stopped", "stored", "end", "done"}

\* What the capture thread found pending when it stopped is still what it
\* stands for when it is announced, and the writer reads a pending count only
\* once the camera has stopped.
PendingInv ==
    /\ pc["capture"] \in {"stopped", "stored"} /\ pendingSeen = 0 =>
          completed = enqueued
    /\ pendingAtStop # 0 => pc["capture"] \in {"stored", "end", "done"}

NoticeInv == PendingInv /\ SafeToClose

\* Nothing the notices depend on changes: what was said stays true.
LEMMA NoticeUntouched ==
  ASSUME NoticeInv,
         UNCHANGED <<enqueued, completed, pendingSeen, pendingAtStop, notice>>,
         pc'["capture"] \in {"stopped", "stored"} =>
            pc["capture"] \in {"stopped", "stored"},
         pc["capture"] \in Ended => pc'["capture"] \in Ended,
         pc["capture"] \in {"stored", "end", "done"} =>
            pc'["capture"] \in {"stored", "end", "done"}
  PROVE  NoticeInv'
  BY DEF NoticeInv, PendingInv, SafeToClose, Stopped, Ended

LEMMA CaptureNoticeInv ==
  TypeInv /\ CountInv /\ NoticeInv /\ Capture => NoticeInv'
<1> SUFFICES ASSUME TypeOK, CountInv, NoticeInv, Capture PROVE NoticeInv'
  BY DEF TypeInv
<1> USE ThreadFacts
<1>1. pc \in [Threads -> Labels]
  BY DEF TypeOK
<1>2. enqueued \in Nat /\ completed \in Nat /\ completed <= enqueued
  BY CountTypes DEF CountInv, CompletedWithinCaptured
<1>3. CASE \/ CaptureTryPop \/ CaptureAllocate \/ CaptureUnblock
           \/ CapturePublish \/ CaptureEnd
  <2>1. UNCHANGED <<enqueued, completed, pendingSeen, pendingAtStop, notice>>
    BY <1>3 DEF CaptureTryPop, CaptureAllocate, CaptureUnblock,
       CapturePublish, CaptureEnd, counterVars
  <2>2. \/ pc["capture"] \notin Ended /\ pc'["capture"] \notin Ended
        \/ pc["capture"] = "end" /\ pc'["capture"] = "done"
    BY <1>1, <1>3 DEF CaptureTryPop, CaptureAllocate, CaptureUnblock,
       CapturePublish, CaptureEnd, Goto, At, Ended
  <2> QED BY <2>1, <2>2, NoticeUntouched DEF Ended
<1>4. CASE CaptureFill
  <2>1. pc["capture"] = "fill" /\ pc'["capture"] = "push"
    BY <1>1, <1>4 DEF CaptureFill, Goto, At
  <2>2. UNCHANGED <<pendingAtStop, notice>>
    BY <1>4 DEF CaptureFill
  <2> QED BY <2>1, <2>2 DEF NoticeInv, PendingInv, SafeToClose, Stopped
<1>5. CASE CaptureStop
  <2>1. pc["capture"] = "next" /\ pc'["capture"] = "stopped"
    BY <1>1, <1>5 DEF CaptureStop, Goto, At
  <2>2. /\ pendingSeen' = NonnegativeDifference(enqueued, completed)
        /\ UNCHANGED <<enqueued, completed, pendingAtStop, notice>>
    BY <1>5 DEF CaptureStop
  <2>3. NonnegativeDifference(enqueued, completed) = 0 => completed = enqueued
    BY <1>2 DEF NonnegativeDifference
  <2> QED BY <2>1, <2>2, <2>3 DEF NoticeInv, PendingInv, SafeToClose, Stopped
<1>6. CASE CaptureStoreStop
  <2>1. pc["capture"] = "stopped" /\ pc'["capture"] = "stored"
    BY <1>1, <1>6 DEF CaptureStoreStop, Goto, At
  <2>2. UNCHANGED <<enqueued, completed, pendingSeen, notice>>
    BY <1>6 DEF CaptureStoreStop
  <2> QED BY <2>1, <2>2 DEF NoticeInv, PendingInv, SafeToClose, Stopped
<1>7. CASE CaptureAnnounceStop
  <2>1. pc["capture"] = "stored" /\ pc'["capture"] = "end"
    BY <1>1, <1>7 DEF CaptureAnnounceStop, Goto, At
  <2>2. /\ notice' = IF pendingSeen > 0 THEN "keep power" ELSE "safe to close"
        /\ UNCHANGED <<enqueued, completed>>
    BY <1>7 DEF CaptureAnnounceStop
  <2>3. ~(pendingSeen > 0) => pendingSeen = 0
    <3>1. pendingSeen \in Nat
      BY DEF TypeOK, CounterTypes
    <3> QED BY ONLY <3>1
  <2> QED
    BY <2>1, <2>2, <2>3 DEF NoticeInv, PendingInv, SafeToClose, Stopped
<1> QED
  BY <1>3, <1>4, <1>5, <1>6, <1>7 DEF Capture

LEMMA WriterNoticeInv ==
  TypeInv /\ CountInv /\ NoticeInv /\ Writer => NoticeInv'
<1> SUFFICES ASSUME TypeOK, CountInv, NoticeInv, Writer, CountInv'
             PROVE  NoticeInv'
  BY WriterCountInv DEF TypeInv
<1> USE ThreadFacts
<1>1. pc'["capture"] = pc["capture"]
  BY DEF TypeOK, Writer, WriterPop, WriterCommit, WriterCount, WriterRelease,
     WriterDrained, Goto
<1>2. UNCHANGED <<enqueued, pendingSeen, pendingAtStop>>
  BY DEF Writer, WriterPop, WriterCommit, WriterCount, WriterRelease, WriterDrained,
     counterVars
<1>3. enqueued \in Nat /\ completed \in Nat /\ completed <= enqueued
  BY CountTypes DEF CountInv, CompletedWithinCaptured
<1>4. CASE WriterPop \/ WriterDrained \/ WriterCount
  <2>1. UNCHANGED <<completed, notice>>
    BY <1>4 DEF WriterPop, WriterDrained, WriterCount, counterVars
  <2> QED BY <1>1, <1>2, <2>1, NoticeUntouched
<1>5. CASE WriterCommit
  <2>1. completed' = completed + 1 /\ notice' = notice
    BY <1>5 DEF WriterCommit
  <2>2. completed # enqueued
    BY <1>2, <1>3, <2>1 DEF CountInv, CompletedWithinCaptured
  <2> QED
    BY <1>1, <1>2, <2>1, <2>2 DEF NoticeInv, PendingInv, SafeToClose, Stopped
<1>6. CASE WriterRelease
  <2>1. completed' = completed
    BY <1>6 DEF WriterRelease
  <2>2. CASE notice' = notice
    BY <1>1, <1>2, <2>1, <2>2, NoticeUntouched
  <2>3. CASE notice' # notice
    <3>1. notice' = "power may be removed" /\ pendingAtStop > 0
      BY <1>6, <2>3 DEF WriterRelease
    <3>5. pendingAtStop # 0
      <4>1. pendingAtStop \in Nat
        BY DEF TypeOK, CounterTypes
      <4>2. pendingAtStop > 0
        BY <3>1
      <4> QED BY ONLY <4>1, <4>2
    <3>2. pc["capture"] \in {"stored", "end", "done"}
      BY <3>5 DEF NoticeInv, PendingInv
    <3>3. notice' # "safe to close"
      BY <3>1
    <3>4. Stopped'
      BY <1>1, <3>2 DEF Stopped
    <3> QED
      BY <1>1, <1>2, <2>1, <3>3, <3>4 DEF NoticeInv, PendingInv, SafeToClose
  <2> QED BY <2>2, <2>3
<1> QED
  BY <1>4, <1>5, <1>6 DEF Writer

LEMMA OtherNoticeInv ==
  ASSUME NEW t \in Threads, NEW w \in Workers
  PROVE  TypeInv /\ NoticeInv
         /\ (Split \/ Completion \/ GpuFinish \/ Entropy(w) \/ Throw(t)
             \/ Cancel(t) \/ Join \/ UNCHANGED vars)
         => NoticeInv'
<1> SUFFICES ASSUME TypeOK, NoticeInv,
                    Split \/ Completion \/ GpuFinish \/ Entropy(w) \/ Throw(t)
                    \/ Cancel(t) \/ Join \/ UNCHANGED vars
             PROVE  NoticeInv'
  BY DEF TypeInv
<1>1. UNCHANGED <<enqueued, completed, pendingSeen, pendingAtStop, notice>>
  BY DEF Split, SplitPop, SplitTakeToken, SplitTakeSlot, SplitFill,
     SplitReturnBuffer, SplitSubmit, SplitPublish, SplitEnd, Completion,
     GpuPop, GpuWait, GpuReturnToken, GpuForward, GpuSendEnds, GpuFinish,
     Entropy, EntropyPop, EntropyEncode, EntropyPush, EntropyEnd, Throw,
     Cancel, Join, vars, counterVars
<1>2. \/ pc'["capture"] = pc["capture"]
      \/ pc["capture"] = "alloc" /\ pc'["capture"] = "cancel"
      \/ pc["capture"] = "cancel" /\ pc'["capture"] = "done"
  <2>1. pc \in [Threads -> Labels]
    BY DEF TypeOK
  <2>2. CASE Split
    BY <2>1, <2>2, ThreadFacts DEF Split, SplitPop, SplitTakeToken,
       SplitTakeSlot, SplitFill, SplitReturnBuffer, SplitSubmit,
       SplitPublish, SplitEnd, Goto
  <2>3. CASE Completion \/ GpuFinish
    BY <2>1, <2>3, ThreadFacts DEF Completion, GpuPop, GpuWait,
       GpuReturnToken, GpuForward, GpuSendEnds, GpuFinish, Goto
  <2>4. CASE Entropy(w)
    BY <2>1, <2>4, ThreadFacts DEF Entropy, EntropyPop, EntropyEncode,
       EntropyPush, EntropyEnd, Goto
  <2>5. CASE Throw(t) \/ Cancel(t)
    BY <2>1, <2>5, ThreadFacts DEF Throw, MayThrow, Cancel, Goto, At
  <2>6. CASE Join \/ UNCHANGED vars
    BY <2>6 DEF Join, vars
  <2> QED BY <2>2, <2>3, <2>4, <2>5, <2>6
<1> QED BY <1>1, <1>2, NoticeUntouched DEF Ended

LEMMA InitNoticeInv == Init => NoticeInv
  BY ThreadFacts DEF Init, NoticeInv, PendingInv, SafeToClose, Stopped

LEMMA NextNoticeInv ==
  TypeInv /\ CountInv /\ NoticeInv /\ [Next]_vars => NoticeInv'
<1> SUFFICES ASSUME TypeInv, CountInv, NoticeInv, [Next]_vars
             PROVE  NoticeInv'
  OBVIOUS
<1>1. "capture" \in Threads /\ \E w \in Workers : TRUE
  BY ThreadFacts, PipelineAssumption
<1> QED
  BY <1>1, CaptureNoticeInv, WriterNoticeInv, OtherNoticeInv
     DEF Next, Finished

\* Whatever the sizes and whichever stages throw, the operator is told that
\* it is safe to close only when every captured frame is committed, and
\* neither that nor the end of the drain before the camera has stopped.
THEOREM SafeToCloseIsTrue == Spec => []SafeToClose
<1>1. Spec => []NoticeInv
  BY Invariants, InitNoticeInv, NextNoticeInv, PTL DEF Spec
<1>2. NoticeInv => SafeToClose
  BY DEF NoticeInv
<1> QED BY <1>1, <1>2, PTL

-----------------------------------------------------------------------------
(* Ownership of slots and buffers, and the order of the frames.            *)

\* Where a processing slot can be: with the device's stages, or beyond them.
InFree(s)    == Held(s \in freeq)
InSplit(s)   == Held(splitSlot = s)
InGpuq(s)    == Occurrences(s, gpuq)
InGpu(s)     == Held(gpuSlot = s)
InEntq(s)    == Occurrences(s, entq)
InWork(s)    == Cardinality({w \in Workers : work[w] = s})
InWriteq(s)  == Occurrences(s, writeq)
InReorder(s) == Held(s \in reorder)
InWriting(s) == Held(writing = s)

Beyond(s) == InFree(s) + InEntq(s) + InWork(s) + InWriteq(s) + InReorder(s)
             + InWriting(s)

\* A failure precedes every closed queue and every cancelling stage.
FailedFirst == (closed > 0 \/ \E t \in Threads : pc[t] = "cancel")
                  => outcome # "running"

\* A thread that is about to take a slot or a buffer has none.
EmptyHands ==
    /\ pc["capture"] \in {"next", "alloc", "blocked"} => camera = Nil
    /\ pc["split"] \in {"pop", "submit", "publish"} => splitBuf = Nil
    /\ pc["split"] \in {"pop", "token", "slot"} => splitSlot = Nil
    /\ pc["gpu"] = "pop" => gpuSlot = Nil
    /\ \A w \in Workers : pc[w] = "pop" => work[w] = Nil
    /\ pc["writer"] \in {"pop", "drain"} => writing = Nil

SlotsOwned == \A s \in Slots :
    /\ SlotHolders(s) <= 1
    /\ outcome = "running" => SlotHolders(s) = 1

BuffersOwned == \A b \in Buffers :
    /\ BufferHolders(b) <= 1
    /\ outcome = "running" /\ (b \in NormalBuffers \/ captureBuf[b] # Nil)
         => BufferHolders(b) = 1

\* The device works on nothing that has left the completion stage.
InFlight ==
    /\ \A s \in gpuBusy : Beyond(s) = 0
    /\ pc["gpu"] \in {"token", "forward"} => gpuSlot \notin gpuBusy

OwnInv == FailedFirst /\ EmptyHands /\ SlotsOwned /\ BuffersOwned /\ InFlight

-----------------------------------------------------------------------------
(* Counting.                                                               *)

Places(x, q) == {i \in DOMAIN q : q[i] = x}

LEMMA OccurrencesType ==
  ASSUME NEW S, NEW q \in Seq(S), NEW x
  PROVE  /\ IsFiniteSet(Places(x, q))
         /\ Occurrences(x, q) = Cardinality(Places(x, q))
         /\ Occurrences(x, q) \in Nat
<1>1. IsFiniteSet(DOMAIN q)
  BY FS_Interval
<1>2. IsFiniteSet(Places(x, q))
  BY <1>1, FS_Subset DEF Places
<1>3. Occurrences(x, q) = Cardinality(Places(x, q))
  BY DEF Occurrences, Places
<1> QED BY <1>2, <1>3, FS_CardinalityType

LEMMA OccurrencesEmpty == \A x : Occurrences(x, <<>>) = 0
<1>1. \A x : {i \in DOMAIN <<>> : <<>>[i] = x} = {}
  OBVIOUS
<1> QED BY <1>1, FS_EmptySet DEF Occurrences

LEMMA OccurrencesAppend ==
  ASSUME NEW S, NEW q \in Seq(S), NEW e \in S, NEW x
  PROVE  Occurrences(x, Append(q, e)) =
            Occurrences(x, q) + (IF e = x THEN 1 ELSE 0)
<1>1. /\ Len(q) \in Nat /\ DOMAIN q = 1..Len(q)
      /\ DOMAIN Append(q, e) = 1..(Len(q) + 1)
      /\ \A i \in 1..Len(q) : Append(q, e)[i] = q[i]
      /\ Append(q, e)[Len(q) + 1] = e
      /\ Append(q, e) \in Seq(S)
  OBVIOUS
<1>2. \A i \in 1..(Len(q) + 1) : i \in 1..Len(q) \/ i = Len(q) + 1
  BY <1>1
<1>3. Len(q) + 1 \notin 1..Len(q) /\ 1..Len(q) \subseteq 1..(Len(q) + 1)
      /\ Len(q) + 1 \in 1..(Len(q) + 1)
  BY <1>1
<1>4. CASE e = x
  <2>1. Places(x, Append(q, e)) = Places(x, q) \cup {Len(q) + 1}
        /\ Len(q) + 1 \notin Places(x, q)
    BY <1>1, <1>2, <1>3, <1>4 DEF Places
  <2>2. Cardinality(Places(x, Append(q, e))) = Cardinality(Places(x, q)) + 1
    BY <2>1, OccurrencesType, FS_AddElement
  <2> QED BY <1>1, <1>4, <2>2, OccurrencesType
<1>5. CASE e # x
  <2>1. Places(x, Append(q, e)) = Places(x, q)
    BY <1>1, <1>2, <1>3, <1>5 DEF Places
  <2>2. Occurrences(x, Append(q, e)) = Occurrences(x, q)
    BY <2>1 DEF Occurrences, Places
  <2> QED BY <1>5, <2>2, OccurrencesType
<1> QED BY <1>4, <1>5

LEMMA OccurrencesTail ==
  ASSUME NEW S, NEW q \in Seq(S), q # <<>>, NEW x
  PROVE  Occurrences(x, q) =
            Occurrences(x, Tail(q)) + (IF Head(q) = x THEN 1 ELSE 0)
<1> DEFINE P == Places(x, q)
           T == Places(x, Tail(q))
           f == [i \in T |-> i + 1]
<1>1. /\ Len(q) \in Nat \ {0} /\ DOMAIN q = 1..Len(q) /\ Head(q) = q[1]
      /\ DOMAIN Tail(q) = 1..(Len(q) - 1)
      /\ \A i \in 1..(Len(q) - 1) : Tail(q)[i] = q[i + 1]
      /\ Tail(q) \in Seq(S)
  OBVIOUS
<1>2. \A i \in 1..(Len(q) - 1) : i + 1 \in 1..Len(q) \ {1}
  BY <1>1
<1>3. \A i \in 1..Len(q) \ {1} : \E j \in 1..(Len(q) - 1) : j + 1 = i
  <2> SUFFICES ASSUME NEW i \in 1..Len(q) \ {1}
               PROVE  i - 1 \in 1..(Len(q) - 1) /\ (i - 1) + 1 = i
    OBVIOUS
  <2> QED BY <1>1
<1>4. \A i, j \in 1..(Len(q) - 1) : i + 1 = j + 1 => i = j
  BY <1>1
<1>5. f \in Bijection(T, P \ {1})
  <2>1. f \in [T -> P \ {1}]
    BY <1>1, <1>2 DEF Places
  <2>2. \A i, j \in T : f[i] = f[j] => i = j
    BY <1>1, <1>4 DEF Places
  <2>3. \A i \in P \ {1} : \E j \in T : f[j] = i
    BY <1>1, <1>3 DEF Places
  <2> QED BY <2>1, <2>2, <2>3 DEF Bijection, Injection, IsInjective, Surjection
<1>6. /\ IsFiniteSet(T) /\ IsFiniteSet(P)
      /\ Occurrences(x, q) = Cardinality(P) /\ Cardinality(P) \in Nat
      /\ Occurrences(x, Tail(q)) = Cardinality(T) /\ Cardinality(T) \in Nat
  BY <1>1, OccurrencesType
<1>7. Cardinality(P \ {1}) = Cardinality(T)
  <2>1. ExistsBijection(T, P \ {1})
    BY <1>5 DEF ExistsBijection
  <2> QED BY <1>6, <2>1, FS_Bijection
<1>8. 1 \in P <=> Head(q) = x
  <2>1. 1 \in 1..Len(q)
    BY <1>1
  <2> QED BY <1>1, <2>1 DEF Places
<1> HIDE DEF P, T
<1>9. Cardinality(P \ {1}) = IF 1 \in P THEN Cardinality(P) - 1 ELSE Cardinality(P)
  BY <1>6, FS_RemoveElement
<1> QED BY <1>6, <1>7, <1>8, <1>9

\* Every term of a count is a number.
LEMMA SlotTerms ==
  ASSUME TypeOK, NEW s \in Slots
  PROVE  /\ InFree(s) \in {0, 1} /\ InSplit(s) \in {0, 1} /\ InGpu(s) \in {0, 1}
         /\ InReorder(s) \in {0, 1} /\ InWriting(s) \in {0, 1}
         /\ InGpuq(s) \in Nat /\ InEntq(s) \in Nat /\ InWriteq(s) \in Nat
         /\ InWork(s) \in Nat
         /\ SlotHolders(s) = Beyond(s) + InSplit(s) + InGpuq(s) + InGpu(s)
         /\ Beyond(s) \in Nat
<1>1. /\ InFree(s) \in {0, 1} /\ InSplit(s) \in {0, 1} /\ InGpu(s) \in {0, 1}
      /\ InReorder(s) \in {0, 1} /\ InWriting(s) \in {0, 1}
  BY DEF Held, InFree, InSplit, InGpu, InReorder, InWriting
<1>2. InGpuq(s) \in Nat /\ InEntq(s) \in Nat /\ InWriteq(s) \in Nat
  BY OccurrencesType DEF TypeOK, QueueTypes, InGpuq, InEntq, InWriteq
<1>3. InWork(s) \in Nat
  BY PipelineAssumption, FS_Subset, FS_CardinalityType DEF InWork
<1>4. SlotHolders(s) = InFree(s) + InSplit(s) + InGpuq(s) + InGpu(s) + InEntq(s)
                       + InWork(s) + InWriteq(s) + InReorder(s) + InWriting(s)
  BY DEF SlotHolders, InFree, InSplit, InGpuq, InGpu, InEntq, InWork, InWriteq,
     InReorder, InWriting
<1>5. /\ SlotHolders(s) = Beyond(s) + InSplit(s) + InGpuq(s) + InGpu(s)
      /\ Beyond(s) \in Nat
  BY <1>1, <1>2, <1>3, <1>4 DEF Beyond
<1> QED BY <1>1, <1>2, <1>3, <1>5

\* So they are after a step.
LEMMA SlotTermsNext ==
  ASSUME TypeOK', NEW s \in Slots
  PROVE  /\ InFree(s)' \in {0, 1} /\ InSplit(s)' \in {0, 1} /\ InGpu(s)' \in {0, 1}
         /\ InReorder(s)' \in {0, 1} /\ InWriting(s)' \in {0, 1}
         /\ InGpuq(s)' \in Nat /\ InEntq(s)' \in Nat /\ InWriteq(s)' \in Nat
         /\ InWork(s)' \in Nat
         /\ SlotHolders(s)' = Beyond(s)' + InSplit(s)' + InGpuq(s)' + InGpu(s)'
         /\ Beyond(s)' \in Nat
<1>1. /\ InFree(s)' \in {0, 1} /\ InSplit(s)' \in {0, 1} /\ InGpu(s)' \in {0, 1}
      /\ InReorder(s)' \in {0, 1} /\ InWriting(s)' \in {0, 1}
  BY DEF Held, InFree, InSplit, InGpu, InReorder, InWriting
<1>2. InGpuq(s)' \in Nat /\ InEntq(s)' \in Nat /\ InWriteq(s)' \in Nat
  BY OccurrencesType DEF TypeOK, QueueTypes, InGpuq, InEntq, InWriteq
<1>3. InWork(s)' \in Nat
  BY PipelineAssumption, FS_Subset, FS_CardinalityType DEF InWork
<1>4. SlotHolders(s)' = InFree(s)' + InSplit(s)' + InGpuq(s)' + InGpu(s)' + InEntq(s)'
                       + InWork(s)' + InWriteq(s)' + InReorder(s)' + InWriting(s)'
  BY DEF SlotHolders, InFree, InSplit, InGpuq, InGpu, InEntq, InWork, InWriteq,
     InReorder, InWriting
<1>5. /\ SlotHolders(s)' = Beyond(s)' + InSplit(s)' + InGpuq(s)' + InGpu(s)'
      /\ Beyond(s)' \in Nat
  BY <1>1, <1>2, <1>3, <1>4 DEF Beyond
<1> QED BY <1>1, <1>2, <1>3, <1>5

LEMMA BeyondKept ==
  ASSUME NEW s \in Slots, UNCHANGED <<freeq, entq, work, writeq, reorder, writing>>
  PROVE  Beyond(s)' = Beyond(s)
  BY DEF Beyond, InFree, InEntq, InWork, InWriteq, InReorder, InWriting, Occurrences

-----------------------------------------------------------------------------
(* A step that moves a slot: nothing changes for the others, and the one    *)
(* that moves is lost only by a pass that has failed.                       *)

SlotStep(s) ==
    /\ \/ SlotHolders(s)' = SlotHolders(s)
       \/ SlotHolders(s)' <= SlotHolders(s) /\ outcome' # "running"
    /\ Beyond(s) = 0 /\ s \in gpuBusy' => Beyond(s)' = 0

LEMMA TakeSlotStep ==
  ASSUME TypeOK, TypeOK', OwnInv, SplitTakeSlot, NEW s \in Slots
  PROVE  SlotStep(s)
<1>1. UNCHANGED <<gpuq, gpuSlot, entq, work, writeq, reorder, writing, gpuBusy, outcome>>
  BY DEF SplitTakeSlot, gpuVars, writerVars
<1>2. /\ InGpuq(s)' = InGpuq(s) /\ InGpu(s)' = InGpu(s) /\ InEntq(s)' = InEntq(s)
      /\ InWork(s)' = InWork(s) /\ InWriteq(s)' = InWriteq(s)
      /\ InReorder(s)' = InReorder(s) /\ InWriting(s)' = InWriting(s)
  BY <1>1 DEF InGpuq, InGpu, InEntq, InWork, InWriteq, InReorder, InWriting, Occurrences
<1>3. CASE UNCHANGED <<freeq, splitSlot>>
  <2>1. InFree(s)' = InFree(s) /\ InSplit(s)' = InSplit(s)
    BY <1>3 DEF InFree, InSplit
  <2> QED BY <1>2, <2>1, SlotTerms, SlotTermsNext DEF SlotStep, Beyond
<1>4. CASE \E m \in freeq : freeq' = freeq \ {m} /\ splitSlot' = m
  <2>1. splitSlot = Nil
    BY DEF OwnInv, EmptyHands, SplitTakeSlot, At
  <2>2. InFree(s)' + InSplit(s)' = InFree(s) + InSplit(s) /\ InFree(s)' <= InFree(s)
    BY <1>4, <2>1, PipelineAssumption DEF InFree, InSplit, Held, TypeOK, QueueTypes
  <2> QED BY <1>2, <2>2, SlotTerms, SlotTermsNext DEF SlotStep, Beyond
<1> QED BY <1>3, <1>4 DEF SplitTakeSlot
\* What the queues between the stages hold.
LEMMA SlotQueues ==
  TypeOK => /\ gpuq \in Seq(Slots \cup {End})
            /\ entq \in Seq(Slots \cup {End})
            /\ writeq \in Seq(Slots \cup {End})
            /\ closed \in Nat
  BY DEF TypeOK, QueueTypes

\* A queue gains or loses nothing but the element a step names.
LEMMA Pushed ==
  ASSUME NEW s \in Slots, NEW q \in Seq(Slots \cup {End})
  PROVE  /\ \A e \in Slots : Occurrences(s, Append(q, e)) = Occurrences(s, q) + Held(e = s)
         /\ Occurrences(s, Append(q, End)) = Occurrences(s, q)
<1>1. \A e \in Slots \cup {End} :
         Occurrences(s, Append(q, e)) = Occurrences(s, q) + (IF e = s THEN 1 ELSE 0)
  BY OccurrencesAppend
<1>2. End # s /\ Occurrences(s, q) \in Nat
  BY PipelineAssumption, OccurrencesType
<1> QED BY <1>1, <1>2 DEF Held

LEMMA Popped ==
  ASSUME NEW s \in Slots, NEW q \in Seq(Slots \cup {End}), q # <<>>
  PROVE  /\ Occurrences(s, q) = Occurrences(s, Tail(q)) + Held(Head(q) = s)
         /\ Head(q) = End => Occurrences(s, Tail(q)) = Occurrences(s, q)
<1>1. Occurrences(s, q) = Occurrences(s, Tail(q)) + (IF Head(q) = s THEN 1 ELSE 0)
  BY OccurrencesTail
<1>2. End # s /\ Occurrences(s, Tail(q)) \in Nat
  BY PipelineAssumption, OccurrencesType, QueueFacts
<1> QED BY <1>1, <1>2 DEF Held

\* A worker's hand changes.
LEMMA WorkAssigned ==
  ASSUME TypeOK, TypeOK', NEW s \in Slots, NEW w \in Workers, NEW v,
         work' = [work EXCEPT ![w] = v]
  PROVE  InWork(s)' + Held(work[w] = s) = InWork(s) + Held(v = s)
<1> DEFINE W  == {x \in Workers : work[x] = s}
           W1 == {x \in Workers : work'[x] = s}
           R  == {x \in Workers \ {w} : work[x] = s}
<1>1. IsFiniteSet(R) /\ w \notin R
  BY PipelineAssumption, FS_Subset
<1>2. Cardinality(R) \in Nat /\ Cardinality(R \cup {w}) = Cardinality(R) + 1
  <2> HIDE DEF R
  <2> QED BY <1>1, FS_CardinalityType, FS_AddElement
<1>3. W = IF work[w] = s THEN R \cup {w} ELSE R
  OBVIOUS
<1>4. W1 = IF v = s THEN R \cup {w} ELSE R
  BY DEF TypeOK, EntropyTypes
<1>5. InWork(s) = Cardinality(W) /\ InWork(s)' = Cardinality(W1)
  BY DEF InWork
<1> HIDE DEF R, W, W1
<1>6. /\ Cardinality(W) = Cardinality(R) + Held(work[w] = s)
      /\ Cardinality(W1) = Cardinality(R) + Held(v = s)
  BY <1>2, <1>3, <1>4 DEF Held
<1>7. Held(work[w] = s) \in Nat /\ Held(v = s) \in Nat
  BY DEF Held
<1> QED BY <1>2, <1>5, <1>6, <1>7

\* A step that leaves every place alone moves no slot.
LEMMA SlotsUntouched ==
  ASSUME UNCHANGED <<freeq, splitSlot, gpuq, gpuSlot, entq, work, writeq,
                     reorder, writing>>,
         NEW s \in Slots
  PROVE  SlotStep(s)
<1>1. SlotHolders(s)' = SlotHolders(s)
  BY DEF SlotHolders, Occurrences
<1> QED BY <1>1, BeyondKept DEF SlotStep

LEMMA SplitSlotStep ==
  ASSUME TypeOK, TypeOK', HandsMatchPc, OwnInv, Split, NEW s \in Slots
  PROVE  SlotStep(s)
<1>1. CASE SplitTakeSlot
  BY <1>1, TakeSlotStep
<1>2. CASE SplitPop \/ SplitTakeToken \/ SplitFill \/ SplitReturnBuffer \/ SplitSubmit
  BY <1>2, SlotsUntouched DEF SplitPop, SplitTakeToken, SplitFill,
     SplitReturnBuffer, SplitSubmit, gpuVars, writerVars, entropyVars,
     queueVars, splitVars
<1>3. CASE SplitPublish
  <2>1. UNCHANGED <<freeq, gpuSlot, entq, work, writeq, reorder, writing, outcome>>
    BY <1>3 DEF SplitPublish, gpuVars, entropyVars, writerVars
  <2>2. /\ InFree(s)' = InFree(s) /\ InGpu(s)' = InGpu(s) /\ InEntq(s)' = InEntq(s)
        /\ InWork(s)' = InWork(s) /\ InWriteq(s)' = InWriteq(s)
        /\ InReorder(s)' = InReorder(s) /\ InWriting(s)' = InWriting(s)
    BY <2>1 DEF InFree, InGpu, InEntq, InWork, InWriteq, InReorder, InWriting,
       Occurrences
  <2>3. InSplit(s)' = 0 /\ InSplit(s) = Held(splitSlot = s)
    BY <1>3, PipelineAssumption DEF SplitPublish, InSplit, Held
  <2>4. CASE gpuq' = Append(gpuq, splitSlot)
    <3>1. InGpuq(s)' = InGpuq(s) + InSplit(s)
      <4>1. splitSlot \in Slots
        BY <1>3 DEF HandsMatchPc, SplitPublish, At
      <4>2. Occurrences(s, Append(gpuq, splitSlot))
               = Occurrences(s, gpuq) + Held(splitSlot = s)
        BY <4>1, Pushed, SlotQueues
      <4> QED BY <2>3, <2>4, <4>2 DEF InGpuq
    <3> QED BY <2>2, <2>3, <3>1, SlotTerms, SlotTermsNext DEF SlotStep, Beyond
  <2>5. CASE GpuqClosed /\ UNCHANGED gpuq
    <3>1. outcome' # "running"
      <4>1. closed \in Nat /\ closed >= 3
        BY <2>5, SlotQueues DEF GpuqClosed
      <4>2. closed > 0
        BY ONLY <4>1
      <4> QED BY <2>1, <4>2 DEF OwnInv, FailedFirst
    <3>2. InGpuq(s)' = InGpuq(s)
      BY <2>5 DEF InGpuq, Occurrences
    <3> QED BY <2>2, <2>3, <3>1, <3>2, SlotTerms, SlotTermsNext DEF SlotStep, Beyond
  <2> QED BY <1>3, <2>4, <2>5 DEF SplitPublish
<1>4. CASE SplitEnd
  <2>1. UNCHANGED <<freeq, splitSlot, gpuSlot, entq, work, writeq, reorder, writing>>
    BY <1>4 DEF SplitEnd, splitVars, gpuVars, entropyVars, writerVars
  <2>2. /\ InFree(s)' = InFree(s) /\ InSplit(s)' = InSplit(s) /\ InGpu(s)' = InGpu(s)
        /\ Beyond(s)' = Beyond(s)
    BY <2>1, BeyondKept DEF InFree, InSplit, InGpu
  <2>3. InGpuq(s)' = InGpuq(s)
    <3>1. CASE gpuq' = Append(gpuq, End)
      <4>1. Occurrences(s, Append(gpuq, End)) = Occurrences(s, gpuq)
        BY Pushed, SlotQueues
      <4> QED BY <3>1, <4>1 DEF InGpuq
    <3>2. CASE UNCHANGED gpuq
      BY <3>2 DEF InGpuq, Occurrences
    <3> QED BY <1>4, <3>1, <3>2 DEF SplitEnd
  <2> QED BY <2>2, <2>3, SlotTerms, SlotTermsNext DEF SlotStep
<1> QED BY <1>1, <1>2, <1>3, <1>4 DEF Split

LEMMA CompletionSlotStep ==
  ASSUME TypeOK, TypeOK', HandsMatchPc, OwnInv, Completion, NEW s \in Slots
  PROVE  SlotStep(s)
<1>1. UNCHANGED <<freeq, splitSlot, work, writeq, reorder, writing, gpuBusy, outcome>>
  BY DEF Completion, GpuPop, GpuWait, GpuReturnToken, GpuForward, GpuSendEnds,
     splitVars, gpuVars, entropyVars, writerVars, queueVars
<1>2. /\ InFree(s)' = InFree(s) /\ InSplit(s)' = InSplit(s)
      /\ InWork(s)' = InWork(s) /\ InWriteq(s)' = InWriteq(s)
      /\ InReorder(s)' = InReorder(s) /\ InWriting(s)' = InWriting(s)
  BY <1>1 DEF InFree, InSplit, InWork, InWriteq, InReorder, InWriting, Occurrences
<1>3. CASE GpuWait \/ GpuReturnToken
  BY <1>3, SlotsUntouched DEF GpuWait, GpuReturnToken, splitVars, gpuVars,
     entropyVars, writerVars, queueVars
<1>4. CASE GpuPop
  <2>1. InEntq(s)' = InEntq(s)
    BY <1>4 DEF GpuPop, InEntq, Occurrences
  <2>2. InGpuq(s)' + InGpu(s)' = InGpuq(s) + InGpu(s)
    <3>1. CASE gpuq = <<>>
      <4>1. UNCHANGED <<gpuq, gpuSlot>>
        BY <1>4, <3>1 DEF GpuPop
      <4> QED BY <4>1 DEF InGpuq, InGpu, Occurrences
    <3>2. CASE gpuq # <<>> /\ Head(gpuq) = End
      <4>1. gpuq' = Tail(gpuq) /\ gpuSlot' = gpuSlot
        BY <1>4, <3>2 DEF GpuPop
      <4>2. Occurrences(s, Tail(gpuq)) = Occurrences(s, gpuq)
        BY <3>2, Popped, SlotQueues
      <4> QED BY <4>1, <4>2 DEF InGpuq, InGpu
    <3>3. CASE gpuq # <<>> /\ Head(gpuq) # End
      <4>1. gpuq' = Tail(gpuq) /\ gpuSlot' = Head(gpuq)
        BY <1>4, <3>3 DEF GpuPop
      <4>2. Occurrences(s, gpuq) = Occurrences(s, Tail(gpuq)) + Held(Head(gpuq) = s)
        BY <3>3, Popped, SlotQueues
      <4>3. gpuSlot = Nil
        BY <1>4 DEF GpuPop, At, OwnInv, EmptyHands
      <4>4. InGpu(s) = 0 /\ InGpu(s)' = Held(Head(gpuq) = s)
        BY <4>1, <4>3, PipelineAssumption DEF InGpu, Held
      <4>5. InGpuq(s) = InGpuq(s)' + Held(Head(gpuq) = s)
        BY <4>1, <4>2 DEF InGpuq
      <4> QED BY <4>4, <4>5, SlotTerms, SlotTermsNext
    <3> QED BY <3>1, <3>2, <3>3
  <2> QED BY <1>2, <2>1, <2>2, SlotTerms, SlotTermsNext DEF SlotStep, Beyond
<1>5. CASE GpuForward
  <2>1. InGpuq(s)' = InGpuq(s)
    BY <1>5 DEF GpuForward, InGpuq, Occurrences
  <2>2. InGpu(s) = Held(gpuSlot = s) /\ InGpu(s)' = 0
    BY <1>5, PipelineAssumption DEF GpuForward, InGpu, Held
  <2>3. gpuSlot \in Slots /\ gpuSlot \notin gpuBusy
    BY <1>5 DEF GpuForward, At, HandsMatchPc, OwnInv, InFlight
  <2>4. s \in gpuBusy' => InGpu(s) = 0
    BY <1>1, <2>2, <2>3 DEF Held
  <2>5. CASE entq' = Append(entq, gpuSlot)
    <3>1. Occurrences(s, Append(entq, gpuSlot)) = Occurrences(s, entq) + Held(gpuSlot = s)
      BY <2>3, Pushed, SlotQueues
    <3>2. InEntq(s)' = InEntq(s) + InGpu(s)
      BY <2>2, <2>5, <3>1 DEF InEntq
    <3> QED BY <1>2, <2>1, <2>2, <2>4, <3>2, SlotTerms, SlotTermsNext DEF SlotStep, Beyond
  <2>6. CASE EntqClosed /\ UNCHANGED entq
    <3>1. outcome' # "running"
      <4>1. closed \in Nat /\ closed >= 4
        BY <2>6, SlotQueues DEF EntqClosed
      <4>2. closed > 0
        BY ONLY <4>1
      <4> QED BY <1>1, <4>2 DEF OwnInv, FailedFirst
    <3>2. InEntq(s)' = InEntq(s)
      BY <2>6 DEF InEntq, Occurrences
    <3> QED BY <1>2, <2>1, <2>2, <3>1, <3>2, SlotTerms, SlotTermsNext DEF SlotStep, Beyond
  <2> QED BY <1>5, <2>5, <2>6 DEF GpuForward
<1>6. CASE GpuSendEnds
  <2>1. InGpuq(s)' = InGpuq(s) /\ InGpu(s)' = InGpu(s)
    BY <1>6 DEF GpuSendEnds, InGpuq, InGpu, Occurrences
  <2>2. InEntq(s)' = InEntq(s)
    <3>1. CASE entq' = Append(entq, End)
      <4>1. Occurrences(s, Append(entq, End)) = Occurrences(s, entq)
        BY Pushed, SlotQueues
      <4> QED BY <3>1, <4>1 DEF InEntq
    <3>2. CASE UNCHANGED entq
      BY <3>2 DEF InEntq, Occurrences
    <3> QED BY <1>6, <3>1, <3>2 DEF GpuSendEnds
  <2> QED BY <1>2, <2>1, <2>2, SlotTerms, SlotTermsNext DEF SlotStep, Beyond
<1> QED BY <1>3, <1>4, <1>5, <1>6 DEF Completion

LEMMA EntropySlotStep ==
  ASSUME TypeOK, TypeOK', HandsMatchPc, OwnInv, NEW w \in Workers, Entropy(w),
         NEW s \in Slots
  PROVE  SlotStep(s)
<1>1. UNCHANGED <<freeq, splitSlot, gpuq, gpuSlot, reorder, writing, outcome>>
  BY DEF Entropy, EntropyPop, EntropyEncode, EntropyPush, EntropyEnd,
     splitVars, gpuVars, writerVars, queueVars
<1>2. /\ InFree(s)' = InFree(s) /\ InSplit(s)' = InSplit(s)
      /\ InGpuq(s)' = InGpuq(s) /\ InGpu(s)' = InGpu(s)
      /\ InReorder(s)' = InReorder(s) /\ InWriting(s)' = InWriting(s)
  BY <1>1 DEF InFree, InSplit, InGpuq, InGpu, InReorder, InWriting, Occurrences
<1>3. CASE EntropyEncode(w)
  BY <1>3, SlotsUntouched DEF EntropyEncode, splitVars, gpuVars, writerVars, queueVars
<1>4. CASE EntropyPop(w)
  <2>1. InWriteq(s)' = InWriteq(s)
    BY <1>4 DEF EntropyPop, InWriteq, Occurrences
  <2>2. InEntq(s)' + InWork(s)' = InEntq(s) + InWork(s)
    <3>1. CASE entq = <<>>
      <4>1. UNCHANGED <<entq, work>>
        BY <1>4, <3>1 DEF EntropyPop
      <4> QED BY <4>1 DEF InEntq, InWork, Occurrences
    <3>2. CASE entq # <<>> /\ Head(entq) = End
      <4>1. entq' = Tail(entq) /\ work' = work
        BY <1>4, <3>2 DEF EntropyPop
      <4>2. Occurrences(s, Tail(entq)) = Occurrences(s, entq)
        BY <3>2, Popped, SlotQueues
      <4> QED BY <4>1, <4>2 DEF InEntq, InWork
    <3>3. CASE entq # <<>> /\ Head(entq) # End
      <4>1. entq' = Tail(entq) /\ work' = [work EXCEPT ![w] = Head(entq)]
        BY <1>4, <3>3 DEF EntropyPop
      <4>2. Occurrences(s, entq) = Occurrences(s, Tail(entq)) + Held(Head(entq) = s)
        BY <3>3, Popped, SlotQueues
      <4>3. work[w] = Nil
        BY <1>4 DEF EntropyPop, At, OwnInv, EmptyHands
      <4>4. InWork(s)' = InWork(s) + Held(Head(entq) = s)
        <5>1. InWork(s)' + Held(work[w] = s) = InWork(s) + Held(Head(entq) = s)
          BY <4>1, WorkAssigned
        <5>2. Held(work[w] = s) = 0
          BY <4>3, PipelineAssumption DEF Held
        <5> QED BY <5>1, <5>2, SlotTermsNext
      <4>5. InEntq(s) = InEntq(s)' + Held(Head(entq) = s)
        BY <4>1, <4>2 DEF InEntq
      <4>6. Held(Head(entq) = s) \in Nat
        BY DEF Held
      <4> QED BY <4>4, <4>5, <4>6, SlotTerms, SlotTermsNext
    <3> QED BY <3>1, <3>2, <3>3
  <2> QED BY <1>2, <2>1, <2>2, SlotTerms, SlotTermsNext DEF SlotStep, Beyond
<1>5. CASE EntropyPush(w)
  <2>1. InEntq(s)' = InEntq(s)
    BY <1>5 DEF EntropyPush, InEntq, Occurrences
  <2>2. InWork(s)' + Held(work[w] = s) = InWork(s)
    <3>1. InWork(s)' + Held(work[w] = s) = InWork(s) + Held(Nil = s)
      BY <1>5, WorkAssigned DEF EntropyPush
    <3>2. Held(Nil = s) = 0
      BY PipelineAssumption DEF Held
    <3> QED BY <3>1, <3>2, SlotTerms
  <2>3. Held(work[w] = s) \in Nat
    BY DEF Held
  <2>4. CASE writeq' = Append(writeq, work[w])
    <3>1. work[w] \in Slots
      BY <1>5 DEF EntropyPush, At, HandsMatchPc
    <3>2. Occurrences(s, Append(writeq, work[w])) = Occurrences(s, writeq) + Held(work[w] = s)
      BY <3>1, Pushed, SlotQueues
    <3>3. InWriteq(s)' = InWriteq(s) + Held(work[w] = s)
      BY <2>4, <3>2 DEF InWriteq
    <3> QED BY <1>2, <2>1, <2>2, <2>3, <3>3, SlotTerms, SlotTermsNext DEF SlotStep, Beyond
  <2>5. CASE WriteqClosed /\ UNCHANGED writeq
    <3>1. outcome' # "running"
      <4>1. closed \in Nat /\ closed >= 5
        BY <2>5, SlotQueues DEF WriteqClosed
      <4>2. closed > 0
        BY ONLY <4>1
      <4> QED BY <1>1, <4>2 DEF OwnInv, FailedFirst
    <3>2. InWriteq(s)' = InWriteq(s)
      BY <2>5 DEF InWriteq, Occurrences
    <3> QED BY <1>2, <2>1, <2>2, <2>3, <3>1, <3>2, SlotTerms, SlotTermsNext DEF SlotStep, Beyond
  <2> QED BY <1>5, <2>4, <2>5 DEF EntropyPush
<1>6. CASE EntropyEnd(w)
  <2>1. InEntq(s)' = InEntq(s) /\ InWork(s)' = InWork(s)
    BY <1>6 DEF EntropyEnd, entropyVars, InEntq, InWork, Occurrences
  <2>2. InWriteq(s)' = InWriteq(s)
    <3>1. CASE writeq' = Append(writeq, End)
      <4>1. Occurrences(s, Append(writeq, End)) = Occurrences(s, writeq)
        BY Pushed, SlotQueues
      <4> QED BY <3>1, <4>1 DEF InWriteq
    <3>2. CASE UNCHANGED writeq
      BY <3>2 DEF InWriteq, Occurrences
    <3> QED BY <1>6, <3>1, <3>2 DEF EntropyEnd
  <2> QED BY <1>2, <2>1, <2>2, SlotTerms, SlotTermsNext DEF SlotStep, Beyond
<1> QED BY <1>3, <1>4, <1>5, <1>6 DEF Entropy

LEMMA WriterSlotStep ==
  ASSUME TypeOK, TypeOK', HandsMatchPc, OwnInv, Writer, NEW s \in Slots
  PROVE  SlotStep(s)
<1>1. UNCHANGED <<splitSlot, gpuq, gpuSlot, entq, work>>
  BY DEF Writer, WriterPop, WriterCommit, WriterCount, WriterRelease, WriterDrained,
     splitVars, gpuVars, entropyVars, queueVars
<1>2. /\ InSplit(s)' = InSplit(s) /\ InGpuq(s)' = InGpuq(s) /\ InGpu(s)' = InGpu(s)
      /\ InEntq(s)' = InEntq(s) /\ InWork(s)' = InWork(s)
  BY <1>1 DEF InSplit, InGpuq, InGpu, InEntq, InWork, Occurrences
<1>3. SlotHolders(s) <= 1
  BY DEF OwnInv, SlotsOwned
<1>4. CASE WriterDrained \/ WriterCount
  BY <1>4, SlotsUntouched DEF WriterDrained, WriterCount, splitVars, gpuVars,
     entropyVars, writerVars, queueVars
<1>5. CASE WriterPop
  <2>1. InFree(s)' = InFree(s) /\ InWriting(s)' = InWriting(s)
    BY <1>5 DEF WriterPop, InFree, InWriting
  <2>2. CASE writeq = <<>>
    <3>1. UNCHANGED <<writeq, reorder>>
      BY <1>5, <2>2 DEF WriterPop
    <3>2. InWriteq(s)' = InWriteq(s) /\ InReorder(s)' = InReorder(s)
      BY <3>1 DEF InWriteq, InReorder, Occurrences
    <3> QED BY <1>2, <2>1, <3>2, SlotTerms, SlotTermsNext DEF SlotStep, Beyond
  <2>3. CASE writeq # <<>>
    <3>1. writeq' = Tail(writeq)
      BY <1>5, <2>3 DEF WriterPop
    <3>2. /\ Occurrences(s, writeq) = Occurrences(s, Tail(writeq)) + Held(Head(writeq) = s)
          /\ Head(writeq) = End => Occurrences(s, Tail(writeq)) = Occurrences(s, writeq)
      BY <2>3, Popped, SlotQueues
    <3>3. /\ InWriteq(s) = InWriteq(s)' + Held(Head(writeq) = s)
          /\ Head(writeq) = End => InWriteq(s)' = InWriteq(s)
          /\ Held(Head(writeq) = s) \in {0, 1}
      BY <3>1, <3>2 DEF InWriteq, Held
    <3>4. CASE Head(writeq) = End
      <4>1. reorder' = reorder
        BY <1>5, <2>3, <3>4 DEF WriterPop
      <4>2. InReorder(s)' = InReorder(s)
        BY <4>1 DEF InReorder
      <4> QED BY <1>2, <2>1, <3>3, <3>4, <4>2, SlotTerms, SlotTermsNext DEF SlotStep, Beyond
    <3>5. CASE reorder' = reorder \cup {Head(writeq)}
      <4>1. CASE Head(writeq) = s
        <5>1. Held(Head(writeq) = s) = 1 /\ InReorder(s)' = 1
          BY <3>5, <4>1 DEF InReorder, Held
        <5> QED BY <1>2, <1>3, <2>1, <3>3, <5>1, SlotTerms, SlotTermsNext DEF SlotStep, Beyond
      <4>2. CASE Head(writeq) # s
        <5>1. Held(Head(writeq) = s) = 0 /\ InReorder(s)' = InReorder(s)
          BY <3>5, <4>2 DEF InReorder, Held
        <5> QED BY <1>2, <2>1, <3>3, <5>1, SlotTerms, SlotTermsNext DEF SlotStep, Beyond
      <4> QED BY <4>1, <4>2
    <3>6. CASE reorder' = reorder /\ outcome' = "failing"
      <4>1. InReorder(s)' = InReorder(s)
        BY <3>6 DEF InReorder
      <4> QED BY <1>2, <2>1, <3>3, <3>6, <4>1, SlotTerms, SlotTermsNext DEF SlotStep, Beyond
    <3> QED BY <1>5, <2>3, <3>4, <3>5, <3>6 DEF WriterPop
  <2> QED BY <2>2, <2>3
<1>6. CASE WriterCommit
  <2>1. UNCHANGED <<freeq, writeq>>
    BY <1>6 DEF WriterCommit, queueVars
  <2>2. InFree(s)' = InFree(s) /\ InWriteq(s)' = InWriteq(s)
    BY <2>1 DEF InFree, InWriteq, Occurrences
  <2>3. PICK r \in reorder : reorder' = reorder \ {r} /\ writing' = r
    BY <1>6 DEF WriterCommit, NextInOrder
  <2>4. writing = Nil
    BY <1>6 DEF WriterCommit, At, OwnInv, EmptyHands
  <2>5. InReorder(s)' + InWriting(s)' = InReorder(s) + InWriting(s)
    BY <2>3, <2>4, PipelineAssumption DEF InReorder, InWriting, Held
  <2> QED BY <1>2, <2>2, <2>5, SlotTerms, SlotTermsNext DEF SlotStep, Beyond
<1>7. CASE WriterRelease
  <2>1. UNCHANGED <<writeq, reorder>>
    BY <1>7 DEF WriterRelease
  <2>2. InWriteq(s)' = InWriteq(s) /\ InReorder(s)' = InReorder(s)
    BY <2>1 DEF InReorder, InWriteq, Occurrences
  <2>3. InWriting(s)' = 0 /\ InWriting(s) = Held(writing = s)
    BY <1>7, PipelineAssumption DEF WriterRelease, InWriting, Held
  <2>4. CASE freeq' = freeq \cup {writing}
    <3>1. CASE writing = s
      <4>1. InWriting(s) = 1 /\ InFree(s)' = 1
        BY <2>3, <2>4, <3>1 DEF InFree, Held
      <4> QED BY <1>2, <1>3, <2>2, <2>3, <4>1, SlotTerms, SlotTermsNext DEF SlotStep, Beyond
    <3>2. CASE writing # s
      <4>1. InWriting(s) = 0 /\ InFree(s)' = InFree(s)
        BY <2>3, <2>4, <3>2 DEF InFree, Held
      <4> QED BY <1>2, <2>2, <2>3, <4>1, SlotTerms, SlotTermsNext DEF SlotStep, Beyond
    <3> QED BY <3>1, <3>2
  <2>5. CASE outcome' = "failing" /\ UNCHANGED freeq
    <3>1. InFree(s)' = InFree(s)
      BY <2>5 DEF InFree
    <3> QED BY <1>2, <2>2, <2>3, <2>5, <3>1, SlotTerms, SlotTermsNext DEF SlotStep, Beyond
  <2> QED BY <1>7, <2>4, <2>5 DEF WriterRelease
<1> QED BY <1>4, <1>5, <1>6, <1>7 DEF Writer

\* What is neither a stage's step nor a worker's moves no slot and no buffer.
LEMMA OtherSlotStep ==
  ASSUME NEW t \in Threads, NEW s \in Slots,
         Capture \/ GpuFinish \/ Throw(t) \/ Cancel(t) \/ Join \/ UNCHANGED vars
  PROVE  SlotStep(s)
<1>1. UNCHANGED <<freeq, splitSlot, gpuq, gpuSlot, entq, work, writeq, reorder,
                  writing>>
  BY DEF Capture, CaptureTryPop, CaptureAllocate, CaptureUnblock, CaptureFill,
     CapturePublish, CaptureStop, CaptureStoreStop, CaptureAnnounceStop, CaptureEnd, GpuFinish,
     Throw, Cancel, Join, vars, splitVars, gpuVars, entropyVars, writerVars,
     queueVars
<1> QED BY <1>1, SlotsUntouched

-----------------------------------------------------------------------------
(* The RAW buffers.                                                        *)

InCaptureFree(b) == Held(b \in captureFree)
InUnallocated(b) == Held(b \in unallocated)
InCamera(b)      == Held(camera = b)
InReady(b)       == Occurrences(b, captureReady)
InSplitBuf(b)    == Held(splitBuf = b)

LEMMA BufferTerms ==
  ASSUME TypeOK, NEW b \in Buffers
  PROVE  /\ InCaptureFree(b) \in {0, 1} /\ InUnallocated(b) \in {0, 1}
         /\ InCamera(b) \in {0, 1} /\ InSplitBuf(b) \in {0, 1}
         /\ InReady(b) \in Nat
         /\ BufferHolders(b) = InCaptureFree(b) + InUnallocated(b) + InCamera(b)
                               + InReady(b) + InSplitBuf(b)
<1>1. InReady(b) \in Nat
  BY OccurrencesType DEF TypeOK, QueueTypes, InReady
<1> QED BY <1>1 DEF Held, BufferHolders, InCaptureFree, InUnallocated, InCamera,
        InReady, InSplitBuf

LEMMA BufferTermsNext ==
  ASSUME TypeOK', NEW b \in Buffers
  PROVE  /\ InCaptureFree(b)' \in {0, 1} /\ InUnallocated(b)' \in {0, 1}
         /\ InCamera(b)' \in {0, 1} /\ InSplitBuf(b)' \in {0, 1}
         /\ InReady(b)' \in Nat
         /\ BufferHolders(b)' = InCaptureFree(b)' + InUnallocated(b)' + InCamera(b)'
                                + InReady(b)' + InSplitBuf(b)'
<1>1. InReady(b)' \in Nat
  BY OccurrencesType DEF TypeOK, QueueTypes, InReady
<1> QED BY <1>1 DEF Held, BufferHolders, InCaptureFree, InUnallocated, InCamera,
        InReady, InSplitBuf

\* The queue between the camera and the split, as above.
LEMMA ReadyPushed ==
  ASSUME TypeOK, NEW b \in Buffers
  PROVE  /\ \A e \in Buffers :
               Occurrences(b, Append(captureReady, e)) = InReady(b) + Held(e = b)
         /\ Occurrences(b, Append(captureReady, End)) = InReady(b)
<1>1. captureReady \in Seq(Buffers \cup {End})
  BY DEF TypeOK, QueueTypes
<1>2. \A e \in Buffers \cup {End} :
         Occurrences(b, Append(captureReady, e))
            = Occurrences(b, captureReady) + (IF e = b THEN 1 ELSE 0)
  BY <1>1, OccurrencesAppend
<1>3. End # b
  BY PipelineAssumption
<1> QED BY <1>2, <1>3, BufferTerms DEF InReady, Held

LEMMA ReadyPopped ==
  ASSUME TypeOK, TypeOK', captureReady # <<>>, captureReady' = Tail(captureReady),
         NEW b \in Buffers
  PROVE  /\ InReady(b) = InReady(b)' + Held(Head(captureReady) = b)
         /\ Head(captureReady) = End => InReady(b)' = InReady(b)
<1>1. captureReady \in Seq(Buffers \cup {End})
  BY DEF TypeOK, QueueTypes
<1>2. Occurrences(b, captureReady) = Occurrences(b, Tail(captureReady))
                                     + (IF Head(captureReady) = b THEN 1 ELSE 0)
  BY <1>1, OccurrencesTail
<1>3. End # b
  BY PipelineAssumption
<1>4. InReady(b) = InReady(b)' + (IF Head(captureReady) = b THEN 1 ELSE 0)
  BY <1>2 DEF InReady
<1> QED BY <1>3, <1>4, BufferTerms, BufferTermsNext DEF Held

\* No step moves a buffer out of sight, and a buffer that gets a picture is
\* in the camera's hands.
BufferStep(b) ==
    /\ BufferHolders(b)' = BufferHolders(b)
    /\ captureBuf'[b] # Nil => captureBuf[b] # Nil \/ BufferHolders(b) >= 1

LEMMA BuffersUntouched ==
  ASSUME UNCHANGED <<captureFree, unallocated, camera, captureReady, splitBuf,
                     captureBuf>>,
         NEW b \in Buffers
  PROVE  BufferStep(b)
  BY DEF BufferStep, BufferHolders, Occurrences

LEMMA CaptureBufferStep ==
  ASSUME TypeOK, TypeOK', HandsMatchPc, OwnInv, Capture, NEW b \in Buffers
  PROVE  BufferStep(b)
<1>1. splitBuf' = splitBuf /\ InSplitBuf(b)' = InSplitBuf(b)
  BY DEF Capture, CaptureTryPop, CaptureAllocate, CaptureUnblock, CaptureFill,
     CapturePublish, CaptureStop, CaptureStoreStop, CaptureAnnounceStop, CaptureEnd, splitVars,
     InSplitBuf
<1>2. Nil # b
  BY PipelineAssumption
<1>3. CASE CaptureTryPop \/ CaptureUnblock
  <2>1. UNCHANGED <<unallocated, captureReady, captureBuf>>
    BY <1>3 DEF CaptureTryPop, CaptureUnblock, queueVars
  <2>2. InUnallocated(b)' = InUnallocated(b) /\ InReady(b)' = InReady(b)
    BY <2>1 DEF InUnallocated, InReady, Occurrences
  <2>3. camera = Nil
    BY <1>3 DEF CaptureTryPop, CaptureUnblock, At, OwnInv, EmptyHands
  <2>4. InCaptureFree(b)' + InCamera(b)' = InCaptureFree(b) + InCamera(b)
    <3>1. CASE UNCHANGED <<camera, captureFree>>
      BY <3>1 DEF InCaptureFree, InCamera
    <3>2. CASE \E e \in captureFree : camera' = e /\ captureFree' = captureFree \ {e}
      BY <1>2, <2>3, <3>2 DEF InCaptureFree, InCamera, Held
    <3> QED BY <1>3, <3>1, <3>2 DEF CaptureTryPop, CaptureUnblock
  <2> QED BY <1>1, <2>1, <2>2, <2>4, BufferTerms, BufferTermsNext DEF BufferStep
<1>4. CASE CaptureAllocate
  <2>1. UNCHANGED <<captureFree, captureReady, captureBuf>>
    BY <1>4 DEF CaptureAllocate, queueVars
  <2>2. InCaptureFree(b)' = InCaptureFree(b) /\ InReady(b)' = InReady(b)
    BY <2>1 DEF InCaptureFree, InReady, Occurrences
  <2>3. camera = Nil
    BY <1>4 DEF CaptureAllocate, At, OwnInv, EmptyHands
  <2>4. InUnallocated(b)' + InCamera(b)' = InUnallocated(b) + InCamera(b)
    <3>1. CASE UNCHANGED <<camera, unallocated>>
      BY <3>1 DEF InUnallocated, InCamera
    <3>2. CASE \E e \in unallocated : camera' = e /\ unallocated' = unallocated \ {e}
      BY <1>2, <2>3, <3>2 DEF InUnallocated, InCamera, Held
    <3> QED BY <1>4, <3>1, <3>2 DEF CaptureAllocate
  <2> QED BY <1>1, <2>1, <2>2, <2>4, BufferTerms, BufferTermsNext DEF BufferStep
<1>5. CASE CaptureFill
  <2>1. UNCHANGED <<captureFree, unallocated, camera, captureReady>>
    BY <1>5 DEF CaptureFill, queueVars
  <2>2. BufferHolders(b)' = BufferHolders(b)
    BY <1>1, <2>1 DEF BufferHolders, Occurrences
  <2>3. captureBuf' = [captureBuf EXCEPT ![camera] = enqueued]
    BY <1>5 DEF CaptureFill
  <2>4. CASE camera = b
    <3>1. InCamera(b) = 1
      BY <2>4 DEF InCamera, Held
    <3>2. BufferHolders(b) >= 1
      BY <3>1, BufferTerms
    <3> QED BY <2>2, <3>2 DEF BufferStep
  <2>5. CASE camera # b
    <3>1. captureBuf'[b] = captureBuf[b]
      BY <2>3, <2>5 DEF TypeOK, CaptureTypes
    <3> QED BY <2>2, <3>1 DEF BufferStep
  <2> QED BY <2>4, <2>5
<1>6. CASE CapturePublish
  <2>1. UNCHANGED <<captureFree, unallocated, captureBuf>>
        /\ captureReady' = Append(captureReady, camera) /\ camera' = Nil
    BY <1>6 DEF CapturePublish
  <2>2. InCaptureFree(b)' = InCaptureFree(b) /\ InUnallocated(b)' = InUnallocated(b)
    BY <2>1 DEF InCaptureFree, InUnallocated
  <2>3. camera \in Buffers
    BY <1>6 DEF CapturePublish, At, HandsMatchPc
  <2>4. Occurrences(b, Append(captureReady, camera)) = InReady(b) + Held(camera = b)
    BY <2>3, ReadyPushed
  <2>5. InReady(b)' = InReady(b) + InCamera(b)
    BY <2>1, <2>4 DEF InReady, InCamera
  <2>6. InCamera(b)' = 0
    BY <1>2, <2>1 DEF InCamera, Held
  <2> QED BY <1>1, <2>1, <2>2, <2>5, <2>6, BufferTerms, BufferTermsNext DEF BufferStep
<1>7. CASE CaptureStop \/ CaptureStoreStop \/ CaptureAnnounceStop
  <2>1. UNCHANGED <<captureFree, unallocated, camera, captureReady, captureBuf>>
    BY <1>7 DEF CaptureStop, CaptureStoreStop, CaptureAnnounceStop, captureVars, queueVars
  <2> QED BY <1>1, <2>1, BuffersUntouched
<1>8. CASE CaptureEnd
  <2>1. UNCHANGED <<captureFree, unallocated, camera, captureBuf>>
        /\ captureReady' = Append(captureReady, End)
    BY <1>8 DEF CaptureEnd, captureVars
  <2>2. /\ InCaptureFree(b)' = InCaptureFree(b) /\ InUnallocated(b)' = InUnallocated(b)
        /\ InCamera(b)' = InCamera(b)
    BY <2>1 DEF InCaptureFree, InUnallocated, InCamera
  <2>3. Occurrences(b, Append(captureReady, End)) = InReady(b)
    BY ReadyPushed
  <2>4. InReady(b)' = InReady(b)
    BY <2>1, <2>3 DEF InReady
  <2> QED BY <1>1, <2>1, <2>2, <2>4, BufferTerms, BufferTermsNext DEF BufferStep
<1> QED BY <1>3, <1>4, <1>5, <1>6, <1>7, <1>8 DEF Capture

LEMMA SplitBufferStep ==
  ASSUME TypeOK, TypeOK', HandsMatchPc, OwnInv, Split, NEW b \in Buffers
  PROVE  BufferStep(b)
<1>1. UNCHANGED <<unallocated, camera, captureBuf>>
  BY DEF Split, SplitPop, SplitTakeToken, SplitTakeSlot, SplitFill,
     SplitReturnBuffer, SplitSubmit, SplitPublish, SplitEnd, captureVars
<1>2. InUnallocated(b)' = InUnallocated(b) /\ InCamera(b)' = InCamera(b)
  BY <1>1 DEF InUnallocated, InCamera
<1>3. Nil # b
  BY PipelineAssumption
<1>4. CASE SplitTakeToken \/ SplitTakeSlot \/ SplitFill \/ SplitSubmit
           \/ SplitPublish \/ SplitEnd
  <2>1. UNCHANGED <<captureFree, captureReady, splitBuf>>
    BY <1>4 DEF SplitTakeToken, SplitTakeSlot, SplitFill, SplitSubmit,
       SplitPublish, SplitEnd, captureVars, splitVars, queueVars
  <2> QED BY <1>1, <2>1, BuffersUntouched
<1>5. CASE SplitPop
  <2>1. captureFree' = captureFree /\ captureReady # <<>>
        /\ captureReady' = Tail(captureReady)
    BY <1>5 DEF SplitPop, captureVars
  <2>2. InCaptureFree(b)' = InCaptureFree(b)
    BY <2>1 DEF InCaptureFree
  <2>3. /\ InReady(b) = InReady(b)' + Held(Head(captureReady) = b)
        /\ Head(captureReady) = End => InReady(b)' = InReady(b)
    BY <2>1, ReadyPopped
  <2>4. InReady(b)' + InSplitBuf(b)' = InReady(b) + InSplitBuf(b)
    <3>1. CASE Head(captureReady) = End
      <4>1. splitBuf' = splitBuf
        BY <1>5, <3>1 DEF SplitPop
      <4> QED BY <2>3, <3>1, <4>1 DEF InSplitBuf
    <3>2. CASE Head(captureReady) # End
      <4>1. splitBuf' = Head(captureReady) /\ splitBuf = Nil
        BY <1>5, <3>2 DEF SplitPop, At, OwnInv, EmptyHands
      <4>2. InSplitBuf(b)' = Held(Head(captureReady) = b) /\ InSplitBuf(b) = 0
        BY <1>3, <4>1 DEF InSplitBuf, Held
      <4> QED BY <2>3, <4>2, BufferTerms, BufferTermsNext
    <3> QED BY <3>1, <3>2
  <2> QED BY <1>1, <1>2, <2>2, <2>4, BufferTerms, BufferTermsNext DEF BufferStep
<1>6. CASE SplitReturnBuffer
  <2>1. captureFree' = captureFree \cup {splitBuf} /\ splitBuf' = Nil
        /\ captureReady' = captureReady
    BY <1>6 DEF SplitReturnBuffer, queueVars
  <2>2. InReady(b)' = InReady(b) /\ InSplitBuf(b)' = 0
    BY <1>3, <2>1 DEF InReady, InSplitBuf, Held, Occurrences
  <2>3. BufferHolders(b) <= 1
    BY DEF OwnInv, BuffersOwned
  <2>4. CASE splitBuf = b
    <3>1. InSplitBuf(b) = 1 /\ InCaptureFree(b)' = 1
      BY <2>1, <2>4 DEF InSplitBuf, InCaptureFree, Held
    <3> QED BY <1>1, <1>2, <2>2, <2>3, <3>1, BufferTerms, BufferTermsNext DEF BufferStep
  <2>5. CASE splitBuf # b
    <3>1. InSplitBuf(b) = 0 /\ InCaptureFree(b)' = InCaptureFree(b)
      BY <2>1, <2>5 DEF InSplitBuf, InCaptureFree, Held
    <3> QED BY <1>1, <1>2, <2>2, <3>1, BufferTerms, BufferTermsNext DEF BufferStep
  <2> QED BY <2>4, <2>5
<1> QED BY <1>4, <1>5, <1>6 DEF Split

LEMMA OtherBufferStep ==
  ASSUME NEW t \in Threads, NEW w \in Workers, NEW b \in Buffers,
         GpuFinish \/ Completion \/ Entropy(w) \/ Writer \/ Throw(t) \/ Cancel(t)
         \/ Join \/ UNCHANGED vars
  PROVE  BufferStep(b)
<1>1. UNCHANGED <<captureFree, unallocated, camera, captureReady, splitBuf,
                  captureBuf>>
  BY DEF GpuFinish, Completion, GpuPop, GpuWait, GpuReturnToken, GpuForward,
     GpuSendEnds, Entropy, EntropyPop, EntropyEncode, EntropyPush, EntropyEnd,
     Writer, WriterPop, WriterCommit, WriterCount, WriterRelease, WriterDrained, Throw,
     Cancel, Join, vars, captureVars, splitVars, queueVars
<1> QED BY <1>1, BuffersUntouched

-----------------------------------------------------------------------------
(* Hands are empty when a thread reaches for more, and a failure comes      *)
(* before every cancellation.                                               *)

LEMMA CaptureHands ==
  ASSUME TypeOK, EmptyHands, Capture
  PROVE  EmptyHands'
<1>1. UNCHANGED <<splitBuf, splitSlot, gpuSlot, work, writing>>
  BY DEF Capture, CaptureTryPop, CaptureAllocate, CaptureUnblock, CaptureFill,
     CapturePublish, CaptureStop, CaptureStoreStop, CaptureAnnounceStop, CaptureEnd, splitVars,
     gpuVars, entropyVars, writerVars
<1>2. \A t \in Threads : t # "capture" => pc'[t] = pc[t]
  BY DEF TypeOK, Capture, CaptureTryPop, CaptureAllocate, CaptureUnblock,
     CaptureFill, CapturePublish, CaptureStop, CaptureStoreStop, CaptureAnnounceStop, CaptureEnd, Goto
<1>3. pc'["capture"] \in {"next", "alloc", "blocked"} => camera' = Nil
  BY ThreadFacts DEF TypeOK, EmptyHands, Capture, CaptureTryPop,
     CaptureAllocate, CaptureUnblock, CaptureFill, CapturePublish, CaptureStop, CaptureStoreStop,
     CaptureAnnounceStop, CaptureEnd, Goto, At, captureVars
<1> QED BY <1>1, <1>2, <1>3, ThreadFacts DEF EmptyHands

LEMMA SplitHands ==
  ASSUME TypeOK, EmptyHands, Split
  PROVE  EmptyHands'
<1>1. UNCHANGED <<camera, gpuSlot, work, writing>>
  BY DEF Split, SplitPop, SplitTakeToken, SplitTakeSlot, SplitFill,
     SplitReturnBuffer, SplitSubmit, SplitPublish, SplitEnd, captureVars,
     gpuVars, entropyVars, writerVars
<1>2. \A t \in Threads : t # "split" => pc'[t] = pc[t]
  BY DEF TypeOK, Split, SplitPop, SplitTakeToken, SplitTakeSlot, SplitFill,
     SplitReturnBuffer, SplitSubmit, SplitPublish, SplitEnd, Goto
<1>3. pc'["split"] \in {"pop", "submit", "publish"} => splitBuf' = Nil
  BY ThreadFacts DEF TypeOK, EmptyHands, Split, SplitPop, SplitTakeToken,
     SplitTakeSlot, SplitFill, SplitReturnBuffer, SplitSubmit, SplitPublish,
     SplitEnd, Goto, At, splitVars
<1>4. pc'["split"] \in {"pop", "token", "slot"} => splitSlot' = Nil
  BY ThreadFacts DEF TypeOK, EmptyHands, Split, SplitPop, SplitTakeToken,
     SplitTakeSlot, SplitFill, SplitReturnBuffer, SplitSubmit, SplitPublish,
     SplitEnd, Goto, At, splitVars
<1> QED BY <1>1, <1>2, <1>3, <1>4, ThreadFacts DEF EmptyHands

LEMMA CompletionHands ==
  ASSUME TypeOK, EmptyHands, Completion
  PROVE  EmptyHands'
<1>1. UNCHANGED <<camera, splitBuf, splitSlot, work, writing>>
  BY DEF Completion, GpuPop, GpuWait, GpuReturnToken, GpuForward, GpuSendEnds,
     captureVars, splitVars, entropyVars, writerVars
<1>2. \A t \in Threads : t # "gpu" => pc'[t] = pc[t]
  BY DEF TypeOK, Completion, GpuPop, GpuWait, GpuReturnToken, GpuForward,
     GpuSendEnds, Goto
<1>3. pc'["gpu"] = "pop" => gpuSlot' = Nil
  BY ThreadFacts DEF TypeOK, EmptyHands, Completion, GpuPop, GpuWait,
     GpuReturnToken, GpuForward, GpuSendEnds, Goto, At, gpuVars
<1> QED BY <1>1, <1>2, <1>3, ThreadFacts DEF EmptyHands

LEMMA EntropyHands ==
  ASSUME TypeOK, EmptyHands, NEW w \in Workers, Entropy(w)
  PROVE  EmptyHands'
<1>1. UNCHANGED <<camera, splitBuf, splitSlot, gpuSlot, writing>>
  BY DEF Entropy, EntropyPop, EntropyEncode, EntropyPush, EntropyEnd,
     captureVars, splitVars, gpuVars, writerVars
<1>2. \A t \in Threads : t # w => pc'[t] = pc[t]
  BY DEF TypeOK, Entropy, EntropyPop, EntropyEncode, EntropyPush, EntropyEnd, Goto
<1>3. \A v \in Workers : v # w => work'[v] = work[v]
  BY DEF TypeOK, EntropyTypes, Entropy, EntropyPop, EntropyEncode, EntropyPush,
     EntropyEnd, entropyVars
<1>4. pc'[w] = "pop" => work'[w] = Nil
  BY ThreadFacts DEF TypeOK, EntropyTypes, Entropy, EntropyPop, EntropyEncode,
     EntropyPush, EntropyEnd, Goto
<1> QED BY <1>1, <1>2, <1>3, <1>4, ThreadFacts DEF EmptyHands

LEMMA WriterHands ==
  ASSUME TypeOK, EmptyHands, Writer
  PROVE  EmptyHands'
<1>1. UNCHANGED <<camera, splitBuf, splitSlot, gpuSlot, work>>
  BY DEF Writer, WriterPop, WriterCommit, WriterCount, WriterRelease, WriterDrained,
     captureVars, splitVars, gpuVars, entropyVars
<1>2. \A t \in Threads : t # "writer" => pc'[t] = pc[t]
  BY DEF TypeOK, Writer, WriterPop, WriterCommit, WriterCount, WriterRelease, WriterDrained, Goto
<1>3. pc'["writer"] \in {"pop", "drain"} => writing' = Nil
  BY ThreadFacts DEF TypeOK, EmptyHands, Writer, WriterPop, WriterCommit, WriterCount,
     WriterRelease, WriterDrained, Goto, At, writerVars
<1> QED BY <1>1, <1>2, <1>3, ThreadFacts DEF EmptyHands

LEMMA OtherHands ==
  ASSUME TypeOK, EmptyHands, NEW t \in Threads,
         GpuFinish \/ Throw(t) \/ Cancel(t) \/ Join \/ UNCHANGED vars
  PROVE  EmptyHands'
<1>1. UNCHANGED <<camera, splitBuf, splitSlot, gpuSlot, work, writing>>
  BY DEF GpuFinish, Throw, Cancel, Join, vars, captureVars, splitVars, gpuVars,
     entropyVars, writerVars
<1>2. \A u \in Threads : pc'[u] = pc[u] \/ pc'[u] \in {"cancel", "done"}
  BY DEF TypeOK, GpuFinish, Throw, Cancel, Join, vars, Goto
<1> QED BY <1>1, <1>2, ThreadFacts DEF EmptyHands

\* A step of a stage either fails the pass, or moves one thread and neither
\* closes a queue nor cancels.
Moves == \/ outcome' = "failing"
         \/ /\ UNCHANGED <<closed, outcome>>
            /\ \A t \in Threads : pc'[t] = "cancel" => pc[t] = "cancel"

LEMMA StageMoves ==
  ASSUME TypeOK, NEW w \in Workers,
         Capture \/ Split \/ GpuFinish \/ Completion \/ Entropy(w) \/ Writer
  PROVE  Moves
<1> USE DEF TypeOK, Moves, Goto
<1>1. CASE Capture
  <2>1. UNCHANGED <<closed, outcome>>
    BY <1>1 DEF Capture, CaptureTryPop, CaptureAllocate, CaptureUnblock, CaptureFill,
       CapturePublish, CaptureStop, CaptureStoreStop, CaptureAnnounceStop, CaptureEnd, queueVars
  <2>2. \A t \in Threads : pc'[t] = "cancel" => pc[t] = "cancel"
    BY <1>1 DEF Capture, CaptureTryPop, CaptureAllocate, CaptureUnblock, CaptureFill,
       CapturePublish, CaptureStop, CaptureStoreStop, CaptureAnnounceStop, CaptureEnd
  <2> QED BY <2>1, <2>2
<1>2. CASE Split
  <2>1. UNCHANGED <<closed, outcome>>
    BY <1>2 DEF Split, SplitPop, SplitTakeToken, SplitTakeSlot, SplitFill,
       SplitReturnBuffer, SplitSubmit, SplitPublish, SplitEnd, queueVars
  <2>2. \A t \in Threads : pc'[t] = "cancel" => pc[t] = "cancel"
    BY <1>2 DEF Split, SplitPop, SplitTakeToken, SplitTakeSlot, SplitFill,
       SplitReturnBuffer, SplitSubmit, SplitPublish, SplitEnd
  <2> QED BY <2>1, <2>2
<1>3. CASE GpuFinish \/ Completion
  <2>1. UNCHANGED <<closed, outcome>>
    BY <1>3 DEF GpuFinish, Completion, GpuPop, GpuWait, GpuReturnToken,
       GpuForward, GpuSendEnds, queueVars
  <2>2. \A t \in Threads : pc'[t] = "cancel" => pc[t] = "cancel"
    BY <1>3 DEF GpuFinish, Completion, GpuPop, GpuWait, GpuReturnToken,
       GpuForward, GpuSendEnds
  <2> QED BY <2>1, <2>2
<1>4. CASE Entropy(w)
  <2>1. UNCHANGED <<closed, outcome>>
    BY <1>4 DEF Entropy, EntropyPop, EntropyEncode, EntropyPush, EntropyEnd, queueVars
  <2>2. \A t \in Threads : pc'[t] = "cancel" => pc[t] = "cancel"
    BY <1>4 DEF Entropy, EntropyPop, EntropyEncode, EntropyPush, EntropyEnd
  <2> QED BY <2>1, <2>2
<1>5. CASE Writer
  <2>1. closed' = closed /\ outcome' \in {outcome, "failing"}
    BY <1>5 DEF Writer, WriterPop, WriterCommit, WriterCount, WriterRelease, WriterDrained, queueVars
  <2>2. outcome' = "failing"
        \/ \A t \in Threads : pc'[t] = "cancel" => pc[t] = "cancel"
    BY <1>5 DEF Writer, WriterPop, WriterCommit, WriterCount, WriterRelease, WriterDrained
  <2> QED BY <2>1, <2>2
<1> QED BY <1>1, <1>2, <1>3, <1>4, <1>5

\* A pass that has failed, or ended, does not run again; and a failure still
\* precedes every closed queue and every cancelling stage.
LEMMA FailedFirstNext ==
  ASSUME TypeOK, FailedFirst, NEW t \in Threads, NEW w \in Workers,
         Capture \/ Split \/ GpuFinish \/ Completion \/ Entropy(w) \/ Writer
         \/ Throw(t) \/ Cancel(t) \/ Join \/ UNCHANGED vars
  PROVE  FailedFirst' /\ (outcome' = "running" => outcome = "running")
<1>1. CASE Moves
  BY <1>1 DEF FailedFirst, Moves
<1>2. CASE Throw(t)
  BY <1>2 DEF Throw, FailedFirst
<1>3. CASE Cancel(t)
  BY <1>3 DEF Cancel, At, FailedFirst
<1>4. CASE Join
  BY <1>4 DEF Join, FailedFirst
<1>5. CASE UNCHANGED vars
  BY <1>5 DEF vars, queueVars, FailedFirst
<1> QED BY <1>1, <1>2, <1>3, <1>4, <1>5, StageMoves

-----------------------------------------------------------------------------
(* The device, and the invariant.                                           *)

\* Only the split hands a slot to the device, the one it holds; the completion
\* thread goes past its wait only with a slot the device has finished.
LEMMA DeviceStep ==
  ASSUME TypeOK, HandsMatchPc, NEW t \in Threads, NEW w \in Workers,
         Capture \/ Split \/ GpuFinish \/ Completion \/ Entropy(w) \/ Writer
         \/ Throw(t) \/ Cancel(t) \/ Join \/ UNCHANGED vars
  PROVE  /\ gpuBusy' \subseteq gpuBusy \/ gpuBusy' = gpuBusy \cup {splitSlot}
         /\ gpuBusy' \subseteq gpuBusy \/ splitSlot \in Slots
         /\ pc'["gpu"] \in {"token", "forward"} =>
               /\ gpuSlot' = gpuSlot /\ gpuSlot \in Slots
               /\ \/ pc["gpu"] \in {"token", "forward"}
                  \/ gpuSlot \notin gpuBusy /\ gpuBusy' = gpuBusy
<1> USE ThreadFacts DEF TypeOK, HandsMatchPc, Goto, At
<1>1. CASE Capture
  BY <1>1 DEF Capture, CaptureTryPop, CaptureAllocate, CaptureUnblock,
     CaptureFill, CapturePublish, CaptureStop, CaptureStoreStop, CaptureAnnounceStop, CaptureEnd,
     gpuVars
<1>2. CASE Split
  BY <1>2 DEF Split, SplitPop, SplitTakeToken, SplitTakeSlot, SplitFill,
     SplitReturnBuffer, SplitSubmit, SplitPublish, SplitEnd, gpuVars
<1>3. CASE GpuFinish \/ Completion
  BY <1>3 DEF GpuFinish, Completion, GpuPop, GpuWait, GpuReturnToken,
     GpuForward, GpuSendEnds, gpuVars
<1>4. CASE Entropy(w)
  BY <1>4 DEF Entropy, EntropyPop, EntropyEncode, EntropyPush, EntropyEnd, gpuVars
<1>5. CASE Writer
  BY <1>5 DEF Writer, WriterPop, WriterCommit, WriterCount, WriterRelease, WriterDrained, gpuVars
<1>6. CASE Throw(t) \/ Cancel(t) \/ Join \/ UNCHANGED vars
  BY <1>6 DEF Throw, Cancel, Join, vars, gpuVars
<1> QED BY <1>1, <1>2, <1>3, <1>4, <1>5, <1>6

LEMMA StepOwnInv ==
  ASSUME TypeInv, TypeInv', OwnInv, NEW t \in Threads, NEW w \in Workers,
         Capture \/ Split \/ GpuFinish \/ Completion \/ Entropy(w) \/ Writer
         \/ Throw(t) \/ Cancel(t) \/ Join \/ UNCHANGED vars
  PROVE  OwnInv'
<1>1. TypeOK /\ HandsMatchPc /\ TypeOK'
  BY DEF TypeInv
<1>2. FailedFirst' /\ (outcome' = "running" => outcome = "running")
  BY <1>1, FailedFirstNext DEF OwnInv
<1>3. EmptyHands'
  BY <1>1, CaptureHands, SplitHands, CompletionHands, EntropyHands, WriterHands,
     OtherHands DEF OwnInv
<1>4. ASSUME NEW s \in Slots PROVE SlotStep(s)
  BY <1>1, OtherSlotStep, SplitSlotStep, CompletionSlotStep, EntropySlotStep,
     WriterSlotStep
<1>5. ASSUME NEW b \in Buffers PROVE BufferStep(b)
  BY <1>1, CaptureBufferStep, SplitBufferStep, OtherBufferStep
<1>6. SlotsOwned'
  <2> SUFFICES ASSUME NEW s \in Slots
               PROVE  /\ SlotHolders(s)' <= 1
                      /\ outcome' = "running" => SlotHolders(s)' = 1
    BY DEF SlotsOwned
  <2>1. SlotHolders(s) <= 1 /\ (outcome = "running" => SlotHolders(s) = 1)
    BY DEF OwnInv, SlotsOwned
  <2>2. SlotHolders(s) \in Nat /\ SlotHolders(s)' \in Nat
    BY <1>1, SlotTerms, SlotTermsNext
  <2> QED BY <1>2, <1>4, <2>1, <2>2 DEF SlotStep
<1>7. BuffersOwned'
  <2> SUFFICES ASSUME NEW b \in Buffers
               PROVE  /\ BufferHolders(b)' <= 1
                      /\ outcome' = "running"
                         /\ (b \in NormalBuffers \/ captureBuf'[b] # Nil)
                           => BufferHolders(b)' = 1
    BY DEF BuffersOwned
  <2>1. /\ BufferHolders(b) <= 1
        /\ outcome = "running" /\ (b \in NormalBuffers \/ captureBuf[b] # Nil)
             => BufferHolders(b) = 1
    BY DEF OwnInv, BuffersOwned
  <2>2. BufferHolders(b) \in Nat
    BY <1>1, BufferTerms
  <2> QED BY <1>2, <1>5, <2>1, <2>2 DEF BufferStep
<1>8. InFlight'
  <2>1. /\ gpuBusy' \subseteq gpuBusy \/ gpuBusy' = gpuBusy \cup {splitSlot}
        /\ gpuBusy' \subseteq gpuBusy \/ splitSlot \in Slots
        /\ pc'["gpu"] \in {"token", "forward"} =>
              /\ gpuSlot' = gpuSlot /\ gpuSlot \in Slots
              /\ \/ pc["gpu"] \in {"token", "forward"}
                 \/ gpuSlot \notin gpuBusy /\ gpuBusy' = gpuBusy
    BY <1>1, DeviceStep
  <2>2. gpuBusy \subseteq Slots
    BY <1>1 DEF TypeOK, GpuTypes
  <2>3. ASSUME splitSlot \in Slots
        PROVE  Beyond(splitSlot) = 0 /\ gpuSlot # splitSlot
    <3>1. InSplit(splitSlot) = 1
      BY DEF InSplit, Held
    <3>2. SlotHolders(splitSlot) <= 1
      BY <2>3 DEF OwnInv, SlotsOwned
    <3>3. Beyond(splitSlot) = 0 /\ InGpu(splitSlot) = 0
      BY <1>1, <2>3, <3>1, <3>2, SlotTerms
    <3> QED BY <3>3 DEF InGpu, Held
  <2>4. ASSUME NEW s \in gpuBusy' PROVE Beyond(s)' = 0
    <3>1. s \in Slots /\ Beyond(s) = 0
      BY <2>1, <2>2, <2>3 DEF OwnInv, InFlight
    <3> QED BY <1>4, <3>1 DEF SlotStep
  <2>5. pc'["gpu"] \in {"token", "forward"} => gpuSlot' \notin gpuBusy'
    BY <2>1, <2>3 DEF OwnInv, InFlight
  <2> QED BY <2>4, <2>5 DEF InFlight
<1> QED BY <1>2, <1>3, <1>6, <1>7, <1>8 DEF OwnInv

LEMMA NextOwnInv == TypeInv /\ OwnInv /\ [Next]_vars => OwnInv'
<1> SUFFICES ASSUME TypeInv, OwnInv, [Next]_vars PROVE OwnInv'
  OBVIOUS
<1>1. TypeInv'
  BY NextTypeInv
<1>2. "capture" \in Threads /\ \E w \in Workers : TRUE
  BY ThreadFacts, PipelineAssumption
<1> QED BY <1>1, <1>2, StepOwnInv DEF Next, Finished

\* At first every slot is free, and every RAW buffer free or not allocated.
LEMMA InitOwnInv == Init => OwnInv
<1> SUFFICES ASSUME Init PROVE OwnInv
  OBVIOUS
<1>1. TypeOK
  BY InitTypeInv DEF TypeInv
<1>2. FailedFirst /\ EmptyHands
  <2>1. ~(closed > 0)
    BY DEF Init
  <2>2. \A t \in Threads : pc[t] \in {"next", "pop"}
    BY DEF Init
  <2>3. camera = Nil /\ splitBuf = Nil /\ splitSlot = Nil /\ gpuSlot = Nil
        /\ writing = Nil /\ \A w \in Workers : work[w] = Nil
    BY DEF Init
  <2> QED BY <2>1, <2>2, <2>3 DEF FailedFirst, EmptyHands
<1>3. SlotsOwned
  <2> SUFFICES ASSUME NEW s \in Slots PROVE SlotHolders(s) = 1
    BY DEF SlotsOwned
  <2>1. Nil # s
    BY PipelineAssumption
  <2>2. InFree(s) = 1 /\ InSplit(s) = 0 /\ InGpu(s) = 0 /\ InReorder(s) = 0
        /\ InWriting(s) = 0
    BY <2>1 DEF Init, InFree, InSplit, InGpu, InReorder, InWriting, Held
  <2>3. InGpuq(s) = 0 /\ InEntq(s) = 0 /\ InWriteq(s) = 0
    BY OccurrencesEmpty DEF Init, InGpuq, InEntq, InWriteq
  <2>4. InWork(s) = 0
    <3>1. {w \in Workers : work[w] = s} = {}
      BY <2>1 DEF Init
    <3> QED BY <3>1, FS_EmptySet DEF InWork
  <2> QED BY <1>1, <2>2, <2>3, <2>4, SlotTerms DEF Beyond
<1>4. BuffersOwned
  <2> SUFFICES ASSUME NEW b \in Buffers
               PROVE  /\ BufferHolders(b) <= 1
                      /\ b \in NormalBuffers \/ captureBuf[b] # Nil
                           => BufferHolders(b) = 1
    BY DEF BuffersOwned
  <2>1. Nil # b /\ captureBuf[b] = Nil
    BY PipelineAssumption DEF Init
  <2>2. InCamera(b) = 0 /\ InSplitBuf(b) = 0
    BY <2>1 DEF Init, InCamera, InSplitBuf, Held
  <2>3. InReady(b) = 0
    BY OccurrencesEmpty DEF Init, InReady
  <2>4. /\ InCaptureFree(b) + InUnallocated(b) <= 1
        /\ b \in NormalBuffers => InCaptureFree(b) + InUnallocated(b) = 1
    BY PipelineAssumption DEF Init, InCaptureFree, InUnallocated, Held
  <2> QED BY <1>1, <2>1, <2>2, <2>3, <2>4, BufferTerms
<1>5. InFlight
  BY ThreadFacts DEF Init, InFlight
<1> QED BY <1>2, <1>3, <1>4, <1>5 DEF OwnInv

\* A slot with nobody beyond the completion stage is free nowhere, waits for
\* no worker and no writer, and no worker holds it.
LEMMA NothingBeyond ==
  ASSUME TypeOK, NEW s \in Slots, Beyond(s) = 0
  PROVE  /\ s \notin freeq \cup reorder
         /\ Occurrences(s, entq) + Occurrences(s, writeq) = 0
         /\ \A w \in Workers : work[w] # s
<1>1. InFree(s) = 0 /\ InReorder(s) = 0 /\ InEntq(s) = 0 /\ InWriteq(s) = 0
      /\ InWork(s) = 0
  BY SlotTerms DEF Beyond
<1>2. s \notin freeq \cup reorder
  BY <1>1 DEF InFree, InReorder, Held
<1>3. Occurrences(s, entq) + Occurrences(s, writeq) = 0
  BY <1>1 DEF InEntq, InWriteq
<1>4. {w \in Workers : work[w] = s} = {}
  <2> DEFINE W == {w \in Workers : work[w] = s}
  <2>1. IsFiniteSet(W)
    BY PipelineAssumption, FS_Subset
  <2>2. Cardinality(W) = 0
    BY <1>1 DEF InWork
  <2>3. W = {}
    <3> HIDE DEF W
    <3> QED BY <2>1, <2>2, FS_EmptySet
  <2> QED BY <2>3
<1> QED BY <1>2, <1>3, <1>4

\* Whatever the number of slots, buffers and workers, and whichever stages
\* throw: no processing slot and no RAW buffer is ever in two hands, none is
\* lost while the pass runs, and nobody encodes or frees a slot the device
\* still works on.
THEOREM SlotsHaveOneOwner == Spec => []SingleOwner
<1>1. TypeInv /\ OwnInv => SingleOwner
  <2> SUFFICES ASSUME TypeOK, OwnInv PROVE SingleOwner
    BY DEF TypeInv
  <2>1. \A s \in gpuBusy :
           /\ s \notin freeq \cup reorder
           /\ Occurrences(s, entq) + Occurrences(s, writeq) = 0
           /\ \A w \in Workers : work[w] # s
    BY NothingBeyond DEF OwnInv, InFlight, TypeOK, GpuTypes
  <2> QED BY <2>1 DEF SingleOwner, OwnInv, SlotsOwned, BuffersOwned
<1>2. Spec => [](TypeInv /\ OwnInv)
  BY InitTypeInv, InitOwnInv, NextTypeInv, NextOwnInv, PTL DEF Spec
<1> QED BY <1>1, <1>2, PTL

-----------------------------------------------------------------------------
(* Frames are delivered in order, and none is left behind.                  *)

SplitAlive == pc["split"] \notin {"cancel", "done"}
Running    == outcome = "running"

\* Every captured frame is numbered, or on its way to its number.
NumbersExact ==
    SplitAlive \/ Running =>
       enqueued = split + Splitting + Data(captureReady) + Publishing

\* The RAW buffers hold consecutive frames, in the order they are queued.
RawInOrder ==
    /\ pc["capture"] = "push" => captureBuf[camera] = enqueued - 1
    /\ SplitAlive => \A i \in 1..Data(captureReady) :
                        captureBuf[captureReady[i]] = split + Splitting + i - 1
    /\ pc["split"] \in {"token", "slot", "fill"} => captureBuf[splitBuf] = split
    /\ pc["capture"] \in {"alloc", "blocked", "fill"} => enqueued < MaxFrames

\* A slot holds the samples of the frame it is numbered for, except in the
\* hands of the split thread, and what is encoded from it is that frame.
SlotsHoldTheirFrame ==
    /\ pc["split"] \in {"fill", "return", "submit"} => slotFrame[splitSlot] = split
    /\ \A s \in Slots : \/ slotData[s] = slotFrame[s]
                        \/ s = splitSlot /\ pc["split"] \in {"fill", "cancel", "done"}

Encoded(s) == slotGpr[s] \in Outputs /\ slotGpr[s].frame = slotData[s]
OutputsMatch ==
    ~AllDone =>
      /\ \A w \in Workers : pc[w] = "push" => Encoded(work[w])
      /\ \A s \in Slots : Occurrences(s, writeq) > 0 \/ s \in reorder => Encoded(s)

DeliveredInOrder ==
    /\ completed = Len(delivered)
    /\ \A i \in 1..Len(delivered) : delivered[i] \in Outputs /\ delivered[i].frame = i - 1

\* A frame that is numbered and not delivered is in a slot that is not free.
NotLost == \A n \in completed..(split - 1) :
              \E s \in Slots : /\ slotFrame[s] = n
                               /\ s \notin freeq /\ s # writing

ReturnedLast == outcome \in {"returned", "threw"} => AllDone

OrderInv == /\ NumbersExact /\ RawInOrder /\ SlotsHoldTheirFrame /\ OutputsMatch
            /\ DeliveredInOrder /\ NotLost

\* While nothing fails the sentinel empties every stage before it stops it.
AllEnds(q) == \A i \in 1..Len(q) : q[i] = End
EndsLast(q) == \A i, j \in 1..Len(q) : i < j /\ q[i] = End => q[j] = End
DoneWorkers == {w \in Workers : pc[w] = "done"}

FrontEnd ==
    /\ pc["split"] \in {"end", "done"} => captureReady = <<>> /\ pc["capture"] = "done"
                                          /\ splitSlot = Nil
    /\ EndOnlyLast(gpuq) /\ (pc["split"] # "done" => NoEnd(gpuq))
    /\ pc["gpu"] \in {"ends", "done"} => gpuq = <<>> /\ gpuSlot = Nil /\ pc["split"] = "done"
BackEnd ==
    /\ EndsLast(entq) /\ (pc["gpu"] \notin {"ends", "done"} => NoEnd(entq))
    /\ \A w \in Workers : pc[w] \in {"end", "done"} =>
          AllEnds(entq) /\ work[w] = Nil /\ pc["gpu"] \in {"ends", "done"}
LastStage ==
    /\ ended + Occurrences(End, writeq) = Cardinality(DoneWorkers)
    /\ DoneWorkers = Workers /\ writeq # <<>> => writeq[Len(writeq)] = End
    /\ pc["writer"] = "done" => ended = Cardinality(Workers) /\ reorder = {}
                                /\ writing = Nil
EndInv == Running => FrontEnd /\ BackEnd /\ LastStage
DeliverInv == OrderInv /\ EndInv /\ ReturnedLast /\ OwnInv

-----------------------------------------------------------------------------
(* Threads.                                                                *)

AnyStep(t, w) == \/ Capture \/ Split \/ GpuFinish \/ Completion \/ Entropy(w)
                 \/ Writer \/ Throw(t) \/ Cancel(t) \/ Join \/ UNCHANGED vars

\* A step of a thread moves no other thread.
LEMMA OneThreadMoves ==
  ASSUME TypeOK, NEW w \in Workers
  PROVE  /\ Capture => \A t \in Threads : t # "capture" => pc'[t] = pc[t]
         /\ Split => \A t \in Threads : t # "split" => pc'[t] = pc[t]
         /\ Completion => \A t \in Threads : t # "gpu" => pc'[t] = pc[t]
         /\ Entropy(w) => \A t \in Threads : t # w => pc'[t] = pc[t]
         /\ Writer => \A t \in Threads : t # "writer" => pc'[t] = pc[t]
         /\ GpuFinish \/ Join \/ UNCHANGED vars => pc' = pc
<1> USE DEF TypeOK, Goto
<1>1. Capture => \A t \in Threads : t # "capture" => pc'[t] = pc[t]
  BY DEF Capture, CaptureTryPop, CaptureAllocate, CaptureUnblock, CaptureFill,
     CapturePublish, CaptureStop, CaptureStoreStop, CaptureAnnounceStop, CaptureEnd
<1>2. Split => \A t \in Threads : t # "split" => pc'[t] = pc[t]
  BY DEF Split, SplitPop, SplitTakeToken, SplitTakeSlot, SplitFill,
     SplitReturnBuffer, SplitSubmit, SplitPublish, SplitEnd
<1>3. Completion => \A t \in Threads : t # "gpu" => pc'[t] = pc[t]
  BY DEF Completion, GpuPop, GpuWait, GpuReturnToken, GpuForward, GpuSendEnds
<1>4. Entropy(w) => \A t \in Threads : t # w => pc'[t] = pc[t]
  BY DEF Entropy, EntropyPop, EntropyEncode, EntropyPush, EntropyEnd
<1>5. Writer => \A t \in Threads : t # "writer" => pc'[t] = pc[t]
  BY DEF Writer, WriterPop, WriterCommit, WriterCount, WriterRelease, WriterDrained
<1>6. GpuFinish \/ Join \/ UNCHANGED vars => pc' = pc
  BY DEF GpuFinish, Join, vars
<1> QED BY <1>1, <1>2, <1>3, <1>4, <1>5, <1>6

\* A thread that is done stays done, one that cancels only gets done.
LEMMA DoneStays ==
  ASSUME TypeOK, NEW t \in Threads, NEW w \in Workers, AnyStep(t, w), NEW u \in Threads
  PROVE  /\ pc[u] = "done" => pc'[u] = "done"
         /\ pc[u] = "cancel" => pc'[u] \in {"cancel", "done"}
<1> USE ThreadFacts, OneThreadMoves DEF TypeOK, Goto, At
<1>1. CASE Capture
  BY <1>1 DEF Capture, CaptureTryPop, CaptureAllocate, CaptureUnblock, CaptureFill,
     CapturePublish, CaptureStop, CaptureStoreStop, CaptureAnnounceStop, CaptureEnd
<1>2. CASE Split
  BY <1>2 DEF Split, SplitPop, SplitTakeToken, SplitTakeSlot, SplitFill,
     SplitReturnBuffer, SplitSubmit, SplitPublish, SplitEnd
<1>3. CASE Completion
  BY <1>3 DEF Completion, GpuPop, GpuWait, GpuReturnToken, GpuForward, GpuSendEnds
<1>4. CASE Entropy(w)
  BY <1>4 DEF Entropy, EntropyPop, EntropyEncode, EntropyPush, EntropyEnd
<1>5. CASE Writer
  BY <1>5 DEF Writer, WriterPop, WriterCommit, WriterCount, WriterRelease, WriterDrained
<1>6. CASE GpuFinish \/ Join \/ UNCHANGED vars
  BY <1>6
<1>7. CASE Throw(t) \/ Cancel(t)
  BY <1>7 DEF Throw, MayThrow, Cancel
<1> QED BY <1>1, <1>2, <1>3, <1>4, <1>5, <1>6, <1>7 DEF AnyStep

\* The outcome once a pass has ended; and no pass ends before its threads.
LEMMA ReturnedLastNext ==
  ASSUME TypeOK, ReturnedLast, NEW t \in Threads, NEW w \in Workers, AnyStep(t, w)
  PROVE  /\ ReturnedLast'
         /\ AllDone => AllDone'
         /\ AllDone /\ outcome # "running" => outcome' \in {outcome, "threw"}
<1>1. AllDone => AllDone'
  BY DoneStays DEF AllDone
<1>2. \/ outcome' = outcome
      \/ Join
      \/ outcome' = "failing" /\ ~AllDone
  <2>1. CASE Writer
    BY <2>1, ThreadFacts DEF Writer, WriterPop, WriterCommit, WriterCount, WriterRelease,
       WriterDrained, AllDone, At
  <2>2. CASE Throw(t)
    <3>1. pc[t] # "done"
      BY <2>2, ThreadFacts DEF Throw, MayThrow
    <3> QED BY <2>2, <3>1 DEF Throw, AllDone
  <2>3. CASE Capture
    BY <2>3 DEF Capture, CaptureTryPop, CaptureAllocate, CaptureUnblock, CaptureFill,
       CapturePublish, CaptureStop, CaptureStoreStop, CaptureAnnounceStop, CaptureEnd
  <2>4. CASE Split
    BY <2>4 DEF Split, SplitPop, SplitTakeToken, SplitTakeSlot, SplitFill,
       SplitReturnBuffer, SplitSubmit, SplitPublish, SplitEnd
  <2>5. CASE GpuFinish \/ Completion
    BY <2>5 DEF GpuFinish, Completion, GpuPop, GpuWait, GpuReturnToken, GpuForward,
       GpuSendEnds
  <2>6. CASE Entropy(w)
    BY <2>6 DEF Entropy, EntropyPop, EntropyEncode, EntropyPush, EntropyEnd
  <2>7. CASE Cancel(t) \/ UNCHANGED vars
    BY <2>7 DEF Cancel, vars
  <2> QED BY <2>1, <2>2, <2>3, <2>4, <2>5, <2>6, <2>7 DEF AnyStep
<1>3. Join => AllDone' /\ (outcome # "running" => outcome' \in {outcome, "threw"})
  BY <1>1 DEF Join
<1>4. ReturnedLast'
  BY <1>1, <1>2, <1>3 DEF ReturnedLast
<1> QED BY <1>1, <1>2, <1>3, <1>4

-----------------------------------------------------------------------------
(* From the camera to the numbered slot.                                   *)

FrontInv == NumbersExact /\ RawInOrder /\ SlotsHoldTheirFrame

LEMMA ReadyFrames ==
  ASSUME TypeOK, CountInv, NEW i \in 1..Data(captureReady)
  PROVE  i \in 1..Len(captureReady) /\ captureReady[i] \in Buffers
<1>1. captureReady \in Seq(Buffers \cup {End}) /\ EndOnlyLast(captureReady)
  BY CountTypes DEF CountInv, EndComesLast
<1>2. i \in 1..Len(captureReady) /\ (captureReady[i] = End => i # Len(captureReady))
  BY <1>1 DEF Data
<1>3. captureReady[i] # End
  BY <1>1, <1>2 DEF EndOnlyLast
<1> QED BY <1>1, <1>2, <1>3

\* The other threads leave the front of the pipeline alone, and so does a
\* failure.
LEMMA FrontUntouched ==
  ASSUME TypeOK, FrontInv,
         UNCHANGED <<captureReady, split, enqueued, captureBuf, camera, splitBuf,
                     splitSlot, slotFrame, slotData>>,
         outcome' = "running" => outcome = "running",
         \/ pc'["split"] = pc["split"]
         \/ pc'["split"] \in {"cancel", "done"} /\ outcome' # "running",
         \/ pc'["capture"] = pc["capture"]
         \/ pc'["capture"] \in {"cancel", "done"} /\ pc["capture"] # "push"
  PROVE  FrontInv'
<1>1. Data(captureReady') = Data(captureReady) /\ Publishing' = Publishing
  BY DEF Publishing
<1>2. SplitAlive' => SplitAlive /\ Splitting' = Splitting /\ pc'["split"] = pc["split"]
  BY DEF SplitAlive, Splitting
<1>3. Running' => pc'["split"] = pc["split"] /\ Running /\ Splitting' = Splitting
  BY DEF Running, Splitting
<1>4. NumbersExact'
  BY <1>1, <1>2, <1>3 DEF FrontInv, NumbersExact
<1>5. RawInOrder'
  BY <1>1, <1>2 DEF FrontInv, RawInOrder
<1>6. SlotsHoldTheirFrame'
  BY DEF FrontInv, SlotsHoldTheirFrame
<1> QED BY <1>4, <1>5, <1>6 DEF FrontInv

\* A buffer in the camera's hands waits for no split and is not being split.
LEMMA CameraAlone ==
  ASSUME TypeOK, OwnInv, camera \in Buffers
  PROVE  /\ \A i \in 1..Len(captureReady) : captureReady[i] # camera
         /\ splitBuf # camera
<1>1. BufferHolders(camera) <= 1 /\ InCamera(camera) = 1
  BY DEF OwnInv, BuffersOwned, InCamera, Held
<1>2. InReady(camera) = 0 /\ InSplitBuf(camera) = 0
  BY <1>1, BufferTerms
<1>3. captureReady \in Seq(Buffers \cup {End})
  BY CountTypes
<1>4. Places(camera, captureReady) = {}
  BY <1>2, <1>3, OccurrencesType, FS_EmptySet DEF InReady
<1> QED BY <1>2, <1>3, <1>4 DEF Places, InSplitBuf, Held

LEMMA CaptureFrontInv ==
  ASSUME TypeOK, TypeOK', HandsMatchPc, CountInv, OwnInv, FrontInv, Capture
  PROVE  FrontInv'
<1> USE ThreadFacts
<1>1. pc'["split"] = pc["split"]
  BY OneThreadMoves, PipelineAssumption
<1>2. UNCHANGED <<split, splitBuf, splitSlot, slotFrame, slotData, outcome>>
  BY DEF Capture, CaptureTryPop, CaptureAllocate, CaptureUnblock, CaptureFill,
     CapturePublish, CaptureStop, CaptureStoreStop, CaptureAnnounceStop, CaptureEnd, splitVars
<1>3. SlotsHoldTheirFrame'
  BY <1>1, <1>2 DEF FrontInv, SlotsHoldTheirFrame
<1>4. SplitAlive' = SplitAlive /\ Splitting' = Splitting /\ Running' = Running
  BY <1>1, <1>2 DEF SplitAlive, Splitting, Running
<1>5. /\ captureReady \in Seq(Buffers \cup {End}) /\ Data(captureReady) \in Nat
      /\ split \in Nat /\ enqueued \in Nat /\ Splitting \in {0, 1}
      /\ pc \in [Threads -> Labels]
  BY CountTypes DEF TypeOK
<1>6. CASE \/ CaptureTryPop \/ CaptureAllocate \/ CaptureUnblock
           \/ CaptureStop \/ CaptureStoreStop \/ CaptureAnnounceStop
  <2>1. UNCHANGED <<captureReady, captureBuf, enqueued>>
    BY <1>6 DEF CaptureTryPop, CaptureAllocate, CaptureUnblock, CaptureStop, CaptureStoreStop,
       CaptureAnnounceStop, queueVars, captureVars, counterVars
  <2>2. /\ pc["capture"] # "push" /\ pc'["capture"] # "push"
        /\ pc'["capture"] \in {"alloc", "blocked", "fill"} => enqueued < MaxFrames
    BY <1>5, <1>6 DEF CaptureTryPop, CaptureAllocate, CaptureUnblock, CaptureStop, CaptureStoreStop,
       CaptureAnnounceStop, Goto, At, FrontInv, RawInOrder
  <2>3. Data(captureReady') = Data(captureReady) /\ Publishing' = Publishing
    BY <2>1, <2>2 DEF Publishing
  <2>4. NumbersExact'
    BY <1>2, <1>4, <2>1, <2>3 DEF FrontInv, NumbersExact
  <2>5. RawInOrder'
    BY <1>1, <1>2, <1>4, <2>1, <2>2, <2>3 DEF FrontInv, RawInOrder
  <2> QED BY <1>3, <2>4, <2>5 DEF FrontInv
<1>7. CASE CaptureFill
  <2>1. /\ UNCHANGED <<captureReady, camera>>
        /\ enqueued' = enqueued + 1 /\ enqueued' - 1 = enqueued
        /\ captureBuf' = [captureBuf EXCEPT ![camera] = enqueued]
        /\ pc["capture"] = "fill" /\ pc'["capture"] = "push"
    BY <1>5, <1>7 DEF CaptureFill, queueVars, Goto, At
  <2>2. camera \in Buffers
    BY <2>1 DEF HandsMatchPc
  <2>3. Data(captureReady') = Data(captureReady) /\ Publishing = 0 /\ Publishing' = 1
    BY <2>1 DEF Publishing
  <2>4. NumbersExact'
    BY <1>2, <1>4, <1>5, <2>1, <2>3 DEF FrontInv, NumbersExact
  <2>5. captureBuf'[camera] = enqueued
        /\ \A b \in Buffers : b # camera => captureBuf'[b] = captureBuf[b]
    BY <2>1, <2>2 DEF TypeOK, CaptureTypes
  <2>6. \A i \in 1..Data(captureReady) :
           captureBuf'[captureReady[i]] = captureBuf[captureReady[i]]
    BY <2>2, <2>5, ReadyFrames, CameraAlone
  <2>7. pc["split"] \in {"token", "slot", "fill"} =>
           captureBuf'[splitBuf] = captureBuf[splitBuf]
    BY <2>2, <2>5, CameraAlone DEF HandsMatchPc
  <2>8. RawInOrder'
    BY <1>1, <1>2, <1>4, <2>1, <2>3, <2>5, <2>6, <2>7 DEF FrontInv, RawInOrder
  <2> QED BY <1>3, <2>4, <2>8 DEF FrontInv
<1>8. CASE CapturePublish
  <2>1. /\ UNCHANGED <<captureBuf, enqueued>>
        /\ captureReady' = Append(captureReady, camera)
        /\ pc["capture"] = "push" /\ pc'["capture"] = "next"
    BY <1>5, <1>8 DEF CapturePublish, counterVars, Goto, At
  <2>2. camera \in Buffers /\ NoEnd(captureReady)
    BY <2>1 DEF HandsMatchPc, CountInv, EndComesLast
  <2>3. Data(captureReady') = Data(captureReady) + 1
    BY <1>5, <2>1, <2>2, DataFacts
  <2>4. Publishing = 1 /\ Publishing' = 0
    BY <2>1 DEF Publishing
  <2>5. NumbersExact'
    BY <1>2, <1>4, <1>5, <2>1, <2>3, <2>4 DEF FrontInv, NumbersExact
  <2>6. Data(captureReady) = Len(captureReady)
    BY <1>5, <2>2 DEF Data, NoEnd
  <2>7. ASSUME SplitAlive, NEW i \in 1..Data(captureReady')
        PROVE  captureBuf[captureReady'[i]] = split + Splitting + i - 1
    <3>1. CASE i \in 1..Data(captureReady)
      <4>1. captureReady'[i] = captureReady[i]
        BY <1>5, <2>1, <2>2, <2>6, <3>1
      <4> QED BY <2>7, <3>1, <4>1 DEF FrontInv, RawInOrder
    <3>2. CASE i = Data(captureReady) + 1
      <4>1. captureReady'[i] = camera
        BY <1>5, <2>1, <2>2, <2>6, <3>2
      <4>2. captureBuf[camera] = enqueued - 1
        BY <2>1 DEF FrontInv, RawInOrder
      <4>3. enqueued = split + Splitting + Data(captureReady) + 1
        BY <2>4, <2>7 DEF FrontInv, NumbersExact
      <4> QED BY <1>5, <3>2, <4>1, <4>2, <4>3
    <3> QED BY <1>5, <2>3, <3>1, <3>2
  <2>8. RawInOrder'
    BY <1>1, <1>2, <1>4, <2>1, <2>7 DEF FrontInv, RawInOrder
  <2> QED BY <1>3, <2>5, <2>8 DEF FrontInv
<1>9. CASE CaptureEnd
  <2>1. /\ UNCHANGED <<captureBuf, enqueued, camera>>
        /\ captureReady' = Append(captureReady, End)
        /\ pc["capture"] = "end" /\ pc'["capture"] = "done"
    BY <1>5, <1>9 DEF CaptureEnd, captureVars, counterVars, Goto, At
  <2>2. NoEnd(captureReady)
    BY <2>1 DEF CountInv, EndComesLast
  <2>3. Data(captureReady') = Data(captureReady) /\ Publishing' = Publishing
    BY <1>5, <2>1, <2>2, DataFacts DEF Publishing
  <2>4. NumbersExact'
    BY <1>2, <1>4, <2>1, <2>3 DEF FrontInv, NumbersExact
  <2>5. \A i \in 1..Data(captureReady) : captureReady'[i] = captureReady[i]
    BY <1>5, <2>1, ReadyFrames
  <2>6. RawInOrder'
    BY <1>1, <1>2, <1>4, <2>1, <2>3, <2>5 DEF FrontInv, RawInOrder
  <2> QED BY <1>3, <2>4, <2>6 DEF FrontInv
<1> QED BY <1>6, <1>7, <1>8, <1>9 DEF Capture

\* No queue is closed while the pass runs.
LEMMA RunningOpen ==
  ASSUME TypeOK, OwnInv, Running
  PROVE  /\ ~FreeqClosed /\ ~TokensClosed /\ ~GpuqClosed /\ ~EntqClosed /\ ~WriteqClosed
         /\ \A t \in Threads : pc[t] # "cancel"
<1>1. closed \in Nat /\ ~(closed > 0)
  BY SlotQueues DEF OwnInv, FailedFirst, Running
<1>2. closed = 0
  BY ONLY <1>1
<1> QED BY <1>2 DEF FreeqClosed, TokensClosed, GpuqClosed, EntqClosed, WriteqClosed,
        OwnInv, FailedFirst, Running

LEMMA SplitFrontInv ==
  ASSUME TypeOK, TypeOK', HandsMatchPc, CountInv, OwnInv, FrontInv, Split
  PROVE  FrontInv'
<1> USE ThreadFacts
<1>1. pc'["capture"] = pc["capture"]
  BY OneThreadMoves, PipelineAssumption
<1>2. UNCHANGED <<captureBuf, camera, enqueued, outcome>>
  BY DEF Split, SplitPop, SplitTakeToken, SplitTakeSlot, SplitFill,
     SplitReturnBuffer, SplitSubmit, SplitPublish, SplitEnd, captureVars, counterVars
<1>3. Publishing' = Publishing /\ Running' = Running
  BY <1>1, <1>2 DEF Publishing, Running
<1>4. /\ captureReady \in Seq(Buffers \cup {End}) /\ Data(captureReady) \in Nat
      /\ split \in Nat /\ enqueued \in Nat /\ Splitting \in {0, 1} /\ Publishing \in {0, 1}
      /\ pc \in [Threads -> Labels]
  BY CountTypes DEF TypeOK
<1>5. CASE SplitPop
  <2>1. /\ captureReady # <<>> /\ captureReady' = Tail(captureReady)
        /\ UNCHANGED <<split, splitSlot, slotFrame, slotData>>
        /\ pc["split"] = "pop"
    BY <1>5 DEF SplitPop, At
  <2>2. SplitAlive /\ Splitting = 0
    BY <2>1 DEF SplitAlive, Splitting
  <2>3. EndOnlyLast(captureReady)
    BY DEF CountInv, EndComesLast
  <2>4. Data(captureReady) = Data(captureReady') + (IF Head(captureReady) = End THEN 0 ELSE 1)
    BY <1>4, <2>1, <2>3, DataFacts
  <2>5. CASE Head(captureReady) = End
    <3>1. pc'["split"] = "end" /\ splitBuf' = splitBuf
      BY <1>4, <1>5, <2>5 DEF SplitPop, Goto
    <3>2. Splitting' = 0 /\ Data(captureReady') = Data(captureReady)
      <4>1. Data(captureReady') \in Nat
        BY <1>4, <2>1, QueueFacts, DataFacts
      <4> QED BY <1>4, <2>4, <2>5, <3>1, <4>1 DEF Splitting
    <3>3. Data(captureReady) = 0
      <4>1. 1 \in 1..Len(captureReady) /\ captureReady[1] = End
        BY <1>4, <2>1, <2>5
      <4>2. Len(captureReady) = 1
        BY <2>3, <4>1 DEF EndOnlyLast
      <4> QED BY <2>1, <4>1, <4>2 DEF Data
    <3>4. NumbersExact'
      BY <1>2, <1>3, <2>1, <2>2, <3>1, <3>2 DEF FrontInv, NumbersExact
    <3>5. RawInOrder'
      BY <1>1, <1>2, <3>1, <3>2, <3>3 DEF FrontInv, RawInOrder
    <3>6. SlotsHoldTheirFrame'
      BY <2>1, <3>1 DEF FrontInv, SlotsHoldTheirFrame
    <3> QED BY <3>4, <3>5, <3>6 DEF FrontInv
  <2>6. CASE Head(captureReady) # End
    <3>1. pc'["split"] = "token" /\ splitBuf' = Head(captureReady)
      BY <1>4, <1>5, <2>6 DEF SplitPop, Goto
    <3>2. Splitting' = 1
      BY <3>1 DEF Splitting
    <3>3. Data(captureReady') \in Nat /\ Data(captureReady) = Data(captureReady') + 1
      BY <2>4, <2>6, CountTypes, <1>4, <2>1, QueueFacts, DataFacts
    <3>4. NumbersExact'
      BY <1>2, <1>3, <1>4, <2>1, <2>2, <3>2, <3>3 DEF FrontInv, NumbersExact
    <3>5. captureBuf[Head(captureReady)] = split
      <4>1. 1 \in 1..Data(captureReady) /\ captureReady[1] = Head(captureReady)
        BY <1>4, <2>1, <3>3
      <4>2. captureBuf[captureReady[1]] = split + Splitting + 1 - 1
        BY <2>2, <4>1 DEF FrontInv, RawInOrder
      <4> QED BY <1>4, <2>2, <4>1, <4>2
    <3>6. ASSUME NEW i \in 1..Data(captureReady')
          PROVE  captureBuf[captureReady'[i]] = split + 1 + i - 1
      <4>1. i + 1 \in 1..Data(captureReady) /\ i \in Nat
        BY <3>3
      <4>2. i + 1 \in 1..Len(captureReady)
        BY <4>1, ReadyFrames
      <4>3. captureReady'[i] = captureReady[i + 1]
        BY <1>4, <2>1, <4>1, <4>2
      <4>4. captureBuf[captureReady[i + 1]] = split + Splitting + (i + 1) - 1
        BY <2>2, <4>1 DEF FrontInv, RawInOrder
      <4> QED BY <1>4, <2>2, <4>1, <4>3, <4>4
    <3>7. RawInOrder'
      BY <1>1, <1>2, <2>1, <3>1, <3>2, <3>5, <3>6 DEF FrontInv, RawInOrder
    <3>8. SlotsHoldTheirFrame'
      BY <2>1, <3>1 DEF FrontInv, SlotsHoldTheirFrame
    <3> QED BY <3>4, <3>7, <3>8 DEF FrontInv
  <2> QED BY <2>5, <2>6
<1>6. CASE SplitTakeToken \/ SplitEnd \/ SplitPublish
  <2>1. UNCHANGED <<captureReady, split, splitBuf, slotFrame, slotData>>
    BY <1>6 DEF SplitTakeToken, SplitEnd, SplitPublish, splitVars
  <2>2. \/ /\ pc["split"] = "token" /\ pc'["split"] = "slot"
        \/ /\ pc["split"] = "publish" /\ pc'["split"] = "pop"
        \/ /\ pc["split"] = "end" /\ pc'["split"] = "done"
        \/ /\ pc["split"] \in {"token", "publish"} /\ pc'["split"] = "done"
           /\ TokensClosed \/ GpuqClosed
    BY <1>4, <1>6 DEF SplitTakeToken, SplitEnd, SplitPublish, Goto, At
  <2>3. SplitAlive
    BY <2>2 DEF SplitAlive
  <2>4. SplitAlive' \/ Running' => Splitting' = Splitting
    BY <1>3, <2>2, RunningOpen DEF SplitAlive, Splitting
  <2>5. Data(captureReady') = Data(captureReady)
    BY <2>1
  <2>6. NumbersExact'
    BY <1>2, <1>3, <2>1, <2>3, <2>4, <2>5 DEF FrontInv, NumbersExact
  <2>7. RawInOrder'
    BY <1>1, <1>2, <2>1, <2>2, <2>3, <2>4, <2>5 DEF FrontInv, RawInOrder
  <2>8. SlotsHoldTheirFrame'
    BY <2>1, <2>2 DEF FrontInv, SlotsHoldTheirFrame
  <2> QED BY <2>6, <2>7, <2>8 DEF FrontInv
<1>7. CASE SplitTakeSlot
  <2>1. UNCHANGED <<captureReady, split, splitBuf, slotData>> /\ pc["split"] = "slot"
    BY <1>7 DEF SplitTakeSlot, At
  <2>2. SplitAlive /\ Splitting = 1 /\ \A s \in Slots : slotData[s] = slotFrame[s]
    BY <2>1 DEF SplitAlive, Splitting, FrontInv, SlotsHoldTheirFrame
  <2>3. Data(captureReady') = Data(captureReady)
    BY <2>1
  <2>4. CASE pc'["split"] = "fill" /\ \E s \in freeq : splitSlot' = s
                 /\ slotFrame' = [slotFrame EXCEPT ![s] = split]
    <3>1. Splitting' = 1
      BY <2>4 DEF Splitting
    <3>2. NumbersExact'
      BY <1>2, <1>3, <2>1, <2>2, <2>3, <3>1 DEF FrontInv, NumbersExact
    <3>3. RawInOrder'
      BY <1>1, <1>2, <2>1, <2>2, <2>3, <2>4, <3>1 DEF FrontInv, RawInOrder
    <3>4. slotFrame'[splitSlot'] = split
          /\ \A s \in Slots : s # splitSlot' => slotFrame'[s] = slotFrame[s]
      BY <2>4 DEF TypeOK, SplitTypes, QueueTypes
    <3>5. SlotsHoldTheirFrame'
      BY <2>1, <2>2, <2>4, <3>4 DEF SlotsHoldTheirFrame
    <3> QED BY <3>2, <3>3, <3>5 DEF FrontInv
  <2>5. CASE pc'["split"] = "done" /\ FreeqClosed /\ slotFrame' = slotFrame
    <3>1. ~SplitAlive' /\ ~Running'
      BY <1>3, <2>5, RunningOpen DEF SplitAlive
    <3>2. NumbersExact'
      BY <3>1 DEF NumbersExact
    <3>3. RawInOrder'
      BY <1>1, <1>2, <2>5, <3>1 DEF FrontInv, RawInOrder
    <3>4. SlotsHoldTheirFrame'
      BY <2>1, <2>2, <2>5 DEF SlotsHoldTheirFrame
    <3> QED BY <3>2, <3>3, <3>4 DEF FrontInv
  <2> QED BY <1>4, <1>7, <2>4, <2>5 DEF SplitTakeSlot, Goto
<1>8. CASE SplitFill
  <2>1. UNCHANGED <<captureReady, split, splitBuf, splitSlot, slotFrame>>
        /\ pc["split"] = "fill" /\ pc'["split"] = "return"
        /\ slotData' = [slotData EXCEPT ![splitSlot] = captureBuf[splitBuf]]
    BY <1>4, <1>8 DEF SplitFill, queueVars, At, Goto
  <2>2. SplitAlive /\ Splitting = 1 /\ Splitting' = 1
    BY <2>1 DEF SplitAlive, Splitting
  <2>3. Data(captureReady') = Data(captureReady)
    BY <2>1
  <2>4. NumbersExact'
    BY <1>2, <1>3, <2>1, <2>2, <2>3 DEF FrontInv, NumbersExact
  <2>5. RawInOrder'
    BY <1>1, <1>2, <2>1, <2>2, <2>3 DEF FrontInv, RawInOrder
  <2>6. slotFrame[splitSlot] = split /\ captureBuf[splitBuf] = split /\ splitSlot \in Slots
    BY <2>1 DEF FrontInv, SlotsHoldTheirFrame, RawInOrder, HandsMatchPc
  <2>7. slotData'[splitSlot] = split
        /\ \A s \in Slots : s # splitSlot => slotData'[s] = slotData[s]
    BY <2>1, <2>6 DEF TypeOK, SplitTypes
  <2>8. SlotsHoldTheirFrame'
    BY <2>1, <2>6, <2>7 DEF FrontInv, SlotsHoldTheirFrame
  <2> QED BY <2>4, <2>5, <2>8 DEF FrontInv
<1>9. CASE SplitReturnBuffer
  <2>1. UNCHANGED <<captureReady, split, splitSlot, slotFrame, slotData>>
        /\ pc["split"] = "return" /\ pc'["split"] = "submit"
    BY <1>4, <1>9 DEF SplitReturnBuffer, queueVars, At, Goto
  <2>2. SplitAlive /\ Splitting = 1 /\ Splitting' = 1
    BY <2>1 DEF SplitAlive, Splitting
  <2>3. Data(captureReady') = Data(captureReady)
    BY <2>1
  <2>4. NumbersExact'
    BY <1>2, <1>3, <2>1, <2>2, <2>3 DEF FrontInv, NumbersExact
  <2>5. RawInOrder'
    BY <1>1, <1>2, <2>1, <2>2, <2>3 DEF FrontInv, RawInOrder
  <2>6. SlotsHoldTheirFrame'
    BY <2>1 DEF FrontInv, SlotsHoldTheirFrame
  <2> QED BY <2>4, <2>5, <2>6 DEF FrontInv
<1>10. CASE SplitSubmit
  <2>1. UNCHANGED <<captureReady, splitBuf, splitSlot, slotFrame, slotData>>
        /\ pc["split"] = "submit" /\ pc'["split"] = "publish" /\ split' = split + 1
    BY <1>4, <1>10 DEF SplitSubmit, queueVars, At, Goto
  <2>2. SplitAlive /\ Splitting = 1 /\ Splitting' = 0
    BY <2>1 DEF SplitAlive, Splitting
  <2>3. Data(captureReady') = Data(captureReady) /\ split' + Splitting' = split + Splitting
    BY <1>4, <2>1, <2>2
  <2>4. NumbersExact'
    BY <1>2, <1>3, <2>2, <2>3 DEF FrontInv, NumbersExact
  <2>5. RawInOrder'
    BY <1>1, <1>2, <2>1, <2>2, <2>3 DEF FrontInv, RawInOrder
  <2>6. SlotsHoldTheirFrame'
    BY <2>1 DEF FrontInv, SlotsHoldTheirFrame
  <2> QED BY <2>4, <2>5, <2>6 DEF FrontInv
<1> QED BY <1>5, <1>6, <1>7, <1>8, <1>9, <1>10 DEF Split

LEMMA OtherFrontInv ==
  ASSUME TypeOK, OwnInv, FrontInv, NEW t \in Threads, NEW w \in Workers,
         GpuFinish \/ Completion \/ Entropy(w) \/ Writer \/ Throw(t) \/ Cancel(t)
         \/ Join \/ UNCHANGED vars
  PROVE  FrontInv'
<1>1. UNCHANGED <<captureReady, split, enqueued, captureBuf, camera, splitBuf,
                  splitSlot, slotFrame, slotData>>
  BY DEF GpuFinish, Completion, GpuPop, GpuWait, GpuReturnToken, GpuForward,
     GpuSendEnds, Entropy, EntropyPop, EntropyEncode, EntropyPush, EntropyEnd,
     Writer, WriterPop, WriterCommit, WriterCount, WriterRelease, WriterDrained, Throw,
     Cancel, Join, vars, captureVars, splitVars, queueVars, counterVars
<1>2. outcome' = "running" => outcome = "running"
  BY FailedFirstNext DEF OwnInv
<1>3. CASE GpuFinish \/ Completion \/ Entropy(w) \/ Writer \/ Join \/ UNCHANGED vars
  <2>1. pc'["split"] = pc["split"] /\ pc'["capture"] = pc["capture"]
    BY <1>3, OneThreadMoves, ThreadFacts
  <2> QED BY <1>1, <1>2, <2>1, FrontUntouched
<1>4. CASE Throw(t)
  <2>1. outcome' # "running" /\ pc' = [pc EXCEPT ![t] = "cancel"]
    BY <1>4 DEF Throw, Goto
  <2>2. t = "capture" => pc["capture"] # "push"
    BY <1>4, ThreadFacts DEF Throw, MayThrow
  <2>3. \/ pc'["split"] = pc["split"]
        \/ pc'["split"] \in {"cancel", "done"} /\ outcome' # "running"
    BY <2>1, ThreadFacts DEF TypeOK
  <2>4. \/ pc'["capture"] = pc["capture"]
        \/ pc'["capture"] \in {"cancel", "done"} /\ pc["capture"] # "push"
    BY <2>1, <2>2, ThreadFacts DEF TypeOK
  <2> QED BY <1>1, <1>2, <2>3, <2>4, FrontUntouched
<1>5. CASE Cancel(t)
  <2>1. pc[t] = "cancel" /\ (pc' = pc \/ pc' = [pc EXCEPT ![t] = "done"])
        /\ outcome' = outcome
    BY <1>5 DEF Cancel, At, Goto
  <2>2. outcome' # "running"
    BY <2>1 DEF OwnInv, FailedFirst
  <2>3. \/ pc'["split"] = pc["split"]
        \/ pc'["split"] \in {"cancel", "done"} /\ outcome' # "running"
    BY <2>1, <2>2, ThreadFacts DEF TypeOK
  <2>4. \/ pc'["capture"] = pc["capture"]
        \/ pc'["capture"] \in {"cancel", "done"} /\ pc["capture"] # "push"
    BY <2>1, ThreadFacts DEF TypeOK
  <2> QED BY <1>1, <1>2, <2>3, <2>4, FrontUntouched
<1> QED BY <1>3, <1>4, <1>5

-----------------------------------------------------------------------------
(* What is encoded.                                                        *)

LEMMA NotWorkedOn ==
  ASSUME NEW s \in Slots, InWork(s) = 0
  PROVE  \A w \in Workers : work[w] # s
<1> DEFINE W == {w \in Workers : work[w] = s}
<1>1. IsFiniteSet(W)
  BY PipelineAssumption, FS_Subset
<1>2. Cardinality(W) = 0
  BY DEF InWork
<1>3. W = {}
  <2> HIDE DEF W
  <2> QED BY <1>1, <1>2, FS_EmptySet
<1> QED BY <1>3

LEMMA BeyondTerms ==
  ASSUME TypeOK, NEW s \in Slots, Beyond(s) = 0
  PROVE  /\ InFree(s) = 0 /\ InReorder(s) = 0 /\ InWriteq(s) = 0
         /\ InWriting(s) = 0 /\ InWork(s) = 0
<1>1. InFree(s) = 0 /\ InReorder(s) = 0 /\ InEntq(s) = 0 /\ InWriteq(s) = 0
      /\ InWork(s) = 0
  BY SlotTerms DEF Beyond
<1>2. InWriting(s) = 0
  <2>1. Beyond(s) = InWriting(s)
    BY <1>1, SlotTerms DEF Beyond
  <2> QED BY <2>1
<1> QED BY <1>1, <1>2

\* The slot the split thread holds is nowhere beyond the device, and the one
\* the writer commits is nowhere else.
LEMMA SplitSlotAlone ==
  ASSUME TypeOK, OwnInv, splitSlot \in Slots
  PROVE  /\ splitSlot \notin freeq \cup reorder /\ writing # splitSlot
         /\ Occurrences(splitSlot, writeq) = 0
         /\ \A w \in Workers : work[w] # splitSlot
<1>1. InSplit(splitSlot) = 1 /\ SlotHolders(splitSlot) <= 1
  BY DEF InSplit, Held, OwnInv, SlotsOwned
<1>2. Beyond(splitSlot) = 0
  BY <1>1, SlotTerms
<1>3. InFree(splitSlot) = 0 /\ InReorder(splitSlot) = 0 /\ InWriteq(splitSlot) = 0
      /\ InWriting(splitSlot) = 0 /\ InWork(splitSlot) = 0
  BY <1>2, BeyondTerms
<1> QED BY <1>3, NotWorkedOn DEF InFree, InReorder, InWriteq, InWriting, Held

LEMMA WritingAlone ==
  ASSUME TypeOK, OwnInv, writing \in Slots
  PROVE  /\ writing \notin freeq \cup reorder /\ Occurrences(writing, writeq) = 0
         /\ \A w \in Workers : work[w] # writing
<1>1. InWriting(writing) = 1 /\ SlotHolders(writing) <= 1
  BY DEF InWriting, Held, OwnInv, SlotsOwned
<1>2. InFree(writing) = 0 /\ InReorder(writing) = 0 /\ InWriteq(writing) = 0
      /\ InWork(writing) = 0
  BY <1>1, SlotTerms DEF Beyond
<1> QED BY <1>2, NotWorkedOn DEF InFree, InReorder, InWriteq, Held

LEMMA OutputsUntouched ==
  ASSUME OutputsMatch, AllDone => AllDone',
         UNCHANGED <<slotGpr, slotData, writeq, reorder, work>>,
         \A w \in Workers : pc'[w] = "push" => pc[w] = "push"
  PROVE  OutputsMatch'
  BY DEF OutputsMatch, Encoded, Occurrences

LEMMA SplitOutputs ==
  ASSUME TypeOK, HandsMatchPc, OwnInv, OutputsMatch, Split, AllDone => AllDone'
  PROVE  OutputsMatch'
<1> USE ThreadFacts
<1>1. UNCHANGED <<slotGpr, writeq, reorder, work>>
  BY DEF Split, SplitPop, SplitTakeToken, SplitTakeSlot, SplitFill,
     SplitReturnBuffer, SplitSubmit, SplitPublish, SplitEnd, entropyVars,
     writerVars, queueVars
<1>2. \A w \in Workers : pc'[w] = pc[w]
  BY OneThreadMoves
<1>3. CASE SplitFill
  <2>1. splitSlot \in Slots /\ slotData' = [slotData EXCEPT ![splitSlot] = captureBuf[splitBuf]]
    BY <1>3 DEF SplitFill, At, HandsMatchPc
  <2>2. \A s \in Slots : s # splitSlot => slotData'[s] = slotData[s]
    BY <2>1 DEF TypeOK, SplitTypes
  <2>3. /\ splitSlot \notin reorder /\ ~(Occurrences(splitSlot, writeq) > 0)
        /\ \A w \in Workers : work[w] # splitSlot
    BY <2>1, SplitSlotAlone
  <2>4. ASSUME ~AllDone, NEW s \in Slots, Occurrences(s, writeq) > 0 \/ s \in reorder
        PROVE  Encoded(s)'
    BY <1>1, <2>2, <2>3, <2>4 DEF OutputsMatch, Encoded
  <2>5. ASSUME ~AllDone, NEW w \in Workers, pc[w] = "push"
        PROVE  Encoded(work[w])'
    <3>1. work[w] \in Slots /\ work[w] # splitSlot
      BY <2>3, <2>5 DEF HandsMatchPc
    <3>2. Encoded(work[w])
      BY <2>5 DEF OutputsMatch
    <3> QED BY <1>1, <2>2, <3>1, <3>2 DEF Encoded
  <2>6. \A s \in Slots : Occurrences(s, writeq)' = Occurrences(s, writeq)
    BY <1>1 DEF Occurrences
  <2> QED BY <1>1, <1>2, <2>4, <2>5, <2>6 DEF OutputsMatch
<1>4. CASE ~SplitFill
  <2>1. slotData' = slotData
    BY <1>4 DEF Split, SplitPop, SplitTakeToken, SplitTakeSlot, SplitReturnBuffer,
       SplitSubmit, SplitPublish, SplitEnd, splitVars
  <2> QED BY <1>1, <1>2, <2>1, OutputsUntouched
<1> QED BY <1>3, <1>4

LEMMA EntropyOutputs ==
  ASSUME TypeOK, TypeOK', HandsMatchPc, OutputsMatch, NEW w \in Workers, Entropy(w),
         AllDone => AllDone'
  PROVE  OutputsMatch'
<1> USE ThreadFacts
<1>1. UNCHANGED <<slotData, reorder>>
  BY DEF Entropy, EntropyPop, EntropyEncode, EntropyPush, EntropyEnd, splitVars,
     writerVars
<1>2. \A v \in Workers : v # w => pc'[v] = pc[v] /\ work'[v] = work[v]
  <2>1. \A v \in Workers : v # w => pc'[v] = pc[v]
    BY OneThreadMoves
  <2>2. \A v \in Workers : v # w => work'[v] = work[v]
    BY DEF TypeOK, EntropyTypes, Entropy, EntropyPop, EntropyEncode, EntropyPush,
       EntropyEnd, entropyVars
  <2> QED BY <2>1, <2>2
<1>3. CASE EntropyPop(w)
  <2>1. UNCHANGED <<slotGpr, writeq>> /\ pc'[w] # "push"
    BY <1>3 DEF EntropyPop, Goto, TypeOK
  <2> QED BY <1>1, <1>2, <2>1 DEF OutputsMatch, Encoded, Occurrences
<1>4. CASE EntropyEncode(w)
  <2>1. /\ UNCHANGED <<work, writeq>> /\ work[w] \in Slots
        /\ slotGpr' = [slotGpr EXCEPT ![work[w]] = [frame |-> slotData[work[w]], by |-> w]]
    BY <1>4 DEF EntropyEncode, queueVars, At, HandsMatchPc
  <2>2. \A s \in Slots : s # work[w] => slotGpr'[s] = slotGpr[s]
    BY <2>1 DEF TypeOK, EntropyTypes
  <2>3. Encoded(work[w])'
    <3>1. slotGpr'[work[w]] = [frame |-> slotData[work[w]], by |-> w]
      BY <2>1 DEF TypeOK, EntropyTypes
    <3>2. slotData[work[w]] \in Maybe(Nat)
      BY <2>1 DEF TypeOK, SplitTypes
    <3> QED BY <1>1, <2>1, <3>1, <3>2 DEF Encoded, Outputs
  <2>4. \A s \in Slots : Encoded(s) => Encoded(s)'
    BY <1>1, <2>1, <2>2, <2>3 DEF Encoded
  <2>5. \A v \in Workers : pc'[v] = "push" => Encoded(work[v])'
    <3> SUFFICES ASSUME NEW v \in Workers, pc'[v] = "push", v # w
                 PROVE  Encoded(work[v])'
      BY <2>1, <2>3
    <3>1. pc[v] = "push" /\ work[v] \in Slots /\ ~AllDone
      BY <1>2 DEF HandsMatchPc, AllDone
    <3> QED BY <2>1, <2>4, <3>1 DEF OutputsMatch, Encoded
  <2>6. \A s \in Slots : Occurrences(s, writeq)' = Occurrences(s, writeq)
    BY <2>1 DEF Occurrences
  <2> QED BY <1>1, <2>4, <2>5, <2>6 DEF OutputsMatch
<1>5. CASE EntropyPush(w)
  <2>1. slotGpr' = slotGpr /\ pc'[w] # "push" /\ pc[w] = "push" /\ work[w] \in Slots
    BY <1>5 DEF EntropyPush, Goto, At, TypeOK, HandsMatchPc
  <2>2. ~AllDone /\ Encoded(work[w])
    BY <2>1 DEF AllDone, OutputsMatch
  <2>3. \A s \in Slots : Occurrences(s, writeq)' > 0
           => Occurrences(s, writeq) > 0 \/ s = work[w]
    <3>1. CASE writeq' = Append(writeq, work[w])
      <4>1. \A s \in Slots : Occurrences(s, writeq)'
                                = Occurrences(s, writeq) + Held(work[w] = s)
        BY <2>1, <3>1, Pushed, SlotQueues
      <4> QED BY <4>1, SlotTerms DEF Held, InWriteq
    <3>2. CASE writeq' = writeq
      BY <3>2 DEF Occurrences
    <3> QED BY <1>5, <3>1, <3>2 DEF EntropyPush
  <2> QED BY <1>1, <1>2, <2>1, <2>2, <2>3 DEF OutputsMatch, Encoded
<1>6. CASE EntropyEnd(w)
  <2>1. UNCHANGED <<slotGpr, work>> /\ pc'[w] # "push" /\ pc[w] = "end"
    BY <1>6 DEF EntropyEnd, entropyVars, Goto, At, TypeOK
  <2>2. ~AllDone
    BY <2>1 DEF AllDone
  <2>3. \A s \in Slots : Occurrences(s, writeq)' = Occurrences(s, writeq)
    <3>1. CASE writeq' = Append(writeq, End)
      BY <3>1, Pushed, SlotQueues
    <3>2. CASE writeq' = writeq
      BY <3>2 DEF Occurrences
    <3> QED BY <1>6, <3>1, <3>2 DEF EntropyEnd
  <2> QED BY <1>1, <1>2, <2>1, <2>2, <2>3 DEF OutputsMatch, Encoded
<1> QED BY <1>3, <1>4, <1>5, <1>6 DEF Entropy

LEMMA WriterOutputs ==
  ASSUME TypeOK, TypeOK', HandsMatchPc, OwnInv, OutputsMatch, Writer, AllDone => AllDone'
  PROVE  OutputsMatch'
<1> USE ThreadFacts
<1>1. UNCHANGED <<slotData, work>> /\ \A w \in Workers : pc'[w] = pc[w]
  <2>1. UNCHANGED <<slotData, work>>
    BY DEF Writer, WriterPop, WriterCommit, WriterCount, WriterRelease, WriterDrained, splitVars,
       entropyVars
  <2> QED BY <2>1, OneThreadMoves, PipelineAssumption
<1>2. ~AllDone
  BY DEF Writer, WriterPop, WriterCommit, WriterCount, WriterRelease, WriterDrained, AllDone, At
<1>3. CASE WriterDrained \/ WriterCount
  BY <1>1, <1>3, OutputsUntouched DEF WriterDrained, WriterCount, entropyVars,
     writerVars, queueVars
<1>4. CASE WriterPop
  <2>1. slotGpr' = slotGpr
    BY <1>4 DEF WriterPop, entropyVars
  <2>2. ASSUME NEW s \in Slots, Occurrences(s, writeq)' > 0 \/ s \in reorder'
        PROVE  Occurrences(s, writeq) > 0 \/ s \in reorder
    <3>1. CASE writeq = <<>>
      <4>1. UNCHANGED <<writeq, reorder>>
        BY <1>4, <3>1 DEF WriterPop
      <4> QED BY <2>2, <4>1 DEF Occurrences
    <3>2. CASE writeq # <<>>
      <4>1. writeq' = Tail(writeq) /\ reorder' \subseteq reorder \cup {Head(writeq)}
        BY <1>4, <3>2 DEF WriterPop
      <4>2. Occurrences(s, writeq) = Occurrences(s, Tail(writeq)) + Held(Head(writeq) = s)
        BY <3>2, Popped, SlotQueues
      <4>3. InWriteq(s) = InWriteq(s)' + Held(Head(writeq) = s)
            /\ InWriteq(s) \in Nat /\ InWriteq(s)' \in Nat
        BY <4>1, <4>2, SlotTerms, SlotTermsNext DEF InWriteq
      <4>4. CASE Head(writeq) = s
        <5>1. InWriteq(s) > 0
          BY <4>3, <4>4 DEF Held
        <5> QED BY <5>1 DEF InWriteq
      <4>5. CASE Head(writeq) # s
        <5>1. InWriteq(s)' = InWriteq(s)
          BY <4>3, <4>5 DEF Held
        <5> QED BY <2>2, <4>1, <4>5, <5>1 DEF InWriteq
      <4> QED BY <4>4, <4>5
    <3> QED BY <3>1, <3>2
  <2>3. \A s \in Slots : Encoded(s)' <=> Encoded(s)
    BY <1>1, <2>1 DEF Encoded
  <2>4. \A w \in Workers : pc[w] = "push" => Encoded(work[w])'
    BY <1>1, <1>2, <2>1 DEF OutputsMatch, Encoded
  <2> QED BY <1>1, <1>2, <2>2, <2>3, <2>4 DEF OutputsMatch
<1>5. CASE WriterCommit
  <2>1. UNCHANGED <<slotGpr, writeq>> /\ reorder' \subseteq reorder
    BY <1>5 DEF WriterCommit, entropyVars, queueVars
  <2> QED BY <1>1, <1>2, <2>1 DEF OutputsMatch, Encoded, Occurrences
<1>6. CASE WriterRelease
  <2>1. /\ UNCHANGED <<writeq, reorder>> /\ writing \in Slots
        /\ slotGpr' = [slotGpr EXCEPT ![writing] = Nil]
    BY <1>6 DEF WriterRelease, At, HandsMatchPc
  <2>2. \A s \in Slots : s # writing => slotGpr'[s] = slotGpr[s]
    BY <2>1 DEF TypeOK, EntropyTypes
  <2>3. /\ writing \notin reorder /\ ~(Occurrences(writing, writeq) > 0)
        /\ \A w \in Workers : work[w] # writing
    BY <2>1, WritingAlone
  <2>4. \A s \in Slots : s # writing /\ Encoded(s) => Encoded(s)'
    BY <1>1, <2>2 DEF Encoded
  <2>5. \A s \in Slots : Occurrences(s, writeq)' = Occurrences(s, writeq)
    BY <2>1 DEF Occurrences
  <2>6. ASSUME NEW w \in Workers, pc[w] = "push" PROVE Encoded(work[w])'
    <3>1. work[w] \in Slots /\ work[w] # writing /\ Encoded(work[w])
      BY <1>2, <2>3, <2>6 DEF HandsMatchPc, OutputsMatch
    <3> QED BY <1>1, <2>2, <3>1 DEF Encoded
  <2> QED BY <1>1, <1>2, <2>1, <2>3, <2>4, <2>5, <2>6 DEF OutputsMatch
<1> QED BY <1>3, <1>4, <1>5, <1>6 DEF Writer

LEMMA OutputsNext ==
  ASSUME TypeOK, TypeOK', HandsMatchPc, OwnInv, OutputsMatch, ReturnedLast,
         NEW t \in Threads, NEW w \in Workers, AnyStep(t, w)
  PROVE  OutputsMatch'
<1>1. AllDone => AllDone'
  BY ReturnedLastNext
<1>2. CASE Capture \/ GpuFinish \/ Completion
  <2>1. UNCHANGED <<slotGpr, slotData, writeq, reorder, work>>
    BY <1>2 DEF Capture, CaptureTryPop, CaptureAllocate, CaptureUnblock,
       CaptureFill, CapturePublish, CaptureStop, CaptureStoreStop, CaptureAnnounceStop, CaptureEnd,
       GpuFinish, Completion, GpuPop, GpuWait, GpuReturnToken, GpuForward,
       GpuSendEnds, splitVars, entropyVars, writerVars, queueVars
  <2>2. \A v \in Workers : pc'[v] = pc[v]
    BY <1>2, OneThreadMoves, ThreadFacts
  <2> QED BY <1>1, <2>1, <2>2, OutputsUntouched
<1>3. CASE Throw(t) \/ Cancel(t) \/ UNCHANGED vars
  <2>1. UNCHANGED <<slotGpr, slotData, writeq, reorder, work>>
    BY <1>3 DEF Throw, Cancel, vars, splitVars, entropyVars, writerVars, queueVars
  <2>2. \A v \in Workers : pc'[v] = "push" => pc[v] = "push"
    BY <1>3, ThreadFacts DEF Throw, Cancel, vars, Goto, TypeOK
  <2> QED BY <1>1, <2>1, <2>2, OutputsUntouched
<1>4. CASE Join
  BY <1>1, <1>4 DEF Join, OutputsMatch
<1> QED
  BY <1>1, <1>2, <1>3, <1>4, SplitOutputs, EntropyOutputs, WriterOutputs DEF AnyStep

-----------------------------------------------------------------------------
(* Delivery in order, and no frame lost on the way.                        *)

\* The output the writer commits next is the next frame's.
LEMMA NextOutput ==
  ASSUME TypeOK, OwnInv, SlotsHoldTheirFrame, OutputsMatch, ~AllDone,
         NEW s \in NextInOrder
  PROVE  slotGpr[s] \in Outputs /\ slotGpr[s].frame = completed
<1>1. s \in reorder /\ slotFrame[s] = completed /\ s \in Slots
  BY DEF NextInOrder, TypeOK, WriterTypes
<1>2. s # splitSlot
  BY <1>1, SplitSlotAlone
<1>3. slotData[s] = completed
  BY <1>1, <1>2 DEF SlotsHoldTheirFrame
<1> QED BY <1>1, <1>3 DEF OutputsMatch, Encoded

LEMMA DeliveredNext ==
  ASSUME TypeOK, OwnInv, SlotsHoldTheirFrame, OutputsMatch, DeliveredInOrder,
         NEW t \in Threads, NEW w \in Workers, AnyStep(t, w)
  PROVE  DeliveredInOrder'
<1>1. CASE WriterCommit
  <2>1. ~AllDone
    BY <1>1, ThreadFacts DEF WriterCommit, At, AllDone
  <2>2. PICK s \in NextInOrder : delivered' = Append(delivered, slotGpr[s])
    BY <1>1 DEF WriterCommit
  <2>3. slotGpr[s] \in Outputs /\ slotGpr[s].frame = completed
    BY <2>1, NextOutput
  <2>4. completed' = completed + 1
    BY <1>1 DEF WriterCommit
  <2>5. delivered \in Seq(Maybe(Outputs)) /\ slotGpr[s] \in Maybe(Outputs)
    BY <2>3 DEF TypeOK, WriterTypes, Maybe
  <2>6. /\ Len(delivered) \in Nat /\ Len(delivered') = Len(delivered) + 1
        /\ delivered'[Len(delivered) + 1] = slotGpr[s]
        /\ \A i \in 1..Len(delivered) : delivered'[i] = delivered[i]
    BY <2>2, <2>5
  <2>7. completed = Len(delivered)
    BY DEF DeliveredInOrder
  <2>8. ASSUME NEW i \in 1..Len(delivered')
        PROVE  delivered'[i] \in Outputs /\ delivered'[i].frame = i - 1
    <3>1. CASE i \in 1..Len(delivered)
      BY <2>6, <3>1 DEF DeliveredInOrder
    <3>2. CASE i = Len(delivered) + 1
      <4>1. i - 1 = completed
        BY <2>6, <2>7, <3>2
      <4> QED BY <2>3, <2>6, <3>2, <4>1
    <3> QED BY <2>6, <3>1, <3>2
  <2> QED BY <2>4, <2>6, <2>7, <2>8 DEF DeliveredInOrder
<1>2. CASE ~WriterCommit
  <2>1. UNCHANGED <<completed, delivered>>
    BY <1>2 DEF AnyStep, Capture, CaptureTryPop, CaptureAllocate, CaptureUnblock,
       CaptureFill, CapturePublish, CaptureStop, CaptureStoreStop, CaptureAnnounceStop, CaptureEnd,
       Split, SplitPop, SplitTakeToken, SplitTakeSlot, SplitFill,
       SplitReturnBuffer, SplitSubmit, SplitPublish, SplitEnd, GpuFinish,
       Completion, GpuPop, GpuWait, GpuReturnToken, GpuForward, GpuSendEnds,
       Entropy, EntropyPop, EntropyEncode, EntropyPush, EntropyEnd, Writer,
       WriterPop, WriterCount, WriterRelease, WriterDrained, Throw, Cancel, Join, vars,
       writerVars, counterVars
  <2> QED BY <2>1 DEF DeliveredInOrder
<1> QED BY <1>1, <1>2


LEMMA NotLostUntouched ==
  ASSUME NotLost, UNCHANGED <<completed, split, slotFrame, freeq, writing>>
  PROVE  NotLost'
  BY DEF NotLost

LEMMA SplitNotLost ==
  ASSUME TypeOK, HandsMatchPc, OwnInv, FrontInv, NotLost, Split
  PROVE  NotLost'
<1>1. completed' = completed /\ writing' = writing
      /\ completed \in Nat /\ split \in Nat
  BY CountTypes DEF Split, SplitPop, SplitTakeToken, SplitTakeSlot, SplitFill,
     SplitReturnBuffer, SplitSubmit, SplitPublish, SplitEnd, writerVars, counterVars
<1>2. CASE SplitTakeSlot
  <2>1. split' = split
    BY <1>2 DEF SplitTakeSlot
  <2>2. \A s \in Slots : s \notin freeq => s \notin freeq' /\ slotFrame'[s] = slotFrame[s]
    BY <1>2 DEF SplitTakeSlot, TypeOK, SplitTypes
  <2> QED BY <1>1, <2>1, <2>2 DEF NotLost
<1>3. CASE SplitSubmit
  <2>1. split' = split + 1 /\ UNCHANGED <<slotFrame, freeq>> /\ pc["split"] = "submit"
    BY <1>3 DEF SplitSubmit, queueVars, At
  <2>2. splitSlot \in Slots /\ slotFrame[splitSlot] = split
    BY <2>1 DEF HandsMatchPc, FrontInv, SlotsHoldTheirFrame
  <2>3. splitSlot \notin freeq /\ splitSlot # writing
    BY <2>2, SplitSlotAlone
  <2>4. ASSUME NEW n \in completed'..(split' - 1)
        PROVE  \E s \in Slots : slotFrame'[s] = n /\ s \notin freeq' /\ s # writing'
    <3>1. n \in completed..(split - 1) \/ n = split
      BY <1>1, <2>1
    <3> QED BY <1>1, <2>1, <2>2, <2>3, <3>1 DEF NotLost
  <2> QED BY <2>4 DEF NotLost
<1>4. CASE ~SplitTakeSlot /\ ~SplitSubmit
  <2>1. UNCHANGED <<split, slotFrame, freeq>>
    BY <1>4 DEF Split, SplitPop, SplitTakeToken, SplitFill, SplitReturnBuffer,
       SplitPublish, SplitEnd, splitVars, queueVars
  <2> QED BY <1>1, <2>1, NotLostUntouched
<1> QED BY <1>2, <1>3, <1>4

LEMMA WriterNotLost ==
  ASSUME TypeOK, OwnInv, NotLost, Writer
  PROVE  NotLost'
<1>1. UNCHANGED <<split, slotFrame>> /\ completed \in Nat /\ split \in Nat
  BY CountTypes DEF Writer, WriterPop, WriterCommit, WriterCount, WriterRelease, WriterDrained,
     splitVars
<1>2. CASE WriterCommit
  <2>1. PICK r \in NextInOrder : writing' = r
    BY <1>2 DEF WriterCommit
  <2>2. slotFrame[r] = completed /\ completed' = completed + 1 /\ freeq' = freeq
    BY <1>2, <2>1 DEF WriterCommit, NextInOrder, queueVars
  <2>3. ASSUME NEW n \in completed'..(split' - 1)
        PROVE  \E s \in Slots : slotFrame'[s] = n /\ s \notin freeq' /\ s # writing'
    <3>1. n \in completed..(split - 1) /\ n # completed
      BY <1>1, <2>2
    <3>2. PICK s \in Slots : slotFrame[s] = n /\ s \notin freeq
      BY <3>1 DEF NotLost
    <3> QED BY <1>1, <2>1, <2>2, <3>1, <3>2
  <2> QED BY <2>3 DEF NotLost
<1>3. CASE WriterRelease
  <2>1. completed' = completed /\ freeq' \subseteq freeq \cup {writing} /\ writing' = Nil
    BY <1>3 DEF WriterRelease
  <2>2. \A s \in Slots : s # Nil
    BY PipelineAssumption
  <2> QED BY <1>1, <2>1, <2>2 DEF NotLost
<1>4. CASE WriterPop \/ WriterCount \/ WriterDrained
  <2>1. UNCHANGED <<completed, freeq, writing>>
    BY <1>4 DEF WriterPop, WriterCount, WriterDrained, writerVars, queueVars, counterVars
  <2> QED BY <1>1, <2>1, NotLostUntouched
<1> QED BY <1>2, <1>3, <1>4 DEF Writer

LEMMA NotLostNext ==
  ASSUME TypeOK, HandsMatchPc, OwnInv, FrontInv, NotLost,
         NEW t \in Threads, NEW w \in Workers, AnyStep(t, w)
  PROVE  NotLost'
<1>1. CASE \/ Capture \/ GpuFinish \/ Completion \/ Entropy(w) \/ Throw(t)
           \/ Cancel(t) \/ Join \/ UNCHANGED vars
  <2>1. UNCHANGED <<completed, split, slotFrame, freeq, writing>>
    BY <1>1 DEF Capture, CaptureTryPop, CaptureAllocate, CaptureUnblock,
       CaptureFill, CapturePublish, CaptureStop, CaptureStoreStop, CaptureAnnounceStop, CaptureEnd,
       GpuFinish, Completion, GpuPop, GpuWait, GpuReturnToken, GpuForward,
       GpuSendEnds, Entropy, EntropyPop, EntropyEncode, EntropyPush, EntropyEnd,
       Throw, Cancel, Join, vars, splitVars, writerVars, queueVars, counterVars
  <2> QED BY <2>1, NotLostUntouched
<1> QED BY <1>1, SplitNotLost, WriterNotLost DEF AnyStep

-----------------------------------------------------------------------------
(* While nothing fails, a stage ends only when everything before it is      *)
(* empty.                                                                   *)

LEMMA SentinelAppended ==
  ASSUME NEW q \in Seq(Slots \cup {End}), NEW e \in Slots \cup {End}
  PROVE  /\ NoEnd(q) /\ e # End => NoEnd(Append(q, e))
         /\ NoEnd(q) => EndOnlyLast(Append(q, e)) /\ EndsLast(Append(q, e))
         /\ EndsLast(q) /\ e = End => EndsLast(Append(q, e))
         /\ AllEnds(q) /\ e = End => AllEnds(Append(q, e))
         /\ Append(q, e) # <<>>
         /\ Append(q, e)[Len(Append(q, e))] = e
<1> DEFINE r == Append(q, e)
<1>1. /\ Len(q) \in Nat /\ Len(r) = Len(q) + 1 /\ r[Len(q) + 1] = e /\ r # <<>>
      /\ \A i \in 1..Len(q) : r[i] = q[i]
  OBVIOUS
<1> HIDE DEF r
<1>2. \A i \in 1..Len(r) : i \in 1..Len(q) \/ i = Len(q) + 1
  BY <1>1
<1>3. NoEnd(q) /\ e # End => NoEnd(r)
  BY <1>1, <1>2 DEF NoEnd
<1>4. NoEnd(q) => EndOnlyLast(r)
  BY <1>1, <1>2 DEF NoEnd, EndOnlyLast
<1>5. NoEnd(q) => EndsLast(r)
  <2> SUFFICES ASSUME NoEnd(q), NEW i \in 1..Len(r), NEW j \in 1..Len(r),
                      i < j, r[i] = End
               PROVE  r[j] = End
    BY DEF EndsLast
  <2>1. i \in 1..Len(q)
    BY <1>1, <1>2
  <2> QED BY <1>1, <2>1 DEF NoEnd
<1>6. EndsLast(q) /\ e = End => EndsLast(r)
  <2> SUFFICES ASSUME EndsLast(q), e = End, NEW i \in 1..Len(r), NEW j \in 1..Len(r),
                      i < j, r[i] = End
               PROVE  r[j] = End
    BY DEF EndsLast
  <2>1. i \in 1..Len(q)
    BY <1>1, <1>2
  <2> QED BY <1>1, <1>2, <2>1 DEF EndsLast
<1>7. AllEnds(q) /\ e = End => AllEnds(r)
  BY <1>1, <1>2 DEF AllEnds
<1> QED BY <1>1, <1>3, <1>4, <1>5, <1>6, <1>7 DEF r

LEMMA SentinelTaken ==
  ASSUME NEW S, End \in S, NEW q \in Seq(S), q # <<>>
  PROVE  /\ EndOnlyLast(q) => EndOnlyLast(Tail(q)) /\ (Head(q) = End => Tail(q) = <<>>)
         /\ NoEnd(q) => NoEnd(Tail(q)) /\ Head(q) # End
         /\ EndsLast(q) => EndsLast(Tail(q)) /\ (Head(q) = End => AllEnds(Tail(q)))
         /\ AllEnds(q) => AllEnds(Tail(q))
         /\ Tail(q) # <<>> => Tail(q)[Len(Tail(q))] = q[Len(q)]
<1> DEFINE r == Tail(q)
<1>1. /\ Len(q) \in Nat /\ Len(r) = Len(q) - 1 /\ Head(q) = q[1] /\ Len(r) \in Nat
      /\ r \in Seq(S) /\ 1 \in 1..Len(q)
      /\ \A i \in 1..Len(r) : i + 1 \in 1..Len(q) /\ r[i] = q[i + 1]
      /\ (r = <<>> <=> Len(r) = 0)
  <2>1. /\ Len(q) \in Nat /\ Len(q) # 0 /\ Head(q) = q[1] /\ r \in Seq(S)
        /\ Len(r) = Len(q) - 1
    OBVIOUS
  <2>2. \A i \in 1..(Len(q) - 1) : r[i] = q[i + 1]
    OBVIOUS
  <2>3. r = <<>> <=> Len(r) = 0
    BY <2>1
  <2> HIDE DEF r
  <2> QED BY <2>1, <2>2, <2>3
<1> HIDE DEF r
<1>2. EndOnlyLast(q) => EndOnlyLast(r) /\ (Head(q) = End => r = <<>>)
  BY <1>1 DEF EndOnlyLast
<1>3. NoEnd(q) => NoEnd(r) /\ Head(q) # End
  BY <1>1 DEF NoEnd
<1>4. EndsLast(q) => EndsLast(r)
  <2> SUFFICES ASSUME EndsLast(q), NEW i \in 1..Len(r), NEW j \in 1..Len(r),
                      i < j, r[i] = End
               PROVE  r[j] = End
    BY DEF EndsLast
  <2>1. i + 1 < j + 1 /\ i + 1 \in 1..Len(q) /\ j + 1 \in 1..Len(q)
    BY <1>1
  <2> QED BY <1>1, <2>1 DEF EndsLast
<1>5. EndsLast(q) /\ Head(q) = End => AllEnds(r)
  <2> SUFFICES ASSUME EndsLast(q), Head(q) = End, NEW i \in 1..Len(r)
               PROVE  r[i] = End
    BY DEF AllEnds
  <2>1. 1 < i + 1 /\ i + 1 \in 1..Len(q)
    BY <1>1
  <2> QED BY <1>1, <2>1 DEF EndsLast
<1>6. AllEnds(q) => AllEnds(r)
  BY <1>1 DEF AllEnds
<1>7. r # <<>> => r[Len(r)] = q[Len(q)]
  <2> SUFFICES ASSUME r # <<>> PROVE r[Len(r)] = q[Len(q)]
    OBVIOUS
  <2>1. Len(r) \in 1..Len(r) /\ Len(r) + 1 = Len(q)
    BY <1>1
  <2> QED BY <1>1, <2>1
<1> QED BY <1>2, <1>3, <1>4, <1>5, <1>6, <1>7 DEF r

\* An END more or less in the writer's queue.
LEMMA EndsCounted ==
  ASSUME NEW q \in Seq(Slots \cup {End})
  PROVE  /\ Occurrences(End, q) \in Nat
         /\ \A e \in Slots : Occurrences(End, Append(q, e)) = Occurrences(End, q)
         /\ Occurrences(End, Append(q, End)) = Occurrences(End, q) + 1
         /\ q # <<>> => Occurrences(End, q) = Occurrences(End, Tail(q))
                           + (IF Head(q) = End THEN 1 ELSE 0)
         /\ q # <<>> => Occurrences(End, Tail(q)) \in Nat
         /\ q # <<>> /\ q[Len(q)] = End => Occurrences(End, q) > 0
<1>1. Occurrences(End, q) \in Nat
  BY OccurrencesType
<1>2. \A e \in Slots \cup {End} :
         Occurrences(End, Append(q, e)) = Occurrences(End, q) + (IF e = End THEN 1 ELSE 0)
  BY OccurrencesAppend
<1>3. \A e \in Slots : e # End
  BY PipelineAssumption
<1>4. q # <<>> => /\ Occurrences(End, q) = Occurrences(End, Tail(q))
                        + (IF Head(q) = End THEN 1 ELSE 0)
                  /\ Occurrences(End, Tail(q)) \in Nat
  BY OccurrencesTail, OccurrencesType, QueueFacts
<1>5. q # <<>> /\ q[Len(q)] = End => Occurrences(End, q) > 0
  <2> SUFFICES ASSUME q # <<>>, q[Len(q)] = End, Occurrences(End, q) = 0 PROVE FALSE
    BY <1>1
  <2>1. Places(End, q) = {}
    BY OccurrencesType, FS_EmptySet
  <2>2. Len(q) \in DOMAIN q
    OBVIOUS
  <2> QED BY <2>1, <2>2 DEF Places
<1>6. Occurrences(End, Append(q, End)) = Occurrences(End, q) + 1
  BY <1>2
<1>7. \A e \in Slots : Occurrences(End, Append(q, e)) = Occurrences(End, q)
  BY <1>1, <1>2, <1>3
<1> QED BY <1>1, <1>4, <1>5, <1>6, <1>7

LEMMA FrontEndKept ==
  ASSUME FrontEnd, UNCHANGED <<captureReady, splitSlot, gpuq, gpuSlot>>,
         UNCHANGED <<pc["capture"], pc["split"], pc["gpu"]>>
  PROVE  FrontEnd'
  BY DEF FrontEnd, EndOnlyLast, NoEnd

LEMMA BackEndKept ==
  ASSUME BackEnd, UNCHANGED <<entq, work, pc["gpu"]>>,
         \A w \in Workers : pc'[w] = pc[w]
  PROVE  BackEnd'
  BY DEF BackEnd, EndsLast, NoEnd, AllEnds

LEMMA LastStageKept ==
  ASSUME LastStage, UNCHANGED <<ended, writeq, reorder, writing, pc["writer"]>>,
         \A w \in Workers : pc'[w] = pc[w]
  PROVE  LastStage'
<1>1. DoneWorkers' = DoneWorkers
  BY DEF DoneWorkers
<1> QED BY <1>1 DEF LastStage, Occurrences

LEMMA CaptureEnds ==
  ASSUME TypeOK, FrontEnd, BackEnd, LastStage, Capture
  PROVE  FrontEnd' /\ BackEnd' /\ LastStage'
<1> USE ThreadFacts
<1>1. UNCHANGED <<splitSlot, gpuq, gpuSlot, entq, work, ended, writeq, reorder, writing>>
  BY DEF Capture, CaptureTryPop, CaptureAllocate, CaptureUnblock, CaptureFill,
     CapturePublish, CaptureStop, CaptureStoreStop, CaptureAnnounceStop, CaptureEnd, splitVars,
     gpuVars, entropyVars, writerVars, queueVars
<1>2. \A t \in Threads : t # "capture" => pc'[t] = pc[t]
  BY OneThreadMoves, PipelineAssumption
<1>3. pc["capture"] # "done"
  BY DEF Capture, CaptureTryPop, CaptureAllocate, CaptureUnblock, CaptureFill,
     CapturePublish, CaptureStop, CaptureStoreStop, CaptureAnnounceStop, CaptureEnd, At
<1>4. pc["split"] \notin {"end", "done"}
  BY <1>3 DEF FrontEnd
<1>5. FrontEnd'
  BY <1>1, <1>2, <1>4 DEF FrontEnd, EndOnlyLast, NoEnd
<1>6. BackEnd' /\ LastStage'
  BY <1>1, <1>2, BackEndKept, LastStageKept
<1> QED BY <1>5, <1>6

LEMMA SplitEnds ==
  ASSUME TypeOK, HandsMatchPc, CountInv, OwnInv, Running,
         FrontEnd, BackEnd, LastStage, Split
  PROVE  FrontEnd' /\ BackEnd' /\ LastStage'
<1> USE ThreadFacts
<1>1. UNCHANGED <<gpuSlot, entq, work, ended, writeq, reorder, writing>>
  BY DEF Split, SplitPop, SplitTakeToken, SplitTakeSlot, SplitFill,
     SplitReturnBuffer, SplitSubmit, SplitPublish, SplitEnd, gpuVars, entropyVars,
     writerVars, queueVars
<1>2. \A t \in Threads : t # "split" => pc'[t] = pc[t]
  BY OneThreadMoves, PipelineAssumption
<1>3. BackEnd' /\ LastStage'
  BY <1>1, <1>2, BackEndKept, LastStageKept
<1>4. pc \in [Threads -> Labels] /\ ~TokensClosed /\ ~FreeqClosed /\ ~GpuqClosed
  BY RunningOpen DEF TypeOK
<1>5. pc["split"] # "done" /\ NoEnd(gpuq) /\ pc["gpu"] \notin {"ends", "done"}
  <2>1. pc["split"] # "done"
    BY DEF Split, SplitPop, SplitTakeToken, SplitTakeSlot, SplitFill,
       SplitReturnBuffer, SplitSubmit, SplitPublish, SplitEnd, At
  <2> QED BY <2>1 DEF FrontEnd
<1>6. CASE SplitTakeToken \/ SplitTakeSlot \/ SplitFill \/ SplitReturnBuffer \/ SplitSubmit
  <2>1. gpuq' = gpuq
    BY <1>6 DEF SplitTakeToken, SplitTakeSlot, SplitFill, SplitReturnBuffer,
       SplitSubmit, queueVars
  <2>2. pc'["split"] \notin {"end", "done"}
    BY <1>4, <1>6 DEF SplitTakeToken, SplitTakeSlot, SplitFill, SplitReturnBuffer,
       SplitSubmit, Goto
  <2> QED BY <1>1, <1>2, <1>3, <1>5, <2>1, <2>2 DEF FrontEnd, EndOnlyLast, NoEnd
<1>7. CASE SplitPop
  <2>1. /\ captureReady # <<>> /\ captureReady' = Tail(captureReady)
        /\ UNCHANGED <<splitSlot, gpuq>> /\ pc["split"] = "pop" /\ splitSlot = Nil
    BY <1>7 DEF SplitPop, At, OwnInv, EmptyHands
  <2>2. CASE Head(captureReady) = End
    <3>1. captureReady \in Seq(Buffers \cup {End}) /\ EndOnlyLast(captureReady)
      BY CountTypes DEF CountInv, EndComesLast
    <3>2. captureReady' = <<>>
      BY <2>1, <2>2, <3>1, SentinelTaken
    <3>3. ~NoEnd(captureReady)
      BY <2>1, <2>2, <3>1, SentinelTaken
    <3>4. pc["capture"] = "done"
      BY <3>3 DEF CountInv, EndComesLast
    <3>5. pc'["split"] = "end"
      BY <1>4, <1>7, <2>2 DEF SplitPop, Goto
    <3> QED BY <1>1, <1>2, <1>3, <1>5, <2>1, <3>2, <3>4, <3>5
            DEF FrontEnd, EndOnlyLast, NoEnd
  <2>3. CASE Head(captureReady) # End
    <3>1. pc'["split"] = "token"
      BY <1>4, <1>7, <2>3 DEF SplitPop, Goto
    <3> QED BY <1>1, <1>2, <1>3, <1>5, <2>1, <3>1 DEF FrontEnd, EndOnlyLast, NoEnd
  <2> QED BY <2>2, <2>3
<1>8. CASE SplitPublish
  <2>1. /\ gpuq' = Append(gpuq, splitSlot) /\ splitSlot \in Slots
        /\ pc'["split"] = "pop"
    BY <1>4, <1>8 DEF SplitPublish, HandsMatchPc, Goto, At
  <2>2. NoEnd(gpuq') /\ EndOnlyLast(gpuq')
    BY <1>5, <2>1, SentinelAppended, SlotQueues, PipelineAssumption
  <2> QED BY <1>1, <1>2, <1>3, <1>5, <2>1, <2>2 DEF FrontEnd
<1>9. CASE SplitEnd
  <2>1. /\ gpuq' = Append(gpuq, End) /\ UNCHANGED <<captureReady, splitSlot>>
        /\ pc["split"] = "end" /\ pc'["split"] = "done"
    BY <1>4, <1>9 DEF SplitEnd, splitVars, Goto, At
  <2>2. EndOnlyLast(gpuq')
    BY <1>5, <2>1, SentinelAppended, SlotQueues
  <2> QED BY <1>1, <1>2, <1>3, <1>5, <2>1, <2>2 DEF FrontEnd
<1> QED BY <1>6, <1>7, <1>8, <1>9 DEF Split

LEMMA CompletionEnds ==
  ASSUME TypeOK, HandsMatchPc, OwnInv, Running, FrontEnd, BackEnd, LastStage, Completion
  PROVE  FrontEnd' /\ BackEnd' /\ LastStage'
<1> USE ThreadFacts
<1>1. UNCHANGED <<captureReady, splitSlot, work, ended, writeq, reorder, writing>>
  BY DEF Completion, GpuPop, GpuWait, GpuReturnToken, GpuForward, GpuSendEnds,
     splitVars, entropyVars, writerVars, queueVars
<1>2. \A t \in Threads : t # "gpu" => pc'[t] = pc[t]
  BY OneThreadMoves, PipelineAssumption
<1>3. LastStage'
  BY <1>1, <1>2, LastStageKept
<1>4. pc \in [Threads -> Labels] /\ ~TokensClosed /\ ~GpuqClosed /\ ~EntqClosed
  BY RunningOpen DEF TypeOK
<1>5. gpuq \in Seq(Slots \cup {End}) /\ entq \in Seq(Slots \cup {End})
      /\ End \in Slots \cup {End}
  BY SlotQueues
<1>6. CASE GpuPop
  <2>1. /\ gpuq # <<>> /\ gpuq' = Tail(gpuq) /\ entq' = entq
        /\ pc["gpu"] = "pop" /\ gpuSlot = Nil
    BY <1>4, <1>6 DEF GpuPop, At, OwnInv, EmptyHands
  <2>2. EndOnlyLast(gpuq') /\ (NoEnd(gpuq) => NoEnd(gpuq'))
    BY <1>5, <2>1, SentinelTaken DEF FrontEnd
  <2>3. CASE Head(gpuq) = End
    <3>1. gpuq' = <<>> /\ ~NoEnd(gpuq)
      BY <1>5, <2>1, <2>3, SentinelTaken DEF FrontEnd
    <3>2. pc'["gpu"] = "ends" /\ gpuSlot' = Nil
      BY <1>4, <1>6, <2>1, <2>3 DEF GpuPop, Goto
    <3>3. pc["split"] = "done"
      BY <3>1 DEF FrontEnd
    <3>4. FrontEnd'
      BY <1>1, <1>2, <2>2, <3>1, <3>2, <3>3 DEF FrontEnd
    <3>5. BackEnd'
      BY <1>1, <1>2, <2>1, <3>2 DEF BackEnd, EndsLast, NoEnd, AllEnds
    <3> QED BY <1>3, <3>4, <3>5
  <2>4. CASE Head(gpuq) # End
    <3>1. pc'["gpu"] = "wait"
      BY <1>4, <1>6, <2>1, <2>4 DEF GpuPop, Goto
    <3>2. FrontEnd'
      BY <1>1, <1>2, <2>2, <3>1 DEF FrontEnd
    <3>3. BackEnd'
      BY <1>1, <1>2, <2>1, <3>1 DEF BackEnd, EndsLast, NoEnd, AllEnds
    <3> QED BY <1>3, <3>2, <3>3
  <2> QED BY <2>3, <2>4
<1>7. CASE GpuWait \/ GpuReturnToken
  <2>1. UNCHANGED <<gpuq, entq, gpuSlot>> /\ pc["gpu"] \in {"wait", "token"}
        /\ pc'["gpu"] \in {"token", "forward"}
    BY <1>4, <1>7 DEF GpuWait, GpuReturnToken, gpuVars, queueVars, Goto, At
  <2>2. FrontEnd'
    BY <1>1, <1>2, <2>1 DEF FrontEnd, EndOnlyLast, NoEnd
  <2>3. BackEnd'
    BY <1>1, <1>2, <2>1 DEF BackEnd, EndsLast, NoEnd, AllEnds
  <2> QED BY <1>3, <2>2, <2>3
<1>8. CASE GpuForward
  <2>1. /\ entq' = Append(entq, gpuSlot) /\ gpuSlot \in Slots /\ gpuq' = gpuq
        /\ pc["gpu"] = "forward" /\ pc'["gpu"] = "pop"
    BY <1>4, <1>8 DEF GpuForward, HandsMatchPc, Goto, At
  <2>2. NoEnd(entq)
    BY <2>1 DEF BackEnd
  <2>3. NoEnd(entq') /\ EndsLast(entq')
    BY <1>5, <2>1, <2>2, SentinelAppended, PipelineAssumption
  <2>4. \A w \in Workers : pc[w] \notin {"end", "done"}
    BY <2>1 DEF BackEnd
  <2>5. BackEnd'
    BY <1>1, <1>2, <2>1, <2>3, <2>4 DEF BackEnd
  <2>6. FrontEnd'
    BY <1>1, <1>2, <2>1 DEF FrontEnd, EndOnlyLast, NoEnd
  <2> QED BY <1>3, <2>5, <2>6
<1>9. CASE GpuSendEnds
  <2>1. UNCHANGED <<gpuq, gpuSlot>> /\ pc["gpu"] = "ends" /\ pc'["gpu"] \in {"ends", "done"}
        /\ entq' \in {entq, Append(entq, End)}
    BY <1>4, <1>9 DEF GpuSendEnds, Goto, At
  <2>2. EndsLast(entq') /\ (AllEnds(entq) => AllEnds(entq'))
    BY <1>5, <2>1, SentinelAppended DEF BackEnd
  <2>3. BackEnd'
    BY <1>1, <1>2, <2>1, <2>2 DEF BackEnd
  <2>4. FrontEnd'
    BY <1>1, <1>2, <2>1 DEF FrontEnd, EndOnlyLast, NoEnd
  <2> QED BY <1>3, <2>3, <2>4
<1> QED BY <1>6, <1>7, <1>8, <1>9 DEF Completion

LEMMA EntropyEnds ==
  ASSUME TypeOK, TypeOK', HandsMatchPc, OwnInv, Running, FrontEnd, BackEnd, LastStage,
         NEW w \in Workers, Entropy(w)
  PROVE  FrontEnd' /\ BackEnd' /\ LastStage'
<1> USE ThreadFacts
<1>1. UNCHANGED <<captureReady, splitSlot, gpuq, gpuSlot, ended, reorder, writing>>
  BY DEF Entropy, EntropyPop, EntropyEncode, EntropyPush, EntropyEnd, splitVars,
     gpuVars, writerVars, queueVars
<1>2. \A t \in Threads : t # w => pc'[t] = pc[t]
  BY OneThreadMoves
<1>3. FrontEnd'
  BY <1>1, <1>2, PipelineAssumption, FrontEndKept
<1>4. \A v \in Workers : v # w => pc'[v] = pc[v] /\ work'[v] = work[v]
  BY <1>2 DEF TypeOK, EntropyTypes, Entropy, EntropyPop, EntropyEncode, EntropyPush,
     EntropyEnd, entropyVars
<1>5. pc \in [Threads -> Labels] /\ ~EntqClosed /\ ~WriteqClosed /\ pc["gpu"]' = pc["gpu"]
      /\ pc'["writer"] = pc["writer"] /\ w \in Threads
  BY <1>2, RunningOpen DEF TypeOK
<1>6. entq \in Seq(Slots \cup {End}) /\ writeq \in Seq(Slots \cup {End})
      /\ End \in Slots \cup {End}
  BY SlotQueues
<1>7. ASSUME pc[w] # "done", pc'[w] # "done" PROVE DoneWorkers' = DoneWorkers
  BY <1>4, <1>7 DEF DoneWorkers
<1>8. CASE EntropyPop(w)
  <2>1. /\ entq # <<>> /\ entq' = Tail(entq) /\ writeq' = writeq
        /\ pc[w] = "pop" /\ work[w] = Nil
    BY <1>5, <1>8 DEF EntropyPop, At, OwnInv, EmptyHands
  <2>2. pc'[w] \in {"encode", "end"}
    BY <1>5, <1>8, <2>1 DEF EntropyPop, Goto
  <2>3. LastStage'
    <3>1. DoneWorkers' = DoneWorkers
      BY <1>7, <2>1, <2>2
    <3> QED BY <1>1, <1>5, <2>1, <3>1 DEF LastStage, Occurrences
  <2>4. /\ EndsLast(entq') /\ (AllEnds(entq) => AllEnds(entq'))
        /\ (NoEnd(entq) => NoEnd(entq') /\ Head(entq) # End)
        /\ (Head(entq) = End => AllEnds(entq'))
    BY <1>6, <2>1, SentinelTaken DEF BackEnd
  <2>5. CASE Head(entq) = End
    <3>1. pc'[w] = "end" /\ work' = work
      BY <1>5, <1>8, <2>1, <2>5 DEF EntropyPop, Goto
    <3>2. pc["gpu"] \in {"ends", "done"}
      BY <2>4, <2>5 DEF BackEnd
    <3>3. BackEnd'
      BY <1>4, <1>5, <2>1, <2>4, <2>5, <3>1, <3>2 DEF BackEnd
    <3> QED BY <1>3, <2>3, <3>3
  <2>6. CASE Head(entq) # End
    <3>1. pc'[w] = "encode"
      BY <1>5, <1>8, <2>1, <2>6 DEF EntropyPop, Goto
    <3>2. BackEnd'
      BY <1>4, <1>5, <2>1, <2>4, <3>1 DEF BackEnd
    <3> QED BY <1>3, <2>3, <3>2
  <2> QED BY <2>5, <2>6
<1>9. CASE EntropyEncode(w)
  <2>1. UNCHANGED <<entq, writeq, work>> /\ pc[w] = "encode" /\ pc'[w] = "push"
    BY <1>5, <1>9 DEF EntropyEncode, queueVars, Goto, At
  <2>2. BackEnd'
    BY <1>4, <1>5, <2>1 DEF BackEnd, EndsLast, NoEnd, AllEnds
  <2>3. LastStage'
    BY <1>1, <1>5, <1>7, <2>1 DEF LastStage, Occurrences
  <2> QED BY <1>3, <2>2, <2>3
<1>10. CASE EntropyPush(w)
  <2>1. /\ writeq' = Append(writeq, work[w]) /\ entq' = entq /\ work[w] \in Slots
        /\ pc[w] = "push" /\ pc'[w] = "pop"
    BY <1>5, <1>10 DEF EntropyPush, HandsMatchPc, Goto, At
  <2>2. BackEnd'
    BY <1>4, <1>5, <2>1 DEF BackEnd, EndsLast, NoEnd, AllEnds
  <2>3. Occurrences(End, Append(writeq, work[w])) = Occurrences(End, writeq)
    BY <1>6, <2>1, EndsCounted
  <2>4. DoneWorkers' = DoneWorkers /\ DoneWorkers # Workers
    BY <1>7, <2>1 DEF DoneWorkers
  <2>5. LastStage'
    BY <1>1, <1>5, <2>1, <2>3, <2>4 DEF LastStage
  <2> QED BY <1>3, <2>2, <2>5
<1>11. CASE EntropyEnd(w)
  <2>1. /\ writeq' = Append(writeq, End) /\ UNCHANGED <<entq, work>>
        /\ pc[w] = "end" /\ pc'[w] = "done"
    BY <1>5, <1>11 DEF EntropyEnd, entropyVars, Goto, At
  <2>2. BackEnd'
    BY <1>4, <1>5, <2>1 DEF BackEnd, EndsLast, NoEnd, AllEnds
  <2>3. Occurrences(End, writeq') = Occurrences(End, writeq) + 1
        /\ Occurrences(End, writeq) \in Nat
    BY <1>6, <2>1, EndsCounted
  <2>4. Cardinality(DoneWorkers') = Cardinality(DoneWorkers) + 1
        /\ Cardinality(DoneWorkers) \in Nat
    <3>1. DoneWorkers' = DoneWorkers \cup {w} /\ w \notin DoneWorkers
      BY <1>4, <2>1 DEF DoneWorkers
    <3>2. IsFiniteSet(DoneWorkers)
      BY PipelineAssumption, FS_Subset DEF DoneWorkers
    <3> QED BY <3>1, <3>2, FS_AddElement, FS_CardinalityType
  <2>5. writeq'[Len(writeq')] = End
    BY <1>6, <2>1, SentinelAppended
  <2>6. ended' + Occurrences(End, writeq)' = Cardinality(DoneWorkers)'
    <3>1. ended \in Nat
      BY DEF TypeOK, WriterTypes
    <3>2. ended + Occurrences(End, writeq) = Cardinality(DoneWorkers)
      BY DEF LastStage
    <3> QED BY <1>1, <2>3, <2>4, <3>1, <3>2
  <2>7. LastStage'
    BY <1>1, <1>5, <2>5, <2>6 DEF LastStage
  <2> QED BY <1>3, <2>2, <2>7
<1> QED BY <1>8, <1>9, <1>10, <1>11 DEF Entropy

LEMMA WriterEnds ==
  ASSUME TypeOK, TypeOK', OwnInv, Running, FrontEnd, BackEnd, LastStage, Writer,
         outcome' = "running"
  PROVE  FrontEnd' /\ BackEnd' /\ LastStage'
<1> USE ThreadFacts
<1>1. UNCHANGED <<captureReady, splitSlot, gpuq, gpuSlot, entq, work>>
  BY DEF Writer, WriterPop, WriterCommit, WriterCount, WriterRelease, WriterDrained, splitVars,
     gpuVars, entropyVars, queueVars
<1>2. \A t \in Threads : t # "writer" => pc'[t] = pc[t]
  BY OneThreadMoves, PipelineAssumption
<1>3. FrontEnd' /\ BackEnd'
  BY <1>1, <1>2, FrontEndKept, BackEndKept
<1>4. pc \in [Threads -> Labels] /\ ~WriteqClosed
  BY RunningOpen DEF TypeOK
<1>5. DoneWorkers' = DoneWorkers
  BY <1>2 DEF DoneWorkers
<1>6. writeq \in Seq(Slots \cup {End}) /\ End \in Slots \cup {End}
  BY SlotQueues
<1>7. CASE WriterPop
  <2>1. /\ writeq # <<>> /\ writeq' = Tail(writeq)
        /\ ended' = (IF Head(writeq) = End THEN ended + 1 ELSE ended)
        /\ pc'["writer"] # "done"
    BY <1>4, <1>7 DEF WriterPop, Goto, At
  <2>2. /\ Occurrences(End, writeq) = Occurrences(End, Tail(writeq))
              + (IF Head(writeq) = End THEN 1 ELSE 0)
        /\ Occurrences(End, Tail(writeq)) \in Nat
    BY <1>6, <2>1, EndsCounted
  <2>3. ended' + Occurrences(End, writeq)' = ended + Occurrences(End, writeq)
    <3>1. ended \in Nat
      BY DEF TypeOK, WriterTypes
    <3> QED BY <2>1, <2>2, <3>1
  <2>4. writeq' # <<>> => writeq'[Len(writeq')] = writeq[Len(writeq)]
    BY <1>6, <2>1, SentinelTaken
  <2>5. LastStage'
    BY <1>5, <2>1, <2>3, <2>4 DEF LastStage
  <2> QED BY <1>3, <2>5
<1>8. CASE WriterCommit \/ WriterCount \/ WriterRelease
  <2>1. UNCHANGED <<ended, writeq>> /\ pc'["writer"] # "done"
    BY <1>4, <1>8 DEF WriterCommit, WriterCount, WriterRelease, queueVars, Goto
  <2>2. LastStage'
    BY <1>5, <2>1 DEF LastStage, Occurrences
  <2> QED BY <1>3, <2>2
<1>9. CASE WriterDrained
  <2>1. UNCHANGED <<ended, writeq, reorder, writing>> /\ writing = Nil
    BY <1>9 DEF WriterDrained, writerVars, queueVars, At, OwnInv, EmptyHands
  <2>2. pc'["writer"] = "done" => ended = Cardinality(Workers) /\ reorder = {}
    BY <1>4, <1>9 DEF WriterDrained, Goto
  <2>3. LastStage'
    BY <1>5, <2>1, <2>2 DEF LastStage, Occurrences
  <2> QED BY <1>3, <2>3
<1> QED BY <1>7, <1>8, <1>9 DEF Writer

LEMMA EndInvNext ==
  ASSUME TypeOK, TypeOK', HandsMatchPc, CountInv, OwnInv, EndInv,
         NEW t \in Threads, NEW w \in Workers, AnyStep(t, w)
  PROVE  EndInv'
<1> SUFFICES ASSUME outcome' = "running" PROVE FrontEnd' /\ BackEnd' /\ LastStage'
  BY DEF EndInv, Running
<1>1. Running /\ FrontEnd /\ BackEnd /\ LastStage
  <2>1. Running
    BY FailedFirstNext DEF AnyStep, OwnInv, Running
  <2> QED BY <2>1 DEF EndInv
<1>2. CASE GpuFinish \/ UNCHANGED vars
  <2>1. UNCHANGED <<captureReady, splitSlot, gpuq, gpuSlot, entq, work, ended,
                    writeq, reorder, writing, pc>>
    BY <1>2 DEF GpuFinish, vars, splitVars, gpuVars, entropyVars, writerVars, queueVars
  <2> QED BY <1>1, <2>1, FrontEndKept, BackEndKept, LastStageKept
<1>3. ~Throw(t) /\ ~Cancel(t) /\ ~Join
  BY <1>1, RunningOpen DEF Throw, Cancel, Join, At
<1> QED
  BY <1>1, <1>2, <1>3, CaptureEnds, SplitEnds, CompletionEnds, EntropyEnds,
     WriterEnds DEF AnyStep

-----------------------------------------------------------------------------
(* The invariant, and the steps of ordered delivery.                       *)

LEMMA StepDeliverInv ==
  ASSUME TypeInv, TypeInv', CountInv, DeliverInv,
         NEW t \in Threads, NEW w \in Workers, AnyStep(t, w)
  PROVE  DeliverInv'
<1>1. /\ TypeOK /\ TypeOK' /\ HandsMatchPc /\ OwnInv /\ EndInv /\ ReturnedLast
      /\ FrontInv /\ OutputsMatch /\ DeliveredInOrder /\ NotLost
      /\ SlotsHoldTheirFrame
  BY DEF TypeInv, DeliverInv, OrderInv, FrontInv
<1>2. OwnInv'
  BY <1>1, StepOwnInv DEF AnyStep
<1>3. FrontInv'
  BY <1>1, CaptureFrontInv, SplitFrontInv, OtherFrontInv DEF AnyStep
<1>4. OutputsMatch'
  BY <1>1, OutputsNext
<1>5. DeliveredInOrder'
  BY <1>1, DeliveredNext
<1>6. NotLost'
  BY <1>1, NotLostNext
<1>7. EndInv'
  BY <1>1, EndInvNext
<1>8. ReturnedLast'
  BY <1>1, ReturnedLastNext
<1> QED
  BY <1>2, <1>3, <1>4, <1>5, <1>6, <1>7, <1>8 DEF DeliverInv, OrderInv, FrontInv

LEMMA SomeStep ==
  ASSUME [Next]_vars
  PROVE  \E t \in Threads, w \in Workers : AnyStep(t, w)
<1>1. "capture" \in Threads /\ \E w \in Workers : TRUE
  BY ThreadFacts, PipelineAssumption
<1> QED BY <1>1 DEF Next, Finished, AnyStep

LEMMA NextDeliverInv ==
  TypeInv /\ CountInv /\ DeliverInv /\ [Next]_vars => DeliverInv'
<1> SUFFICES ASSUME TypeInv, CountInv, DeliverInv, [Next]_vars PROVE DeliverInv'
  OBVIOUS
<1> QED BY SomeStep, NextTypeInv, StepDeliverInv

LEMMA InitDeliverInv == Init => DeliverInv
<1> SUFFICES ASSUME Init PROVE DeliverInv
  OBVIOUS
<1>1. /\ pc["capture"] = "next" /\ pc["split"] = "pop" /\ pc["gpu"] = "pop"
      /\ pc["writer"] = "pop" /\ \A w \in Workers : pc[w] = "pop"
  BY ThreadFacts DEF Init
<1>2. /\ captureReady = <<>> /\ gpuq = <<>> /\ entq = <<>> /\ writeq = <<>>
      /\ split = 0 /\ enqueued = 0 /\ completed = 0 /\ ended = 0
      /\ reorder = {} /\ delivered = <<>> /\ outcome = "running"
  BY DEF Init
<1>3. NumbersExact /\ RawInOrder
  <2>1. Publishing = 0 /\ Splitting = 0 /\ Data(captureReady) = 0
    BY <1>1, <1>2 DEF Publishing, Splitting, Data
  <2> QED BY <1>1, <1>2, <2>1 DEF NumbersExact, RawInOrder
<1>4. SlotsHoldTheirFrame
  BY <1>1 DEF Init, SlotsHoldTheirFrame
<1>5. OutputsMatch
  BY <1>1, <1>2, OccurrencesEmpty DEF OutputsMatch
<1>6. DeliveredInOrder /\ NotLost
  BY <1>2 DEF DeliveredInOrder, NotLost
<1>7. FrontEnd /\ BackEnd
  BY <1>1, <1>2 DEF FrontEnd, BackEnd, EndOnlyLast, NoEnd, EndsLast
<1>8. LastStage
  <2>1. DoneWorkers = {} /\ Workers # {}
    BY <1>1, PipelineAssumption DEF DoneWorkers
  <2>2. Cardinality(DoneWorkers) = 0 /\ Occurrences(End, writeq) = 0
    BY <1>2, <2>1, FS_EmptySet, OccurrencesEmpty
  <2> QED BY <1>1, <1>2, <2>1, <2>2 DEF LastStage
<1> QED
  BY <1>2, <1>3, <1>4, <1>5, <1>6, <1>7, <1>8, InitOwnInv
  DEF DeliverInv, OrderInv, EndInv, ReturnedLast

LEMMA DeliverInvariants == Spec => [](TypeInv /\ CountInv /\ DeliverInv)
  BY InitTypeInv, NextTypeInv, InitCountInv, NextCountInv, InitDeliverInv,
     NextDeliverInv, PTL DEF Spec

\* When every thread has ended and none has failed, the stages are empty, so
\* every slot is free and no captured frame is left behind.
LEMMA EmptyAtEnd ==
  ASSUME TypeOK, CountInv, DeliverInv, AllDone, Running
  PROVE  completed = enqueued
<1> USE ThreadFacts
<1>1. FrontEnd /\ BackEnd /\ LastStage /\ OwnInv /\ NumbersExact /\ NotLost
  BY DEF DeliverInv, EndInv, OrderInv
<1>2. /\ pc["capture"] = "done" /\ pc["split"] = "done" /\ pc["gpu"] = "done"
      /\ pc["writer"] = "done" /\ \A w \in Workers : pc[w] = "done"
  BY DEF AllDone
<1>3. /\ captureReady = <<>> /\ splitSlot = Nil /\ gpuq = <<>> /\ gpuSlot = Nil
      /\ AllEnds(entq) /\ \A w \in Workers : work[w] = Nil
      /\ ended = Cardinality(Workers) /\ reorder = {} /\ writing = Nil
  BY <1>1, <1>2, PipelineAssumption DEF FrontEnd, BackEnd, LastStage
<1>4. writeq = <<>>
  <2>1. DoneWorkers = Workers
    BY <1>2 DEF DoneWorkers
  <2>2. ended \in Nat /\ writeq \in Seq(Slots \cup {End})
    BY SlotQueues DEF TypeOK, WriterTypes
  <2>3. Occurrences(End, writeq) = 0
    <3>1. ended + Occurrences(End, writeq) = ended
      BY <1>1, <1>3, <2>1 DEF LastStage
    <3>2. Occurrences(End, writeq) \in Nat
      BY <2>2, EndsCounted
    <3> QED BY <2>2, <3>1, <3>2
  <2>4. writeq # <<>> => Occurrences(End, writeq) > 0
    BY <1>1, <2>1, <2>2, EndsCounted DEF LastStage
  <2> QED BY <2>3, <2>4
<1>5. Slots \subseteq freeq
  <2> SUFFICES ASSUME NEW s \in Slots PROVE s \in freeq
    OBVIOUS
  <2>1. s # Nil /\ s # End
    BY PipelineAssumption
  <2>2. InSplit(s) = 0 /\ InGpu(s) = 0 /\ InReorder(s) = 0 /\ InWriting(s) = 0
    BY <1>3, <2>1 DEF InSplit, InGpu, InReorder, InWriting, Held
  <2>3. InGpuq(s) = 0 /\ InWriteq(s) = 0
    BY <1>3, <1>4, OccurrencesEmpty DEF InGpuq, InWriteq
  <2>4. InEntq(s) = 0
    <3>1. entq \in Seq(Slots \cup {End})
      BY SlotQueues
    <3>2. Places(s, entq) = {}
      BY <1>3, <2>1, <3>1 DEF Places, AllEnds
    <3> QED BY <3>1, <3>2, OccurrencesType, FS_EmptySet DEF InEntq
  <2>5. InWork(s) = 0
    <3>1. {w \in Workers : work[w] = s} = {}
      BY <1>3, <2>1
    <3> QED BY <3>1, FS_EmptySet DEF InWork
  <2>6. SlotHolders(s) = 1
    BY <1>1 DEF OwnInv, SlotsOwned, Running
  <2>7. InFree(s) = 1
    BY <2>2, <2>3, <2>4, <2>5, <2>6, SlotTerms DEF Beyond
  <2> QED BY <2>7 DEF InFree, Held
<1>6. ~(completed < split)
  <2>1. completed < split => completed \in completed..(split - 1)
    BY CountTypes
  <2> QED BY <1>1, <1>5, <2>1 DEF NotLost
<1>7. enqueued = split
  <2>1. Splitting = 0 /\ Publishing = 0 /\ Data(captureReady) = 0
    BY <1>2, <1>3 DEF Splitting, Publishing, Data
  <2> QED BY <1>1, <2>1, CountTypes DEF NumbersExact
<1> QED
  BY <1>6, <1>7, CountTypes DEF CountInv, CompletedWithinCaptured

\* What the delivered outputs are to the caller: frame numbers from 0 up.
FramesDelivered == [i \in DOMAIN delivered |-> delivered[i].frame]
Recording == pc["capture"] \notin
                {"stopped", "stored", "end", "done", "cancel"}
CallerSees == IF outcome \in {"failing", "threw"} THEN "failed" ELSE outcome

LEMMA FramesInOrder ==
  ASSUME TypeOK, DeliveredInOrder
  PROVE  /\ FramesDelivered = [i \in 1..completed |-> i - 1]
         /\ Len(FramesDelivered) = completed
<1>1. DOMAIN delivered = 1..completed /\ completed \in Nat
  <2>1. delivered \in Seq(Maybe(Outputs)) /\ completed = Len(delivered)
    BY DEF TypeOK, WriterTypes, DeliveredInOrder
  <2> QED BY <2>1
<1>2. \A i \in 1..completed : delivered[i].frame = i - 1
  BY <1>1 DEF DeliveredInOrder
<1>3. FramesDelivered = [i \in 1..completed |-> i - 1]
  BY <1>1, <1>2 DEF FramesDelivered
<1>4. Len([i \in 1..completed |-> i - 1]) = completed
  BY <1>1
<1> QED BY <1>3, <1>4

LEMMA FrameAppended ==
  ASSUME TypeOK, TypeOK', DeliveredInOrder, DeliveredInOrder',
         completed' = completed + 1
  PROVE  FramesDelivered' = Append(FramesDelivered, Len(FramesDelivered))
<1>1. completed \in Nat
  BY CountTypes
<1>2. FramesDelivered' = [i \in 1..(completed + 1) |-> i - 1]
  <2>1. DOMAIN delivered' = 1..(completed + 1)
    <3>1. delivered' \in Seq(Maybe(Outputs))
      BY DEF TypeOK, WriterTypes
    <3>2. Len(delivered') = completed + 1
      BY DEF DeliveredInOrder
    <3> QED BY <3>1, <3>2
  <2>2. \A i \in 1..(completed + 1) : delivered'[i].frame = i - 1
    <3>1. Len(delivered') = completed + 1
      BY DEF DeliveredInOrder
    <3> QED BY <1>1, <3>1 DEF DeliveredInOrder
  <2> QED BY <2>1, <2>2 DEF FramesDelivered
<1> DEFINE m == [i \in 1..completed |-> i - 1]
<1>3. FramesDelivered = m /\ Len(m) = completed /\ m \in Seq(Int)
  BY <1>1, FramesInOrder
<1>4. Append(m, completed) = [i \in 1..(completed + 1) |-> i - 1]
  <2>1. Append(m, completed) = [i \in 1..(Len(m) + 1) |-> IF i = Len(m) + 1 THEN completed ELSE m[i]]
    BY <1>1, <1>3
  <2> QED BY <1>1, <1>3, <2>1
<1> QED BY <1>2, <1>3, <1>4

PromisedStep == \/ Delivery!Next
                \/ UNCHANGED <<enqueued, FramesDelivered, Recording, CallerSees>>

LEMMA PromisedDef ==
  /\ Delivery!deliveryVars = <<enqueued, FramesDelivered, Recording, CallerSees>>
  /\ PromisedStep => [Delivery!Next]_(Delivery!deliveryVars)
  BY DEF Delivery!deliveryVars, FramesDelivered, Recording, CallerSees, PromisedStep

\* A failure: the pass has failed now, or had already.
LEMMA FailureIsPromised ==
  ASSUME UNCHANGED <<enqueued, delivered>>, outcome \in {"running", "failing"},
         outcome' = "failing", Recording' \in {Recording, FALSE},
         Recording \in BOOLEAN
  PROVE  PromisedStep
<1>1. FramesDelivered' = FramesDelivered
  BY DEF FramesDelivered
<1>2. CASE outcome = "running"
  <2>1. CallerSees = "running" /\ CallerSees' = "failed"
    BY <1>2 DEF CallerSees
  <2>2. Delivery!Fail
    BY <1>1, <2>1 DEF Delivery!Fail, FramesDelivered, Recording, CallerSees
  <2> QED BY <2>2 DEF PromisedStep, Delivery!Next
<1>3. CASE outcome = "failing"
  <2>1. CallerSees = "failed" /\ CallerSees' = "failed"
    BY <1>3 DEF CallerSees
  <2>2. CASE Recording' = Recording
    BY <1>1, <2>1, <2>2 DEF PromisedStep
  <2>3. CASE Recording /\ ~Recording'
    <3>1. Delivery!StopRecording
      BY <1>1, <2>1, <2>3 DEF Delivery!StopRecording, FramesDelivered, Recording, CallerSees
    <3> QED BY <3>1 DEF PromisedStep, Delivery!Next
  <2> QED BY <2>2, <2>3
<1> QED BY <1>2, <1>3

\* A pass that has ended makes no step that a stage makes.
LEMMA StageRuns ==
  ASSUME TypeOK, ReturnedLast, NEW t \in Threads, pc[t] # "done"
  PROVE  outcome \in {"running", "failing"}
  BY DEF TypeOK, ReturnedLast, AllDone

LEMMA CaptureIsPromised ==
  ASSUME TypeOK, RawInOrder, Capture
  PROVE  PromisedStep
<1> USE ThreadFacts
<1>1. UNCHANGED <<delivered, outcome>> /\ pc \in [Threads -> Labels]
  BY DEF TypeOK, Capture, CaptureTryPop, CaptureAllocate, CaptureUnblock, CaptureFill,
     CapturePublish, CaptureStop, CaptureStoreStop, CaptureAnnounceStop, CaptureEnd, writerVars
<1>2. FramesDelivered' = FramesDelivered /\ CallerSees' = CallerSees
  BY <1>1 DEF FramesDelivered, CallerSees
<1>3. CASE \/ CaptureTryPop \/ CaptureAllocate \/ CaptureUnblock \/ CapturePublish
           \/ CaptureStoreStop \/ CaptureAnnounceStop \/ CaptureEnd
  <2>1. enqueued' = enqueued
    BY <1>3 DEF CaptureTryPop, CaptureAllocate, CaptureUnblock, CapturePublish,
       CaptureStoreStop, CaptureAnnounceStop, CaptureEnd, counterVars
  <2>2. Recording' = Recording
    BY <1>1, <1>3 DEF CaptureTryPop, CaptureAllocate, CaptureUnblock, CapturePublish,
       CaptureStoreStop, CaptureAnnounceStop, CaptureEnd, Goto, At, Recording
  <2> QED BY <1>2, <2>1, <2>2 DEF PromisedStep
<1>4. CASE CaptureFill
  <2>1. enqueued' = enqueued + 1 /\ enqueued < MaxFrames
    BY <1>4 DEF CaptureFill, At, RawInOrder
  <2>2. Recording /\ Recording'
    BY <1>1, <1>4 DEF CaptureFill, Goto, At, Recording
  <2>3. Delivery!Capture
    BY <1>2, <2>1, <2>2 DEF Delivery!Capture, FramesDelivered, Recording, CallerSees
  <2> QED BY <2>3 DEF PromisedStep, Delivery!Next
<1>5. CASE CaptureStop
  <2>1. enqueued' = enqueued /\ Recording /\ ~Recording'
    BY <1>1, <1>5 DEF CaptureStop, Goto, At, Recording
  <2>2. Delivery!StopRecording
    BY <1>2, <2>1 DEF Delivery!StopRecording, FramesDelivered, Recording, CallerSees
  <2> QED BY <2>2 DEF PromisedStep, Delivery!Next
<1> QED BY <1>3, <1>4, <1>5 DEF Capture

LEMMA WriterIsPromised ==
  ASSUME TypeOK, TypeOK', CountInv, DeliveredInOrder, DeliveredInOrder',
         ReturnedLast, Writer
  PROVE  PromisedStep
<1> USE ThreadFacts
<1>1. /\ enqueued' = enqueued /\ Recording' = Recording /\ Recording \in BOOLEAN
      /\ pc["writer"] # "done"
  <2>1. enqueued' = enqueued /\ pc["writer"] # "done"
    BY DEF Writer, WriterPop, WriterCommit, WriterCount, WriterRelease, WriterDrained, counterVars, At
  <2>2. pc'["capture"] = pc["capture"]
    BY OneThreadMoves, PipelineAssumption
  <2> QED BY <2>1, <2>2 DEF Recording
<1>2. outcome \in {"running", "failing"}
  BY <1>1, StageRuns
<1>3. CASE WriterCommit
  <2>1. completed' = completed + 1 /\ outcome' = outcome
    BY <1>3 DEF WriterCommit
  <2>2. completed < enqueued
    <3>1. PICK s \in Slots : slotFrame[s] = completed
      BY <1>3 DEF WriterCommit, NextInOrder, TypeOK, WriterTypes
    <3> QED BY <3>1, CountTypes DEF CountInv, Numbered
  <2>3. /\ FramesDelivered' = Append(FramesDelivered, Len(FramesDelivered))
        /\ Len(FramesDelivered) < enqueued
    BY <2>1, <2>2, FrameAppended, FramesInOrder
  <2>4. CallerSees' = CallerSees /\ CallerSees # "returned"
    BY <1>2, <2>1 DEF CallerSees
  <2>5. Delivery!Deliver
    BY <1>1, <2>3, <2>4 DEF Delivery!Deliver, FramesDelivered, Recording, CallerSees
  <2> QED BY <2>5 DEF PromisedStep, Delivery!Next
<1>4. CASE WriterPop \/ WriterCount \/ WriterRelease \/ WriterDrained
  <2>1. delivered' = delivered /\ outcome' \in {outcome, "failing"}
    BY <1>4 DEF WriterPop, WriterCount, WriterRelease, WriterDrained, writerVars
  <2>2. CASE outcome' = outcome
    <3>1. FramesDelivered' = FramesDelivered /\ CallerSees' = CallerSees
      BY <2>1, <2>2 DEF FramesDelivered, CallerSees
    <3> QED BY <1>1, <3>1 DEF PromisedStep
  <2>3. CASE outcome' = "failing"
    BY <1>1, <1>2, <2>1, <2>3, FailureIsPromised
  <2> QED BY <2>1, <2>2, <2>3
<1> QED BY <1>3, <1>4 DEF Writer

LEMMA JoinIsPromised ==
  ASSUME TypeOK, CountInv, DeliverInv, Join
  PROVE  PromisedStep
<1> USE ThreadFacts
<1>1. /\ UNCHANGED <<enqueued, delivered, pc>> /\ AllDone
      /\ outcome \in {"running", "failing"} /\ outcome' \in {"threw", "returned"}
      /\ outcome = "failing" => outcome' = "threw"
  BY DEF Join, counterVars, writerVars
<1>2. FramesDelivered' = FramesDelivered /\ Recording' = Recording /\ ~Recording
  BY <1>1 DEF FramesDelivered, Recording, AllDone
<1>3. CASE outcome = "failing"
  <2>1. CallerSees' = CallerSees
    BY <1>1, <1>3 DEF CallerSees
  <2> QED BY <1>1, <1>2, <2>1 DEF PromisedStep
<1>4. CASE outcome = "running" /\ outcome' = "threw"
  <2>1. CallerSees = "running" /\ CallerSees' = "failed"
    BY <1>4 DEF CallerSees
  <2>2. Delivery!Fail
    BY <1>1, <1>2, <2>1 DEF Delivery!Fail, FramesDelivered, Recording, CallerSees
  <2> QED BY <2>2 DEF PromisedStep, Delivery!Next
<1>5. CASE outcome = "running" /\ outcome' = "returned"
  <2>1. completed = enqueued
    BY <1>1, <1>5, EmptyAtEnd DEF Running
  <2>2. Len(FramesDelivered) = enqueued
    BY <2>1, FramesInOrder DEF DeliverInv, OrderInv
  <2>3. CallerSees = "running" /\ CallerSees' = "returned"
    BY <1>5 DEF CallerSees
  <2>4. Delivery!Return
    BY <1>1, <1>2, <2>2, <2>3 DEF Delivery!Return, FramesDelivered, Recording, CallerSees
  <2> QED BY <2>4 DEF PromisedStep, Delivery!Next
<1> QED BY <1>1, <1>3, <1>4, <1>5

LEMMA ThrowIsPromised ==
  ASSUME TypeOK, ReturnedLast, NEW t \in Threads, Throw(t) \/ Cancel(t)
  PROVE  PromisedStep
<1> USE ThreadFacts
<1>1. UNCHANGED <<enqueued, delivered>> /\ pc \in [Threads -> Labels]
  BY DEF TypeOK, Throw, Cancel, counterVars, writerVars
<1>2. CASE Throw(t)
  <2>1. outcome' = "failing" /\ pc[t] # "done" /\ pc' = [pc EXCEPT ![t] = "cancel"]
    BY <1>2 DEF Throw, MayThrow, Goto
  <2>2. outcome \in {"running", "failing"}
    BY <2>1, StageRuns
  <2>3. Recording' \in {Recording, FALSE} /\ Recording \in BOOLEAN
    BY <1>1, <2>1 DEF Recording
  <2> QED BY <1>1, <2>1, <2>2, <2>3, FailureIsPromised
<1>3. CASE Cancel(t)
  <2>1. Recording' = Recording
    BY <1>1, <1>3 DEF Cancel, Goto, At, Recording
  <2>2. FramesDelivered' = FramesDelivered /\ CallerSees' = CallerSees
    BY <1>1, <1>3 DEF Cancel, FramesDelivered, CallerSees
  <2> QED BY <1>1, <2>1, <2>2 DEF PromisedStep
<1> QED BY <1>2, <1>3

LEMMA StageIsSilent ==
  ASSUME TypeOK, NEW w \in Workers,
         Split \/ GpuFinish \/ Completion \/ Entropy(w) \/ UNCHANGED vars
  PROVE  PromisedStep
<1> USE ThreadFacts
<1>1. UNCHANGED <<enqueued, delivered, outcome>>
  <2>1. Split => UNCHANGED <<enqueued, delivered, outcome>>
    BY DEF Split, SplitPop, SplitTakeToken, SplitTakeSlot, SplitFill,
       SplitReturnBuffer, SplitSubmit, SplitPublish, SplitEnd, counterVars, writerVars
  <2>2. GpuFinish \/ Completion => UNCHANGED <<enqueued, delivered, outcome>>
    BY DEF GpuFinish, Completion, GpuPop, GpuWait, GpuReturnToken, GpuForward,
       GpuSendEnds, counterVars, writerVars
  <2>3. Entropy(w) => UNCHANGED <<enqueued, delivered, outcome>>
    BY DEF Entropy, EntropyPop, EntropyEncode, EntropyPush, EntropyEnd, counterVars,
       writerVars
  <2>4. UNCHANGED vars => UNCHANGED <<enqueued, delivered, outcome>>
    BY DEF vars, counterVars, writerVars
  <2> QED BY <2>1, <2>2, <2>3, <2>4
<1>2. pc'["capture"] = pc["capture"]
  BY OneThreadMoves
<1> QED BY <1>1, <1>2 DEF PromisedStep, FramesDelivered, Recording, CallerSees

LEMMA StepIsPromised ==
  ASSUME TypeInv, TypeInv', CountInv, DeliverInv, DeliverInv',
         NEW t \in Threads, NEW w \in Workers, AnyStep(t, w)
  PROVE  PromisedStep
<1>1. TypeOK /\ TypeOK' /\ RawInOrder /\ DeliveredInOrder /\ DeliveredInOrder' /\ ReturnedLast
  BY DEF TypeInv, DeliverInv, OrderInv
<1> QED
  BY <1>1, CaptureIsPromised, StageIsSilent, WriterIsPromised, ThrowIsPromised,
     JoinIsPromised DEF AnyStep

\* The safety of ImplementsDelivery for every number of slots, buffers,
\* workers and frames, and whichever stages throw: frames leave run_pass in
\* capture order, each once, and it returns only when none is left behind.
THEOREM FramesLeaveInOrder ==
  Spec => Delivery!Init /\ [][Delivery!Next]_(Delivery!deliveryVars)
<1>1. Init => Delivery!Init
  <2> SUFFICES ASSUME Init PROVE Delivery!Init
    OBVIOUS
  <2>1. /\ enqueued = 0 /\ delivered = <<>> /\ outcome = "running"
        /\ pc["capture"] = "next"
    BY ThreadFacts DEF Init
  <2>2. [i \in DOMAIN delivered |-> delivered[i].frame] = <<>>
    BY <2>1
  <2> QED BY <2>1, <2>2 DEF Delivery!Init
<1>2. /\ TypeInv /\ CountInv /\ DeliverInv
      /\ TypeInv' /\ DeliverInv'
      /\ [Next]_vars
      => [Delivery!Next]_(Delivery!deliveryVars)
  BY SomeStep, StepIsPromised, PromisedDef
<1> QED BY <1>1, <1>2, DeliverInvariants, PTL DEF Spec
=============================================================================
