----------------------------- MODULE GpuPipeline -----------------------------
(***************************************************************************)
(* run_pass: the staged GPU pipeline of the benchmark.                     *)
(*                                                                         *)
(*   capture -> captureReady -> split -> gpuq -> completion -> entq ->     *)
(*   N entropy workers -> writeq -> ordered writer                         *)
(*                                                                         *)
(* Three resources circulate: RAW capture buffers (captureFree), GPU       *)
(* in-flight tokens (gpuTokens) and processing slots (freeq).  Every queue *)
(* is a Queue<T> (module QueueMonitor); an End sentinel follows the last   *)
(* frame through the stages, one per entropy worker after the              *)
(* completion stage.  An exception in a stage makes its guard close five   *)
(* of the queues, one after the other (Cancel).                            *)
(*                                                                         *)
(* The frame number a RAW buffer, a slot and an encoded output stand for   *)
(* is the only data kept: it tells one frame's picture from another's.     *)
(***************************************************************************)
EXTENDS Naturals, Sequences, FiniteSets

CONSTANTS Slots,          \* processing slots, vp.slots (o.buffers of them)
          NormalBuffers,  \* the RAW buffers allocated before recording
          DynamicBuffers, \* Capture Protection Buffer at its largest
          Inflight,       \* GPU in-flight limit
          Workers,        \* entropy workers, one DirectGprEncoder each
          MaxFrames,      \* bound: frames a pass captures at most
          Timed,          \* TRUE: --duration, the deadline may end it early
          Faulty,         \* the threads that may throw in this run
          End,            \* the END sentinel
          Nil             \* no frame, no output, no worker

Buffers == NormalBuffers \cup DynamicBuffers
Stages  == {"capture", "split", "gpu", "writer"}
Threads == Stages \cup Workers

ASSUME PipelineAssumption ==
    /\ IsFiniteSet(Slots) /\ Slots # {}
    /\ NormalBuffers # {} /\ NormalBuffers \cap DynamicBuffers = {}
    /\ IsFiniteSet(Buffers)
    /\ IsFiniteSet(Workers) /\ Workers # {} /\ Workers \cap Stages = {}
    /\ Inflight \in Nat \ {0}
    /\ MaxFrames \in Nat
    /\ Timed \in BOOLEAN
    /\ Faulty \subseteq Threads
    /\ End \notin Slots \cup Buffers
    /\ Nil \notin Nat \cup Slots \cup Buffers \cup Workers

VARIABLES
    pc,            \* where each thread is
    captureFree,   \* RAW buffers free for the camera
    unallocated,   \* Capture Protection Buffer slots not allocated yet
    captureReady,  \* RAW buffers captured, oldest first
    gpuTokens,     \* GPU in-flight tokens available
    freeq,         \* free processing slots
    gpuq, entq, writeq,
    closed,        \* how many of the five queues cancel has closed
    captureBuf,    \* the frame a RAW buffer holds
    camera,        \* the RAW buffer the capture thread holds
    splitBuf,      \* the RAW buffer the split thread holds
    splitSlot,     \* the processing slot the split thread holds
    split,         \* frames the split thread has numbered (produced)
    slotFrame,     \* slot.frame
    slotData,      \* the frame whose samples are in the slot
    gpuBusy,       \* slots with GPU work submitted and not finished
    gpuSlot,       \* the slot the completion thread holds
    endsSent,      \* END sentinels sent to the entropy workers
    work,          \* the slot each entropy worker holds
    slotWorker,    \* slot.entropy_worker
    slotGpr,       \* slot.gpr: frame encoded and encoder that owns it
    reorder,       \* the writer's reorder buffer
    ended,         \* workers whose END the writer has seen
    writing,       \* the slot being committed
    finalGpr,      \* the output kept for the caller
    enqueued,      \* capture_frames_enqueued
    completed,     \* completed_frames = next_expected_frame
    delivered,     \* history: the outputs committed, in order
    pendingNow,    \* the writer's local `pending_now`
    pendingSeen,   \* the capture thread's local `pending`
    pendingAtStop, \* capture_pending_at_stop
    notice,        \* last notice to the operator about removing power
    outcome        \* of run_pass

captureVars == <<captureFree, unallocated, captureBuf, camera>>
splitVars   == <<splitBuf, splitSlot, split, slotFrame, slotData>>
gpuVars     == <<gpuBusy, gpuSlot, endsSent>>
entropyVars == <<work, slotWorker, slotGpr>>
writerVars  == <<reorder, ended, writing, finalGpr, delivered, pendingNow>>
queueVars   == <<captureReady, gpuTokens, freeq, gpuq, entq, writeq, closed>>
counterVars == <<enqueued, completed, pendingSeen, pendingAtStop, notice>>
vars == <<pc, captureVars, splitVars, gpuVars, entropyVars, writerVars,
          queueVars, counterVars, outcome>>

-----------------------------------------------------------------------------
(* Queue<T>: the five queues cancel closes, in the order it closes them.   *)

FreeqClosed  == closed >= 1
TokensClosed == closed >= 2
GpuqClosed   == closed >= 3
EntqClosed   == closed >= 4
WriteqClosed == closed >= 5

\* Stage queues hold o.buffers + 1 entries, captureReady one per RAW buffer
\* and one more.
HasRoom(q)    == Len(q) < Cardinality(Slots) + 1
ReadyHasRoom  == Len(captureReady) < Cardinality(Buffers) + 1

NonnegativeDifference(newer, older) == IF newer <= older THEN 0
                                       ELSE newer - older

Goto(t, label)      == pc' = [pc EXCEPT ![t] = label]
At(t, label)        == pc[t] = label

Init ==
    /\ pc = [t \in Threads |-> IF t = "capture" THEN "next" ELSE "pop"]
    /\ captureFree = NormalBuffers
    /\ unallocated \in SUBSET DynamicBuffers      \* --capture-queue
    /\ captureReady = <<>> /\ gpuq = <<>> /\ entq = <<>> /\ writeq = <<>>
    /\ gpuTokens = Inflight
    /\ freeq = Slots
    /\ closed = 0
    /\ captureBuf = [b \in Buffers |-> Nil]
    /\ camera = Nil /\ splitBuf = Nil /\ splitSlot = Nil /\ gpuSlot = Nil
    /\ split = 0
    /\ slotFrame = [s \in Slots |-> Nil]
    /\ slotData = [s \in Slots |-> Nil]
    /\ gpuBusy = {}
    /\ endsSent = 0
    /\ work = [w \in Workers |-> Nil]
    /\ slotWorker = [s \in Slots |-> Nil]
    /\ slotGpr = [s \in Slots |-> Nil]
    /\ reorder = {} /\ ended = 0 /\ writing = Nil /\ finalGpr = Nil
    /\ delivered = <<>> /\ pendingNow = 0
    /\ enqueued = 0 /\ completed = 0
    /\ pendingSeen = 0 /\ pendingAtStop = 0 /\ notice = "none"
    /\ outcome = "running"

-----------------------------------------------------------------------------
(* The capture thread.                                                     *)

\* capture_free->try_pop; an empty queue is left for the allocation step.
CaptureTryPop ==
    /\ At("capture", "next") /\ enqueued < MaxFrames
    /\ \/ \E b \in captureFree :
             /\ camera' = b
             /\ captureFree' = captureFree \ {b}
             /\ Goto("capture", "fill")
       \/ /\ captureFree = {}
          /\ Goto("capture", "alloc")
          /\ UNCHANGED <<camera, captureFree>>
    /\ UNCHANGED <<unallocated, captureBuf, splitVars, gpuVars, entropyVars,
                   writerVars, queueVars, counterVars, outcome>>

\* Grow the Capture Protection Buffer, or fall back to waiting for a buffer.
CaptureAllocate ==
    /\ At("capture", "alloc")
    /\ \/ \E b \in unallocated :
             /\ camera' = b
             /\ unallocated' = unallocated \ {b}
             /\ Goto("capture", "fill")
       \/ /\ unallocated = {}
          /\ Goto("capture", "blocked")
          /\ UNCHANGED <<camera, unallocated>>
    /\ UNCHANGED <<captureFree, captureBuf, splitVars, gpuVars, entropyVars,
                   writerVars, queueVars, counterVars, outcome>>

\* capture_free->pop: cancel never closes this queue.
CaptureUnblock ==
    /\ At("capture", "blocked")
    /\ \E b \in captureFree : camera' = b /\ captureFree' = captureFree \ {b}
    /\ Goto("capture", "fill")
    /\ UNCHANGED <<unallocated, captureBuf, splitVars, gpuVars, entropyVars,
                   writerVars, queueVars, counterVars, outcome>>

\* The picture is copied and counted before it is published.
CaptureFill ==
    /\ At("capture", "fill")
    /\ captureBuf' = [captureBuf EXCEPT ![camera] = enqueued]
    /\ enqueued' = enqueued + 1
    /\ Goto("capture", "push")
    /\ UNCHANGED <<captureFree, unallocated, camera, splitVars, gpuVars,
                   entropyVars, writerVars, queueVars, completed, pendingSeen,
                   pendingAtStop, notice, outcome>>

CapturePublish ==
    /\ At("capture", "push") /\ ReadyHasRoom
    /\ captureReady' = Append(captureReady, camera)
    /\ camera' = Nil
    /\ Goto("capture", "next")
    /\ UNCHANGED <<captureFree, unallocated, captureBuf, splitVars, gpuVars,
                   entropyVars, writerVars, gpuTokens, freeq, gpuq, entq,
                   writeq, closed, counterVars, outcome>>

\* Seeded fault: only the frames still waiting for the split are counted.
StopCountsQueueOnly ==
    /\ At("capture", "next")
    /\ enqueued = MaxFrames \/ (Timed /\ enqueued > 0)
    /\ pendingSeen' = Len(captureReady)
    /\ Goto("capture", "stopped")
    /\ UNCHANGED <<captureVars, splitVars, gpuVars, entropyVars, writerVars,
                   queueVars, enqueued, completed, pendingAtStop, notice,
                   outcome>>

\* The frame count is reached, or the deadline passes after the first frame;
\* the frames still in the pipeline are counted.
CaptureStop ==
    /\ At("capture", "next")
    /\ enqueued = MaxFrames \/ (Timed /\ enqueued > 0)
    /\ pendingSeen' = NonnegativeDifference(enqueued, completed)
    /\ Goto("capture", "stopped")
    /\ UNCHANGED <<captureVars, splitVars, gpuVars, entropyVars, writerVars,
                   queueVars, enqueued, completed, pendingAtStop, notice,
                   outcome>>

\* capture_pending_at_stop.store, which the writer polls.
CaptureStoreStop ==
    /\ At("capture", "stopped")
    /\ pendingAtStop' = pendingSeen
    /\ Goto("capture", "stored")
    /\ UNCHANGED <<captureVars, splitVars, gpuVars, entropyVars, writerVars,
                   queueVars, enqueued, completed, pendingSeen, notice,
                   outcome>>

\* The record-stop notice, after the writer may have seen the store.
CaptureAnnounceStop ==
    /\ At("capture", "stored")
    /\ notice' = IF pendingSeen > 0 THEN "keep power" ELSE "safe to close"
    /\ Goto("capture", "end")
    /\ UNCHANGED <<captureVars, splitVars, gpuVars, entropyVars, writerVars,
                   queueVars, enqueued, completed, pendingSeen, pendingAtStop,
                   outcome>>

CaptureEnd ==
    /\ At("capture", "end") /\ ReadyHasRoom
    /\ captureReady' = Append(captureReady, End)
    /\ Goto("capture", "done")
    /\ UNCHANGED <<captureVars, splitVars, gpuVars, entropyVars, writerVars,
                   gpuTokens, freeq, gpuq, entq, writeq, closed, counterVars,
                   outcome>>

\* Seeded fault: the order the comment in the code warns against, publishing
\* a frame first and counting it afterwards.
PublishBeforeCount ==
    \/ CaptureTryPop \/ CaptureAllocate \/ CaptureUnblock
    \/ /\ At("capture", "fill")
       /\ captureBuf' = [captureBuf EXCEPT ![camera] = enqueued]
       /\ captureReady' = Append(captureReady, camera)
       /\ camera' = Nil
       /\ Goto("capture", "push")
       /\ UNCHANGED <<captureFree, unallocated, splitVars, gpuVars,
                      entropyVars, writerVars, gpuTokens, freeq, gpuq, entq,
                      writeq, closed, counterVars, outcome>>
    \/ /\ At("capture", "push")
       /\ enqueued' = enqueued + 1
       /\ Goto("capture", "next")
       /\ UNCHANGED <<captureVars, splitVars, gpuVars, entropyVars,
                      writerVars, queueVars, completed, pendingSeen,
                      pendingAtStop, notice, outcome>>
    \/ CaptureStop \/ CaptureStoreStop \/ CaptureAnnounceStop \/ CaptureEnd

Capture == \/ CaptureTryPop \/ CaptureAllocate \/ CaptureUnblock
           \/ CaptureFill \/ CapturePublish \/ CaptureStop
           \/ CaptureStoreStop \/ CaptureAnnounceStop \/ CaptureEnd

-----------------------------------------------------------------------------
(* The split thread.                                                       *)

\* Seeded fault: the RAW buffer goes back to the camera before it is split.
PopReturnsBuffer ==
    /\ At("split", "pop") /\ captureReady # <<>>
    /\ captureReady' = Tail(captureReady)
    /\ IF Head(captureReady) = End
       THEN Goto("split", "end") /\ UNCHANGED <<splitBuf, captureFree>>
       ELSE /\ Goto("split", "token")
            /\ splitBuf' = Head(captureReady)
            /\ captureFree' = captureFree \cup {Head(captureReady)}
    /\ UNCHANGED <<unallocated, captureBuf, camera, splitSlot, split,
                   slotFrame, slotData, gpuVars, entropyVars, writerVars,
                   gpuTokens, freeq, gpuq, entq, writeq, closed, counterVars,
                   outcome>>

SplitPop ==
    /\ At("split", "pop") /\ captureReady # <<>>
    /\ captureReady' = Tail(captureReady)
    /\ IF Head(captureReady) = End
       THEN Goto("split", "end") /\ UNCHANGED splitBuf
       ELSE Goto("split", "token") /\ splitBuf' = Head(captureReady)
    /\ UNCHANGED <<captureVars, splitSlot, split, slotFrame, slotData,
                   gpuVars, entropyVars, writerVars, gpuTokens, freeq, gpuq,
                   entq, writeq, closed, counterVars, outcome>>

\* Seeded fault: the limiter is decremented without waiting.
TakeTokenUnguarded ==
    /\ At("split", "token")
    /\ gpuTokens' = gpuTokens - 1
    /\ Goto("split", "slot")
    /\ UNCHANGED <<captureVars, splitVars, gpuVars, entropyVars, writerVars,
                   captureReady, freeq, gpuq, entq, writeq, closed,
                   counterVars, outcome>>

SplitTakeToken ==
    /\ At("split", "token")
    /\ \/ /\ gpuTokens > 0
          /\ gpuTokens' = gpuTokens - 1
          /\ Goto("split", "slot")
       \/ /\ gpuTokens = 0 /\ TokensClosed
          /\ Goto("split", "done")
          /\ UNCHANGED gpuTokens
    /\ UNCHANGED <<captureVars, splitVars, gpuVars, entropyVars, writerVars,
                   captureReady, freeq, gpuq, entq, writeq, closed,
                   counterVars, outcome>>

\* freeq.pop numbers the slot; a closed queue gives the token back and leaves.
SplitTakeSlot ==
    /\ At("split", "slot")
    /\ \/ \E s \in freeq :
             /\ freeq' = freeq \ {s}
             /\ splitSlot' = s
             /\ slotFrame' = [slotFrame EXCEPT ![s] = split]
             /\ slotWorker' = [slotWorker EXCEPT ![s] = Nil]
             /\ Goto("split", "fill")
             /\ UNCHANGED gpuTokens
       \/ /\ freeq = {} /\ FreeqClosed
          /\ gpuTokens' = IF TokensClosed THEN gpuTokens ELSE gpuTokens + 1
          /\ Goto("split", "done")
          /\ UNCHANGED <<freeq, splitSlot, slotFrame, slotWorker>>
    /\ UNCHANGED <<captureVars, splitBuf, split, slotData, gpuVars, work,
                   slotGpr, writerVars, captureReady, gpuq, entq, writeq,
                   closed, counterVars, outcome>>

\* split_compand reads the RAW buffer into the slot.
SplitFill ==
    /\ At("split", "fill")
    /\ slotData' = [slotData EXCEPT ![splitSlot] = captureBuf[splitBuf]]
    /\ Goto("split", "return")
    /\ UNCHANGED <<captureVars, splitBuf, splitSlot, split, slotFrame,
                   gpuVars, entropyVars, writerVars, queueVars, counterVars,
                   outcome>>

SplitReturnBuffer ==
    /\ At("split", "return")
    /\ captureFree' = captureFree \cup {splitBuf}
    /\ splitBuf' = Nil
    /\ Goto("split", "submit")
    /\ UNCHANGED <<unallocated, captureBuf, camera, splitSlot, split,
                   slotFrame, slotData, gpuVars, entropyVars, writerVars,
                   queueVars, counterVars, outcome>>

\* vp.submit under gpu_submit_mu.
SplitSubmit ==
    /\ At("split", "submit")
    /\ gpuBusy' = gpuBusy \cup {splitSlot}
    /\ split' = split + 1
    /\ Goto("split", "publish")
    /\ UNCHANGED <<captureVars, splitBuf, splitSlot, slotFrame, slotData,
                   gpuSlot, endsSent, entropyVars, writerVars, queueVars,
                   counterVars, outcome>>

SplitPublish ==
    /\ At("split", "publish")
    /\ splitSlot' = Nil
    /\ \/ /\ ~GpuqClosed /\ HasRoom(gpuq)
          /\ gpuq' = Append(gpuq, splitSlot)
          /\ Goto("split", "pop")
       \/ /\ GpuqClosed
          /\ Goto("split", "done")
          /\ UNCHANGED gpuq
    /\ UNCHANGED <<captureVars, splitBuf, split, slotFrame, slotData, gpuVars,
                   entropyVars, writerVars, captureReady, gpuTokens, freeq,
                   entq, writeq, closed, counterVars, outcome>>

SplitEnd ==
    /\ At("split", "end")
    /\ \/ ~GpuqClosed /\ HasRoom(gpuq) /\ gpuq' = Append(gpuq, End)
       \/ GpuqClosed /\ UNCHANGED gpuq
    /\ Goto("split", "done")
    /\ UNCHANGED <<captureVars, splitVars, gpuVars, entropyVars, writerVars,
                   captureReady, gpuTokens, freeq, entq, writeq, closed,
                   counterVars, outcome>>

Split == \/ SplitPop \/ SplitTakeToken \/ SplitTakeSlot \/ SplitFill
         \/ SplitReturnBuffer \/ SplitSubmit \/ SplitPublish \/ SplitEnd

-----------------------------------------------------------------------------
(* The GPU and the completion thread.                                      *)

\* The device finishes one submission.
GpuFinish ==
    /\ \E s \in gpuBusy : gpuBusy' = gpuBusy \ {s}
    /\ UNCHANGED <<pc, captureVars, splitVars, gpuSlot, endsSent, entropyVars,
                   writerVars, queueVars, counterVars, outcome>>

GpuPop ==
    /\ At("gpu", "pop")
    /\ \/ /\ gpuq # <<>>
          /\ gpuq' = Tail(gpuq)
          /\ IF Head(gpuq) = End
             THEN Goto("gpu", "ends") /\ UNCHANGED gpuSlot
             ELSE Goto("gpu", "wait") /\ gpuSlot' = Head(gpuq)
       \/ /\ gpuq = <<>> /\ GpuqClosed
          /\ Goto("gpu", "done")
          /\ UNCHANGED <<gpuq, gpuSlot>>
    /\ UNCHANGED <<captureVars, splitVars, gpuBusy, endsSent, entropyVars,
                   writerVars, captureReady, gpuTokens, freeq, entq, writeq,
                   closed, counterVars, outcome>>

\* vp.wait: the fence of the slot has signalled.
GpuWait ==
    /\ At("gpu", "wait") /\ gpuSlot \notin gpuBusy
    /\ Goto("gpu", "token")
    /\ UNCHANGED <<captureVars, splitVars, gpuVars, entropyVars, writerVars,
                   queueVars, counterVars, outcome>>

GpuReturnToken ==
    /\ At("gpu", "token")
    /\ \/ /\ ~TokensClosed /\ gpuTokens < Inflight
          /\ gpuTokens' = gpuTokens + 1
          /\ Goto("gpu", "forward")
       \/ /\ TokensClosed
          /\ Goto("gpu", "done")
          /\ UNCHANGED gpuTokens
    /\ UNCHANGED <<captureVars, splitVars, gpuVars, entropyVars, writerVars,
                   captureReady, freeq, gpuq, entq, writeq, closed,
                   counterVars, outcome>>

GpuForward ==
    /\ At("gpu", "forward")
    /\ gpuSlot' = Nil
    /\ \/ /\ ~EntqClosed /\ HasRoom(entq)
          /\ entq' = Append(entq, gpuSlot)
          /\ Goto("gpu", "pop")
       \/ /\ EntqClosed
          /\ Goto("gpu", "done")
          /\ UNCHANGED entq
    /\ UNCHANGED <<captureVars, splitVars, gpuBusy, endsSent, entropyVars,
                   writerVars, captureReady, gpuTokens, freeq, gpuq, writeq,
                   closed, counterVars, outcome>>

\* One END per entropy worker.
GpuSendEnds ==
    /\ At("gpu", "ends")
    /\ \/ /\ endsSent < Cardinality(Workers)
          /\ ~EntqClosed /\ HasRoom(entq)
          /\ entq' = Append(entq, End)
          /\ endsSent' = endsSent + 1
          /\ UNCHANGED pc
       \/ /\ endsSent = Cardinality(Workers) \/ EntqClosed
          /\ Goto("gpu", "done")
          /\ UNCHANGED <<entq, endsSent>>
    /\ UNCHANGED <<captureVars, splitVars, gpuBusy, gpuSlot, entropyVars,
                   writerVars, captureReady, gpuTokens, freeq, gpuq, writeq,
                   closed, counterVars, outcome>>

Completion == \/ GpuPop \/ GpuWait \/ GpuReturnToken \/ GpuForward
              \/ GpuSendEnds

-----------------------------------------------------------------------------
(* The entropy workers.                                                    *)

EntropyPop(w) ==
    /\ At(w, "pop")
    /\ \/ /\ entq # <<>>
          /\ entq' = Tail(entq)
          /\ IF Head(entq) = End
             THEN Goto(w, "end") /\ UNCHANGED <<work, slotWorker>>
             ELSE /\ Goto(w, "encode")
                  /\ work' = [work EXCEPT ![w] = Head(entq)]
                  /\ slotWorker' = [slotWorker EXCEPT ![Head(entq)] = w]
       \/ /\ entq = <<>> /\ EntqClosed
          /\ Goto(w, "done")
          /\ UNCHANGED <<entq, work, slotWorker>>
    /\ UNCHANGED <<captureVars, splitVars, gpuVars, slotGpr, writerVars,
                   captureReady, gpuTokens, freeq, gpuq, writeq, closed,
                   counterVars, outcome>>

EntropyEncode(w) ==
    /\ At(w, "encode")
    /\ slotGpr' = [slotGpr EXCEPT
                     ![work[w]] = [frame |-> slotData[work[w]], by |-> w]]
    /\ Goto(w, "push")
    /\ UNCHANGED <<captureVars, splitVars, gpuVars, work, slotWorker,
                   writerVars, queueVars, counterVars, outcome>>

EntropyPush(w) ==
    /\ At(w, "push")
    /\ work' = [work EXCEPT ![w] = Nil]
    /\ \/ /\ ~WriteqClosed /\ HasRoom(writeq)
          /\ writeq' = Append(writeq, work[w])
          /\ Goto(w, "pop")
       \/ /\ WriteqClosed
          /\ Goto(w, "done")
          /\ UNCHANGED writeq
    /\ UNCHANGED <<captureVars, splitVars, gpuVars, slotWorker, slotGpr,
                   writerVars, captureReady, gpuTokens, freeq, gpuq, entq,
                   closed, counterVars, outcome>>

EntropyEnd(w) ==
    /\ At(w, "end")
    /\ \/ ~WriteqClosed /\ HasRoom(writeq) /\ writeq' = Append(writeq, End)
       \/ WriteqClosed /\ UNCHANGED writeq
    /\ Goto(w, "done")
    /\ UNCHANGED <<captureVars, splitVars, gpuVars, entropyVars, writerVars,
                   captureReady, gpuTokens, freeq, gpuq, entq, closed,
                   counterVars, outcome>>

Entropy(w) == EntropyPop(w) \/ EntropyEncode(w) \/ EntropyPush(w)
              \/ EntropyEnd(w)

-----------------------------------------------------------------------------
(* The ordered writer.                                                     *)

\* Seeded fault: whatever has arrived is committed.
AnyArrived == reorder

NextInOrder == {s \in reorder : slotFrame[s] = completed}
SameFrame(s) == {r \in reorder : slotFrame[r] = slotFrame[s]}

\* A slot enters the reorder buffer (a frame already there is an error); an
\* END counts one worker out.
WriterPop ==
    /\ At("writer", "pop")
    /\ \/ /\ writeq # <<>>
          /\ writeq' = Tail(writeq)
          /\ LET s == Head(writeq) IN
             \/ /\ s = End
                /\ ended' = ended + 1
                /\ IF ended + 1 = Cardinality(Workers)
                   THEN Goto("writer", "drain") ELSE UNCHANGED pc
                /\ UNCHANGED <<reorder, outcome>>
             \/ /\ s # End /\ SameFrame(s) = {}
                /\ reorder' = reorder \cup {s}
                /\ Goto("writer", "drain")
                /\ UNCHANGED <<ended, outcome>>
             \/ /\ s # End /\ SameFrame(s) # {}
                /\ Goto("writer", "cancel")
                /\ outcome' = "failing"
                /\ UNCHANGED <<reorder, ended>>
       \/ /\ writeq = <<>> /\ WriteqClosed
          /\ Goto("writer", "done")
          /\ UNCHANGED <<writeq, reorder, ended, outcome>>
    /\ UNCHANGED <<captureVars, splitVars, gpuVars, entropyVars, writing,
                   finalGpr, delivered, pendingNow, captureReady, gpuTokens,
                   freeq, gpuq, entq, closed, counterVars>>

\* commit_slot, first half: the frame is counted as complete.
WriterCommit ==
    /\ At("writer", "drain")
    /\ \E s \in NextInOrder :
          /\ reorder' = reorder \ {s}
          /\ writing' = s
          /\ delivered' = Append(delivered, slotGpr[s])
    /\ completed' = completed + 1
    /\ Goto("writer", "count")
    /\ UNCHANGED <<captureVars, splitVars, gpuVars, entropyVars, ended,
                   finalGpr, pendingNow, queueVars, enqueued, pendingSeen,
                   pendingAtStop, notice, outcome>>

\* pending_now: the two counters are read before capture_pending_at_stop is.
WriterCount ==
    /\ At("writer", "count")
    /\ pendingNow' = NonnegativeDifference(enqueued, completed)
    /\ Goto("writer", "release")
    /\ UNCHANGED <<captureVars, splitVars, gpuVars, entropyVars, reorder,
                   ended, writing, finalGpr, delivered, queueVars,
                   counterVars, outcome>>

\* Second half: the drain notice, the retained output, the slot's return.
WriterRelease ==
    /\ At("writer", "release")
    /\ notice' = IF pendingAtStop > 0 /\ pendingNow = 0
                 THEN "power may be removed" ELSE notice
    /\ pendingNow' = 0      \* the local goes out of scope
    /\ finalGpr' = slotGpr[writing]
    /\ slotGpr' = [slotGpr EXCEPT ![writing] = Nil]
    /\ slotWorker' = [slotWorker EXCEPT ![writing] = Nil]
    /\ writing' = Nil
    /\ \/ /\ ~FreeqClosed
          /\ freeq' = freeq \cup {writing}
          /\ Goto("writer", "drain")
          /\ UNCHANGED outcome
       \/ /\ FreeqClosed
          /\ Goto("writer", "cancel")
          /\ outcome' = "failing"
          /\ UNCHANGED freeq
    /\ UNCHANGED <<captureVars, splitVars, gpuVars, work, reorder, ended,
                   delivered, captureReady, gpuTokens, gpuq, entq, writeq,
                   closed, enqueued, completed, pendingSeen, pendingAtStop>>

\* Nothing more to commit: wait for the next slot or, after the last END,
\* leave (a gap is an error).
WriterDrained ==
    /\ At("writer", "drain") /\ NextInOrder = {}
    /\ \/ /\ ended # Cardinality(Workers)
          /\ Goto("writer", "pop")
          /\ UNCHANGED outcome
       \/ /\ ended = Cardinality(Workers) /\ reorder = {}
          /\ Goto("writer", "done")
          /\ UNCHANGED outcome
       \/ /\ ended = Cardinality(Workers) /\ reorder # {}
          /\ Goto("writer", "cancel")
          /\ outcome' = "failing"
    /\ UNCHANGED <<captureVars, splitVars, gpuVars, entropyVars, writerVars,
                   queueVars, counterVars>>

Writer == WriterPop \/ WriterCommit \/ WriterCount \/ WriterRelease
          \/ WriterDrained

-----------------------------------------------------------------------------
(* Exceptions, cancellation and the end of the pass.                       *)

\* Where a stage calls something that can throw: an allocation, the Vulkan
\* calls, the encoder, the CSV file.
MayThrow(t) == \/ t = "capture" /\ pc[t] = "alloc" /\ unallocated # {}
               \/ t = "split"   /\ pc[t] \in {"fill", "submit"}
               \/ t = "gpu"     /\ pc[t] = "wait"
               \/ t = "writer"  /\ pc[t] = "count"
               \/ t \in Workers /\ pc[t] = "encode"

Throw(t) ==
    /\ t \in Faulty /\ MayThrow(t)
    /\ Goto(t, "cancel")
    /\ outcome' = "failing"
    /\ UNCHANGED <<captureVars, splitVars, gpuVars, entropyVars, writerVars,
                   queueVars, counterVars>>

\* Seeded fault: the write queue is left open.
CancelKeepsWriteq(t) ==
    /\ At(t, "cancel")
    /\ \/ closed < 4 /\ closed' = closed + 1 /\ UNCHANGED pc
       \/ closed = 4 /\ Goto(t, "done") /\ UNCHANGED closed
    /\ UNCHANGED <<captureVars, splitVars, gpuVars, entropyVars, writerVars,
                   captureReady, gpuTokens, freeq, gpuq, entq, writeq,
                   counterVars, outcome>>

\* The guard's cancel() closes freeq, gpu_tokens, gpuq, entq, writeq in turn.
\* It never closes captureFree or captureReady.
Cancel(t) ==
    /\ At(t, "cancel")
    /\ \/ /\ closed < 5
          /\ closed' = closed + 1
          /\ UNCHANGED pc
       \/ /\ closed = 5
          /\ Goto(t, "done")
          /\ UNCHANGED closed
    /\ UNCHANGED <<captureVars, splitVars, gpuVars, entropyVars, writerVars,
                   captureReady, gpuTokens, freeq, gpuq, entq, writeq,
                   counterVars, outcome>>

AllDone == \A t \in Threads : pc[t] = "done"

\* Join every thread, cancel, free what the slots still hold, then rethrow,
\* refuse a frame count that does not match, or return.
Join ==
    /\ AllDone
    /\ outcome \in {"running", "failing"}
    /\ closed' = 5
    /\ slotGpr' = [s \in Slots |-> Nil]
    /\ outcome' = IF \/ outcome = "failing"
                     \/ delivered # <<>> /\ Len(delivered) # split
                  THEN "threw" ELSE "returned"
    /\ UNCHANGED <<pc, captureVars, splitVars, gpuVars, work, slotWorker,
                   writerVars, captureReady, gpuTokens, freeq, gpuq, entq,
                   writeq, counterVars>>

Finished == outcome \in {"returned", "threw"} /\ UNCHANGED vars

Next == \/ Capture \/ Split \/ GpuFinish \/ Completion
        \/ \E w \in Workers : Entropy(w)
        \/ Writer
        \/ \E t \in Threads : Throw(t) \/ Cancel(t)
        \/ Join \/ Finished

\* Every thread is scheduled and the GPU finishes what it is given; when a
\* timed recording ends is the operator's choice, bounded by MaxFrames.
Fairness == /\ WF_vars(Capture) /\ WF_vars(Split)
            /\ WF_vars(GpuFinish) /\ WF_vars(Completion)
            /\ \A w \in Workers : WF_vars(Entropy(w))
            /\ WF_vars(Writer)
            /\ \A t \in Threads : WF_vars(Cancel(t))
            /\ WF_vars(Join)

Spec == Init /\ [][Next]_vars /\ Fairness

-----------------------------------------------------------------------------
(* Properties.                                                             *)

Labels == {"next", "alloc", "blocked", "fill", "push", "stopped", "stored",
           "end", "pop", "token", "slot", "return", "submit", "publish",
           "wait", "forward", "ends", "encode", "drain", "count", "release",
           "cancel", "done"}
Maybe(S) == S \cup {Nil}
Outputs == [frame : Maybe(Nat), by : Workers]

CaptureTypes == /\ captureFree \subseteq Buffers
                /\ unallocated \subseteq Buffers
                /\ captureBuf \in [Buffers -> Maybe(Nat)]
                /\ camera \in Maybe(Buffers)
SplitTypes   == /\ splitBuf \in Maybe(Buffers) /\ splitSlot \in Maybe(Slots)
                /\ split \in Nat
                /\ slotFrame \in [Slots -> Maybe(Nat)]
                /\ slotData \in [Slots -> Maybe(Nat)]
GpuTypes     == /\ gpuBusy \subseteq Slots /\ gpuSlot \in Maybe(Slots)
                /\ endsSent \in Nat
EntropyTypes == /\ work \in [Workers -> Maybe(Slots)]
                /\ slotWorker \in [Slots -> Maybe(Workers)]
                /\ slotGpr \in [Slots -> Maybe(Outputs)]
WriterTypes  == /\ reorder \subseteq Slots /\ ended \in Nat
                /\ writing \in Maybe(Slots) /\ finalGpr \in Maybe(Outputs)
                /\ delivered \in Seq(Maybe(Outputs)) /\ pendingNow \in Nat
QueueTypes   == /\ captureReady \in Seq(Buffers \cup {End})
                /\ gpuTokens \in Nat
                /\ freeq \subseteq Slots
                /\ gpuq \in Seq(Slots \cup {End})
                /\ entq \in Seq(Slots \cup {End})
                /\ writeq \in Seq(Slots \cup {End})
                /\ closed \in 0..5
CounterTypes == /\ enqueued \in Nat /\ completed \in Nat
                /\ pendingSeen \in Nat /\ pendingAtStop \in Nat
                /\ notice \in {"none", "keep power", "safe to close",
                               "power may be removed"}

\* Every variable of run_pass keeps its type; in particular the GPU limiter
\* never goes negative.
TypeOK == /\ pc \in [Threads -> Labels]
          /\ outcome \in {"running", "failing", "returned", "threw"}
          /\ CaptureTypes /\ SplitTypes /\ GpuTypes /\ EntropyTypes
          /\ WriterTypes /\ QueueTypes /\ CounterTypes

Occurrences(x, q) == Cardinality({i \in DOMAIN q : q[i] = x})
Held(condition)   == IF condition THEN 1 ELSE 0

\* How many holders a processing slot, or a RAW buffer, has.
SlotHolders(s) ==
    Held(s \in freeq) + Held(splitSlot = s) + Occurrences(s, gpuq)
    + Held(gpuSlot = s) + Occurrences(s, entq)
    + Cardinality({w \in Workers : work[w] = s}) + Occurrences(s, writeq)
    + Held(s \in reorder) + Held(writing = s)
BufferHolders(b) ==
    Held(b \in captureFree) + Held(b \in unallocated) + Held(camera = b)
    + Occurrences(b, captureReady) + Held(splitBuf = b)

\* No slot and no RAW buffer is ever in two hands (two stages writing one
\* slot, the camera overwriting a frame not yet split), and while no stage
\* has failed none is lost: the pools cannot run dry in a long take.  A slot
\* the GPU still works on is with the split or the completion stage: nobody
\* encodes or frees a frame in flight.
SingleOwner ==
    /\ \A s \in Slots : /\ SlotHolders(s) <= 1
                        /\ outcome = "running" => SlotHolders(s) = 1
    /\ \A b \in Buffers : /\ BufferHolders(b) <= 1
                          /\ outcome = "running"
                             /\ (b \in NormalBuffers \/ captureBuf[b] # Nil)
                             => BufferHolders(b) = 1
    /\ \A s \in gpuBusy :
          /\ s \notin freeq \cup reorder
          /\ Occurrences(s, entq) + Occurrences(s, writeq) = 0
          /\ \A w \in Workers : work[w] # s

\* A frame is never complete before it is counted as captured (the comment
\* in the capture thread: completed > enqueued underflowed the deficit).
CompletedWithinCaptured == completed <= enqueued

Stopped == pc["capture"] \in {"stopped", "stored", "end", "done"}

\* "Safe to close immediately" is only said of a pass whose every captured
\* frame has been committed, however the two counters it compares move
\* meanwhile; and neither it nor the end of the drain is announced while the
\* camera may still capture.
SafeToClose ==
    /\ notice = "safe to close" => completed = enqueued
    /\ notice \in {"safe to close", "power may be removed"} => Stopped

\* What the log says at the end of a drain: "BUFFER DRAIN COMPLETE: all
\* captured frames encoded; power may now be removed safely."  commit_slot
\* reads the counters before capture_pending_at_stop: a frame captured, and
\* the stop stored, between the two reads makes it untrue.
NoticeHonest == notice = "power may be removed" => completed = enqueued

\* run_pass implements ordered delivery, whether or not a stage fails:
\* `recording` is the capture loop; a stage that throws fails the pass.
Delivery == INSTANCE OrderedDelivery WITH
    captured  <- enqueued,
    delivered <- [i \in DOMAIN delivered |-> delivered[i].frame],
    recording <- pc["capture"] \notin
                    {"stopped", "stored", "end", "done", "cancel"},
    outcome   <- IF outcome \in {"failing", "threw"} THEN "failed" ELSE outcome
ImplementsDelivery == Delivery!Spec

\* When a stage fails, every stage that ends up waiting on a queue cancel
\* closes comes to an end; the capture thread is not among them.
CancelStopsEncoding ==
    (outcome = "failing") ~> (\A t \in Threads \ {"capture"} : pc[t] = "done")

\* A stage's error reaches the caller of run_pass.
ErrorReachesCaller == (outcome = "failing") ~> (outcome = "threw")
=============================================================================
