--------------------------- MODULE CpuGprPipeline ---------------------------
(***************************************************************************)
(* run_cpu_gpr_pipeline: workers that take frames on, transform, encode,   *)
(* save and release them on their own.  What they share: the count of      *)
(* frames, the rendezvous, the wavelet assistants, the numbers of the      *)
(* saved files, and a helper thread that frees their outputs.              *)
(*                                                                         *)
(* An output is a buffer of the heap, the encoder's retained container     *)
(* (H2) or a buffer of its pool.  A freed buffer is no longer in `bytes`.  *)
(* `error` is stored just before `stop` and read after the join: one flag  *)
(* stands for both.                                                        *)
(***************************************************************************)
EXTENDS WaveRendezvous, WaveletAssistant, Sequences, FiniteSetsExt

CONSTANTS OptionSets,
          RETIRE_MAX, SPLICE_VERIFY_FRAMES, HYBRID_VERIFY_FRAMES

VARIABLES o, main, stop,
          next_frame,
          pc, frame,        \* where each worker is, and the frame it works on
          bytes,            \* what each live buffer holds: a frame, and
                            \* whether it is what the int16 path would write
          ref, out,         \* the buffers of each worker
          pool_buf_, pool_last_out_,
          learnt,           \* how often each encoder's template was confirmed
          hyb_ok, hyb_dead,
          saved_count, save_ticket,
          files,            \* what was written, and under which number
          retire_q, retirer, retiring, retire_stop,
          finished, commits \* the frames that are done, and how many were

Options == [workers : 1..4, frames : Nat, timed : BOOLEAN, may_fail : BOOLEAN,
            rendezvous : BOOLEAN, assistant : Seq(0..3), helper : BOOLEAN,
            output : {"sdk", "copy", "retained", "pooled"},
            hybrid : BOOLEAN, save : BOOLEAN, save_gpr_limit : Nat]

\* Only three workers are assisted (cpu_gpr_primary_worker_count).
ASSUME OptionsAssumption ==
    /\ RETIRE_MAX \in Nat \ {0}
    /\ \A opt \in OptionSets :
        /\ opt \in Options /\ Len(opt.assistant) = opt.workers
        /\ opt.workers # 3 => \A w \in 1..opt.workers : opt.assistant[w] = 0

encoderVars == <<ref, out, bytes, pool_buf_, pool_last_out_, learnt, hyb_ok, hyb_dead>>
saveVars    == <<saved_count, save_ticket, files>>
retireVars  == <<retire_q, retirer, retiring, retire_stop>>
frameVars   == <<next_frame, frame, finished, commits>>
waveVars    == <<rendezvousVars, assistantVars>>
vars == <<o, main, stop, pc, frameVars, waveVars, encoderVars, saveVars, retireVars>>

Workers == 1..o.workers
AssistantOf(w) == o.assistant[w]         \* 0: none
Helpers == {AssistantOf(w) : w \in Workers} \ {0}

Init ==
    /\ o \in OptionSets /\ main = "running" /\ stop = FALSE
    /\ next_frame = 0 /\ finished = {} /\ commits = 0
    /\ RendezvousInit(Workers) /\ AssistantInit(Workers, Helpers)
    /\ pc = [w \in Workers |-> "start"] /\ frame = [w \in Workers |-> 0]
    /\ bytes = <<>>
    /\ ref = [w \in Workers |-> Nil] /\ out = [w \in Workers |-> Nil]
    /\ pool_buf_ = [w \in Workers |-> Nil]
    /\ pool_last_out_ = [w \in Workers |-> Nil]
    /\ learnt = [w \in Workers |-> 0]
    /\ hyb_ok = [w \in Workers |-> 0] /\ hyb_dead = [w \in Workers |-> FALSE]
    /\ saved_count = 0 /\ files = {} /\ save_ticket = [w \in Workers |-> Nil]
    /\ retire_q = <<>> /\ retiring = Nil /\ retire_stop = FALSE
    /\ retirer = IF o.helper THEN "wait" ELSE "done"

Goto(w, where) == pc' = [pc EXCEPT ![w] = where]

-----------------------------------------------------------------------------
(* Buffers.                                                                *)

\* Nil is none of them and no generation of the rendezvous.
ASSUME NilAssumption ==
    Nil \notin Nat /\ Nil \notin {"ref", "out", "container"} \X Nat

Container(w) == <<"container", w>>
Fresh(w, path) == <<path, frame[w]>>
Live == DOMAIN bytes
Without(b) == [c \in Live \ {b} |-> bytes[c]]

Start(w) ==
    /\ pc[w] = "start" /\ Goto(w, "assign")
    /\ UNCHANGED <<o, main, stop, frameVars, waveVars, encoderVars, saveVars, retireVars>>

\* Under assign_mu; a timed pass takes at least one frame on.
Assign(w) ==
    /\ pc[w] = "assign" /\ ~stop /\ next_frame < o.frames
    /\ next_frame' = next_frame + 1
    /\ frame' = [frame EXCEPT ![w] = next_frame + 1]
    /\ Goto(w, IF o.rendezvous THEN "arrive" ELSE "begin")
    /\ UNCHANGED <<o, main, stop, finished, commits, waveVars, encoderVars,
                   saveVars, retireVars>>

\* The end of body: the encoder, its pool and its container go.
Leave_(w) ==
    /\ bytes' = [b \in Live \ {pool_buf_[w], Container(w)} |-> bytes[b]]
    /\ pool_buf_' = [pool_buf_ EXCEPT ![w] = Nil]
    /\ Goto(w, "done")
    /\ UNCHANGED <<o, main, frameVars, waveVars, pool_last_out_, learnt, hyb_ok,
                   hyb_dead, saveVars, retireVars>>

NoMoreFrames(w) ==
    /\ pc[w] = "assign"
    /\ stop \/ next_frame >= o.frames \/ (o.timed /\ next_frame > 0)
    /\ Leave_(w)
    /\ UNCHANGED <<stop, ref, out>>

\* An exception: what the worker held is lost.
Throw(w) ==
    /\ o.may_fail
    /\ pc[w] \in {"start", "begin", "rows", "encode", "verify", "write"}
    /\ stop' = TRUE
    /\ out' = [out EXCEPT ![w] = Nil] /\ ref' = [ref EXCEPT ![w] = Nil]
    /\ Leave_(w)

-----------------------------------------------------------------------------
(* The wavelet.                                                            *)

Rendezvous(w) ==
    /\ \/ /\ pc[w] = "arrive"
          /\ Arrive(w, o.workers)
          /\ Goto(w, IF my_generation'[w] = Nil THEN "begin" ELSE "arrived")
       \/ /\ pc[w] = "arrived"
          /\ Leave(w) \/ Timeout(w)
          /\ Goto(w, "begin")
    /\ UNCHANGED <<o, main, stop, frameVars, assistantVars, encoderVars,
                   saveVars, retireVars>>

Transform(w) == LET h == AssistantOf(w) IN
    /\ \/ /\ pc[w] = "begin" /\ h # 0
          /\ TryBegin(w, h)
          /\ Goto(w, "rows")
       \/ /\ pc[w] = "rows" /\ ticket[w] # 0 /\ next_row[w] <= Rows
          /\ WriteRow(w, h, frame[w])
          /\ Goto(w, "publish")
       \/ /\ pc[w] = "publish"
          /\ PublishRow(w, h)
          /\ Goto(w, "rows")
       \/ /\ \/ pc[w] = "begin" /\ h = 0
             \/ pc[w] = "rows" /\ (ticket[w] = 0 \/ next_row[w] > Rows)
          /\ TransformOwn(w, frame[w])
          /\ Goto(w, IF ticket[w] = 0 THEN "encode" ELSE "wait")
       \/ /\ pc[w] = "wait" /\ Completed(w, h)
          /\ Goto(w, "encode")
          /\ UNCHANGED assistantVars
    /\ UNCHANGED <<o, main, stop, frameVars, rendezvousVars, encoderVars,
                   saveVars, retireVars>>

-----------------------------------------------------------------------------
(* Encoding.  Produce is DirectGprEncoder::encode or encode_hybrid as far  *)
(* as the buffer of the output goes; `good` tells whether the bytes are    *)
(* those of the int16 path.                                                *)

\* The heap with the output in b.
Stored(w, good, b, heap) ==
    [c \in DOMAIN heap \cup {b} |-> IF c = b THEN <<frame[w], good>> ELSE heap[c]]
Store(w, good, b) == bytes' = Stored(w, good, b, bytes)

\* Through the SDK: there is no template yet, or the size is not the
\* template's.  The buffer armed for writing in place is dropped.
ProduceBySdk(w, path, good, b) ==
    /\ b = Fresh(w, path)
    /\ IF learnt[w] < SPLICE_VERIFY_FRAMES
       THEN /\ \/ o.output # "sdk" /\ learnt' = [learnt EXCEPT ![w] = @ + 1]
               \/ UNCHANGED learnt
            /\ Store(w, good, b)
            /\ UNCHANGED pool_buf_
       ELSE /\ bytes' = Stored(w, good, b, Without(pool_buf_[w]))
            /\ pool_buf_' = [pool_buf_ EXCEPT ![w] = Nil]
            /\ UNCHANGED learnt
    /\ UNCHANGED pool_last_out_

ProduceBySplice(w, path, good, b) ==
    /\ learnt[w] = SPLICE_VERIFY_FRAMES
    /\ Store(w, good, b)
    /\ \/ /\ o.output = "copy" /\ b = Fresh(w, path)
          /\ UNCHANGED <<pool_buf_, pool_last_out_>>
       \/ /\ o.output = "retained" /\ b = Container(w)
          /\ UNCHANGED <<pool_buf_, pool_last_out_>>
       \/ /\ o.output = "pooled"
          /\ b = IF pool_buf_[w] = Nil THEN Fresh(w, path) ELSE pool_buf_[w]
          /\ pool_buf_' = [pool_buf_ EXCEPT ![w] = Nil]
          /\ pool_last_out_' = [pool_last_out_ EXCEPT ![w] = b]
    /\ UNCHANGED learnt

Produce(w, path, good, b) ==
    /\ ProduceBySdk(w, path, good, b) \/ ProduceBySplice(w, path, good, b)
    /\ UNCHANGED <<hyb_ok, hyb_dead>>

Candidates(w, path) == {Fresh(w, path), Container(w), pool_buf_[w]} \ {Nil}
Afterwards == IF o.save THEN "save" ELSE "retire"

\* The hybrid path is on trial, trusted, or not used (any more).
OnTrial(w) == o.hybrid /\ ~hyb_dead[w] /\ hyb_ok[w] < HYBRID_VERIFY_FRAMES
Trusted(w) == o.hybrid /\ ~hyb_dead[w] /\ hyb_ok[w] = HYBRID_VERIFY_FRAMES

Encode(w) ==
    /\ \/ /\ pc[w] = "encode" /\ ~OnTrial(w)
          /\ \E b \in Candidates(w, "out"), good \in BOOLEAN :
               /\ good \/ Trusted(w)
               /\ Produce(w, "out", good, b)
               /\ out' = [out EXCEPT ![w] = b]
          /\ Goto(w, Afterwards)
          /\ UNCHANGED ref
       \/ /\ pc[w] = "encode" /\ OnTrial(w)
          /\ \E b \in Candidates(w, "ref") :
               Produce(w, "ref", TRUE, b) /\ ref' = [ref EXCEPT ![w] = b]
          /\ Goto(w, "verify")
          /\ UNCHANGED out
       \/ /\ pc[w] = "verify"
          /\ \E b \in Candidates(w, "out"), good \in BOOLEAN :
               Produce(w, "out", good, b) /\ out' = [out EXCEPT ![w] = b]
          /\ Goto(w, "compare")
          /\ UNCHANGED ref
    /\ UNCHANGED <<o, main, stop, frameVars, waveVars, saveVars, retireVars>>

\* recycle_pooled_buffer, give_container.
Recyclable(w, b) == b = pool_last_out_[w]
Recycle(w, b) ==
    /\ pool_last_out_' = [pool_last_out_ EXCEPT ![w] = Nil]
    /\ IF pool_buf_[w] = Nil
       THEN pool_buf_' = [pool_buf_ EXCEPT ![w] = b] /\ UNCHANGED bytes
       ELSE bytes' = Without(b) /\ UNCHANGED pool_buf_

Free(w, b) == bytes' = Without(b) /\ UNCHANGED <<pool_buf_, pool_last_out_>>

\* free_buffer.
FreeBuffer(w, b) ==
    IF Recyclable(w, b) THEN Recycle(w, b)
    ELSE IF b = Container(w) THEN UNCHANGED <<bytes, pool_buf_, pool_last_out_>>
    ELSE Free(w, b)

\* Keeps the output `kept` of the two and lets the other go.
Settle(w, kept, other, ok) ==
    /\ FreeBuffer(w, other)
    /\ out' = [out EXCEPT ![w] = kept]
    /\ ref' = [ref EXCEPT ![w] = Nil]
    /\ hyb_ok' = IF ok THEN [hyb_ok EXCEPT ![w] = @ + 1] ELSE hyb_ok
    /\ hyb_dead' = [hyb_dead EXCEPT ![w] = ~ok]
    /\ Goto(w, Afterwards)
    /\ UNCHANGED <<o, main, stop, frameVars, waveVars, learnt, saveVars, retireVars>>

Same(w) == bytes[ref[w]] = bytes[out[w]]

\* Seeded fault: the new output is kept although it differs.
KeepNew(w) ==
    /\ pc[w] = "compare"
    /\ Settle(w, out[w], ref[w], Same(w))

\* Both outputs are compared; if they differ the reference is kept and the
\* hybrid path never used again.
Compare(w) ==
    /\ pc[w] = "compare"
    /\ IF Same(w) THEN Settle(w, out[w], ref[w], TRUE)
       ELSE Settle(w, ref[w], out[w], FALSE)

-----------------------------------------------------------------------------
(* Saving: a number is taken with fetch_add, and given back when the limit *)
(* is reached.                                                             *)

TakeTicket(w) ==
    /\ pc[w] = "save"
    /\ save_ticket' = [save_ticket EXCEPT ![w] = saved_count]
    /\ saved_count' = saved_count + 1
    /\ Goto(w, IF o.save_gpr_limit = 0 \/ saved_count < o.save_gpr_limit
               THEN "write" ELSE "return")
    /\ UNCHANGED <<o, main, stop, frameVars, waveVars, encoderVars, files, retireVars>>

\* Seeded fault: the number of a written file is given back as well.
WriteAndReturn(w) ==
    /\ pc[w] = "write"
    /\ files' = files \cup {<<save_ticket[w], bytes[out[w]]>>}
    /\ Goto(w, "return")
    /\ UNCHANGED <<o, main, stop, frameVars, waveVars, encoderVars, saved_count,
                   save_ticket, retireVars>>

Write(w) ==
    /\ pc[w] = "write"
    /\ files' = files \cup {<<save_ticket[w], bytes[out[w]]>>}
    /\ Goto(w, "retire")
    /\ UNCHANGED <<o, main, stop, frameVars, waveVars, encoderVars, saved_count,
                   save_ticket, retireVars>>

ReturnTicket(w) ==
    /\ pc[w] = "return"
    /\ saved_count' = saved_count - 1
    /\ Goto(w, "retire")
    /\ UNCHANGED <<o, main, stop, frameVars, waveVars, encoderVars, save_ticket,
                   files, retireVars>>

-----------------------------------------------------------------------------
(* Releasing the output: retire_buffer and the helper thread.  The helper  *)
(* keeps retire_mu from its test to its sleep ("drowsy"): retire_stop is   *)
(* set and announced without it.                                           *)

RetireMuFree == retirer # "drowsy"

\* retire_mu is held while the length is tested; `room` tells the outcome.
HandOver(w) ==
    /\ RetireMuFree
    /\ IF Len(retire_q) < RETIRE_MAX
       THEN /\ retire_q' = Append(retire_q, out[w])
            /\ retirer' = IF retirer = "asleep" THEN "wait" ELSE retirer
            /\ UNCHANGED <<bytes, pool_buf_, pool_last_out_>>
       ELSE Free(w, out[w]) /\ UNCHANGED <<retire_q, retirer>>

Retire_(w, owned) ==
    /\ pc[w] = "retire"
    /\ IF Recyclable(w, out[w])
       THEN Recycle(w, out[w]) /\ UNCHANGED <<retire_q, retirer>>
       ELSE IF owned
       THEN UNCHANGED <<bytes, pool_buf_, pool_last_out_, retire_q, retirer>>
       ELSE IF o.helper THEN HandOver(w)
       ELSE Free(w, out[w]) /\ UNCHANGED <<retire_q, retirer>>
    /\ out' = [out EXCEPT ![w] = Nil]
    /\ finished' = finished \cup {frame[w]} /\ commits' = commits + 1
    /\ Goto(w, "assign")
    /\ UNCHANGED <<o, main, stop, next_frame, frame, waveVars, ref, learnt, hyb_ok,
                   hyb_dead, saveVars, retiring, retire_stop>>

\* Seeded fault: the retained container is released like the others.
RetireOwned(w) == Retire_(w, FALSE)
Retire(w) == Retire_(w, out[w] = Container(w))

RetirerTest ==
    /\ retirer = "wait"
    /\ \/ /\ retire_q # <<>>
          /\ retiring' = Head(retire_q) /\ retire_q' = Tail(retire_q)
          /\ retirer' = "free"
       \/ /\ retire_q = <<>>
          /\ retirer' = IF retire_stop THEN "done" ELSE "drowsy"
          /\ UNCHANGED <<retiring, retire_q>>
    /\ UNCHANGED <<o, main, stop, pc, frameVars, waveVars, encoderVars, saveVars,
                   retire_stop>>

RetirerFree ==
    /\ retirer = "free"
    /\ bytes' = Without(retiring)
    /\ retiring' = Nil /\ retirer' = "wait"
    /\ UNCHANGED <<o, main, stop, pc, frameVars, waveVars, ref, out, pool_buf_,
                   pool_last_out_, learnt, hyb_ok, hyb_dead, saveVars, retire_q,
                   retire_stop>>

RetirerSleep ==
    /\ retirer = "drowsy" /\ retirer' = "asleep"
    /\ UNCHANGED <<o, main, stop, pc, frameVars, waveVars, encoderVars, saveVars,
                   retire_q, retiring, retire_stop>>

\* A wait may return without a notification.
RetirerWake ==
    /\ retirer = "asleep" /\ retirer' = "wait"
    /\ UNCHANGED <<o, main, stop, pc, frameVars, waveVars, encoderVars, saveVars,
                   retire_q, retiring, retire_stop>>

Retirer == RetirerTest \/ RetirerFree \/ RetirerSleep

-----------------------------------------------------------------------------
(* The calling thread, once its own share of the work is done.             *)

Outcome == IF stop THEN "failed" ELSE "returned"

Main ==
    /\ \/ /\ main = "running" /\ \A w \in Workers : pc[w] = "done"
          /\ main' = "stopped"
          /\ StopAssistants
          /\ UNCHANGED retireVars
       \/ /\ main = "stopped" /\ \A h \in Helpers : helper[h] = "done"
          /\ main' = IF o.helper THEN "notify" ELSE Outcome
          /\ retire_stop' = o.helper
          /\ UNCHANGED <<assistantVars, retire_q, retirer, retiring>>
       \/ /\ main = "notify"
          /\ main' = "join"
          /\ retirer' = IF retirer = "asleep" THEN "wait" ELSE retirer
          /\ UNCHANGED <<assistantVars, retire_q, retiring, retire_stop>>
       \/ /\ main = "join" /\ retirer = "done"
          /\ main' = Outcome
          /\ UNCHANGED <<assistantVars, retireVars>>
    /\ UNCHANGED <<o, stop, pc, frameVars, rendezvousVars, encoderVars, saveVars>>

\* The steps a worker takes whenever it can.
WorkerStep(w) ==
    /\ w \in Workers
    /\ \/ Start(w) \/ Assign(w) \/ NoMoreFrames(w)
       \/ Rendezvous(w) \/ Transform(w)
       \/ Encode(w) \/ Compare(w)
       \/ TakeTicket(w) \/ Write(w) \/ ReturnTicket(w) \/ Retire(w)

Assistant(h) ==
    /\ h \in Helpers
    /\ HelperStep(h)
    /\ UNCHANGED <<o, main, stop, pc, frameVars, rendezvousVars, encoderVars,
                   saveVars, retireVars>>

Next == \/ \E w \in Workers : WorkerStep(w) \/ Throw(w)
        \/ \E h \in Helpers : Assistant(h)
        \/ Retirer \/ RetirerWake \/ Main

\* Every thread runs; a worker that asks for retire_mu again and again gets it.
Spec == /\ Init /\ [][Next]_vars
        /\ \A w \in 1..4 : SF_vars(WorkerStep(w))
        /\ \A h \in 1..3 : WF_vars(Assistant(h))
        /\ WF_vars(Retirer) /\ WF_vars(Main)

-----------------------------------------------------------------------------
(* Properties.                                                             *)

\* The coefficients a worker encodes are those of its frame, every plane and
\* every row, and no helper touches them any more.
EncodesWholeFrame == \A w \in Workers :
    pc[w] \in {"encode", "verify"} =>
        /\ coeff[w] = Whole(frame[w])
        /\ \A h \in Helpers : at[h].owner # w /\ job[h].owner # w

\* Where a buffer is: in a worker's hands, in its pool, on its way to be freed.
Places(b) ==
    Cardinality({w \in Workers : out[w] = b}) + Cardinality({w \in Workers : ref[w] = b})
    + Cardinality({w \in Workers : pool_buf_[w] = b})
    + Cardinality({i \in DOMAIN retire_q : retire_q[i] = b})
    + (IF retiring = b THEN 1 ELSE 0)

InUse == {out[w] : w \in Workers} \cup {ref[w] : w \in Workers}
         \cup {pool_buf_[w] : w \in Workers}
         \cup {retire_q[i] : i \in DOMAIN retire_q} \cup {retiring}
Containers == {Container(w) : w \in Workers}

\* Nothing is used or freed after it was freed; every buffer of the heap has
\* one holder (none only if its worker failed), and a retained container is
\* never on its way to be freed.
BufferHasOneHolder ==
    /\ InUse \ {Nil} \subseteq Live
    /\ \A b \in Live \ Containers :
         Places(b) = 1 \/ (stop /\ Places(b) = 0)
    /\ \A b \in Containers :
         b \notin {retire_q[i] : i \in DOMAIN retire_q} \cup {retiring}

\* No file is written over, each holds a frame of its own, and a pass that
\* returns has written as many as it should, numbered without a gap.
FilesExact ==
    /\ \A f, g \in files : f # g => f[1] # g[1] /\ f[2][1] # g[2][1]
    /\ main = "returned" =>
         {f[1] : f \in files} =
            IF ~o.save THEN {}
            ELSE 0..(IF o.save_gpr_limit = 0 THEN next_frame
                     ELSE Min({o.save_gpr_limit, next_frame})) - 1

\* What leaves a comparison of two different buffers is what the int16 path
\* would have written.
ReferencePrevails ==
    [][\A w \in Workers :
          pc[w] = "compare" /\ pc'[w] # "compare" /\ ref[w] # out[w]
            => bytes'[out'[w]][2]]_vars

Delivery == INSTANCE EveryFrameOnce WITH
    taken <- 1..next_frame, finished <- finished, commits <- commits,
    accepting <- \E w \in Workers : pc[w] # "done",
    outcome <- IF stop THEN "failed"
               ELSE IF main = "running" THEN "running" ELSE "returned"

\* The workers implement EveryFrameOnce: whatever the helpers do, every frame
\* taken on is encoded once, and the workers come to their end.
ImplementsDelivery == Delivery!Spec

\* A failure ends the pass: no worker is left in the rendezvous, no assistant
\* in a job whose owner is gone.
FailureEndsPass == stop ~> main \notin {"running", "stopped"}
=============================================================================
