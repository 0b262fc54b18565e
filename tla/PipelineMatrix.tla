---------------------------- MODULE PipelineMatrix ----------------------------
(***************************************************************************)
(* The library and its two kinds of client.  "camera" is any program that  *)
(* keeps to the header: it creates, encodes, releases and destroys as it   *)
(* likes, each encoder from one thread at a time.  "matrix" is             *)
(* tools/pipeline_matrix.cpp: main creates an encoder for each worker, the *)
(* workers encode until they are told to stop and add their timings to     *)
(* shared sums, main joins them, reports and destroys.                     *)
(* A frame takes one unit of each timing.                                  *)
(***************************************************************************)
EXTENDS EncoderLibrary, Functions

CONSTANTS Workers,
          MaxCalls       \* bound: frames handed to all encoders

ASSUME WorkersAssumption == Workers \in Nat \ {0} /\ Encoders = 1..Workers

VARIABLES client,
          main, worker,   \* where main of the tool is, and its loop's index
          at,             \* where its workers are
          run, frames, wav_sum, ent_sum,
          expected        \* of each worker: what compare_exchange compares with

mainVars == <<main, worker, run>>
workerVars == <<at, frames, wav_sum, ent_sum, expected>>
vars == <<libraryVars, client, mainVars, workerVars>>

Init ==
    /\ LibraryInit
    /\ client \in {"camera", "matrix"}
    /\ main = "create" /\ worker = 1
    /\ at = [w \in Encoders |-> "unborn"]
    /\ run = TRUE
    /\ frames = 0 /\ wav_sum = 0 /\ ent_sum = 0
    /\ expected = [w \in Encoders |-> 0]

CanCall == FoldFunction(+, 0, frame) < MaxCalls

-----------------------------------------------------------------------------
Camera(e) ==
    /\ client = "camera"
    /\ \/ \E c \in Settings : Create(e, c)
       \/ Destroy(e)
       \/ CanCall /\ Encode(e)
       \/ \E b \in Blocks : Release(e, b)
    /\ UNCHANGED <<client, mainVars, workerVars>>

\* A call into the library that is under way, of either client.
Call(e) == Proceed(e) /\ UNCHANGED <<client, mainVars, workerVars>>

-----------------------------------------------------------------------------
(* main of pipeline_matrix                                                 *)

Main(here, more) ==
    /\ client = "matrix" /\ main = here
    /\ more = (worker <= Workers)
    /\ UNCHANGED client

CreateNext ==
    /\ Main("create", TRUE)
    /\ Create(worker, Off)
    /\ main' = "created"
    /\ UNCHANGED <<worker, run, workerVars>>

\* NULL: return 1.
CreateReturned ==
    /\ Main("created", TRUE)
    /\ \/ pc[worker] = "idle" /\ main' = "create" /\ worker' = worker + 1
       \/ pc[worker] = "absent" /\ main' = "exit" /\ UNCHANGED worker
    /\ UNCHANGED <<libraryVars, run, workerVars>>

StartThreads ==
    /\ Main("create", FALSE)
    /\ main' = "start" /\ worker' = 1
    /\ UNCHANGED <<libraryVars, run, workerVars>>

StartNext ==
    /\ Main("start", TRUE)
    /\ at' = [at EXCEPT ![worker] = "top"]
    /\ worker' = worker + 1
    /\ UNCHANGED <<libraryVars, main, run, frames, wav_sum, ent_sum, expected>>

\* The measured seconds are over.
StopThreads ==
    /\ Main("start", FALSE)
    /\ run' = FALSE /\ main' = "join"
    /\ UNCHANGED <<libraryVars, worker, workerVars>>

JoinThreads ==
    /\ Main("join", FALSE)
    /\ \A w \in Encoders : at[w] = "left"
    /\ main' = "destroy" /\ worker' = 1
    /\ UNCHANGED <<libraryVars, run, workerVars>>

DestroyNext ==
    /\ Main("destroy", TRUE)
    /\ Destroy(worker)
    /\ worker' = worker + 1
    /\ UNCHANGED <<main, run, workerVars>>

Return ==
    /\ Main("destroy", FALSE)
    /\ main' = "exit"
    /\ UNCHANGED <<libraryVars, worker, run, workerVars>>

MainSteps == \/ CreateNext \/ CreateReturned \/ StartThreads \/ StartNext
             \/ StopThreads \/ JoinThreads \/ DestroyNext \/ Return

-----------------------------------------------------------------------------
(* a worker of pipeline_matrix                                             *)

Worker(w, here, there) ==
    /\ at[w] = here /\ at' = [at EXCEPT ![w] = there]
    /\ UNCHANGED <<client, mainVars>>

EncodeFrame(w) ==
    /\ run /\ CanCall
    /\ Worker(w, "top", "encode")
    /\ Encode(w)
    /\ UNCHANGED <<frames, wav_sum, ent_sum, expected>>

Leave(w) ==
    /\ ~run
    /\ Worker(w, "top", "left")
    /\ UNCHANGED <<libraryVars, frames, wav_sum, ent_sum, expected>>

Failed(w) ==
    /\ pc[w] = "idle" /\ result[w] # 0
    /\ Worker(w, "encode", "top")
    /\ UNCHANGED <<libraryVars, frames, wav_sum, ent_sum, expected>>

LoadWav(w) ==
    /\ pc[w] = "idle" /\ result[w] = 0
    /\ Worker(w, "encode", "wav")
    /\ expected' = [expected EXCEPT ![w] = wav_sum]
    /\ UNCHANGED <<libraryVars, frames, wav_sum, ent_sum>>

\* Seeded fault: the sum is loaded and stored.
StoreWav(w) ==
    /\ Worker(w, "wav", "load")
    /\ wav_sum' = expected[w] + 1
    /\ UNCHANGED <<libraryVars, frames, ent_sum, expected>>

ExchangeWav(w) ==
    \/ /\ expected[w] = wav_sum
       /\ Worker(w, "wav", "load")
       /\ wav_sum' = wav_sum + 1
       /\ UNCHANGED <<libraryVars, frames, ent_sum, expected>>
    \/ /\ expected[w] # wav_sum
       /\ Worker(w, "wav", "wav")
       /\ expected' = [expected EXCEPT ![w] = wav_sum]
       /\ UNCHANGED <<libraryVars, frames, wav_sum, ent_sum>>

LoadEnt(w) ==
    /\ Worker(w, "load", "ent")
    /\ expected' = [expected EXCEPT ![w] = ent_sum]
    /\ UNCHANGED <<libraryVars, frames, wav_sum, ent_sum>>

ExchangeEnt(w) ==
    \/ /\ expected[w] = ent_sum
       /\ Worker(w, "ent", "release")
       /\ ent_sum' = ent_sum + 1
       /\ UNCHANGED <<libraryVars, frames, wav_sum, expected>>
    \/ /\ expected[w] # ent_sum
       /\ Worker(w, "ent", "ent")
       /\ expected' = [expected EXCEPT ![w] = ent_sum]
       /\ UNCHANGED <<libraryVars, frames, wav_sum, ent_sum>>

ReleaseFrame(w) ==
    /\ Worker(w, "release", "top")
    /\ \E b \in held[w] : Release(w, b)
    /\ frames' = frames + 1
    /\ UNCHANGED <<wav_sum, ent_sum, expected>>

WorkerSteps(w) ==
    \/ EncodeFrame(w) \/ Leave(w) \/ Failed(w) \/ LoadWav(w) \/ ExchangeWav(w)
    \/ LoadEnt(w) \/ ExchangeEnt(w) \/ ReleaseFrame(w)

-----------------------------------------------------------------------------
Next ==
    \/ MainSteps
    \/ \E e \in Encoders : Camera(e) \/ Call(e) \/ WorkerSteps(e)

\* A call goes on once it is made, and so do the tool's threads; a camera
\* makes no call it does not like to.
Spec ==
    /\ Init /\ [][Next]_vars
    /\ WF_vars(MainSteps)
    /\ \A e \in Encoders : WF_vars(Call(e)) /\ WF_vars(WorkerSteps(e))

-----------------------------------------------------------------------------
\* When the workers have been joined no worker's timing is missing from a sum,
\* however their additions met, so the averages main reports are those of the
\* frames it divides by.
SumsExact == main \in {"destroy", "exit"} => wav_sum = frames /\ ent_sum = frames
=============================================================================
