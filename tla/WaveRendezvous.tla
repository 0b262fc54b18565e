--------------------------- MODULE WaveRendezvous ---------------------------
(***************************************************************************)
(* wave_rendezvous_enter of run_cpu_gpr_pipeline: the workers begin their  *)
(* wavelets together.  The last to arrive releases the others; whoever has *)
(* waited long enough releases them as well, so that a late worker stalls  *)
(* nobody.  All of it is done under wave_rv_mu, and who changes the        *)
(* generation notifies: a wait is its guard.                               *)
(***************************************************************************)
EXTENDS Naturals, FiniteSets

CONSTANT Nil

VARIABLES arrived,          \* wave_rv_arrived
          generation,       \* wave_rv_generation
          my_generation     \* the generation each waiting worker waits to end

rendezvousVars == <<arrived, generation, my_generation>>

RendezvousInit(W) ==
    /\ arrived = 0 /\ generation = 0
    /\ my_generation = [w \in W |-> Nil]

EndGeneration == arrived' = 0 /\ generation' = generation + 1

\* The last of `workers` ends the generation and does not wait.
Arrive(w, workers) ==
    IF arrived + 1 = workers
    THEN EndGeneration /\ UNCHANGED my_generation
    ELSE /\ arrived' = arrived + 1
         /\ my_generation' = [my_generation EXCEPT ![w] = generation]
         /\ UNCHANGED generation

Released(w) == my_generation[w] # generation

Leave(w) ==
    /\ Released(w)
    /\ my_generation' = [my_generation EXCEPT ![w] = Nil]
    /\ UNCHANGED <<arrived, generation>>

\* Fail open: everybody who waits is released, the late join the next one.
Timeout(w) ==
    /\ ~Released(w)
    /\ EndGeneration
    /\ my_generation' = [my_generation EXCEPT ![w] = Nil]
=============================================================================
