--------------------------- MODULE MCSharedSplice ---------------------------
(* Payloads, option sets and symmetry for the runs of SharedSplice.        *)
EXTENDS SharedSplice, TLC

\* Two payloads of one size the SDK surrounds differently, and one whose size
\* decides its surround.
ThreePayloads == {[size |-> 1, around |-> 1], [size |-> 1, around |-> 2],
                  [size |-> 2, around |-> 1]}

\* What the command line can combine (--cpu-gpr-dng-splice, -splice-shared,
\* -splice-reuse, -shared-reuse, the shared and the local in-place output),
\* the flags the code does not read in a combination being off.
DistinctOptions ==
    {o \in Options :
        /\ ~o.dng_splice => ~o.splice_shared /\ ~o.splice_reuse
        /\ ~o.splice_shared => ~o.shared_reuse /\ ~o.shared_inplace
        /\ (o.splice_shared \/ ~o.dng_splice) => ~o.local_inplace}
SharedOptions == {o \in Options : o.dng_splice /\ o.splice_shared}
Shipped == {o \in SharedOptions :
               o.shared_inplace /\ ~o.splice_reuse /\ ~o.shared_reuse
               /\ ~o.local_inplace}

Interchangeable == Permutations(Encoders)
=============================================================================
