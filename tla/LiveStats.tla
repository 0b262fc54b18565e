------------------------------- MODULE LiveStats -------------------------------
(***************************************************************************)
(* The live statistics: a writer publishes a block of shared memory, tools *)
(* read it without a lock and reject what they read while it was written.  *)
(* Two programs read it here: seqlock_stress, whose writer is a thread of  *)
(* its own, and qraw_stats_cli, whose writer is the camera.                *)
(*                                                                         *)
(* The writer's publish() and the reader's attach() and snapshot() are in  *)
(* qraw_live_stats.hpp, which is not in the repository: they are modelled  *)
(* from what seqlock_stress.cpp says of them and how the tools call them.  *)
(* Every word of the block is a store or a load of its own, in any order.  *)
(***************************************************************************)
EXTENDS Integers

CONSTANTS Words,        \* the words of the payload
          MaxPublish    \* bound: publications of a run (the sequence is 32 bit)

ASSUME LiveAssumption ==
    MaxPublish \in Nat /\ MaxPublish < 2147483647 /\ Words # {}
    /\ "sequence" \notin Words /\ "magic" \notin Words

VARIABLES run,       \* the arguments: [tool, buggy, wait, watch]
          open,      \* the shared memory exists
          magic,     \* its magic and layout are valid
          sequence,  \* the seqlock: odd while it is written
          word,      \* the payload
          wpc, n, keep, left,        \* writer: s, keep, fields not yet stored
          rpc, seq1, copy, missing,  \* reader: s, words not yet loaded
          shown,     \* the words the tool last reported, None before
          torn,      \* torn.load() != 0
          stop, late,                \* stop flag; the deadline has passed
          code                       \* exit status, Running before

mapping    == <<open, magic, sequence, word>>
writerVars == <<wpc, n, keep, left>>
readerVars == <<rpc, seq1, copy, missing, shown, torn, code>>
liveVars   == <<run, mapping, writerVars, readerVars, stop, late>>

Running == -1
Zero    == [w \in Words |-> 0]
Stress  == run.tool = "stress"

-----------------------------------------------------------------------------
LiveInit ==
    /\ run \in [tool : {"stress"}, buggy : BOOLEAN, wait : {FALSE}, watch : {FALSE}]
          \cup [tool : {"cli"}, buggy : {FALSE}, wait : BOOLEAN, watch : BOOLEAN]
    /\ open = Stress /\ magic = Stress /\ sequence = 0 /\ word = Zero
    /\ wpc = "idle" /\ n = 0 /\ keep = 0 /\ left = {}
    /\ rpc = "attach" /\ seq1 = 0 /\ copy = Zero /\ missing = {}
    /\ shown = Zero /\ torn = FALSE
    /\ stop = FALSE /\ late = FALSE /\ code = Running

\* The camera opens the block when a recording is set up, or never.
Open ==
    /\ ~open
    /\ open' = TRUE /\ magic' = TRUE
    /\ UNCHANGED <<run, sequence, word, writerVars, readerVars, stop, late>>

\* Seeded fault: the whole struct is copied over the block, the sequence too.
WholeStruct == Words \cup {"sequence", "magic"}

\* What a publication stores between its two stores of the sequence.
Fields == IF run.buggy THEN Words \cup {"sequence", "magic"} ELSE Words

\* ++n; map->sequence = seq + 1
BeginPublish ==
    /\ wpc = "idle" /\ open /\ ~stop /\ n < MaxPublish
    /\ n' = n + 1
    /\ sequence' = sequence + 1 /\ keep' = sequence + 1
    /\ left' = Fields
    /\ wpc' = "copy"
    /\ UNCHANGED <<run, open, magic, word, readerVars, stop, late>>

\* One store of the memcpy; the struct's own sequence and magic are nought.
StoreField ==
    /\ wpc = "copy"
    /\ \E f \in left :
         /\ word' = IF f \in Words THEN [word EXCEPT ![f] = n] ELSE word
         /\ sequence' = IF f = "sequence" THEN 0 ELSE sequence
         /\ magic' = IF f = "magic" THEN FALSE ELSE magic
         /\ left' = left \ {f}
    /\ UNCHANGED <<run, open, wpc, n, keep, readerVars, stop, late>>

\* buggy_publish puts back what its memcpy clobbered.
RestoreMagic ==
    /\ wpc = "copy" /\ left = {} /\ run.buggy
    /\ magic' = TRUE
    /\ wpc' = "restore"
    /\ UNCHANGED <<run, open, sequence, word, n, keep, left, readerVars, stop, late>>

RestoreSequence ==
    /\ wpc = "restore"
    /\ sequence' = keep
    /\ wpc' = "end"
    /\ UNCHANGED <<run, open, magic, word, n, keep, left, readerVars, stop, late>>

\* Seeded fault: the last store leaves the sequence odd.
StaysOdd == keep

Even == keep + 1

EndPublish ==
    /\ IF run.buggy THEN wpc = "end" ELSE wpc = "copy" /\ left = {}
    /\ sequence' = Even
    /\ wpc' = "idle"
    /\ UNCHANGED <<run, open, magic, word, n, keep, left, readerVars, stop, late>>

\* while (!stop): only the tool's own writer ends.
WriterEnds ==
    /\ wpc = "idle" /\ Stress /\ stop
    /\ wpc' = "done"
    /\ UNCHANGED <<run, mapping, n, keep, left, readerVars, stop, late>>

\* What a writer that has begun a publication, or been stopped, goes on to.
FinishPublish == StoreField \/ RestoreMagic \/ RestoreSequence \/ EndPublish
                 \/ WriterEnds

Writer == BeginPublish \/ FinishPublish

-----------------------------------------------------------------------------
Attach ==
    /\ rpc = "attach" /\ open /\ magic
    /\ rpc' = "snapshot"
    /\ UNCHANGED <<run, mapping, writerVars, seq1, copy, missing, shown, torn,
                   stop, late, code>>

\* Seeded fault: the loop does not look at the deadline.
WaitsOn == run.wait

TriesAgain == run.wait /\ ~late

\* qraw_stats_cli: attach failed; without a wait the command gives up.
AttachFails ==
    /\ rpc = "attach" /\ ~Stress /\ ~(open /\ magic)
    /\ IF run.wait THEN rpc' = "asleep" /\ UNCHANGED code
                   ELSE rpc' = "exited" /\ code' = 2
    /\ UNCHANGED <<run, mapping, writerVars, seq1, copy, missing, shown, torn,
                   stop, late>>

\* After the sleep the deadline is tested before the block is: a camera that
\* opened meanwhile is not looked for.
AttachAgain ==
    /\ rpc = "asleep"
    /\ IF TriesAgain THEN rpc' = "attach" /\ UNCHANGED code
                     ELSE rpc' = "exited" /\ code' = 2
    /\ UNCHANGED <<run, mapping, writerVars, seq1, copy, missing, shown, torn,
                   stop, late>>

\* The first load of the sequence; an odd one refuses the snapshot.
FirstLoad ==
    /\ rpc = "snapshot" /\ ~(Stress /\ stop)
    /\ seq1' = sequence
    /\ IF sequence % 2 = 1 THEN rpc' = "refused" /\ missing' = {}
                           ELSE rpc' = "copy" /\ missing' = Words
    /\ UNCHANGED <<run, mapping, writerVars, copy, shown, torn, stop, late, code>>

LoadWord ==
    /\ rpc = "copy"
    /\ \E w \in missing : /\ copy' = [copy EXCEPT ![w] = word[w]]
                          /\ missing' = missing \ {w}
    /\ UNCHANGED <<run, mapping, writerVars, rpc, seq1, shown, torn,
                   stop, late, code>>

Unchanged == sequence = seq1

SecondLoad ==
    /\ rpc = "copy" /\ missing = {}
    /\ rpc' = IF Unchanged THEN "accepted" ELSE "refused"
    /\ UNCHANGED <<run, mapping, writerVars, seq1, copy, missing, shown, torn,
                   stop, late, code>>

\* The stress reader compares the words; the command prints them.
Report ==
    /\ rpc = "accepted"
    /\ shown' = copy
    /\ torn' = (torn \/ (Stress /\ \E v, w \in Words : copy[v] # copy[w]))
    /\ IF Stress \/ run.watch THEN rpc' = "snapshot" /\ UNCHANGED code
                              ELSE rpc' = "exited" /\ code' = 0
    /\ UNCHANGED <<run, mapping, writerVars, seq1, copy, missing, stop, late>>

\* continue, or QRAW_LIVE_STATS_RACE
Refused ==
    /\ rpc = "refused"
    /\ IF Stress \/ run.watch THEN rpc' = "snapshot" /\ UNCHANGED code
                              ELSE rpc' = "exited" /\ code' = 0
    /\ UNCHANGED <<run, mapping, writerVars, seq1, copy, missing, shown, torn,
                   stop, late>>

ReaderEnds ==
    /\ rpc = "snapshot" /\ Stress /\ stop
    /\ rpc' = "done"
    /\ UNCHANGED <<run, mapping, writerVars, seq1, copy, missing, shown, torn,
                   stop, late, code>>

Reader == Attach \/ AttachFails \/ AttachAgain \/ FirstLoad \/ LoadWord \/ SecondLoad
          \/ Report \/ Refused \/ ReaderEnds

-----------------------------------------------------------------------------
\* stop = true, ten seconds on.
Stop ==
    /\ Stress /\ ~stop
    /\ stop' = TRUE
    /\ UNCHANGED <<run, mapping, writerVars, readerVars, late>>

\* w.join(); r.join(); verdict
Verdict ==
    /\ Stress /\ stop /\ wpc = "done" /\ rpc = "done"
    /\ rpc' = "exited" /\ code' = IF torn THEN 1 ELSE 0
    /\ UNCHANGED <<run, mapping, writerVars, seq1, copy, missing, shown, torn,
                   stop, late>>

Deadline ==
    /\ run.wait /\ ~late
    /\ late' = TRUE
    /\ UNCHANGED <<run, mapping, writerVars, readerVars, stop>>

LiveNext == Open \/ Writer \/ Reader \/ Stop \/ Verdict \/ Deadline

\* Threads that can step do, and time passes; a publication that has begun is
\* finished.  That the camera opens its block, or begins another publication,
\* is not assumed: it may go quiet after any number of them.
LiveFairness ==
    /\ WF_liveVars(FinishPublish) /\ WF_liveVars(Reader)
    /\ WF_liveVars(Stop) /\ WF_liveVars(Verdict) /\ WF_liveVars(Deadline)

LiveSpec == LiveInit /\ [][LiveNext]_liveVars /\ LiveFairness

-----------------------------------------------------------------------------
\* A snapshot the fixed writer let through is one publication, whole: the one
\* its sequence counts.  "fixed writer: expect 0 torn snapshots"
\* (seqlock_stress.cpp:8).
SnapshotWhole ==
    ~run.buggy =>
      /\ rpc = "accepted" => \A w \in Words : 2 * copy[w] = seq1
      /\ ~torn

\* The stress run always reaches its verdict, whichever writer it runs and
\* however a publication and the flag interleave; the command exits unless it
\* was asked to watch, whether or not a camera is there.
ToolsEnd == (Stress \/ ~run.watch) ~> (rpc = "exited")

\* A watching command shows the last publication once the camera is quiet,
\* however many of its snapshots were refused before.
ShowsLatest ==
    [](run.watch /\ rpc = "snapshot" =>
         <>(wpc = "idle" /\ \A w \in Words : shown[w] = n))
=============================================================================
