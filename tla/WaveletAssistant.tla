-------------------------- MODULE WaveletAssistant --------------------------
(***************************************************************************)
(* WaveletPlaneAssistant: a helper thread that transforms some planes of a *)
(* frame for the worker that owns it.  The owner copies the rows of those  *)
(* planes into a ring of ring_rows rows; the helper takes them out.  Jobs  *)
(* are handed over under mu_, rows through two atomic counters.            *)
(*                                                                         *)
(* Whatever a wait on mu_ tests is changed under mu_ and announced: such a *)
(* wait is its guard.  A frame's planes are its number and, for the        *)
(* assisted ones, what was last written for each row.                      *)
(***************************************************************************)
EXTENDS Naturals, FiniteSets

CONSTANTS Rows,             \* ph_
          ring_rows         \* core0_wavelet_ring_rows

ASSUME RingAssumption == Rows \in Nat \ {0} /\ ring_rows \in Nat /\ ring_rows >= 2

VARIABLES helper,           \* where each helper is
          job,              \* job_: the owner whose frame is to be helped
          at,               \* the job of the helper: its owner, ticket and row
          busy, stop_, next_seq, completed_seq,
          produced, consumed, row_ring,
          ticket,           \* the ticket of each owner, 0 for none
          next_row,         \* the row each owner splits
          coeff             \* the coefficients of each owner

assistantVars == <<helper, job, at, busy, stop_, next_seq, completed_seq,
                   produced, consumed, row_ring, ticket, next_row, coeff>>

NoJob == [owner |-> 0, seq |-> 0, y |-> 0]
Blank == [own |-> 0, assisted |-> [y \in 1..Rows |-> <<0, y>>]]
Whole(f) == [own |-> f, assisted |-> [y \in 1..Rows |-> <<f, y>>]]

AssistantInit(W, H) ==
    /\ helper = [h \in H |-> "idle"]
    /\ job = [h \in H |-> NoJob] /\ at = [h \in H |-> NoJob]
    /\ busy = [h \in H |-> FALSE] /\ stop_ = FALSE
    /\ next_seq = [h \in H |-> 0] /\ completed_seq = [h \in H |-> 0]
    /\ produced = [h \in H |-> 0] /\ consumed = [h \in H |-> 0]
    /\ row_ring = [h \in H |-> [i \in 0..ring_rows-1 |-> <<0, 0>>]]
    /\ ticket = [w \in W |-> 0] /\ next_row = [w \in W |-> 0]
    /\ coeff = [w \in W |-> Blank]

Place(n) == n % ring_rows

-----------------------------------------------------------------------------
(* The owner w of a frame; h is its helper.                                *)

BeginJob(w, h) ==
    /\ next_seq' = [next_seq EXCEPT ![h] = @ + 1]
    /\ produced' = [produced EXCEPT ![h] = 0]
    /\ consumed' = [consumed EXCEPT ![h] = 0]
    /\ job' = [job EXCEPT ![h] = [owner |-> w, seq |-> next_seq[h] + 1, y |-> 1]]
    /\ busy' = [busy EXCEPT ![h] = TRUE]
    /\ ticket' = [ticket EXCEPT ![w] = next_seq[h] + 1]
    /\ next_row' = [next_row EXCEPT ![w] = 1]

\* Seeded fault: a busy helper is given another job.
BeginWhileBusy(w, h) ==
    /\ BeginJob(w, h)
    /\ UNCHANGED <<helper, at, stop_, completed_seq, row_ring, coeff>>

\* try_begin: no ticket while the helper is busy.
TryBegin(w, h) ==
    /\ IF busy[h] \/ stop_
       THEN /\ ticket' = [ticket EXCEPT ![w] = 0]
            /\ UNCHANGED <<next_seq, produced, consumed, job, busy, next_row>>
       ELSE BeginJob(w, h)
    /\ UNCHANGED <<helper, at, stop_, completed_seq, row_ring, coeff>>

\* The row is copied while the ring holds at most `held` rows.
CopyRow(w, h, f, held) ==
    /\ produced[h] - consumed[h] <= held
    /\ row_ring' = [row_ring EXCEPT ![h][Place(produced[h])] = <<f, next_row[w]>>]
    /\ UNCHANGED <<helper, job, at, busy, stop_, next_seq, completed_seq,
                   produced, consumed, ticket, next_row, coeff>>

\* Seeded fault: one row too many fits.
WriteRowIntoFull(w, h, f) == CopyRow(w, h, f, ring_rows)

\* publish_row: room in the ring, then the copy ...
WriteRow(w, h, f) == CopyRow(w, h, f, ring_rows - 1)

\* ... then the counter, which the helper reads.
PublishRow(w, h) ==
    /\ produced' = [produced EXCEPT ![h] = @ + 1]
    /\ next_row' = [next_row EXCEPT ![w] = @ + 1]
    /\ UNCHANGED <<helper, job, at, busy, stop_, next_seq, completed_seq,
                   consumed, row_ring, ticket, coeff>>

\* The planes the owner keeps; all of them when it has no ticket.
TransformOwn(w, f) ==
    /\ coeff' = [coeff EXCEPT ![w] = IF ticket[w] = 0 THEN Whole(f)
                                     ELSE [@ EXCEPT !.own = f]]
    /\ UNCHANGED <<helper, job, at, busy, stop_, next_seq, completed_seq,
                   produced, consumed, row_ring, ticket, next_row>>

\* Seeded fault: the wait is for the job after this one.
CompletedLater(w, h) == completed_seq[h] > ticket[w] \/ stop_

\* wait: the helper has come to the end of this job.
Completed(w, h) == completed_seq[h] >= ticket[w] \/ stop_

-----------------------------------------------------------------------------
(* The helper.                                                             *)

HelperTake(h) ==
    /\ helper[h] = "idle" /\ job[h] # NoJob
    /\ at' = [at EXCEPT ![h] = job[h]]
    /\ job' = [job EXCEPT ![h] = NoJob]
    /\ helper' = [helper EXCEPT ![h] = "rows"]
    /\ UNCHANGED <<busy, stop_, next_seq, completed_seq, produced, consumed,
                   row_ring, ticket, next_row, coeff>>

\* A row is there: it goes through the wavelet into the owner's coefficients.
HelperPush(h) ==
    /\ helper[h] = "rows" /\ produced[h] > consumed[h]
    /\ coeff' = [coeff EXCEPT ![at[h].owner].assisted[at[h].y] =
                    row_ring[h][Place(consumed[h])]]
    /\ helper' = [helper EXCEPT ![h] = "pushed"]
    /\ UNCHANGED <<job, at, busy, stop_, next_seq, completed_seq, produced,
                   consumed, row_ring, ticket, next_row>>

HelperConsume(h) ==
    /\ helper[h] = "pushed"
    /\ consumed' = [consumed EXCEPT ![h] = @ + 1]
    /\ at' = [at EXCEPT ![h].y = @ + 1]
    /\ helper' = [helper EXCEPT ![h] = IF at[h].y = Rows THEN "complete" ELSE "rows"]
    /\ UNCHANGED <<job, busy, stop_, next_seq, completed_seq, produced,
                   row_ring, ticket, next_row, coeff>>

HelperComplete(h) ==
    /\ helper[h] = "complete"
    /\ completed_seq' = [completed_seq EXCEPT ![h] = at[h].seq]
    /\ busy' = [busy EXCEPT ![h] = FALSE]
    /\ at' = [at EXCEPT ![h] = NoJob]
    /\ helper' = [helper EXCEPT ![h] = "idle"]
    /\ UNCHANGED <<job, stop_, next_seq, produced, consumed, row_ring,
                   ticket, next_row, coeff>>

\* Seeded fault: a helper that waits for a row does not look at stop_.
LeaveIdle(h) ==
    /\ stop_ /\ helper[h] = "idle" /\ job[h] = NoJob
    /\ helper' = [helper EXCEPT ![h] = "done"]
    /\ UNCHANGED <<job, at, busy, stop_, next_seq, completed_seq, produced,
                   consumed, row_ring, ticket, next_row, coeff>>

\* Told to stop, between two jobs or for want of a row.
HelperLeave(h) ==
    /\ stop_
    /\ \/ helper[h] = "idle" /\ job[h] = NoJob
       \/ helper[h] = "rows" /\ produced[h] <= consumed[h]
    /\ helper' = [helper EXCEPT ![h] = "done"]
    /\ UNCHANGED <<job, at, busy, stop_, next_seq, completed_seq, produced,
                   consumed, row_ring, ticket, next_row, coeff>>

HelperStep(h) ==
    HelperTake(h) \/ HelperPush(h) \/ HelperConsume(h) \/ HelperComplete(h)
    \/ HelperLeave(h)

StopAssistants ==
    /\ stop_' = TRUE
    /\ UNCHANGED <<helper, job, at, busy, next_seq, completed_seq, produced,
                   consumed, row_ring, ticket, next_row, coeff>>
=============================================================================
