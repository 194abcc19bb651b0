---------------------------- MODULE LoggerOutput ----------------------------
(***************************************************************************)
(* LoggerOutput (logger_output.hpp): a worker thread writes the recording. *)
(* The producer never waits for the disk: a full buffer is an error.  One  *)
(* action per stretch under the mutex or call of the C library; the worker *)
(* sleeps on a condition variable.                                         *)
(***************************************************************************)
EXTENDS Integers, Sequences, SequencesExt

CONSTANTS
    Limit,          \* bytes the buffer holds, here in frames
    MaxDiskErrors   \* bound on calls for the disk that fail

VARIABLES
    queue,      \* jobs: [path, frames, capacity]
    buffered, stopping, error,
    writer,     \* where the worker is: test, asleep, open, write, account, ended
    job,        \* what the worker has in hand
    current,    \* the path of the open file, None before the first
    files,      \* what is on the disk: the frames by path
    diskErrors

outputVars == <<queue, buffered, stopping, error, writer, job, current, files, diskErrors>>

None == -1
NoJob == [path |-> None, frames |-> <<>>, capacity |-> 0]

OutputInit(existing) ==
    /\ queue = <<>> /\ buffered = 0 /\ stopping = FALSE /\ error = FALSE
    /\ writer = "test" /\ job = NoJob /\ current = None
    /\ files = existing /\ diskErrors = 0

Notified == IF writer = "asleep" THEN "test" ELSE writer

\* submit(), apart from its refusals.
Refused(capacity) == error \/ capacity > Limit - buffered
Push(path, frames, capacity) ==
    /\ queue' = Append(queue, [path |-> path, frames |-> frames, capacity |-> capacity])
    /\ buffered' = buffered + capacity /\ writer' = Notified
    /\ UNCHANGED <<stopping, error, job, current, files, diskErrors>>

\* stop(): the flag under the mutex, the notification after it.
SetStopping ==
    /\ stopping' = TRUE
    /\ UNCHANGED <<queue, buffered, error, writer, job, current, files, diskErrors>>

\* Mutant: the worker is not woken.
NotifyNobody == UNCHANGED outputVars

NotifyWriter ==
    /\ writer' = Notified
    /\ UNCHANGED <<queue, buffered, stopping, error, job, current, files, diskErrors>>

----------------------------------------------------------------------------
(* The worker.                                                             *)

Take ==
    /\ writer = "test"
    /\ IF queue # <<>>
         THEN /\ job' = Head(queue) /\ queue' = Tail(queue)
              /\ writer' = IF Head(queue).path = current THEN "write" ELSE "open"
         ELSE /\ writer' = IF stopping THEN "ended" ELSE "asleep"
              /\ UNCHANGED <<job, queue>>
    /\ UNCHANGED <<buffered, stopping, error, current, files, diskErrors>>

\* Closes the old file; a new file must not exist.
Open ==
    /\ writer = "open" /\ job.path \notin DOMAIN files
    /\ files' = [time \in DOMAIN files \cup {job.path} |-> IF time = job.path THEN <<>> ELSE files[time]]
    /\ current' = job.path /\ writer' = "write"
    /\ UNCHANGED <<queue, buffered, stopping, error, job, diskErrors>>

Write ==
    /\ writer = "write" /\ writer' = "account"
    /\ files' = [files EXCEPT ![current] = @ \o job.frames]
    /\ UNCHANGED <<queue, buffered, stopping, error, job, current, diskErrors>>

Account ==
    /\ writer = "account" /\ writer' = "test"
    /\ buffered' = buffered - job.capacity /\ job' = NoJob
    /\ UNCHANGED <<queue, stopping, error, current, files, diskErrors>>

\* A call that fails is kept for the producer and ends the worker.  A write may
\* have put out a part of the job; a close that fails may have lost the last
\* bytes that the C library still held.
Closing == writer = "open" \/ (writer = "test" /\ queue = <<>> /\ stopping)
WriterFails ==
    /\ \/ /\ writer = "open" /\ job.path \in DOMAIN files /\ UNCHANGED <<files, diskErrors>>
       \/ /\ diskErrors < MaxDiskErrors /\ diskErrors' = diskErrors + 1
          /\ \/ /\ writer = "open" /\ UNCHANGED files
             \/ /\ writer = "write"
                /\ \E n \in 0..Len(job.frames) :
                     files' = [files EXCEPT ![current] = @ \o SubSeq(job.frames, 1, n)]
             \/ /\ Closing /\ current # None /\ Len(files[current]) > 0
                /\ files' = [files EXCEPT ![current] = Front(@)]
    /\ error' = TRUE /\ writer' = "ended"
    /\ UNCHANGED <<queue, buffered, stopping, job, current>>

Worker == Take \/ Open \/ Write \/ Account \/ WriterFails
=============================================================================
