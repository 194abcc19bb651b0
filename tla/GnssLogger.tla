----------------------------- MODULE GnssLogger -----------------------------
(***************************************************************************)
(* gnsslogger: bytes from a file or from a TCP receiver are decoded, cut   *)
(* into recording intervals at the frame that ends an epoch, and handed to *)
(* the output worker, one file per day.  What the log says of the stream   *)
(* (diagnostics, inspection with -n) is left out.                          *)
(***************************************************************************)
EXTENDS StreamDecoder, LoggerOutput, FiniteSetsExt

CONSTANTS
    Inputs,         \* [protocol, source, bytes, existing]: source is file or tcp
    Meaning,        \* of a frame: [kind, time, ok]
    Day, Week,      \* their length
    MaxInterval,    \* frames an interval may hold
    MaxBreaks,      \* bound on the breaks of the connection
    Chunks          \* what a read may return at most, in bytes

ASSUME InputsAssumption ==
    /\ \A i \in Inputs :
          /\ i.bytes \in Seq(Nat) /\ i.source \in {"file", "tcp"}
          /\ IsFiniteSet(i.existing) /\ i.existing \subseteq Nat \ {0}
    /\ \A f \in Sealed : Meaning[f].kind \in {"time", "end"} => Meaning[f].time \in Nat \ {0}
    /\ Chunks \subseteq Nat

VARIABLES
    input,
    pc,             \* check, read, consume, stop, notify, join, ended
    connected, pos, \* the socket, and the bytes of the input gone by
    start, breaks,  \* where the bytes since the last break begin
    pending_,       \* the decoder's bytes
    todo, heard,    \* the frames of this chunk, and those since the break
    pending,        \* the frames of the interval
    timegps, last, output_path,
    owed,           \* what the stream before the last break was worth
    failed

inputVars == <<input, connected, pos, start, breaks, owed>>
intervalVars == <<pending, timegps, last, output_path>>
loggerVars == <<pc, inputVars, pending_, todo, heard, intervalVars, failed>>
vars == <<loggerVars, outputVars>>

Init ==
    /\ input \in Inputs /\ pc = "check" /\ connected = TRUE
    /\ pos = 0 /\ start = 0 /\ breaks = 0
    /\ pending_ = <<>> /\ todo = <<>> /\ heard = <<>>
    /\ pending = <<>> /\ timegps = None /\ last = None /\ output_path = None
    /\ owed = <<>> /\ failed = FALSE
    /\ OutputInit([t \in input.existing |-> <<>>])

\* An exception: the destructor of the output still stops the worker.
Fail == failed' = TRUE /\ pc' = "stop"

\* The frames of the recorded protocol.
Own(frames) ==
    FlattenSeq([n \in DOMAIN frames |->
                  IF ProtocolOf(frames[n]) = input.protocol THEN <<frames[n]>> ELSE <<>>])

----------------------------------------------------------------------------
(* The main loop.                                                          *)

Check ==
    /\ pc = "check"
    /\ IF error THEN Fail ELSE pc' = "read" /\ UNCHANGED failed
    /\ UNCHANGED <<inputVars, pending_, todo, heard, intervalVars, outputVars>>

\* The decoder calls back with the frames of the recorded protocol only.
Read ==
    /\ pc = "read" /\ connected
    /\ pos < Len(input.bytes)
    /\ \E most \in Chunks :
         LET n == Min({most, Len(input.bytes) - pos}) IN
           \E d \in {Decoded(pending_ \o SubSeq(input.bytes, pos + 1, pos + n))} :
             /\ pos' = pos + n /\ pending_' = d.pending /\ todo' = d.frames
             /\ pc' = IF d.frames = <<>> THEN "check" ELSE "consume"
    /\ UNCHANGED <<input, connected, start, breaks, owed, heard, intervalVars, failed, outputVars>>

\* The frames of the whole intervals, each closed by the frame that ends it.
Ends(f) == Meaning[f].kind = "end"
Whole(frames) ==
    LET ends == {n \in DOMAIN frames : Ends(frames[n])}
    IN  SubSeq(frames, 1, Max(ends \cup {0}))
Since == SubSeq(input.bytes, start + 1, pos)

\* Mutant: the interval survives the break.
DiscardFrameOnly ==
    /\ pending_' = <<>> /\ timegps' = None /\ UNCHANGED pending

Discard ==
    /\ pending_' = <<>> /\ pending' = <<>> /\ timegps' = None

Break ==
    /\ pc = "read" /\ input.source = "tcp" /\ connected /\ pc' = "check"
    /\ breaks < MaxBreaks \/ pos = Len(input.bytes)
    /\ breaks' = Min({MaxBreaks, breaks + 1})
    /\ Discard
    /\ \E d \in {Decoded(Since)} : owed' = owed \o Whole(Own(d.frames))
    /\ start' = pos /\ heard' = <<>>
    /\ UNCHANGED <<input, pos, todo, last, output_path, failed, outputVars>>

\* No byte for the socket's timeout; a timeout loses nothing of the stream.
Timeout == Break /\ UNCHANGED connected

\* The peer closed, or the read failed.
Disconnect == Break /\ connected' = FALSE

\* tcp_connect() after two seconds, which may fail; what the receiver sent
\* meanwhile is lost.
Reconnect ==
    /\ pc = "read" /\ ~connected /\ pc' = "check"
    /\ \/ /\ connected' = TRUE
          /\ \E lost \in {0} \cup Chunks : pos' = Min({pos + lost, Len(input.bytes)})
          /\ start' = pos'
       \/ UNCHANGED <<connected, pos, start>>
    /\ UNCHANGED <<input, breaks, owed, pending_, todo, heard, intervalVars, failed, outputVars>>

\* Mutant: the rest of an interval is not looked at.
CutFrame == pending_ # <<>>

\* decoder.finish() and the rest of an interval.
CutShort == pending_ # <<>> \/ pending # <<>>

EndOfFile ==
    /\ pc = "read" /\ input.source = "file" /\ pos = Len(input.bytes)
    /\ failed' = CutShort /\ pc' = "stop"
    /\ UNCHANGED <<inputVars, pending_, todo, heard, intervalVars, outputVars>>

----------------------------------------------------------------------------
(* consume().                                                              *)

\* record(): the interval goes to the file of its day.  The buffer counts the
\* capacity of the vector, which is less than twice its size.
Record(time, frames) ==
    LET path == IF last = None \/ time \div Day # last \div Day THEN time ELSE output_path IN
      \E capacity \in {Len(frames), 2 * Len(frames)} :
        IF time =< last \/ Refused(capacity)
          THEN Fail /\ UNCHANGED <<intervalVars, outputVars>>
          ELSE /\ Push(path, frames, capacity)
               /\ pending' = <<>> /\ timegps' = None /\ last' = time /\ output_path' = path
               /\ UNCHANGED failed
               /\ pc' = IF Len(todo) = 1 THEN "check" ELSE "consume"

Keep(frames, time) ==
    /\ pending' = frames /\ timegps' = time
    /\ pc' = IF Len(todo) = 1 THEN "check" ELSE "consume"
    /\ UNCHANGED <<last, output_path, failed, outputVars>>

Refuse == Fail /\ UNCHANGED <<intervalVars, outputVars>>

ConsumeSbf(m, frames) ==
    CASE m.kind = "end" /\ m.ok -> Record(m.time, frames)
      [] m.kind = "end" /\ ~m.ok -> Refuse
      [] OTHER -> Keep(frames, None)

\* NAV-EOE has the time of the week only.
ConsumeUbx(m, frames) ==
    CASE m.kind = "time" ->
           IF m.ok /\ timegps \in {None, m.time} THEN Keep(frames, m.time) ELSE Refuse
      [] m.kind = "end" ->
           IF m.ok /\ timegps # None /\ timegps % Week = m.time % Week
             THEN Record(timegps, frames) ELSE Refuse
      [] OTHER -> Keep(frames, timegps)

Consume ==
    /\ pc = "consume"
    /\ todo' = Tail(todo) /\ heard' = Append(heard, Head(todo))
    /\ UNCHANGED <<inputVars, pending_>>
    /\ LET f == Head(todo)
           frames == Append(pending, f)
       IN  IF ProtocolOf(f) # input.protocol THEN Keep(pending, timegps)
           ELSE IF Len(frames) > MaxInterval THEN Refuse
           ELSE IF input.protocol = "sbf" THEN ConsumeSbf(Meaning[f], frames)
           ELSE ConsumeUbx(Meaning[f], frames)

----------------------------------------------------------------------------
(* finish(), or the destructor: stop(), join, and check().                 *)

Stop ==
    /\ pc = "stop" /\ pc' = "notify" /\ SetStopping
    /\ UNCHANGED <<inputVars, pending_, todo, heard, intervalVars, failed>>

Notify ==
    /\ pc = "notify" /\ pc' = "join" /\ NotifyWriter
    /\ UNCHANGED <<inputVars, pending_, todo, heard, intervalVars, failed>>

Join ==
    /\ pc = "join" /\ writer = "ended"
    /\ pc' = "ended" /\ failed' = (failed \/ error)
    /\ UNCHANGED <<inputVars, pending_, todo, heard, intervalVars, outputVars>>

Main ==
    \/ Check \/ Read \/ Timeout \/ Disconnect \/ Reconnect \/ EndOfFile \/ Consume
    \/ Stop \/ Notify \/ Join

WriterStep == Worker /\ UNCHANGED loggerVars

Next == Main \/ WriterStep

\* The two threads are scheduled; the socket has a receive timeout, so that a
\* read returns whatever the receiver does.
Spec == Init /\ [][Next]_vars /\ WF_vars(Main) /\ WF_vars(WriterStep)

----------------------------------------------------------------------------
\* However the bytes since the last break were cut into chunks, the decoder has
\* called back with the frames, and waits with the bytes, of one feed() of all
\* of them: no frame is lost, split or found twice at the end of a chunk.
ChunksInvisible ==
    LET whole == Decoded(Since) IN
      (connected /\ pc \in {"check", "read", "consume"}) =>
        heard \o todo = whole.frames /\ pending_ = whole.pending

\* The recording in the order of its files, then what is on its way to it.
Filled(f) == {time \in DOMAIN f : f[time] # <<>>}
Nth(times, n) == CHOOSE t \in times : Cardinality({u \in times : u =< t}) = n
InOrder(f) == FlattenSeq([n \in 1..Cardinality(Filled(f)) |-> f[Nth(Filled(f), n)]])
OnDisk == InOrder(files)
OnTheWay ==
    (IF writer \in {"open", "write"} THEN job.frames ELSE <<>>)
    \o FlattenSeq([n \in DOMAIN queue |-> queue[n].frames])

\* The files, the worker's hands and the queue together are the whole intervals
\* of the stream, break by break, in its order: none is lost, repeated or
\* mixed with another across a break; after an error they are a prefix.
FilesAreStream ==
    LET due == owed \o Whole(Own(heard)) IN
      /\ IsPrefix(OnDisk, due)
      /\ ~error => IsPrefix(OnDisk \o OnTheWay, due)
      /\ (~error /\ ~failed) => OnDisk \o OnTheWay = due

\* A run that ends well has written every frame of its input, and nothing of
\* the input was left over; the worker has no error that nobody saw.
EndsWhole ==
    (pc = "ended" /\ ~failed) =>
        LET whole == Decoded(input.bytes)
        IN  OnDisk = Own(whole.frames) /\ whole.pending = <<>>

\* A file comes to its end, and an error of either thread ends both: the worker
\* is not left asleep, nor the main thread waiting for it.
LoggerEnds == (input.source = "file" \/ error \/ failed) ~> (pc = "ended" /\ writer = "ended")
=============================================================================
