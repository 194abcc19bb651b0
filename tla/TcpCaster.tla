------------------------------ MODULE TcpCaster ------------------------------
(***************************************************************************)
(* The receive-only byte caster (tcp_caster.py): one source task reads     *)
(* chunks and broadcasts them to the subscribers; each subscriber has a    *)
(* bounded queue, a sender task, a receiver task that discards its input,  *)
(* and a serve task around the two.  asyncio runs one task at a time, from *)
(* one await to the next, and each such stretch is an action here.         *)
(*                                                                         *)
(* Abstractions.  A chunk is the session of the source it came in and its  *)
(* number in that session; its length is a function of the number.  A      *)
(* connection attempt is one element of Peers, used once.  Delays and      *)
(* timeouts are choices of when a step happens.                            *)
(***************************************************************************)
EXTENDS Integers, Sequences, FiniteSets, SequencesExt

CONSTANTS
    Peers,        \* connection attempts of subscribers
    MaxClients,   \* server.max_clients
    BufferBytes,  \* server.client_buffer_bytes
    MaxChunks,    \* bound on the chunks of one source session
    MaxSessions   \* bound on the source connections

ASSUME ConstantsAssumption ==
    /\ IsFiniteSet(Peers)
    /\ MaxClients \in Nat \ {0} /\ BufferBytes \in Nat \ {0}
    /\ MaxChunks \in Nat /\ MaxSessions \in Nat

VARIABLES
    server,    \* run(): "listening", then "stopping", "draining", "stopped"
    source,    \* follow_source(): "closed", "open" or, for good, "ended"
    active,    \* Caster.active
    session, emitted,  \* source connections so far, chunks read in this one
    clients,   \* Caster.clients
    tasks,     \* Caster.tasks: peers whose serve task has not ended
    serve,     \* serve task: "none", "created", "waiting", "cancelled", "ended"
    sender,    \* send(): "none", "wait", "drain", "raised", "ended"
    eof,       \* discard_input() has returned or raised
    closed,    \* Client.closed
    pending, bytes, available,  \* Client.pending, pending_bytes, available
    sent,      \* what was written to the peer's transport
    joined     \* where the subscription starts: [session, first chunk]

upstream == <<source, active, session, emitted>>
queues == <<pending, bytes, available>>
vars == <<server, source, active, session, emitted, clients, tasks, serve, sender, eof,
          closed, pending, bytes, available, sent, joined>>

\* Chunks of two lengths, so that a queue can be full for one and not the other.
Length(chunk) == 1 + (chunk[2] % 2)

Init ==
    /\ server = "listening" /\ source = "closed" /\ active = FALSE
    /\ session = 0 /\ emitted = 0
    /\ clients = {} /\ tasks = {}
    /\ serve = [p \in Peers |-> "none"] /\ sender = [p \in Peers |-> "none"]
    /\ eof = [p \in Peers |-> FALSE] /\ closed = [p \in Peers |-> FALSE]
    /\ pending = [p \in Peers |-> <<>>] /\ bytes = [p \in Peers |-> 0]
    /\ available = [p \in Peers |-> FALSE]
    /\ sent = [p \in Peers |-> <<>>] /\ joined = [p \in Peers |-> <<0, 0>>]

(***************************************************************************)
(* Client.disconnect(), of one or of several clients at once.              *)
(***************************************************************************)
\* Mutant: the queue is left to the sender.
Cleared(P) == pending

Emptied(P) == [p \in Peers |-> IF p \in P THEN <<>> ELSE pending[p]]

\* Mutant: the tasks are left to notice for themselves.
NotCancelled(P) == serve

\* A serve task that another task disconnects is cancelled.
Cancelled(P) ==
    [p \in Peers |-> IF p \in P /\ serve[p] # "ended" THEN "cancelled" ELSE serve[p]]

Disconnect(P) ==
    /\ closed' = [p \in Peers |-> closed[p] \/ p \in P]
    /\ clients' = clients \ P
    /\ pending' = Emptied(P)
    /\ bytes' = [p \in Peers |-> IF p \in P THEN 0 ELSE bytes[p]]

DisconnectAll ==
    /\ Disconnect(clients) /\ serve' = Cancelled(clients) /\ active' = FALSE

(***************************************************************************)
(* The source task.                                                        *)
(***************************************************************************)
OpenSource ==
    /\ server = "listening" /\ source = "closed" /\ session < MaxSessions
    /\ source' = "open" /\ active' = TRUE
    /\ session' = session + 1 /\ emitted' = 0
    /\ UNCHANGED <<server, clients, tasks, serve, sender, eof, closed, queues, sent, joined>>

Overflows(p, chunk) == bytes[p] + Length(chunk) > BufferBytes

\* Mutant: a client whose queue is full misses the chunk and stays.
SkippedOnly(chunk) == {}

Evicted(chunk) == {p \in clients : Overflows(p, chunk)}

\* broadcast() is one stretch: a client whose queue is full is disconnected,
\* the others get the chunk.
Broadcast ==
    LET chunk == <<session, emitted + 1>>
        full == Evicted(chunk)
        takers == {p \in clients : ~Overflows(p, chunk)}
    IN  /\ server = "listening" /\ source = "open" /\ emitted < MaxChunks
        /\ emitted' = emitted + 1
        /\ closed' = [p \in Peers |-> closed[p] \/ p \in full]
        /\ clients' = clients \ full
        /\ serve' = Cancelled(full)
        /\ pending' = [p \in Peers |-> IF p \in takers THEN Append(pending[p], chunk) ELSE Emptied(full)[p]]
        /\ bytes' = [p \in Peers |-> IF p \in takers THEN bytes[p] + Length(chunk)
                                     ELSE IF p \in full THEN 0 ELSE bytes[p]]
        /\ available' = [p \in Peers |-> available[p] \/ p \in takers]
        /\ UNCHANGED <<server, source, active, session, tasks, sender, eof, sent, joined>>

\* Mutant: a lost source leaves its subscribers connected.
LoseQuietly == active' = FALSE /\ UNCHANGED <<clients, closed, pending, bytes, serve>>

LoseAll == DisconnectAll

\* EOF, an error or the idle timeout of an open source.
LoseSource ==
    /\ server = "listening" /\ source = "open" /\ source' = "closed"
    /\ LoseAll
    /\ UNCHANGED <<server, session, emitted, tasks, sender, eof, available, sent, joined>>

\* An exception follow_source() does not handle ends the task, and then run().
SourceFails ==
    /\ server = "listening" /\ source # "ended" /\ source' = "ended"
    /\ DisconnectAll
    /\ UNCHANGED <<server, session, emitted, tasks, sender, eof, available, sent, joined>>

(***************************************************************************)
(* Subscribers.                                                            *)
(***************************************************************************)
Admits == active /\ Cardinality(clients) < MaxClients

\* accept(); a rejected connection is aborted at once.  A connection the
\* listener took before it was closed may still arrive here.
Accept(p) ==
    /\ server # "stopped" /\ serve[p] = "none" /\ ~closed[p]
    /\ IF Admits
       THEN /\ clients' = clients \cup {p} /\ tasks' = tasks \cup {p}
            /\ serve' = [serve EXCEPT ![p] = "created"]
            /\ joined' = [joined EXCEPT ![p] = <<session, emitted + 1>>]
            /\ UNCHANGED closed
       ELSE closed' = [closed EXCEPT ![p] = TRUE] /\ UNCHANGED <<clients, tasks, serve, joined>>
    /\ UNCHANGED <<server, upstream, sender, eof, queues, sent>>

\* serve() starts its two tasks.
Serve(p) ==
    /\ serve[p] = "created"
    /\ serve' = [serve EXCEPT ![p] = "waiting"] /\ sender' = [sender EXCEPT ![p] = "wait"]
    /\ UNCHANGED <<server, upstream, clients, tasks, eof, closed, queues, sent, joined>>

\* Mutant: the event is cleared for each chunk.
MoreNever(p) == FALSE

MoreLeft(p) == Len(pending[p]) > 1

\* send() from the event to drain(); an emptied queue raises IndexError here.
Send(p) ==
    /\ sender[p] = "wait" /\ available[p]
    /\ IF pending[p] = <<>>
       THEN sender' = [sender EXCEPT ![p] = "raised"] /\ UNCHANGED <<queues, sent>>
       ELSE /\ pending' = [pending EXCEPT ![p] = Tail(@)]
            /\ bytes' = [bytes EXCEPT ![p] = @ - Length(Head(pending[p]))]
            /\ available' = [available EXCEPT ![p] = MoreLeft(p)]
            /\ sent' = [sent EXCEPT ![p] = Append(@, Head(pending[p]))]
            /\ sender' = [sender EXCEPT ![p] = "drain"]
    /\ UNCHANGED <<server, upstream, clients, tasks, serve, eof, closed, joined>>

\* The transport takes more, as fast as the peer reads.
Drained(p) ==
    /\ sender[p] = "drain" /\ ~closed[p] /\ sender' = [sender EXCEPT ![p] = "wait"]
    /\ UNCHANGED <<server, upstream, clients, tasks, serve, eof, closed, queues, sent, joined>>

\* drain() raises on an aborted or reset transport.
DrainFails(p) ==
    /\ sender[p] = "drain" /\ sender' = [sender EXCEPT ![p] = "raised"]
    /\ UNCHANGED <<server, upstream, clients, tasks, serve, eof, closed, queues, sent, joined>>

\* The peer closes or half-closes, or the connection is reset.
PeerCloses(p) ==
    /\ serve[p] = "waiting" /\ ~eof[p] /\ eof' = [eof EXCEPT ![p] = TRUE]
    /\ UNCHANGED <<server, upstream, clients, tasks, serve, sender, closed, queues, sent, joined>>

\* serve() from the end of its wait, or from its cancellation, to the end of
\* the task: disconnect() by the task itself, then the two tasks are cancelled.
Leave(p) ==
    /\ \/ serve[p] = "waiting" /\ (eof[p] \/ sender[p] = "raised")
       \/ serve[p] = "cancelled"
    /\ Disconnect({p})
    /\ serve' = [serve EXCEPT ![p] = "ended"] /\ sender' = [sender EXCEPT ![p] = "ended"]
    /\ tasks' = tasks \ {p}
    /\ UNCHANGED <<server, upstream, eof, available, sent, joined>>

(***************************************************************************)
(* run(): SIGTERM, or the end of the source task.                          *)
(***************************************************************************)
Stop ==
    /\ server = "listening" /\ server' = "stopping"
    /\ DisconnectAll
    /\ UNCHANGED <<source, session, emitted, tasks, sender, eof, available, sent, joined>>

\* The cancelled source task runs its finally clause.
SourceStops ==
    /\ server = "stopping" /\ server' = "draining" /\ source' = "ended"
    /\ DisconnectAll
    /\ UNCHANGED <<session, emitted, tasks, sender, eof, available, sent, joined>>

Stopped ==
    /\ server = "draining" /\ tasks = {} /\ server' = "stopped"
    /\ UNCHANGED <<upstream, clients, tasks, serve, sender, eof, closed, queues, sent, joined>>

(***************************************************************************)
(* Specification.                                                          *)
(***************************************************************************)
Peer(p) == Accept(p) \/ Serve(p) \/ Send(p) \/ Drained(p) \/ DrainFails(p) \/ PeerCloses(p) \/ Leave(p)

Next ==
    \/ OpenSource \/ Broadcast \/ LoseSource \/ SourceFails
    \/ \E p \in Peers : Peer(p)
    \/ Stop \/ SourceStops \/ Stopped
    \/ server = "stopped" /\ UNCHANGED vars

Spec == Init /\ [][Next]_vars

\* asyncio runs every task that is ready; a transport that is aborted ends its
\* drain(), but no peer has to read.  A source task that has ended stops run().
Tasks(p) == Serve(p) \/ Send(p) \/ (closed[p] /\ DrainFails(p)) \/ Leave(p)

Fairness ==
    /\ \A p \in Peers : WF_vars(Tasks(p))
    /\ WF_vars(source = "ended" /\ Stop) /\ WF_vars(SourceStops) /\ WF_vars(Stopped)

FairSpec == Spec /\ Fairness

(***************************************************************************)
(* Properties.                                                             *)
(***************************************************************************)
Chunks == (1..MaxSessions) \X (1..MaxChunks)

\* The counters and tasks keep their types: in particular no race of a sender with
\* a disconnect drives pending_bytes below zero.
TypeOK ==
    /\ server \in {"listening", "stopping", "draining", "stopped"}
    /\ source \in {"closed", "open", "ended"} /\ active \in BOOLEAN
    /\ session \in 0..MaxSessions /\ emitted \in 0..MaxChunks
    /\ clients \subseteq Peers /\ tasks \subseteq Peers
    /\ serve \in [Peers -> {"none", "created", "waiting", "cancelled", "ended"}]
    /\ sender \in [Peers -> {"none", "wait", "drain", "raised", "ended"}]
    /\ eof \in [Peers -> BOOLEAN] /\ closed \in [Peers -> BOOLEAN]
    /\ pending \in [Peers -> Seq(Chunks)] /\ bytes \in [Peers -> Nat]
    /\ available \in [Peers -> BOOLEAN] /\ sent \in [Peers -> Seq(Chunks)]
    /\ joined \in [Peers -> (0..MaxSessions) \X (0..(MaxChunks + 1))]

\* The chunks of session s from number m to number n.
Run(s, m, n) == [i \in 1..(n - m + 1) |-> <<s, m + i - 1>>]

\* "No bytes are silently skipped within a surviving connection": what a
\* subscriber was sent and what is queued for it are together the source's
\* output since it joined, chunk for chunk.
NoGap ==
    \A p \in clients :
        sent[p] \o pending[p] = Run(joined[p][1], joined[p][2], emitted)

\* "Pre- and post-reconnection data are never joined": every subscriber belongs
\* to the source connection that is open now.
OneSession == \A p \in clients : active /\ joined[p][1] = session

\* A sender that waits for its event has nothing to send: a chunk queued while
\* it was in drain(), or just before the event is cleared, is never stranded.
NoLostWakeup ==
    \A p \in Peers : sender[p] = "wait" /\ pending[p] # <<>> => available[p]

\* Nothing is written to a subscriber after it was disconnected, although its
\* sender may already have been woken.
SilentAfterClose == [][\A p \in Peers : closed[p] => sent'[p] = sent[p]]_vars

\* "Shutdown does not wait for blocked socket buffers": it ends although no
\* peer reads, whatever its tasks were doing.
ShutsDown == (server = "stopping") ~> (server = "stopped")
=============================================================================
