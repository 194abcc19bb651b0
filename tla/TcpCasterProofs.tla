-------------------------- MODULE TcpCasterProofs --------------------------
(***************************************************************************)
(* What the run of TcpCaster shows for two peers and two short sessions,   *)
(* proved for any number of peers, sessions and chunks and any buffer:     *)
(* a subscriber misses nothing, belongs to one source connection, is never *)
(* stranded, and gets nothing once it was disconnected.                    *)
(***************************************************************************)
EXTENDS TcpCaster, SequenceTheorems, TLAPS

Chunk == Nat \X Nat

(***************************************************************************)
(* Sequences.                                                              *)
(***************************************************************************)
LEMMA RunIsSeq ==
  ASSUME NEW s \in Nat, NEW m \in Nat, NEW n \in Nat, m <= n + 1
  PROVE  Run(s, m, n) \in Seq(Chunk) /\ Len(Run(s, m, n)) = n - m + 1
<1>1. n - m + 1 \in Nat
  OBVIOUS
<1>2. Run(s, m, n) \in [1..(n - m + 1) -> Chunk]
  BY <1>1 DEF Run, Chunk
<1> QED
  BY <1>1, <1>2

LEMMA OneLonger ==
  ASSUME NEW S, NEW s \in Seq(S), NEW t \in Seq(S), NEW e \in S,
         Len(t) = Len(s) + 1, \A i \in 1..Len(s) : t[i] = s[i], t[Len(s) + 1] = e
  PROVE  t = Append(s, e)
<1>1. Append(s, e) \in Seq(S) /\ Len(Append(s, e)) = Len(t) /\ Len(s) \in Nat
  BY AppendProperties
<1>2. \A i \in 1..Len(t) : t[i] = Append(s, e)[i]
  BY <1>1, AppendProperties
<1> QED
  BY <1>1, <1>2, SeqEqual

\* Broadcast: one more chunk extends the run.
LEMMA RunExtends ==
  ASSUME NEW s \in Nat, NEW m \in Nat, NEW n \in Nat, m <= n + 1
  PROVE  Run(s, m, n + 1) = Append(Run(s, m, n), <<s, n + 1>>)
<1> DEFINE run == Run(s, m, n)
           longer == Run(s, m, n + 1)
           chunk == <<s, n + 1>>
<1>1. run \in Seq(Chunk) /\ Len(run) = n - m + 1 /\ longer \in Seq(Chunk) /\ Len(longer) = n - m + 2
  BY RunIsSeq
<1>2. chunk \in Chunk
  BY DEF Chunk
<1>3. \A i \in 1..(n - m + 1) : longer[i] = run[i]
  BY DEF Run
<1>4. longer[n - m + 2] = chunk
  <2>1. n - m + 2 \in 1..((n + 1) - m + 1) /\ m + (n - m + 2) - 1 = n + 1
    OBVIOUS
  <2> QED
    BY <2>1 DEF Run
<1>5. Len(longer) = Len(run) + 1 /\ Len(run) + 1 = n - m + 2
  BY <1>1
<1> HIDE DEF run, longer, chunk
<1>6. longer = Append(run, chunk)
  BY <1>1, <1>2, <1>3, <1>4, <1>5, OneLonger
<1> QED
  BY <1>6 DEF run, longer, chunk

\* Accept: a subscription that has just begun.
LEMMA RunEmpty ==
  ASSUME NEW s \in Nat, NEW n \in Nat
  PROVE  Run(s, n + 1, n) = <<>>
<1>1. Run(s, n + 1, n) \in Seq(Chunk) /\ Len(Run(s, n + 1, n)) = 0
  <2>1. n + 1 \in Nat /\ n + 1 <= n + 1 /\ n - (n + 1) + 1 = 0
    OBVIOUS
  <2> QED
    BY <2>1, RunIsSeq
<1> QED
  BY <1>1

\* Send: the head of the queue moves to the transport.
LEMMA MoveHead ==
  ASSUME NEW S, NEW s \in Seq(S), NEW t \in Seq(S), t # <<>>
  PROVE  Append(s, Head(t)) \o Tail(t) = s \o t
<1>1. /\ Head(t) = t[1] /\ Head(t) \in S /\ Tail(t) \in Seq(S) /\ Len(Tail(t)) = Len(t) - 1
      /\ \A i \in 1..Len(Tail(t)) : Tail(t)[i] = t[i + 1]
      /\ Len(t) \in Nat \ {0} /\ Len(s) \in Nat
  BY HeadTailProperties, EmptySeq
<1>2. /\ Append(s, Head(t)) \in Seq(S) /\ Len(Append(s, Head(t))) = Len(s) + 1
      /\ \A i \in 1..(Len(s) + 1) :
           Append(s, Head(t))[i] = IF i <= Len(s) THEN s[i] ELSE Head(t)
  BY <1>1
<1>3. /\ Append(s, Head(t)) \o Tail(t) \in Seq(S)
      /\ Len(Append(s, Head(t)) \o Tail(t)) = Len(s) + Len(t)
      /\ \A i \in 1..(Len(s) + Len(t)) : (Append(s, Head(t)) \o Tail(t))[i]
           = IF i <= Len(s) + 1 THEN Append(s, Head(t))[i] ELSE Tail(t)[i - (Len(s) + 1)]
  BY <1>1, <1>2, ConcatProperties
<1>4. /\ s \o t \in Seq(S) /\ Len(s \o t) = Len(s) + Len(t)
      /\ \A i \in 1..(Len(s) + Len(t)) :
           (s \o t)[i] = IF i <= Len(s) THEN s[i] ELSE t[i - Len(s)]
  BY ConcatProperties
<1>5. \A i \in 1..(Len(s) + Len(t)) : (Append(s, Head(t)) \o Tail(t))[i] = (s \o t)[i]
  <2> TAKE i \in 1..(Len(s) + Len(t))
  <2>1. CASE i <= Len(s)
    BY <2>1, <1>1, <1>2, <1>3, <1>4
  <2>2. CASE i = Len(s) + 1
    BY <2>2, <1>1, <1>2, <1>3, <1>4
  <2>3. CASE i > Len(s) + 1
    <3>1. i - (Len(s) + 1) \in 1..Len(Tail(t))
      BY <2>3, <1>1
    <3>2. Tail(t)[i - (Len(s) + 1)] = t[i - Len(s)]
      BY <3>1, <1>1
    <3> QED
      BY <2>3, <3>2, <1>1, <1>3, <1>4
  <2> QED
    BY <2>1, <2>2, <2>3, <1>1
<1> QED
  BY <1>1, <1>3, <1>4, <1>5, SeqEqual

\* Broadcast: a chunk that is queued is a chunk at the end of the whole.
LEMMA QueueLast ==
  ASSUME NEW S, NEW s \in Seq(S), NEW t \in Seq(S), NEW e \in S
  PROVE  s \o Append(t, e) = Append(s \o t, e)
<1>1. Append(t, e) = t \o <<e>> /\ Append(s \o t, e) = (s \o t) \o <<e>> /\ <<e>> \in Seq(S)
  BY ConcatProperties, AppendIsConcat
<1> QED
  BY <1>1, ConcatAssociative
(***************************************************************************)
(* The invariant.                                                          *)
(***************************************************************************)
Types ==
    /\ clients \subseteq Peers /\ active \in BOOLEAN
    /\ session \in Nat /\ emitted \in Nat
    /\ serve \in [Peers -> {"none", "created", "waiting", "cancelled", "ended"}]
    /\ closed \in [Peers -> BOOLEAN] /\ available \in [Peers -> BOOLEAN]
    /\ pending \in [Peers -> Seq(Chunk)] /\ sent \in [Peers -> Seq(Chunk)]
    /\ joined \in [Peers -> Nat \X Nat]

\* A subscription begins in the open source connection, with the next chunk at most.
Joins == \A p \in clients : joined[p][2] <= emitted + 1

\* Only an open source connection has subscribers.
OpenForClients == active => source = "open"

\* A connection that was not accepted yet was given nothing.
Untouched ==
    \A p \in Peers : serve[p] = "none" => p \notin clients /\ sent[p] = <<>> /\ pending[p] = <<>>

\* What waits in a queue is signalled, not only to a sender that waits.
Signalled == \A p \in Peers : pending[p] # <<>> => available[p]

\* disconnect() leaves nothing behind.
ClosedEmpty == \A p \in Peers : closed[p] => p \notin clients /\ pending[p] = <<>>

CInv == /\ Types /\ Joins /\ OpenForClients /\ Untouched /\ Signalled /\ ClosedEmpty
        /\ OneSession /\ NoGap

LEMMA InitCInv == Init => CInv
<1> SUFFICES ASSUME Init PROVE CInv
  OBVIOUS
<1>1. <<>> \in Seq(Chunk)
  BY EmptySeq
<1>2. Types
  BY <1>1 DEF Init, Types
<1> QED
  BY <1>2 DEF Init, CInv, Joins, OpenForClients, Untouched, Signalled, ClosedEmpty, OneSession, NoGap

\* disconnect() of some peers by any task; what else changes is their tasks.
LEMMA DisconnectCInv ==
  ASSUME CInv, NEW P \in SUBSET Peers, Disconnect(P),
         serve' \in [Peers -> {"none", "created", "waiting", "cancelled", "ended"}],
         \A p \in Peers : serve'[p] = "none" => serve[p] = "none",
         active' \in BOOLEAN, active' => active /\ source' = source,
         clients' # {} => active' = active,
         UNCHANGED <<session, emitted, available, sent, joined>>
  PROVE  CInv'
<1> USE DEF CInv
<1>1. /\ closed' = [p \in Peers |-> closed[p] \/ p \in P]
      /\ clients' = clients \ P
      /\ pending' = [p \in Peers |-> IF p \in P THEN <<>> ELSE pending[p]]
  BY DEF Disconnect, Emptied
<1>2. <<>> \in Seq(Chunk)
  BY EmptySeq
<1>3. Types'
  BY <1>1, <1>2 DEF Types
<1>4. Joins' /\ OneSession'
  BY <1>1 DEF Joins, OneSession
<1>5. OpenForClients'
  BY DEF OpenForClients
<1>6. Untouched' /\ Signalled' /\ ClosedEmpty'
  BY <1>1 DEF Untouched, Signalled, ClosedEmpty, Types
<1>7. NoGap'
  <2> SUFFICES ASSUME NEW p \in clients'
               PROVE  sent'[p] \o pending'[p] = Run(joined'[p][1], joined'[p][2], emitted')
    BY DEF NoGap
  <2> QED
    BY <1>1 DEF NoGap, Types
<1> QED
  BY <1>3, <1>4, <1>5, <1>6, <1>7

\* Every client is disconnected: the source is lost, or the caster stops.
LEMMA DisconnectAllCInv ==
  ASSUME CInv, DisconnectAll, UNCHANGED <<session, emitted, available, sent, joined>>
  PROVE  CInv'
<1>1. clients \in SUBSET Peers /\ Disconnect(clients) /\ active' = FALSE /\ clients' = {}
  BY DEF DisconnectAll, Disconnect, CInv, Types
<1>2. serve' = [p \in Peers |-> IF p \in clients /\ serve[p] # "ended" THEN "cancelled" ELSE serve[p]]
  BY DEF DisconnectAll, Cancelled
<1>3. /\ serve' \in [Peers -> {"none", "created", "waiting", "cancelled", "ended"}]
      /\ \A p \in Peers : serve'[p] = "none" => serve[p] = "none"
  BY <1>2 DEF CInv, Types
<1> QED
  BY <1>1, <1>3, DisconnectCInv
(***************************************************************************)
(* The source task and the subscribers' tasks.                             *)
(***************************************************************************)
LEMMA OpenCInv == ASSUME CInv, OpenSource PROVE CInv'
<1> USE DEF CInv
<1>1. clients' = {} /\ clients = {}
  BY DEF OpenSource, OpenForClients, OneSession
<1>2. Types'
  BY DEF OpenSource, Types, queues
<1> QED
  BY <1>1, <1>2 DEF OpenSource, queues, Joins, OpenForClients, Untouched, Signalled, ClosedEmpty,
                    OneSession, NoGap

LEMMA BroadcastCInv == ASSUME CInv, Broadcast PROVE CInv'
<1> DEFINE chunk == <<session, emitted + 1>>
           full == Evicted(chunk)
           takers == {p \in clients : ~Overflows(p, chunk)}
<1> USE DEF CInv
<1>1. /\ source = "open" /\ emitted' = emitted + 1
      /\ closed' = [p \in Peers |-> closed[p] \/ p \in full]
      /\ clients' = clients \ full
      /\ serve' = Cancelled(full)
      /\ pending' = [p \in Peers |-> IF p \in takers THEN Append(pending[p], chunk)
                                     ELSE Emptied(full)[p]]
      /\ available' = [p \in Peers |-> available[p] \/ p \in takers]
      /\ UNCHANGED <<source, active, session, sent, joined>>
  BY DEF Broadcast
<1>2. full \subseteq clients /\ takers = clients \ full /\ clients \subseteq Peers
  BY DEF Evicted, Types
<1>3. pending' = [p \in Peers |-> IF p \in takers THEN Append(pending[p], chunk)
                                  ELSE IF p \in full THEN <<>> ELSE pending[p]]
  BY <1>1 DEF Emptied
<1>4. serve' = [p \in Peers |-> IF p \in full /\ serve[p] # "ended" THEN "cancelled" ELSE serve[p]]
  BY <1>1 DEF Cancelled
<1> HIDE DEF full, takers
<1>5. chunk \in Chunk /\ <<>> \in Seq(Chunk)
  BY EmptySeq DEF Types, Chunk
<1>6. Types'
  <2>1. pending' \in [Peers -> Seq(Chunk)]
    <3> HIDE DEF chunk
    <3> QED
      BY <1>3, <1>5 DEF Types
  <2>2. available' \in [Peers -> BOOLEAN] /\ closed' \in [Peers -> BOOLEAN]
    BY <1>1 DEF Types
  <2>3. serve' \in [Peers -> {"none", "created", "waiting", "cancelled", "ended"}]
    BY <1>4 DEF Types
  <2>4. /\ clients' \subseteq Peers /\ emitted' \in Nat
        /\ UNCHANGED <<active, session, sent, joined>>
    BY <1>1, <1>2 DEF Types
  <2> QED
    BY <2>1, <2>2, <2>3, <2>4 DEF Types
<1>7. Joins' /\ OneSession' /\ OpenForClients'
  BY <1>1, <1>2 DEF Joins, OneSession, OpenForClients, Types
<1>8. Untouched'
  BY <1>1, <1>2, <1>3, <1>4 DEF Untouched, Types
<1>9. Signalled'
  BY <1>1, <1>3 DEF Signalled, Types
<1>10. ClosedEmpty'
  BY <1>1, <1>2, <1>3 DEF ClosedEmpty, Types
<1>11. NoGap'
  <2> SUFFICES ASSUME NEW p \in clients'
               PROVE  sent'[p] \o pending'[p] = Run(joined'[p][1], joined'[p][2], emitted')
    BY DEF NoGap
  <2>1. /\ p \in clients /\ p \in takers /\ p \in Peers
        /\ sent'[p] = sent[p] /\ pending'[p] = Append(pending[p], chunk)
        /\ joined'[p] = joined[p] /\ joined[p][1] = session
        /\ joined[p][2] \in Nat /\ joined[p][2] <= emitted + 1
        /\ session \in Nat /\ emitted \in Nat
    BY <1>1, <1>2, <1>3 DEF OneSession, Joins, Types
  <2>2. sent[p] \o Append(pending[p], chunk) = Append(sent[p] \o pending[p], chunk)
    BY <1>5, <2>1, QueueLast DEF Types
  <2>3. sent[p] \o pending[p] = Run(session, joined[p][2], emitted)
    BY <2>1 DEF NoGap
  <2>4. Run(session, joined[p][2], emitted + 1) = Append(Run(session, joined[p][2], emitted), chunk)
    BY <2>1, RunExtends
  <2> QED
    BY <1>1, <2>1, <2>2, <2>3, <2>4
<1> QED
  BY <1>6, <1>7, <1>8, <1>9, <1>10, <1>11

LEMMA AcceptCInv == ASSUME CInv, NEW p \in Peers, Accept(p) PROVE CInv'
<1> USE DEF CInv
<1>1. /\ serve[p] = "none" /\ p \notin clients /\ sent[p] = <<>> /\ pending[p] = <<>>
      /\ UNCHANGED <<source, active, session, emitted, available, pending, sent>>
  BY DEF Accept, upstream, queues, Untouched
<1>2. CASE Admits
  <2>1. /\ active /\ ~closed[p] /\ closed' = closed /\ clients' = clients \cup {p}
        /\ serve' = [serve EXCEPT ![p] = "created"]
        /\ joined' = [joined EXCEPT ![p] = <<session, emitted + 1>>]
    BY <1>2 DEF Accept, Admits
  <2>2. Types'
    BY <1>1, <2>1 DEF Types
  <2>3. Joins' /\ OneSession' /\ OpenForClients'
    BY <1>1, <2>1 DEF Joins, OneSession, OpenForClients, Types
  <2>4. Untouched' /\ Signalled' /\ ClosedEmpty'
    BY <1>1, <2>1 DEF Untouched, Signalled, ClosedEmpty, Types
  <2>5. NoGap'
    <3> SUFFICES ASSUME NEW q \in clients'
                 PROVE  sent'[q] \o pending'[q] = Run(joined'[q][1], joined'[q][2], emitted')
      BY DEF NoGap
    <3>1. CASE q # p
      BY <3>1, <1>1, <2>1 DEF NoGap, Types
    <3>2. CASE q = p
      <4>1. joined'[p][1] = session /\ joined'[p][2] = emitted + 1
        BY <2>1 DEF Types
      <4>2. sent'[p] \o pending'[p] = <<>>
        BY <1>1, ConcatEmptySeq, EmptySeq
      <4> QED
        BY <1>1, <3>2, <4>1, <4>2, RunEmpty DEF Types
    <3> QED
      BY <3>1, <3>2
  <2> QED
    BY <2>2, <2>3, <2>4, <2>5
<1>3. CASE ~Admits
  <2>1. closed' = [closed EXCEPT ![p] = TRUE] /\ UNCHANGED <<clients, serve, joined>>
    BY <1>3 DEF Accept
  <2> QED
    BY <1>1, <2>1 DEF Types, Joins, OneSession, OpenForClients, Untouched, Signalled, ClosedEmpty, NoGap
<1> QED
  BY <1>2, <1>3

LEMMA SendCInv == ASSUME CInv, NEW p \in Peers, Send(p) PROVE CInv'
<1> USE DEF CInv
<1>1. UNCHANGED <<source, active, session, emitted, clients, serve, closed, joined>>
  BY DEF Send, upstream
<1>2. CASE pending[p] = <<>>
  BY <1>1, <1>2 DEF Send, queues, Types, Joins, OneSession, OpenForClients, Untouched, Signalled,
                    ClosedEmpty, NoGap
<1>3. CASE pending[p] # <<>>
  <2>1. /\ pending' = [pending EXCEPT ![p] = Tail(pending[p])]
        /\ available' = [available EXCEPT ![p] = Len(pending[p]) > 1]
        /\ sent' = [sent EXCEPT ![p] = Append(sent[p], Head(pending[p]))]
    BY <1>3 DEF Send, MoreLeft
  <2>2. /\ Tail(pending[p]) \in Seq(Chunk) /\ Head(pending[p]) \in Chunk
        /\ Append(sent[p], Head(pending[p])) \in Seq(Chunk)
        /\ Tail(pending[p]) # <<>> => Len(pending[p]) > 1
    BY <1>3 DEF Types
  <2>3. Types'
    BY <1>1, <2>1, <2>2 DEF Types
  <2>4. Joins' /\ OneSession' /\ OpenForClients' /\ Untouched' /\ ClosedEmpty'
    BY <1>1, <1>3, <2>1 DEF Joins, OneSession, OpenForClients, Untouched, ClosedEmpty, Types
  <2>5. Signalled'
    BY <2>1, <2>2 DEF Signalled, Types
  <2>6. NoGap'
    <3>1. Append(sent[p], Head(pending[p])) \o Tail(pending[p]) = sent[p] \o pending[p]
      BY <1>3, MoveHead DEF Types
    <3> QED
      BY <1>1, <2>1, <3>1 DEF NoGap, Types
  <2> QED
    BY <2>3, <2>4, <2>5, <2>6
<1> QED
  BY <1>2, <1>3

LEMMA LeaveCInv == ASSUME CInv, NEW p \in Peers, Leave(p) PROVE CInv'
<1>1. /\ Disconnect({p}) /\ serve' = [serve EXCEPT ![p] = "ended"]
      /\ UNCHANGED <<source, active, session, emitted, available, sent, joined>>
  BY DEF Leave, upstream
<1>2. /\ serve' \in [Peers -> {"none", "created", "waiting", "cancelled", "ended"}]
      /\ \A q \in Peers : serve'[q] = "none" => serve[q] = "none"
      /\ active' \in BOOLEAN
  BY <1>1 DEF CInv, Types
<1> QED
  BY <1>1, <1>2, DisconnectCInv

LEMMA PeerCInv == ASSUME CInv, NEW p \in Peers, Peer(p) PROVE CInv'
<1>1. CASE Serve(p)
  <2>1. /\ serve' = [serve EXCEPT ![p] = "waiting"] /\ serve[p] = "created"
        /\ UNCHANGED <<source, active, session, emitted, clients, closed, pending, available,
                       sent, joined>>
    BY <1>1 DEF Serve, upstream, queues
  <2> QED
    BY <2>1 DEF CInv, Types, Joins, OneSession, OpenForClients, Untouched, Signalled, ClosedEmpty, NoGap
<1>2. CASE Drained(p) \/ DrainFails(p) \/ PeerCloses(p)
  <2>1. UNCHANGED <<source, active, session, emitted, clients, serve, closed, pending, available,
                    sent, joined>>
    BY <1>2 DEF Drained, DrainFails, PeerCloses, upstream, queues
  <2> QED
    BY <2>1 DEF CInv, Types, Joins, OneSession, OpenForClients, Untouched, Signalled, ClosedEmpty, NoGap
<1> QED
  BY <1>1, <1>2, AcceptCInv, SendCInv, LeaveCInv DEF Peer

LEMMA NextCInv == CInv /\ [Next]_vars => CInv'
<1> SUFFICES ASSUME CInv, [Next]_vars PROVE CInv'
  OBVIOUS
<1>1. CASE OpenSource \/ Broadcast
  BY <1>1, OpenCInv, BroadcastCInv
<1>2. CASE LoseSource \/ SourceFails \/ Stop \/ SourceStops
  <2>1. DisconnectAll /\ UNCHANGED <<session, emitted, available, sent, joined>>
    BY <1>2 DEF LoseSource, LoseAll, SourceFails, Stop, SourceStops
  <2> QED
    BY <2>1, DisconnectAllCInv
<1>3. CASE \E p \in Peers : Peer(p)
  BY <1>3, PeerCInv
<1>4. CASE Stopped \/ UNCHANGED vars
  <2>1. UNCHANGED <<source, active, session, emitted, clients, serve, closed, pending, available,
                    sent, joined>>
    BY <1>4 DEF Stopped, vars, upstream, queues
  <2> QED
    BY <2>1 DEF CInv, Types, Joins, OneSession, OpenForClients, Untouched, Signalled, ClosedEmpty, NoGap
<1> QED
  BY <1>1, <1>2, <1>3, <1>4 DEF Next

LEMMA Inductive == Spec => []CInv
BY InitCInv, NextCInv, PTL DEF Spec

(***************************************************************************)
(* The theorems.                                                           *)
(***************************************************************************)
\* What a surviving subscriber was sent and what is queued for it are the
\* source's output since it joined (Caster.broadcast, Client.send), for any number
\* of subscribers and sessions and any buffer.
THEOREM NothingSkipped == Spec => []NoGap
<1>1. CInv => NoGap
  BY DEF CInv
<1> QED
  BY <1>1, Inductive, PTL

\* Every subscriber belongs to the source connection that is open now
\* (follow_source, Caster.accept).
THEOREM NeverJoined == Spec => []OneSession
<1>1. CInv => OneSession
  BY DEF CInv
<1> QED
  BY <1>1, Inductive, PTL

\* A sender never waits for an event that has been consumed while its queue holds
\* a chunk (Client.send, Client.enqueue).
THEOREM NeverStranded == Spec => []NoLostWakeup
<1>1. CInv => NoLostWakeup
  BY DEF CInv, Signalled, NoLostWakeup
<1> QED
  BY <1>1, Inductive, PTL

\* Nothing is written to a subscriber after disconnect(), by any interleaving of
\* its sender with the task that disconnects it.
THEOREM Silenced == Spec => SilentAfterClose
<1>1. CInv /\ [Next]_vars => [\A p \in Peers : closed[p] => sent'[p] = sent[p]]_vars
  <2> SUFFICES ASSUME CInv, Next
               PROVE  \A p \in Peers : closed[p] => sent'[p] = sent[p]
    OBVIOUS
  <2>1. CASE \E q \in Peers : Send(q)
    <3> PICK q \in Peers : Send(q)
      BY <2>1
    <3>1. CASE pending[q] = <<>>
      BY <3>1 DEF Send
    <3>2. CASE pending[q] # <<>>
      BY <3>2 DEF Send, CInv, ClosedEmpty, Types
    <3> QED
      BY <3>1, <3>2
  <2>2. CASE sent' = sent
    BY <2>2
  <2>3. (\E q \in Peers : Send(q)) \/ sent' = sent
    BY DEF Next, OpenSource, Broadcast, LoseSource, SourceFails, Peer, Accept, Serve, Drained,
           DrainFails, PeerCloses, Leave, Stop, SourceStops, Stopped, vars
  <2> QED
    BY <2>1, <2>2, <2>3
<1> QED
  BY <1>1, Inductive, PTL DEF Spec, SilentAfterClose
=============================================================================
