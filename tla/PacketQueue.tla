---------------------------- MODULE PacketQueue -----------------------------
(***************************************************************************)
(* The queue on the way into the tunnel, src/queue.rs, between the thread  *)
(* that reads the adapter (src/main.rs) and the outward half of the pump   *)
(* (src/engine.rs), which comes and goes with the tunnels.                 *)
(*                                                                         *)
(* A push, and the filling of a batch, hold the lock from their first step *)
(* to their last; each turn of their loops is a step.                      *)
(*                                                                         *)
(* CoDel's clock is left out: whether a head has been overdue, and how     *)
(* many go before one is delivered, is any choice codel() could make of    *)
(* the bytes behind them.  So is the age of what waited out a gap between  *)
(* tunnels: any heads of the buckets may be stale.  A mark stays in the    *)
(* packet it is put in, and the counters are only read for the journal.    *)
(***************************************************************************)
EXTENDS Integers, SequencesExt

CONSTANTS
    Buckets,        \* FLOWS
    Connections,
    BucketOf,       \* flow_of: the bucket of each connection
    Packets,        \* what the adapter can hand over
    AckMod,         \* acknowledgement numbers wrap here
    NoAck,          \* stands in a packet that is not a pure acknowledgement
    Quantum,        \* QUANTUM
    Limit,          \* LIMIT_BYTES
    Batch           \* BATCH, of engine.rs

Packet == [conn : Connections, bytes : Nat \ {0}, ack : 0 .. AckMod - 1, ect : BOOLEAN]
    \cup [conn : Connections, bytes : Nat \ {0}, ack : {NoAck}, ect : BOOLEAN]

ASSUME QueueAssumption ==
    /\ Buckets \subseteq Nat /\ IsFiniteSet(Buckets)
    /\ BucketOf \in [Connections -> Buckets]
    /\ Packets \subseteq Packet /\ Packets # {}
    /\ AckMod \in Nat \ {0} /\ NoAck \notin Nat
    /\ Quantum \in Nat \ {0} /\ Limit \in Nat /\ Batch \in Nat \ {0}
    /\ \A p \in Packets : p.bytes <= Limit

VARIABLES
    packets,        \* the packets of each bucket
    bytes,          \* and their bytes, as counted
    deficit,        \* its credit
    listed,         \* the buckets on one of the two lists
    fresh,
    backlogged,
    total,          \* Inner.bytes
    count,          \* Inner.packets
    closed

innerVars == <<packets, bytes, deficit, listed, fresh, backlogged, total, count, closed>>

VARIABLES
    producer,       \* where the reading thread is
    arriving,       \* the packets it is pushing: none or one
    consumer,       \* where the pump's outward half is
    out,            \* how many packets its batch holds
    permit          \* what Notify has stored

taskVars == <<producer, arriving, consumer, out, permit>>
vars == <<innerVars, taskVars>>

Locked == producer = "pushing" \/ consumer = "taking"

QueueInit ==
    /\ packets = [b \in Buckets |-> <<>>]
    /\ bytes = [b \in Buckets |-> 0]
    /\ deficit = [b \in Buckets |-> 0]
    /\ listed = {} /\ fresh = <<>> /\ backlogged = <<>>
    /\ total = 0 /\ count = 0 /\ closed = FALSE
    /\ producer = "reading" /\ arriving = <<>>
    /\ consumer = "away" /\ out = 0 /\ permit = FALSE

SumOf(held) == SumFunction([i \in DOMAIN held |-> held[i].bytes])

-----------------------------------------------------------------------------
(* The reading thread.                                                     *)

\* push takes the lock.  Only this thread closes the queue, after its last
\* push, so no push finds it closed.
Push(p) ==
    /\ producer = "reading" /\ ~Locked
    /\ producer' = "pushing" /\ arriving' = <<p>>
    /\ UNCHANGED <<innerVars, consumer, out, permit>>

NoRoom == total + Head(arriving).bytes > Limit

\* max_by_key takes the last of several.
Fattest ==
    CHOOSE b \in Buckets : \A c \in Buckets :
        bytes[b] > bytes[c] \/ (bytes[b] = bytes[c] /\ b >= c)

\* drop_fattest, as long as there is no room and something to take.  Were bytes
\* counted where no packet is, it would come back for ever and take nothing.
DropFattest ==
    /\ producer = "pushing" /\ NoRoom /\ bytes[Fattest] > 0
    /\ packets[Fattest] # <<>>
    /\ LET b == Fattest IN
        /\ packets' = [packets EXCEPT ![b] = Tail(@)]
        /\ bytes' = [bytes EXCEPT ![b] = @ - Head(packets[b]).bytes]
        /\ total' = total - Head(packets[b]).bytes
    /\ count' = count - 1
    /\ UNCHANGED <<deficit, listed, fresh, backlogged, closed, taskVars>>

\* Mutant: numbers are compared as if they did not wrap.
AheadUnwrapped(acked, older) == acked > older

\* Whether an acknowledgement is ahead of another: the sign of their wrapping
\* difference.
Ahead(acked, older) ==
    LET d == (acked - older) % AckMod IN 0 < d /\ d < AckMod \div 2

MadeRedundant(held, p) ==
    {i \in DOMAIN held : /\ p.ack # NoAck /\ held[i].ack # NoAck
                         /\ Ahead(p.ack, held[i].ack) /\ held[i].conn = p.conn}

\* thin_acks: of those made redundant, all but the newest go.
Gone(held, p) ==
    LET old == MadeRedundant(held, p) IN {i \in old : \E j \in old : i < j}

\* The place of a set of places that has i of them up to itself.
Nth(at, i) == CHOOSE j \in at : Cardinality({k \in at : k <= j}) = i

KeepOnly(held, at) == [i \in 1 .. Cardinality(at) |-> held[Nth(at, i)]]

Thin(held, p) == KeepOnly(held, DOMAIN held \ Gone(held, p))

OnAList(b) == b \in listed

\* The rest of enqueue: thin, file, and list a bucket that was not.
Admit ==
    /\ producer = "pushing"
    /\ NoRoom => bytes[Fattest] = 0
    /\ LET p == Head(arriving)
           b == BucketOf[p.conn]
           thinned == SumFunctionOnSet([i \in DOMAIN packets[b] |-> packets[b][i].bytes],
                                       Gone(packets[b], p))
       IN  /\ packets' = [packets EXCEPT ![b] = Append(Thin(@, p), p)]
           /\ bytes' = [bytes EXCEPT ![b] = @ - thinned + p.bytes]
           /\ total' = total - thinned + p.bytes
           /\ count' = count - Cardinality(Gone(packets[b], p)) + 1
           /\ listed' = listed \cup {b}
           /\ IF OnAList(b) THEN UNCHANGED <<deficit, fresh>>
              ELSE /\ deficit' = [deficit EXCEPT ![b] = Quantum]
                   /\ fresh' = Append(fresh, b)
    /\ producer' = "notifying" /\ arriving' = <<>>
    /\ UNCHANGED <<backlogged, closed, consumer, out, permit>>

\* Mutant: whoever is waiting now is woken, and nobody else.
NotifyWaiting ==
    /\ producer = "notifying"
    /\ permit' = (permit \/ consumer = "waiting")
    /\ producer' = "reading"
    /\ UNCHANGED <<innerVars, arriving, consumer, out>>

\* Once the lock is released: a waiting consumer is woken, or the next to wait.
Notify ==
    /\ producer = "notifying"
    /\ permit' = TRUE
    /\ producer' = "reading"
    /\ UNCHANGED <<innerVars, arriving, consumer, out>>

\* The adapter has ended: the queue is closed, and the consumer told so.
Close ==
    /\ producer = "reading" /\ ~Locked
    /\ closed' = TRUE
    /\ producer' = "closing"
    /\ UNCHANGED <<packets, bytes, deficit, listed, fresh, backlogged, total, count,
                   arriving, consumer, out, permit>>

NotifyClosed ==
    /\ producer = "closing"
    /\ permit' = TRUE
    /\ producer' = "gone"
    /\ UNCHANGED <<innerVars, arriving, consumer, out>>

-----------------------------------------------------------------------------
(* The pump.                                                               *)

\* A tunnel is up: drop_stale takes heads of the buckets, and the pump starts.
Arrive(stale) ==
    /\ consumer = "away" /\ ~Locked
    /\ LET old == [b \in Buckets |-> SumOf(SubSeq(packets[b], 1, stale[b]))] IN
        /\ packets' = [b \in Buckets |-> SubSeq(packets[b], stale[b] + 1, Len(packets[b]))]
        /\ bytes' = [b \in Buckets |-> bytes[b] - old[b]]
        /\ total' = total - SumFunction(old)
        /\ count' = count - SumFunction(stale)
    /\ consumer' = "popping"
    /\ UNCHANGED <<deficit, listed, fresh, backlogged, closed, producer, arriving, out, permit>>

\* Dropped where it waits, for a packet or for the transport: what of its batch
\* is not sent is lost.
Leave ==
    /\ consumer \in {"waiting", "sending", "told"}
    /\ consumer' = "away" /\ out' = 0
    /\ UNCHANGED <<innerVars, producer, arriving, permit>>

Lock ==
    /\ consumer = "popping" /\ ~Locked
    /\ consumer' = "taking"
    /\ UNCHANGED <<innerVars, producer, arriving, out, permit>>

\* dequeue looks at the first fresh bucket, and only then at the backlogged.
Queue == fresh \o backlogged
Turn == Head(Queue)

Looks == consumer = "taking" /\ out < Batch /\ Queue # <<>>

\* The lists without the bucket whose turn it is.
OtherFresh == IF fresh # <<>> THEN Tail(fresh) ELSE fresh
OtherBacklogged == IF fresh # <<>> THEN backlogged ELSE Tail(backlogged)

\* Mutants: a bucket keeps its place on either list, or on the second.
RotateNowhere ==
    /\ Looks /\ deficit[Turn] <= 0
    /\ deficit' = [deficit EXCEPT ![Turn] = @ + Quantum]
    /\ UNCHANGED <<packets, bytes, listed, fresh, backlogged, total, count, closed, taskVars>>

RotateInPlace ==
    /\ Looks /\ deficit[Turn] <= 0
    /\ deficit' = [deficit EXCEPT ![Turn] = @ + Quantum]
    /\ fresh' = OtherFresh
    /\ backlogged' = IF fresh # <<>> THEN Append(backlogged, Turn) ELSE backlogged
    /\ UNCHANGED <<packets, bytes, listed, total, count, closed, taskVars>>

\* Its credit is spent: more of it, and to the back of the backlogged.
Rotate ==
    /\ Looks /\ deficit[Turn] <= 0
    /\ deficit' = [deficit EXCEPT ![Turn] = @ + Quantum]
    /\ fresh' = OtherFresh /\ backlogged' = Append(OtherBacklogged, Turn)
    /\ UNCHANGED <<packets, bytes, listed, total, count, closed, taskVars>>

\* take: standing is more than a quantum behind the packet taken.
Standing(held, i) == SumOf(SubSeq(held, i + 1, Len(held))) > Quantum

\* codel: n heads carry the signal away by not being delivered, each from a
\* sender that cannot be told otherwise, with standing delay behind it.
MayDrop(held, n) == n < Len(held) /\ \A i \in 1 .. n : ~held[i].ect /\ Standing(held, i)

\* Mutant: the bytes of what was dropped stay in the counts.
LastTaken(b, n) == packets[b][n + 1].bytes

Taken(b, n) == SumOf(SubSeq(packets[b], 1, n + 1))

\* What is left of a bucket's credit: only what is delivered is charged.
CreditAfter(b, p) == deficit[b] - p.bytes

Serve(n) ==
    /\ Looks /\ deficit[Turn] > 0 /\ MayDrop(packets[Turn], n)
    /\ packets' = [packets EXCEPT ![Turn] = SubSeq(@, n + 2, Len(@))]
    /\ bytes' = [bytes EXCEPT ![Turn] = @ - Taken(Turn, n)]
    /\ total' = total - Taken(Turn, n)
    /\ count' = count - (n + 1)
    /\ deficit' = [deficit EXCEPT ![Turn] = CreditAfter(Turn, packets[Turn][n + 1])]
    /\ out' = out + 1
    /\ UNCHANGED <<listed, fresh, backlogged, closed, producer, arriving, consumer, permit>>

\* Nothing in it: unlisted, so that its next packet makes it fresh.
RunDry ==
    /\ Looks /\ deficit[Turn] > 0 /\ packets[Turn] = <<>>
    /\ fresh' = OtherFresh /\ backlogged' = OtherBacklogged
    /\ listed' = listed \ {Turn}
    /\ UNCHANGED <<packets, bytes, deficit, total, count, closed, taskVars>>

Filled == consumer = "taking" /\ (out = Batch \/ Queue = <<>>)

\* The end of pop_batch's turn: packets to send, ...
Hand ==
    /\ Filled /\ out > 0
    /\ consumer' = "sending"
    /\ UNCHANGED <<innerVars, producer, arriving, out, permit>>

\* ... the news that no more will come, ...
Finish ==
    /\ Filled /\ out = 0 /\ closed
    /\ consumer' = "told"
    /\ UNCHANGED <<innerVars, producer, arriving, out, permit>>

\* ... or nothing yet: the lock is released, and only then is it waited.
Wait ==
    /\ Filled /\ out = 0 /\ ~closed
    /\ consumer' = "unlocked"
    /\ UNCHANGED <<innerVars, producer, arriving, out, permit>>

Await ==
    /\ consumer = "unlocked"
    /\ consumer' = "waiting"
    /\ UNCHANGED <<innerVars, producer, arriving, out, permit>>

Wake ==
    /\ consumer = "waiting" /\ permit
    /\ consumer' = "popping" /\ permit' = FALSE
    /\ UNCHANGED <<innerVars, producer, arriving, out>>

Sent ==
    /\ consumer = "sending"
    /\ consumer' = "popping" /\ out' = 0
    /\ UNCHANGED <<innerVars, producer, arriving, permit>>

-----------------------------------------------------------------------------
Producing == DropFattest \/ Admit \/ Notify \/ NotifyClosed

Dequeue == Rotate \/ RunDry \/ \E n \in 0 .. count : Serve(n)

Consuming == Lock \/ Dequeue \/ Hand \/ Finish \/ Wait \/ Await \/ Wake \/ Sent

Stale == {s \in [Buckets -> 0 .. count] : \A b \in Buckets : s[b] <= Len(packets[b])}

Next ==
    \/ \E p \in Packets : Push(p)
    \/ Close \/ Producing
    \/ \E s \in Stale : Arrive(s)
    \/ Leave \/ Consuming

\* The thread runs, the pump is polled, the lock is fair enough, and a transport
\* that does not take a batch ends its tunnel.  No packet need ever arrive, nor
\* a tunnel.
Fairness == WF_vars(Producing) /\ SF_vars(Lock) /\ WF_vars(Consuming)

Spec == QueueInit /\ [][Next]_vars

FairSpec == Spec /\ Fairness

-----------------------------------------------------------------------------
Largest == Max({p.bytes : p \in Packets})

\* Every variable holds what the code could hold there: a credit is never more
\* than one quantum, nor overdrawn by more than the packet that spent it.
QueueTypeOK ==
    /\ packets \in [Buckets -> Seq(Packets)]
    /\ bytes \in [Buckets -> Nat] /\ total \in Nat /\ count \in Nat
    /\ deficit \in [Buckets -> 1 - Largest .. Quantum]
    /\ listed \subseteq Buckets
    /\ fresh \in Seq(Buckets) /\ backlogged \in Seq(Buckets)
    /\ closed \in BOOLEAN /\ permit \in BOOLEAN
    /\ producer \in {"reading", "pushing", "notifying", "closing", "gone"}
    /\ arriving \in Seq(Packets) /\ Len(arriving) = IF producer = "pushing" THEN 1 ELSE 0
    /\ consumer \in {"away", "popping", "taking", "unlocked", "waiting", "sending",
                    "told"}
    /\ out \in 0 .. Batch

\* queue.rs:286-404, 455-458: whatever is admitted, thinned, dropped for room, as
\* stale or by CoDel, and delivered, the counts are those of what is held, and
\* what is held is within the limit.
CountsAreExact ==
    /\ \A b \in Buckets : bytes[b] = SumOf(packets[b])
    /\ total = SumFunction(bytes)
    /\ count = SumFunction([b \in Buckets |-> Len(packets[b])])
    /\ total <= Limit

\* queue.rs:210, 235-239: the consumer does not sleep over what it ought to see,
\* a packet or the end, unless the thread that brought it is about to say so.
NoLostWakeUp ==
    consumer = "waiting" /\ ((\E b \in Buckets : packets[b] # <<>>) \/ closed)
        => permit \/ producer \in {"notifying", "closing"}

\* What an acknowledgement makes redundant: one of the same connection that it
\* is less than half the numbers ahead of.
Covers(new, p) ==
    /\ new.ack # NoAck /\ p.ack # NoAck /\ p.conn = new.conn
    /\ \E n \in 1 .. (AckMod \div 2) - 1 : new.ack = (p.ack + n) % AckMod

\* queue.rs:309-322: a packet that goes on account of one that arrives, other than
\* to make room, is covered by it and by one more that stays: two acknowledgements
\* are always in flight.  What stays keeps its order.
ThinnedIsCovered ==
    [][producer = "pushing" /\ producer' # "pushing" =>
        LET new == Head(arriving)
            held == packets[BucketOf[new.conn]]
        IN \E kept \in SUBSET DOMAIN held :
            /\ packets'[BucketOf[new.conn]] = Append(KeepOnly(held, kept), new)
            /\ \A i \in DOMAIN held \ kept :
                Covers(new, held[i]) /\ \E j \in kept : i < j /\ Covers(new, held[j])]_vars

Serves(b) == consumer = "taking" /\ Len(packets'[b]) < Len(packets[b])

\* queue.rs:16-20, 411-426: a bucket with packets is served again and again, as
\* long as the pump stays and no bucket keeps being listed anew.
RoundRobin ==
    \A b \in Buckets : <>[](packets[b] # <<>> /\ consumer # "away") =>
        []<><<Serves(b)>>_vars \/ []<><<listed' \ listed # {}>>_vars

=============================================================================
