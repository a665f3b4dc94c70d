------------------------- MODULE PacketQueue_proofs -------------------------
(***************************************************************************)
(* Proofs about the packet queue, for every finite set of buckets, every   *)
(* set of connections and packets, every limit and batch: that its three   *)
(* counts are exact, that the pump does not sleep over a packet, that an   *)
(* acknowledgement is thinned only on account of one that covers it, and   *)
(* that of two backlogs neither gets ahead by more than makes good what    *)
(* the other overdrew and a packet.                                        *)
(***************************************************************************)
EXTENDS MCPacketQueue, SequenceTheorems, FiniteSetTheorems, WellFoundedInduction, TLAPS

-----------------------------------------------------------------------------
(* What the lists hold.                                                    *)

ListsTypeOK ==
    /\ packets = [b \in Buckets |-> packets[b]]
    /\ listed \subseteq Buckets
    /\ fresh \in Seq(Buckets) /\ backlogged \in Seq(Buckets)

\* queue.rs:295-299, 427-455: a bucket with a packet is listed, and a listed bucket
\* is on one of the two lists: the consumer that found both empty saw every packet.
PacketsAreListed == \A b \in Buckets : packets[b] # <<>> => b \in listed

IsOn(list, b) == \E i \in DOMAIN list : list[i] = b

ListedIsQueued == \A b \in listed : IsOn(fresh, b) \/ IsOn(backlogged, b)

\* The consumer that found nothing has not yet begun to wait, or waits.
Idle == consumer \in {"unlocked", "waiting"}

Held == \E b \in Buckets : packets[b] # <<>>

ToldOrAboutToBe == permit \/ producer \in {"notifying", "closing"}

IdleIsTold == Idle /\ (Held \/ closed) => ToldOrAboutToBe

ArrivingOK == producer = "pushing" => Head(arriving) \in Packets

IInv == ArrivingOK /\ ListsTypeOK /\ PacketsAreListed /\ ListedIsQueued /\ IdleIsTold

-----------------------------------------------------------------------------
LEMMA AtTheHead ==
    ASSUME NEW S, NEW s \in Seq(S), s # <<>>
    PROVE  /\ Head(s) \in S /\ Tail(s) \in Seq(S)
           /\ \A x : IsOn(s, x) => x = Head(s) \/ IsOn(Tail(s), x)
<1>1. /\ Head(s) \in S /\ Tail(s) \in Seq(S) /\ Head(s) = s[1] /\ Len(s) \in Nat
      /\ Len(Tail(s)) = Len(s) - 1 /\ \A i \in 1 .. Len(Tail(s)) : Tail(s)[i] = s[i + 1]
      /\ DOMAIN s = 1 .. Len(s) /\ DOMAIN Tail(s) = 1 .. Len(Tail(s))
    BY HeadTailProperties, LenProperties
<1>2. ASSUME NEW i \in DOMAIN s, s[i] # Head(s)
      PROVE  IsOn(Tail(s), s[i])
    <2>1. i - 1 \in DOMAIN Tail(s) /\ Tail(s)[i - 1] = s[i] BY <1>1, <1>2
    <2>. QED BY <2>1 DEF IsOn
<1>. QED BY <1>1, <1>2 DEF IsOn

LEMMA AtTheBack ==
    ASSUME NEW S, NEW s \in Seq(S), NEW x \in S
    PROVE  /\ Append(s, x) \in Seq(S)
           /\ IsOn(Append(s, x), x)
           /\ \A y : IsOn(s, y) => IsOn(Append(s, x), y)
<1>1. /\ Append(s, x) \in Seq(S) /\ Len(s) \in Nat /\ DOMAIN s = 1 .. Len(s)
      /\ DOMAIN Append(s, x) = 1 .. Len(s) + 1 /\ Append(s, x)[Len(s) + 1] = x
      /\ \A i \in 1 .. Len(s) : Append(s, x)[i] = s[i]
    BY AppendProperties, LenProperties
<1>2. Len(s) + 1 \in DOMAIN Append(s, x) /\ DOMAIN s \subseteq DOMAIN Append(s, x) BY <1>1
<1>. QED BY <1>1, <1>2 DEF IsOn

LEMMA NothingOnEmpty == \A x : ~IsOn(<< >>, x)
BY DEF IsOn

LEMMA TailPlaces ==
    ASSUME NEW S, NEW s \in Seq(S), s # << >>
    PROVE  /\ Len(s) \in Nat \ {0} /\ DOMAIN s = 1 .. Len(s) /\ Head(s) = s[1]
           /\ DOMAIN Tail(s) = 1 .. Len(s) - 1
           /\ \A i \in 1 .. Len(s) - 1 : Tail(s)[i] = s[i + 1]
BY HeadTailProperties, LenProperties

LEMMA AppendPlaces ==
    ASSUME NEW S, NEW s \in Seq(S), NEW x \in S
    PROVE  /\ Len(s) \in Nat /\ DOMAIN s = 1 .. Len(s)
           /\ DOMAIN Append(s, x) = 1 .. Len(s) + 1 /\ Append(s, x)[Len(s) + 1] = x
           /\ \A i \in 1 .. Len(s) : Append(s, x)[i] = s[i]
BY AppendProperties, LenProperties

LEMMA ShorterStays ==
    ASSUME NEW s, NEW n \in Nat, n <= Len(s), SubSeq(s, n + 1, Len(s)) # << >>
    PROVE  s # << >>
<1>1. s = << >> => n = 0 /\ SubSeq(s, 1, 0) = << >> OBVIOUS
<1>. QED BY <1>1

\* The bucket whose turn it is stands at the head of one list, and the rest of
\* both is what OtherFresh and OtherBacklogged say.
LEMMA TurnIsAHead ==
    ASSUME ListsTypeOK, Queue # << >>
    PROVE  /\ Turn \in Buckets
           /\ OtherFresh \in Seq(Buckets) /\ OtherBacklogged \in Seq(Buckets)
           /\ \A b : IsOn(fresh, b) \/ IsOn(backlogged, b)
                => b = Turn \/ IsOn(OtherFresh, b) \/ IsOn(OtherBacklogged, b)
<1>. fresh \in Seq(Buckets) /\ backlogged \in Seq(Buckets) BY DEF ListsTypeOK
<1>1. CASE fresh # << >>
    <2>1. Turn = Head(fresh) BY <1>1, HeadTailProperties, ConcatProperties DEF Turn, Queue
    <2>. QED BY <1>1, <2>1, AtTheHead DEF OtherFresh, OtherBacklogged
<1>2. CASE fresh = << >>
    <2>1. Queue = backlogged BY <1>2, ConcatProperties, ConcatEmptySeq DEF Queue
    <2>. QED BY <1>2, <2>1, AtTheHead, NothingOnEmpty DEF Turn, OtherFresh, OtherBacklogged
<1>. QED BY <1>1, <1>2

LEMMA NobodyQueued ==
    ASSUME ListsTypeOK, PacketsAreListed, ListedIsQueued, Queue = << >>
    PROVE  ~Held
<1>. fresh \in Seq(Buckets) /\ backlogged \in Seq(Buckets) BY DEF ListsTypeOK
<1>1. Len(fresh) \in Nat /\ Len(backlogged) \in Nat /\ Len(fresh) + Len(backlogged) = 0
    BY ConcatProperties, EmptySeq, LenProperties DEF Queue
<1>2. fresh = << >> /\ backlogged = << >> BY <1>1, EmptySeq
<1>. QED BY <1>2, NothingOnEmpty DEF PacketsAreListed, ListedIsQueued, Held

-----------------------------------------------------------------------------
(* One step: what it does to the lists, and to what the consumer is told.  *)

\* What every step but those that list a bucket or move one along its lists keeps.
LEMMA ListsKept ==
    ASSUME ListsTypeOK, PacketsAreListed, ListedIsQueued,
           UNCHANGED <<listed, fresh, backlogged>>,
           packets' = [b \in Buckets |-> packets'[b]],
           \A b \in Buckets : packets'[b] # << >> => packets[b] # << >>
    PROVE  ListsTypeOK' /\ PacketsAreListed' /\ ListedIsQueued'
BY DEF ListsTypeOK, PacketsAreListed, ListedIsQueued, IsOn

LEMMA ListsStay ==
    ASSUME ListsTypeOK, PacketsAreListed, ListedIsQueued, UNCHANGED innerVars
    PROVE  ListsTypeOK' /\ PacketsAreListed' /\ ListedIsQueued'
BY DEF ListsTypeOK, PacketsAreListed, ListedIsQueued, IsOn, innerVars

LEMMA AdmitLists ==
    ASSUME IInv, Admit
    PROVE  ListsTypeOK' /\ PacketsAreListed' /\ ListedIsQueued'
<1>. DEFINE b == BucketOf[Head(arriving).conn]
<1>1. b \in Buckets BY QueueAssumption DEF QueueAssumption, IInv, ArrivingOK, Admit, Packet
<1>2. /\ \E line : packets' = [packets EXCEPT ![b] = line]
      /\ listed' = listed \cup {b} /\ backlogged' = backlogged
      /\ b \notin listed => fresh' = Append(fresh, b)
      /\ b \in listed => fresh' = fresh
    BY DEF Admit, OnAList
<1>. HIDE DEF b
<1>3. packets' = [c \in Buckets |-> packets'[c]]
    BY <1>1, <1>2 DEF IInv, ListsTypeOK
<1>4. \A c \in Buckets : packets'[c] # << >> => packets[c] # << >> \/ c = b
    BY <1>1, <1>2 DEF IInv, ListsTypeOK
<1>5. fresh' \in Seq(Buckets) /\ \A c \in listed' : IsOn(fresh', c) \/ IsOn(backlogged', c)
    <2>1. CASE b \in listed BY <1>2, <2>1 DEF IInv, ListsTypeOK, ListedIsQueued
    <2>2. CASE b \notin listed
        <3>1. /\ Append(fresh, b) \in Seq(Buckets) /\ IsOn(Append(fresh, b), b)
              /\ \A c : IsOn(fresh, c) => IsOn(Append(fresh, b), c)
            BY <1>1, AtTheBack DEF IInv, ListsTypeOK
        <3>2. fresh' = Append(fresh, b) BY <1>2, <2>2
        <3>. QED BY <1>2, <3>1, <3>2 DEF IInv, ListedIsQueued
    <2>. QED BY <2>1, <2>2
<1>. QED BY <1>1, <1>2, <1>3, <1>4, <1>5
    DEF IInv, ListsTypeOK, PacketsAreListed, ListedIsQueued

LEMMA RotateLists ==
    ASSUME IInv, Rotate
    PROVE  ListsTypeOK' /\ PacketsAreListed' /\ ListedIsQueued'
<1>1. /\ Queue # << >> /\ packets' = packets /\ listed' = listed
      /\ fresh' = OtherFresh /\ backlogged' = Append(OtherBacklogged, Turn)
    BY DEF Rotate, Looks
<1>2. /\ backlogged' \in Seq(Buckets) /\ fresh' \in Seq(Buckets)
      /\ \A b : IsOn(fresh, b) \/ IsOn(backlogged, b)
            => IsOn(fresh', b) \/ IsOn(backlogged', b)
    BY <1>1, TurnIsAHead, AtTheBack DEF IInv
<1>. QED BY <1>1, <1>2 DEF IInv, ListsTypeOK, PacketsAreListed, ListedIsQueued

LEMMA RunDryLists ==
    ASSUME IInv, RunDry
    PROVE  ListsTypeOK' /\ PacketsAreListed' /\ ListedIsQueued'
<1>1. /\ Queue # << >> /\ packets' = packets /\ listed' = listed \ {Turn}
      /\ fresh' = OtherFresh /\ backlogged' = OtherBacklogged /\ packets[Turn] = << >>
    BY DEF RunDry, Looks
<1>2. /\ backlogged' \in Seq(Buckets) /\ fresh' \in Seq(Buckets)
      /\ \A b : IsOn(fresh, b) \/ IsOn(backlogged, b)
            => b = Turn \/ IsOn(fresh', b) \/ IsOn(backlogged', b)
    BY <1>1, TurnIsAHead DEF IInv
<1>. QED BY <1>1, <1>2 DEF IInv, ListsTypeOK, PacketsAreListed, ListedIsQueued

LEMMA ServeLists ==
    ASSUME IInv, NEW n \in 0 .. count, Serve(n)
    PROVE  ListsTypeOK' /\ PacketsAreListed' /\ ListedIsQueued'
<1>1. /\ packets' = [packets EXCEPT ![Turn] = SubSeq(@, n + 2, Len(@))]
      /\ UNCHANGED <<listed, fresh, backlogged>> /\ n < Len(packets[Turn])
    BY DEF Serve, MayDrop
<1>2. packets[Turn] # << >> BY <1>1
<1>. QED BY <1>1, <1>2, ListsKept DEF IInv, ListsTypeOK

LEMMA DropFattestLists ==
    ASSUME IInv, DropFattest
    PROVE  ListsTypeOK' /\ PacketsAreListed' /\ ListedIsQueued'
<1>1. /\ packets' = [packets EXCEPT ![Fattest] = Tail(@)] /\ packets[Fattest] # << >>
      /\ UNCHANGED <<listed, fresh, backlogged>>
    BY DEF DropFattest
<1>. QED BY <1>1, ListsKept DEF IInv, ListsTypeOK

LEMMA ArriveLists ==
    ASSUME IInv, NEW s \in Stale, Arrive(s)
    PROVE  ListsTypeOK' /\ PacketsAreListed' /\ ListedIsQueued'
<1>1. /\ packets' = [b \in Buckets |-> SubSeq(packets[b], s[b] + 1, Len(packets[b]))]
      /\ UNCHANGED <<listed, fresh, backlogged>>
    BY DEF Arrive
<1>2. \A b \in Buckets : s[b] \in Nat /\ s[b] <= Len(packets[b]) BY DEF Stale
<1>. QED BY <1>1, <1>2, ListsKept, ShorterStays DEF IInv, ListsTypeOK

LEMMA StepKeepsLists ==
    ASSUME IInv, [Next]_vars
    PROVE  ListsTypeOK' /\ PacketsAreListed' /\ ListedIsQueued'
<1>. ListsTypeOK /\ PacketsAreListed /\ ListedIsQueued BY DEF IInv
<1>1. ASSUME NEW p \in Packets, Push(p) PROVE ListsTypeOK' /\ PacketsAreListed' /\ ListedIsQueued'
    BY <1>1, ListsStay DEF Push
<1>2. CASE Close BY <1>2, ListsStay, ListsKept DEF Close, ListsTypeOK
<1>3. CASE DropFattest BY <1>3, DropFattestLists
<1>4. CASE Admit BY <1>4, AdmitLists
<1>5. CASE Notify \/ NotifyClosed BY <1>5, ListsStay DEF Notify, NotifyClosed
<1>6. ASSUME NEW s \in Stale, Arrive(s) PROVE ListsTypeOK' /\ PacketsAreListed' /\ ListedIsQueued'
    BY <1>6, ArriveLists
<1>7. CASE Rotate BY <1>7, RotateLists
<1>8. CASE RunDry BY <1>8, RunDryLists
<1>9. ASSUME NEW n \in 0 .. count, Serve(n)
      PROVE ListsTypeOK' /\ PacketsAreListed' /\ ListedIsQueued'
    BY <1>9, ServeLists
<1>10. CASE Leave \/ Lock \/ Hand \/ Finish \/ Wait \/ Await \/ Wake \/ Sent
    BY <1>10, ListsStay DEF Leave, Lock, Hand, Finish, Wait, Await, Wake, Sent
<1>11. CASE UNCHANGED vars BY <1>11, ListsStay DEF vars
<1>. QED
    BY <1>1, <1>2, <1>3, <1>4, <1>5, <1>6, <1>7, <1>8, <1>9, <1>10, <1>11
    DEF Next, Producing, Consuming, Dequeue

\* What comes in is told of before the lock's holder does anything else, and the
\* consumer gives up its turn only when it has seen that there was nothing.
LEMMA StepKeepsTold ==
    ASSUME IInv, [Next]_vars
    PROVE  IdleIsTold'
<1>. USE DEF IdleIsTold, Idle, ToldOrAboutToBe
<1>0. IdleIsTold BY DEF IInv
<1>1. ASSUME UNCHANGED <<producer, consumer, permit, closed>>,
             \A b \in Buckets : packets'[b] # << >> => packets[b] # << >>
      PROVE  IdleIsTold'
    BY <1>0, <1>1 DEF Held
<1>2. ASSUME consumer' \notin {"unlocked", "waiting"} PROVE IdleIsTold' BY <1>2
<1>3. ASSUME NEW p \in Packets, Push(p) PROVE IdleIsTold'
    BY <1>0, <1>3 DEF Push, innerVars, Held
<1>4. CASE Close BY <1>4 DEF Close
<1>5. CASE DropFattest
    <2>1. \A b \in Buckets : packets'[b] # << >> => packets[b] # << >>
        BY <1>5 DEF DropFattest, IInv, ListsTypeOK
    <2>. QED BY <1>1, <1>5, <2>1 DEF DropFattest, taskVars
<1>6. CASE Admit BY <1>6 DEF Admit
<1>7. CASE Notify \/ NotifyClosed BY <1>7 DEF Notify, NotifyClosed
<1>8. ASSUME NEW s \in Stale, Arrive(s) PROVE IdleIsTold' BY <1>8, <1>2 DEF Arrive
<1>9. CASE Dequeue
    <2>1. consumer' = "taking" BY <1>9 DEF Dequeue, Rotate, RunDry, Serve, Looks, taskVars
    <2>. QED BY <1>2, <2>1
<1>10. CASE Wait
    <2>1. Queue = << >> /\ ~closed
        BY <1>10, QueueAssumption DEF Wait, Filled, QueueAssumption
    <2>2. ~Held BY <2>1, NobodyQueued DEF IInv
    <2>. QED BY <1>10, <2>1, <2>2 DEF Wait, innerVars, Held
<1>11. CASE Await BY <1>0, <1>11 DEF Await, innerVars, Held
<1>12. CASE Leave \/ Lock \/ Hand \/ Finish \/ Wake \/ Sent
    BY <1>2, <1>12 DEF Leave, Lock, Hand, Finish, Wake, Sent
<1>13. CASE UNCHANGED vars BY <1>1, <1>13 DEF vars, innerVars, taskVars
<1>. QED
    BY <1>3, <1>4, <1>5, <1>6, <1>7, <1>8, <1>9, <1>10, <1>11, <1>12, <1>13
    DEF Next, Producing, Consuming

LEMMA StepKeepsArriving ==
    ASSUME IInv, [Next]_vars
    PROVE  ArrivingOK'
<1>. ArrivingOK BY DEF IInv
<1>1. ASSUME NEW p \in Packets, Push(p) PROVE ArrivingOK'
    BY <1>1, HeadTailProperties DEF Push, ArrivingOK
<1>2. CASE Producing \/ Close
    BY <1>2 DEF Producing, DropFattest, Admit, Notify, NotifyClosed, Close, ArrivingOK, taskVars
<1>3. ASSUME NEW s \in Stale, Arrive(s) PROVE ArrivingOK' BY <1>3 DEF Arrive, ArrivingOK
<1>4. CASE Leave BY <1>4 DEF Leave, ArrivingOK
<1>5. CASE Consuming
    BY <1>5 DEF Consuming, Dequeue, Lock, Rotate, RunDry, Serve, Hand, Finish, Wait, Await, Wake,
                Sent, ArrivingOK, taskVars
<1>6. CASE UNCHANGED vars BY <1>6 DEF vars, taskVars, ArrivingOK
<1>. QED BY <1>1, <1>2, <1>3, <1>4, <1>5, <1>6 DEF Next

LEMMA QueueInvariant == Spec => []IInv
<1>1. QueueInit => IInv
    BY DEF QueueInit, IInv, ArrivingOK, ListsTypeOK, PacketsAreListed, ListedIsQueued, IdleIsTold,
           Idle
<1>2. IInv /\ [Next]_vars => IInv'
    BY StepKeepsLists, StepKeepsTold, StepKeepsArriving DEF IInv
<1>. QED BY <1>1, <1>2, PTL DEF Spec

-----------------------------------------------------------------------------
\* A consumer that waits is told of a packet, or of the end, or is about to be by
\* the thread that brought it: it never sleeps over what it ought to see.
THEOREM NoSleepOverAPacket == Spec => []NoLostWakeUp
<1>1. IInv => NoLostWakeUp
    BY DEF IInv, IdleIsTold, Idle, Held, ToldOrAboutToBe, NoLostWakeUp
<1>. QED BY <1>1, QueueInvariant, PTL

-----------------------------------------------------------------------------
(* What a bucket holds, and what is left of it when some of it is thinned. *)

HoldsPackets == packets \in [Buckets -> Seq(Packets)]

LEMMA Least ==
    ASSUME NEW S \in SUBSET Nat, S # {}
    PROVE  \E x \in S : \A y \in S : x <= y
<1>1. PICK x \in S : \A y \in S : <<y, x>> \notin OpToRel(<, Nat)
    BY NatLessThanWellFounded, WFMin
<1>2. \A y \in S : ~(y < x) BY <1>1 DEF OpToRel
<1>3. \A y \in S : x <= y BY <1>2
<1>. QED BY <1>3

LEMMA Greatest ==
    ASSUME NEW n \in Nat, NEW S \in SUBSET (1 .. n), S # {}
    PROVE  \E x \in S : \A y \in S : x >= y
<1>. DEFINE T == {n - k : k \in S}
<1>1. T \in SUBSET Nat /\ T # {}
    <2>1. \A k \in S : n - k \in Nat OBVIOUS
    <2>. QED BY <2>1
<1>2. PICK k \in S : \A y \in T : n - k <= y BY <1>1, Least
<1>3. \A y \in S : k >= y
    <2>. TAKE y \in S
    <2>1. n - k <= n - y BY <1>2
    <2>. QED BY <2>1
<1>. QED BY <1>3

LEMMA FinitePlaces ==
    ASSUME NEW n \in Nat, NEW at \in SUBSET (1 .. n)
    PROVE  IsFiniteSet(at) /\ Cardinality(at) \in Nat
<1>1. IsFiniteSet(1 .. n) BY FS_Interval
<1>2. IsFiniteSet(at) BY <1>1, FS_Subset
<1>. QED BY <1>2, FS_CardinalityType

UpTo(at, j) == {k \in at : k <= j}

LEMMA UpToEnds ==
    ASSUME NEW n \in Nat, NEW at \in SUBSET (1 .. n)
    PROVE  UpTo(at, n) = at /\ UpTo(at, 0) = {}
<1>1. \A k \in at : k \in Int /\ 1 <= k /\ k <= n OBVIOUS
<1>2. \A k : k \in UpTo(at, n) <=> k \in at BY <1>1 DEF UpTo
<1>3. ASSUME NEW k \in UpTo(at, 0) PROVE FALSE
    <2>1. k \in at /\ k <= 0 BY DEF UpTo
    <2>. QED BY <1>1, <2>1
<1>. QED BY <1>2, <1>3

LEMMA UpToGrows ==
    ASSUME NEW n \in Nat, NEW at \in SUBSET (1 .. n), NEW m \in 1 .. n
    PROVE  /\ m \notin at => UpTo(at, m) = UpTo(at, m - 1)
           /\ m \in at => Cardinality(UpTo(at, m)) = Cardinality(UpTo(at, m - 1)) + 1
<1>. \A k \in at : k \in Int OBVIOUS
<1>0. m \in Int /\ \A k \in at : (k <= m - 1 <=> k <= m /\ k # m) OBVIOUS
<1>1. CASE m \notin at
    <2>1. \A k \in at : k <= m - 1 <=> k <= m BY <1>0, <1>1
    <2>. QED BY <1>1, <2>1 DEF UpTo
<1>2. CASE m \in at
    <2>0. \A k : k \in UpTo(at, m) <=> k \in UpTo(at, m - 1) \/ k = m
        <3>1. \A k \in at : k <= m <=> k <= m - 1 \/ k = m BY <1>0, <1>2
        <3>. QED BY <1>2, <3>1 DEF UpTo
    <2>1. UpTo(at, m) = UpTo(at, m - 1) \cup {m} /\ m \notin UpTo(at, m - 1)
        <3>1. m \notin UpTo(at, m - 1) BY <1>0 DEF UpTo
        <3>. QED BY <2>0, <3>1
    <2>2. IsFiniteSet(UpTo(at, m - 1))
        <3>1. UpTo(at, m - 1) \in SUBSET (1 .. n) BY DEF UpTo
        <3>. QED BY <3>1, FinitePlaces
    <2>. QED BY <1>2, <2>1, <2>2, FS_AddElement
<1>. QED BY <1>1, <1>2

\* Of a set of places, some place is its i-th.
LEMMA NthExists ==
    ASSUME NEW n \in Nat, NEW at \in SUBSET (1 .. n), NEW i \in 1 .. Cardinality(at)
    PROVE  \E j \in at : Cardinality(UpTo(at, j)) = i
<1>. DEFINE S == {j \in 0 .. n : i <= Cardinality(UpTo(at, j))}
<1>1. Cardinality(at) \in Nat /\ i \in Nat \ {0} /\ i <= Cardinality(at)
    <2>1. Cardinality(at) \in Nat BY FinitePlaces
    <2>. QED BY <2>1
<1>2. \A j \in 0 .. n : Cardinality(UpTo(at, j)) \in Nat
    <2>. TAKE j \in 0 .. n
    <2>1. UpTo(at, j) \in SUBSET (1 .. n) BY DEF UpTo
    <2>. QED BY <2>1, FinitePlaces
<1>3. n \in S BY <1>1, UpToEnds
<1>4. PICK m \in S : \A y \in S : m <= y
    <2>1. S \in SUBSET Nat /\ S # {} BY <1>3
    <2>. QED BY <2>1, Least
<1>5. m \in 0 .. n /\ i <= Cardinality(UpTo(at, m)) BY <1>4
<1>6. m # 0
    <2>1. Cardinality(UpTo(at, 0)) = 0 BY UpToEnds, FS_EmptySet
    <2>. QED BY <1>1, <1>5, <2>1
<1>7. m \in 1 .. n /\ m - 1 \in 0 .. n BY <1>5, <1>6
<1>8. Cardinality(UpTo(at, m - 1)) < i
    <2>1. m - 1 \notin S BY <1>4, <1>7
    <2>2. ~(i <= Cardinality(UpTo(at, m - 1))) BY <1>7, <2>1
    <2>. QED BY <1>1, <1>2, <1>7, <2>2
<1>9. m \in at BY <1>1, <1>2, <1>5, <1>7, <1>8, UpToGrows
<1>10. Cardinality(UpTo(at, m)) = i BY <1>1, <1>2, <1>5, <1>7, <1>8, <1>9, UpToGrows
<1>. QED BY <1>9, <1>10

LEMMA NthThere ==
    ASSUME NEW n \in Nat, NEW at \in SUBSET (1 .. n), NEW i \in 1 .. Cardinality(at)
    PROVE  Nth(at, i) \in at /\ Cardinality(UpTo(at, Nth(at, i))) = i
<1>1. \E j \in at : Cardinality(UpTo(at, j)) = i BY NthExists
<1>. QED BY <1>1 DEF Nth, UpTo

LEMMA KeepOnlyTyped ==
    ASSUME NEW S, NEW held \in Seq(S), NEW at \in SUBSET DOMAIN held
    PROVE  KeepOnly(held, at) \in Seq(S)
<1>1. Len(held) \in Nat /\ DOMAIN held = 1 .. Len(held) /\ \A i \in DOMAIN held : held[i] \in S
    BY LenProperties, ElementOfSeq
<1>2. Cardinality(at) \in Nat BY <1>1, FinitePlaces
<1>3. \A i \in 1 .. Cardinality(at) : held[Nth(at, i)] \in S BY <1>1, NthThere
<1>. QED BY <1>2, <1>3, IsASeq DEF KeepOnly

LEMMA SubSeqTyped ==
    ASSUME NEW S, NEW s \in Seq(S), NEW n \in Nat
    PROVE  SubSeq(s, n + 1, Len(s)) \in Seq(S)
<1>1. \A i \in n + 1 .. Len(s) : s[i] \in S BY LenProperties, ElementOfSeq
<1>. QED BY <1>1, LenProperties, SubSeqProperties

LEMMA StepHoldsPackets ==
    ASSUME IInv, HoldsPackets, [Next]_vars
    PROVE  HoldsPackets'
<1>. USE DEF HoldsPackets
<1>1. ASSUME UNCHANGED packets PROVE HoldsPackets' BY <1>1
<1>2. ASSUME NEW p \in Packets, Push(p) PROVE HoldsPackets' BY <1>2 DEF Push, innerVars
<1>3. CASE DropFattest BY <1>3, HeadTailProperties DEF DropFattest
<1>4. CASE Admit
    <2>. DEFINE p == Head(arriving)
                b == BucketOf[p.conn]
    <2>1. p \in Packets /\ b \in Buckets
        BY <1>4, QueueAssumption DEF QueueAssumption, IInv, ArrivingOK, Admit, Packet
    <2>2. packets' = [packets EXCEPT ![b] = Append(Thin(packets[b], p), p)] BY <1>4 DEF Admit
    <2>3. Thin(packets[b], p) \in Seq(Packets) BY <2>1, KeepOnlyTyped DEF Thin
    <2>4. Append(Thin(packets[b], p), p) \in Seq(Packets) BY <2>1, <2>3, AppendProperties
    <2>. QED BY <2>1, <2>2, <2>4
<1>5. ASSUME NEW s \in Stale, Arrive(s) PROVE HoldsPackets'
    <2>1. \A b \in Buckets : s[b] \in Nat BY DEF Stale
    <2>2. \A b \in Buckets : SubSeq(packets[b], s[b] + 1, Len(packets[b])) \in Seq(Packets)
        BY <2>1, SubSeqTyped
    <2>. QED BY <1>5, <2>2 DEF Arrive
<1>6. ASSUME NEW n \in 0 .. count, Serve(n) PROVE HoldsPackets'
    <2>1. SubSeq(packets[Turn], n + 2, Len(packets[Turn])) \in Seq(Packets)
             \/ Turn \notin Buckets
        <3>1. n + 1 \in Nat OBVIOUS
        <3>2. ASSUME Turn \in Buckets
              PROVE  SubSeq(packets[Turn], (n + 1) + 1, Len(packets[Turn])) \in Seq(Packets)
            BY <3>1, <3>2, SubSeqTyped
        <3>. QED BY <3>2
    <2>. QED BY <1>6, <2>1 DEF Serve
<1>7. CASE Rotate \/ RunDry \/ Close \/ Notify \/ NotifyClosed
    BY <1>7 DEF Rotate, RunDry, Close, Notify, NotifyClosed, innerVars
<1>8. CASE Leave \/ Lock \/ Hand \/ Finish \/ Wait \/ Await \/ Wake \/ Sent
    BY <1>8 DEF Leave, Lock, Hand, Finish, Wait, Await, Wake, Sent, innerVars
<1>9. CASE UNCHANGED vars BY <1>9 DEF vars, innerVars
<1>. QED
    BY <1>2, <1>3, <1>4, <1>5, <1>6, <1>7, <1>8, <1>9 DEF Next, Producing, Consuming, Dequeue

LEMMA PacketsInvariant == Spec => []HoldsPackets
<1>1. QueueInit => HoldsPackets
    <2>1. << >> \in Seq(Packets) OBVIOUS
    <2>. QED BY <2>1 DEF QueueInit, HoldsPackets
<1>2. IInv /\ HoldsPackets /\ [Next]_vars => HoldsPackets' BY StepHoldsPackets
<1>. QED BY <1>1, <1>2, QueueInvariant, PTL DEF Spec

-----------------------------------------------------------------------------
(* What an acknowledgement is ahead of, it covers.                         *)

LEMMA ModSmall == ASSUME NEW m \in Nat \ {0}, NEW a \in 0 .. m - 1 PROVE a % m = a
OBVIOUS

LEMMA ModOver == ASSUME NEW m \in Nat \ {0}, NEW a \in m .. 2 * m - 1 PROVE a % m = a - m
OBVIOUS

LEMMA ModUnder ==
    ASSUME NEW m \in Nat \ {0}, NEW a \in Int, -m <= a, a < 0
    PROVE  a % m = a + m
OBVIOUS

\* What a wrapping difference, added back, wraps to.
LEMMA ModBack ==
    ASSUME NEW m \in Nat \ {0}, NEW x \in 0 .. m - 1, NEW y \in 0 .. m - 1
    PROVE  (x - y) % m \in 0 .. m - 1 /\ (y + ((x - y) % m)) % m = x
<1>1. CASE x >= y
    <2>1. (x - y) % m = x - y BY <1>1, ModSmall
    <2>. QED BY <1>1, <2>1, ModSmall
<1>2. CASE x < y
    <2>1. (x - y) % m = x - y + m BY <1>2, ModUnder
    <2>2. (y + (x - y + m)) % m = x BY <1>2, ModOver
    <2>. QED BY <1>2, <2>1, <2>2
<1>. QED BY <1>1, <1>2

LEMMA ModReaches ==
    ASSUME NEW m \in Nat \ {0}, NEW x \in 0 .. m - 1, NEW y \in 0 .. m - 1, NEW h \in Int,
           0 < (x - y) % m, (x - y) % m < h
    PROVE  \E n \in 1 .. h - 1 : x = (y + n) % m
<1>1. (x - y) % m \in 1 .. h - 1 BY ModBack
<1>2. x = (y + ((x - y) % m)) % m BY ModBack
<1>. WITNESS (x - y) % m \in 1 .. h - 1
<1>. QED BY <1>2

LEMMA AheadIsCovering ==
    ASSUME NEW x \in 0 .. AckMod - 1, NEW y \in 0 .. AckMod - 1, Ahead(x, y)
    PROVE  \E n \in 1 .. (AckMod \div 2) - 1 : x = (y + n) % AckMod
<1>1. AckMod \in Nat \ {0} BY QueueAssumption DEF QueueAssumption
<1>2. AckMod \div 2 \in Int BY <1>1
<1>3. 0 < (x - y) % AckMod /\ (x - y) % AckMod < AckMod \div 2 BY DEF Ahead
<1>. QED BY <1>1, <1>2, <1>3, ModReaches

LEMMA NumberOf ==
    ASSUME NEW p \in Packets, p.ack # NoAck
    PROVE  p.ack \in 0 .. AckMod - 1
BY QueueAssumption DEF QueueAssumption, Packet

LEMMA RedundantIsCovered ==
    ASSUME NEW p \in Packets, NEW held \in Seq(Packets), NEW i \in MadeRedundant(held, p)
    PROVE  i \in DOMAIN held /\ Covers(p, held[i])
<1>1. /\ i \in DOMAIN held /\ p.ack # NoAck /\ held[i].ack # NoAck
      /\ Ahead(p.ack, held[i].ack) /\ held[i].conn = p.conn
    BY DEF MadeRedundant
<1>2. held[i] \in Packets BY <1>1, ElementOfSeq, LenProperties
<1>3. p.ack \in 0 .. AckMod - 1 /\ held[i].ack \in 0 .. AckMod - 1 BY <1>1, <1>2, NumberOf
<1>. QED BY <1>1, <1>3, AheadIsCovering DEF Covers

\* Of those made redundant the newest stays, so whatever goes has one behind it.
LEMMA OneMoreStays ==
    ASSUME NEW p \in Packets, NEW held \in Seq(Packets), NEW i \in Gone(held, p)
    PROVE  \E j \in DOMAIN held \ Gone(held, p) : i < j /\ Covers(p, held[j])
<1>. DEFINE old == MadeRedundant(held, p)
<1>1. Len(held) \in Nat /\ DOMAIN held = 1 .. Len(held) BY LenProperties
<1>2. old \in SUBSET (1 .. Len(held)) BY <1>1 DEF MadeRedundant
<1>3. i \in old /\ \E k \in old : i < k BY DEF Gone
<1>. HIDE DEF old
<1>4. PICK j \in old : \A k \in old : j >= k BY <1>1, <1>2, <1>3, Greatest
<1>5. i < j BY <1>1, <1>2, <1>3, <1>4
<1>6. j \notin Gone(held, p)
    <2>1. \A k \in old : ~(j < k) BY <1>1, <1>2, <1>4
    <2>. QED BY <2>1 DEF Gone, old
<1>. QED BY <1>4, <1>5, <1>6, RedundantIsCovered DEF old

LEMMA AdmitThins ==
    ASSUME IInv, HoldsPackets, Admit
    PROVE  LET new == Head(arriving)
               held == packets[BucketOf[new.conn]]
           IN \E kept \in SUBSET DOMAIN held :
               /\ packets'[BucketOf[new.conn]] = Append(KeepOnly(held, kept), new)
               /\ \A i \in DOMAIN held \ kept :
                   Covers(new, held[i]) /\ \E j \in kept : i < j /\ Covers(new, held[j])
<1>. DEFINE new == Head(arriving)
            b == BucketOf[new.conn]
            held == packets[b]
            kept == DOMAIN held \ Gone(held, new)
<1>1. new \in Packets /\ b \in Buckets
    BY QueueAssumption DEF QueueAssumption, IInv, ArrivingOK, Admit, Packet
<1>2. held \in Seq(Packets) BY <1>1 DEF HoldsPackets
<1>3. packets' = [packets EXCEPT ![b] = Append(Thin(held, new), new)] BY DEF Admit
<1>4. packets'[b] = Append(KeepOnly(held, kept), new)
    BY <1>1, <1>3 DEF Thin, HoldsPackets
<1>5. ASSUME NEW i \in DOMAIN held \ kept
      PROVE  Covers(new, held[i]) /\ \E j \in kept : i < j /\ Covers(new, held[j])
    <2>1. i \in Gone(held, new) BY <1>5
    <2>2. i \in MadeRedundant(held, new) BY <2>1 DEF Gone
    <2>3. Covers(new, held[i]) BY <1>1, <1>2, <2>2, RedundantIsCovered
    <2>. HIDE DEF new, held
    <2>4. \E j \in kept : i < j /\ Covers(new, held[j]) BY <1>1, <1>2, <2>1, OneMoreStays
    <2>. QED BY <2>3, <2>4
<1>6. kept \in SUBSET DOMAIN held OBVIOUS
<1>. QED BY <1>4, <1>5, <1>6

\* A packet that goes on account of one that arrives, other than to make room, is
\* covered by it and by one more that stays behind it.
THEOREM TwoStayInFlight == Spec => ThinnedIsCovered
<1>. DEFINE Covered ==
        producer = "pushing" /\ producer' # "pushing" =>
            LET new == Head(arriving)
                held == packets[BucketOf[new.conn]]
            IN \E kept \in SUBSET DOMAIN held :
                /\ packets'[BucketOf[new.conn]] = Append(KeepOnly(held, kept), new)
                /\ \A i \in DOMAIN held \ kept :
                    Covers(new, held[i]) /\ \E j \in kept : i < j /\ Covers(new, held[j])
<1>1. ASSUME IInv, HoldsPackets, Next, producer = "pushing", producer' # "pushing"
      PROVE  Admit
    BY <1>1 DEF Next, Push, Close, Producing, DropFattest, Notify, NotifyClosed, Arrive, Leave,
        Consuming, Dequeue, Lock, Rotate, RunDry, Serve, Hand, Finish, Wait, Await, Wake, Sent,
        taskVars
<1>2. IInv /\ HoldsPackets /\ [Next]_vars => [Covered]_vars BY <1>1, AdmitThins
<1>. QED BY <1>2, QueueInvariant, PacketsInvariant, PTL DEF Spec, ThinnedIsCovered

-----------------------------------------------------------------------------
(* Sums over finite sets, whatever the order they are taken in.  A sum is  *)
(* a recursive function over subsets, and a fact about every finite set is *)
(* had from the smallest it would fail for.                                *)

LEMMA SmallestBad ==
    ASSUME NEW S, IsFiniteSet(S), NEW Good,
           \A s \in SUBSET S : (\A t \in SUBSET s : t # s => t \in Good) => s \in Good
    PROVE  \A s \in SUBSET S : s \in Good
<1>. DEFINE Bad == {s \in SUBSET S : s \notin Good}
            Sizes == {Cardinality(s) : s \in Bad}
<1>1. SUFFICES ASSUME Bad # {} PROVE FALSE OBVIOUS
<1>2. \A s \in SUBSET S : IsFiniteSet(s) /\ Cardinality(s) \in Nat
    BY FS_Subset, FS_CardinalityType
<1>3. Sizes \in SUBSET Nat /\ Sizes # {} BY <1>1, <1>2
<1>4. PICK s \in Bad : \A t \in Bad : Cardinality(s) <= Cardinality(t)
    <2>. HIDE DEF Bad
    <2>1. PICK n \in Sizes : \A m \in Sizes : n <= m BY <1>3, Least
    <2>. QED BY <2>1
<1>5. \A t \in SUBSET s : t # s => t \in Good
    <2>. TAKE t \in SUBSET s
    <2>1. Cardinality(t) <= Cardinality(s) /\ (Cardinality(s) = Cardinality(t) => s = t)
        BY <1>2, FS_Subset
    <2>2. SUFFICES ASSUME t # s, t \notin Good PROVE FALSE OBVIOUS
    <2>3. t \in Bad /\ Cardinality(s) <= Cardinality(t) BY <1>4, <2>2
    <2>4. Cardinality(s) \in Nat /\ Cardinality(t) \in Nat BY <1>2
    <2>. QED BY <2>1, <2>2, <2>3, <2>4
<1>. QED BY <1>5

\* One element at a time.
LEMMA SetInduction ==
    ASSUME NEW S, IsFiniteSet(S), NEW Good, {} \in Good,
           \A s \in SUBSET S : \A x \in S \ s : s \in Good => s \cup {x} \in Good
    PROVE  S \in Good
<1>1. ASSUME NEW s \in SUBSET S, \A t \in SUBSET s : t # s => t \in Good
      PROVE  s \in Good
    <2>1. CASE s = {} BY <2>1
    <2>2. CASE s # {}
        <3>1. PICK x \in s : TRUE BY <2>2
        <3>2. s \ {x} \in SUBSET S /\ s \ {x} \in Good BY <1>1, <3>1
        <3>3. (s \ {x}) \cup {x} \in Good BY <3>1, <3>2
        <3>4. (s \ {x}) \cup {x} = s BY <3>1
        <3>. QED BY <3>3, <3>4
    <2>. QED BY <2>1, <2>2
<1>. QED BY <1>1, SmallestBad

LEMMA Counting ==
    ASSUME NEW Good, 0 \in Good, \A n \in Nat : n \in Good => n + 1 \in Good
    PROVE  \A n \in Nat : n \in Good
<1>. DEFINE Bad == {n \in Nat : n \notin Good}
<1>1. SUFFICES ASSUME Bad # {} PROVE FALSE OBVIOUS
<1>2. PICK n \in Bad : \A m \in Bad : n <= m BY <1>1, Least
<1>3. n # 0 /\ n - 1 \in Nat /\ n - 1 \notin Bad BY <1>2
<1>4. n - 1 \in Good BY <1>3
<1>5. (n - 1) + 1 \in Good /\ (n - 1) + 1 = n BY <1>3, <1>4
<1>. QED BY <1>5

\* The recursion of the fold: which element is taken first, and what it makes of
\* the rest.
Pick(s) == CHOOSE x \in s : TRUE

Adds(it, f, s) == IF s = {} THEN 0 ELSE f[Pick(s)] + it[s \ {Pick(s)}]

IsSum(it, f, S) == it = [s \in SUBSET S |-> Adds(it, f, s)]

LEMMA SumIsFold ==
    ASSUME NEW f, NEW S
    PROVE  SumFunctionOnSet(f, S) = (CHOOSE it : IsSum(it, f, S))[S]
BY DEF SumFunctionOnSet, FoldFunctionOnSet, MapThenFoldSet, IsSum, Adds, Pick

LEMMA PickOne == ASSUME NEW s, s # {} PROVE Pick(s) \in s
BY DEF Pick

LEMMA SumExists ==
    ASSUME NEW f, NEW S, IsFiniteSet(S)
    PROVE  IsSum(CHOOSE it : IsSum(it, f, S), f, S)
<1>. DEFINE Holds(it, n) ==
        /\ it = [s \in SUBSET S |-> it[s]]
        /\ \A s \in SUBSET S : Cardinality(s) <= n => it[s] = Adds(it, f, s)
            Good == {n \in Nat : \E it : Holds(it, n)}
<1>1. \A s \in SUBSET S : IsFiniteSet(s) /\ Cardinality(s) \in Nat
    BY FS_Subset, FS_CardinalityType
<1>2. 0 \in Good
    <2>. DEFINE it == [s \in SUBSET S |-> 0]
    <2>1. \A s \in SUBSET S : Cardinality(s) <= 0 => s = {} BY <1>1, FS_EmptySet
    <2>2. Holds(it, 0) BY <2>1 DEF Adds
    <2>. QED BY <2>2
<1>3. ASSUME NEW n \in Nat, n \in Good PROVE n + 1 \in Good
    <2>1. PICK it : Holds(it, n) BY <1>3
    <2>. DEFINE next == [s \in SUBSET S |-> Adds(it, f, s)]
    <2>2. \A s \in SUBSET S : Cardinality(s) <= n => next[s] = it[s] BY <2>1
    <2>3. ASSUME NEW s \in SUBSET S, Cardinality(s) <= n + 1
          PROVE  next[s] = Adds(next, f, s)
        <3>1. CASE s = {} BY <3>1 DEF Adds
        <3>2. CASE s # {}
            <4>1. Pick(s) \in s BY <3>2, PickOne
            <4>2. s \ {Pick(s)} \in SUBSET S /\ Cardinality(s \ {Pick(s)}) = Cardinality(s) - 1
                BY <1>1, <4>1, FS_RemoveElement
            <4>3. Cardinality(s \ {Pick(s)}) <= n BY <1>1, <2>3, <4>2
            <4>4. next[s \ {Pick(s)}] = it[s \ {Pick(s)}] BY <2>2, <4>2, <4>3
            <4>. QED BY <3>2, <4>4 DEF Adds
        <3>. QED BY <3>1, <3>2
    <2>. HIDE DEF next
    <2>4. next = [s \in SUBSET S |-> next[s]] BY DEF next
    <2>5. Holds(next, n + 1) BY <2>3, <2>4
    <2>. HIDE DEF Holds
    <2>6. \E jt : Holds(jt, n + 1) BY <2>5
    <2>. QED BY <2>6
<1>4. Cardinality(S) \in Good
    <2>. HIDE DEF Good
    <2>1. \A n \in Nat : n \in Good BY <1>2, <1>3, Counting
    <2>. QED BY <1>1, <2>1
<1>5. PICK it : Holds(it, Cardinality(S)) BY <1>4
<1>6. \A s \in SUBSET S : it[s] = Adds(it, f, s) BY <1>5, FS_Subset
<1>7. IsSum(it, f, S) BY <1>5, <1>6 DEF IsSum
<1>. QED BY <1>7

\* Two that obey the recursion agree where both are defined.
LEMMA SumsAgree ==
    ASSUME NEW f, NEW S, NEW T, IsFiniteSet(S), T \subseteq S, NEW it, NEW jt,
           IsSum(it, f, S), IsSum(jt, f, T)
    PROVE  it[T] = jt[T]
<1>. DEFINE Good == {s \in SUBSET T : it[s] = jt[s]}
<1>1. IsFiniteSet(T) BY FS_Subset
<1>2. ASSUME NEW s \in SUBSET T, \A t \in SUBSET s : t # s => t \in Good
      PROVE  s \in Good
    <2>1. it[s] = Adds(it, f, s) /\ jt[s] = Adds(jt, f, s) BY DEF IsSum
    <2>2. CASE s = {} BY <2>1, <2>2 DEF Adds
    <2>3. CASE s # {}
        <3>1. Pick(s) \in s BY <2>3, PickOne
        <3>2. s \ {Pick(s)} \in Good BY <1>2, <3>1
        <3>. QED BY <2>1, <2>3, <3>2 DEF Adds
    <2>. QED BY <2>2, <2>3
<1>. HIDE DEF Good
<1>3. T \in Good BY <1>1, <1>2, SmallestBad
<1>. QED BY <1>3 DEF Good

LEMMA SumStep ==
    ASSUME NEW f, NEW S, IsFiniteSet(S)
    PROVE  /\ S = {} => SumFunctionOnSet(f, S) = 0
           /\ S # {} => SumFunctionOnSet(f, S)
                            = f[Pick(S)] + SumFunctionOnSet(f, S \ {Pick(S)})
<1>. DEFINE it == CHOOSE it : IsSum(it, f, S)
            T == S \ {Pick(S)}
            jt == CHOOSE jt : IsSum(jt, f, T)
<1>1. IsFiniteSet(T) /\ T \subseteq S BY FS_RemoveElement
<1>2. IsSum(it, f, S) /\ IsSum(jt, f, T) BY <1>1, SumExists
<1>3. SumFunctionOnSet(f, S) = it[S] /\ SumFunctionOnSet(f, T) = jt[T] BY SumIsFold
<1>. HIDE DEF it, jt
<1>4. it[S] = Adds(it, f, S) BY <1>2 DEF IsSum
<1>5. it[T] = jt[T] BY <1>1, <1>2, SumsAgree
<1>. QED BY <1>3, <1>4, <1>5 DEF Adds

LEMMA SumInt ==
    ASSUME NEW f, NEW S, IsFiniteSet(S), \A x \in S : f[x] \in Int
    PROVE  SumFunctionOnSet(f, S) \in Int
<1>. DEFINE Good == {s \in SUBSET S : SumFunctionOnSet(f, s) \in Int}
<1>1. ASSUME NEW s \in SUBSET S, \A t \in SUBSET s : t # s => t \in Good
      PROVE  s \in Good
    <2>1. IsFiniteSet(s) BY FS_Subset
    <2>2. SumFunctionOnSet(f, s) \in Int
        <3>1. CASE s = {}
            <4>1. SumFunctionOnSet(f, s) = 0 BY <2>1, <3>1, SumStep
            <4>. QED BY <4>1
        <3>2. CASE s # {}
            <4>1. Pick(s) \in s BY <3>2, PickOne
            <4>2. SumFunctionOnSet(f, s \ {Pick(s)}) \in Int BY <1>1, <4>1
            <4>3. f[Pick(s)] \in Int BY <4>1
            <4>. QED BY <2>1, <3>2, <4>2, <4>3, SumStep
        <3>. QED BY <3>1, <3>2
    <2>. QED BY <2>2
<1>. HIDE DEF Good
<1>2. S \in Good BY <1>1, SmallestBad
<1>. QED BY <1>2 DEF Good

LEMMA SumTakesAny ==
    ASSUME NEW f, NEW S, IsFiniteSet(S), \A x \in S : f[x] \in Int, NEW x \in S
    PROVE  SumFunctionOnSet(f, S) = f[x] + SumFunctionOnSet(f, S \ {x})
<1>. DEFINE Sum(s) == SumFunctionOnSet(f, s)
            Good == {s \in SUBSET S : \A y \in s : Sum(s) = f[y] + Sum(s \ {y})}
<1>1. ASSUME NEW s \in SUBSET S, \A t \in SUBSET s : t # s => t \in Good, NEW y \in s
      PROVE  Sum(s) = f[y] + Sum(s \ {y})
    <2>. DEFINE p == Pick(s)
    <2>1. IsFiniteSet(s) /\ \A t \in SUBSET s : IsFiniteSet(t) /\ Sum(t) \in Int
        BY FS_Subset, SumInt
    <2>2. p \in s /\ Sum(s) = f[p] + Sum(s \ {p}) BY <2>1, PickOne, SumStep
    <2>. HIDE DEF p, Sum
    <2>3. CASE y = p BY <2>2, <2>3
    <2>4. CASE y # p
        <3>1. s \ {p} \in Good /\ s \ {y} \in Good /\ y \in s \ {p} /\ p \in s \ {y}
            BY <1>1, <2>2, <2>4
        <3>2. Sum(s \ {p}) = f[y] + Sum((s \ {p}) \ {y}) BY <3>1
        <3>3. Sum(s \ {y}) = f[p] + Sum((s \ {y}) \ {p}) BY <3>1
        <3>4. (s \ {p}) \ {y} = (s \ {y}) \ {p} OBVIOUS
        <3>5. Sum((s \ {p}) \ {y}) \in Int /\ f[y] \in Int /\ f[p] \in Int BY <2>1, <2>2
        <3>6. \A a, b, c, d, e \in Int : a = b + c /\ c = d + e => a = d + (b + e) OBVIOUS
        <3>7. Sum(s) = f[p] + (f[y] + Sum((s \ {p}) \ {y})) BY <2>2, <3>2
        <3>8. Sum(s \ {y}) = f[p] + Sum((s \ {p}) \ {y}) BY <3>3, <3>4
        <3>. QED BY <3>5, <3>7, <3>8
    <2>. QED BY <2>3, <2>4
<1>. HIDE DEF Sum
<1>2. \A s \in SUBSET S : (\A t \in SUBSET s : t # s => t \in Good) => s \in Good BY <1>1
<1>. HIDE DEF Good
<1>3. S \in Good BY <1>2, SmallestBad
<1>. QED BY <1>3 DEF Good, Sum

LEMMA SumOfNone == ASSUME NEW f PROVE SumFunctionOnSet(f, {}) = 0
BY FS_EmptySet, SumStep

LEMMA SumAdds ==
    ASSUME NEW f, NEW S, IsFiniteSet(S), NEW x, x \notin S, \A y \in S \cup {x} : f[y] \in Int
    PROVE  SumFunctionOnSet(f, S \cup {x}) = SumFunctionOnSet(f, S) + f[x]
<1>1. IsFiniteSet(S \cup {x}) BY FS_AddElement
<1>2. (S \cup {x}) \ {x} = S OBVIOUS
<1>3. SumFunctionOnSet(f, S \cup {x}) = f[x] + SumFunctionOnSet(f, S)
    BY <1>1, <1>2, SumTakesAny
<1>4. SumFunctionOnSet(f, S) \in Int /\ f[x] \in Int BY SumInt
<1>. QED BY <1>3, <1>4

LEMMA SumNat ==
    ASSUME NEW f, NEW S, IsFiniteSet(S), \A x \in S : f[x] \in Nat
    PROVE  SumFunctionOnSet(f, S) \in Nat
<1>. DEFINE Good == {s \in SUBSET S : SumFunctionOnSet(f, s) \in Nat}
<1>1. {} \in Good BY SumOfNone
<1>2. ASSUME NEW s \in SUBSET S, NEW x \in S \ s, s \in Good
      PROVE  s \cup {x} \in Good
    <2>1. IsFiniteSet(s) /\ SumFunctionOnSet(f, s) \in Nat BY <1>2, FS_Subset
    <2>2. SumFunctionOnSet(f, s \cup {x}) = SumFunctionOnSet(f, s) + f[x] BY <2>1, SumAdds
    <2>3. SumFunctionOnSet(f, s \cup {x}) \in Nat BY <2>1, <2>2
    <2>. QED BY <2>3
<1>. HIDE DEF Good
<1>3. S \in Good BY <1>1, <1>2, SetInduction
<1>. QED BY <1>3 DEF Good

\* Of what is summed elsewhere too: a set put in another's places one to one.
LEMMA SumMoves ==
    ASSUME NEW f, NEW g, NEW S, IsFiniteSet(S), NEW at,
           \A x \in S : f[x] \in Int /\ g[at[x]] = f[x],
           \A x, y \in S : at[x] = at[y] => x = y
    PROVE  SumFunctionOnSet(g, {at[x] : x \in S}) = SumFunctionOnSet(f, S)
<1>. DEFINE To(s) == {at[x] : x \in s}
            Good == {s \in SUBSET S :
                        /\ IsFiniteSet(To(s))
                        /\ SumFunctionOnSet(g, To(s)) = SumFunctionOnSet(f, s)}
<1>1. {} \in Good
    <2>1. To({}) = {} OBVIOUS
    <2>. QED BY <2>1, SumOfNone, FS_EmptySet
<1>2. ASSUME NEW s \in SUBSET S, NEW x \in S \ s, s \in Good
      PROVE  s \cup {x} \in Good
    <2>1. To(s \cup {x}) = To(s) \cup {at[x]} /\ at[x] \notin To(s) OBVIOUS
    <2>2. IsFiniteSet(s) BY FS_Subset
    <2>3. \A y \in To(s) \cup {at[x]} : g[y] \in Int OBVIOUS
    <2>4. IsFiniteSet(To(s)) /\ SumFunctionOnSet(g, To(s)) = SumFunctionOnSet(f, s) BY <1>2
    <2>5. SumFunctionOnSet(f, s \cup {x}) = SumFunctionOnSet(f, s) + f[x] BY <2>2, SumAdds
    <2>. HIDE DEF To
    <2>6. SumFunctionOnSet(g, To(s) \cup {at[x]}) = SumFunctionOnSet(g, To(s)) + g[at[x]]
        BY <2>1, <2>3, <2>4, SumAdds
    <2>7. IsFiniteSet(To(s) \cup {at[x]}) BY <2>4, FS_AddElement
    <2>8. SumFunctionOnSet(g, To(s \cup {x})) = SumFunctionOnSet(f, s \cup {x})
        BY <2>1, <2>4, <2>5, <2>6
    <2>. QED BY <2>1, <2>7, <2>8
<1>. HIDE DEF Good
<1>3. S \in Good BY <1>1, <1>2, SetInduction
<1>. QED BY <1>3 DEF Good

LEMMA SumSame ==
    ASSUME NEW f, NEW g, NEW S, IsFiniteSet(S), \A x \in S : f[x] \in Int /\ g[x] = f[x]
    PROVE  SumFunctionOnSet(g, S) = SumFunctionOnSet(f, S)
<1>. DEFINE at == [x \in S |-> x]
<1>1. {at[x] : x \in S} = S OBVIOUS
<1>2. /\ \A x \in S : f[x] \in Int /\ g[at[x]] = f[x]
      /\ \A x, y \in S : at[x] = at[y] => x = y
    OBVIOUS
<1>. HIDE DEF at
<1>3. SumFunctionOnSet(g, {at[x] : x \in S}) = SumFunctionOnSet(f, S) BY <1>2, SumMoves
<1>. QED BY <1>1, <1>3

LEMMA SumOfBoth ==
    ASSUME NEW f, NEW S, NEW T, IsFiniteSet(S), IsFiniteSet(T), S \cap T = {},
           \A x \in S \cup T : f[x] \in Int
    PROVE  SumFunctionOnSet(f, S \cup T) = SumFunctionOnSet(f, S) + SumFunctionOnSet(f, T)
<1>. DEFINE Sum(s) == SumFunctionOnSet(f, s)
            Good == {t \in SUBSET T : Sum(S \cup t) = Sum(S) + Sum(t)}
<1>0. Sum(S) \in Int BY SumInt
<1>1. {} \in Good
    <2>1. Sum({}) = 0 /\ S \cup {} = S BY SumOfNone
    <2>. HIDE DEF Sum
    <2>. QED BY <1>0, <2>1
<1>2. ASSUME NEW t \in SUBSET T, NEW x \in T \ t, t \in Good
      PROVE  t \cup {x} \in Good
    <2>1. IsFiniteSet(t) BY FS_Subset
    <2>2. IsFiniteSet(S \cup t) BY <2>1, FS_Union
    <2>3. x \notin S \cup t /\ (S \cup t) \cup {x} = S \cup (t \cup {x}) OBVIOUS
    <2>4. Sum((S \cup t) \cup {x}) = Sum(S \cup t) + f[x] BY <2>2, <2>3, SumAdds
    <2>5. Sum(t \cup {x}) = Sum(t) + f[x] BY <2>1, SumAdds
    <2>6. Sum(t) \in Int /\ f[x] \in Int BY <2>1, SumInt
    <2>. HIDE DEF Sum
    <2>7. Sum(S \cup t) = Sum(S) + Sum(t) BY <1>2
    <2>8. Sum(S \cup (t \cup {x})) = (Sum(S) + Sum(t)) + f[x] BY <2>3, <2>4, <2>7
    <2>9. Sum(S \cup (t \cup {x})) = Sum(S) + Sum(t \cup {x})
        BY <1>0, <2>5, <2>6, <2>8
    <2>. QED BY <2>9
<1>. HIDE DEF Good
<1>3. T \in Good BY <1>1, <1>2, SetInduction
<1>. QED BY <1>3 DEF Good

LEMMA SumWithout ==
    ASSUME NEW f, NEW S, NEW T \in SUBSET S, IsFiniteSet(S), \A x \in S : f[x] \in Int
    PROVE  SumFunctionOnSet(f, S \ T) = SumFunctionOnSet(f, S) - SumFunctionOnSet(f, T)
<1>1. IsFiniteSet(S \ T) /\ IsFiniteSet(T) BY FS_Subset
<1>2. (S \ T) \cup T = S /\ (S \ T) \cap T = {} OBVIOUS
<1>3. SumFunctionOnSet(f, S) = SumFunctionOnSet(f, S \ T) + SumFunctionOnSet(f, T)
    BY <1>1, <1>2, SumOfBoth
<1>4. SumFunctionOnSet(f, S \ T) \in Int /\ SumFunctionOnSet(f, T) \in Int BY <1>1, SumInt
<1>. QED BY <1>3, <1>4

LEMMA SumLess ==
    ASSUME NEW f, NEW g, NEW h, NEW S, IsFiniteSet(S),
           \A x \in S : f[x] \in Int /\ g[x] \in Int /\ h[x] = f[x] - g[x]
    PROVE  SumFunctionOnSet(h, S) = SumFunctionOnSet(f, S) - SumFunctionOnSet(g, S)
<1>. DEFINE Good == {s \in SUBSET S : SumFunctionOnSet(h, s)
                        = SumFunctionOnSet(f, s) - SumFunctionOnSet(g, s)}
<1>1. {} \in Good BY SumOfNone
<1>2. ASSUME NEW s \in SUBSET S, NEW x \in S \ s, s \in Good
      PROVE  s \cup {x} \in Good
    <2>1. IsFiniteSet(s) BY FS_Subset
    <2>2. \A y \in S : h[y] \in Int OBVIOUS
    <2>3. /\ SumFunctionOnSet(f, s \cup {x}) = SumFunctionOnSet(f, s) + f[x]
          /\ SumFunctionOnSet(g, s \cup {x}) = SumFunctionOnSet(g, s) + g[x]
          /\ SumFunctionOnSet(h, s \cup {x}) = SumFunctionOnSet(h, s) + h[x]
        BY <2>1, <2>2, SumAdds
    <2>4. SumFunctionOnSet(f, s) \in Int /\ SumFunctionOnSet(g, s) \in Int
        BY <2>1, SumInt
    <2>5. SumFunctionOnSet(h, s) = SumFunctionOnSet(f, s) - SumFunctionOnSet(g, s) BY <1>2
    <2>6. f[x] \in Int /\ g[x] \in Int /\ h[x] = f[x] - g[x] OBVIOUS
    <2>7. SumFunctionOnSet(h, s \cup {x})
            = SumFunctionOnSet(f, s \cup {x}) - SumFunctionOnSet(g, s \cup {x})
        BY <2>3, <2>4, <2>5, <2>6
    <2>. QED BY <2>7
<1>. HIDE DEF Good
<1>3. S \in Good BY <1>1, <1>2, SetInduction
<1>. QED BY <1>3 DEF Good

\* One place changes, and the sum by as much.
LEMMA SumChanges ==
    ASSUME NEW f, NEW g, NEW S, IsFiniteSet(S), NEW b \in S, g[b] \in Int,
           \A x \in S : f[x] \in Int /\ (x # b => g[x] = f[x])
    PROVE  SumFunctionOnSet(g, S) = SumFunctionOnSet(f, S) - f[b] + g[b]
<1>1. IsFiniteSet(S \ {b}) BY FS_RemoveElement
<1>2. SumFunctionOnSet(g, S \ {b}) = SumFunctionOnSet(f, S \ {b}) BY <1>1, SumSame
<1>3. \A x \in S : g[x] \in Int OBVIOUS
<1>4. /\ SumFunctionOnSet(f, S) = f[b] + SumFunctionOnSet(f, S \ {b})
      /\ SumFunctionOnSet(g, S) = g[b] + SumFunctionOnSet(g, S \ {b})
    BY <1>3, SumTakesAny
<1>5. SumFunctionOnSet(f, S \ {b}) \in Int /\ f[b] \in Int BY <1>1, SumInt
<1>. QED BY <1>2, <1>4, <1>5

-----------------------------------------------------------------------------
(* What is counted, and what is held.                                      *)

LEMMA SumOfZeros ==
    ASSUME NEW f, NEW S, IsFiniteSet(S), \A x \in S : f[x] = 0
    PROVE  SumFunctionOnSet(f, S) = 0
<1>1. \A x \in S : f[x] \in Int /\ f[x] = f[x] - f[x] OBVIOUS
<1>2. SumFunctionOnSet(f, S) = SumFunctionOnSet(f, S) - SumFunctionOnSet(f, S) BY <1>1, SumLess
<1>3. SumFunctionOnSet(f, S) \in Int BY <1>1, SumInt
<1>. QED BY <1>2, <1>3

BytesOf(held) == [i \in DOMAIN held |-> held[i].bytes]

LEMMA SumOfIs ==
    ASSUME NEW held
    PROVE  SumOf(held) = SumFunctionOnSet(BytesOf(held), DOMAIN held)
BY DEF SumOf, BytesOf, SumFunction

LEMMA HeldIs ==
    ASSUME NEW held \in Seq(Packets)
    PROVE  /\ Len(held) \in Nat /\ DOMAIN held = 1 .. Len(held) /\ IsFiniteSet(DOMAIN held)
           /\ \A i \in DOMAIN held : /\ held[i] \in Packets
                                     /\ BytesOf(held)[i] = held[i].bytes
                                     /\ BytesOf(held)[i] \in Nat \ {0}
<1>1. /\ Len(held) \in Nat /\ DOMAIN held = 1 .. Len(held)
      /\ \A i \in DOMAIN held : held[i] \in Packets
    BY LenProperties, ElementOfSeq
<1>2. IsFiniteSet(1 .. Len(held)) BY <1>1, FS_Interval
<1>3. \A p \in Packets : p.bytes \in Nat \ {0} BY QueueAssumption DEF QueueAssumption, Packet
<1>. QED BY <1>1, <1>2, <1>3 DEF BytesOf

LEMMA SumOfNat ==
    ASSUME NEW held \in Seq(Packets)
    PROVE  SumOf(held) \in Nat
BY HeldIs, SumNat, SumOfIs

LEMMA SumOfEmpty == SumOf(<< >>) = 0
<1>1. DOMAIN << >> = {} OBVIOUS
<1>. QED BY <1>1, SumOfIs, SumOfNone

LEMMA SumOfAppend ==
    ASSUME NEW held \in Seq(Packets), NEW p \in Packets
    PROVE  SumOf(Append(held, p)) = SumOf(held) + p.bytes
<1>. DEFINE more == Append(held, p)
            n == Len(held) + 1
<1>1. more \in Seq(Packets) BY AppendProperties
<1>2. /\ Len(held) \in Nat /\ DOMAIN held = 1 .. Len(held) /\ DOMAIN more = 1 .. n
      /\ more[n] = p /\ \A i \in 1 .. Len(held) : more[i] = held[i]
    BY AppendPlaces
<1>. HIDE DEF more
<1>3. DOMAIN more = DOMAIN held \cup {n} /\ n \notin DOMAIN held BY <1>2
<1>4. \A i \in DOMAIN more : BytesOf(more)[i] = more[i].bytes /\ BytesOf(more)[i] \in Int
    BY <1>1, HeldIs
<1>5. IsFiniteSet(DOMAIN held) /\ \A i \in DOMAIN held :
        BytesOf(held)[i] = held[i].bytes /\ BytesOf(held)[i] \in Int
    BY HeldIs
<1>. HIDE DEF n
<1>6. SumFunctionOnSet(BytesOf(more), DOMAIN held \cup {n})
        = SumFunctionOnSet(BytesOf(more), DOMAIN held) + BytesOf(more)[n]
    BY <1>3, <1>4, <1>5, SumAdds
<1>7. BytesOf(more)[n] = p.bytes BY <1>2, <1>3, <1>4
<1>8. \A i \in DOMAIN held : BytesOf(more)[i] = BytesOf(held)[i] BY <1>2, <1>3, <1>4, <1>5
<1>9. SumFunctionOnSet(BytesOf(more), DOMAIN held) = SumFunctionOnSet(BytesOf(held), DOMAIN held)
    BY <1>5, <1>8, SumSame
<1>. QED BY <1>3, <1>6, <1>7, <1>9, SumOfIs DEF more

\* What is left when the first n are taken.
LEMMA SumOfRest ==
    ASSUME NEW held \in Seq(Packets), NEW n \in Nat, n <= Len(held)
    PROVE  /\ SubSeq(held, 1, n) \in Seq(Packets)
           /\ SubSeq(held, n + 1, Len(held)) \in Seq(Packets)
           /\ Len(SubSeq(held, n + 1, Len(held))) = Len(held) - n
           /\ SumOf(SubSeq(held, n + 1, Len(held))) = SumOf(held) - SumOf(SubSeq(held, 1, n))
<1>. DEFINE l == Len(held)
            first == SubSeq(held, 1, n)
            rest == SubSeq(held, n + 1, l)
            at == [i \in 1 .. l - n |-> i + n]
<1>1. /\ l \in Nat /\ DOMAIN held = 1 .. l /\ IsFiniteSet(DOMAIN held)
      /\ \A i \in 1 .. l : held[i] \in Packets /\ BytesOf(held)[i] = held[i].bytes
                           /\ BytesOf(held)[i] \in Int
    BY HeldIs
<1>2. /\ first \in Seq(Packets) /\ DOMAIN first = 1 .. n
      /\ \A i \in 1 .. n : first[i] = held[i]
    <2>1. \A i \in 1 .. n : held[i] \in Packets BY <1>1
    <2>. QED BY <1>1, <2>1, SubSeqProperties
<1>3. /\ rest \in Seq(Packets) /\ Len(rest) = l - n /\ DOMAIN rest = 1 .. l - n
      /\ \A i \in 1 .. l - n : rest[i] = held[i + n]
    <2>1. \A i \in n + 1 .. l : held[i] \in Packets BY <1>1
    <2>2. /\ rest \in Seq(Packets)
          /\ Len(rest) = IF n + 1 <= l THEN l - (n + 1) + 1 ELSE 0
          /\ \A i \in 1 .. l - (n + 1) + 1 : rest[i] = held[(n + 1) + i - 1]
        BY <1>1, <2>1, SubSeqProperties
    <2>3. Len(rest) = l - n
        <3>1. n <= l OBVIOUS
        <3>. HIDE DEF l, rest
        <3>2. CASE n + 1 <= l BY <1>1, <2>2, <3>2
        <3>3. CASE ~(n + 1 <= l) BY <1>1, <2>2, <3>1, <3>3
        <3>. QED BY <3>2, <3>3
    <2>4. DOMAIN rest = 1 .. l - n BY <2>2, <2>3, LenProperties
    <2>5. \A i \in 1 .. l - n : (n + 1) + i - 1 = i + n /\ i \in 1 .. l - (n + 1) + 1 BY <1>1
    <2>. QED BY <2>2, <2>3, <2>4, <2>5
<1>. HIDE DEF first, rest, l
<1>4. SumOf(first) = SumFunctionOnSet(BytesOf(held), 1 .. n)
    <2>1. \A i \in 1 .. n : i \in 1 .. l BY <1>1 DEF l
    <2>2. \A i \in 1 .. n : BytesOf(first)[i] = BytesOf(held)[i] BY <1>1, <1>2, <2>1, HeldIs
    <2>3. IsFiniteSet(1 .. n) BY FS_Interval
    <2>4. SumFunctionOnSet(BytesOf(first), 1 .. n) = SumFunctionOnSet(BytesOf(held), 1 .. n)
        BY <1>1, <2>1, <2>2, <2>3, SumSame
    <2>. QED BY <1>2, <2>4, SumOfIs
<1>5. SumOf(rest) = SumFunctionOnSet(BytesOf(held), n + 1 .. l)
    <2>1. \A i \in 1 .. l - n : i + n \in 1 .. l BY <1>1
    <2>2. \A i \in 1 .. l - n : at[i] = i + n OBVIOUS
    <2>3. {at[i] : i \in 1 .. l - n} = n + 1 .. l
        <3>1. \A i \in 1 .. l - n : at[i] \in n + 1 .. l BY <1>1
        <3>2. \A j \in n + 1 .. l : j - n \in 1 .. l - n /\ at[j - n] = j BY <1>1
        <3>. QED BY <3>1, <3>2
    <2>4. \A i, j \in 1 .. l - n : at[i] = at[j] => i = j BY <1>1
    <2>. HIDE DEF at
    <2>5. \A i \in 1 .. l - n : /\ BytesOf(rest)[i] \in Int
                                /\ BytesOf(held)[at[i]] = BytesOf(rest)[i]
        <3>1. \A i \in DOMAIN rest : BytesOf(rest)[i] = rest[i].bytes /\ BytesOf(rest)[i] \in Int
            BY <1>3, HeldIs
        <3>2. \A i \in 1 .. l - n : BytesOf(held)[i + n] = held[i + n].bytes BY <1>1, <2>1
        <3>. QED BY <1>3, <2>2, <3>1, <3>2
    <2>6. IsFiniteSet(1 .. l - n) BY <1>1, FS_Interval
    <2>7. SumFunctionOnSet(BytesOf(held), {at[i] : i \in 1 .. l - n})
            = SumFunctionOnSet(BytesOf(rest), 1 .. l - n)
        <3>1. PICK D : D = 1 .. l - n OBVIOUS
        <3>2. /\ IsFiniteSet(D) /\ \A i, j \in D : at[i] = at[j] => i = j
              /\ \A i \in D : BytesOf(rest)[i] \in Int /\ BytesOf(held)[at[i]] = BytesOf(rest)[i]
            BY <2>4, <2>5, <2>6, <3>1
        <3>3. PICK f, g, k : f = BytesOf(rest) /\ g = BytesOf(held) /\ k = at OBVIOUS
        <3>4. /\ \A i, j \in D : k[i] = k[j] => i = j
              /\ \A i \in D : f[i] \in Int /\ g[k[i]] = f[i]
            BY ONLY <3>2, <3>3
        <3>5. SumFunctionOnSet(g, {k[i] : i \in D}) = SumFunctionOnSet(f, D)
            BY ONLY <3>2, <3>4, SumMoves
        <3>. QED BY ONLY <3>1, <3>3, <3>5
    <2>8. SumOf(rest) = SumFunctionOnSet(BytesOf(rest), 1 .. l - n) BY <1>3, SumOfIs
    <2>. QED BY <2>3, <2>7, <2>8
<1>6. 1 .. n \in SUBSET DOMAIN held /\ DOMAIN held \ (1 .. n) = n + 1 .. l BY <1>1 DEF l
<1>7. SumFunctionOnSet(BytesOf(held), DOMAIN held \ (1 .. n))
        = SumFunctionOnSet(BytesOf(held), DOMAIN held) - SumFunctionOnSet(BytesOf(held), 1 .. n)
    BY <1>1, <1>6, SumWithout
<1>8. SumOf(rest) = SumOf(held) - SumOf(first) BY <1>4, <1>5, <1>6, <1>7, SumOfIs
<1>. QED BY <1>2, <1>3, <1>8 DEF l, first, rest

LEMMA SumOfTail ==
    ASSUME NEW held \in Seq(Packets), held # << >>
    PROVE  /\ Head(held) \in Packets /\ Tail(held) \in Seq(Packets)
           /\ Len(Tail(held)) = Len(held) - 1
           /\ SumOf(Tail(held)) = SumOf(held) - Head(held).bytes
<1>1. Len(held) \in Nat \ {0} /\ Head(held) = held[1] /\ Head(held) \in Packets
    BY HeadTailProperties, TailPlaces
<1>2. Tail(held) = SubSeq(held, 2, Len(held)) BY TailIsSubSeq
<1>3. 1 \in Nat /\ 1 <= Len(held) /\ 1 + 1 = 2 BY <1>1
<1>4. SubSeq(held, 1, 1) = Append(<< >>, held[1])
    <2>. DEFINE one == Append(<< >>, held[1])
    <2>1. << >> \in Seq(Packets) /\ Len(<< >>) = 0 OBVIOUS
    <2>2. one \in Seq(Packets) /\ Len(one) = 1 /\ one[1] = held[1]
        BY <1>1, <2>1, AppendProperties, AppendPlaces
    <2>3. \A i \in 1 .. 1 : held[i] \in Packets BY <1>1
    <2>4. /\ SubSeq(held, 1, 1) \in Seq(Packets) /\ Len(SubSeq(held, 1, 1)) = 1
          /\ SubSeq(held, 1, 1)[1] = held[1]
        BY <2>3, SubSeqProperties
    <2>5. \A i \in 1 .. 1 : SubSeq(held, 1, 1)[i] = one[i] BY <2>2, <2>4
    <2>. HIDE DEF one
    <2>6. SubSeq(held, 1, 1) = one BY <2>2, <2>4, <2>5, SeqEqual
    <2>. QED BY <2>6 DEF one
<1>5. Head(held).bytes \in Int BY <1>1, QueueAssumption DEF QueueAssumption, Packet
<1>6. SumOf(SubSeq(held, 1, 1)) = Head(held).bytes
    <2>1. << >> \in Seq(Packets) OBVIOUS
    <2>. DEFINE none == << >>
                one == Append(none, held[1])
    <2>2. SumOf(none) = 0 /\ SumOf(one) = SumOf(none) + Head(held).bytes
        BY <1>1, <2>1, SumOfAppend, SumOfEmpty
    <2>3. SubSeq(held, 1, 1) = one BY <1>4
    <2>. HIDE DEF none, one
    <2>4. PICK h, s : h = Head(held).bytes /\ s = SumOf(one) OBVIOUS
    <2>5. s = h BY <1>5, <2>2, <2>4
    <2>6. SumOf(SubSeq(held, 1, 1)) = SumOf(one) BY ONLY <2>3, Zenon
    <2>. QED BY ONLY <2>4, <2>5, <2>6, Zenon
<1>7. /\ SubSeq(held, 1 + 1, Len(held)) \in Seq(Packets)
      /\ Len(SubSeq(held, 1 + 1, Len(held))) = Len(held) - 1
      /\ SumOf(SubSeq(held, 1 + 1, Len(held))) = SumOf(held) - SumOf(SubSeq(held, 1, 1))
    BY <1>3, SumOfRest
<1>8. SubSeq(held, 1 + 1, Len(held)) = Tail(held) BY <1>2, <1>3
<1>. QED BY <1>1, <1>6, <1>7, <1>8

LEMMA SumOfKept ==
    ASSUME NEW held \in Seq(Packets), NEW at \in SUBSET DOMAIN held
    PROVE  /\ KeepOnly(held, at) \in Seq(Packets) /\ Len(KeepOnly(held, at)) = Cardinality(at)
           /\ SumOf(KeepOnly(held, at)) = SumFunctionOnSet(BytesOf(held), at)
<1>. DEFINE kept == KeepOnly(held, at)
            n == Cardinality(at)
            nth == [i \in 1 .. n |-> Nth(at, i)]
<1>1. /\ Len(held) \in Nat /\ DOMAIN held = 1 .. Len(held) /\ at \in SUBSET (1 .. Len(held))
      /\ \A i \in DOMAIN held : BytesOf(held)[i] = held[i].bytes /\ BytesOf(held)[i] \in Int
    BY HeldIs
<1>2. n \in Nat /\ IsFiniteSet(at) BY <1>1, FinitePlaces
<1>3. kept \in Seq(Packets) BY KeepOnlyTyped
<1>4. DOMAIN kept = 1 .. n /\ \A i \in 1 .. n : kept[i] = held[Nth(at, i)] BY DEF KeepOnly
<1>5. Len(kept) = n BY <1>2, <1>3, <1>4, LenProperties
<1>6. \A i \in 1 .. n : nth[i] \in at /\ Cardinality(UpTo(at, nth[i])) = i BY <1>1, NthThere
<1>7. \A i, j \in 1 .. n : nth[i] = nth[j] => i = j BY <1>6
<1>. HIDE DEF nth, kept, n
<1>8. {nth[i] : i \in 1 .. n} = at
    <2>. DEFINE img == {nth[i] : i \in 1 .. n}
    <2>1. img \in SUBSET at BY <1>6
    <2>2. IsFiniteSet(1 .. n) /\ Cardinality(1 .. n) = n BY <1>2, FS_Interval
    <2>3. nth \in Bijection(1 .. n, img)
        <3>1. nth \in [1 .. n -> img] BY DEF nth
        <3>. QED BY <1>7, <3>1 DEF Bijection, Injection, Surjection, IsInjective
    <2>4. Cardinality(img) = n
        <3>1. ExistsBijection(1 .. n, img) BY <2>3 DEF ExistsBijection
        <3>. HIDE DEF img
        <3>. QED BY <2>2, <3>1, FS_Bijection
    <2>. HIDE DEF img
    <2>5. img = at BY <1>2, <2>1, <2>4, FS_Subset DEF n
    <2>. QED BY <2>5 DEF img
<1>9. \A i \in 1 .. n : BytesOf(kept)[i] \in Int /\ BytesOf(held)[nth[i]] = BytesOf(kept)[i]
    <2>0. \A i \in DOMAIN kept : BytesOf(kept)[i] = kept[i].bytes /\ BytesOf(kept)[i] \in Int
        BY <1>3, HeldIs
    <2>1. \A i \in 1 .. n : BytesOf(kept)[i] = kept[i].bytes /\ BytesOf(kept)[i] \in Int
        BY <1>4, <2>0
    <2>2. \A i \in 1 .. n : kept[i] = held[nth[i]] BY <1>4 DEF nth
    <2>. QED BY <1>1, <1>6, <2>1, <2>2
<1>10. IsFiniteSet(1 .. n) BY <1>2, FS_Interval
<1>11. SumFunctionOnSet(BytesOf(held), {nth[i] : i \in 1 .. n})
        = SumFunctionOnSet(BytesOf(kept), 1 .. n)
    <2>1. PICK D : D = 1 .. n OBVIOUS
    <2>2. /\ IsFiniteSet(D) /\ \A i, j \in D : nth[i] = nth[j] => i = j
          /\ \A i \in D : BytesOf(kept)[i] \in Int /\ BytesOf(held)[nth[i]] = BytesOf(kept)[i]
        BY <1>7, <1>9, <1>10, <2>1
    <2>3. SumFunctionOnSet(BytesOf(held), {nth[i] : i \in D}) = SumFunctionOnSet(BytesOf(kept), D)
        BY <2>2, SumMoves
    <2>. QED BY <2>1, <2>3
<1>12. SumOf(kept) = SumFunctionOnSet(BytesOf(kept), 1 .. n) BY <1>4, SumOfIs
<1>. QED BY <1>3, <1>5, <1>8, <1>11, <1>12 DEF kept, n

\* What the packets of each bucket come to, and the packets of all.
Lengths == [b \in Buckets |-> Len(packets[b])]

Exact ==
    /\ bytes = [b \in Buckets |-> SumOf(packets[b])]
    /\ total = SumFunctionOnSet(bytes, Buckets)
    /\ count = SumFunctionOnSet(Lengths, Buckets)
    /\ total <= Limit

LEMMA ExactIs ==
    ASSUME HoldsPackets, Exact
    PROVE  /\ IsFiniteSet(Buckets) /\ Limit \in Nat
           /\ total \in Nat /\ count \in Nat
           /\ \A b \in Buckets : /\ bytes[b] \in Nat /\ bytes[b] = SumOf(packets[b])
                                 /\ Lengths[b] \in Nat /\ Lengths[b] = Len(packets[b])
<1>1. IsFiniteSet(Buckets) /\ Limit \in Nat BY QueueAssumption DEF QueueAssumption
<1>2. \A b \in Buckets : packets[b] \in Seq(Packets) BY DEF HoldsPackets
<1>3. \A b \in Buckets : SumOf(packets[b]) \in Nat /\ Len(packets[b]) \in Nat
    BY <1>2, SumOfNat, LenProperties
<1>4. \A b \in Buckets : bytes[b] \in Nat /\ Lengths[b] \in Nat BY <1>3 DEF Exact, Lengths
<1>5. total \in Nat /\ count \in Nat BY <1>1, <1>4, SumNat DEF Exact
<1>. QED BY <1>1, <1>3, <1>4, <1>5 DEF Exact, Lengths

\* The counts follow what one bucket holds.
LEMMA OneBucketChanges ==
    ASSUME HoldsPackets, Exact, NEW b \in Buckets, NEW held \in Seq(Packets),
           packets' = [packets EXCEPT ![b] = held],
           bytes' = [bytes EXCEPT ![b] = SumOf(held)],
           total' = total - SumOf(packets[b]) + SumOf(held), total' <= Limit,
           count' = count - Len(packets[b]) + Len(held)
    PROVE  Exact'
<1>1. /\ IsFiniteSet(Buckets) /\ total \in Nat /\ count \in Nat
      /\ \A c \in Buckets : /\ bytes[c] \in Nat /\ bytes[c] = SumOf(packets[c])
                            /\ Lengths[c] \in Nat /\ Lengths[c] = Len(packets[c])
    BY ExactIs
<1>2. SumOf(held) \in Int /\ Len(held) \in Int BY SumOfNat, LenProperties
<1>3. \A c \in Buckets : /\ c # b => packets'[c] = packets[c] /\ bytes'[c] = bytes[c]
                         /\ c = b => packets'[c] = held /\ bytes'[c] = SumOf(held)
    BY DEF HoldsPackets, Exact
<1>4. bytes' = [c \in Buckets |-> SumOf(packets'[c])]
    <2>1. bytes' = [c \in Buckets |-> bytes'[c]] BY DEF Exact
    <2>2. \A c \in Buckets : bytes'[c] = SumOf(packets'[c]) BY <1>1, <1>3
    <2>. QED BY <2>1, <2>2
<1>5. \A c \in Buckets : /\ c # b => Lengths'[c] = Lengths[c]
                         /\ c = b => Lengths'[c] = Len(held)
    BY <1>3 DEF Lengths
<1>6. SumFunctionOnSet(bytes', Buckets) = SumFunctionOnSet(bytes, Buckets) - bytes[b] + bytes'[b]
    <2>1. /\ bytes'[b] \in Int
          /\ \A c \in Buckets : bytes[c] \in Int /\ (c # b => bytes'[c] = bytes[c])
        BY <1>1, <1>2, <1>3
    <2>2. PICK f, g : f = bytes /\ g = bytes' OBVIOUS
    <2>3. g[b] \in Int /\ \A c \in Buckets : f[c] \in Int /\ (c # b => g[c] = f[c])
        BY ONLY <2>1, <2>2
    <2>4. SumFunctionOnSet(g, Buckets) = SumFunctionOnSet(f, Buckets) - f[b] + g[b]
        BY <1>1, <2>3, SumChanges
    <2>. QED BY ONLY <2>2, <2>4, Zenon
<1>7. SumFunctionOnSet(Lengths', Buckets)
        = SumFunctionOnSet(Lengths, Buckets) - Lengths[b] + Lengths'[b]
    BY <1>1, <1>2, <1>5, SumChanges
<1>8. total' = SumFunctionOnSet(bytes', Buckets) BY <1>1, <1>3, <1>6 DEF Exact
<1>9. count' = SumFunctionOnSet(Lengths', Buckets) BY <1>1, <1>5, <1>7 DEF Exact
<1>. QED BY <1>4, <1>8, <1>9 DEF Exact, Lengths

LEMMA FattestIs ==
    ASSUME HoldsPackets, Exact
    PROVE  /\ Fattest \in Buckets
           /\ \A c \in Buckets : bytes[c] <= bytes[Fattest]
<1>. DEFINE Over(b, c) == bytes[b] > bytes[c] \/ (bytes[b] = bytes[c] /\ b >= c)
            Good == {s \in SUBSET Buckets : s # {} => \E b \in s : \A c \in s : Over(b, c)}
<1>1. IsFiniteSet(Buckets) /\ \A b \in Buckets : bytes[b] \in Nat /\ b \in Nat
    BY ExactIs, QueueAssumption DEF QueueAssumption
<1>2. Buckets # {}
    <2>1. PICK p \in Packets : TRUE BY QueueAssumption DEF QueueAssumption
    <2>2. BucketOf[p.conn] \in Buckets BY QueueAssumption DEF QueueAssumption, Packet
    <2>. QED BY <2>2
<1>3. {} \in Good OBVIOUS
<1>4. ASSUME NEW s \in SUBSET Buckets, NEW x \in Buckets \ s, s \in Good
      PROVE  s \cup {x} \in Good
    <2>1. Over(x, x) BY <1>1
    <2>2. CASE s = {} BY <2>1, <2>2
    <2>3. CASE s # {}
        <3>1. PICK b \in s : \A c \in s : Over(b, c) BY <1>4, <2>3
        <3>2. CASE Over(b, x)
            <4>1. \A c \in s \cup {x} : Over(b, c) BY <3>1, <3>2
            <4>. HIDE DEF Over
            <4>. QED BY <3>1, <4>1
        <3>3. CASE ~Over(b, x)
            <4>1. \A c \in s : Over(x, c) BY <1>1, <3>1, <3>3
            <4>2. \A c \in s \cup {x} : Over(x, c) BY <2>1, <4>1
            <4>. HIDE DEF Over
            <4>. QED BY <4>2
        <3>. QED BY <3>2, <3>3
    <2>. QED BY <2>2, <2>3
<1>5. Buckets \in Good
    <2>. HIDE DEF Good
    <2>. QED BY <1>1, <1>3, <1>4, SetInduction
<1>6. \E b \in Buckets : \A c \in Buckets : Over(b, c) BY <1>2, <1>5
<1>7. Fattest \in Buckets /\ \A c \in Buckets : Over(Fattest, c) BY <1>6 DEF Fattest
<1>. QED BY <1>1, <1>7

LEMMA DropFattestCounts ==
    ASSUME HoldsPackets, Exact, DropFattest
    PROVE  Exact'
<1>. DEFINE b == Fattest
            held == packets[b]
<1>1. /\ held # << >>
      /\ packets' = [packets EXCEPT ![b] = Tail(held)]
      /\ bytes' = [bytes EXCEPT ![b] = bytes[b] - Head(held).bytes]
      /\ total' = total - Head(held).bytes /\ count' = count - 1
    BY DEF DropFattest
<1>2. b \in Buckets BY FattestIs
<1>3. held \in Seq(Packets) BY <1>2 DEF HoldsPackets
<1>. HIDE DEF b, held
<1>4. /\ Head(held) \in Packets /\ Tail(held) \in Seq(Packets)
      /\ Len(Tail(held)) = Len(held) - 1
      /\ SumOf(Tail(held)) = SumOf(held) - Head(held).bytes
    BY <1>1, <1>3, SumOfTail
<1>5. Head(held).bytes \in Nat BY <1>4, QueueAssumption DEF QueueAssumption, Packet
<1>6. /\ bytes[b] = SumOf(held) /\ SumOf(held) \in Nat /\ Len(held) \in Nat
      /\ total \in Nat /\ count \in Nat /\ Limit \in Nat /\ total <= Limit
    BY <1>2, <1>3, ExactIs, LenProperties DEF held, Exact
<1>7. bytes' = [bytes EXCEPT ![b] = SumOf(Tail(held))] BY <1>1, <1>4, <1>6
<1>8. /\ total' = total - SumOf(packets[b]) + SumOf(Tail(held)) /\ total' <= Limit
      /\ count' = count - Len(packets[b]) + Len(Tail(held))
    BY <1>1, <1>4, <1>5, <1>6 DEF held
<1>. QED BY <1>1, <1>2, <1>4, <1>7, <1>8, OneBucketChanges

LEMMA ServeTakes ==
    ASSUME IInv, HoldsPackets, Exact, NEW n \in 0 .. count, Serve(n)
    PROVE  Exact'
<1>. DEFINE b == Turn
            held == packets[b]
            first == SubSeq(held, 1, n + 1)
            rest == SubSeq(held, (n + 1) + 1, Len(held))
<1>0. n \in Nat /\ (n + 1) + 1 = n + 2 /\ n + 1 \in Nat BY ExactIs
<1>1. /\ Queue # << >> /\ n < Len(held)
      /\ packets' = [packets EXCEPT ![b] = SubSeq(held, n + 2, Len(held))]
      /\ bytes' = [bytes EXCEPT ![b] = bytes[b] - SumOf(first)]
      /\ total' = total - SumOf(first) /\ count' = count - (n + 1)
    BY DEF Serve, Looks, MayDrop, Taken
<1>2. b \in Buckets BY <1>1, TurnIsAHead DEF IInv
<1>3. held \in Seq(Packets) BY <1>2 DEF HoldsPackets
<1>. HIDE DEF b, held
<1>4. /\ bytes[b] = SumOf(held) /\ SumOf(held) \in Nat /\ Len(held) \in Nat
      /\ total \in Nat /\ count \in Nat /\ Limit \in Nat /\ total <= Limit
    BY <1>2, <1>3, ExactIs, LenProperties DEF held, Exact
<1>5. n + 1 <= Len(held) BY <1>0, <1>1, <1>4
<1>6. /\ first \in Seq(Packets) /\ rest \in Seq(Packets)
      /\ Len(rest) = Len(held) - (n + 1)
      /\ SumOf(rest) = SumOf(held) - SumOf(first)
    BY <1>0, <1>3, <1>5, SumOfRest
<1>7. packets' = [packets EXCEPT ![b] = rest] BY <1>0, <1>1
<1>. HIDE DEF first, rest
<1>8. SumOf(first) \in Nat BY <1>6, SumOfNat
<1>9. bytes' = [bytes EXCEPT ![b] = SumOf(rest)] BY <1>1, <1>4, <1>6
<1>10. /\ total' = total - SumOf(packets[b]) + SumOf(rest) /\ total' <= Limit
       /\ count' = count - Len(packets[b]) + Len(rest)
    BY <1>0, <1>1, <1>4, <1>6, <1>8 DEF held
<1>. QED BY <1>2, <1>6, <1>7, <1>9, <1>10, OneBucketChanges

LEMMA AdmitCounts ==
    ASSUME IInv, HoldsPackets, Exact, Admit
    PROVE  Exact'
<1>. DEFINE p == Head(arriving)
            b == BucketOf[p.conn]
            held == packets[b]
            gone == Gone(held, p)
            thinned == SumFunctionOnSet(BytesOf(held), gone)
            kept == KeepOnly(held, DOMAIN held \ gone)
<1>1. p \in Packets /\ b \in Buckets /\ p.bytes \in Nat /\ p.bytes <= Limit
    <2>1. p \in Packets BY DEF IInv, ArrivingOK, Admit
    <2>. QED BY <2>1, QueueAssumption DEF QueueAssumption, Packet
<1>2. /\ total + p.bytes > Limit => bytes[Fattest] = 0
      /\ packets' = [packets EXCEPT ![b] = Append(kept, p)]
      /\ bytes' = [bytes EXCEPT ![b] = bytes[b] - thinned + p.bytes]
      /\ total' = total - thinned + p.bytes /\ count' = count - Cardinality(gone) + 1
    BY DEF Admit, NoRoom, Thin, BytesOf
<1>3. held \in Seq(Packets) BY <1>1 DEF HoldsPackets
<1>4. gone \in SUBSET DOMAIN held BY DEF Gone, MadeRedundant
<1>. HIDE DEF p, b, held, gone
<1>5. /\ bytes[b] = SumOf(held) /\ SumOf(held) \in Nat /\ Len(held) \in Nat
      /\ total \in Nat /\ count \in Nat /\ Limit \in Nat /\ total <= Limit
    BY <1>1, <1>3, ExactIs, LenProperties DEF held, Exact
<1>6. /\ DOMAIN held = 1 .. Len(held) /\ IsFiniteSet(DOMAIN held)
      /\ \A i \in DOMAIN held : BytesOf(held)[i] \in Nat
    BY <1>3, HeldIs
<1>7. IsFiniteSet(gone) /\ Cardinality(gone) \in Nat /\ thinned \in Nat
    <2>1. IsFiniteSet(gone) BY <1>4, <1>6, FS_Subset
    <2>. QED BY <1>4, <1>6, <2>1, FS_CardinalityType, SumNat
<1>8. Cardinality(DOMAIN held \ gone) = Len(held) - Cardinality(gone)
    <2>1. Cardinality(DOMAIN held) = Len(held)
        <3>1. 1 \in Int /\ Len(held) \in Int BY <1>5
        <3>2. Cardinality(1 .. Len(held)) = IF 1 > Len(held) THEN 0 ELSE Len(held) - 1 + 1
            BY <3>1, FS_Interval
        <3>3. Cardinality(1 .. Len(held)) = Len(held) BY <1>5, <3>2
        <3>. QED BY ONLY <1>6, <3>3, Zenon
    <2>2. DOMAIN held \cap gone = gone BY <1>4
    <2>3. Cardinality(DOMAIN held \ gone)
            = Cardinality(DOMAIN held) - Cardinality(DOMAIN held \cap gone)
        <3>1. PICK D : D = DOMAIN held OBVIOUS
        <3>2. IsFiniteSet(D) BY <1>6, <3>1
        <3>3. Cardinality(D \ gone) = Cardinality(D) - Cardinality(D \cap gone)
            BY ONLY <3>2, FS_Difference
        <3>. QED BY ONLY <3>1, <3>3, Zenon
    <2>. QED BY ONLY <2>1, <2>2, <2>3, Zenon
<1>9. SumFunctionOnSet(BytesOf(held), DOMAIN held \ gone) = SumOf(held) - thinned
    BY <1>4, <1>6, SumWithout, SumOfIs
<1>10. /\ kept \in Seq(Packets) /\ Len(kept) = Len(held) - Cardinality(gone)
       /\ SumOf(kept) = SumOf(held) - thinned
    BY <1>3, <1>8, <1>9, SumOfKept
<1>. HIDE DEF kept, thinned
<1>11. /\ Append(kept, p) \in Seq(Packets) /\ Len(Append(kept, p)) = Len(kept) + 1
       /\ SumOf(Append(kept, p)) = SumOf(kept) + p.bytes
    BY <1>1, <1>10, AppendProperties, SumOfAppend
<1>12. total' <= Limit
    <2>0. \A m, t, k, z \in Nat : (m + k > z => m = 0) /\ k <= z => m - t + k <= z OBVIOUS
    <2>1. CASE ~(total + p.bytes > Limit) BY <1>1, <1>2, <1>5, <1>7, <2>0, <2>1
    <2>2. CASE bytes[Fattest] = 0
        <3>1. \A c \in Buckets : bytes[c] = 0
            BY <2>2, FattestIs, ExactIs
        <3>2. total = 0
            <4>1. IsFiniteSet(Buckets) BY ExactIs
            <4>. QED BY <3>1, <4>1, SumOfZeros DEF Exact
        <3>. QED BY <1>1, <1>2, <1>5, <1>7, <2>0, <3>2
    <2>. QED BY <1>2, <2>1, <2>2
<1>13. bytes' = [bytes EXCEPT ![b] = SumOf(Append(kept, p))]
    <2>1. bytes[b] - thinned + p.bytes = SumOf(Append(kept, p)) BY <1>5, <1>10, <1>11
    <2>. QED BY <1>2, <2>1
<1>14. /\ total' = total - SumOf(packets[b]) + SumOf(Append(kept, p))
       /\ count' = count - Len(packets[b]) + Len(Append(kept, p))
    <2>1. PICK s, t, l, c, k, m, g :
            /\ s = SumOf(held) /\ t = thinned /\ l = Len(held) /\ c = Cardinality(gone)
            /\ k = p.bytes /\ m = total /\ g = count
        OBVIOUS
    <2>2. /\ s \in Int /\ t \in Int /\ l \in Int /\ c \in Int /\ k \in Int /\ m \in Int /\ g \in Int
        BY <1>1, <1>5, <1>7, <2>1
    <2>3. m - t + k = m - s + ((s - t) + k) /\ g - c + 1 = g - l + ((l - c) + 1) BY ONLY <2>2
    <2>. QED BY <1>2, <1>10, <1>11, <2>1, <2>3 DEF held
<1>. QED BY <1>1, <1>2, <1>11, <1>12, <1>13, <1>14, OneBucketChanges

LEMMA ArriveCounts ==
    ASSUME HoldsPackets, Exact, NEW s \in Stale, Arrive(s)
    PROVE  Exact'
<1>. DEFINE old == [b \in Buckets |-> SumOf(SubSeq(packets[b], 1, s[b]))]
<1>1. /\ packets' = [b \in Buckets |-> SubSeq(packets[b], s[b] + 1, Len(packets[b]))]
      /\ bytes' = [b \in Buckets |-> bytes[b] - old[b]]
      /\ total' = total - SumFunctionOnSet(old, Buckets)
      /\ count' = count - SumFunctionOnSet(s, Buckets)
    <2>1. DOMAIN old = Buckets /\ DOMAIN s = Buckets BY DEF Stale
    <2>. QED BY <2>1 DEF Arrive, SumFunction
<1>2. /\ IsFiniteSet(Buckets) /\ total \in Nat /\ count \in Nat /\ Limit \in Nat /\ total <= Limit
      /\ \A b \in Buckets : /\ bytes[b] \in Nat /\ bytes[b] = SumOf(packets[b])
                            /\ Lengths[b] \in Nat /\ Lengths[b] = Len(packets[b])
    BY ExactIs DEF Exact
<1>3. \A b \in Buckets : /\ packets[b] \in Seq(Packets)
                         /\ s[b] \in Nat /\ s[b] <= Len(packets[b])
    BY <1>2 DEF HoldsPackets, Stale
<1>4. ASSUME NEW b \in Buckets
      PROVE  /\ old[b] \in Nat /\ SumOf(packets'[b]) = bytes[b] - old[b]
             /\ Lengths'[b] = Lengths[b] - s[b]
    <2>1. /\ SubSeq(packets[b], 1, s[b]) \in Seq(Packets)
          /\ Len(SubSeq(packets[b], s[b] + 1, Len(packets[b]))) = Len(packets[b]) - s[b]
          /\ SumOf(SubSeq(packets[b], s[b] + 1, Len(packets[b])))
                = SumOf(packets[b]) - SumOf(SubSeq(packets[b], 1, s[b]))
        BY <1>3, SumOfRest
    <2>2. old[b] = SumOf(SubSeq(packets[b], 1, s[b])) OBVIOUS
    <2>3. packets'[b] = SubSeq(packets[b], s[b] + 1, Len(packets[b])) BY <1>1
    <2>4. Lengths'[b] = Len(packets'[b]) BY DEF Lengths
    <2>5. old[b] \in Nat BY <2>1, <2>2, SumOfNat
    <2>. QED BY <1>2, <2>1, <2>2, <2>3, <2>4, <2>5
<1>. HIDE DEF old
<1>5. \A b \in Buckets : bytes'[b] = bytes[b] - old[b] BY <1>1
<1>6. SumFunctionOnSet(bytes', Buckets)
        = SumFunctionOnSet(bytes, Buckets) - SumFunctionOnSet(old, Buckets)
    <2>1. \A b \in Buckets : bytes[b] \in Int /\ old[b] \in Int /\ bytes'[b] = bytes[b] - old[b]
        BY <1>2, <1>4, <1>5
    <2>. QED BY <1>2, <2>1, SumLess
<1>7. SumFunctionOnSet(Lengths', Buckets)
        = SumFunctionOnSet(Lengths, Buckets) - SumFunctionOnSet(s, Buckets)
    <2>1. \A b \in Buckets : Lengths[b] \in Int /\ s[b] \in Int /\ Lengths'[b] = Lengths[b] - s[b]
        BY <1>2, <1>3, <1>4
    <2>. QED BY <1>2, <2>1, SumLess
<1>8. SumFunctionOnSet(old, Buckets) \in Nat BY <1>2, <1>4, SumNat
<1>9. total' <= Limit BY <1>1, <1>2, <1>8
<1>10. bytes' = [b \in Buckets |-> SumOf(packets'[b])] BY <1>1, <1>4
<1>11. total' = SumFunctionOnSet(bytes', Buckets) /\ count' = SumFunctionOnSet(Lengths', Buckets)
    BY <1>1, <1>6, <1>7 DEF Exact
<1>. QED BY <1>9, <1>10, <1>11 DEF Exact, Lengths

LEMMA StepKeepsCounts ==
    ASSUME IInv, HoldsPackets, Exact, [Next]_vars
    PROVE  Exact'
<1>1. ASSUME UNCHANGED <<packets, bytes, total, count>> PROVE Exact' BY <1>1 DEF Exact, Lengths
<1>2. ASSUME NEW p \in Packets, Push(p) PROVE Exact' BY <1>1, <1>2 DEF Push, innerVars
<1>3. CASE DropFattest BY <1>3, DropFattestCounts
<1>4. CASE Admit BY <1>4, AdmitCounts
<1>5. ASSUME NEW s \in Stale, Arrive(s) PROVE Exact' BY <1>5, ArriveCounts
<1>6. ASSUME NEW n \in 0 .. count, Serve(n) PROVE Exact' BY <1>6, ServeTakes
<1>7. CASE Rotate \/ RunDry \/ Close \/ Notify \/ NotifyClosed
    BY <1>1, <1>7 DEF Rotate, RunDry, Close, Notify, NotifyClosed, innerVars
<1>8. CASE Leave \/ Lock \/ Hand \/ Finish \/ Wait \/ Await \/ Wake \/ Sent
    BY <1>1, <1>8 DEF Leave, Lock, Hand, Finish, Wait, Await, Wake, Sent, innerVars
<1>9. CASE UNCHANGED vars BY <1>1, <1>9 DEF vars, innerVars
<1>. QED
    BY <1>2, <1>3, <1>4, <1>5, <1>6, <1>7, <1>8, <1>9 DEF Next, Producing, Consuming, Dequeue

LEMMA ExactInvariant == Spec => []Exact
<1>1. QueueInit => Exact
    <2>. SUFFICES ASSUME QueueInit PROVE Exact OBVIOUS
    <2>1. /\ packets = [b \in Buckets |-> << >>] /\ bytes = [b \in Buckets |-> 0]
          /\ total = 0 /\ count = 0
        BY DEF QueueInit
    <2>2. IsFiniteSet(Buckets) /\ Limit \in Nat BY QueueAssumption DEF QueueAssumption
    <2>3. bytes = [b \in Buckets |-> SumOf(packets[b])] BY <2>1, SumOfEmpty
    <2>4. \A b \in Buckets : bytes[b] = 0 /\ Lengths[b] = 0 BY <2>1 DEF Lengths
    <2>5. \A f : (\A b \in Buckets : f[b] = 0) => SumFunctionOnSet(f, Buckets) = 0
        BY <2>2, SumOfZeros
    <2>. QED BY <2>1, <2>2, <2>3, <2>4, <2>5 DEF Exact
<1>2. IInv /\ HoldsPackets /\ Exact /\ [Next]_vars => Exact' BY StepKeepsCounts
<1>. QED BY <1>1, <1>2, QueueInvariant, PacketsInvariant, PTL DEF Spec

\* Whatever is admitted, thinned, dropped for room, as stale or by CoDel, and
\* delivered, the counts are those of what is held, and it is within the limit.
THEOREM NothingIsMiscounted == Spec => []CountsAreExact
<1>1. HoldsPackets /\ Exact => CountsAreExact
    <2>. SUFFICES ASSUME HoldsPackets, Exact PROVE CountsAreExact OBVIOUS
    <2>1. \A b \in Buckets : bytes[b] = SumOf(packets[b]) BY DEF Exact
    <2>2. SumFunction(bytes) = SumFunctionOnSet(bytes, Buckets)
        <3>1. DOMAIN bytes = Buckets BY DEF Exact
        <3>. QED BY <3>1 DEF SumFunction
    <2>3. SumFunction(Lengths) = SumFunctionOnSet(Lengths, Buckets)
        <3>1. DOMAIN Lengths = Buckets BY DEF Lengths
        <3>. QED BY <3>1 DEF SumFunction
    <2>4. total = SumFunction(bytes) /\ total <= Limit BY <2>2 DEF Exact
    <2>5. count = SumFunction(Lengths) BY <2>3 DEF Exact
    <2>. QED BY <2>1, <2>4, <2>5 DEF CountsAreExact, Lengths
<1>. QED BY <1>1, ExactInvariant, PacketsInvariant, PTL

-----------------------------------------------------------------------------
(* The lists, one bucket once, and the credit of those that wait on them.  *)

Once(list) == \A i, j \in DOMAIN list : list[i] = list[j] => i = j

OnceEach ==
    Once(fresh) /\ Once(backlogged) /\ \A b : ~(IsOn(fresh, b) /\ IsOn(backlogged, b))

OnAListIsListed == \A b : IsOn(fresh, b) \/ IsOn(backlogged, b) => b \in listed

OneLock == ~(producer = "pushing" /\ consumer = "taking")

CreditOK ==
    /\ deficit = [b \in Buckets |-> deficit[b]]
    /\ \A b \in Buckets : deficit[b] \in 1 - Largest .. Quantum

\* Only the bucket at the head of the backlogged may be overdrawn by a whole
\* packet: the others had a quantum put to what they had left.
WaitingHaveCredit ==
    \A i \in DOMAIN backlogged : i # 1 => deficit[backlogged[i]] > Quantum - Largest

RoundInv == OnceEach /\ OnAListIsListed /\ OneLock /\ CreditOK /\ WaitingHaveCredit

LEMMA LargestIs ==
    /\ Quantum \in Nat \ {0} /\ Largest \in Nat \ {0}
    /\ \A p \in Packets : p.bytes \in 1 .. Largest
<1>. DEFINE S == {p.bytes : p \in Packets}
<1>1. Limit \in Nat /\ Quantum \in Nat \ {0} /\ S \in SUBSET (1 .. Limit) /\ S # {}
    <2>1. Limit \in Nat /\ Quantum \in Nat \ {0} BY QueueAssumption DEF QueueAssumption
    <2>2. \A p \in Packets : p.bytes \in Nat \ {0}
        BY QueueAssumption DEF QueueAssumption, Packet
    <2>3. \A p \in Packets : p.bytes \in 1 .. Limit
        BY <2>1, <2>2, QueueAssumption DEF QueueAssumption
    <2>4. S # {} BY QueueAssumption DEF QueueAssumption
    <2>. QED BY <2>1, <2>3, <2>4
<1>2. \E x \in S : \A y \in S : x >= y BY <1>1, Greatest
<1>3. Max(S) \in S /\ \A y \in S : Max(S) >= y BY <1>2 DEF Max
<1>4. Largest = Max(S) BY DEF Largest
<1>. HIDE DEF S
<1>5. Largest \in S /\ \A y \in S : Largest >= y BY <1>3, <1>4
<1>6. Largest \in Nat \ {0} BY <1>1, <1>5
<1>7. \A y \in S : y \in 1 .. Largest
    <2>1. \A y \in S : y \in Int /\ 1 <= y BY <1>1
    <2>. QED BY <1>5, <1>6, <2>1
<1>8. \A p \in Packets : p.bytes \in S BY DEF S
<1>. QED BY <1>1, <1>6, <1>7, <1>8

LEMMA OnceLess ==
    ASSUME NEW S, NEW s \in Seq(S), s # << >>, Once(s)
    PROVE  /\ Once(Tail(s)) /\ ~IsOn(Tail(s), Head(s)) /\ IsOn(s, Head(s))
           /\ \A x : IsOn(Tail(s), x) => IsOn(s, x)
<1>1. /\ Len(s) \in Nat \ {0} /\ DOMAIN s = 1 .. Len(s) /\ Head(s) = s[1]
      /\ DOMAIN Tail(s) = 1 .. Len(s) - 1
      /\ \A i \in 1 .. Len(s) - 1 : Tail(s)[i] = s[i + 1]
    BY TailPlaces
<1>2. \A i \in 1 .. Len(s) - 1 : i + 1 \in DOMAIN s /\ i + 1 # 1 BY <1>1
<1>3. 1 \in DOMAIN s BY <1>1
<1>4. Once(Tail(s))
    <2>1. ASSUME NEW i \in DOMAIN Tail(s), NEW j \in DOMAIN Tail(s), Tail(s)[i] = Tail(s)[j]
          PROVE  i = j
        <3>1. i + 1 \in DOMAIN s /\ j + 1 \in DOMAIN s /\ s[i + 1] = s[j + 1] BY <1>1, <1>2, <2>1
        <3>2. i + 1 = j + 1 BY <3>1 DEF Once
        <3>. QED BY <1>1, <3>2
    <2>. QED BY <2>1 DEF Once
<1>5. ~IsOn(Tail(s), Head(s)) BY <1>1, <1>2, <1>3 DEF Once, IsOn
<1>6. IsOn(s, Head(s)) BY <1>1, <1>3 DEF IsOn
<1>7. \A x : IsOn(Tail(s), x) => IsOn(s, x) BY <1>1, <1>2 DEF IsOn
<1>. QED BY <1>4, <1>5, <1>6, <1>7

LEMMA OnceMore ==
    ASSUME NEW S, NEW s \in Seq(S), NEW x \in S, Once(s), ~IsOn(s, x)
    PROVE  /\ Once(Append(s, x))
           /\ \A y : IsOn(Append(s, x), y) => y = x \/ IsOn(s, y)
<1>1. /\ Len(s) \in Nat /\ DOMAIN s = 1 .. Len(s)
      /\ DOMAIN Append(s, x) = 1 .. Len(s) + 1 /\ Append(s, x)[Len(s) + 1] = x
      /\ \A i \in 1 .. Len(s) : Append(s, x)[i] = s[i]
    BY AppendPlaces
<1>2. \A i \in DOMAIN Append(s, x) : i \in DOMAIN s \/ i = Len(s) + 1 BY <1>1
<1>3. \A i \in DOMAIN s : Append(s, x)[i] = s[i] /\ s[i] # x BY <1>1 DEF IsOn
<1>. QED BY <1>1, <1>2, <1>3 DEF Once, IsOn

\* Which list the bucket whose turn it is heads, and what becomes of both.
LEMMA WhoseTurn ==
    ASSUME ListsTypeOK, Queue # << >>
    PROVE  \/ /\ fresh # << >> /\ Turn = Head(fresh)
              /\ OtherFresh = Tail(fresh) /\ OtherBacklogged = backlogged
           \/ /\ fresh = << >> /\ backlogged # << >> /\ Turn = Head(backlogged)
              /\ OtherFresh = fresh /\ OtherBacklogged = Tail(backlogged)
<1>. fresh \in Seq(Buckets) /\ backlogged \in Seq(Buckets) BY DEF ListsTypeOK
<1>1. CASE fresh # << >>
    <2>1. Turn = Head(fresh) BY <1>1, HeadTailProperties, ConcatProperties DEF Turn, Queue
    <2>. QED BY <1>1, <2>1 DEF OtherFresh, OtherBacklogged
<1>2. CASE fresh = << >>
    <2>1. Queue = backlogged BY <1>2, ConcatProperties, ConcatEmptySeq DEF Queue
    <2>. QED BY <1>2, <2>1 DEF Turn, OtherFresh, OtherBacklogged
<1>. QED BY <1>1, <1>2

\* The bucket whose turn it is, off its list.
LEMMA TurnLeaves ==
    ASSUME ListsTypeOK, OnceEach, Queue # << >>
    PROVE  /\ Turn \in Buckets /\ OtherFresh \in Seq(Buckets) /\ OtherBacklogged \in Seq(Buckets)
           /\ Once(OtherFresh) /\ Once(OtherBacklogged)
           /\ ~IsOn(OtherFresh, Turn) /\ ~IsOn(OtherBacklogged, Turn)
           /\ IsOn(fresh, Turn) \/ IsOn(backlogged, Turn)
           /\ \A b : IsOn(OtherFresh, b) => IsOn(fresh, b)
           /\ \A b : IsOn(OtherBacklogged, b) => IsOn(backlogged, b)
<1>. /\ fresh \in Seq(Buckets) /\ backlogged \in Seq(Buckets)
     /\ Once(fresh) /\ Once(backlogged) /\ \A b : ~(IsOn(fresh, b) /\ IsOn(backlogged, b))
    BY DEF ListsTypeOK, OnceEach
<1>0. Turn \in Buckets /\ OtherFresh \in Seq(Buckets) /\ OtherBacklogged \in Seq(Buckets)
    BY TurnIsAHead
<1>1. CASE fresh # << >>
    <2>1. Turn = Head(fresh) /\ OtherFresh = Tail(fresh) /\ OtherBacklogged = backlogged
        BY <1>1, WhoseTurn
    <2>. QED BY <1>0, <1>1, <2>1, OnceLess
<1>2. CASE fresh = << >>
    <2>1. /\ backlogged # << >> /\ Turn = Head(backlogged)
          /\ OtherFresh = fresh /\ OtherBacklogged = Tail(backlogged)
        BY <1>2, WhoseTurn
    <2>. QED BY <1>0, <1>2, <2>1, OnceLess, NothingOnEmpty
<1>. QED BY <1>1, <1>2

LEMMA RoundKept ==
    ASSUME RoundInv, UNCHANGED <<deficit, listed, fresh, backlogged>>, OneLock'
    PROVE  RoundInv'
BY DEF RoundInv, OnceEach, Once, OnAListIsListed, CreditOK, WaitingHaveCredit, IsOn

LEMMA RotateRound ==
    ASSUME IInv, RoundInv, Rotate
    PROVE  RoundInv'
<1>1. /\ Queue # << >> /\ deficit[Turn] <= 0 /\ consumer = "taking" /\ listed' = listed
      /\ deficit' = [deficit EXCEPT ![Turn] = @ + Quantum]
      /\ fresh' = OtherFresh /\ backlogged' = Append(OtherBacklogged, Turn)
      /\ UNCHANGED <<producer, consumer>>
    BY DEF Rotate, Looks, taskVars
<1>2. ListsTypeOK /\ OnceEach BY DEF IInv, RoundInv
<1>3. /\ Turn \in Buckets /\ OtherFresh \in Seq(Buckets) /\ OtherBacklogged \in Seq(Buckets)
      /\ Once(OtherFresh) /\ Once(OtherBacklogged)
      /\ ~IsOn(OtherFresh, Turn) /\ ~IsOn(OtherBacklogged, Turn)
      /\ IsOn(fresh, Turn) \/ IsOn(backlogged, Turn)
      /\ \A b : IsOn(OtherFresh, b) => IsOn(fresh, b)
      /\ \A b : IsOn(OtherBacklogged, b) => IsOn(backlogged, b)
    BY <1>1, <1>2, TurnLeaves
<1>4. /\ Once(Append(OtherBacklogged, Turn))
      /\ \A y : IsOn(Append(OtherBacklogged, Turn), y) => y = Turn \/ IsOn(OtherBacklogged, y)
    BY <1>3, OnceMore
<1>5. OnceEach'
    <2>1. \A b : ~(IsOn(OtherFresh, b) /\ IsOn(Append(OtherBacklogged, Turn), b))
        BY <1>2, <1>3, <1>4 DEF OnceEach
    <2>2. /\ Once(fresh') /\ Once(backlogged')
          /\ \A b : ~(IsOn(fresh', b) /\ IsOn(backlogged', b))
        BY <1>1, <1>3, <1>4, <2>1
    <2>. QED BY <2>2 DEF OnceEach, Once, IsOn
<1>6. OnAListIsListed'
    <2>1. \A b : IsOn(OtherFresh, b) \/ IsOn(Append(OtherBacklogged, Turn), b) => b \in listed
        BY <1>3, <1>4 DEF RoundInv, OnAListIsListed
    <2>2. \A b : IsOn(fresh', b) \/ IsOn(backlogged', b) => b \in listed' BY <1>1, <2>1
    <2>. QED BY <2>2 DEF OnAListIsListed, IsOn
<1>7. OneLock' BY <1>1 DEF RoundInv, OneLock
<1>8. deficit[Turn] \in 1 - Largest .. Quantum /\ Largest \in Nat \ {0}
      /\ Quantum \in Nat \ {0}
    BY <1>3, LargestIs DEF RoundInv, CreditOK
<1>9. /\ deficit'[Turn] \in 1 - Largest .. Quantum /\ deficit'[Turn] > Quantum - Largest
      /\ \A b \in Buckets : b # Turn => deficit'[b] = deficit[b]
    <2>1. deficit'[Turn] = deficit[Turn] + Quantum BY <1>1, <1>3 DEF RoundInv, CreditOK
    <2>2. /\ deficit[Turn] + Quantum \in 1 - Largest .. Quantum
          /\ deficit[Turn] + Quantum > Quantum - Largest
        BY <1>1, <1>8
    <2>. QED BY <1>1, <2>1, <2>2 DEF RoundInv, CreditOK
<1>10. CreditOK'
    <2>1. deficit' = [b \in Buckets |-> deficit'[b]] BY <1>1 DEF RoundInv, CreditOK
    <2>. QED BY <1>9, <2>1 DEF RoundInv, CreditOK
<1>11. WaitingHaveCredit'
    <2>1. /\ Len(OtherBacklogged) \in Nat /\ DOMAIN OtherBacklogged = 1 .. Len(OtherBacklogged)
          /\ DOMAIN backlogged' = 1 .. Len(OtherBacklogged) + 1
          /\ backlogged'[Len(OtherBacklogged) + 1] = Turn
          /\ \A i \in 1 .. Len(OtherBacklogged) : backlogged'[i] = OtherBacklogged[i]
        BY <1>1, <1>3, AppendPlaces
    <2>2. \A i \in 1 .. Len(OtherBacklogged) :
            OtherBacklogged[i] # Turn /\ OtherBacklogged[i] \in Buckets
        BY <1>3, <2>1, ElementOfSeq DEF IsOn
    <2>3. \A i \in 1 .. Len(OtherBacklogged) : 
            i # 1 => deficit[OtherBacklogged[i]] > Quantum - Largest
        <3>1. CASE OtherBacklogged = backlogged BY <2>1, <3>1 DEF RoundInv, WaitingHaveCredit
        <3>2. CASE backlogged # << >> /\ OtherBacklogged = Tail(backlogged)
            <4>1. /\ DOMAIN backlogged = 1 .. Len(OtherBacklogged) + 1
                  /\ \A i \in 1 .. Len(OtherBacklogged) : OtherBacklogged[i] = backlogged[i + 1]
                BY <1>2, <2>1, <3>2, TailPlaces DEF ListsTypeOK
            <4>2. \A i \in 1 .. Len(OtherBacklogged) : i + 1 \in DOMAIN backlogged /\ i + 1 # 1
                BY <2>1, <4>1
            <4>. QED BY <4>1, <4>2 DEF RoundInv, WaitingHaveCredit
        <3>. QED BY <1>1, <1>2, <3>1, <3>2, WhoseTurn
    <2>4. \A i \in 1 .. Len(OtherBacklogged) : 
            i # 1 => deficit'[backlogged'[i]] > Quantum - Largest
        BY <1>9, <2>1, <2>2, <2>3
    <2>5. deficit'[Turn] > Quantum - Largest BY <1>9
    <2>6. \A i \in DOMAIN backlogged' : i \in 1 .. Len(OtherBacklogged) \/ backlogged'[i] = Turn
        BY <2>1
    <2>. QED BY <2>4, <2>5, <2>6 DEF WaitingHaveCredit
<1>. QED BY <1>5, <1>6, <1>7, <1>10, <1>11 DEF RoundInv

LEMMA RunDryRound ==
    ASSUME IInv, RoundInv, RunDry
    PROVE  RoundInv'
<1>1. /\ Queue # << >> /\ consumer = "taking" /\ listed' = listed \ {Turn}
      /\ deficit' = deficit /\ fresh' = OtherFresh /\ backlogged' = OtherBacklogged
      /\ UNCHANGED <<producer, consumer>>
    BY DEF RunDry, Looks, taskVars
<1>2. ListsTypeOK /\ OnceEach BY DEF IInv, RoundInv
<1>3. /\ Once(OtherFresh) /\ Once(OtherBacklogged)
      /\ ~IsOn(OtherFresh, Turn) /\ ~IsOn(OtherBacklogged, Turn)
      /\ \A b : IsOn(OtherFresh, b) => IsOn(fresh, b)
      /\ \A b : IsOn(OtherBacklogged, b) => IsOn(backlogged, b)
    BY <1>1, <1>2, TurnLeaves
<1>4. OnceEach'
    <2>1. /\ Once(fresh') /\ Once(backlogged')
          /\ \A b : ~(IsOn(fresh', b) /\ IsOn(backlogged', b))
        BY <1>1, <1>2, <1>3 DEF OnceEach
    <2>. QED BY <2>1 DEF OnceEach, Once, IsOn
<1>5. OnAListIsListed'
    <2>1. \A b : IsOn(fresh', b) \/ IsOn(backlogged', b) => b \in listed'
        BY <1>1, <1>3 DEF RoundInv, OnAListIsListed
    <2>. QED BY <2>1 DEF OnAListIsListed, IsOn
<1>6. WaitingHaveCredit'
    <2>1. CASE OtherBacklogged = backlogged BY <1>1, <2>1 DEF RoundInv, WaitingHaveCredit
    <2>2. CASE backlogged # << >> /\ OtherBacklogged = Tail(backlogged)
        <3>1. /\ DOMAIN backlogged = 1 .. Len(backlogged) /\ Len(backlogged) \in Nat
              /\ DOMAIN OtherBacklogged = 1 .. Len(backlogged) - 1
              /\ \A i \in 1 .. Len(backlogged) - 1 : OtherBacklogged[i] = backlogged[i + 1]
            BY <1>2, <2>2, TailPlaces DEF ListsTypeOK
        <3>2. \A i \in DOMAIN OtherBacklogged : i + 1 \in DOMAIN backlogged /\ i + 1 # 1 BY <3>1
        <3>. QED BY <1>1, <3>1, <3>2 DEF RoundInv, WaitingHaveCredit
    <2>. QED BY <1>1, <1>2, <2>1, <2>2, WhoseTurn
<1>. QED BY <1>1, <1>4, <1>5, <1>6 DEF RoundInv, OneLock, CreditOK

\* What a bucket is served, its credit is charged, and it was not yet spent.
LEMMA ServeCharges ==
    ASSUME IInv, HoldsPackets, RoundInv, NEW n \in 0 .. count, Serve(n)
    PROVE  /\ Turn \in Buckets /\ n \in Nat /\ n < Len(packets[Turn])
           /\ packets[Turn][n + 1].bytes \in 1 .. Largest
           /\ deficit'[Turn] = deficit[Turn] - packets[Turn][n + 1].bytes
           /\ deficit'[Turn] \in 1 - Largest .. Quantum
           /\ deficit' = [b \in Buckets |-> deficit'[b]]
           /\ \A b \in Buckets : b # Turn => deficit'[b] = deficit[b]
<1>1. /\ Queue # << >> /\ deficit[Turn] > 0 /\ n < Len(packets[Turn])
      /\ deficit' = [deficit EXCEPT ![Turn] = deficit[Turn] - packets[Turn][n + 1].bytes]
    BY DEF Serve, Looks, MayDrop, CreditAfter
<1>2. Turn \in Buckets BY <1>1, TurnLeaves DEF IInv, RoundInv
<1>3. packets[Turn] \in Seq(Packets) /\ n \in Nat BY <1>2 DEF HoldsPackets
<1>4. n + 1 \in 1 .. Len(packets[Turn]) BY <1>1, <1>3, LenProperties
<1>5. packets[Turn][n + 1].bytes \in 1 .. Largest BY <1>3, <1>4, ElementOfSeq, LargestIs
<1>6. deficit[Turn] \in 1 - Largest .. Quantum /\ Largest \in Nat \ {0}
    BY <1>2, LargestIs DEF RoundInv, CreditOK
<1>7. deficit'[Turn] = deficit[Turn] - packets[Turn][n + 1].bytes
    BY <1>1, <1>2 DEF RoundInv, CreditOK
<1>8. deficit'[Turn] \in 1 - Largest .. Quantum
    <2>1. \A k \in 1 .. Largest : deficit[Turn] - k \in 1 - Largest .. Quantum
        BY <1>1, <1>6, LargestIs
    <2>. QED BY <1>5, <1>7, <2>1
<1>. QED BY <1>1, <1>2, <1>3, <1>5, <1>7, <1>8 DEF RoundInv, CreditOK

LEMMA ServeRound ==
    ASSUME IInv, HoldsPackets, RoundInv, NEW n \in 0 .. count, Serve(n)
    PROVE  RoundInv'
<1>1. /\ Queue # << >> /\ UNCHANGED <<listed, fresh, backlogged, producer, consumer>>
    BY DEF Serve, Looks
<1>2. ListsTypeOK /\ OnceEach BY DEF IInv, RoundInv
<1>3. CreditOK' BY ServeCharges DEF RoundInv, CreditOK
<1>4. \A i \in DOMAIN backlogged : i # 1 => backlogged[i] # Turn
    <2>1. CASE fresh # << >>
        <3>1. IsOn(fresh, Turn) BY <1>1, <1>2, <2>1, WhoseTurn, OnceLess DEF ListsTypeOK, OnceEach
        <3>2. ~IsOn(backlogged, Turn) BY <1>2, <3>1 DEF OnceEach
        <3>. QED BY <3>2 DEF IsOn
    <2>2. CASE fresh = << >>
        <3>1. Turn = backlogged[1] /\ 1 \in DOMAIN backlogged
            BY <1>1, <1>2, <2>2, WhoseTurn, TailPlaces DEF ListsTypeOK
        <3>. QED BY <1>2, <3>1 DEF OnceEach, Once
    <2>. QED BY <2>1, <2>2
<1>5. \A i \in DOMAIN backlogged : backlogged[i] \in Buckets
    BY <1>2, ElementOfSeq, LenProperties DEF ListsTypeOK
<1>6. WaitingHaveCredit'
    BY <1>1, <1>4, <1>5, ServeCharges DEF RoundInv, WaitingHaveCredit
<1>. QED BY <1>1, <1>3, <1>6 DEF RoundInv, OnceEach, Once, OnAListIsListed, IsOn, OneLock

\* What being listed changes for a bucket that was not, and for no other.
LEMMA AdmitFiles ==
    ASSUME IInv, RoundInv, Admit
    PROVE  /\ backlogged' = backlogged /\ consumer' = consumer /\ producer' = "notifying"
           /\ \A b \in listed : deficit'[b] = deficit[b]
           /\ CreditOK'
           /\ \/ UNCHANGED <<listed, fresh>>
              \/ \E b \in Buckets \ listed : fresh' = Append(fresh, b) /\ listed' = listed \cup {b}
<1>. DEFINE b == BucketOf[Head(arriving).conn]
<1>1. b \in Buckets
    BY QueueAssumption DEF QueueAssumption, IInv, ArrivingOK, Admit, Packet
<1>2. /\ backlogged' = backlogged /\ consumer' = consumer /\ producer' = "notifying"
      /\ listed' = listed \cup {b}
      /\ b \in listed => UNCHANGED <<deficit, fresh>>
      /\ b \notin listed => deficit' = [deficit EXCEPT ![b] = Quantum] /\ fresh' = Append(fresh, b)
    BY DEF Admit, OnAList
<1>. HIDE DEF b
<1>3. Quantum \in 1 - Largest .. Quantum
    <2>1. Quantum \in Nat \ {0} /\ Largest \in Nat \ {0} BY LargestIs
    <2>. QED BY <2>1
<1>4. CASE b \in listed
    <2>1. CreditOK' BY <1>2, <1>4 DEF RoundInv, CreditOK
    <2>. QED BY <1>2, <1>4, <2>1
<1>5. CASE b \notin listed
    <2>1. CreditOK' BY <1>1, <1>2, <1>3, <1>5 DEF RoundInv, CreditOK
    <2>2. \A c \in listed : deficit'[c] = deficit[c]
        BY <1>2, <1>5 DEF RoundInv, CreditOK, IInv, ListsTypeOK
    <2>. QED BY <1>1, <1>2, <1>5, <2>1, <2>2
<1>. QED BY <1>4, <1>5

LEMMA AdmitRound ==
    ASSUME IInv, RoundInv, Admit
    PROVE  RoundInv'
<1>1. /\ backlogged' = backlogged /\ producer' = "notifying"
      /\ \A b \in listed : deficit'[b] = deficit[b]
      /\ CreditOK'
      /\ \/ UNCHANGED <<listed, fresh>>
         \/ \E b \in Buckets \ listed : fresh' = Append(fresh, b) /\ listed' = listed \cup {b}
    BY AdmitFiles
<1>2. WaitingHaveCredit'
    <2>1. \A i \in DOMAIN backlogged : backlogged[i] \in listed
        BY DEF RoundInv, OnAListIsListed, IsOn
    <2>. QED BY <1>1, <2>1 DEF RoundInv, WaitingHaveCredit
<1>3. OnceEach' /\ OnAListIsListed'
    <2>1. CASE UNCHANGED <<listed, fresh>>
        BY <1>1, <2>1 DEF RoundInv, OnceEach, Once, OnAListIsListed, IsOn
    <2>2. ASSUME NEW b \in Buckets \ listed, fresh' = Append(fresh, b), listed' = listed \cup {b}
          PROVE  OnceEach' /\ OnAListIsListed'
        <3>1. ~IsOn(fresh, b) /\ ~IsOn(backlogged, b) BY DEF RoundInv, OnAListIsListed
        <3>2. /\ Once(Append(fresh, b))
              /\ \A y : IsOn(Append(fresh, b), y) => y = b \/ IsOn(fresh, y)
            BY <3>1, OnceMore DEF IInv, ListsTypeOK, RoundInv, OnceEach
        <3>3. /\ Once(fresh') /\ Once(backlogged')
              /\ \A y : ~(IsOn(fresh', y) /\ IsOn(backlogged', y))
              /\ \A y : IsOn(fresh', y) \/ IsOn(backlogged', y) => y \in listed'
            BY <1>1, <2>2, <3>1, <3>2 DEF RoundInv, OnceEach, OnAListIsListed
        <3>. QED BY <3>3 DEF OnceEach, OnAListIsListed, Once, IsOn
    <2>. QED BY <1>1, <2>1, <2>2
<1>. QED BY <1>1, <1>2, <1>3 DEF RoundInv, OneLock

LEMMA StepKeepsRound ==
    ASSUME IInv, HoldsPackets, RoundInv, [Next]_vars
    PROVE  RoundInv'
<1>. OneLock BY DEF RoundInv
<1>1. ASSUME NEW p \in Packets, Push(p) PROVE RoundInv'
    BY <1>1, RoundKept DEF Push, innerVars, OneLock, Locked
<1>2. CASE Close BY <1>2, RoundKept DEF Close, OneLock
<1>3. CASE DropFattest BY <1>3, RoundKept DEF DropFattest, taskVars, OneLock
<1>4. CASE Admit BY <1>4, AdmitRound
<1>5. CASE Notify \/ NotifyClosed
    BY <1>5, RoundKept DEF Notify, NotifyClosed, innerVars, OneLock
<1>6. ASSUME NEW s \in Stale, Arrive(s) PROVE RoundInv'
    BY <1>6, RoundKept DEF Arrive, OneLock
<1>7. CASE Rotate BY <1>7, RotateRound
<1>8. CASE RunDry BY <1>8, RunDryRound
<1>9. ASSUME NEW n \in 0 .. count, Serve(n) PROVE RoundInv' BY <1>9, ServeRound
<1>10. CASE Leave \/ Lock \/ Hand \/ Finish \/ Wait \/ Await \/ Wake \/ Sent
    BY <1>10, RoundKept
    DEF Leave, Lock, Hand, Finish, Wait, Await, Wake, Sent, innerVars, OneLock, Locked
<1>11. CASE UNCHANGED vars BY <1>11, RoundKept DEF vars, innerVars, taskVars, OneLock
<1>. QED
    BY <1>1, <1>2, <1>3, <1>4, <1>5, <1>6, <1>7, <1>8, <1>9, <1>10, <1>11
    DEF Next, Producing, Consuming, Dequeue

LEMMA RoundInvariant == Spec => []RoundInv
<1>1. QueueInit => RoundInv
    <2>1. Largest \in Nat \ {0} /\ Quantum \in Nat \ {0} BY LargestIs
    <2>2. 0 \in 1 - Largest .. Quantum BY <2>1
    <2>. QED
        BY <2>2 DEF QueueInit, RoundInv, OnceEach, Once, IsOn, OnAListIsListed, OneLock,
                    CreditOK, WaitingHaveCredit
<1>2. IInv /\ HoldsPackets /\ RoundInv /\ [Next]_vars => RoundInv' BY StepKeepsRound
<1>. QED BY <1>1, <1>2, QueueInvariant, PacketsInvariant, PTL DEF Spec

\* Where the thread and the pump are, what is being pushed, and how full the batch.
TasksOK ==
    /\ closed \in BOOLEAN /\ permit \in BOOLEAN
    /\ producer \in {"reading", "pushing", "notifying", "closing", "gone"}
    /\ arriving \in Seq(Packets) /\ Len(arriving) = IF producer = "pushing" THEN 1 ELSE 0
    /\ consumer \in {"away", "popping", "taking", "unlocked", "waiting", "sending",
                    "told"}
    /\ out \in 0 .. Batch

LEMMA StepKeepsTasks ==
    ASSUME TasksOK, [Next]_vars
    PROVE  TasksOK'
<1>. USE DEF TasksOK
<1>0. Batch \in Nat BY QueueAssumption DEF QueueAssumption
<1>1. << >> \in Seq(Packets) /\ Len(<< >>) = 0 BY EmptySeq
<1>2. ASSUME NEW p \in Packets, Push(p) PROVE TasksOK'
    <2>1. <<p>> \in Seq(Packets) /\ Len(<<p>>) = 1 OBVIOUS
    <2>2. arriving' = <<p>> /\ producer' = "pushing" BY <1>2 DEF Push
    <2>3. UNCHANGED <<closed, consumer, out, permit>> BY <1>2 DEF Push, innerVars
    <2>. QED BY <2>1, <2>2, <2>3
<1>3. CASE Close BY <1>3 DEF Close
<1>4. CASE DropFattest BY <1>4 DEF DropFattest, taskVars
<1>5. CASE Admit
    <2>1. producer' = "notifying" /\ arriving' = << >> BY <1>5 DEF Admit
    <2>2. UNCHANGED <<closed, consumer, out, permit>> BY <1>5 DEF Admit
    <2>. QED BY <1>1, <2>1, <2>2
<1>6. CASE Notify BY <1>6 DEF Notify, innerVars
<1>7. CASE NotifyClosed BY <1>7 DEF NotifyClosed, innerVars
<1>8. ASSUME NEW s \in Stale, Arrive(s) PROVE TasksOK'
    <2>1. consumer' = "popping" /\ UNCHANGED <<closed, producer, arriving, out, permit>>
        BY <1>8 DEF Arrive
    <2>. QED BY <2>1
<1>9. CASE Leave BY <1>0, <1>9 DEF Leave, innerVars
<1>10. CASE Lock BY <1>10 DEF Lock, innerVars
<1>11. CASE Rotate BY <1>11 DEF Rotate, taskVars
<1>12. CASE RunDry BY <1>12 DEF RunDry, taskVars
<1>13. ASSUME NEW n \in 0 .. count, Serve(n) PROVE TasksOK'
    <2>1. out < Batch /\ out' = out + 1 BY <1>13 DEF Serve, Looks
    <2>2. UNCHANGED <<closed, producer, arriving, consumer, permit>> BY <1>13 DEF Serve
    <2>3. out' \in 0 .. Batch BY <1>0, <2>1
    <2>. QED BY <2>2, <2>3
<1>14. CASE Hand BY <1>14 DEF Hand, innerVars
<1>15. CASE Finish BY <1>15 DEF Finish, innerVars
<1>16. CASE Wait BY <1>16 DEF Wait, innerVars
<1>17. CASE Await BY <1>17 DEF Await, innerVars
<1>18. CASE Wake BY <1>18 DEF Wake, innerVars
<1>19. CASE Sent BY <1>0, <1>19 DEF Sent, innerVars
<1>20. CASE UNCHANGED vars BY <1>20 DEF vars, innerVars, taskVars
<1>. HIDE DEF TasksOK
<1>21. ASSUME Producing PROVE TasksOK' BY <1>4, <1>5, <1>6, <1>7, <1>21 DEF Producing
<1>22. ASSUME Consuming PROVE TasksOK'
    BY <1>10, <1>11, <1>12, <1>13, <1>14, <1>15, <1>16, <1>17, <1>18, <1>19, <1>22
    DEF Consuming, Dequeue
<1>. QED BY <1>2, <1>3, <1>8, <1>9, <1>20, <1>21, <1>22 DEF Next

\* Every variable holds what the code could hold there.  The counts are never
\* negative, so none of the subtractions of queue.rs (342-344, 367-369, 394-396,
\* 456-458) wraps around, and a credit stays between one packet overdrawn and one quantum.
THEOREM QueueTypes == Spec => []QueueTypeOK
<1>1. QueueInit => TasksOK
    <2>1. Batch \in Nat BY QueueAssumption DEF QueueAssumption
    <2>2. << >> \in Seq(Packets) /\ Len(<< >>) = 0 BY EmptySeq
    <2>3. ASSUME QueueInit PROVE TasksOK
        <3>1. closed = FALSE /\ permit = FALSE /\ out = 0 BY <2>3 DEF QueueInit
        <3>2. producer = "reading" /\ arriving = << >> /\ consumer = "away"
            BY <2>3 DEF QueueInit
        <3>3. out \in 0 .. Batch BY <2>1, <3>1
        <3>4. arriving \in Seq(Packets) BY <2>2, <3>2
        <3>5. Len(arriving) = 0 /\ producer # "pushing" BY <2>2, <3>2
        <3>6. Len(arriving) = IF producer = "pushing" THEN 1 ELSE 0 BY <3>5
        <3>7. closed \in BOOLEAN /\ permit \in BOOLEAN BY <3>1
        <3>. QED BY <3>2, <3>3, <3>4, <3>6, <3>7 DEF TasksOK
    <2>. QED BY <2>3
<1>2. TasksOK /\ [Next]_vars => TasksOK' BY StepKeepsTasks
<1>3. IInv /\ HoldsPackets /\ Exact /\ RoundInv /\ TasksOK => QueueTypeOK
    <2>. SUFFICES ASSUME IInv, HoldsPackets, Exact, RoundInv, TasksOK PROVE QueueTypeOK
        OBVIOUS
    <2>1. packets \in [Buckets -> Seq(Packets)] BY DEF HoldsPackets
    <2>2. /\ total \in Nat /\ count \in Nat
          /\ \A b \in Buckets : bytes[b] \in Nat
        BY ExactIs
    <2>3. bytes \in [Buckets -> Nat]
        <3>1. bytes = [b \in Buckets |-> bytes[b]] BY DEF Exact
        <3>. QED BY <2>2, <3>1
    <2>4. deficit \in [Buckets -> 1 - Largest .. Quantum]
        <3>1. deficit = [b \in Buckets |-> deficit[b]] BY DEF RoundInv, CreditOK
        <3>2. \A b \in Buckets : deficit[b] \in 1 - Largest .. Quantum BY DEF RoundInv, CreditOK
        <3>. QED BY <3>1, <3>2
    <2>5. listed \subseteq Buckets /\ fresh \in Seq(Buckets) /\ backlogged \in Seq(Buckets)
        BY DEF IInv, ListsTypeOK
    <2>. QED BY <2>1, <2>2, <2>3, <2>4, <2>5 DEF TasksOK, QueueTypeOK
<1>. QED
    BY <1>1, <1>2, <1>3, QueueInvariant, PacketsInvariant, ExactInvariant, RoundInvariant, PTL
    DEF Spec

-----------------------------------------------------------------------------
(* How much credit one that has overdrawn is to be given before it can     *)
(* spend again.                                                            *)

LEMMA DivIs ==
    ASSUME NEW q \in Nat \ {0}, NEW a \in Nat
    PROVE  /\ a \div q \in Nat /\ q * (a \div q) \in Nat
           /\ q * (a \div q) <= a /\ a < q * (a \div q) + q
OBVIOUS

LEMMA MulLess ==
    ASSUME NEW q \in Nat \ {0}, NEW x \in Nat, NEW y \in Nat, x < y
    PROVE  q * x + q <= q * y
<1>1. PICK d \in Nat : y = x + 1 + d
    <2>1. y - x - 1 \in Nat /\ y = x + 1 + (y - x - 1) OBVIOUS
    <2>. QED BY <2>1
<1>2. q * y = q * x + q + q * d /\ q * d \in Nat BY <1>1
<1>3. q * x \in Nat OBVIOUS
<1>. QED BY <1>2, <1>3

LEMMA DivMonotone ==
    ASSUME NEW q \in Nat \ {0}, NEW a \in Nat, NEW b \in Nat, a <= b
    PROVE  q * (a \div q) <= q * (b \div q)
<1>1. PICK x, y : x = a \div q /\ y = b \div q OBVIOUS
<1>2. /\ x \in Nat /\ y \in Nat /\ q * x \in Nat /\ q * y \in Nat /\ q * x <= a /\ b < q * y + q
    BY <1>1, DivIs
<1>3. ~(y < x) BY <1>2, MulLess
<1>4. x < y \/ x = y BY <1>2, <1>3
<1>5. q * x <= q * y BY <1>2, <1>4, MulLess
<1>. QED BY <1>1, <1>5

LEMMA DivOneMore ==
    ASSUME NEW q \in Nat \ {0}, NEW a \in Nat
    PROVE  q * ((a + q) \div q) = q * (a \div q) + q
<1>1. PICK x, y : x = a \div q /\ y = (a + q) \div q OBVIOUS
<1>2. /\ x \in Nat /\ y \in Nat /\ q * x \in Nat /\ q * y \in Nat
      /\ q * x <= a /\ a < q * x + q /\ q * y <= a + q /\ a + q < q * y + q
    BY <1>1, DivIs
<1>3. q * (x + 1) = q * x + q BY <1>2
<1>4. ~(y < x + 1) /\ ~(x + 1 < y)
    <2>1. y < x + 1 => q * y + q <= q * (x + 1) BY <1>2, MulLess
    <2>2. x + 1 < y => q * (x + 1) + q <= q * y BY <1>2, MulLess
    <2>. QED BY <1>2, <1>3, <2>1, <2>2
<1>5. y = x + 1 BY <1>2, <1>4
<1>. QED BY <1>1, <1>3, <1>5

ToCome(d) == IF d > 0 THEN 0 ELSE Quantum * (((-d) \div Quantum) + 1)

MostToCome == MakesGood

LEMMA ToComeIs ==
    ASSUME NEW d \in Int
    PROVE  /\ ToCome(d) \in Nat
           /\ d <= 0 => ToCome(d) = Quantum * ((-d) \div Quantum) + Quantum
           /\ d > 0 => ToCome(d) = 0
<1>0. Quantum \in Nat \ {0} BY LargestIs
<1>1. CASE d > 0 BY <1>1 DEF ToCome
<1>2. CASE d <= 0
    <2>1. -d \in Nat /\ ~(d > 0) BY <1>2
    <2>2. PICK x : x = (-d) \div Quantum OBVIOUS
    <2>3. x \in Nat /\ Quantum * x \in Nat BY <1>0, <2>1, <2>2, DivIs
    <2>4. Quantum * (x + 1) = Quantum * x + Quantum BY <1>0, <2>3
    <2>5. ToCome(d) = Quantum * (x + 1) BY <2>1, <2>2 DEF ToCome
    <2>6. ToCome(d) \in Nat BY <1>0, <2>3, <2>4, <2>5
    <2>. QED BY <2>1, <2>2, <2>4, <2>5, <2>6
<1>. QED BY <1>1, <1>2

LEMMA MostIs == MostToCome = ToCome(1 - Largest) /\ MostToCome \in Nat
<1>1. Largest \in Nat \ {0} BY LargestIs
<1>2. -(1 - Largest) = Largest - 1 /\ ~(1 - Largest > 0) /\ 1 - Largest \in Int BY <1>1
<1>3. MostToCome = ToCome(1 - Largest) BY <1>2 DEF MostToCome, MakesGood, ToCome
<1>. QED BY <1>2, <1>3, ToComeIs

\* A quantum given is a quantum less to come, ...
LEMMA ToComeLess ==
    ASSUME NEW d \in Int, d <= 0
    PROVE  ToCome(d + Quantum) = ToCome(d) - Quantum
<1>0. Quantum \in Nat \ {0} /\ d + Quantum \in Int BY LargestIs
<1>1. ToCome(d) = Quantum * ((-d) \div Quantum) + Quantum BY ToComeIs
<1>2. CASE d + Quantum > 0
    <2>1. -d \in Nat /\ -d < Quantum BY <1>0, <1>2
    <2>2. PICK x : x = (-d) \div Quantum OBVIOUS
    <2>3. x \in Nat /\ Quantum * x \in Nat /\ Quantum * x <= -d BY <1>0, <2>1, <2>2, DivIs
    <2>4. ~(0 < x)
        <3>1. 0 < x => Quantum * 0 + Quantum <= Quantum * x BY <1>0, <2>3, MulLess
        <3>. QED BY <1>0, <2>1, <2>3, <3>1
    <2>5. x = 0 /\ Quantum * x = 0 BY <1>0, <2>3, <2>4
    <2>6. ToCome(d + Quantum) = 0 BY <1>0, <1>2, ToComeIs
    <2>. QED BY <1>0, <1>1, <2>2, <2>5, <2>6
<1>3. CASE d + Quantum <= 0
    <2>1. PICK a : a = -(d + Quantum) OBVIOUS
    <2>2. a \in Nat /\ a + Quantum = -d BY <1>0, <1>3, <2>1
    <2>3. Quantum * ((a + Quantum) \div Quantum) = Quantum * (a \div Quantum) + Quantum
        BY <1>0, <2>2, DivOneMore
    <2>4. ToCome(d + Quantum) = Quantum * (a \div Quantum) + Quantum
        BY <1>0, <1>3, <2>1, ToComeIs
    <2>5. ToCome(d) = (Quantum * (a \div Quantum) + Quantum) + Quantum BY <1>1, <2>2, <2>3
    <2>6. ToCome(d + Quantum) \in Nat BY <1>0, ToComeIs
    <2>. QED BY <1>0, <2>4, <2>5, <2>6
<1>. QED BY <1>0, <1>2, <1>3

\* ... and the more there is left, the less is to come.
LEMMA ToComeMonotone ==
    ASSUME NEW d \in Int, NEW e \in Int, d <= e
    PROVE  ToCome(e) <= ToCome(d)
<1>0. Quantum \in Nat \ {0} /\ ToCome(d) \in Nat /\ ToCome(e) \in Nat BY LargestIs, ToComeIs
<1>1. CASE e > 0
    <2>1. ToCome(e) = 0 BY <1>1, ToComeIs
    <2>. QED BY <1>0, <2>1
<1>2. CASE e <= 0
    <2>1. d <= 0 /\ -d \in Nat /\ -e \in Nat /\ -e <= -d BY <1>2
    <2>2. PICK x, y : x = (-d) \div Quantum /\ y = (-e) \div Quantum OBVIOUS
    <2>3. Quantum * y <= Quantum * x BY <1>0, <2>1, <2>2, DivMonotone
    <2>4. ToCome(d) = Quantum * x + Quantum /\ ToCome(e) = Quantum * y + Quantum
        BY <1>2, <2>1, <2>2, ToComeIs
    <2>5. Quantum * x \in Nat /\ Quantum * y \in Nat BY <1>0, <2>1, <2>2, DivIs
    <2>. QED BY <1>0, <2>3, <2>4, <2>5
<1>. QED BY <1>1, <1>2

LEMMA ToComeBounds ==
    ASSUME NEW d \in 1 - Largest .. Quantum
    PROVE  /\ ToCome(d) \in Nat /\ ToCome(d) <= MostToCome
           /\ d > Quantum - Largest => ToCome(d) <= MostToCome - Quantum
<1>1. Quantum \in Nat \ {0} /\ Largest \in Nat \ {0} BY LargestIs
<1>2. d \in Int /\ 1 - Largest \in Int /\ 1 - Largest <= d BY <1>1
<1>3. ToCome(d) \in Nat /\ ToCome(d) <= MostToCome BY <1>2, ToComeIs, ToComeMonotone, MostIs
<1>4. ASSUME d > Quantum - Largest PROVE ToCome(d) <= MostToCome - Quantum
    <2>1. /\ (1 - Largest) + Quantum \in Int /\ (1 - Largest) + Quantum <= d
          /\ 1 - Largest <= 0
        BY <1>1, <1>2, <1>4
    <2>2. ToCome((1 - Largest) + Quantum) = ToCome(1 - Largest) - Quantum
        BY <1>2, <2>1, ToComeLess
    <2>3. ToCome(d) <= ToCome((1 - Largest) + Quantum) BY <1>2, <2>1, ToComeMonotone
    <2>. QED BY <2>2, <2>3, MostIs
<1>. QED BY <1>3, <1>4

\* Nothing is served but by Serve, and then only the bucket whose turn it is.
LEMMA WhoServes ==
    ASSUME IInv, RoundInv, HoldsPackets, [Next]_vars, NEW b \in Buckets, Serves(b)
    PROVE  \E n \in 0 .. count :
             /\ Serve(n) /\ b = Turn
             /\ Given(b) = packets[b][n + 1].bytes
<1>1. /\ consumer = "taking" /\ Len(packets'[b]) < Len(packets[b]) BY DEF Serves
<1>2. packets'[b] # packets[b]
    <2>1. Len(packets[b]) \in Nat BY LenProperties DEF HoldsPackets
    <2>. QED BY <1>1, <2>1
<1>3. producer # "pushing" BY <1>1 DEF RoundInv, OneLock
<1>4. \E n \in 0 .. count : Serve(n)
    BY <1>1, <1>2, <1>3
    DEF Next, Push, Close, Producing, DropFattest, Admit, Notify, NotifyClosed, Arrive, Leave,
        Consuming, Dequeue, Lock, Rotate, RunDry, Hand, Finish, Wait, Await, Wake, Sent,
        innerVars, vars
<1>5. PICK n \in 0 .. count : Serve(n) BY <1>4
<1>6. packets' = [packets EXCEPT ![Turn] = SubSeq(@, n + 2, Len(@))] /\ n < Len(packets[Turn])
    BY <1>5 DEF Serve, MayDrop
<1>7. b = Turn BY <1>2, <1>6 DEF HoldsPackets
<1>8. Len(packets[b]) - Len(packets'[b]) = n + 1
    <2>1. packets'[b] = SubSeq(packets[b], n + 2, Len(packets[b])) /\ n < Len(packets[b])
        BY <1>6, <1>7 DEF HoldsPackets
    <2>2. packets[b] \in Seq(Packets) /\ Len(packets[b]) \in Nat
        BY LenProperties DEF HoldsPackets
    <2>3. \A i \in n + 2 .. Len(packets[b]) : packets[b][i] \in Packets
        BY <2>2, ElementOfSeq, LenProperties
    <2>4. Len(packets'[b]) = IF n + 2 <= Len(packets[b]) THEN Len(packets[b]) - (n + 2) + 1 ELSE 0
        BY <2>1, <2>2, <2>3, SubSeqProperties
    <2>. n \in Int BY <1>5
    <2>5. CASE n + 2 <= Len(packets[b])
        <3>1. Len(packets'[b]) = Len(packets[b]) - (n + 2) + 1 BY <2>4, <2>5
        <3>2. \A l \in Nat : l - (l - (n + 2) + 1) = n + 1 OBVIOUS
        <3>. QED BY <2>2, <3>1, <3>2
    <2>6. CASE ~(n + 2 <= Len(packets[b]))
        <3>1. Len(packets[b]) = n + 1 BY <2>1, <2>2, <2>6
        <3>2. Len(packets'[b]) = 0 BY <2>4, <2>6
        <3>. QED BY <3>1, <3>2
    <2>. QED BY <2>5, <2>6
<1>. QED BY <1>5, <1>7, <1>8 DEF Given

LEMMA ServeServes ==
    ASSUME IInv, RoundInv, HoldsPackets, NEW n \in 0 .. count, Serve(n)
    PROVE  Turn \in Buckets /\ Serves(Turn)
<1>1. /\ consumer = "taking" /\ Queue # << >> /\ n < Len(packets[Turn])
      /\ packets' = [packets EXCEPT ![Turn] = SubSeq(@, n + 2, Len(@))]
    BY DEF Serve, Looks, MayDrop
<1>2. Turn \in Buckets BY <1>1, TurnLeaves DEF IInv, RoundInv
<1>3. packets[Turn] \in Seq(Packets) /\ Len(packets[Turn]) \in Nat
    BY <1>2, LenProperties DEF HoldsPackets
<1>4. packets'[Turn] = SubSeq(packets[Turn], n + 2, Len(packets[Turn]))
    BY <1>1, <1>2 DEF HoldsPackets
<1>5. \A i \in n + 2 .. Len(packets[Turn]) : packets[Turn][i] \in Packets
    BY <1>3, ElementOfSeq, LenProperties
<1>6. Len(packets'[Turn]) =
        IF n + 2 <= Len(packets[Turn]) THEN Len(packets[Turn]) - (n + 2) + 1 ELSE 0
    BY <1>3, <1>4, <1>5, SubSeqProperties
<1>7. Len(packets'[Turn]) < Len(packets[Turn]) BY <1>1, <1>3, <1>6
<1>. QED BY <1>1, <1>2, <1>7 DEF Serves

LEMMA WaitingIsOn ==
    ASSUME ListsTypeOK, NEW c, Waits(c)
    PROVE  IsOn(backlogged, c) /\ packets[c] # << >>
BY LenProperties DEF ListsTypeOK, Waits, Contains, IsOn

-----------------------------------------------------------------------------
(* How far a bucket gets ahead of another that waits.                      *)

Before(list, b, c) == \E i, j \in DOMAIN list : i < j /\ list[i] = b /\ list[j] = c

LEMMA BeforeHead ==
    ASSUME NEW S, NEW s \in Seq(S), s # << >>, Once(s)
    PROVE  /\ \A c : IsOn(s, c) /\ c # Head(s) => Before(s, Head(s), c)
           /\ \A b : ~Before(s, b, Head(s))
           /\ \A x : x # Head(s) => (IsOn(Tail(s), x) <=> IsOn(s, x))
           /\ \A b, c : b # Head(s) /\ c # Head(s) => (Before(Tail(s), b, c) <=> Before(s, b, c))
<1>1. /\ Len(s) \in Nat \ {0} /\ DOMAIN s = 1 .. Len(s) /\ Head(s) = s[1]
      /\ DOMAIN Tail(s) = 1 .. Len(s) - 1
      /\ \A i \in 1 .. Len(s) - 1 : Tail(s)[i] = s[i + 1]
    BY TailPlaces
<1>2. 1 \in DOMAIN s /\ \A i \in DOMAIN s : i \in Int /\ i >= 1 /\ (i # 1 => 1 < i) BY <1>1
<1>3. \A i \in DOMAIN s : i # 1 => i - 1 \in DOMAIN Tail(s) /\ Tail(s)[i - 1] = s[i]
    <2>. TAKE i \in DOMAIN s
    <2>1. i # 1 => i - 1 \in 1 .. Len(s) - 1 /\ (i - 1) + 1 = i BY <1>1
    <2>. QED BY <1>1, <2>1
<1>4. \A i \in DOMAIN Tail(s) :
        i \in Int /\ i + 1 \in DOMAIN s /\ i + 1 # 1 /\ s[i + 1] = Tail(s)[i]
    BY <1>1
<1>5. ASSUME NEW c, IsOn(s, c), c # Head(s) PROVE Before(s, Head(s), c)
    BY <1>1, <1>2, <1>5 DEF IsOn, Before
<1>6. ASSUME NEW b, Before(s, b, Head(s)) PROVE FALSE
    <2>1. PICK i \in DOMAIN s, j \in DOMAIN s : i < j /\ s[i] = b /\ s[j] = Head(s)
        BY <1>6 DEF Before
    <2>2. j = 1 BY <1>1, <1>2, <2>1 DEF Once
    <2>. QED BY <1>2, <2>1, <2>2
<1>7. ASSUME NEW x, x # Head(s) PROVE IsOn(Tail(s), x) <=> IsOn(s, x)
    <2>1. ASSUME IsOn(Tail(s), x) PROVE IsOn(s, x) BY <1>4, <2>1 DEF IsOn
    <2>2. ASSUME IsOn(s, x) PROVE IsOn(Tail(s), x)
        <3>1. PICK i \in DOMAIN s : s[i] = x BY <2>2 DEF IsOn
        <3>2. i # 1 BY <1>1, <1>7, <3>1
        <3>. QED BY <1>3, <3>1, <3>2 DEF IsOn
    <2>. QED BY <2>1, <2>2
<1>8. ASSUME NEW b, NEW c, b # Head(s), c # Head(s)
      PROVE  Before(Tail(s), b, c) <=> Before(s, b, c)
    <2>1. ASSUME Before(Tail(s), b, c) PROVE Before(s, b, c)
        <3>1. PICK i \in DOMAIN Tail(s), j \in DOMAIN Tail(s) :
                i < j /\ Tail(s)[i] = b /\ Tail(s)[j] = c
            BY <2>1 DEF Before
        <3>2. i + 1 \in DOMAIN s /\ j + 1 \in DOMAIN s /\ s[i + 1] = b /\ s[j + 1] = c
            BY <1>4, <3>1
        <3>3. i + 1 < j + 1 BY <1>4, <3>1
        <3>. QED BY <3>2, <3>3 DEF Before
    <2>2. ASSUME Before(s, b, c) PROVE Before(Tail(s), b, c)
        <3>1. PICK i \in DOMAIN s, j \in DOMAIN s : i < j /\ s[i] = b /\ s[j] = c
            BY <2>2 DEF Before
        <3>2. i # 1 /\ j # 1 BY <1>1, <1>8, <3>1
        <3>3. /\ i - 1 \in DOMAIN Tail(s) /\ j - 1 \in DOMAIN Tail(s)
              /\ Tail(s)[i - 1] = b /\ Tail(s)[j - 1] = c
            BY <1>3, <3>1, <3>2
        <3>4. i - 1 < j - 1 BY <1>2, <3>1
        <3>. QED BY <3>3, <3>4 DEF Before
    <2>. QED BY <2>1, <2>2
<1>. QED BY <1>5, <1>6, <1>7, <1>8

LEMMA BeforeBack ==
    ASSUME NEW S, NEW s \in Seq(S), NEW x \in S, ~IsOn(s, x)
    PROVE  /\ IsOn(Append(s, x), x)
           /\ \A c : ~Before(Append(s, x), x, c)
           /\ \A b : b # x => (IsOn(Append(s, x), b) <=> IsOn(s, b))
           /\ \A b, c : b # x /\ c # x => (Before(Append(s, x), b, c) <=> Before(s, b, c))
<1>. DEFINE more == Append(s, x)
<1>1. /\ Len(s) \in Nat /\ DOMAIN s = 1 .. Len(s)
      /\ DOMAIN more = 1 .. Len(s) + 1 /\ more[Len(s) + 1] = x
      /\ \A i \in 1 .. Len(s) : more[i] = s[i]
    BY AppendPlaces
<1>. HIDE DEF more
<1>2. /\ Len(s) + 1 \in DOMAIN more
      /\ \A i \in DOMAIN more : i \in Int /\ i <= Len(s) + 1 /\ (i # Len(s) + 1 => i \in DOMAIN s)
    BY <1>1
<1>3. \A i \in DOMAIN s : i \in DOMAIN more /\ more[i] = s[i] BY <1>1
<1>4. \A i \in DOMAIN more : more[i] = x <=> i = Len(s) + 1 BY <1>1, <1>2, <1>3 DEF IsOn
<1>5. IsOn(more, x) BY <1>1, <1>2 DEF IsOn
<1>6. ASSUME NEW c, Before(more, x, c) PROVE FALSE
    <2>1. PICK i \in DOMAIN more, j \in DOMAIN more : i < j /\ more[i] = x BY <1>6 DEF Before
    <2>2. i = Len(s) + 1 BY <1>4, <2>1
    <2>. QED BY <1>1, <1>2, <2>1, <2>2
<1>7. ASSUME NEW b, b # x PROVE IsOn(more, b) <=> IsOn(s, b)
    BY <1>2, <1>3, <1>4, <1>7 DEF IsOn
<1>8. ASSUME NEW b, NEW c, b # x, c # x PROVE Before(more, b, c) <=> Before(s, b, c)
    <2>1. ASSUME Before(more, b, c) PROVE Before(s, b, c)
        <3>1. PICK i \in DOMAIN more, j \in DOMAIN more : i < j /\ more[i] = b /\ more[j] = c
            BY <2>1 DEF Before
        <3>2. i \in DOMAIN s /\ j \in DOMAIN s BY <1>2, <1>4, <1>8, <3>1
        <3>. QED BY <1>3, <3>1, <3>2 DEF Before
    <2>2. ASSUME Before(s, b, c) PROVE Before(more, b, c)
        <3>1. PICK i \in DOMAIN s, j \in DOMAIN s : i < j /\ s[i] = b /\ s[j] = c
            BY <2>2 DEF Before
        <3>. QED BY <1>3, <3>1 DEF Before
    <2>. QED BY <2>1, <2>2
<1>. QED BY <1>5, <1>6, <1>7, <1>8 DEF more

\* What one was given, what it has left and what the other is to be given come to
\* no more than makes an overdraft good, and a quantum more once it had its turn.
FairTo(b, c) ==
    IsOn(backlogged, c) =>
        /\ ~IsOn(backlogged, b) => streak[b][c] + ToCome(deficit[c]) <= MostToCome
        /\ IsOn(backlogged, b) =>
            streak[b][c] + deficit[b] + ToCome(deficit[c])
                <= MostToCome + (IF Before(backlogged, b, c) THEN 0 ELSE Quantum)

StreakOK ==
    /\ streak = [b \in Buckets |-> [c \in Buckets |-> streak[b][c]]]
    /\ \A b, c \in Buckets : streak[b][c] \in Nat /\ streak[b][c] < MostToCome + Largest
    /\ \A b \in Buckets : streak[b][b] = 0

FairInv == StreakOK /\ \A b, c \in Buckets : b # c => FairTo(b, c)

\* One that was given nothing yet is fair.
LEMMA FairFromNothing ==
    ASSUME ListsTypeOK, RoundInv, NEW b \in Buckets, NEW c \in Buckets, b # c, streak[b][c] = 0
    PROVE  FairTo(b, c)
<1>. SUFFICES ASSUME IsOn(backlogged, c)
              PROVE  /\ ToCome(deficit[c]) <= MostToCome
                     /\ deficit[b] + ToCome(deficit[c])
                            <= MostToCome + (IF Before(backlogged, b, c) THEN 0 ELSE Quantum)
    <2>1. deficit[b] \in Int /\ ToCome(deficit[c]) \in Int
        BY ToComeBounds DEF RoundInv, CreditOK
    <2>. QED BY <2>1 DEF FairTo
<1>1. /\ Quantum \in Nat \ {0} /\ Largest \in Nat \ {0} /\ MostToCome \in Nat
      /\ deficit[b] \in 1 - Largest .. Quantum /\ deficit[c] \in 1 - Largest .. Quantum
    BY LargestIs, MostIs DEF RoundInv, CreditOK
<1>2. ToCome(deficit[c]) \in Nat /\ ToCome(deficit[c]) <= MostToCome BY <1>1, ToComeBounds
<1>3. backlogged \in Seq(Buckets) /\ backlogged # << >> /\ Once(backlogged)
    BY NothingOnEmpty DEF ListsTypeOK, RoundInv, OnceEach
<1>4. CASE c = Head(backlogged)
    <2>1. ~Before(backlogged, b, c) BY <1>3, <1>4, BeforeHead
    <2>. QED BY <1>1, <1>2, <2>1
<1>5. CASE c # Head(backlogged)
    <2>1. PICK i \in DOMAIN backlogged : backlogged[i] = c BY DEF IsOn
    <2>2. i # 1 BY <1>3, <1>5, <2>1, TailPlaces
    <2>3. deficit[c] > Quantum - Largest BY <2>1, <2>2 DEF RoundInv, WaitingHaveCredit
    <2>4. ToCome(deficit[c]) <= MostToCome - Quantum BY <1>1, <2>3, ToComeBounds
    <2>. QED BY <1>1, <1>2, <2>4
<1>. QED BY <1>4, <1>5

NothingIsFair ==
    ListsTypeOK /\ RoundInv =>
        \A b, c \in Buckets : b # c /\ streak[b][c] = 0 => FairTo(b, c)

LEMMA NothingStaysFair == NothingIsFair'
<1>1. NothingIsFair BY FairFromNothing DEF NothingIsFair
<1>. QED BY <1>1, PTL

\* What neither changes their credit nor their order changes nothing between them.
LEMMA FairKept ==
    ASSUME NEW b \in Buckets, NEW c \in Buckets, FairTo(b, c), streak'[b][c] = streak[b][c],
           deficit'[c] = deficit[c], IsOn(backlogged, b) => deficit'[b] = deficit[b],
           IsOn(backlogged', b) <=> IsOn(backlogged, b),
           IsOn(backlogged', c) <=> IsOn(backlogged, c),
           Before(backlogged', b, c) <=> Before(backlogged, b, c)
    PROVE  FairTo(b, c)'
BY DEF FairTo, IsOn, Before

\* The numbers that are weighed.
LEMMA FairNumbers ==
    ASSUME RoundInv, StreakOK, NEW b \in Buckets, NEW c \in Buckets
    PROVE  /\ streak[b][c] \in Nat /\ MostToCome \in Nat
           /\ Quantum \in Nat \ {0} /\ Largest \in Nat \ {0}
           /\ deficit[b] \in Int /\ deficit[b] <= Quantum /\ 1 - Largest <= deficit[b]
           /\ deficit[c] \in Int /\ ToCome(deficit[c]) \in Nat
<1>1. /\ streak[b][c] \in Nat /\ MostToCome \in Nat
      /\ Quantum \in Nat \ {0} /\ Largest \in Nat \ {0}
      /\ deficit[b] \in 1 - Largest .. Quantum /\ deficit[c] \in 1 - Largest .. Quantum
    BY LargestIs, MostIs DEF StreakOK, RoundInv, CreditOK
<1>2. deficit[b] \in Int /\ deficit[b] <= Quantum /\ 1 - Largest <= deficit[b] /\ deficit[c] \in Int
    BY <1>1
<1>. QED BY <1>1, <1>2, ToComeIs

LEMMA RotateFair ==
    ASSUME IInv, RoundInv, StreakOK, NEW b \in Buckets, NEW c \in Buckets, b # c, Waits(c),
           FairTo(b, c), streak'[b][c] = streak[b][c], Rotate
    PROVE  FairTo(b, c)'
<1>1. /\ Queue # << >> /\ deficit[Turn] <= 0 /\ deficit' = [deficit EXCEPT ![Turn] = @ + Quantum]
      /\ backlogged' = Append(OtherBacklogged, Turn)
    BY DEF Rotate, Looks
<1>2. ListsTypeOK /\ OnceEach BY DEF IInv, RoundInv
<1>3. /\ Turn \in Buckets /\ OtherBacklogged \in Seq(Buckets) /\ ~IsOn(OtherBacklogged, Turn)
    BY <1>1, <1>2, TurnLeaves
<1>4. IsOn(backlogged, c) BY <1>2, WaitingIsOn
<1>5. /\ \A d \in Buckets : d # Turn => deficit'[d] = deficit[d]
      /\ deficit'[Turn] = deficit[Turn] + Quantum
    BY <1>1, <1>3 DEF RoundInv, CreditOK
<1>6. /\ IsOn(backlogged', Turn) /\ \A d : ~Before(backlogged', Turn, d)
      /\ \A d : d # Turn => (IsOn(backlogged', d) <=> IsOn(OtherBacklogged, d))
      /\ \A d, e : d # Turn /\ e # Turn =>
            (Before(backlogged', d, e) <=> Before(OtherBacklogged, d, e))
    BY <1>1, <1>3, BeforeBack
<1>7. /\ backlogged \in Seq(Buckets) /\ backlogged # << >> /\ Once(backlogged)
    BY <1>2, <1>4, NothingOnEmpty DEF ListsTypeOK, OnceEach
<1>8. /\ \A d : d # Turn => (IsOn(backlogged', d) <=> IsOn(backlogged, d))
      /\ \A d, e : d # Turn /\ e # Turn => (Before(backlogged', d, e) <=> Before(backlogged, d, e))
    <2>1. CASE OtherBacklogged = backlogged BY <1>6, <2>1
    <2>2. CASE Turn = Head(backlogged) /\ OtherBacklogged = Tail(backlogged)
        <3>1. /\ \A d : d # Turn => (IsOn(OtherBacklogged, d) <=> IsOn(backlogged, d))
              /\ \A d, e : d # Turn /\ e # Turn =>
                    (Before(OtherBacklogged, d, e) <=> Before(backlogged, d, e))
            BY <1>7, <2>2, BeforeHead
        <3>. QED BY <1>6, <3>1
    <2>. QED BY <1>1, <1>2, <2>1, <2>2, WhoseTurn
<1>9. /\ streak[b][c] \in Nat /\ MostToCome \in Nat /\ Quantum \in Nat \ {0}
      /\ deficit[b] \in Int /\ deficit[c] \in Int /\ ToCome(deficit[c]) \in Nat
    BY FairNumbers
<1>10. CASE Turn = c
    <2>1. ToCome(deficit'[c]) = ToCome(deficit[c]) - Quantum
        BY <1>1, <1>5, <1>9, <1>10, ToComeLess
    <2>2. deficit'[b] = deficit[b] /\ (IsOn(backlogged', b) <=> IsOn(backlogged, b))
        BY <1>5, <1>8, <1>10
    <2>3. ASSUME ~IsOn(backlogged', b)
          PROVE  streak'[b][c] + ToCome(deficit'[c]) <= MostToCome
        <3>1. streak[b][c] + ToCome(deficit[c]) <= MostToCome BY <1>4, <2>2, <2>3 DEF FairTo
        <3>. QED BY <1>9, <2>1, <3>1
    <2>4. ASSUME IsOn(backlogged', b)
          PROVE  streak'[b][c] + deficit'[b] + ToCome(deficit'[c]) <= MostToCome
        <3>1. streak[b][c] + deficit[b] + ToCome(deficit[c])
                <= MostToCome + (IF Before(backlogged, b, c) THEN 0 ELSE Quantum)
            BY <1>4, <2>2, <2>4 DEF FairTo
        <3>2. streak[b][c] + deficit[b] + ToCome(deficit[c]) <= MostToCome + Quantum
            BY <1>9, <3>1
        <3>. QED BY <1>9, <2>1, <2>2, <3>2
    <2>5. IsOn(backlogged', b) =>
            streak'[b][c] + deficit'[b] + ToCome(deficit'[c])
                <= MostToCome + (IF Before(backlogged', b, c) THEN 0 ELSE Quantum)
        <3>1. streak'[b][c] + deficit'[b] + ToCome(deficit'[c]) \in Int BY <1>9, <2>1, <2>2
        <3>. QED BY <1>9, <2>4, <3>1
    <2>. QED BY <2>3, <2>5 DEF FairTo, IsOn, Before
<1>11. CASE Turn = b
    <2>1. /\ deficit'[c] = deficit[c] /\ deficit'[b] = deficit[b] + Quantum /\ deficit[b] <= 0
          /\ IsOn(backlogged', b) /\ ~Before(backlogged', b, c)
        BY <1>1, <1>5, <1>6, <1>11
    <2>2. streak[b][c] + deficit[b] + ToCome(deficit[c]) <= MostToCome
        <3>1. CASE fresh # << >>
            <4>1. Turn = Head(fresh) BY <1>1, <1>2, <3>1, WhoseTurn
            <4>2. IsOn(fresh, Turn) BY <1>2, <3>1, <4>1, OnceLess DEF ListsTypeOK, OnceEach
            <4>3. ~IsOn(backlogged, b) BY <1>2, <1>11, <4>2 DEF OnceEach
            <4>4. streak[b][c] + ToCome(deficit[c]) <= MostToCome BY <1>4, <4>3 DEF FairTo
            <4>. QED BY <1>9, <2>1, <4>4
        <3>2. CASE fresh = << >>
            <4>1. b = Head(backlogged) BY <1>1, <1>2, <1>11, <3>2, WhoseTurn
            <4>2. IsOn(backlogged, b) /\ Before(backlogged, b, c)
                BY <1>4, <1>7, <4>1, BeforeHead, OnceLess
            <4>3. streak[b][c] + deficit[b] + ToCome(deficit[c]) <= MostToCome + 0
                BY <1>4, <4>2 DEF FairTo
            <4>. QED BY <1>9, <4>3
        <3>. QED BY <3>1, <3>2
    <2>3. streak'[b][c] + deficit'[b] + ToCome(deficit'[c]) <= MostToCome + Quantum
        BY <1>9, <2>1, <2>2
    <2>. QED BY <2>1, <2>3 DEF FairTo, IsOn, Before
<1>12. CASE Turn # b /\ Turn # c BY <1>5, <1>8, <1>12, FairKept
<1>. QED BY <1>10, <1>11, <1>12

LEMMA RunDryFair ==
    ASSUME IInv, RoundInv, StreakOK, NEW b \in Buckets, NEW c \in Buckets, b # c, Waits(c),
           FairTo(b, c), streak'[b][c] = streak[b][c], RunDry
    PROVE  FairTo(b, c)'
<1>1. /\ Queue # << >> /\ packets[Turn] = << >> /\ deficit' = deficit /\ deficit[Turn] > 0
      /\ backlogged' = OtherBacklogged
    BY DEF RunDry, Looks
<1>2. ListsTypeOK /\ OnceEach BY DEF IInv, RoundInv
<1>3. CASE fresh # << >>
    <2>1. backlogged' = backlogged BY <1>1, <1>2, <1>3, WhoseTurn
    <2>. QED BY <1>1, <2>1, FairKept
<1>4. CASE fresh = << >>
    <2>1. IsOn(backlogged, c) /\ Turn # c BY <1>1, <1>2, WaitingIsOn
    <2>2. /\ Turn = Head(backlogged) /\ backlogged' = Tail(backlogged) /\ backlogged # << >>
          /\ backlogged \in Seq(Buckets) /\ Once(backlogged)
        BY <1>1, <1>2, <1>4, WhoseTurn DEF ListsTypeOK, OnceEach
    <2>3. CASE Turn = b
        <3>1. IsOn(backlogged, b) /\ Before(backlogged, b, c) /\ ~IsOn(backlogged', b)
            BY <2>1, <2>2, <2>3, BeforeHead, OnceLess
        <3>2. streak[b][c] + deficit[b] + ToCome(deficit[c]) <= MostToCome + 0
            BY <2>1, <3>1 DEF FairTo
        <3>3. /\ streak[b][c] \in Nat /\ MostToCome \in Nat
              /\ deficit[b] \in Int /\ ToCome(deficit[c]) \in Nat
            BY FairNumbers
        <3>4. deficit[b] > 0 BY <1>1, <2>3
        <3>5. streak'[b][c] + ToCome(deficit'[c]) <= MostToCome BY <1>1, <3>2, <3>3, <3>4
        <3>. QED BY <3>1, <3>5 DEF FairTo, IsOn
    <2>4. CASE Turn # b
        <3>1. /\ IsOn(backlogged', b) <=> IsOn(backlogged, b)
              /\ IsOn(backlogged', c) <=> IsOn(backlogged, c)
              /\ Before(backlogged', b, c) <=> Before(backlogged, b, c)
            BY <2>1, <2>2, <2>4, BeforeHead
        <3>. QED BY <1>1, <3>1, FairKept
    <2>. QED BY <2>3, <2>4
<1>. QED BY <1>3, <1>4

\* A bucket that is served while no other is fresh has the turn: what it is given
\* comes out of its credit.
LEMMA ServeFair ==
    ASSUME IInv, HoldsPackets, RoundInv, StreakOK, [Next]_vars,
           NEW b \in Buckets, NEW c \in Buckets, b # c, Waits(c), FairTo(b, c),
           Serves(b), fresh = << >>, streak'[b][c] = streak[b][c] + Given(b)
    PROVE  /\ streak'[b][c] \in Nat /\ streak'[b][c] < MostToCome + Largest
           /\ FairTo(b, c)'
<1>1. PICK n \in 0 .. count : Serve(n) /\ b = Turn /\ Given(b) = packets[b][n + 1].bytes
    BY WhoServes
<1>2. Queue # << >> /\ backlogged' = backlogged BY <1>1 DEF Serve, Looks
<1>3. /\ backlogged # << >> /\ b = Head(backlogged) /\ IsOn(backlogged, c)
      /\ backlogged \in Seq(Buckets) /\ Once(backlogged)
    BY <1>1, <1>2, WhoseTurn, WaitingIsOn DEF IInv, ListsTypeOK, RoundInv, OnceEach
<1>4. IsOn(backlogged, b) /\ Before(backlogged, b, c) BY <1>3, BeforeHead, OnceLess
<1>5. /\ Given(b) \in 1 .. Largest /\ deficit'[b] = deficit[b] - Given(b)
      /\ deficit'[b] \in 1 - Largest .. Quantum /\ deficit'[c] = deficit[c]
    BY <1>1, ServeCharges
<1>6. /\ streak[b][c] \in Nat /\ MostToCome \in Nat /\ Quantum \in Nat \ {0}
      /\ Largest \in Nat \ {0} /\ deficit[b] \in Int /\ ToCome(deficit[c]) \in Nat
    BY FairNumbers
<1>7. streak[b][c] + deficit[b] + ToCome(deficit[c]) <= MostToCome + 0
    BY <1>3, <1>4 DEF FairTo
<1>8. PICK s, g, d, l, q, u, m :
        /\ s = streak[b][c] /\ g = Given(b) /\ d = deficit[b] /\ l = Largest /\ q = Quantum
        /\ u = ToCome(deficit[c]) /\ m = MostToCome
    OBVIOUS
<1>9. /\ s \in Nat /\ l \in Nat /\ q \in Nat /\ d \in Int /\ g \in 1 .. l /\ u \in Nat /\ m \in Nat
      /\ d - g \in 1 - l .. q /\ s + d + u <= m + 0
    BY <1>5, <1>6, <1>7, <1>8
<1>10. s + g \in Nat /\ s + g < m + l /\ (s + g) + (d - g) + u <= m + 0 BY ONLY <1>9
<1>11. streak'[b][c] = s + g /\ deficit'[b] = d - g /\ ToCome(deficit'[c]) = u BY <1>5, <1>8
<1>12. streak'[b][c] \in Nat /\ streak'[b][c] < MostToCome + Largest BY ONLY <1>8, <1>10, <1>11
<1>13. streak'[b][c] + deficit'[b] + ToCome(deficit'[c]) <= MostToCome + 0
    BY ONLY <1>8, <1>10, <1>11
<1>14. IsOn(backlogged', b) /\ Before(backlogged', b, c) BY <1>2, <1>4
<1>15. FairTo(b, c)' BY <1>13, <1>14 DEF FairTo, IsOn, Before
<1>. QED BY <1>12, <1>15

\* A step that is not counted leaves the other its turn.
LEMMA OtherStepsFair ==
    ASSUME IInv, HoldsPackets, RoundInv, StreakOK, [Next]_vars,
           NEW b \in Buckets, NEW c \in Buckets, b # c, Waits(c), ~Serves(c),
           ~(Serves(b) /\ fresh = << >>), streak'[b][c] = streak[b][c], FairTo(b, c)
    PROVE  FairTo(b, c)'
<1>0. IsOn(backlogged, c) BY WaitingIsOn DEF IInv
<1>1. ASSUME UNCHANGED <<deficit, backlogged>> PROVE FairTo(b, c)' BY <1>1, FairKept
<1>2. ASSUME backlogged' = backlogged, deficit'[c] = deficit[c],
             IsOn(backlogged, b) => deficit'[b] = deficit[b]
      PROVE  FairTo(b, c)'
    BY <1>2, FairKept
<1>3. ASSUME NEW p \in Packets, Push(p) PROVE FairTo(b, c)' BY <1>1, <1>3 DEF Push, innerVars
<1>4. CASE Close \/ DropFattest \/ Notify \/ NotifyClosed
    BY <1>1, <1>4 DEF Close, DropFattest, Notify, NotifyClosed, innerVars
<1>5. CASE Admit
    <2>1. backlogged' = backlogged /\ \A d \in listed : deficit'[d] = deficit[d]
        BY <1>5, AdmitFiles
    <2>2. c \in listed /\ (IsOn(backlogged, b) => b \in listed)
        BY <1>0 DEF RoundInv, OnAListIsListed
    <2>. QED BY <1>2, <2>1, <2>2
<1>6. ASSUME NEW s \in Stale, Arrive(s) PROVE FairTo(b, c)' BY <1>1, <1>6 DEF Arrive
<1>7. CASE Rotate BY <1>7, RotateFair
<1>8. CASE RunDry BY <1>8, RunDryFair
<1>9. ASSUME NEW n \in 0 .. count, Serve(n) PROVE FairTo(b, c)'
    <2>1. Queue # << >> /\ backlogged' = backlogged BY <1>9 DEF Serve, Looks
    <2>2. /\ Turn \in Buckets /\ Serves(Turn) /\ Turn # c
          /\ \A d \in Buckets : d # Turn => deficit'[d] = deficit[d]
        BY <1>9, ServeServes, ServeCharges
    <2>3. CASE fresh # << >>
        <3>1. ~IsOn(backlogged, Turn)
            BY <2>1, <2>3, WhoseTurn, OnceLess DEF IInv, ListsTypeOK, RoundInv, OnceEach
        <3>. QED BY <1>2, <2>1, <2>2, <3>1
    <2>4. CASE fresh = << >>
        <3>1. Turn # b BY <2>2, <2>4
        <3>. QED BY <1>2, <2>1, <2>2, <3>1
    <2>. QED BY <2>3, <2>4
<1>10. CASE Leave \/ Lock \/ Hand \/ Finish \/ Wait \/ Await \/ Wake \/ Sent
    BY <1>1, <1>10 DEF Leave, Lock, Hand, Finish, Wait, Await, Wake, Sent, innerVars
<1>11. CASE UNCHANGED vars BY <1>1, <1>11 DEF vars, innerVars
<1>. QED
    BY <1>3, <1>4, <1>5, <1>6, <1>7, <1>8, <1>9, <1>10, <1>11
    DEF Next, Producing, Consuming, Dequeue

LEMMA StepKeepsFair ==
    ASSUME IInv, HoldsPackets, RoundInv, FairInv, [HistNext]_<<vars, streak>>
    PROVE  FairInv'
<1>0. StreakOK /\ \A b, c \in Buckets : b # c => FairTo(b, c) BY DEF FairInv
<1>1. CASE HistNext
    <2>1. [Next]_vars BY <1>1 DEF HistNext
    <2>2. streak' = [b \in Buckets |-> [c \in Buckets |->
            IF Serves(c) \/ ~Waits(c) THEN 0
            ELSE IF Serves(b) /\ fresh = << >> THEN streak[b][c] + Given(b) ELSE streak[b][c]]]
        BY <1>1 DEF HistNext
    <2>3. ListsTypeOK' /\ RoundInv' BY <2>1, StepKeepsLists, StepKeepsRound
    <2>4. MostToCome \in Nat /\ Largest \in Nat \ {0} BY MostIs, LargestIs
    <2>5. ASSUME NEW b \in Buckets, NEW c \in Buckets
          PROVE  /\ streak'[b][c] \in Nat /\ streak'[b][c] < MostToCome + Largest
                 /\ b # c => FairTo(b, c)'
                 /\ b = c => streak'[b][c] = 0
        <3>1. streak'[b][c] =
                IF Serves(c) \/ ~Waits(c) THEN 0
                ELSE IF Serves(b) /\ fresh = << >> THEN streak[b][c] + Given(b) ELSE streak[b][c]
            BY <2>2
        <3>2. /\ streak[b][c] \in Nat /\ streak[b][c] < MostToCome + Largest
              /\ b = c => streak[b][c] = 0
            BY <1>0 DEF StreakOK
        <3>3. CASE Serves(c) \/ ~Waits(c)
            <4>1. streak'[b][c] = 0 BY <3>1, <3>3
            <4>2. b # c => FairTo(b, c)' BY <2>3, <4>1, NothingStaysFair DEF NothingIsFair
            <4>3. 0 < MostToCome + Largest BY <2>4
            <4>. QED BY <4>1, <4>2, <4>3
        <3>4. CASE ~Serves(c) /\ Waits(c) /\ Serves(b) /\ fresh = << >>
            <4>1. b # c /\ streak'[b][c] = streak[b][c] + Given(b) BY <3>1, <3>4
            <4>. QED BY <1>0, <2>1, <3>4, <4>1, ServeFair
        <3>5. CASE ~Serves(c) /\ Waits(c) /\ ~(Serves(b) /\ fresh = << >>)
            <4>1. streak'[b][c] = streak[b][c] BY <3>1, <3>5
            <4>2. b # c => FairTo(b, c)' BY <1>0, <2>1, <3>5, <4>1, OtherStepsFair
            <4>. QED BY <3>2, <4>1, <4>2
        <3>. QED BY <3>3, <3>4, <3>5
    <2>6. StreakOK' BY <2>2, <2>5 DEF StreakOK
    <2>. QED BY <2>5, <2>6 DEF FairInv
<1>2. CASE UNCHANGED <<vars, streak>>
    <2>1. UNCHANGED <<deficit, backlogged, streak>> BY <1>2 DEF vars, innerVars
    <2>2. StreakOK' BY <1>0, <2>1 DEF StreakOK
    <2>3. \A b, c \in Buckets : b # c => FairTo(b, c)' BY <1>0, <2>1, FairKept
    <2>. QED BY <2>2, <2>3 DEF FairInv
<1>. QED BY <1>1, <1>2

\* Of two buckets with a backlog, of packets of any size, neither is given more than
\* makes good what the other overdrew, and what its last packet overdraws, before the
\* other has its turn.
THEOREM NeitherIsStarved == HistSpec => []NeitherRunsAway
<1>1. HistSpec => Spec
    <2>1. HistInit => QueueInit BY DEF HistInit
    <2>2. [HistNext]_<<vars, streak>> => [Next]_vars BY DEF HistNext
    <2>. QED BY <2>1, <2>2, PTL DEF HistSpec, Spec
<1>2. HistInit /\ IInv /\ RoundInv => FairInv
    <2>. SUFFICES ASSUME HistInit, IInv, RoundInv PROVE FairInv OBVIOUS
    <2>1. streak = [b \in Buckets |-> [c \in Buckets |-> 0]] BY DEF HistInit
    <2>2. MostToCome \in Nat /\ Largest \in Nat \ {0} BY MostIs, LargestIs
    <2>3. 0 < MostToCome + Largest BY <2>2
    <2>4. StreakOK BY <2>1, <2>3 DEF StreakOK
    <2>5. \A b, c \in Buckets : b # c => FairTo(b, c) BY <2>1, FairFromNothing DEF IInv
    <2>. QED BY <2>4, <2>5 DEF FairInv
<1>3. IInv /\ HoldsPackets /\ RoundInv /\ FairInv /\ [HistNext]_<<vars, streak>> => FairInv'
    BY StepKeepsFair
<1>4. HistSpec => []FairInv
    BY <1>1, <1>2, <1>3, QueueInvariant, PacketsInvariant, RoundInvariant, PTL DEF HistSpec
<1>5. FairInv => NeitherRunsAway
    BY DEF FairInv, StreakOK, NeitherRunsAway, MostToCome
<1>. QED BY <1>4, <1>5, PTL

=============================================================================
