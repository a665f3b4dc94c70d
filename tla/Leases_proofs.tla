---------------------------- MODULE Leases_proofs ---------------------------
(***************************************************************************)
(* Proofs about the lease table, for every set of addresses, every bound   *)
(* on time to live, table and answer, and every sweep interval: an address *)
(* leaves when its answers and its traffic allow or, in its turn, to make  *)
(* room, is there no longer than one sweep after they do, and never more   *)
(* of them are than MAX_LEASES.                                            *)
(***************************************************************************)
EXTENDS LeaseHistory, FiniteSetTheorems, TLAPS

HistTypeOK ==
    /\ LeaseTypeOK
    /\ used \in [Addresses -> Int]
    /\ learned \in [Addresses -> Int]
    /\ promised \in [Addresses -> Int]

\* Nothing is remembered of an address that is not held.
NothingOfTheGone ==
    \A a \in Addresses \ DOMAIN held :
        used[a] = Never /\ learned[a] = Never /\ promised[a] = Never

\* A lease expires when its answers and its packets ask for it no longer ...
ExpiryAsAsked == \A a \in DOMAIN held : held[a] = AskedFor(a)

\* ... which is no later than its answers and its traffic allow ...
NotTooLong ==
    \A a \in DOMAIN held : held[a] <= AtLeast(learned[a] + MaxLease, used[a] + MinLease)

\* ... later than the last sweep, which is never more than an interval ago.
SweptAll ==
    /\ swept <= now /\ now <= swept + SweepEvery
    /\ \A a \in DOMAIN held : swept < held[a]

\* What is remembered is of the past.
OfThePast == \A a \in Addresses : used[a] <= now /\ learned[a] <= now

HInv ==
    /\ HistTypeOK
    /\ OfThePast
    /\ NothingOfTheGone
    /\ ExpiryAsAsked
    /\ NotTooLong
    /\ SweptAll

LEMMA LifetimeBounds ==
  ASSUME NEW t \in Ttls
  PROVE  Lifetime(t) \in Nat /\ MinLease <= Lifetime(t) /\ Lifetime(t) <= MaxLease
  BY LeaseAssumption DEF Lifetime

LEMMA NeverFacts == Never \in Int /\ Never <= 0 /\ Never + MinLease <= 0
  BY LeaseAssumption DEF Never

LEMMA InitHInv == HistInit => HInv
<1> SUFFICES ASSUME HistInit PROVE HInv
  OBVIOUS
<1>1. DOMAIN held = {}
  BY DEF HistInit, LeaseInit
<1>2. left \in Seq(Record)
  BY DEF HistInit, LeaseInit
<1>3. HistTypeOK
  BY <1>1, <1>2, NeverFacts DEF HistInit, LeaseInit, HistTypeOK, LeaseTypeOK
<1>4. NothingOfTheGone
  BY DEF HistInit, NothingOfTheGone
<1>5. SweptAll
  BY <1>1, LeaseAssumption DEF HistInit, LeaseInit, SweptAll
<1>7. OfThePast
  BY LeaseAssumption DEF HistInit, LeaseInit, OfThePast, Never
<1>8. QED
  BY <1>1, <1>3, <1>4, <1>5, <1>7 DEF HInv, ExpiryAsAsked, AskedFor, NotTooLong

\* The two ways a record is taken in: into a lease that is held, or as a new one
\* beside those that are kept, all of them or, in a full table, all but one of those
\* that expire soonest.
LEMMA TakeInCases ==
  ASSUME LeaseTypeOK, NEW c \in Callers, TakeIn(c)
  PROVE  LET a     == Head(left).address
             until == now + Lifetime(Head(left).ttl)
         IN  /\ a \in Addresses
             /\ until \in Nat /\ now + MinLease <= until /\ until <= now + MaxLease
             /\ \/ /\ a \in DOMAIN held
                   /\ held' = [b \in DOMAIN held |->
                                 IF b = a THEN AtLeast(held[b], until) ELSE held[b]]
                \/ /\ a \notin DOMAIN held
                   /\ \E kept \in SUBSET DOMAIN held :
                         /\ held' = [b \in kept \cup {a} |-> IF b = a THEN until ELSE held[b]]
                         /\ \/ kept = DOMAIN held
                            \/ /\ Full
                               /\ \E victim \in Soonest(held) : kept = DOMAIN held \ {victim}
<1> DEFINE a == Head(left).address
           until == now + Lifetime(Head(left).ttl)
<1>1. Head(left) \in Record
  BY DEF TakeIn, LeaseTypeOK
<1>2. /\ a \in Addresses
      /\ until \in Nat /\ now + MinLease <= until /\ until <= now + MaxLease
  BY <1>1, LifetimeBounds, LeaseAssumption DEF Record, LeaseTypeOK
<1>3. CASE a \in DOMAIN held /\ held' = Renew(held, a, until)
  BY <1>2, <1>3 DEF Renew, LeaseTypeOK
<1>4. CASE a \notin DOMAIN held /\ held' = Hold(held, a, until)
  <2>1. held' = [b \in DOMAIN held \cup {a} |-> IF b = a THEN until ELSE held[b]]
    BY <1>4 DEF Hold
  <2>2. QED
    BY <1>2, <1>4, <2>1
<1>5. CASE /\ a \notin DOMAIN held /\ Full
           /\ \E victim \in Soonest(held) : held' = Hold(LetGo(held, {victim}), a, until)
  <2>1. PICK victim \in Soonest(held) : held' = Hold(LetGo(held, {victim}), a, until)
    BY <1>5
  <2>2. held' = [b \in (DOMAIN held \ {victim}) \cup {a} |-> IF b = a THEN until ELSE held[b]]
    BY <2>1 DEF Hold, LetGo, Restrict
  <2>3. DOMAIN held \ {victim} \in SUBSET DOMAIN held
    OBVIOUS
  <2>4. QED
    BY <1>2, <1>5, <2>1, <2>2, <2>3
<1>6. QED
  BY <1>3, <1>4, <1>5 DEF TakeIn

LEMMA TakeInKeeps ==
  ASSUME HInv, NEW c \in Callers, HistTakeIn(c)
  PROVE  HInv'
<1> DEFINE a == Head(left).address
           until == now + Lifetime(Head(left).ttl)
<1> USE DEF HInv
<1>1. /\ a \in Addresses
      /\ until \in Nat /\ now + MinLease <= until /\ until <= now + MaxLease
      /\ \/ /\ a \in DOMAIN held
            /\ held' = [b \in DOMAIN held |->
                          IF b = a THEN AtLeast(held[b], until) ELSE held[b]]
         \/ /\ a \notin DOMAIN held
            /\ \E still \in SUBSET DOMAIN held :
                  held' = [b \in still \cup {a} |-> IF b = a THEN until ELSE held[b]]
  BY TakeInCases DEF HistTakeIn, HistTypeOK
<1>2. PICK still \in SUBSET DOMAIN held :
        held' = [b \in still \cup {a} |->
                    IF b = a THEN (IF a \in DOMAIN held THEN AtLeast(held[a], until) ELSE until)
                             ELSE held[b]]
  <2>1. CASE a \in DOMAIN held
    <3>1. held' = [b \in DOMAIN held |-> IF b = a THEN AtLeast(held[b], until) ELSE held[b]]
      BY <1>1, <2>1
    <3>2. held' = [b \in DOMAIN held \cup {a} |->
                      IF b = a THEN (IF a \in DOMAIN held THEN AtLeast(held[a], until)
                                                         ELSE until)
                               ELSE held[b]]
      BY <3>1, <2>1, DOMAIN held \cup {a} = DOMAIN held
    <3>3. QED
      BY ONLY <3>2
  <2>2. CASE a \notin DOMAIN held
    BY <1>1, <2>2
  <2>3. QED
    BY <2>1, <2>2
<1>3. DOMAIN held' = still \cup {a}
  BY <1>2
<1>4. /\ used' = [b \in Addresses |-> IF b \in DOMAIN held' THEN used[b] ELSE Never]
      /\ learned' = [b \in Addresses |->
            IF b \in DOMAIN held' THEN (IF b = a THEN now ELSE learned[b]) ELSE Never]
      /\ promised' = [b \in Addresses |->
            IF b \in DOMAIN held'
              THEN (IF b = a THEN AtLeast(promised[b], until) ELSE promised[b]) ELSE Never]
      /\ now' = now /\ swept' = swept
  BY <1>1 DEF HistTakeIn, TakeIn, Forgotten, HistTypeOK
<1>5. HistTypeOK'
  <2>1. LeaseTypeOK'
    <3>1. held' \in [DOMAIN held' -> Nat]
      BY <1>1, <1>2, <1>3 DEF HistTypeOK, LeaseTypeOK, AtLeast
    <3>2. Tail(left) \in Seq(Record)
      BY DEF HistTakeIn, TakeIn, HistTypeOK, LeaseTypeOK
    <3>3. QED
      BY <1>1, <1>3, <3>1, <3>2 DEF HistTakeIn, TakeIn, HistTypeOK, LeaseTypeOK
  <2>2. QED
    BY <1>1, <1>4, <2>1, NeverFacts DEF HistTypeOK, LeaseTypeOK, AtLeast
<1>6. NothingOfTheGone'
  BY <1>4 DEF NothingOfTheGone
<1>7. ASSUME NEW b \in DOMAIN held'
      PROVE  /\ held'[b] = AtLeast(promised'[b], used'[b] + MinLease)
             /\ held'[b] <= AtLeast(learned'[b] + MaxLease, used'[b] + MinLease)
             /\ swept' < held'[b]
  <2>1. CASE b # a
    BY <1>1, <1>2, <1>3, <1>4, <1>7, <2>1
    DEF HistTypeOK, LeaseTypeOK, ExpiryAsAsked, AskedFor, OfThePast, NotTooLong, SweptAll
  <2>2. CASE b = a /\ a \in DOMAIN held
    <3>1. /\ held'[a] = AtLeast(held[a], until) /\ used'[a] = used[a]
          /\ learned'[a] = now /\ promised'[a] = AtLeast(promised[a], until)
      BY <1>1, <1>2, <1>3, <1>4, <2>2
    <3>2. /\ held[a] \in Nat /\ used[a] \in Int /\ learned[a] \in Int /\ promised[a] \in Int
          /\ now \in Nat /\ swept \in Nat
          /\ learned[a] <= now /\ used[a] <= now /\ swept < held[a]
          /\ held[a] = AtLeast(promised[a], used[a] + MinLease)
          /\ held[a] <= AtLeast(learned[a] + MaxLease, used[a] + MinLease)
      BY <1>1, <2>2 DEF HistTypeOK, LeaseTypeOK, OfThePast, ExpiryAsAsked, AskedFor, NotTooLong,
        SweptAll
    <3>3. QED
      BY <1>1, <1>4, <2>2, <3>1, <3>2, LeaseAssumption DEF AtLeast
  <2>3. CASE b = a /\ a \notin DOMAIN held
    <3>1. /\ held'[a] = until /\ used'[a] = used[a]
          /\ learned'[a] = now /\ promised'[a] = AtLeast(promised[a], until)
      BY <1>1, <1>2, <1>3, <1>4, <2>3
    <3>2. /\ used[a] = Never /\ promised[a] = Never /\ now \in Nat /\ swept \in Nat
          /\ swept <= now
      BY <1>1, <2>3 DEF HistTypeOK, LeaseTypeOK, NothingOfTheGone, SweptAll
    <3>3. /\ until \in Nat /\ now + MinLease <= until /\ until <= now + MaxLease
          /\ swept' = swept
      BY <1>1, <1>4
    <3>4. QED
      BY <2>3, <3>1, <3>2, <3>3, LeaseAssumption, NeverFacts DEF AtLeast
  <2>4. QED
    BY <2>1, <2>2, <2>3
<1>8. OfThePast'
  BY <1>1, <1>4, NeverFacts DEF OfThePast, HistTypeOK, LeaseTypeOK
<1>9. QED
  BY <1>4, <1>5, <1>6, <1>7, <1>8 DEF ExpiryAsAsked, AskedFor, OfThePast, NotTooLong, SweptAll

LEMMA ExpireKeeps ==
  ASSUME HInv, HistExpire
  PROVE  HInv'
<1> USE DEF HInv
<1>1. /\ held' = [b \in DOMAIN held \ FallenDue(held) |-> held[b]]
      /\ now' = now /\ swept' = now
      /\ used' = [b \in Addresses |-> IF b \in DOMAIN held' THEN used[b] ELSE Never]
      /\ learned' = [b \in Addresses |-> IF b \in DOMAIN held' THEN learned[b] ELSE Never]
      /\ promised' = [b \in Addresses |-> IF b \in DOMAIN held' THEN promised[b] ELSE Never]
  BY DEF HistExpire, Expire, LetGo, Restrict, Forgotten
<1>2. DOMAIN held' = DOMAIN held \ FallenDue(held)
  BY <1>1
<1>3. HistTypeOK'
  BY <1>1, <1>2, NeverFacts DEF HistExpire, Expire, HistTypeOK, LeaseTypeOK
<1>4. NothingOfTheGone'
  BY <1>1 DEF NothingOfTheGone
<1>5. ExpiryAsAsked' /\ NotTooLong'
  BY <1>1, <1>2 DEF ExpiryAsAsked, AskedFor, NotTooLong, HistTypeOK, LeaseTypeOK
<1>6. SweptAll'
  BY <1>1, <1>2, LeaseAssumption DEF SweptAll, FallenDue, HistTypeOK, LeaseTypeOK
<1>7. OfThePast'
  BY <1>1, NeverFacts DEF OfThePast, HistTypeOK, LeaseTypeOK
<1>8. QED
  BY <1>3, <1>4, <1>5, <1>6, <1>7

LEMMA HistNextKeeps == HInv /\ [HistNext]_hVars => HInv'
<1> SUFFICES ASSUME HInv, [HistNext]_hVars PROVE HInv'
  OBVIOUS
<1> USE DEF HInv
<1>1. ASSUME NEW c \in Callers, NEW answer \in Answers,
             BeginRecord(c, answer), UNCHANGED histVars
      PROVE  HInv'
  <2>1. answer \in Seq(Record)
    BY LeaseAssumption DEF Answers
  <2>2. QED
    BY <1>1, <2>1 DEF BeginRecord, histVars, HistTypeOK, LeaseTypeOK, NothingOfTheGone,
         ExpiryAsAsked, AskedFor, OfThePast, NotTooLong, SweptAll
<1>2. ASSUME NEW c \in Callers, EndRecord(c), UNCHANGED histVars PROVE HInv'
  BY <1>2 DEF EndRecord, histVars, HistTypeOK, LeaseTypeOK, NothingOfTheGone,
       ExpiryAsAsked, AskedFor, OfThePast, NotTooLong, SweptAll
<1>3. ASSUME NEW a \in Addresses, HistTouch(a) PROVE HInv'
  <2>1. /\ a \in DOMAIN held
        /\ held' = [b \in DOMAIN held |->
                      IF b = a THEN AtLeast(held[b], now + MinLease) ELSE held[b]]
        /\ used' = [b \in Addresses |-> IF b = a THEN now ELSE used[b]]
        /\ now + MinLease \in Nat
    <3>1. used' = [b \in Addresses |-> IF b = a THEN now ELSE used[b]]
      BY <1>3 DEF HistTouch, HistTypeOK
    <3>2. held' = [b \in DOMAIN held |->
                      IF b = a THEN AtLeast(held[b], now + MinLease) ELSE held[b]]
      BY <1>3 DEF HistTouch, Touch, Renew
    <3>3. now + MinLease \in Nat
      BY LeaseAssumption DEF HistTypeOK, LeaseTypeOK
    <3>4. QED
      BY <1>3, <3>1, <3>2, <3>3 DEF HistTouch, Touch
  <2>2. /\ DOMAIN held' = DOMAIN held
        /\ UNCHANGED <<now, swept, writer, left, changed, learned, promised>>
    BY <1>3, <2>1 DEF HistTouch, Touch
  <2>3. HistTypeOK' /\ NothingOfTheGone'
    <3>1. held' \in [DOMAIN held' -> Nat]
      BY <2>1, <2>2 DEF HistTypeOK, LeaseTypeOK, AtLeast
    <3>2. used' \in [Addresses -> Int]
      BY <2>1 DEF HistTypeOK, LeaseTypeOK
    <3>3. QED
      BY <2>1, <2>2, <3>1, <3>2 DEF HistTypeOK, LeaseTypeOK, NothingOfTheGone
  <2>4. ASSUME NEW b \in DOMAIN held'
        PROVE  /\ held'[b] = AtLeast(promised'[b], used'[b] + MinLease)
               /\ held'[b] <= AtLeast(learned'[b] + MaxLease, used'[b] + MinLease)
               /\ swept' < held'[b]
    <3>1. /\ held[b] \in Nat /\ used[b] \in Int /\ learned[b] \in Int /\ promised[b] \in Int
          /\ now \in Nat /\ swept \in Nat
          /\ used[b] <= now /\ learned[b] <= now /\ swept < held[b]
          /\ held[b] = AtLeast(promised[b], used[b] + MinLease)
          /\ held[b] <= AtLeast(learned[b] + MaxLease, used[b] + MinLease)
      BY <2>2, <2>4 DEF HistTypeOK, LeaseTypeOK, OfThePast, ExpiryAsAsked, AskedFor, NotTooLong,
        SweptAll
    <3>2. /\ held'[b] = IF b = a THEN AtLeast(held[b], now + MinLease) ELSE held[b]
          /\ used'[b] = IF b = a THEN now ELSE used[b]
          /\ learned'[b] = learned[b] /\ promised'[b] = promised[b] /\ swept' = swept
      BY <2>1, <2>2, <2>4 DEF LeaseTypeOK, HistTypeOK
    <3>3. QED
      BY <3>1, <3>2, LeaseAssumption DEF AtLeast
  <2>5. OfThePast'
    BY <2>1, <2>2 DEF OfThePast, HistTypeOK, LeaseTypeOK
  <2>6. QED
    BY <2>2, <2>3, <2>4, <2>5 DEF ExpiryAsAsked, AskedFor, NotTooLong, SweptAll
<1>4. ASSUME Tick, UNCHANGED histVars PROVE HInv'
  BY <1>4, LeaseAssumption DEF Tick, histVars, HistTypeOK, LeaseTypeOK, NothingOfTheGone,
       ExpiryAsAsked, AskedFor, OfThePast, NotTooLong, SweptAll
<1>5. CASE UNCHANGED hVars
  BY <1>5 DEF hVars, leaseVars, histVars, HistTypeOK, LeaseTypeOK, NothingOfTheGone,
       ExpiryAsAsked, AskedFor, OfThePast, NotTooLong, SweptAll
<1>6. QED
  BY <1>1, <1>2, <1>3, <1>4, <1>5, TakeInKeeps, ExpireKeeps DEF HistNext

\* The invariant the promises of the table follow from: its types, the three
\* bounds, and that what is remembered is of the past and of what is held.
THEOREM LeaseInvariance == HistSpec => []HInv
  BY InitHInv, HistNextKeeps, PTL DEF HistSpec

\* The table's types, in every state (lease.rs:60-80).
THEOREM LeaseTypeCorrect == HistSpec => []LeaseTypeOK
<1>1. HInv => LeaseTypeOK
  BY DEF HInv, HistTypeOK
<1>2. QED
  BY <1>1, LeaseInvariance, PTL

\* An address is in the table no longer than a sweep interval after its answers
\* and its traffic stopped keeping it (lease.rs:137-143, main.rs:467-478).
THEOREM LeaseLetGo == HistSpec => []LetGoInTime
<1>1. HInv => LetGoInTime
  <2>1. SUFFICES ASSUME HInv, NEW a \in DOMAIN held
                 PROVE  now <= SweepEvery + AtLeast(learned[a] + MaxLease, used[a] + MinLease)
    BY DEF LetGoInTime
  <2>2. /\ a \in Addresses /\ held[a] \in Nat /\ learned[a] \in Int /\ used[a] \in Int
        /\ now \in Nat /\ swept \in Nat
        /\ swept < held[a] /\ now <= swept + SweepEvery
        /\ held[a] <= AtLeast(learned[a] + MaxLease, used[a] + MinLease)
    BY <2>1 DEF HInv, HistTypeOK, LeaseTypeOK, NotTooLong, SweptAll
  <2>3. QED
    BY <2>2, LeaseAssumption DEF AtLeast
<1>2. QED
  BY <1>1, LeaseInvariance, PTL

\* A record taken in lets go of one address at the most, for a fresh one, in a full
\* table, and of one asked for no longer than any that was held.
LEMMA RoomIsMadeInTurn ==
  ASSUME HInv, NEW c \in Callers, HistTakeIn(c), NEW a \in DOMAIN held \ DOMAIN held'
  PROVE  /\ Cardinality(DOMAIN held) >= MaxLeases
         /\ DOMAIN held \ DOMAIN held' = {a}
         /\ DOMAIN held' \ DOMAIN held # {}
         /\ \A b \in DOMAIN held : AskedFor(a) <= AskedFor(b)
<1> DEFINE fresh == Head(left).address
           until == now + Lifetime(Head(left).ttl)
<1>1. PICK kept \in SUBSET DOMAIN held :
        /\ fresh \notin DOMAIN held
        /\ held' = [b \in kept \cup {fresh} |-> IF b = fresh THEN until ELSE held[b]]
        /\ \/ kept = DOMAIN held
           \/ Full /\ \E victim \in Soonest(held) : kept = DOMAIN held \ {victim}
  <2>1. TakeIn(c) /\ LeaseTypeOK
    BY DEF HistTakeIn, HInv, HistTypeOK
  <2>2. CASE /\ fresh \in DOMAIN held
             /\ held' = [b \in DOMAIN held |->
                           IF b = fresh THEN AtLeast(held[b], until) ELSE held[b]]
    BY <2>2
  <2>3. QED
    BY <2>1, <2>2, TakeInCases
<1>2. DOMAIN held' = kept \cup {fresh}
  BY <1>1
<1>3. PICK victim \in Soonest(held) : Full /\ kept = DOMAIN held \ {victim}
  BY <1>1, <1>2
<1>4. victim \in DOMAIN held /\ \A b \in DOMAIN held : held[victim] <= held[b]
  BY DEF Soonest
<1>5. victim = a
  BY <1>2, <1>3
<1>6. \A b \in DOMAIN held : held[b] = AskedFor(b)
  BY DEF HInv, ExpiryAsAsked
<1>7. QED
  BY <1>1, <1>2, <1>3, <1>4, <1>5, <1>6 DEF Full

\* A sweep lets go only of what nothing asks for any more.
LEMMA SweepIsFair ==
  ASSUME HInv, HistExpire, NEW a \in DOMAIN held \ DOMAIN held'
  PROVE  AskedFor(a) <= now
<1>1. held[a] <= now
  BY DEF HistExpire, Expire, LetGo, FallenDue, Restrict
<1>2. held[a] = AskedFor(a)
  BY DEF HInv, ExpiryAsAsked
<1>3. QED
  BY <1>1, <1>2

\* An address leaves before its answers and its packets allow only to make room, alone,
\* for a fresh one in a full table, and none that was held was asked for less long
\* (lease.rs:89-143, 181-191).
THEOREM LeaseLeavesInTurn == HistSpec => LeavesInTurn
<1>1. HInv /\ [HistNext]_hVars =>
        [\A a \in DOMAIN held \ DOMAIN held' :
            \/ AskedFor(a) <= now
            \/ /\ Cardinality(DOMAIN held) >= MaxLeases
               /\ DOMAIN held \ DOMAIN held' = {a}
               /\ DOMAIN held' \ DOMAIN held # {}
               /\ \A b \in DOMAIN held : AskedFor(a) <= AskedFor(b)]_hVars
  <2> SUFFICES ASSUME HInv, HistNext, NEW a \in DOMAIN held \ DOMAIN held'
               PROVE  \/ AskedFor(a) <= now
                      \/ /\ Cardinality(DOMAIN held) >= MaxLeases
                         /\ DOMAIN held \ DOMAIN held' = {a}
                         /\ DOMAIN held' \ DOMAIN held # {}
                         /\ \A b \in DOMAIN held : AskedFor(a) <= AskedFor(b)
    OBVIOUS
  <2>1. CASE \E c \in Callers : HistTakeIn(c)
    BY <2>1, RoomIsMadeInTurn
  <2>2. CASE HistExpire
    BY <2>2, SweepIsFair
  <2>3. CASE \E b \in Addresses : HistTouch(b)
    <3>1. DOMAIN held' = DOMAIN held
      BY <2>3 DEF HistTouch, Touch, Renew
    <3>2. QED
      BY <3>1
  <2>4. CASE UNCHANGED held
    BY <2>4
  <2>5. QED
    BY <2>1, <2>2, <2>3, <2>4 DEF HistNext, BeginRecord, EndRecord, Tick
<1>2. QED
  BY <1>1, LeaseInvariance, PTL DEF HistSpec, LeavesInTurn

-----------------------------------------------------------------------------
\* The number of leases: an addition is made below the limit or in place of one
\* that is dropped.
LEMMA TakeInWithinLimit ==
  ASSUME LeaseTypeOK, WithinLimit, NEW c \in Callers, TakeIn(c)
  PROVE  WithinLimit'
<1> DEFINE a == Head(left).address
           until == now + Lifetime(Head(left).ttl)
<1>1. IsFiniteSet(DOMAIN held)
  BY LeaseAssumption, FS_Subset DEF LeaseTypeOK
<1>2. Cardinality(DOMAIN held) \in Nat
  BY <1>1, FS_CardinalityType
<1>3. CASE a \in DOMAIN held /\ held' = Renew(held, a, until)
  <2>1. DOMAIN held' = DOMAIN held
    BY <1>3 DEF Renew
  <2>2. QED
    BY <2>1 DEF WithinLimit
<1>4. CASE /\ a \notin DOMAIN held
           /\ ~Full
           /\ held' = Hold(held, a, until)
  <2>1. DOMAIN held' = DOMAIN held \cup {a}
    BY <1>4 DEF Hold
  <2>2. Cardinality(DOMAIN held') = Cardinality(DOMAIN held) + 1
    BY <1>1, <1>4, <2>1, FS_AddElement
  <2>3. QED
    BY <1>2, <1>4, <2>2, LeaseAssumption DEF WithinLimit, Full
<1>5. ASSUME a \notin DOMAIN held, NEW victim \in Soonest(held),
             held' = Hold(LetGo(held, {victim}), a, until)
      PROVE  WithinLimit'
  <2>1. victim \in DOMAIN held
    BY DEF Soonest
  <2>2. DOMAIN held' = (DOMAIN held \ {victim}) \cup {a}
    BY <1>5 DEF Hold, LetGo, Restrict
  <2>3. /\ IsFiniteSet(DOMAIN held \ {victim})
        /\ Cardinality(DOMAIN held \ {victim}) = Cardinality(DOMAIN held) - 1
    BY <1>1, <2>1, FS_RemoveElement
  <2>4. Cardinality(DOMAIN held') = Cardinality(DOMAIN held \ {victim}) + 1
    BY <1>5, <2>2, <2>3, FS_AddElement
  <2>5. QED
    BY <1>2, <2>3, <2>4 DEF WithinLimit
<1>6. QED
  BY <1>3, <1>4, <1>5 DEF TakeIn

\* The table never outgrows MAX_LEASES, whatever is answered (lease.rs:107-111).
THEOREM LeaseLimit == HistSpec => []WithinLimit
<1>1. HistInit => WithinLimit
  <2>1. SUFFICES ASSUME HistInit PROVE WithinLimit
    OBVIOUS
  <2>2. DOMAIN held = {}
    BY <2>1 DEF HistInit, LeaseInit
  <2>3. QED
    BY <2>2, FS_EmptySet, LeaseAssumption DEF WithinLimit
<1>2. HInv /\ WithinLimit /\ [HistNext]_hVars => WithinLimit'
  <2>1. SUFFICES ASSUME HInv, WithinLimit, [HistNext]_hVars PROVE WithinLimit'
    OBVIOUS
  <2>2. LeaseTypeOK
    BY <2>1 DEF HInv, HistTypeOK
  <2>3. CASE \E c \in Callers : HistTakeIn(c)
    BY <2>1, <2>2, <2>3, TakeInWithinLimit DEF HistTakeIn
  <2>4. CASE HistExpire
    <3>1. IsFiniteSet(DOMAIN held)
      BY <2>2, LeaseAssumption, FS_Subset DEF LeaseTypeOK
    <3>2. DOMAIN held' \subseteq DOMAIN held
      BY <2>4 DEF HistExpire, Expire, LetGo, Restrict
    <3>3. /\ Cardinality(DOMAIN held') <= Cardinality(DOMAIN held)
          /\ Cardinality(DOMAIN held) \in Nat /\ Cardinality(DOMAIN held') \in Nat
      BY <3>1, <3>2, FS_Subset, FS_CardinalityType
    <3>4. QED
      BY <2>1, <3>3, LeaseAssumption DEF WithinLimit
  <2>5. CASE \E a \in Addresses : HistTouch(a)
    <3>1. DOMAIN held' = DOMAIN held
      BY <2>5 DEF HistTouch, Touch, Renew
    <3>2. QED
      BY <2>1, <3>1 DEF WithinLimit
  <2>6. ASSUME UNCHANGED held PROVE WithinLimit'
    BY <2>1, <2>6 DEF WithinLimit
  <2>7. QED
    BY <2>1, <2>3, <2>4, <2>5, <2>6
    DEF HistNext, BeginRecord, EndRecord, Tick, hVars, leaseVars
<1>3. QED
  BY <1>1, <1>2, LeaseInvariance, PTL DEF HistSpec

=============================================================================
