------------------------------- MODULE Leases -------------------------------
(***************************************************************************)
(* The lease table (src/dns/lease.rs): the addresses the tunnel carries    *)
(* because a name resolved to them, each with the moment it may be let go. *)
(* An answer is taken in under the table's write lock, one record at a     *)
(* time; a packet renews a lease; a sweep lets go of what fell due.        *)
(*                                                                         *)
(* Time is a counter of abstract instants.  The names kept with a lease    *)
(* appear only in log lines and are left out.                              *)
(***************************************************************************)
EXTENDS Naturals, Sequences, FiniteSets, Functions

CONSTANTS
    Addresses,      \* the addresses an answer or a packet can name
    Ttls,           \* the times to live a record can carry
    Callers,        \* the tasks that can be taking in an answer
    Nobody,         \* stands for "no caller" where a lock is free
    MinLease,       \* MIN_LEASE, in instants
    MaxLease,       \* MAX_LEASE, in instants
    MaxLeases,      \* MAX_LEASES
    SweepEvery,     \* LEASE_SWEEP, in instants
    LongestAnswer,  \* how many records an answer holds at most (model bound)
    LastInstant     \* where the clock stops (model bound)

Record == [address : Addresses, ttl : Ttls]

ASSUME LeaseAssumption ==
    /\ Ttls \subseteq Nat
    /\ MinLease \in Nat \ {0} /\ MaxLease \in Nat /\ MinLease <= MaxLease
    /\ MaxLeases \in Nat \ {0}
    /\ SweepEvery \in Nat \ {0}
    /\ LongestAnswer \in Nat
    /\ LastInstant \in Nat
    /\ Nobody \notin Callers
    /\ IsFiniteSet(Addresses)

VARIABLES
    now,        \* the clock every lease is measured against
    held,       \* the table: address -> the instant its lease expires
    writer,     \* the caller holding the table's write lock, or Nobody
    left,       \* the records of the writer's answer not taken in yet
    changed,    \* whether the writer has added an address so far
    swept       \* when the sweep last came round

leaseVars == <<now, held, writer, left, changed, swept>>

-----------------------------------------------------------------------------
AtLeast(a, b) == IF a >= b THEN a ELSE b

\* The clamp from below only.
LifetimeUnbounded(ttl) == AtLeast(ttl, MinLease)

Lifetime(ttl) ==
    IF ttl < MinLease THEN MinLease ELSE IF ttl > MaxLease THEN MaxLease ELSE ttl

\* fetch_max on the expiry of a lease that is held: never shortened.
Renew(table, a, until) == [table EXCEPT ![a] = AtLeast(@, until)]

Hold(table, a, until) ==
    [b \in DOMAIN table \cup {a} |-> IF b = a THEN until ELSE table[b]]

LetGo(table, gone) == Restrict(table, DOMAIN table \ gone)

\* max_by_key for min_by_key: those that expire last.
Latest(table) ==
    {a \in DOMAIN table : \A b \in DOMAIN table : table[b] <= table[a]}

\* The leases evict_one may drop: those that expire soonest.  Which of several
\* is the first of the hash map's iteration order.
Soonest(table) ==
    {a \in DOMAIN table : \A b \in DOMAIN table : table[a] <= table[b]}

FallenDue(table) == {a \in DOMAIN table : table[a] <= now}

\* The limit passed by one before room is made.
FullLate == Cardinality(DOMAIN held) > MaxLeases

Full == Cardinality(DOMAIN held) >= MaxLeases

LeaseInit ==
    /\ now = 0
    /\ held = [a \in {} |-> 0]
    /\ writer = Nobody
    /\ left = <<>>
    /\ changed = FALSE
    /\ swept = 0

\* record() is entered: the instant is read and the write lock taken.  An
\* answer without records returns before either.
BeginRecord(c, answer) ==
    /\ writer = Nobody
    /\ answer # <<>>
    /\ writer' = c
    /\ left' = answer
    /\ changed' = FALSE
    /\ UNCHANGED <<now, held, swept>>

\* One turn of record()'s loop.
TakeIn(c) ==
    /\ writer = c
    /\ left # <<>>
    /\ LET a     == Head(left).address
           until == now + Lifetime(Head(left).ttl)
       IN  \/ /\ a \in DOMAIN held
              /\ held' = Renew(held, a, until)
              /\ UNCHANGED changed
           \/ /\ a \notin DOMAIN held
              /\ ~Full
              /\ held' = Hold(held, a, until)
              /\ changed' = TRUE
           \/ /\ a \notin DOMAIN held
              /\ Full
              /\ \E victim \in Soonest(held) :
                    held' = Hold(LetGo(held, {victim}), a, until)
              /\ changed' = TRUE
    /\ left' = Tail(left)
    /\ UNCHANGED <<now, writer, swept>>

\* record() returns: the lock is released and `changed` is the result.
EndRecord(c) ==
    /\ writer = c
    /\ left = <<>>
    /\ writer' = Nobody
    /\ UNCHANGED <<now, held, left, changed, swept>>

\* A packet to a is on its way into the tunnel.  Nothing is written when a is
\* not held, so that case is a stutter.
Touch(a) ==
    /\ writer = Nobody
    /\ a \in DOMAIN held
    /\ held' = Renew(held, a, now + MinLease)
    /\ UNCHANGED <<now, writer, left, changed, swept>>

\* One turn of the sweeping task.
Expire ==
    /\ writer = Nobody
    /\ held' = LetGo(held, FallenDue(held))
    /\ swept' = now
    /\ UNCHANGED <<now, writer, left, changed>>

\* The clock.  The sweeping task is never later than its interval, and taking
\* in an answer is too short for an instant to pass.
Tick ==
    /\ writer = Nobody
    /\ now < LastInstant
    /\ now < swept + SweepEvery
    /\ now' = now + 1
    /\ UNCHANGED <<held, writer, left, changed, swept>>

Answers == UNION {[1..n -> Record] : n \in 1..LongestAnswer}

LeaseNext ==
    \/ \E c \in Callers, answer \in Answers : BeginRecord(c, answer)
    \/ \E c \in Callers : TakeIn(c) \/ EndRecord(c)
    \/ \E a \in Addresses : Touch(a)
    \/ Expire
    \/ Tick

LeaseSpec == LeaseInit /\ [][LeaseNext]_leaseVars

-----------------------------------------------------------------------------
\* lease.rs:58-78: every variable holds what the code could hold there.
LeaseTypeOK ==
    /\ now \in Nat
    /\ DOMAIN held \in SUBSET Addresses
    /\ held \in [DOMAIN held -> Nat]
    /\ writer \in Callers \cup {Nobody}
    /\ left \in Seq(Record)
    /\ changed \in BOOLEAN
    /\ swept \in Nat

=============================================================================
