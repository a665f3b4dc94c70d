---------------------------- MODULE LeaseHistory ----------------------------
(***************************************************************************)
(* The lease table alone, with a record of what happened to each address:  *)
(* when a packet last went to it, when an answer last named it, and how    *)
(* long the answers since it was taken in asked for it to be kept.         *)
(***************************************************************************)
EXTENDS Leases, Integers

VARIABLES
    used,       \* address -> the instant of the last packet to it, or Never
    learned,    \* address -> the instant of the last answer naming it, or Never
    promised    \* address -> the latest instant an answer asked it be kept until

\* Earlier than any instant that could still keep an address.
Never == 0 - MaxLease

histVars == <<used, learned, promised>>

hVars == <<leaseVars, histVars>>

HistInit ==
    /\ LeaseInit
    /\ used = [a \in Addresses |-> Never]
    /\ learned = [a \in Addresses |-> Never]
    /\ promised = [a \in Addresses |-> Never]

\* What was promised for an address goes when the address does.
Forgotten(f) == [a \in Addresses |-> IF a \in DOMAIN held' THEN f[a] ELSE Never]

HistTakeIn(c) ==
    /\ TakeIn(c)
    /\ LET a == Head(left).address
       IN  /\ learned' = Forgotten([learned EXCEPT ![a] = now])
           /\ promised' = Forgotten([promised EXCEPT
                            ![a] = AtLeast(@, now + Lifetime(Head(left).ttl))])
    /\ used' = Forgotten(used)

HistTouch(a) ==
    /\ Touch(a)
    /\ used' = [used EXCEPT ![a] = now]
    /\ UNCHANGED <<learned, promised>>

HistExpire ==
    /\ Expire
    /\ used' = Forgotten(used)
    /\ learned' = Forgotten(learned)
    /\ promised' = Forgotten(promised)

HistNext ==
    \/ \E c \in Callers, answer \in Answers : BeginRecord(c, answer) /\ UNCHANGED histVars
    \/ \E c \in Callers : HistTakeIn(c)
    \/ \E c \in Callers : EndRecord(c) /\ UNCHANGED histVars
    \/ \E a \in Addresses : HistTouch(a)
    \/ HistExpire
    \/ Tick /\ UNCHANGED histVars

HistSpec == HistInit /\ [][HistNext]_hVars

-----------------------------------------------------------------------------
\* How long what happened to an address asks for it: as long as any of its answers
\* said, and for MIN_LEASE after the last packet to it.
AskedFor(a) == AtLeast(promised[a], used[a] + MinLease)

\* lease.rs:10-11, 137-143 and 181-191: an address leaves the table before its
\* answers and its packets allow only to make room in a full table for a fresh
\* one.  Then it leaves alone, and none of those that stay was asked for less
\* long, whichever answers and packets came for either, in whatever order.
LeavesInTurn ==
    [][\A a \in DOMAIN held \ DOMAIN held' :
            \/ AskedFor(a) <= now
            \/ /\ Cardinality(DOMAIN held) >= MaxLeases
               /\ DOMAIN held \ DOMAIN held' = {a}
               /\ DOMAIN held' \ DOMAIN held # {}
               /\ \A b \in DOMAIN held : AskedFor(a) <= AskedFor(b)]_hVars

\* lease.rs:26-30 and main.rs's sweep: an address leaves the table, and so the
\* routing, at most one sweep after MAX_LEASE from the last answer or MIN_LEASE
\* from the last packet, whichever is later.
LetGoInTime ==
    \A a \in DOMAIN held :
        now <= SweepEvery + AtLeast(learned[a] + MaxLease, used[a] + MinLease)

\* lease.rs:37-41: a stream of answers naming fresh addresses cannot grow the
\* table, and the routing table behind it, beyond MAX_LEASES.
WithinLimit == Cardinality(DOMAIN held) <= MaxLeases

=============================================================================
