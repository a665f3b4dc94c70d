------------------------------- MODULE Routing ------------------------------
(***************************************************************************)
(* What is routed into the tunnel (src/core.rs, src/tun/mod.rs Routes).    *)
(*                                                                         *)
(* Four kinds of task change what ought to be routed: a caller of the      *)
(* control pipe (the set asked for, whether v6 is wanted, the policy), a   *)
(* task answering a DNS query (leases), the sweep (leases falling due) and *)
(* the engine (whether the tunnel carries v6).  Each writes its half first *)
(* and then runs install_union, which takes the routing lock, reads the    *)
(* four inputs one after the other and moves the rows that differ, any of  *)
(* which the operating system may refuse.                                  *)
(*                                                                         *)
(* A step of this module is what one task does between two points where    *)
(* another can be seen: one read or write of shared state, or one row.     *)
(* An address stands for its host route.                                   *)
(***************************************************************************)
EXTENDS Leases

CONSTANTS
    Prefixes,   \* every prefix that can be routed; the addresses are among them
    V6,         \* those of the v6 family
    Pipes,      \* the callers of the control pipe
    Sweeper,    \* the task that expires leases
    Engine,     \* the task that runs the tunnel
    Resolvers,  \* addresses a policy can declare with `via: tunnel`
    Leftovers   \* rows an earlier process may have left on the adapter

Proc == Pipes \cup Callers \cup {Sweeper, Engine}

Request == [set : SUBSET Prefixes, ipv6 : BOOLEAN]

Support == {"Unknown", "Carries", "DoesNot"}

ASSUME RoutingAssumption ==
    /\ Addresses \subseteq Prefixes
    /\ Resolvers \subseteq Prefixes
    /\ Nobody \notin Proc
    /\ Pipes \cap Callers = {}
    /\ Sweeper \notin Pipes \cup Callers
    /\ Engine \notin Pipes \cup Callers \cup {Sweeper}

VARIABLES
    wants,      \* Core.wants_v6
    support,    \* Core.v6, what the last measurement said
    asked,      \* Core.asked
    tunnelled,  \* the `via: tunnel` resolvers of the policy in force
    installed,  \* Routes.installed, what this core believes is in the table
    table,      \* the rows really on the adapter
    holder,     \* who holds the lock on Core.routes
    carriesV6,  \* install_union's locals: the family decision ...
    wanted,     \*   ... the union it is installing ...
    refused,    \*   ... and the rows Windows refused it (kept after it ends)
    request,    \* pipe -> the `routes` request it last sent, or NoRequest
    pc          \* process -> where it is

routeVars == <<wants, support, asked, tunnelled, installed, table, holder,
               carriesV6, wanted, refused, request, pc>>

vars == <<leaseVars, routeVars>>

NoRequest == [set |-> {}, ipv6 |-> FALSE]

Goto(p, there) == pc' = [pc EXCEPT ![p] = there]

RouteInit ==
    /\ LeaseInit
    /\ wants = FALSE
    /\ support = "Unknown"
    /\ asked = {}
    /\ tunnelled = {}
    /\ installed = {}
    /\ table \in SUBSET Leftovers
    /\ holder = Nobody
    /\ carriesV6 = FALSE
    /\ wanted = {}
    /\ refused = {}
    /\ request = [p \in Pipes |-> NoRequest]
    /\ pc = [p \in Proc |-> "idle"]

-----------------------------------------------------------------------------
(* The four writers.  Each ends where install_union begins.                *)

\* control.rs, `routes`: the family flag is stored first ...
AskFamily(p, req) ==
    /\ pc[p] = "idle"
    /\ request' = [request EXCEPT ![p] = req]
    /\ wants' = req.ipv6
    /\ Goto(p, "set")
    /\ UNCHANGED <<leaseVars, support, asked, tunnelled, installed, table,
                   holder, carriesV6, wanted, refused>>

\* ... and set_routes then stores the set.
AskSet(p) ==
    /\ pc[p] = "set"
    /\ asked' = request[p].set
    /\ Goto(p, "install")
    /\ UNCHANGED <<leaseVars, wants, support, tunnelled, installed, table,
                   holder, carriesV6, wanted, refused, request>>

\* control.rs, `dns`: a policy is in force before its routes are refreshed.
InstallPolicy(p, via) ==
    /\ pc[p] = "idle"
    /\ tunnelled' = via
    /\ Goto(p, "install")
    /\ UNCHANGED <<leaseVars, wants, support, asked, installed, table,
                   holder, carriesV6, wanted, refused, request>>

\* The engine measured v6 over a tunnel that has just come up.  It does so
\* unless it is known not to be carried, and an answer already known ends there.
Measure(result) ==
    /\ pc[Engine] = "idle"
    /\ support # "DoesNot"
    /\ support # result
    /\ support' = result
    /\ Goto(Engine, "install")
    /\ UNCHANGED <<leaseVars, wants, asked, tunnelled, installed, table,
                   holder, carriesV6, wanted, refused, request>>

\* The resolver takes in an answer, and changes routing only if an address is new.
Learn(c, answer) ==
    /\ pc[c] = "idle"
    /\ BeginRecord(c, answer)
    /\ Goto(c, "record")
    /\ UNCHANGED <<wants, support, asked, tunnelled, installed, table, holder,
                   carriesV6, wanted, refused, request>>

LearnOne(c) ==
    /\ TakeIn(c)
    /\ UNCHANGED routeVars

Learned(c) ==
    /\ EndRecord(c)
    /\ Goto(c, IF changed THEN "install" ELSE "idle")
    /\ UNCHANGED <<wants, support, asked, tunnelled, installed, table, holder,
                   carriesV6, wanted, refused, request>>

\* The sweep that forgets to have the routes follow.
SweepQuietly ==
    /\ pc[Sweeper] = "idle"
    /\ Expire
    /\ UNCHANGED routeVars

\* One turn of the sweep, which changes routing only if a lease went.
Sweep ==
    /\ pc[Sweeper] = "idle"
    /\ Expire
    /\ Goto(Sweeper, IF DOMAIN held' # DOMAIN held THEN "install" ELSE "idle")
    /\ UNCHANGED <<wants, support, asked, tunnelled, installed, table, holder,
                   carriesV6, wanted, refused, request>>

\* The engine's pump renews the lease of a packet's destination.
Carry(a) ==
    /\ pc[Engine] = "idle"
    /\ Touch(a)
    /\ UNCHANGED routeVars

Pass ==
    /\ Tick
    /\ UNCHANGED routeVars

-----------------------------------------------------------------------------
(* install_union, under the routing lock.                                  *)

TakeLock(p) ==
    /\ pc[p] = "install"
    /\ holder = Nobody
    /\ holder' = p
    /\ Goto(p, "wants")
    /\ UNCHANGED <<leaseVars, wants, support, asked, tunnelled, installed,
                   table, carriesV6, wanted, refused, request>>

\* routes_ipv6 reads its two halves one after the other, the second only if
\* the first was true.
ReadWants(p) ==
    /\ pc[p] = "wants"
    /\ carriesV6' = FALSE
    /\ Goto(p, IF wants THEN "support" ELSE "asked")
    /\ UNCHANGED <<leaseVars, wants, support, asked, tunnelled, installed,
                   table, holder, wanted, refused, request>>

ReadSupport(p) ==
    /\ pc[p] = "support"
    /\ carriesV6' = (support = "Carries")
    /\ Goto(p, "asked")
    /\ UNCHANGED <<leaseVars, wants, support, asked, tunnelled, installed,
                   table, holder, wanted, refused, request>>

ReadAsked(p) ==
    /\ pc[p] = "asked"
    /\ wanted' = asked
    /\ Goto(p, "leases")
    /\ UNCHANGED <<leaseVars, wants, support, asked, tunnelled, installed,
                   table, holder, carriesV6, refused, request>>

\* A set from the application installed as the whole set.
ReadLeasesNot(p) ==
    /\ pc[p] = "leases"
    /\ wanted' = {r \in wanted : carriesV6 \/ r \notin V6}
    /\ refused' = {}
    /\ Goto(p, "apply")
    /\ UNCHANGED <<leaseVars, wants, support, asked, tunnelled, installed,
                   table, holder, carriesV6, request>>

\* The leased addresses join, and v6 goes unless it was found to be carried.
ReadLeases(p) ==
    /\ pc[p] = "leases"
    /\ writer = Nobody
    /\ wanted' = {r \in wanted \cup DOMAIN held : carriesV6 \/ r \notin V6}
    /\ refused' = {}
    /\ Goto(p, "apply")
    /\ UNCHANGED <<leaseVars, wants, support, asked, tunnelled, installed,
                   table, holder, carriesV6, request>>

\* The rows Routes::apply has still to try, removals before additions.
Going  == (installed \ wanted) \ refused
Coming == IF Going = {} THEN (wanted \ installed) \ refused ELSE {}

\* The early return apply's comment warns of: the row is gone, the set claims it.
RemoveRowUnrecorded(p, r) ==
    /\ pc[p] = "apply"
    /\ r \in Going
    /\ refused' = refused \cup {r}
    /\ table' = table \ {r}
    /\ UNCHANGED <<leaseVars, wants, support, asked, tunnelled, installed, holder,
                   carriesV6, wanted, request, pc>>

\* A row already gone counts as removed, and one already there as added.
RemoveRow(p, r) ==
    /\ pc[p] = "apply"
    /\ r \in Going
    /\ installed' = installed \ {r}
    /\ table' = table \ {r}
    /\ UNCHANGED <<leaseVars, wants, support, asked, tunnelled, holder,
                   carriesV6, wanted, refused, request, pc>>

AddRow(p, r) ==
    /\ pc[p] = "apply"
    /\ r \in Coming
    /\ installed' = installed \cup {r}
    /\ table' = table \cup {r}
    /\ UNCHANGED <<leaseVars, wants, support, asked, tunnelled, holder,
                   carriesV6, wanted, refused, request, pc>>

\* Windows says no to one row: it stays where it was and the rest is tried.
RefuseRow(p, r) ==
    /\ pc[p] = "apply"
    /\ r \in Going \cup Coming
    /\ refused' = refused \cup {r}
    /\ UNCHANGED <<leaseVars, wants, support, asked, tunnelled, installed,
                   table, holder, carriesV6, wanted, request, pc>>

\* A pass given up at the first refusal.
ReleaseAtRefusal(p) ==
    /\ pc[p] = "apply"
    /\ Going \cup Coming = {} \/ refused # {}
    /\ holder' = Nobody
    /\ Goto(p, "idle")
    /\ UNCHANGED <<leaseVars, wants, support, asked, tunnelled, installed,
                   table, carriesV6, wanted, refused, request>>

\* A pass that ends with the lock still held.
ReleaseNot(p) ==
    /\ pc[p] = "apply"
    /\ Going \cup Coming = {}
    /\ Goto(p, "idle")
    /\ UNCHANGED <<leaseVars, wants, support, asked, tunnelled, installed,
                   table, holder, carriesV6, wanted, refused, request>>

Release(p) ==
    /\ pc[p] = "apply"
    /\ Going \cup Coming = {}
    /\ holder' = Nobody
    /\ Goto(p, "idle")
    /\ UNCHANGED <<leaseVars, wants, support, asked, tunnelled, installed,
                   table, carriesV6, wanted, refused, request>>

\* One step of a pass over the routing table.
Install(p) ==
    \/ TakeLock(p)
    \/ ReadWants(p)
    \/ ReadSupport(p)
    \/ ReadAsked(p)
    \/ ReadLeases(p)
    \/ \E r \in Prefixes : RemoveRow(p, r) \/ AddRow(p, r) \/ RefuseRow(p, r)
    \/ Release(p)

\* Something that ought to be routed may be about to change.
Edit ==
    \/ \E p \in Pipes, req \in Request : AskFamily(p, req)
    \/ \E p \in Pipes, via \in SUBSET Resolvers : InstallPolicy(p, via)
    \/ \E result \in {"Carries", "DoesNot"} : Measure(result)
    \/ \E c \in Callers, answer \in Answers : Learn(c, answer)
    \/ Sweep

Continue(p) ==
    \/ p \in Pipes /\ AskSet(p)
    \/ p \in Callers /\ (LearnOne(p) \/ Learned(p))
    \/ Install(p)

Next ==
    \/ Edit
    \/ \E p \in Proc : Continue(p)
    \/ \E a \in Addresses : Carry(a)
    \/ Pass

Spec == RouteInit /\ [][Next]_vars

\* Every task that has begun keeps running: tokio schedules it, the locks it
\* needs are held for a bounded time, and with no further edit nobody else
\* contends for them for ever.
FairSpec == Spec /\ \A p \in Proc : WF_vars(Continue(p))

-----------------------------------------------------------------------------
(* What ought to be routed, and the properties.                            *)

Routable(r) == r \notin V6 \/ (wants /\ support = "Carries")

Union == {r \in asked \cup DOMAIN held : Routable(r)}

Astray == (Union \ installed) \cup (installed \ Union)

Busy == \E p \in Proc : pc[p] # "idle"

\* Every variable holds what the code could hold there, the lease table included.
RouteTypeOK ==
    /\ LeaseTypeOK
    /\ wants \in BOOLEAN
    /\ support \in Support
    /\ asked \in SUBSET Prefixes
    /\ tunnelled \in SUBSET Prefixes
    /\ installed \in SUBSET Prefixes
    /\ table \subseteq Prefixes \cup Leftovers
    /\ holder \in Proc \cup {Nobody}
    /\ carriesV6 \in BOOLEAN
    /\ wanted \in SUBSET Prefixes
    /\ refused \in SUBSET Prefixes
    /\ request \in [Pipes -> Request]
    /\ pc \in [Proc -> {"idle", "set", "record", "install", "wants", "support",
                        "asked", "leases", "apply"}]

\* core.rs:423-424, "the set would still describe what is really installed", and
\* Routes::apply's reason for having no early return: what the core believes
\* installed is on the adapter, and nothing else is but rows it never put there.
BookkeepingIsExact ==
    /\ installed \subseteq table
    /\ table \ installed \subseteq Leftovers

\* core.rs:205-211 and :289-291: two tasks changing different halves at the same
\* moment leave the table agreeing with both.  Whatever the interleaving, when
\* every task has finished, the rows installed are the union of what is asked for
\* and what is leased, less v6 unless wanted and carried, except for rows that
\* Windows refused in the latest pass.
AgreesAtRest == ~Busy => Astray \subseteq refused

\* Once edits stop coming, the table comes to agree and stays so: no task is
\* stuck behind a lock, no change is left unapplied (core.rs:433-436).
AgreesWhenEditsStop ==
    []<><<Edit>>_vars \/ <>[](~Busy /\ Astray \subseteq refused)

Promise == INSTANCE RouteSet WITH
    Rows <- Prefixes, due <- Union, rows <- installed, refusals <- refused,
    atRest <- ~Busy

\* The routing implements RouteSet.
KeepsPromise == Promise!SetSpec

\* server.rs:214-215, "the resolvers reached through the tunnel have to be routed
\* there before the first query needs one", and control-pipe.md on `via`: at
\* rest, the v4 address of a resolver declared `via: tunnel` is routed into it.
TunnelledResolversRouted ==
    ~Busy => \A r \in tunnelled \ V6 : r \in installed \cup refused

=============================================================================
