------------------------------ MODULE Resolver ------------------------------
(***************************************************************************)
(* Answering the machine's DNS (src/dns/server.rs, src/dns/upstream.rs,    *)
(* Core::line_source).                                                     *)
(*                                                                         *)
(* A datagram is answered by a task of its own and a TCP connection by its *)
(* one task, question after question.  Each takes one of MAX_IN_FLIGHT     *)
(* permits, finds out who asks, takes the read guard of the policy, holds  *)
(* it while the upstream is asked, and turns the answer into leases and    *)
(* routes.  `dns` on the control pipe replaces the policy under the write  *)
(* guard of the same lock, which is tokio's: first come, first served.     *)
(*                                                                         *)
(* A step is what a task does between two points where another can be      *)
(* seen.  A lease stands for its host route; Leases and Routing have them  *)
(* in detail, and Names has the watch for the machine's own proof.         *)
(***************************************************************************)
EXTENDS Askers

CONSTANTS
    Udp, Tcp,      \* datagrams being answered, connections
    Installer,     \* the caller of the control pipe
    PortOf,        \* task -> the port its question comes from
    Asks,          \* task -> what it can be asked: questions, [name, addresses] ...
    Garbage,       \*   ... and a message that is none, long enough for a header
    Inputs,        \* policies an application sends
    Refreshing,    \* the policy is in force, its routes are not yet
    Listen,        \* the address this core answers on
    Addresses,     \* what answers carry
    LineAddresses, \* addresses the line can have
    MaxInFlight,   \* MAX_IN_FLIGHT
    MaxEvents      \* bound: how many more of `events`, and of `changes`, there are

Tasks == Udp \cup Tcp

Protocol(t) == IF t \in Udp THEN "udp" ELSE "tcp"

NoSource == "unbound"    \* asked as the routing table sends it

ASSUME ResolverAssumption ==
    /\ Udp \cap Tcp = {}
    /\ Installer \notin Tasks
    /\ PortOf \in [Tasks -> Ports]
    /\ DOMAIN Asks = Tasks
    /\ MaxInFlight \in Nat \ {0}
    /\ Inputs \subseteq Policies
    /\ {Nothing, Refreshing} \cap Inputs = {} /\ Nothing # Refreshing

VARIABLES
    installed,   \* Resolver.installed: the policy and its upstreams, or Nothing
    readers,     \* the tasks holding the read guard
    queue,       \* who waits for the lock
    pending,     \* what Installer is installing, Refreshing, or Nothing
    leased,      \* the addresses leased
    routed,      \* the addresses routed
    inFlight,    \* the holders of a permit
    lineAddress, \* the address the line really has
    unheard,     \* how many of its changes are not reported yet
    line,        \* Core.line, the changes reported
    sources,     \* Core.line_sources: destination -> [line, from]
    events,      \* policies, leases expired and changes of the line still to come
    changes,     \* ticks and changes of the machine still to come
    task         \* task -> where it is, and its locals

lockVars  == <<readers, queue>>
policyVars == <<installed, pending>>
routeVars == <<leased, routed>>
lineVars  == <<lineAddress, line, sources, unheard>>
budget    == <<events, changes>>

vars == <<askerVars, lockVars, policyVars, routeVars, lineVars, task, inFlight, budget>>

\* A task between two questions: what is asked, by which process and program, the
\* rule that decided, Core.line as line_source read it, the address to ask from,
\* and the addresses to lease.
Blank(at) ==
    [at |-> at, question |-> Garbage, process |-> Nothing, asker |-> Unknown,
     rule |-> Undecided, saw |-> 0, from |-> NoSource, found |-> {}]

Working == {"read", "image", "lock", "decide", "source", "lookup", "remember",
            "ask", "fallback", "record", "routes"}

\* Where the guard is held.
Guarded == {"decide", "source", "lookup", "remember", "ask", "fallback"}

At(place) == {t \in Tasks : task[t].at = place}

ResolverInit ==
    /\ AskersInit
    /\ installed = Nothing /\ pending = Nothing
    /\ readers = {} /\ queue = <<>> /\ inFlight = {}
    /\ leased = {} /\ routed = {}
    /\ lineAddress \in LineAddresses
    /\ line = 0 /\ unheard = 0 /\ sources = <<>>
    /\ events \in 0 .. MaxEvents /\ changes \in 0 .. MaxEvents
    /\ task = [t \in Tasks |-> Blank(IF t \in Udp THEN "idle" ELSE "closed")]

Counts == events > 0 /\ events' = events - 1 /\ UNCHANGED changes

Become(t, local) == task' = [task EXCEPT ![t] = local]

Goto(t, there) == task' = [task EXCEPT ![t].at = there]

\* A reply is ready, failure_reply or the upstream's own bytes, and nothing else
\* is needed any more.  A connection gives its permit back before it writes.
Replying(t) ==
    /\ Become(t, Blank("reply"))
    /\ inFlight' = IF t \in Tcp THEN inFlight \ {t} ELSE inFlight

-----------------------------------------------------------------------------
(* serve_udp, serve_tcp and converse                                       *)

Accept(c) ==
    /\ c \in At("closed")
    /\ Goto(c, "idle")
    /\ UNCHANGED <<askerVars, lockVars, policyVars, routeVars, lineVars, inFlight, budget>>

\* TCP_IDLE has passed, the client hung up, or its length is no message's.
Hangup(c) ==
    /\ c \in At("idle") \cap Tcp
    /\ Goto(c, "closed")
    /\ UNCHANGED <<askerVars, lockVars, policyVars, routeVars, lineVars, inFlight, budget>>

\* The permit is taken before the work is started; there is no waiting for one.
Arrive(t, question) ==
    /\ t \in At("idle")
    /\ Cardinality(inFlight) < MaxInFlight
    /\ inFlight' = inFlight \cup {t}
    /\ Become(t, [Blank("read") EXCEPT !.question = question])
    /\ UNCHANGED <<askerVars, lockVars, policyVars, routeVars, lineVars, budget>>

\* No permit: a connection is closed, and of a datagram nothing remains.
TurnAway(c) ==
    /\ c \in At("idle") \cap Tcp
    /\ Cardinality(inFlight) = MaxInFlight
    /\ Goto(c, "closed")
    /\ UNCHANGED <<askerVars, lockVars, policyVars, routeVars, lineVars, inFlight, budget>>

Reply(t) ==
    /\ t \in At("reply")
    /\ inFlight' = inFlight \ {t}
    /\ Goto(t, "idle")
    /\ UNCHANGED <<askerVars, lockVars, policyVars, routeVars, lineVars, budget>>

-----------------------------------------------------------------------------
(* The lock: the guard is had at once when nobody waits for it.            *)

JoinAheadOfWriters(t, local) ==
    /\ readers' = readers \cup {t}
    /\ Become(t, [local EXCEPT !.at = "decide"])
    /\ UNCHANGED queue

TakeGuard(t, local) ==
    IF queue = <<>>
    THEN /\ readers' = readers \cup {t}
         /\ Become(t, [local EXCEPT !.at = "decide"])
         /\ UNCHANGED queue
    ELSE /\ queue' = Append(queue, t)
         /\ Become(t, [local EXCEPT !.at = "lock"])
         /\ UNCHANGED readers

Admit(t) ==
    /\ queue # <<>> /\ Head(queue) = t /\ t \in Tasks
    /\ readers' = readers \cup {t}
    /\ queue' = Tail(queue)
    /\ Goto(t, "decide")
    /\ UNCHANGED <<askerVars, policyVars, routeVars, lineVars, inFlight, budget>>

DropGuard(t) == readers' = readers \ {t} /\ UNCHANGED queue

-----------------------------------------------------------------------------
(* answer, before the policy: the question and who asks it.                *)

Unreadable(t) ==
    /\ t \in At("read") /\ task[t].question = Garbage
    /\ Replying(t)
    /\ UNCHANGED <<askerVars, lockVars, policyVars, routeVars, lineVars, budget>>

\* of_port, up to the images already known.
Identify(t) ==
    /\ t \in At("read") /\ task[t].question # Garbage
    /\ \E pid \in Pids \cup {Nothing} :
        /\ OwnerOf(Protocol(t), PortOf[t], pid)
        /\ LET local == [task[t] EXCEPT !.process = pid] IN
           IF pid = Nothing
           THEN TakeGuard(t, local)
           ELSE IF pid \in DOMAIN images
           THEN TakeGuard(t, [local EXCEPT !.asker = images[pid]])
           ELSE Become(t, [local EXCEPT !.at = "image"]) /\ UNCHANGED lockVars
    /\ UNCHANGED <<policyVars, routeVars, lineVars, inFlight, budget>>

\* The rest of of_port.
Name(t) ==
    /\ t \in At("image")
    /\ \E program \in Programs \cup {Unknown} :
        /\ ImageOf(task[t].process, program)
        /\ TakeGuard(t, [task[t] EXCEPT !.asker = program])
    /\ UNCHANGED <<policyVars, routeVars, lineVars, inFlight, budget>>

-----------------------------------------------------------------------------
(* answer, with the guard: the decision and the upstream.                  *)

Chosen(t) == Decide(installed, task[t].question.name, task[t].asker)

RuleOf(t) == installed.rules[task[t].rule]

Upstream(t) == installed.resolvers[RuleOf(t).resolver]

\* No policy yet, or none that decides.
Refuse(t) ==
    /\ t \in At("decide")
    /\ installed # Nothing => Chosen(t) = Undecided
    /\ DropGuard(t)
    /\ Replying(t)
    /\ UNCHANGED <<askerVars, policyVars, routeVars, lineVars, budget>>

\* Only the journal names who asked after this.
Choose(t) ==
    /\ t \in At("decide") /\ installed # Nothing
    /\ Chosen(t) # Undecided
    /\ LET upstream == installed.resolvers[installed.rules[Chosen(t)].resolver]
       IN  Become(t, [Blank(IF upstream.via = "direct" THEN "source" ELSE "ask")
                        EXCEPT !.question = task[t].question, !.rule = Chosen(t)])
    /\ UNCHANGED <<askerVars, lockVars, policyVars, routeVars, lineVars, inFlight, budget>>

\* line_source: the line is read, then what is known of this destination.  How
\* old that is is not kept: it may count as too old at any look.
Source(t) ==
    /\ t \in At("source")
    /\ LET to == Upstream(t).address IN
        \/ /\ to \in DOMAIN sources /\ sources[to].line = line
           /\ Become(t, [task[t] EXCEPT !.from = sources[to].from, !.at = "ask"])
        \/ Become(t, [task[t] EXCEPT !.saw = line, !.at = "lookup"])
    /\ UNCHANGED <<askerVars, lockVars, policyVars, routeVars, lineVars, inFlight, budget>>

\* outside::source_for walks the routing table, with no lock held.
LookUp(t) ==
    /\ t \in At("lookup")
    /\ Become(t, [task[t] EXCEPT !.from = lineAddress, !.at = "remember"])
    /\ UNCHANGED <<askerVars, lockVars, policyVars, routeVars, lineVars, inFlight, budget>>

\* The entry that is written under the line there is by then.
UnderLate(t) == line

\* The line an entry is written under is the one read before it was looked up.
Under(t) == task[t].saw

Remember(t) ==
    /\ t \in At("remember")
    /\ LET to == Upstream(t).address
       IN  sources' = [d \in DOMAIN sources \cup {to} |->
                IF d = to THEN [line |-> Under(t), from |-> task[t].from] ELSE sources[d]]
    /\ Become(t, [task[t] EXCEPT !.saw = 0, !.at = "ask"])
    /\ UNCHANGED <<askerVars, lockVars, policyVars, routeVars, lineAddress, line, unheard,
                   inFlight, budget>>

\* The upstream answered.  Of what the answer carries, the addresses to lease are
\* kept: those asked for as addresses, when the rule that decided says `route`.
Answered(t, answer) ==
    /\ t \in At("ask") \cup At("fallback")
    /\ Become(t, [Blank("record") EXCEPT !.found =
            IF RuleOf(t).route /\ task[t].question.addresses THEN answer ELSE {}])
    /\ DropGuard(t)
    /\ UNCHANGED <<askerVars, policyVars, routeVars, lineVars, inFlight, budget>>

\* A plain resolver's answer did not fit: the same question over TCP.
Truncated(t) ==
    /\ t \in At("ask") /\ Upstream(t).kind = "plain"
    /\ Goto(t, "fallback")
    /\ UNCHANGED <<askerVars, lockVars, policyVars, routeVars, lineVars, inFlight, budget>>

\* The exchange over TCP without a timeout of its own.
GivenUpOverUdp == At("ask")

\* Who may be told that there is no answer: QUERY_TIMEOUT on each exchange, another
\* question's id, too short a message, an http status, a socket that failed, or a
\* DoH client that could not be built for the address it is to dial from.
GivenUp == At("ask") \cup At("fallback")

Unanswered(t) ==
    /\ t \in GivenUp
    /\ DropGuard(t)
    /\ Replying(t)
    /\ UNCHANGED <<askerVars, policyVars, routeVars, lineVars, budget>>

-----------------------------------------------------------------------------
(* answer, once the guard is dropped: the addresses.                       *)

\* The record that does not tell a new address from one renewed.
IsNeverNews(addresses) == FALSE

\* Leases.record says whether any of them was new.
IsNews(addresses) == ~ (addresses \subseteq leased)

Record(t) ==
    /\ t \in At("record")
    /\ leased' = leased \cup task[t].found
    /\ IF IsNews(task[t].found)
       THEN Goto(t, "routes") /\ UNCHANGED inFlight
       ELSE Replying(t)
    /\ UNCHANGED <<askerVars, lockVars, policyVars, routed, lineVars, budget>>

RoutesChanged(t) ==
    /\ t \in At("routes")
    /\ routed' = leased
    /\ Replying(t)
    /\ UNCHANGED <<askerVars, lockVars, policyVars, leased, lineVars, budget>>

\* The sweep, whose routes follow under the same lock.
Expire(a) ==
    /\ a \in leased
    /\ Counts
    /\ leased' = leased \ {a}
    /\ routed' = leased'
    /\ UNCHANGED <<askerVars, lockVars, policyVars, lineVars, task, inFlight>>

-----------------------------------------------------------------------------
(* install                                                                 *)

\* A plain resolver at the address this core answers on is this core.
Circular(input) ==
    \E r \in Range(input.resolvers) : r.kind = "plain" /\ r.address = Listen

\* Upstreams::build, which fails as a whole.
Prepares(input) ==
    \A r \in Range(input.resolvers) : r.kind = "doh" => r.url # "bad"

Acceptable ==
    {input \in Inputs : /\ Builds(input)
                        /\ DecidesEverything(Build(input))
                        /\ ~ Circular(input)
                        /\ Prepares(input)}

\* Everything that can be refused is refused before the lock is asked for.
Install(input) ==
    /\ pending = Nothing
    /\ input \in Acceptable
    /\ Counts
    /\ pending' = input
    /\ queue' = Append(queue, Installer)
    /\ UNCHANGED <<askerVars, installed, readers, routeVars, lineVars, task, inFlight>>

\* The write guard is had and given back: the policy and its clients are swapped.
Swap ==
    /\ queue # <<>> /\ Head(queue) = Installer /\ readers = {}
    /\ queue' = Tail(queue)
    /\ installed' = Build(pending)
    /\ pending' = Refreshing
    /\ UNCHANGED <<askerVars, readers, routeVars, lineVars, task, inFlight, budget>>

Refresh ==
    /\ pending = Refreshing
    /\ pending' = Nothing
    /\ routed' = leased
    /\ UNCHANGED <<askerVars, lockVars, installed, leased, lineVars, task, inFlight, budget>>

-----------------------------------------------------------------------------
(* The line and the machine.                                               *)

LineMoves(a) ==
    /\ a # lineAddress
    /\ Counts
    /\ lineAddress' = a
    /\ unheard' = unheard + 1
    /\ UNCHANGED <<askerVars, lockVars, policyVars, routeVars, line, sources, task, inFlight>>

\* Windows says so, sooner or later.
LineReported ==
    /\ unheard > 0
    /\ unheard' = unheard - 1
    /\ line' = line + 1
    /\ UNCHANGED <<askerVars, lockVars, policyVars, routeVars, lineAddress, sources, task,
                   inFlight, budget>>

MachineChanges ==
    /\ changes > 0 /\ changes' = changes - 1 /\ UNCHANGED events
    /\ \/ \E p \in Protocols, port \in Ports, pid \in Pids \cup {Nothing} : Rebind(p, port, pid)
       \/ \E pid \in Pids, program \in Programs : Reuse(pid, program)
    /\ UNCHANGED <<lockVars, policyVars, routeVars, lineVars, task, inFlight>>

Tick ==
    /\ changes > 0 /\ changes' = changes - 1 /\ UNCHANGED events
    /\ AskersTick
    /\ UNCHANGED <<lockVars, policyVars, routeVars, lineVars, task, inFlight>>

-----------------------------------------------------------------------------
Continue(t) ==
    \/ Unreadable(t) \/ Identify(t) \/ Name(t) \/ Admit(t)
    \/ Refuse(t) \/ Choose(t) \/ Source(t) \/ LookUp(t) \/ Remember(t)
    \/ Unanswered(t) \/ Record(t) \/ RoutesChanged(t) \/ Reply(t)

Next ==
    \/ \E t \in Tasks :
        \/ Continue(t)
        \/ \E question \in Asks[t] : Arrive(t, question)
        \/ Truncated(t)
        \/ \E answer \in SUBSET Addresses : Answered(t, answer)
    \/ \E c \in Tcp : Accept(c) \/ Hangup(c) \/ TurnAway(c)
    \/ \E a \in Addresses : Expire(a)
    \/ \E input \in Inputs : Install(input)
    \/ Swap \/ Refresh
    \/ \E a \in LineAddresses : LineMoves(a)
    \/ LineReported
    \/ MachineChanges
    \/ Tick

\* A task that can go on does, and an upstream that says nothing is given up on:
\* each exchange has a QUERY_TIMEOUT of its own.
Fairness == (\A t \in Tasks : WF_vars(Continue(t))) /\ WF_vars(Swap \/ Refresh)

Spec == ResolverInit /\ [][Next]_vars /\ Fairness

-----------------------------------------------------------------------------
\* One permit to each question being answered, one read guard to each that is
\* at the policy or its upstream, one place in the line for it to each that waits.
ResolverTypeOK ==
    /\ AskersTypeOK
    /\ inFlight = {t \in Tasks : \/ task[t].at \in Working
                                 \/ task[t].at = "reply" /\ t \in Udp}
    /\ Cardinality(inFlight) <= MaxInFlight
    /\ readers = {t \in Tasks : task[t].at \in Guarded}
    /\ Range(queue) = At("lock") \cup (IF pending \in Inputs THEN {Installer} ELSE {})
    /\ IsInjective(queue)

\* A policy sent is in force before long, although questions never stop coming
\* and each holds the guard for as long as its upstream thinks.
PolicyGetsIn == pending \in Inputs ~> pending = Nothing

\* server.rs:275-278, "Every way out of this block is a reply": a question that got
\* a permit has its reply written, whatever the upstream does and however many
\* policies are installed meanwhile.
QuestionsEnd == \A t \in Tasks : t \in At("read") ~> t \in At("reply")

\* An address that is leased and stays so is routed, although of two questions
\* with one answer only the first is told that the address is new.
LeasedIsRouted == \A a \in Addresses : a \in leased ~> (a \in routed \/ a \notin leased)

\* server.rs:316-317, "a policy being replaced must not wait on an upstream that
\* is still thinking".
InstallDoesNotWait == pending \in Inputs => At("ask") \cup At("fallback") = {}
=============================================================================
