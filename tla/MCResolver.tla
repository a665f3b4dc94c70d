----------------------------- MODULE MCResolver -----------------------------
(***************************************************************************)
(* The resolver with two policies an application sends and others that are *)
(* refused, and with a record of who held which port and where the line    *)
(* has been.                                                               *)
(***************************************************************************)
EXTENDS Resolver, TLC

CONSTANTS query1, query2, connection1, pid1, pid2, line1

Browser == [path |-> "c:\\browser.exe", name |-> "browser.exe"]
Chat    == [path |-> "c:\\chat.exe", name |-> "chat.exe"]

\* Written with a capital, or as a path with the other slashes.
MCLowered(written) ==
    CASE written = "Bank"        -> "bank"
      [] written = "C:/Chat.exe" -> "c:\\chat.exe"
      [] OTHER                   -> written

MCPrograms == {Browser, Chat}
MCPortOf   == [t \in Tasks |-> 50000]

\* The second datagram only ever takes up a permit.
MCAsks == [t \in Tasks |-> IF t = query2 THEN {Garbage}
                            ELSE {[name |-> <<"www", "bank", "ru">>, addresses |-> TRUE]}]

OverHttps == Resolver("https", "doh", "9.9.9.9", "https://dns9", "direct")
InTheOpen == Resolver("open", "plain", "8.8.8.8", NoUrl, "tunnel")
Itself    == Resolver("itself", "plain", "127.0.0.1", NoUrl, "direct")

Catch(id, route) == Rule(MatchAny, id, {}, route)

\* A narrow rule before a wider one, and a suffix before what is more specific.
Scoped == [resolvers |-> <<OverHttps, InTheOpen>>,
           rules |-> <<Rule(MatchSuffix(<<"ru">>), "open", {"C:/Chat.exe"}, TRUE),
                       Rule(MatchSuffix(<<"Bank", "ru">>), "https", {}, TRUE),
                       Rule(MatchExact(<<"Bank", "ru", "">>), "open", {}, FALSE),
                       Catch("open", TRUE)>>]
Simple == [resolvers |-> <<OverHttps>>,
           rules |-> <<Catch("https", TRUE)>>]

\* Refused: no rule for everybody, a name nobody declared, itself, an empty name,
\* an id declared twice, a url that is none.
Refused == {[Simple EXCEPT !.rules = <<Rule(MatchAny, "https", {"chat.exe"}, TRUE)>>],
            [Simple EXCEPT !.rules = <<Catch("open", TRUE)>>],
            [Simple EXCEPT !.resolvers = <<OverHttps, Itself>>],
            [Simple EXCEPT !.rules = <<Rule(MatchSuffix(<<"", "">>), "https", {}, TRUE), @[1]>>],
            [Simple EXCEPT !.resolvers = <<OverHttps, OverHttps>>],
            [Simple EXCEPT !.resolvers[1].url = NoUrl],
            [Simple EXCEPT !.resolvers[1].url = "bad"]}

MCInputs == {Scoped, Simple} \cup Refused

Names ==
    {<<"www", "bank", "ru">>, <<"bank", "ru">>, <<"ru">>, <<"notbank", "ru">>, <<"com">>, <<>>}

-----------------------------------------------------------------------------
VARIABLES
    since,     \* protocol -> port -> process -> ticks since it last held the port
    lately,    \* the addresses the line has had since a change was last reported
    possible,  \* task -> the same, from when it looked what it knows of the line
    inForce    \* the policy in force as it was written

hist == <<since, lately, possible, inForce>>

Owned(udp, tcp) ==
    owner = [p \in Protocols |-> [port \in Ports |-> IF p = "udp" THEN udp ELSE tcp]]

\* Either policies come and the line moves, or the machine's programs change.
HistInit ==
    /\ ResolverInit /\ lineAddress = line1
    /\ \/ changes = 0 /\ events = MaxEvents /\ Owned(pid1, Nothing)
       \/ changes = MaxEvents /\ events = 0 /\ Owned(pid1, pid2)
    /\ running = [p \in Pids |-> IF p = pid1 THEN Chat ELSE Browser]
    /\ since = [p \in Protocols |-> [port \in Ports |-> [pid \in Pids |->
                    IF pid = owner[p][port] THEN 0 ELSE TableTtl]]]
    /\ lately = {lineAddress}
    /\ possible = [t \in Tasks |-> {}]
    /\ inForce = Nothing

HistNext ==
    /\ Next
    /\ since' = [p \in Protocols |-> [port \in Ports |-> [pid \in Pids |->
            IF pid \in {owner[p][port], owner'[p][port]} THEN 0
            ELSE IF Tick THEN Min({since[p][port][pid] + 1, TableTtl})
            ELSE since[p][port][pid]]]]
    /\ lately' = IF line' # line THEN {lineAddress} ELSE lately \cup {lineAddress'}
    /\ possible' = [t \in Tasks |->
            IF task'[t].at \notin Guarded THEN {}
            ELSE IF t \in At("source") /\ t \notin At("source")' THEN lately
            ELSE IF possible[t] = {} THEN {} ELSE possible[t] \cup {lineAddress'}]
    /\ inForce' = IF pending # Refreshing /\ pending' = Refreshing THEN pending ELSE inForce

HistSpec == HistInit /\ [][HistNext]_<<vars, hist>> /\ Fairness

-----------------------------------------------------------------------------
\* policy.rs:224-227, "the answer is exactly what walking the list in order would
\* have given": for every name and asker, once a policy is put in force, and none
\* is left without a rule.
FirstMatchWins ==
    pending = Refreshing =>
        \A name \in Names, who \in Programs \cup {Unknown} :
            LET chosen == Decide(installed, name, who)
            IN  chosen = Walk(inForce, name, who) /\ chosen # Undecided

\* server.rs:506-509: the process a question is laid to held the very port it
\* came from, under the protocol it came over, less than TABLE_TTL ago.
NamedHeldThePort ==
    [][\A t \in Tasks : task'[t].process \notin {task[t].process, Nothing} =>
            since[Protocol(t)][PortOf[t]][task'[t].process] < TableTtl]_<<vars, hist>>

\* core.rs:151-154, the notification retires what was looked up: no question is
\* asked from an address the line had lost before the last change reported to
\* the core when it looked, whichever of two tasks wrote the entry last.
AskedFromTheLine ==
    \A t \in At("ask") \cup At("fallback") : possible[t] # {} => task[t].from \in possible[t]
=============================================================================
