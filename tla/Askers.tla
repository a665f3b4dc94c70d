-------------------------------- MODULE Askers ------------------------------
(***************************************************************************)
(* Which program asked (src/dns/asker.rs).                                 *)
(*                                                                         *)
(* Windows knows which process owns a port, in one table per protocol, and *)
(* which image a process runs.  Both are read through caches: a table is   *)
(* used for TABLE_TTL, an image until there are too many of them.  The     *)
(* machine changes underneath: a port passes to another process, a number  *)
(* of a process that ended is given to a new one.                          *)
(***************************************************************************)
EXTENDS Integers, FiniteSets, Policy

CONSTANTS
    Ports,      \* the loopback ports queries are sent from
    Pids,       \* process numbers
    Programs,   \* the images a process can run, [path, name]
    TableTtl,   \* TABLE_TTL, in ticks
    MaxImages,  \* MAX_IMAGES
    Nothing     \* no owner, no reading, no process

Protocols == {"udp", "tcp"}

ASSUME AskersAssumption ==
    /\ TableTtl \in Nat \ {0}
    /\ MaxImages \in Nat \ {0}
    /\ Nothing \notin Pids

VARIABLES
    owner,    \* protocol -> port -> the process that really holds it, or Nothing
    running,  \* process -> the program it really runs
    reading,  \* protocol -> Askers.udp, .tcp: the table as last read, or Nothing
    age,      \* protocol -> ticks since it was read
    images    \* Askers.images

machine == <<owner, running>>
askerVars == <<owner, running, reading, age, images>>

Owners == [Ports -> Pids \cup {Nothing}]

AskersTypeOK ==
    /\ owner \in [Protocols -> Owners]
    /\ running \in [Pids -> Programs]
    /\ \A p \in Protocols : reading[p] = Nothing \/ reading[p] \in Owners
    /\ age \in [Protocols -> 0 .. TableTtl]
    /\ DOMAIN images \subseteq Pids
    /\ Range(images) \subseteq Programs
    /\ Cardinality(DOMAIN images) <= MaxImages

AskersInit ==
    /\ owner \in [Protocols -> Owners]
    /\ running \in [Pids -> Programs]
    /\ reading = [p \in Protocols |-> Nothing]
    /\ age = [p \in Protocols |-> 0]
    /\ images = <<>>

\* One table for both protocols.
ReadUdpAlways(protocol) == owner["udp"]

\* The table of the protocol a query came over.
ReadTable(protocol) == owner[protocol]

Fresh(protocol) == reading[protocol] # Nothing /\ age[protocol] < TableTtl

\* owner_of: the process found on the port, after a new reading when one is
\* due.  Windows may refuse it, and the old one is kept for the next query.
OwnerOf(protocol, port, found) ==
    \/ /\ Fresh(protocol)
       /\ found = reading[protocol][port]
       /\ UNCHANGED askerVars
    \/ /\ ~ Fresh(protocol)
       /\ found = ReadTable(protocol)[port]
       /\ reading' = [reading EXCEPT ![protocol] = ReadTable(protocol)]
       /\ age' = [age EXCEPT ![protocol] = 0]
       /\ UNCHANGED <<owner, running, images>>
    \/ /\ ~ Fresh(protocol)
       /\ found = Nothing
       /\ UNCHANGED askerVars

\* The rest of of_port, for a process nobody asked about before: its image is
\* read, and kept with the others or, when they are too many, without them.
KeepImage(pid, program) ==
    images' = [p \in {pid} \cup (IF Cardinality(DOMAIN images) >= MaxImages
                                 THEN {} ELSE DOMAIN images) |->
                    IF p = pid THEN program ELSE images[p]]

ImageOf(pid, program) ==
    \/ /\ program = running[pid]
       /\ KeepImage(pid, program)
       /\ UNCHANGED <<owner, running, reading, age>>
    \/ /\ program = Unknown     \* it has ended, or may not be opened
       /\ UNCHANGED askerVars

-----------------------------------------------------------------------------
(* The machine.                                                            *)

\* A port is closed, or is taken by a process.
Rebind(protocol, port, pid) ==
    /\ pid # owner[protocol][port]
    /\ owner' = [owner EXCEPT ![protocol][port] = pid]
    /\ UNCHANGED <<running, reading, age, images>>

\* A process ends and its number is given to another.
Reuse(pid, program) ==
    /\ program # running[pid]
    /\ \A p \in Protocols : pid \notin {owner[p][port] : port \in Ports}
    /\ running' = [running EXCEPT ![pid] = program]
    /\ UNCHANGED <<owner, reading, age, images>>

AskersTick ==
    /\ age' = [p \in Protocols |-> Min({age[p] + 1, TableTtl})]
    /\ UNCHANGED <<owner, running, reading, images>>
=============================================================================
