------------------------------ MODULE Process ------------------------------
(***************************************************************************)
(* The life of the process: one start of the core after another on one     *)
(* machine (main.rs, tun/mod.rs, link.rs, warp/).                          *)
(*                                                                         *)
(* A start reads the device it presents, or registers one; creates the     *)
(* adapter, whose name a predecessor may still hold; starts the session    *)
(* and the thread that reads it; serves until it is stopped; and takes all *)
(* of it down in an order Wintun and Windows force on it.  Meanwhile the   *)
(* endpoint may refuse the device, and the engine registers another.  The  *)
(* process may be killed between any two of these steps.                   *)
(*                                                                         *)
(* The rule of the machine's names, which a start sweeps and a stop gives  *)
(* back, is the subject of Names; what is served, of the other modules.    *)
(***************************************************************************)
EXTENDS Naturals

CONSTANTS MaxDevices,   \* bound: devices ever registered
          MaxStarts     \* bound: starts of the process

ASSUME ProcessAssumption == MaxDevices \in Nat /\ MaxStarts \in Nat \ {0}

VARIABLES
  file,      \* the identity on disk
  made,      \* how many devices exist at the endpoint; a device is its number
  adopted,   \* the device last adopted, whichever start adopted it
  name,      \* the adapter's name: "free", "mine", or "leaving" with a predecessor
  starts,    \* starts so far
  pc,        \* where the main task is
  command,   \* what this start was asked for
  enrol,     \* where a registration is
  current,   \* the device presented, 0 for none
  last,      \* when this start replaced its device: "never", "recent", "old"
  stop,      \* the core was asked to stop
  session,   \* Wintun's session: "none", "open", "ended"
  reader,    \* where the thread reading the adapter is
  quit,      \* the event that asks it to leave
  watch,     \* Windows reports interface changes
  calling    \* a report is being delivered

machine == <<file, made, adopted, name, starts>>
enrolment == <<file, made, adopted, enrol, current, last>>
driver == <<session, reader, quit>>
line == <<watch, calling>>
vars == <<machine, pc, command, enrol, current, last, stop, driver, line>>

-----------------------------------------------------------------------------
(* The identity on disk.  fs::write empties the file before it fills it.    *)

Kept(d) == [whole |-> TRUE, device |-> d]
NoFile == Kept(0)
Torn == [whole |-> FALSE, device |-> 0]

Files == {Kept(d) : d \in 0..MaxDevices} \cup {Torn}

\* "register", "probe" and "handshake" differ in what they print and measure.
Commands == {"up", "probe"}

EnrolStages == {"idle", "post", "patch", "save", "writing", "adopt"}

\* Between these the task never awaits: a stop does not come in between.
Writing == {"save", "writing", "adopt"}

Stages == {"down", "load", "register", "create", "address", "routes", "session",
           "watch", "serve", "unwatch", "cancel", "stopReading", "handover",
           "end", "unwind"}

\* The reader is in a call of Wintun's, or waits on an event that is Wintun's.
InDriver == {"receive", "copy", "wait"}

ProcessTypeOK ==
  /\ file \in Files
  /\ made \in 0..MaxDevices
  /\ adopted \in 0..MaxDevices
  /\ name \in {"free", "mine", "leaving"}
  /\ starts \in 0..MaxStarts
  /\ pc \in Stages
  /\ command \in Commands
  /\ enrol \in EnrolStages
  /\ current \in 0..MaxDevices
  /\ last \in {"never", "recent", "old"}
  /\ session \in {"none", "open", "ended"}
  /\ reader \in InDriver \cup {"none", "push", "leave", "gone"}
  /\ stop \in BOOLEAN /\ quit \in BOOLEAN
  /\ watch \in BOOLEAN /\ calling \in BOOLEAN

ProcessInit ==
  /\ file = NoFile /\ made = 0 /\ adopted = 0 /\ name = "free" /\ starts = 0
  /\ pc = "down" /\ command = "up" /\ enrol = "idle" /\ current = 0
  /\ last = "never" /\ stop = FALSE
  /\ session = "none" /\ reader = "none" /\ quit = FALSE
  /\ watch = FALSE /\ calling = FALSE

\* What the process takes with it, however it ends.
Vanish ==
  /\ pc' = "down" /\ enrol' = "idle" /\ current' = 0 /\ last' = "never"
  /\ stop' = FALSE /\ session' = "none" /\ reader' = "none" /\ quit' = FALSE
  /\ watch' = FALSE /\ calling' = FALSE
  /\ UNCHANGED <<file, made, adopted, starts, command>>

\* The process ends with the adapter not closed: Windows removes it, later.
Exit == Vanish /\ name' = IF name = "mine" THEN "leaving" ELSE name

-----------------------------------------------------------------------------
(* A start.                                                                 *)

Start(c) ==
  /\ pc = "down" /\ starts < MaxStarts
  /\ starts' = starts + 1 /\ command' = c /\ pc' = "load"
  /\ UNCHANGED <<file, made, adopted, name, enrol, current, last, stop, driver, line>>

AfterLoad == IF command = "up" THEN "create" ELSE "down"

LoadKept ==
  /\ pc = "load" /\ file.whole /\ file # NoFile
  /\ current' = (IF command = "up" THEN file.device ELSE 0) /\ pc' = AfterLoad
  /\ UNCHANGED <<machine, command, enrol, last, stop, driver, line>>

LoadNothing ==
  /\ pc = "load" /\ file = NoFile
  /\ pc' = "register" /\ enrol' = "post"
  /\ UNCHANGED <<machine, command, current, last, stop, driver, line>>

\* A file that does not parse fails the start, and every start after it.
LoadTorn == pc = "load" /\ file = Torn /\ Exit

\* Adapter::create, once the name is free.
Create ==
  /\ pc = "create" /\ name = "free"
  /\ name' = "mine" /\ pc' = "address"
  /\ UNCHANGED <<file, made, adopted, starts, command, enrol, current, last, stop, driver, line>>

\* Only a name still held is waited for, and not beyond NAME_RELEASE_BUDGET; any
\* other refusal fails the start at once.
CreateFails == pc = "create" /\ Exit

\* The addresses and the MTU of both families, then the routes asked for.
SetUp ==
  /\ pc \in {"address", "routes"}
  /\ pc' = IF pc = "address" THEN "routes" ELSE "session"
  /\ UNCHANGED <<machine, command, enrol, current, last, stop, driver, line>>

\* Any of those refused: the error leaves cmd_up, and what it held is dropped.
SetUpFails ==
  /\ pc \in {"address", "routes", "session"}
  /\ pc' = "unwind"
  /\ UNCHANGED <<machine, command, enrol, current, last, stop, driver, line>>

StartSession ==
  /\ pc = "session"
  /\ session' = "open" /\ reader' = "receive" /\ pc' = "watch"
  /\ UNCHANGED <<machine, command, enrol, current, last, stop, quit, line>>

\* Mutant: the session is left open when the event cannot be made.
QuitRefusedOpen ==
  /\ pc = "session"
  /\ session' = "open" /\ pc' = "unwind"
  /\ UNCHANGED <<machine, command, enrol, current, last, stop, reader, quit, line>>

\* The session starts and its quit event cannot be made.
QuitRefused ==
  /\ pc = "session"
  /\ session' = "ended" /\ pc' = "unwind"
  /\ UNCHANGED <<machine, command, enrol, current, last, stop, reader, quit, line>>

\* A registration Windows refuses is not fatal.
Watch ==
  /\ pc = "watch"
  /\ watch' \in BOOLEAN /\ pc' = "serve"
  /\ UNCHANGED <<machine, command, enrol, current, last, stop, driver, calling>>

-----------------------------------------------------------------------------
(* Registering a device, at a start that found none or when the endpoint    *)
(* refused the one held.                                                    *)

Registering == pc \in {"register", "serve"}

\* The engine is told that the device is not accepted.  A replacement made
\* recently is not made again.
Replace ==
  /\ pc = "serve" /\ enrol = "idle" /\ last # "recent"
  /\ enrol' = "post"
  /\ UNCHANGED <<machine, pc, command, current, last, stop, driver, line>>

\* POST /reg: a device exists from here on, whatever happens next.
Post ==
  /\ Registering /\ enrol = "post" /\ made < MaxDevices
  /\ made' = made + 1 /\ enrol' = "patch"
  /\ UNCHANGED <<file, adopted, name, starts, pc, command, current, last, stop, driver, line>>

\* PATCH /reg/{id}: the key the tunnel uses is enrolled, and a peer returned.
Patch ==
  /\ Registering /\ enrol = "patch"
  /\ enrol' = "save"
  /\ UNCHANGED <<machine, pc, command, current, last, stop, driver, line>>

SaveBegins ==
  /\ enrol = "save"
  /\ file' = Torn /\ enrol' = "writing"
  /\ UNCHANGED <<made, adopted, name, starts, pc, command, current, last, stop, driver, line>>

SaveEnds ==
  /\ enrol = "writing"
  /\ file' = Kept(made) /\ enrol' = "adopt"
  /\ UNCHANGED <<made, adopted, name, starts, pc, command, current, last, stop, driver, line>>

\* At a start, the registration is what is presented.  While serving, the core
\* stops so that the next start presents it.
AdoptAtStart ==
  /\ pc = "register" /\ enrol = "adopt"
  /\ enrol' = "idle" /\ pc' = AfterLoad
  /\ current' = IF command = "up" THEN made ELSE 0
  /\ adopted' = made
  /\ UNCHANGED <<file, made, name, starts, command, last, stop, driver, line>>

\* Mutant: the core stops as soon as the device is enrolled, before it is written down.
AdoptUnsaved ==
  /\ pc = "serve" /\ enrol \in {"save", "adopt"}
  /\ enrol' = "idle" /\ current' = made /\ last' = "recent" /\ stop' = TRUE
  /\ adopted' = made
  /\ UNCHANGED <<file, made, name, starts, pc, command, driver, line>>

AdoptAndStop ==
  /\ pc = "serve" /\ enrol = "adopt"
  /\ enrol' = "idle" /\ current' = made /\ last' = "recent" /\ stop' = TRUE
  /\ adopted' = made
  /\ UNCHANGED <<file, made, name, starts, pc, command, driver, line>>

\* A call that gets no answer, a refusal, a profile without a peer, a file that
\* cannot be created or filled.  `last` is not set.
ReplaceFails ==
  /\ pc = "serve" /\ enrol \in {"post", "patch", "save", "writing"}
  /\ enrol' = "idle"
  /\ UNCHANGED <<machine, pc, command, current, last, stop, driver, line>>

RegisterFails ==
  /\ pc = "register" /\ enrol \in {"post", "patch", "save", "writing"} /\ Exit

\* MIN_INTERVAL.
IntervalPasses ==
  /\ last = "recent" /\ last' = "old"
  /\ UNCHANGED <<machine, pc, command, enrol, current, stop, driver, line>>

-----------------------------------------------------------------------------
(* The thread that reads the adapter.  It looks at `quit` only when the     *)
(* ring is empty, and packets may keep coming.                              *)

Reading == UNCHANGED <<machine, pc, command, enrol, current, last, stop, session, quit, line>>

ReceivePacket == reader = "receive" /\ reader' = "copy" /\ Reading
ReceiveNothing == reader = "receive" /\ reader' = "wait" /\ Reading
ReceiveFails == reader = "receive" /\ reader' = "leave" /\ Reading
ReleasePacket == reader = "copy" /\ reader' = "push" /\ Reading
PushPacket == reader = "push" /\ reader' = "receive" /\ Reading
PacketArrives == reader = "wait" /\ reader' = "receive" /\ Reading
QuitSeen == reader = "wait" /\ quit /\ reader' = "leave" /\ Reading

\* The queue is closed, the session's half dropped, and the ending told.
Leave == reader = "leave" /\ reader' = "gone" /\ Reading

-----------------------------------------------------------------------------
(* Reports of Windows, delivered on a thread of its own.                    *)

Report ==
  /\ watch /\ ~calling
  /\ calling' = TRUE
  /\ UNCHANGED <<machine, pc, command, enrol, current, last, stop, driver, watch>>

Reported ==
  /\ calling
  /\ calling' = FALSE
  /\ UNCHANGED <<machine, pc, command, enrol, current, last, stop, driver, watch>>

-----------------------------------------------------------------------------
(* The stop.                                                                *)

\* The pipe's `stop`, Ctrl-C, a task that ended, or a queue that ended.
AskStop ==
  /\ pc = "serve" /\ ~stop
  /\ stop' = TRUE
  /\ UNCHANGED <<machine, pc, command, enrol, current, last, driver, line>>

\* The loop is left and the engine with it: a registration it was waiting for
\* is abandoned, with the device it may have made.
LeaveLoop ==
  /\ pc = "serve" /\ stop /\ enrol \notin Writing
  /\ pc' = "unwatch" /\ enrol' = "idle"
  /\ UNCHANGED <<machine, command, current, last, stop, driver, line>>

Unwatch ==
  /\ pc = "unwatch"
  /\ watch' = FALSE /\ pc' = "cancel"
  /\ UNCHANGED <<machine, command, enrol, current, last, stop, driver, calling>>

\* CancelMibChangeNotify2 returns once no report is being delivered.
Cancelled ==
  /\ pc = "cancel" /\ ~calling
  /\ pc' = "stopReading"
  /\ UNCHANGED <<machine, command, enrol, current, last, stop, driver, line>>

StopReading ==
  /\ pc = "stopReading"
  /\ quit' = TRUE /\ pc' = "handover"
  /\ UNCHANGED <<machine, command, enrol, current, last, stop, session, reader, line>>

\* Mutant: the reader was asked to leave, which is taken for its having left.
HandedOverUnseen ==
  /\ pc = "handover"
  /\ pc' = "end"
  /\ UNCHANGED <<machine, command, enrol, current, last, stop, driver, line>>

\* The reader has told that it left.
HandedOver ==
  /\ pc = "handover" /\ reader = "gone"
  /\ pc' = "end"
  /\ UNCHANGED <<machine, command, enrol, current, last, stop, driver, line>>

\* Mutant: the reader is waited for without a limit.
HandoverNeverExpires == pc = "handover" /\ FALSE /\ Exit

\* READER_HANDOVER runs out: session and adapter are left to Windows.
HandoverExpires == pc = "handover" /\ Exit

EndSession ==
  /\ pc = "end"
  /\ session' = "ended" /\ pc' = "unwind"
  /\ UNCHANGED <<machine, command, enrol, current, last, stop, reader, quit, line>>

\* The last holder of the adapter lets go of it, which closes it.
CloseAdapter ==
  /\ pc = "unwind"
  /\ name' = "free"
  /\ Vanish

-----------------------------------------------------------------------------
(* What the machine does to it.                                             *)

Kill == pc # "down" /\ Exit

\* Windows finishes removing the adapter of a process that ended.
Removed ==
  /\ name = "leaving" /\ name' = "free"
  /\ UNCHANGED <<file, made, adopted, starts, pc, command, enrol, current, last, stop,
                 driver, line>>

Enrols == Post \/ Patch \/ SaveBegins \/ SaveEnds \/ AdoptAtStart \/ AdoptAndStop
          \/ ReplaceFails \/ RegisterFails

Reads == ReceivePacket \/ ReceiveNothing \/ ReceiveFails \/ ReleasePacket
         \/ PushPacket \/ PacketArrives \/ QuitSeen \/ Leave

Stops == LeaveLoop \/ Unwatch \/ Cancelled \/ StopReading \/ HandedOver
         \/ HandoverExpires \/ EndSession \/ CloseAdapter

ProcessNext ==
  \/ \E c \in Commands : Start(c)
  \/ LoadKept \/ LoadNothing \/ LoadTorn
  \/ Create \/ CreateFails \/ SetUp \/ SetUpFails
  \/ StartSession \/ QuitRefused \/ Watch
  \/ Replace \/ IntervalPasses
  \/ Enrols \/ Reads
  \/ Report \/ Reported
  \/ AskStop \/ Stops
  \/ Kill \/ Removed

\* The main task goes on with what it can do, files and timers answer, a report
\* ends.  Nothing is assumed of the endpoint, nor of packets running out.
ProcessFairness ==
  /\ WF_vars(Stops)
  /\ WF_vars(enrol \in Writing /\ Enrols)
  /\ WF_vars(Reported)

ProcessSpec == ProcessInit /\ [][ProcessNext]_vars /\ ProcessFairness

-----------------------------------------------------------------------------
(* Properties.                                                              *)

\* tun/mod.rs:465-473 and main.rs:541-559: Wintun answers a session ended under
\* a thread that is inside it with an access violation.  Whatever the reader was
\* doing when the stop came, and although packets never run out, it is nowhere
\* in the driver when the session ends.
EndedOutsideDriver == session = "ended" => reader \notin InDriver

\* tun/mod.rs:503-508 and link.rs:42-45: the adapter is closed only when its
\* session is over, and neither a report in delivery nor a registration is left
\* that could reach a core which is gone.  Starts that fail part of the way keep
\* the same order.
ClosedInOrder ==
  [][name = "mine" /\ name' = "free" => session # "open" /\ ~watch /\ ~calling]_vars

\* main.rs:359-364: a stop ends, although the endpoint is silent in the middle of
\* a registration, the disk refuses, or the ring never runs dry.
StopEnds == stop ~> pc = "down"

\* engine.rs:491-493, "the new device is on disk before this returns, so restarting
\* is all that is left": a core that adopted a device, in place of one the endpoint
\* refused, has no start after it present the one before again.  However often devices
\* are replaced, and wherever a core is killed or its file refused, a start presents
\* the device last adopted, one registered after it, or none: a file left torn by a
\* save that did not end has it present none.
NeverGoesBack == current # 0 => current >= adopted
=============================================================================
