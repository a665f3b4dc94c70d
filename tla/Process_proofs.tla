--------------------------- MODULE Process_proofs ---------------------------
(***************************************************************************)
(* Proofs about the life of the process, for any number of starts and of   *)
(* devices: its types, that the session ends and the adapter closes in     *)
(* order, and that no start goes back to a device that was replaced.       *)
(***************************************************************************)
EXTENDS Process, TLAPS

\* The stages that come before the session, and those it is open in.
Before == {"down", "load", "register", "create", "address", "routes", "session"}

Opened == {"watch", "serve", "unwatch", "cancel", "stopReading", "handover", "end"}

\* The session, its reader and the watch, by where the main task is: each of them is
\* put away by one stage and never comes back.
StagesOK ==
  /\ pc \in Before => session = "none"
  /\ pc \in Opened => session = "open"
  /\ pc = "unwind" => session # "open"
  /\ session = "none" => reader = "none"
  /\ pc \in {"end", "unwind"} => reader \in {"none", "gone"}
  /\ watch => pc \in {"serve", "unwatch"}
  /\ calling => pc \in {"serve", "unwatch", "cancel"}

\* What a registration has come to, and what is known of it on disk.
DevicesOK ==
  /\ enrol \in {"patch", "save", "writing", "adopt"} => made # 0
  /\ enrol = "adopt" => file = Kept(made)
  /\ adopted <= made
  /\ file.device # 0 => file.device >= adopted
  /\ NeverGoesBack

IInv ==
  /\ ProcessTypeOK
  /\ StagesOK
  /\ DevicesOK

USE ProcessAssumption

-----------------------------------------------------------------------------
(* Types.                                                                   *)

LEMMA InitTyped == ProcessInit => ProcessTypeOK
<1> SUFFICES ASSUME ProcessInit PROVE ProcessTypeOK
  OBVIOUS
<1>1. file \in Files
  BY DEF ProcessInit, NoFile, Files
<1>2. pc \in Stages /\ command \in Commands /\ enrol \in EnrolStages
  BY DEF ProcessInit, Stages, Commands, EnrolStages
<1>3. made \in 0..MaxDevices /\ starts \in 0..MaxStarts /\ current \in 0..MaxDevices
      /\ adopted \in 0..MaxDevices
  BY ProcessAssumption DEF ProcessInit
<1>4. /\ name \in {"free", "mine", "leaving"} 
      /\ last \in {"never", "recent", "old"}
      /\ session \in {"none", "open", "ended"}
      /\ reader \in InDriver \cup {"none", "push", "leave", "gone"}
      /\ stop \in BOOLEAN /\ quit \in BOOLEAN
      /\ watch \in BOOLEAN /\ calling \in BOOLEAN
  BY DEF ProcessInit
<1> QED
  BY <1>1, <1>2, <1>3, <1>4 DEF ProcessTypeOK

LEMMA ExitTyped == ASSUME ProcessTypeOK, Exit PROVE ProcessTypeOK'
<1>1. /\ stop' \in BOOLEAN /\ quit' \in BOOLEAN
      /\ watch' \in BOOLEAN /\ calling' \in BOOLEAN
  BY DEF Exit, Vanish
<1>2. QED
  BY <1>1 DEF Exit, Vanish, ProcessTypeOK, Stages, EnrolStages

LEMMA TypesKept == ProcessTypeOK /\ DevicesOK /\ [ProcessNext]_vars => ProcessTypeOK'
<1> SUFFICES ASSUME ProcessTypeOK, DevicesOK, [ProcessNext]_vars PROVE ProcessTypeOK'
  OBVIOUS
<1> USE DEF ProcessTypeOK, Stages, EnrolStages, machine, driver, line
<1>1. ASSUME NEW c \in Commands, Start(c) PROVE ProcessTypeOK'
  BY <1>1 DEF Start
<1>2. ASSUME LoadKept PROVE ProcessTypeOK'
  <2>1. file.device \in 0..MaxDevices
    BY DEF ProcessTypeOK, Files, Kept, Torn
  <2>2. QED
    BY <1>2, <2>1 DEF LoadKept, AfterLoad
<1>3. ASSUME LoadTorn \/ CreateFails \/ RegisterFails \/ HandoverExpires \/ Kill
      PROVE  ProcessTypeOK'
  BY <1>3, ExitTyped DEF LoadTorn, CreateFails, RegisterFails, HandoverExpires, Kill
<1>4. ASSUME LoadNothing PROVE ProcessTypeOK'
  BY <1>4 DEF LoadNothing
<1>5. ASSUME Create PROVE ProcessTypeOK'
  BY <1>5 DEF Create
<1>6. ASSUME SetUp PROVE ProcessTypeOK'
  BY <1>6 DEF SetUp
<1>7. ASSUME SetUpFails PROVE ProcessTypeOK'
  BY <1>7 DEF SetUpFails
<1>8. ASSUME StartSession PROVE ProcessTypeOK'
  BY <1>8 DEF StartSession, InDriver
<1>9. ASSUME QuitRefused PROVE ProcessTypeOK'
  BY <1>9 DEF QuitRefused
<1>10. ASSUME Watch PROVE ProcessTypeOK'
  BY <1>10 DEF Watch
<1>11. ASSUME Replace PROVE ProcessTypeOK'
  BY <1>11 DEF Replace
<1>12. ASSUME IntervalPasses PROVE ProcessTypeOK'
  BY <1>12 DEF IntervalPasses
<1>13. ASSUME Post PROVE ProcessTypeOK'
  BY <1>13 DEF Post
<1>14. ASSUME Patch PROVE ProcessTypeOK'
  BY <1>14 DEF Patch
<1>15. ASSUME ReplaceFails PROVE ProcessTypeOK'
  BY <1>15 DEF ReplaceFails
<1>16. ASSUME SaveBegins PROVE ProcessTypeOK'
  BY <1>16 DEF SaveBegins, Files
<1>17. ASSUME SaveEnds PROVE ProcessTypeOK'
  BY <1>17 DEF SaveEnds, DevicesOK, Files
<1>18. ASSUME AdoptAtStart PROVE ProcessTypeOK'
  BY <1>18 DEF AdoptAtStart, AfterLoad
<1>19. ASSUME AdoptAndStop PROVE ProcessTypeOK'
  BY <1>19 DEF AdoptAndStop
<1>20. ASSUME Reads PROVE ProcessTypeOK'
  <2>1. reader' \in InDriver \cup {"none", "push", "leave", "gone"}
    BY <1>20 DEF Reads, ReceivePacket, ReceiveNothing, ReceiveFails, ReleasePacket, PushPacket,
                 PacketArrives, QuitSeen, Leave, InDriver
  <2>2. Reading
    BY <1>20 DEF Reads, ReceivePacket, ReceiveNothing, ReceiveFails, ReleasePacket, PushPacket,
                 PacketArrives, QuitSeen, Leave
  <2>3. QED
    BY <2>1, <2>2 DEF Reading
<1>21. ASSUME Report PROVE ProcessTypeOK'
  BY <1>21 DEF Report
<1>22. ASSUME Reported PROVE ProcessTypeOK'
  <2>1. calling' \in BOOLEAN
    BY <1>22 DEF Reported
  <2>2. QED
    BY <1>22, <2>1 DEF Reported
<1>23. ASSUME AskStop PROVE ProcessTypeOK'
  <2>1. stop' \in BOOLEAN
    BY <1>23 DEF AskStop
  <2>2. QED
    BY <1>23, <2>1 DEF AskStop
<1>24. ASSUME LeaveLoop PROVE ProcessTypeOK'
  BY <1>24 DEF LeaveLoop
<1>25. ASSUME Unwatch PROVE ProcessTypeOK'
  <2>1. watch' \in BOOLEAN
    BY <1>25 DEF Unwatch
  <2>2. QED
    BY <1>25, <2>1 DEF Unwatch
<1>26. ASSUME Cancelled PROVE ProcessTypeOK'
  BY <1>26 DEF Cancelled
<1>27. ASSUME StopReading PROVE ProcessTypeOK'
  BY <1>27 DEF StopReading
<1>28. ASSUME HandedOver PROVE ProcessTypeOK'
  BY <1>28 DEF HandedOver
<1>29. ASSUME EndSession PROVE ProcessTypeOK'
  BY <1>29 DEF EndSession
<1>30. ASSUME CloseAdapter PROVE ProcessTypeOK'
  <2>1. /\ stop' \in BOOLEAN /\ quit' \in BOOLEAN
        /\ watch' \in BOOLEAN /\ calling' \in BOOLEAN
    BY <1>30 DEF CloseAdapter, Vanish
  <2>2. QED
    BY <1>30, <2>1 DEF CloseAdapter, Vanish
<1>31. ASSUME Removed PROVE ProcessTypeOK'
  BY <1>31 DEF Removed
<1>32. ASSUME UNCHANGED vars PROVE ProcessTypeOK'
  BY <1>32 DEF vars
<1>33. QED
  BY <1>1, <1>2, <1>3, <1>4, <1>5, <1>6, <1>7, <1>8, <1>9, <1>10, <1>11, <1>12, <1>13,
     <1>14, <1>15, <1>16, <1>17, <1>18, <1>19, <1>20, <1>21, <1>22, <1>23, <1>24, <1>25,
     <1>26, <1>27, <1>28, <1>29, <1>30, <1>31, <1>32
  DEF ProcessNext, Enrols, Stops

-----------------------------------------------------------------------------
(* The order of the start and of the stop.                                  *)

LEMMA InitStages == ProcessInit => StagesOK
BY DEF ProcessInit, StagesOK, Before, Opened

\* Wherever the process ends, nothing of the session or of the watch is left.
LEMMA VanishStages == Vanish => StagesOK'
BY DEF Vanish, StagesOK, Before, Opened

LEMMA StagesKept == ProcessTypeOK /\ StagesOK /\ [ProcessNext]_vars => StagesOK'
<1> SUFFICES ASSUME ProcessTypeOK, StagesOK, [ProcessNext]_vars PROVE StagesOK'
  OBVIOUS
<1> USE DEF StagesOK, Before, Opened, machine, driver, line
<1>1. ASSUME NEW c \in Commands, Start(c) PROVE StagesOK'
  BY <1>1 DEF Start
<1>2. ASSUME LoadKept \/ LoadNothing \/ Create \/ SetUp \/ SetUpFails PROVE StagesOK'
  BY <1>2 DEF LoadKept, LoadNothing, Create, SetUp, SetUpFails, AfterLoad
<1>3. ASSUME LoadTorn \/ CreateFails \/ RegisterFails \/ HandoverExpires \/ Kill \/ CloseAdapter
      PROVE StagesOK'
  BY <1>3, VanishStages DEF LoadTorn, CreateFails, RegisterFails, HandoverExpires, Kill,
                            CloseAdapter, Exit
<1>4. ASSUME StartSession \/ QuitRefused PROVE StagesOK'
  BY <1>4 DEF StartSession, QuitRefused
<1>5. ASSUME Watch PROVE StagesOK'
  BY <1>5 DEF Watch
<1>6. ASSUME Replace \/ IntervalPasses \/ Post \/ Patch \/ ReplaceFails PROVE StagesOK'
  BY <1>6 DEF Replace, IntervalPasses, Post, Patch, ReplaceFails
<1>7. ASSUME SaveBegins \/ SaveEnds PROVE StagesOK'
  BY <1>7 DEF SaveBegins, SaveEnds
<1>8. ASSUME AdoptAtStart \/ AdoptAndStop PROVE StagesOK'
  BY <1>8 DEF AdoptAtStart, AdoptAndStop, AfterLoad
<1>9. ASSUME Reads PROVE StagesOK'
  <2>1. Reading /\ reader \notin {"none", "gone"} /\ reader' # "none"
    BY <1>9 DEF Reads, ReceivePacket, ReceiveNothing, ReceiveFails, ReleasePacket, PushPacket,
                PacketArrives, QuitSeen, Leave
  <2>2. QED
    BY <2>1 DEF Reading
<1>10. ASSUME Report \/ Reported \/ AskStop PROVE StagesOK'
  BY <1>10 DEF Report, Reported, AskStop
<1>11. ASSUME LeaveLoop \/ Unwatch \/ Cancelled PROVE StagesOK'
  BY <1>11 DEF LeaveLoop, Unwatch, Cancelled
<1>12. ASSUME StopReading \/ HandedOver \/ EndSession PROVE StagesOK'
  BY <1>12 DEF StopReading, HandedOver, EndSession
<1>13. ASSUME Removed \/ UNCHANGED vars PROVE StagesOK'
  BY <1>13 DEF Removed, vars
<1>14. QED
  BY <1>1, <1>2, <1>3, <1>4, <1>5, <1>6, <1>7, <1>8, <1>9, <1>10, <1>11, <1>12, <1>13
  DEF ProcessNext, Enrols, Stops

-----------------------------------------------------------------------------
(* Devices.                                                                 *)

\* What every step does that is not part of a registration or of a start's reading of
\* the file: devices and the file stay, and the process forgets or keeps its own.
Aside ==
  /\ UNCHANGED <<file, made, adopted>>
  /\ enrol' \in {enrol, "idle"} /\ current' \in {current, 0}

LEMMA InitDevices == ProcessInit => DevicesOK
BY DEF ProcessInit, DevicesOK, NeverGoesBack, NoFile, Kept

LEMMA AsideDevices == DevicesOK /\ Aside => DevicesOK'
BY DEF DevicesOK, NeverGoesBack, Aside

LEMMA VanishIsAside == Vanish => Aside
BY DEF Vanish, Aside

LEMMA DevicesKept == ProcessTypeOK /\ DevicesOK /\ [ProcessNext]_vars => DevicesOK'
<1> SUFFICES ASSUME ProcessTypeOK, DevicesOK, [ProcessNext]_vars PROVE DevicesOK'
  OBVIOUS
<1>1. ASSUME NEW c \in Commands, Start(c) PROVE Aside
  BY <1>1 DEF Start, Aside, machine
<1>2. ASSUME Create \/ SetUp \/ SetUpFails \/ StartSession \/ QuitRefused \/ Watch PROVE Aside
  BY <1>2 DEF Create, SetUp, SetUpFails, StartSession, QuitRefused, Watch, Aside, machine
<1>3. ASSUME LoadTorn \/ CreateFails \/ RegisterFails \/ HandoverExpires \/ Kill \/ CloseAdapter
      PROVE Aside
  BY <1>3, VanishIsAside DEF LoadTorn, CreateFails, RegisterFails, HandoverExpires, Kill,
                             CloseAdapter, Exit
<1>4. ASSUME IntervalPasses \/ ReplaceFails PROVE Aside
  BY <1>4 DEF IntervalPasses, ReplaceFails, Aside, machine
<1>5. ASSUME Reads PROVE Aside
  BY <1>5 DEF Reads, ReceivePacket, ReceiveNothing, ReceiveFails, ReleasePacket, PushPacket,
              PacketArrives, QuitSeen, Leave, Reading, Aside, machine
<1>6. ASSUME Report \/ Reported \/ AskStop \/ Removed \/ UNCHANGED vars PROVE Aside
  BY <1>6 DEF Report, Reported, AskStop, Removed, vars, Aside, machine
<1>7. ASSUME LeaveLoop \/ Unwatch \/ Cancelled \/ StopReading \/ HandedOver \/ EndSession
      PROVE Aside
  BY <1>7 DEF LeaveLoop, Unwatch, Cancelled, StopReading, HandedOver, EndSession, Aside, machine
<1>8. ASSUME LoadKept \/ LoadNothing \/ Replace PROVE DevicesOK'
  BY <1>8 DEF LoadKept, LoadNothing, Replace, DevicesOK, NeverGoesBack, NoFile, Kept, machine
<1>9. ASSUME Post \/ Patch PROVE DevicesOK'
  BY <1>9 DEF Post, Patch, ProcessTypeOK, DevicesOK, NeverGoesBack, machine
<1>10. ASSUME SaveBegins PROVE DevicesOK'
  BY <1>10 DEF SaveBegins, DevicesOK, NeverGoesBack, Torn
<1>11. ASSUME SaveEnds PROVE DevicesOK'
  BY <1>11 DEF SaveEnds, DevicesOK, NeverGoesBack, Kept
<1>12. ASSUME AdoptAtStart \/ AdoptAndStop PROVE DevicesOK'
  BY <1>12 DEF AdoptAtStart, AdoptAndStop, ProcessTypeOK, DevicesOK, NeverGoesBack, Kept
<1>13. QED
  BY <1>1, <1>2, <1>3, <1>4, <1>5, <1>6, <1>7, <1>8, <1>9, <1>10, <1>11, <1>12, AsideDevices
  DEF ProcessNext, Enrols, Stops

-----------------------------------------------------------------------------
(* The theorems.                                                            *)

THEOREM InvariantHolds == ProcessSpec => []IInv
<1>1. ProcessInit => IInv
  BY InitTyped, InitStages, InitDevices DEF IInv
<1>2. IInv /\ [ProcessNext]_vars => IInv'
  BY TypesKept, StagesKept, DevicesKept DEF IInv
<1>3. QED
  BY <1>1, <1>2, PTL DEF ProcessSpec

\* Every state of the process is one the declarations admit (main.rs, tun/mod.rs).
THEOREM TypesHold == ProcessSpec => []ProcessTypeOK
<1>1. IInv => ProcessTypeOK
  BY DEF IInv
<1>2. QED
  BY <1>1, InvariantHolds, PTL

\* The session never ends under the thread that reads it (tun/mod.rs:465-473).
THEOREM ReaderIsOut == ProcessSpec => []EndedOutsideDriver
<1>1. IInv => EndedOutsideDriver
  BY DEF IInv, ProcessTypeOK, StagesOK, Stages, Before, Opened, InDriver, EndedOutsideDriver
<1>2. QED
  BY <1>1, InvariantHolds, PTL

\* Once a device was adopted no start presents one older than it, wherever the process
\* and its successors are killed or refused a write (engine.rs:491-493).
THEOREM NoStartGoesBack == ProcessSpec => []NeverGoesBack
<1>1. IInv => NeverGoesBack
  BY DEF IInv, DevicesOK
<1>2. QED
  BY <1>1, InvariantHolds, PTL

\* Only the last step of the stop frees the name, and it comes when the session is
\* over and the watch put away (tun/mod.rs:503-508, link.rs:42-45).
LEMMA ClosingIsLast ==
  ASSUME IInv, ProcessNext, name = "mine", name' = "free"
  PROVE  session # "open" /\ ~watch /\ ~calling
<1>1. CloseAdapter
  BY DEF ProcessNext, Start, LoadKept, LoadNothing, LoadTorn, Create, CreateFails, SetUp,
         SetUpFails,
         StartSession, QuitRefused, Watch, Replace, IntervalPasses, Enrols, Post, Patch, SaveBegins,
         SaveEnds, AdoptAtStart, AdoptAndStop, ReplaceFails, RegisterFails, Reads, ReceivePacket,
         ReceiveNothing, ReceiveFails, ReleasePacket, PushPacket, PacketArrives, QuitSeen, Leave,
         Reading, Report, Reported, AskStop, Stops, LeaveLoop, Unwatch, Cancelled, StopReading,
         HandedOver, HandoverExpires, EndSession, Kill, Removed, Exit, machine
<1>2. QED
  BY <1>1 DEF CloseAdapter, IInv, StagesOK

THEOREM ClosesInOrder == ProcessSpec => ClosedInOrder
<1>1. IInv /\ [ProcessNext]_vars
      => [name = "mine" /\ name' = "free" => session # "open" /\ ~watch /\ ~calling]_vars
  BY ClosingIsLast
<1>2. QED
  BY <1>1, InvariantHolds, PTL DEF ProcessSpec, ClosedInOrder
=============================================================================
