--------------------------- MODULE Engine_proofs ----------------------------
(***************************************************************************)
(* Proofs about the engine, for any back-off, any bounds and any set of    *)
(* addresses: its types, that a handover is silent, and that HTTP/3 is     *)
(* paid for once.                                                          *)
(***************************************************************************)
EXTENDS MCEngine, TLAPS

\* A tunnel handed over is taken up at once, and while one is in hand or on its
\* way over the phase says so.
HandoverOK ==
  /\ handed => at \in {"top", "gone"}
  /\ handed \/ at \in {"probe", "pump", "judge"} => phase = "up"

IInv ==
  /\ EngineTypeOK
  /\ HandoverOK

USE EngineAssumption DEF Carriers

-----------------------------------------------------------------------------
(* Types.                                                                   *)

LEMMA InitTyped == Init => EngineTypeOK
<1> SUFFICES ASSUME Init PROVE EngineTypeOK
  OBVIOUS
<1>1. /\ handed \in BOOLEAN /\ upgraded \in BOOLEAN /\ parked \in BOOLEAN
      /\ declined \in BOOLEAN /\ delivering \in BOOLEAN /\ stopped \in BOOLEAN
      /\ told \in [reconnect : BOOLEAN, line : BOOLEAN]
  BY DEF Init, NotTold
<1> QED
  BY <1>1 DEF Init, EngineTypeOK

\* What the tail of the loop announces is one of the waits.
LEMMA LoseTyped ==
  ASSUME EngineTypeOK, Lose
  PROVE  /\ retryIn' \in Nat /\ failures' \in 0..MostFailures
         /\ told' \in [reconnect : BOOLEAN, line : BOOLEAN]
         /\ phase' = "lost" /\ at' = "lost"
<1>1. failures \in 0..MostFailures
  BY DEF EngineTypeOK
<1>2. retryIn' \in Nat
  BY <1>1 DEF Lose
<1>3. told' \in [reconnect : BOOLEAN, line : BOOLEAN]
  BY DEF Lose, NotTold
<1> QED
  BY <1>1, <1>2, <1>3 DEF Lose

LEMMA SuffersTyped ==
  ASSUME EngineTypeOK, NEW lets \in SUBSET Carriers, Suffers(lets)
  PROVE  tunnel' \in {"none", "carries", "hung", "broken"}
BY DEF EngineTypeOK, Suffers

LEMMA TypesKept == EngineTypeOK /\ [Next]_vars => EngineTypeOK'
<1> SUFFICES ASSUME EngineTypeOK, [Next]_vars PROVE EngineTypeOK'
  OBVIOUS
<1> USE DEF EngineTypeOK, engineVars, worldVars, NotTold
<1>1. ASSUME Top PROVE EngineTypeOK'
  <2>1. handed' \in BOOLEAN /\ upgraded' \in BOOLEAN
    BY <1>1 DEF Top
  <2>2. CASE handed
    BY <1>1, <2>1, <2>2 DEF Top, TakeUp
  <2>3. CASE ~handed
    BY <1>1, <2>1, <2>3 DEF Top
  <2> QED
    BY <2>2, <2>3
<1>2. ASSUME NEW c \in Carriers, Opens(c) PROVE EngineTypeOK'
  BY <1>2 DEF Opens, TakeUp
<1>3. ASSUME H3Fails PROVE EngineTypeOK'
  <2>1. parked' \in BOOLEAN
    BY <1>3 DEF H3Fails
  <2>2. CASE at' = "h2"
    BY <1>3, <2>1, <2>2, LoseTyped DEF H3Fails
  <2>3. CASE Lose
    BY <1>3, <2>1, <2>3, LoseTyped DEF H3Fails
  <2> QED
    BY <1>3, <2>2, <2>3 DEF H3Fails
<1>4. ASSUME H2Fails PROVE EngineTypeOK'
  BY <1>4, LoseTyped DEF H2Fails
<1>5. ASSUME H2Refuses PROVE EngineTypeOK'
  <2>1. stopped' \in BOOLEAN
    BY <1>5 DEF H2Refuses
  <2> QED
    BY <1>5, <2>1, LoseTyped DEF H2Refuses
<1>6. ASSUME Probe PROVE EngineTypeOK'
  BY <1>6 DEF Probe
<1>7. ASSUME NEW short \in BOOLEAN, Judge(short) PROVE EngineTypeOK'
  BY <1>7, LoseTyped DEF Judge, RunWith
<1>8. ASSUME WaitEnds PROVE EngineTypeOK'
  BY <1>8 DEF WaitEnds
<1>9. ASSUME LineWakes PROVE EngineTypeOK'
  BY <1>9 DEF LineWakes, LookAgain
<1>10. ASSUME ReconnectWakes PROVE EngineTypeOK'
  <2>1. parked' \in BOOLEAN /\ at' = "judge"
    BY <1>10 DEF ReconnectWakes, EndPump
  <2> QED
    BY <1>10, <2>1 DEF ReconnectWakes, EndPump
<1>11. ASSUME ReconnectEndsWait PROVE EngineTypeOK'
  <2>1. parked' \in BOOLEAN
    BY <1>11 DEF ReconnectEndsWait
  <2> QED
    BY <1>11, <2>1 DEF ReconnectEndsWait
<1>12. ASSUME LineEndsWait PROVE EngineTypeOK'
  BY <1>12 DEF LineEndsWait, LookAgain
<1>13. ASSUME IntervalEnds \/ Settled PROVE EngineTypeOK'
  <2>1. CASE IntervalEnds
    BY <2>1 DEF IntervalEnds
  <2>2. CASE Settled
    BY <2>2 DEF Settled
  <2> QED
    BY <1>13, <2>1, <2>2
<1>14. ASSUME Answered PROVE EngineTypeOK'
  <2>1. told' \in [reconnect : BOOLEAN, line : BOOLEAN]
    BY <1>14 DEF Answered
  <2>2. UNCHANGED <<at, choice, phase, retryIn, failures, cutShort, handed, upgraded, carrier,
                    parked, upgrading, from, through, source, tunnel, declined, delivering,
                    stopped, requests, changes>>
    BY <1>14 DEF Answered
  <2>3. answering' = "asleep"
    BY <1>14 DEF Answered
  <2> QED
    BY ONLY EngineTypeOK, <2>1, <2>2, <2>3 DEF EngineTypeOK
<1>15. ASSUME Unanswered \/ Fails PROVE EngineTypeOK'
  <2>1. CASE Unanswered
    BY <2>1 DEF Unanswered, EndPump
  <2>2. CASE Fails
    BY <2>2 DEF Fails, EndPump
  <2> QED
    BY <1>15, <2>1, <2>2
<1>16. ASSUME AdapterEnds PROVE EngineTypeOK'
  <2>1. stopped' \in BOOLEAN /\ at' = "judge"
    BY <1>16 DEF AdapterEnds, EndPump
  <2> QED
    BY <1>16, <2>1 DEF AdapterEnds, EndPump
<1>17. ASSUME TryUpgrade PROVE EngineTypeOK'
  BY <1>17 DEF TryUpgrade
<1>18. ASSUME UpgradeFails PROVE EngineTypeOK'
  BY <1>18 DEF UpgradeFails
<1>19. ASSUME UpgradeOpens PROVE EngineTypeOK'
  BY <1>19 DEF UpgradeOpens
<1>20. ASSUME ParkingEnds PROVE EngineTypeOK'
  <2>1. parked' \in BOOLEAN
    BY <1>20 DEF ParkingEnds
  <2> QED
    BY <1>20, <2>1 DEF ParkingEnds
<1>21. ASSUME Drop PROVE EngineTypeOK'
  <2>1. tunnel' = "none" /\ at' = "gone"
    BY <1>21 DEF Drop
  <2> QED
    BY <1>21, <2>1 DEF Drop
<1>22. ASSUME Reconnect PROVE EngineTypeOK'
  <2>1. PICK b \in BOOLEAN : told' = [told EXCEPT !.reconnect = b]
    <3>1. (told.reconnect \/ HearsReconnect) \in BOOLEAN
      OBVIOUS
    <3> QED
      BY <1>22, <3>1 DEF Reconnect
  <2>2. told' \in [reconnect : BOOLEAN, line : BOOLEAN]
    BY <2>1
  <2>3. requests' \in 0..MostRequests
    <3>1. requests \in 0..MostRequests
      BY DEF EngineTypeOK
    <3> QED
      BY <1>22, <3>1 DEF Reconnect
  <2> QED
    BY <1>22, <2>2, <2>3 DEF Reconnect
<1>23. ASSUME NEW there \in Sources, NEW lets \in SUBSET Carriers, LineChange(there, lets)
       PROVE  EngineTypeOK'
  <2>1. PICK b \in BOOLEAN : told' = [told EXCEPT !.line = b]
    <3>1. (told.line \/ HearsLine) \in BOOLEAN
      OBVIOUS
    <3> QED
      BY <1>23, <3>1 DEF LineChange
  <2>2. told' \in [reconnect : BOOLEAN, line : BOOLEAN]
    BY <2>1
  <2>3. changes' \in 0..MostChanges
    <3>1. changes \in 0..MostChanges
      BY DEF EngineTypeOK
    <3> QED
      BY <1>23, <3>1 DEF LineChange
  <2>4. tunnel' \in {"none", "carries", "hung", "broken"}
    BY <1>23, SuffersTyped DEF LineChange
  <2> QED
    BY <1>23, <2>2, <2>3, <2>4 DEF LineChange
<1>24. ASSUME NEW lets \in SUBSET Carriers, Filter(lets) PROVE EngineTypeOK'
  <2>1. changes' \in 0..MostChanges
    <3>1. changes \in 0..MostChanges
      BY DEF EngineTypeOK
    <3> QED
      BY <1>24, <3>1 DEF Filter
  <2>2. tunnel' \in {"none", "carries", "hung", "broken"}
    BY <1>24, SuffersTyped DEF Filter
  <2> QED
    BY <1>24, <2>1, <2>2 DEF Filter
<1>25. ASSUME ReaderLeaves PROVE EngineTypeOK'
  <2>1. delivering' \in BOOLEAN
    BY <1>25 DEF ReaderLeaves
  <2> QED
    BY <1>25, <2>1 DEF ReaderLeaves
<1>26. ASSUME AskToStop PROVE EngineTypeOK'
  BY <1>26 DEF AskToStop
<1>27. ASSUME Report PROVE EngineTypeOK'
  <2>1. PICK b \in BOOLEAN : told' = [told EXCEPT !.line = b]
    <3>1. (told.line \/ HearsLine) \in BOOLEAN
      OBVIOUS
    <3> QED
      BY <1>27, <3>1 DEF Report
  <2>2. told' \in [reconnect : BOOLEAN, line : BOOLEAN]
    BY <2>1
  <2> QED
    BY <1>27, <2>2 DEF Report
<1>28. ASSUME IdleEnds PROVE EngineTypeOK'
  BY <1>28 DEF IdleEnds
<1>29. CASE UNCHANGED vars
  BY <1>29 DEF vars
<1> QED
  BY <1>1, <1>2, <1>3, <1>4, <1>5, <1>6, <1>7, <1>8, <1>9, <1>10, <1>11, <1>12, <1>13, <1>14,
     <1>15, <1>16, <1>17, <1>18, <1>19, <1>20, <1>21, <1>22, <1>23, <1>24, <1>25, <1>26, <1>27,
     <1>28, <1>29
  DEF Next, Loop, Wake, Check, Upgrade, Around, Over

-----------------------------------------------------------------------------
(* The handover.                                                            *)

LEMMA HandoverKept == IInv /\ [Next]_vars => HandoverOK'
<1> SUFFICES ASSUME IInv, [Next]_vars PROVE HandoverOK'
  OBVIOUS
<1> USE DEF IInv, HandoverOK, engineVars, worldVars
<1>1. ASSUME Top PROVE HandoverOK'
  <2>1. handed' = FALSE
    BY <1>1 DEF Top
  <2> QED
    BY <1>1, <2>1 DEF Top, TakeUp
<1>2. ASSUME NEW c \in Carriers, Opens(c) PROVE HandoverOK'
  BY <1>2 DEF Opens, TakeUp
<1>3. ASSUME H3Fails PROVE HandoverOK'
  BY <1>3 DEF H3Fails, Lose
<1>4. ASSUME H2Fails PROVE HandoverOK'
  BY <1>4 DEF H2Fails, Lose
<1>5. ASSUME H2Refuses PROVE HandoverOK'
  BY <1>5 DEF H2Refuses, Lose
<1>6. ASSUME NEW short \in BOOLEAN, Judge(short) PROVE HandoverOK'
  BY <1>6 DEF Judge, Lose
<1>7. ASSUME Probe \/ WaitEnds \/ ReconnectEndsWait \/ LineEndsWait \/ Drop PROVE HandoverOK'
  BY <1>7 DEF Probe, WaitEnds, ReconnectEndsWait, LineEndsWait, LookAgain, Drop
<1>8. ASSUME Unanswered \/ Fails \/ AdapterEnds \/ ReconnectWakes PROVE HandoverOK'
  BY <1>8 DEF Unanswered, Fails, AdapterEnds, ReconnectWakes, EndPump
<1>9. ASSUME UpgradeOpens PROVE HandoverOK'
  BY <1>9 DEF UpgradeOpens
<1>10. ASSUME LineWakes \/ IntervalEnds \/ Settled \/ Answered \/ TryUpgrade \/ UpgradeFails
              \/ ParkingEnds
       PROVE  HandoverOK'
  BY <1>10 DEF LineWakes, LookAgain, IntervalEnds, Settled, Answered, TryUpgrade, UpgradeFails,
    ParkingEnds
<1>11. ASSUME Around PROVE HandoverOK'
  <2>1. UNCHANGED <<handed, at, phase>>
    BY <1>11 DEF Around, Reconnect, Report, LineChange, Filter, IdleEnds, ReaderLeaves, AskToStop
  <2> QED
    BY <2>1
<1>12. CASE UNCHANGED vars
  BY <1>12 DEF vars
<1> QED
  BY <1>1, <1>2, <1>3, <1>4, <1>5, <1>6, <1>7, <1>8, <1>9, <1>10, <1>11, <1>12
  DEF Next, Loop, Wake, Check, Upgrade, Over

LEMMA InvariantHolds == Spec => []IInv
<1>1. Init => IInv
  BY InitTyped DEF IInv, Init, HandoverOK
<1>2. IInv /\ [Next]_vars => IInv'
  BY TypesKept, HandoverKept DEF IInv
<1> QED
  BY <1>1, <1>2, PTL DEF Spec

\* The record adds nothing to what the engine does.
LEMMA RecordOnly == HistSpec => Spec
<1>1. HistInit => Init
  BY DEF HistInit
<1>2. [HistNext]_<<vars, reason>> => [Next]_vars
  BY DEF HistNext
<1> QED
  BY <1>1, <1>2, PTL DEF HistSpec, Spec

\* Every variable of the engine keeps its type, for any waits and any addresses;
\* the pump looks for HTTP/3 exactly while it carries over HTTP/2 (engine.rs:381).
THEOREM EngineTyped == Spec => []EngineTypeOK
<1>1. IInv => EngineTypeOK
  BY DEF IInv
<1> QED
  BY <1>1, InvariantHolds, PTL

\* From the moment HTTP/3 opens beside HTTP/2 until the tunnel handed over dies,
\* the phase says up (engine.rs:126-132).
THEOREM HandoverSilent == Spec => []HandoverIsSilent
<1>1. IInv => HandoverIsSilent
  BY DEF IInv, HandoverOK, HandoverIsSilent
<1> QED
  BY <1>1, InvariantHolds, PTL

-----------------------------------------------------------------------------
(* HTTP/3 is paid for once.                                                 *)

\* Left to itself, a run that does not leave HTTP/3 alone has been given a reason.
ReasonOK == choice = "auto" /\ ~parked => reason

\* A run for HTTP/3 that is not being left alone is the only one that tries it.
LEMMA TriedUnparked ==
  ASSUME EngineTypeOK, Next,
         \/ at = "top" /\ at' = "h3" /\ choice = "auto"
         \/ upgrading = "asleep" /\ upgrading' = "opening"
  PROVE  choice = "auto" /\ ~parked
<1> USE DEF engineVars
<1>1. CASE Top
  BY <1>1 DEF Top, TakeUp, TriesH3
<1>2. CASE TryUpgrade
  BY <1>2 DEF TryUpgrade, WouldTryH3
<1>3. ASSUME NEW c \in Carriers, Opens(c) PROVE FALSE
  BY <1>3 DEF Opens, TakeUp
<1>4. CASE H3Fails \/ H2Fails \/ H2Refuses \/ Probe \/ WaitEnds
  BY <1>4 DEF H3Fails, H2Fails, H2Refuses, Probe, WaitEnds, Lose
<1>5. ASSUME NEW short \in BOOLEAN, Judge(short) PROVE FALSE
  BY <1>5 DEF Judge, Lose
<1>6. CASE Wake
  BY <1>6 DEF Wake, LineWakes, ReconnectWakes, ReconnectEndsWait, LineEndsWait, EndPump
<1>7. CASE IntervalEnds \/ Settled \/ Check \/ Fails \/ AdapterEnds \/ UpgradeFails \/ UpgradeOpens
  BY <1>7 DEF Check, IntervalEnds, Settled, Answered, Unanswered, Fails, AdapterEnds,
    UpgradeFails, UpgradeOpens, EndPump
<1>8. CASE ParkingEnds \/ Drop \/ Around \/ Over
  BY <1>8 DEF ParkingEnds, Drop, Around, Reconnect, Report, LineChange, Filter, IdleEnds,
    ReaderLeaves, AskToStop, Over, vars
<1> QED
  BY <1>1, <1>2, <1>3, <1>4, <1>5, <1>6, <1>7, <1>8 DEF Next, Loop, Upgrade

\* Whoever stops leaving HTTP/3 alone has a reason to.
LEMMA UnparkedSpoken ==
  ASSUME EngineTypeOK, Next, parked, ~parked'
  PROVE  Spoken
<1> USE DEF engineVars, EngineTypeOK
<1>1. CASE ParkingEnds \/ ReconnectWakes \/ ReconnectEndsWait
  BY <1>1 DEF Spoken
<1>2. CASE LineWakes \/ LineEndsWait
  BY <1>2 DEF LineWakes, LineEndsWait, LookAgain, Spoken
<1>3. CASE Loop
  BY <1>3 DEF Loop, Top, Opens, H3Fails, H2Fails, H2Refuses, Probe, Judge, WaitEnds
<1>4. CASE IntervalEnds \/ Settled \/ Check \/ Fails \/ AdapterEnds \/ Upgrade
  BY <1>4 DEF Check, IntervalEnds, Settled, Answered, Unanswered, Fails, AdapterEnds, Upgrade,
    TryUpgrade, UpgradeFails, UpgradeOpens
<1>5. CASE Drop \/ Around \/ Over
  BY <1>5 DEF Drop, Around, Reconnect, Report, LineChange, Filter, IdleEnds, ReaderLeaves,
    AskToStop, Over, vars
<1> QED
  BY <1>1, <1>2, <1>3, <1>4, <1>5 DEF Next, Wake

\* What was chosen stays chosen.
LEMMA ChoiceStays == ASSUME Next PROVE choice' = choice
<1> USE DEF engineVars
<1>1. CASE Loop
  BY <1>1 DEF Loop, Top, Opens, H3Fails, H2Fails, H2Refuses, Probe, Judge, WaitEnds
<1>2. CASE Wake \/ Check
  BY <1>2 DEF Wake, LineWakes, ReconnectWakes, ReconnectEndsWait, LineEndsWait, Check, Answered,
    Unanswered, EndPump
<1>3. CASE IntervalEnds \/ Settled \/ Fails \/ AdapterEnds \/ Upgrade \/ ParkingEnds \/ Drop
  BY <1>3 DEF IntervalEnds, Settled, Fails, AdapterEnds, Upgrade, TryUpgrade,
    UpgradeFails, UpgradeOpens, ParkingEnds, Drop
<1>4. CASE Around \/ Over
  BY <1>4 DEF Around, Reconnect, Report, LineChange, Filter, IdleEnds, ReaderLeaves, AskToStop,
    Over, vars
<1> QED
  BY <1>1, <1>2, <1>3, <1>4 DEF Next

LEMMA ReasonKept == EngineTypeOK /\ ReasonOK /\ [HistNext]_<<vars, reason>> => ReasonOK'
<1> SUFFICES ASSUME EngineTypeOK, ReasonOK, [HistNext]_<<vars, reason>>,
                    choice' = "auto", ~parked'
             PROVE  reason'
  BY DEF ReasonOK
<1>1. CASE UNCHANGED <<vars, reason>>
  BY <1>1 DEF ReasonOK, vars, engineVars
<1>2. CASE HistNext
  <2>1. choice = "auto"
    BY <1>2, ChoiceStays DEF HistNext
  <2>2. ~H3Failed
    BY <2>1 DEF H3Failed, H3Fails, UpgradeFails
  <2>3. reason \/ Spoken
    BY <1>2, <2>1, UnparkedSpoken DEF HistNext, ReasonOK
  <2> QED
    BY ONLY <1>2, <2>2, <2>3, ~parked' DEF HistNext
<1> QED
  BY <1>1, <1>2

\* Once HTTP/3 failed or was found to be cut, a run left to choose does not try it
\* again before the line moved, a reconnect was asked for or PARK_FOR passed
\* (carrier.rs:10-13).
THEOREM PaidOnce == HistSpec => HTTP3PaysOnce
<1>1. HistInit => ReasonOK
  BY DEF HistInit, ReasonOK
<1>2. EngineTypeOK /\ ReasonOK /\ [HistNext]_<<vars, reason>>
        => [(at = "top" /\ at' = "h3" /\ choice = "auto")
              \/ (upgrading = "asleep" /\ upgrading' = "opening") => reason]_<<vars, reason>>
  <2> SUFFICES ASSUME EngineTypeOK, ReasonOK, HistNext,
                      \/ at = "top" /\ at' = "h3" /\ choice = "auto"
                      \/ upgrading = "asleep" /\ upgrading' = "opening"
               PROVE  reason
    OBVIOUS
  <2> QED
    BY TriedUnparked DEF HistNext, ReasonOK
<1> QED
  BY <1>1, <1>2, ReasonKept, RecordOnly, EngineTyped, PTL DEF HistSpec, HTTP3PaysOnce

=============================================================================
