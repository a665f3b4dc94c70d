--------------------------- MODULE Routing_proofs ---------------------------
(***************************************************************************)
(* Proofs about the routing, for every set of callers, prefixes and        *)
(* addresses and every bound: its types, that the core's belief about the  *)
(* table is exact, that the table agrees with what is due whenever every   *)
(* task has finished, that no pass takes away what one half held on to all *)
(* through it, and that Routing implements RouteSet.                       *)
(***************************************************************************)
EXTENDS MCRouting, TLAPS

Holding == {"wants", "support", "asked", "leases", "apply"}

\* Each lock is held by exactly the task whose program counter says so.
LocksOK ==
    \A p \in Proc :
        /\ pc[p] \in Holding <=> holder = p
        /\ pc[p] = "record" <=> writer = p

\* p has changed something a pass reads and has not begun its own pass.
Owes(p) ==
    \/ pc[p] \in {"set", "install"}
    \/ pc[p] = "record" /\ changed

NobodyOwes == \A p \in Proc : ~Owes(p)

\* While nobody owes a pass, what the pass under way has read so far is still so.
ReadingsFresh ==
    NobodyOwes => \A p \in Proc :
        /\ pc[p] = "support" => wants
        /\ pc[p] \in {"asked", "leases"} => carriesV6 = (wants /\ support = "Carries")
        /\ pc[p] = "leases" => wanted = asked
        /\ pc[p] = "apply" => wanted = Union

\* And with no pass under way the table agrees, less what Windows refused.
AgreesUnlessOwed == NobodyOwes /\ holder = Nobody => Astray \subseteq refused

IInv ==
    /\ RouteTypeOK
    /\ LocksOK
    /\ ReadingsFresh
    /\ AgreesUnlessOwed

-----------------------------------------------------------------------------
(* The lease table: types, and that its addresses change only when said so. *)

LEMMA LifetimeNat == ASSUME NEW t \in Ttls PROVE Lifetime(t) \in Nat
  BY LeaseAssumption DEF Lifetime

LEMMA TableOperators ==
  ASSUME NEW S \in SUBSET Addresses, NEW t \in [S -> Nat],
         NEW a \in Addresses, NEW u \in Nat, NEW gone
  PROVE  /\ a \in S => Renew(t, a, u) \in [S -> Nat]
         /\ Hold(t, a, u) \in [S \cup {a} -> Nat]
         /\ LetGo(t, gone) \in [S \ gone -> Nat]
  BY DEF Renew, Hold, LetGo, Restrict, AtLeast

\* Taking in one record keeps the table a table, and says so when it adds an address.
LEMMA TakeInEffect ==
  ASSUME LeaseTypeOK, NEW c \in Callers, TakeIn(c)
  PROVE  /\ LeaseTypeOK'
         /\ changed => changed'
         /\ ~changed' => DOMAIN held' = DOMAIN held
<1> DEFINE a == Head(left).address
           u == now + Lifetime(Head(left).ttl)
<1>1. Head(left) \in Record /\ Tail(left) \in Seq(Record)
  BY DEF TakeIn, LeaseTypeOK
<1>2. a \in Addresses /\ u \in Nat
  BY <1>1, LifetimeNat DEF Record, LeaseTypeOK
<1>3. DOMAIN held \in SUBSET Addresses /\ held \in [DOMAIN held -> Nat]
  BY DEF LeaseTypeOK
<1>4. /\ changed => changed'
      /\ ~changed' => DOMAIN held' = DOMAIN held
      /\ DOMAIN held' \in SUBSET Addresses
      /\ held' \in [DOMAIN held' -> Nat]
      /\ changed' \in BOOLEAN
  <2>1. CASE a \in DOMAIN held /\ held' = Renew(held, a, u) /\ UNCHANGED changed
    <3>1. held' \in [DOMAIN held -> Nat]
      BY <1>2, <1>3, <2>1 DEF Renew, AtLeast
    <3>2. changed' \in BOOLEAN
      BY <2>1 DEF LeaseTypeOK
    <3>3. QED
      BY <1>3, <2>1, <3>1, <3>2
  <2>2. CASE held' = Hold(held, a, u) /\ changed' = TRUE
    <3>1. held' \in [DOMAIN held \cup {a} -> Nat]
      BY <1>2, <1>3, <2>2 DEF Hold
    <3>2. QED
      BY <1>2, <1>3, <2>2, <3>1
  <2>3. CASE /\ \E victim \in Soonest(held) :
                   held' = Hold(LetGo(held, {victim}), a, u)
             /\ changed' = TRUE
    <3>1. PICK victim \in Soonest(held) : held' = Hold(LetGo(held, {victim}), a, u)
      BY <2>3
    <3>2. LetGo(held, {victim}) \in [DOMAIN held \ {victim} -> Nat]
      BY <1>2, <1>3, TableOperators
    <3>3. held' \in [(DOMAIN held \ {victim}) \cup {a} -> Nat]
      BY <1>2, <1>3, <3>1, <3>2, TableOperators
    <3>4. QED
      BY <1>2, <1>3, <2>3, <3>3
  <2>4. QED
    BY <2>1, <2>2, <2>3 DEF TakeIn
<1>5. QED
  BY <1>1, <1>4 DEF TakeIn, LeaseTypeOK

\* The other steps of the table keep its types, and only the sweep its addresses.
LEMMA LeaseStepTypes ==
  ASSUME LeaseTypeOK
  PROVE  /\ \A c \in Callers, answer \in Answers :
                BeginRecord(c, answer) => LeaseTypeOK'
         /\ \A c \in Callers : EndRecord(c) => LeaseTypeOK'
         /\ \A b \in Addresses : Touch(b) => LeaseTypeOK' /\ DOMAIN held' = DOMAIN held
         /\ Expire => LeaseTypeOK'
         /\ Tick => LeaseTypeOK'
<1>1. ASSUME NEW c \in Callers, NEW answer \in Answers, BeginRecord(c, answer)
      PROVE  LeaseTypeOK'
  <2>1. answer \in Seq(Record)
    BY LeaseAssumption DEF Answers
  <2>2. QED
    BY <1>1, <2>1 DEF BeginRecord, LeaseTypeOK
<1>2. ASSUME NEW c \in Callers, EndRecord(c) PROVE LeaseTypeOK'
  BY <1>2 DEF EndRecord, LeaseTypeOK
<1>3. ASSUME NEW b \in Addresses, Touch(b)
      PROVE  LeaseTypeOK' /\ DOMAIN held' = DOMAIN held
  <2>1. now + MinLease \in Nat
    BY LeaseAssumption DEF LeaseTypeOK
  <2>2. held' \in [DOMAIN held -> Nat]
    BY <1>3, <2>1, TableOperators DEF Touch, LeaseTypeOK
  <2>3. QED
    BY <1>3, <2>2 DEF Touch, LeaseTypeOK
<1>4. ASSUME Expire PROVE LeaseTypeOK'
  <2>1. held' = LetGo(held, FallenDue(held))
    BY <1>4 DEF Expire
  <2>2. held' \in [DOMAIN held \ FallenDue(held) -> Nat]
    BY <2>1 DEF LeaseTypeOK, LetGo, Restrict
  <2>3. QED
    BY <1>4, <2>2 DEF Expire, LeaseTypeOK
<1>5. ASSUME Tick PROVE LeaseTypeOK'
  BY <1>5 DEF Tick, LeaseTypeOK
<1>6. QED
  BY <1>1, <1>2, <1>3, <1>4, <1>5

-----------------------------------------------------------------------------
(* Types.                                                                  *)

LEMMA InitTypes == RouteInit => RouteTypeOK
<1> SUFFICES ASSUME RouteInit PROVE RouteTypeOK
  OBVIOUS
<1>1. LeaseTypeOK
  <2>1. DOMAIN held = {}
    BY DEF RouteInit, LeaseInit
  <2>2. left \in Seq(Record)
    BY DEF RouteInit, LeaseInit
  <2>3. QED
    BY <2>1, <2>2 DEF RouteInit, LeaseInit, LeaseTypeOK
<1>2. NoRequest \in Request
  BY DEF NoRequest, Request
<1>3. QED
  BY <1>1, <1>2 DEF RouteInit, RouteTypeOK, Support

LEMMA TypesKept == RouteTypeOK /\ [Next]_vars => RouteTypeOK'
<1> SUFFICES ASSUME RouteTypeOK, [Next]_vars PROVE RouteTypeOK'
  OBVIOUS
<1>1. ASSUME NEW p \in Pipes, NEW req \in Request, AskFamily(p, req)
      PROVE  RouteTypeOK'
  BY <1>1 DEF AskFamily, RouteTypeOK, LeaseTypeOK, leaseVars, Goto, Request, Proc
<1>2. ASSUME NEW p \in Pipes, AskSet(p)
      PROVE  RouteTypeOK'
  BY <1>2 DEF AskSet, RouteTypeOK, LeaseTypeOK, leaseVars, Goto, Request, Proc
<1>3. ASSUME NEW p \in Pipes, NEW via \in SUBSET Resolvers, InstallPolicy(p, via)
      PROVE  RouteTypeOK'
  BY <1>3, RoutingAssumption DEF InstallPolicy, RouteTypeOK, LeaseTypeOK, leaseVars, Goto, Proc
<1>4. ASSUME NEW result \in {"Carries", "DoesNot"}, Measure(result)
      PROVE  RouteTypeOK'
  BY <1>4 DEF Measure, RouteTypeOK, LeaseTypeOK, leaseVars, Goto, Support, Proc
<1>5. ASSUME NEW c \in Callers, NEW answer \in Answers, Learn(c, answer)
      PROVE  RouteTypeOK'
  <2>1. LeaseTypeOK'
    BY <1>5, LeaseStepTypes DEF Learn, RouteTypeOK
  <2>2. QED
    BY <1>5, <2>1 DEF Learn, RouteTypeOK, routeVars, Goto, Proc
<1>6. ASSUME NEW c \in Callers, LearnOne(c)
      PROVE  RouteTypeOK'
  <2>1. LeaseTypeOK'
    BY <1>6, TakeInEffect DEF LearnOne, RouteTypeOK
  <2>2. QED
    BY <1>6, <2>1 DEF LearnOne, RouteTypeOK, routeVars, Goto, Proc
<1>7. ASSUME NEW c \in Callers, Learned(c)
      PROVE  RouteTypeOK'
  <2>1. LeaseTypeOK'
    BY <1>7, LeaseStepTypes DEF Learned, RouteTypeOK
  <2>2. QED
    BY <1>7, <2>1 DEF Learned, RouteTypeOK, routeVars, Goto, Proc
<1>8. ASSUME Sweep PROVE RouteTypeOK'
  <2>1. LeaseTypeOK'
    BY <1>8, LeaseStepTypes DEF Sweep, RouteTypeOK
  <2>2. QED
    BY <1>8, <2>1 DEF Sweep, RouteTypeOK, routeVars, Goto, Proc
<1>9. ASSUME NEW a \in Addresses, Carry(a)
      PROVE  RouteTypeOK'
  <2>1. LeaseTypeOK'
    BY <1>9, LeaseStepTypes DEF Carry, RouteTypeOK
  <2>2. QED
    BY <1>9, <2>1 DEF Carry, RouteTypeOK, routeVars, Goto, Proc
<1>10. ASSUME Pass PROVE RouteTypeOK'
  <2>1. LeaseTypeOK'
    BY <1>10, LeaseStepTypes DEF Pass, RouteTypeOK
  <2>2. QED
    BY <1>10, <2>1 DEF Pass, RouteTypeOK, routeVars, Goto, Proc
<1>11. ASSUME NEW p \in Proc, TakeLock(p)
      PROVE  RouteTypeOK'
  BY <1>11 DEF TakeLock, RouteTypeOK, LeaseTypeOK, leaseVars, Goto
<1>12. ASSUME NEW p \in Proc, ReadWants(p)
      PROVE  RouteTypeOK'
  BY <1>12 DEF ReadWants, RouteTypeOK, LeaseTypeOK, leaseVars, Goto
<1>13. ASSUME NEW p \in Proc, ReadSupport(p)
      PROVE  RouteTypeOK'
  BY <1>13 DEF ReadSupport, RouteTypeOK, LeaseTypeOK, leaseVars, Goto
<1>14. ASSUME NEW p \in Proc, ReadAsked(p)
      PROVE  RouteTypeOK'
  BY <1>14 DEF ReadAsked, RouteTypeOK, LeaseTypeOK, leaseVars, Goto
<1>15. ASSUME NEW p \in Proc, ReadLeases(p)
      PROVE  RouteTypeOK'
  BY <1>15, RoutingAssumption DEF ReadLeases, RouteTypeOK, LeaseTypeOK, leaseVars, Goto
<1>16. ASSUME NEW p \in Proc, NEW r \in Prefixes, RemoveRow(p, r)
      PROVE  RouteTypeOK'
  BY <1>16 DEF RemoveRow, RouteTypeOK, LeaseTypeOK, leaseVars, Goto, Going
<1>17. ASSUME NEW p \in Proc, NEW r \in Prefixes, AddRow(p, r)
      PROVE  RouteTypeOK'
  BY <1>17 DEF AddRow, RouteTypeOK, LeaseTypeOK, leaseVars, Goto, Coming
<1>18. ASSUME NEW p \in Proc, NEW r \in Prefixes, RefuseRow(p, r)
      PROVE  RouteTypeOK'
  BY <1>18 DEF RefuseRow, RouteTypeOK, LeaseTypeOK, leaseVars, Goto, Going, Coming
<1>19. ASSUME NEW p \in Proc, Release(p)
      PROVE  RouteTypeOK'
  BY <1>19 DEF Release, RouteTypeOK, LeaseTypeOK, leaseVars, Goto
<1>20. CASE UNCHANGED vars
  BY <1>20 DEF vars, leaseVars, routeVars, RouteTypeOK, LeaseTypeOK
<1>21. QED
  BY <1>1, <1>2, <1>3, <1>4, <1>5, <1>6, <1>7, <1>8, <1>9, <1>10, <1>11, <1>12, <1>13,
     <1>14, <1>15, <1>16, <1>17, <1>18, <1>19, <1>20
  DEF Next, Edit, Continue, Install

-----------------------------------------------------------------------------
(* The locks.                                                              *)

LEMMA InitLocks == RouteInit => LocksOK
  BY RoutingAssumption DEF RouteInit, LeaseInit, LocksOK, Holding, Proc

LEMMA LocksKept == RouteTypeOK /\ LocksOK /\ [Next]_vars => LocksOK'
<1> SUFFICES ASSUME RouteTypeOK, LocksOK, [Next]_vars PROVE LocksOK'
  OBVIOUS
<1>1. ASSUME NEW p \in Pipes, NEW req \in Request, AskFamily(p, req)
      PROVE  LocksOK'
  BY <1>1, RoutingAssumption
  DEF AskFamily, Goto, leaseVars, routeVars, Proc, RouteTypeOK, LocksOK, Holding
<1>2. ASSUME NEW p \in Pipes, AskSet(p)
      PROVE  LocksOK'
  BY <1>2, RoutingAssumption
  DEF AskSet, Goto, leaseVars, routeVars, Proc, RouteTypeOK, LocksOK, Holding
<1>3. ASSUME NEW p \in Pipes, NEW via \in SUBSET Resolvers, InstallPolicy(p, via)
      PROVE  LocksOK'
  BY <1>3, RoutingAssumption
  DEF InstallPolicy, Goto, leaseVars, routeVars, Proc, RouteTypeOK, LocksOK, Holding
<1>4. ASSUME NEW result \in {"Carries", "DoesNot"}, Measure(result)
      PROVE  LocksOK'
  BY <1>4, RoutingAssumption
  DEF Measure, Goto, leaseVars, routeVars, Proc, RouteTypeOK, LocksOK, Holding
<1>5. ASSUME NEW c \in Callers, NEW answer \in Answers, Learn(c, answer)
      PROVE  LocksOK'
  BY <1>5, RoutingAssumption
  DEF Learn, BeginRecord, Goto, routeVars, Proc, RouteTypeOK, LocksOK, Holding
<1>6. ASSUME NEW c \in Callers, LearnOne(c)
      PROVE  LocksOK'
  BY <1>6, RoutingAssumption
  DEF LearnOne, TakeIn, Goto, routeVars, Proc, RouteTypeOK, LocksOK, Holding
<1>7. ASSUME NEW c \in Callers, Learned(c)
      PROVE  LocksOK'
  BY <1>7, RoutingAssumption
  DEF Learned, EndRecord, Goto, routeVars, Proc, RouteTypeOK, LocksOK, Holding
<1>8. ASSUME Sweep PROVE LocksOK'
  BY <1>8, RoutingAssumption
  DEF Sweep, Expire, Goto, routeVars, Proc, RouteTypeOK, LocksOK, Holding
<1>9. ASSUME NEW a \in Addresses, Carry(a)
      PROVE  LocksOK'
  BY <1>9, RoutingAssumption
  DEF Carry, Touch, Goto, routeVars, Proc, RouteTypeOK, LocksOK, Holding
<1>10. ASSUME Pass PROVE LocksOK'
  BY <1>10, RoutingAssumption
  DEF Pass, Tick, Goto, routeVars, Proc, RouteTypeOK, LocksOK, Holding
<1>11. ASSUME NEW p \in Proc, TakeLock(p)
      PROVE  LocksOK'
  BY <1>11, RoutingAssumption
  DEF TakeLock, Goto, leaseVars, routeVars, Proc, RouteTypeOK, LocksOK, Holding
<1>12. ASSUME NEW p \in Proc, ReadWants(p)
      PROVE  LocksOK'
  BY <1>12, RoutingAssumption
  DEF ReadWants, Goto, leaseVars, routeVars, Proc, RouteTypeOK, LocksOK, Holding
<1>13. ASSUME NEW p \in Proc, ReadSupport(p)
      PROVE  LocksOK'
  BY <1>13, RoutingAssumption
  DEF ReadSupport, Goto, leaseVars, routeVars, Proc, RouteTypeOK, LocksOK, Holding
<1>14. ASSUME NEW p \in Proc, ReadAsked(p)
      PROVE  LocksOK'
  BY <1>14, RoutingAssumption
  DEF ReadAsked, Goto, leaseVars, routeVars, Proc, RouteTypeOK, LocksOK, Holding
<1>15. ASSUME NEW p \in Proc, ReadLeases(p)
      PROVE  LocksOK'
  BY <1>15, RoutingAssumption
  DEF ReadLeases, Goto, leaseVars, routeVars, Proc, RouteTypeOK, LocksOK, Holding
<1>16. ASSUME NEW p \in Proc, NEW r \in Prefixes, RemoveRow(p, r)
      PROVE  LocksOK'
  BY <1>16, RoutingAssumption
  DEF RemoveRow, Goto, leaseVars, routeVars, Proc, RouteTypeOK, LocksOK, Holding
<1>17. ASSUME NEW p \in Proc, NEW r \in Prefixes, AddRow(p, r)
      PROVE  LocksOK'
  BY <1>17, RoutingAssumption
  DEF AddRow, Goto, leaseVars, routeVars, Proc, RouteTypeOK, LocksOK, Holding
<1>18. ASSUME NEW p \in Proc, NEW r \in Prefixes, RefuseRow(p, r)
      PROVE  LocksOK'
  BY <1>18, RoutingAssumption
  DEF RefuseRow, Goto, leaseVars, routeVars, Proc, RouteTypeOK, LocksOK, Holding
<1>19. ASSUME NEW p \in Proc, Release(p)
      PROVE  LocksOK'
  BY <1>19, RoutingAssumption
  DEF Release, Goto, leaseVars, routeVars, Proc, RouteTypeOK, LocksOK, Holding
<1>20. CASE UNCHANGED vars
  BY <1>20 DEF vars, leaseVars, routeVars, LocksOK, Holding
<1>21. QED
  BY <1>1, <1>2, <1>3, <1>4, <1>5, <1>6, <1>7, <1>8, <1>9, <1>10, <1>11, <1>12,
     <1>13, <1>14, <1>15, <1>16, <1>17, <1>18, <1>19, <1>20
  DEF Next, Edit, Continue, Install

-----------------------------------------------------------------------------
(* The readings of the pass under way, and agreement when there is none.   *)

LEMMA ReadingsKept == IInv /\ [Next]_vars => ReadingsFresh'
<1> SUFFICES ASSUME RouteTypeOK, LocksOK, ReadingsFresh, AgreesUnlessOwed, [Next]_vars
             PROVE  ReadingsFresh'
  BY DEF IInv
<1>1. ASSUME NEW p \in Pipes, NEW req \in Request, AskFamily(p, req)
      PROVE  ReadingsFresh'
  BY <1>1 DEF AskFamily, Goto, Proc, RouteTypeOK, ReadingsFresh, NobodyOwes, Owes
<1>2. ASSUME NEW p \in Pipes, AskSet(p)
      PROVE  ReadingsFresh'
  BY <1>2 DEF AskSet, Goto, Proc, RouteTypeOK, ReadingsFresh, NobodyOwes, Owes
<1>3. ASSUME NEW p \in Pipes, NEW via \in SUBSET Resolvers, InstallPolicy(p, via)
      PROVE  ReadingsFresh'
  BY <1>3 DEF InstallPolicy, Goto, Proc, RouteTypeOK, ReadingsFresh, NobodyOwes, Owes
<1>4. ASSUME NEW result \in {"Carries", "DoesNot"}, Measure(result)
      PROVE  ReadingsFresh'
  BY <1>4 DEF Measure, Goto, Proc, RouteTypeOK, ReadingsFresh, NobodyOwes, Owes
<1>5. ASSUME NEW c \in Callers, NEW answer \in Answers, Learn(c, answer)
      PROVE  ReadingsFresh'
  <2>1. CASE DOMAIN held' = DOMAIN held
    BY <1>5, <2>1, RoutingAssumption
    DEF Learn, BeginRecord, routeVars, Goto, Proc, RouteTypeOK, LocksOK, Holding,
      ReadingsFresh, AgreesUnlessOwed, NobodyOwes, Owes,
      Union, Routable, Astray
  <2>2. QED
    BY <1>5, <2>1 DEF Learn, BeginRecord, RouteTypeOK
<1>6. ASSUME NEW c \in Callers, LearnOne(c)
      PROVE  ReadingsFresh'
  <2>1. CASE DOMAIN held' = DOMAIN held
    BY <1>6, <2>1, RoutingAssumption
    DEF LearnOne, TakeIn, routeVars, Goto, Proc, RouteTypeOK, LocksOK, Holding,
      ReadingsFresh, AgreesUnlessOwed, NobodyOwes, Owes,
      Union, Routable, Astray
  <2>2. CASE DOMAIN held' # DOMAIN held
    BY <1>6, <2>2, RoutingAssumption, TakeInEffect
    DEF LearnOne, TakeIn, routeVars, Goto, Proc, RouteTypeOK, LocksOK, Holding,
      ReadingsFresh, AgreesUnlessOwed, NobodyOwes, Owes
  <2>3. QED
    BY <2>1, <2>2
<1>7. ASSUME NEW c \in Callers, Learned(c)
      PROVE  ReadingsFresh'
  <2>1. CASE DOMAIN held' = DOMAIN held
    BY <1>7, <2>1, RoutingAssumption
    DEF Learned, EndRecord, routeVars, Goto, Proc, RouteTypeOK, LocksOK, Holding,
      ReadingsFresh, AgreesUnlessOwed, NobodyOwes, Owes,
      Union, Routable, Astray
  <2>2. QED
    BY <1>7, <2>1 DEF Learned, EndRecord, RouteTypeOK
<1>8. ASSUME Sweep PROVE ReadingsFresh'
  <2>1. CASE DOMAIN held' = DOMAIN held
    BY <1>8, <2>1, RoutingAssumption
    DEF Sweep, Expire, routeVars, Goto, Proc, RouteTypeOK, LocksOK, Holding,
      ReadingsFresh, AgreesUnlessOwed, NobodyOwes, Owes,
      Union, Routable, Astray
  <2>2. CASE DOMAIN held' # DOMAIN held
    BY <1>8, <2>2, RoutingAssumption
    DEF Sweep, Expire, routeVars, Goto, Proc, RouteTypeOK, LocksOK, Holding,
      ReadingsFresh, AgreesUnlessOwed, NobodyOwes, Owes
  <2>3. QED
    BY <2>1, <2>2
<1>9. ASSUME NEW a \in Addresses, Carry(a)
      PROVE  ReadingsFresh'
  <2>1. CASE DOMAIN held' = DOMAIN held
    BY <1>9, <2>1, RoutingAssumption
    DEF Carry, Touch, routeVars, Goto, Proc, RouteTypeOK, LocksOK, Holding,
      ReadingsFresh, AgreesUnlessOwed, NobodyOwes, Owes,
      Union, Routable, Astray
  <2>2. QED
    BY <1>9, <2>1, LeaseStepTypes DEF Carry, Touch, RouteTypeOK
<1>10. ASSUME Pass PROVE ReadingsFresh'
  <2>1. CASE DOMAIN held' = DOMAIN held
    BY <1>10, <2>1, RoutingAssumption
    DEF Pass, Tick, routeVars, Goto, Proc, RouteTypeOK, LocksOK, Holding,
      ReadingsFresh, AgreesUnlessOwed, NobodyOwes, Owes,
      Union, Routable, Astray
  <2>2. QED
    BY <1>10, <2>1 DEF Pass, Tick, RouteTypeOK
<1>11. ASSUME NEW p \in Proc, TakeLock(p)
      PROVE  ReadingsFresh'
  BY <1>11, RoutingAssumption
  DEF TakeLock, leaseVars, routeVars, Goto, Proc, RouteTypeOK, LocksOK, Holding,
      ReadingsFresh, AgreesUnlessOwed, NobodyOwes, Owes,
      Union, Routable, Astray
<1>12. ASSUME NEW p \in Proc, ReadWants(p)
      PROVE  ReadingsFresh'
  BY <1>12, RoutingAssumption
  DEF ReadWants, leaseVars, routeVars, Goto, Proc, RouteTypeOK, LocksOK, Holding,
      ReadingsFresh, AgreesUnlessOwed, NobodyOwes, Owes,
      Union, Routable, Astray
<1>13. ASSUME NEW p \in Proc, ReadSupport(p)
      PROVE  ReadingsFresh'
  BY <1>13, RoutingAssumption
  DEF ReadSupport, leaseVars, routeVars, Goto, Proc, RouteTypeOK, LocksOK, Holding,
      ReadingsFresh, AgreesUnlessOwed, NobodyOwes, Owes,
      Union, Routable, Astray
<1>14. ASSUME NEW p \in Proc, ReadAsked(p)
      PROVE  ReadingsFresh'
  BY <1>14, RoutingAssumption
  DEF ReadAsked, leaseVars, routeVars, Goto, Proc, RouteTypeOK, LocksOK, Holding,
      ReadingsFresh, AgreesUnlessOwed, NobodyOwes, Owes,
      Union, Routable, Astray
<1>15. ASSUME NEW p \in Proc, ReadLeases(p)
      PROVE  ReadingsFresh'
  BY <1>15, RoutingAssumption
  DEF ReadLeases, leaseVars, routeVars, Goto, Proc, RouteTypeOK, LocksOK, Holding,
      ReadingsFresh, AgreesUnlessOwed, NobodyOwes, Owes,
      Union, Routable, Astray
<1>16. ASSUME NEW p \in Proc, NEW r \in Prefixes, RemoveRow(p, r)
      PROVE  ReadingsFresh'
  BY <1>16, RoutingAssumption
  DEF RemoveRow, leaseVars, routeVars, Goto, Proc, RouteTypeOK, LocksOK, Holding,
      ReadingsFresh, AgreesUnlessOwed, NobodyOwes, Owes,
      Union, Routable, Astray, Going
<1>17. ASSUME NEW p \in Proc, NEW r \in Prefixes, AddRow(p, r)
      PROVE  ReadingsFresh'
  BY <1>17, RoutingAssumption
  DEF AddRow, leaseVars, routeVars, Goto, Proc, RouteTypeOK, LocksOK, Holding,
      ReadingsFresh, AgreesUnlessOwed, NobodyOwes, Owes,
      Union, Routable, Astray, Coming
<1>18. ASSUME NEW p \in Proc, NEW r \in Prefixes, RefuseRow(p, r)
      PROVE  ReadingsFresh'
  BY <1>18, RoutingAssumption
  DEF RefuseRow, leaseVars, routeVars, Goto, Proc, RouteTypeOK, LocksOK, Holding,
      ReadingsFresh, AgreesUnlessOwed, NobodyOwes, Owes,
      Union, Routable, Astray, Going, Coming
<1>19. ASSUME NEW p \in Proc, Release(p)
      PROVE  ReadingsFresh'
  BY <1>19, RoutingAssumption
  DEF Release, leaseVars, routeVars, Goto, Proc, RouteTypeOK, LocksOK, Holding,
      ReadingsFresh, AgreesUnlessOwed, NobodyOwes, Owes,
      Union, Routable, Astray, Going, Coming
<1>20. CASE UNCHANGED vars
  BY <1>20 DEF vars, leaseVars, routeVars, ReadingsFresh, ReadingsFresh, NobodyOwes, Owes,
       Union, Routable, Astray
<1>21. QED
  BY <1>1, <1>2, <1>3, <1>4, <1>5, <1>6, <1>7, <1>8, <1>9, <1>10, <1>11, <1>12,
     <1>13, <1>14, <1>15, <1>16, <1>17, <1>18, <1>19, <1>20
  DEF Next, Edit, Continue, Install

LEMMA AgreementKept == IInv /\ [Next]_vars => AgreesUnlessOwed'
<1> SUFFICES ASSUME RouteTypeOK, LocksOK, ReadingsFresh, AgreesUnlessOwed, [Next]_vars
             PROVE  AgreesUnlessOwed'
  BY DEF IInv
<1>1. ASSUME NEW p \in Pipes, NEW req \in Request, AskFamily(p, req)
      PROVE  AgreesUnlessOwed'
  BY <1>1 DEF AskFamily, Goto, Proc, RouteTypeOK, AgreesUnlessOwed, NobodyOwes, Owes
<1>2. ASSUME NEW p \in Pipes, AskSet(p)
      PROVE  AgreesUnlessOwed'
  BY <1>2 DEF AskSet, Goto, Proc, RouteTypeOK, AgreesUnlessOwed, NobodyOwes, Owes
<1>3. ASSUME NEW p \in Pipes, NEW via \in SUBSET Resolvers, InstallPolicy(p, via)
      PROVE  AgreesUnlessOwed'
  BY <1>3 DEF InstallPolicy, Goto, Proc, RouteTypeOK, AgreesUnlessOwed, NobodyOwes, Owes
<1>4. ASSUME NEW result \in {"Carries", "DoesNot"}, Measure(result)
      PROVE  AgreesUnlessOwed'
  BY <1>4 DEF Measure, Goto, Proc, RouteTypeOK, AgreesUnlessOwed, NobodyOwes, Owes
<1>5. ASSUME NEW c \in Callers, NEW answer \in Answers, Learn(c, answer)
      PROVE  AgreesUnlessOwed'
  <2>1. CASE DOMAIN held' = DOMAIN held
    BY <1>5, <2>1, RoutingAssumption
    DEF Learn, BeginRecord, routeVars, Goto, Proc, RouteTypeOK, LocksOK, Holding,
      ReadingsFresh, AgreesUnlessOwed, NobodyOwes, Owes,
      Union, Routable, Astray
  <2>2. QED
    BY <1>5, <2>1 DEF Learn, BeginRecord, RouteTypeOK
<1>6. ASSUME NEW c \in Callers, LearnOne(c)
      PROVE  AgreesUnlessOwed'
  <2>1. CASE DOMAIN held' = DOMAIN held
    BY <1>6, <2>1, RoutingAssumption
    DEF LearnOne, TakeIn, routeVars, Goto, Proc, RouteTypeOK, LocksOK, Holding,
      ReadingsFresh, AgreesUnlessOwed, NobodyOwes, Owes,
      Union, Routable, Astray
  <2>2. CASE DOMAIN held' # DOMAIN held
    BY <1>6, <2>2, RoutingAssumption, TakeInEffect
    DEF LearnOne, TakeIn, routeVars, Goto, Proc, RouteTypeOK, LocksOK, Holding,
      ReadingsFresh, AgreesUnlessOwed, NobodyOwes, Owes
  <2>3. QED
    BY <2>1, <2>2
<1>7. ASSUME NEW c \in Callers, Learned(c)
      PROVE  AgreesUnlessOwed'
  <2>1. CASE DOMAIN held' = DOMAIN held
    BY <1>7, <2>1, RoutingAssumption
    DEF Learned, EndRecord, routeVars, Goto, Proc, RouteTypeOK, LocksOK, Holding,
      ReadingsFresh, AgreesUnlessOwed, NobodyOwes, Owes,
      Union, Routable, Astray
  <2>2. QED
    BY <1>7, <2>1 DEF Learned, EndRecord, RouteTypeOK
<1>8. ASSUME Sweep PROVE AgreesUnlessOwed'
  <2>1. CASE DOMAIN held' = DOMAIN held
    BY <1>8, <2>1, RoutingAssumption
    DEF Sweep, Expire, routeVars, Goto, Proc, RouteTypeOK, LocksOK, Holding,
      ReadingsFresh, AgreesUnlessOwed, NobodyOwes, Owes,
      Union, Routable, Astray
  <2>2. CASE DOMAIN held' # DOMAIN held
    BY <1>8, <2>2, RoutingAssumption
    DEF Sweep, Expire, routeVars, Goto, Proc, RouteTypeOK, LocksOK, Holding,
      ReadingsFresh, AgreesUnlessOwed, NobodyOwes, Owes
  <2>3. QED
    BY <2>1, <2>2
<1>9. ASSUME NEW a \in Addresses, Carry(a)
      PROVE  AgreesUnlessOwed'
  <2>1. CASE DOMAIN held' = DOMAIN held
    BY <1>9, <2>1, RoutingAssumption
    DEF Carry, Touch, routeVars, Goto, Proc, RouteTypeOK, LocksOK, Holding,
      ReadingsFresh, AgreesUnlessOwed, NobodyOwes, Owes,
      Union, Routable, Astray
  <2>2. QED
    BY <1>9, <2>1, LeaseStepTypes DEF Carry, Touch, RouteTypeOK
<1>10. ASSUME Pass PROVE AgreesUnlessOwed'
  <2>1. CASE DOMAIN held' = DOMAIN held
    BY <1>10, <2>1, RoutingAssumption
    DEF Pass, Tick, routeVars, Goto, Proc, RouteTypeOK, LocksOK, Holding,
      ReadingsFresh, AgreesUnlessOwed, NobodyOwes, Owes,
      Union, Routable, Astray
  <2>2. QED
    BY <1>10, <2>1 DEF Pass, Tick, RouteTypeOK
<1>11. ASSUME NEW p \in Proc, TakeLock(p)
      PROVE  AgreesUnlessOwed'
  BY <1>11, RoutingAssumption
  DEF TakeLock, leaseVars, routeVars, Goto, Proc, RouteTypeOK, LocksOK, Holding,
      ReadingsFresh, AgreesUnlessOwed, NobodyOwes, Owes,
      Union, Routable, Astray
<1>12. ASSUME NEW p \in Proc, ReadWants(p)
      PROVE  AgreesUnlessOwed'
  BY <1>12, RoutingAssumption
  DEF ReadWants, leaseVars, routeVars, Goto, Proc, RouteTypeOK, LocksOK, Holding,
      ReadingsFresh, AgreesUnlessOwed, NobodyOwes, Owes,
      Union, Routable, Astray
<1>13. ASSUME NEW p \in Proc, ReadSupport(p)
      PROVE  AgreesUnlessOwed'
  BY <1>13, RoutingAssumption
  DEF ReadSupport, leaseVars, routeVars, Goto, Proc, RouteTypeOK, LocksOK, Holding,
      ReadingsFresh, AgreesUnlessOwed, NobodyOwes, Owes,
      Union, Routable, Astray
<1>14. ASSUME NEW p \in Proc, ReadAsked(p)
      PROVE  AgreesUnlessOwed'
  BY <1>14, RoutingAssumption
  DEF ReadAsked, leaseVars, routeVars, Goto, Proc, RouteTypeOK, LocksOK, Holding,
      ReadingsFresh, AgreesUnlessOwed, NobodyOwes, Owes,
      Union, Routable, Astray
<1>15. ASSUME NEW p \in Proc, ReadLeases(p)
      PROVE  AgreesUnlessOwed'
  BY <1>15, RoutingAssumption
  DEF ReadLeases, leaseVars, routeVars, Goto, Proc, RouteTypeOK, LocksOK, Holding,
      ReadingsFresh, AgreesUnlessOwed, NobodyOwes, Owes,
      Union, Routable, Astray
<1>16. ASSUME NEW p \in Proc, NEW r \in Prefixes, RemoveRow(p, r)
      PROVE  AgreesUnlessOwed'
  BY <1>16, RoutingAssumption
  DEF RemoveRow, leaseVars, routeVars, Goto, Proc, RouteTypeOK, LocksOK, Holding,
      ReadingsFresh, AgreesUnlessOwed, NobodyOwes, Owes,
      Union, Routable, Astray, Going
<1>17. ASSUME NEW p \in Proc, NEW r \in Prefixes, AddRow(p, r)
      PROVE  AgreesUnlessOwed'
  BY <1>17, RoutingAssumption
  DEF AddRow, leaseVars, routeVars, Goto, Proc, RouteTypeOK, LocksOK, Holding,
      ReadingsFresh, AgreesUnlessOwed, NobodyOwes, Owes,
      Union, Routable, Astray, Coming
<1>18. ASSUME NEW p \in Proc, NEW r \in Prefixes, RefuseRow(p, r)
      PROVE  AgreesUnlessOwed'
  BY <1>18, RoutingAssumption
  DEF RefuseRow, leaseVars, routeVars, Goto, Proc, RouteTypeOK, LocksOK, Holding,
      ReadingsFresh, AgreesUnlessOwed, NobodyOwes, Owes,
      Union, Routable, Astray, Going, Coming
<1>19. ASSUME NEW p \in Proc, Release(p)
      PROVE  AgreesUnlessOwed'
  BY <1>19, RoutingAssumption
  DEF Release, leaseVars, routeVars, Goto, Proc, RouteTypeOK, LocksOK, Holding,
      ReadingsFresh, AgreesUnlessOwed, NobodyOwes, Owes,
      Union, Routable, Astray, Going, Coming
<1>20. CASE UNCHANGED vars
  BY <1>20 DEF vars, leaseVars, routeVars, AgreesUnlessOwed, ReadingsFresh, NobodyOwes, Owes,
       Union, Routable, Astray
<1>21. QED
  BY <1>1, <1>2, <1>3, <1>4, <1>5, <1>6, <1>7, <1>8, <1>9, <1>10, <1>11, <1>12,
     <1>13, <1>14, <1>15, <1>16, <1>17, <1>18, <1>19, <1>20
  DEF Next, Edit, Continue, Install

-----------------------------------------------------------------------------
(* The theorems.                                                           *)

LEMMA InitIInv == RouteInit => IInv
<1> SUFFICES ASSUME RouteInit PROVE IInv
  OBVIOUS
<1>1. RouteTypeOK /\ LocksOK
  BY InitTypes, InitLocks
<1>2. ReadingsFresh
  BY DEF ReadingsFresh, RouteInit
<1>3. AgreesUnlessOwed
  BY DEF AgreesUnlessOwed, Astray, Union, RouteInit, LeaseInit
<1>4. QED
  BY <1>1, <1>2, <1>3 DEF IInv

\* The inductive invariant: types, locks, what a pass has read and what the
\* table holds, as every step of every task keeps them.
THEOREM Invariance == Spec => []IInv
<1>1. IInv /\ [Next]_vars => IInv'
  BY TypesKept, LocksKept, ReadingsKept, AgreementKept DEF IInv
<1>2. QED
  BY InitIInv, <1>1, PTL DEF Spec

\* Every variable of the routing keeps its type.
THEOREM TypeCorrect == Spec => []RouteTypeOK
<1>1. IInv => RouteTypeOK
  BY DEF IInv
<1>2. QED
  BY Invariance, <1>1, PTL

\* install_union and its callers: whenever every task has finished, the rows
\* installed are what is due, less those Windows refused in the latest pass.
THEOREM Agreement == Spec => []AgreesAtRest
<1>1. IInv => AgreesAtRest
  <2> SUFFICES ASSUME IInv, ~Busy PROVE Astray \subseteq refused
    BY DEF AgreesAtRest
  <2>1. \A p \in Proc : pc[p] = "idle"
    BY DEF Busy
  <2>2. NobodyOwes
    BY <2>1 DEF NobodyOwes, Owes
  <2>3. holder = Nobody
    BY <2>1 DEF IInv, LocksOK, Holding, RouteTypeOK
  <2>4. QED
    BY <2>2, <2>3 DEF IInv, AgreesUnlessOwed
<1>2. QED
  BY Invariance, <1>1, PTL

\* Only these two steps touch the table, and they touch both sets alike.
LEMMA TableMovesWithInstalled ==
  ASSUME [Next]_vars
  PROVE  \/ UNCHANGED <<installed, table>>
         \/ \E r \in Prefixes : installed' = installed \ {r} /\ table' = table \ {r}
         \/ \E r \in Prefixes : installed' = installed \cup {r} /\ table' = table \cup {r}
<1>1. CASE UNCHANGED vars
  BY <1>1 DEF vars, routeVars
<1>2. CASE \E p \in Proc, r \in Prefixes : RemoveRow(p, r) \/ AddRow(p, r)
  BY <1>2 DEF RemoveRow, AddRow
<1>3. CASE Edit \/ (\E a \in Addresses : Carry(a)) \/ Pass
  BY <1>3 DEF Edit, AskFamily, InstallPolicy, Measure, Learn, Sweep, Carry, Pass, routeVars
<1>4. CASE \E p \in Proc :
             \/ AskSet(p) \/ LearnOne(p) \/ Learned(p) \/ TakeLock(p) \/ ReadWants(p)
             \/ ReadSupport(p) \/ ReadAsked(p) \/ ReadLeases(p) \/ Release(p)
             \/ \E r \in Prefixes : RefuseRow(p, r)
  BY <1>4 DEF AskSet, LearnOne, Learned, TakeLock, ReadWants, ReadSupport, ReadAsked,
       ReadLeases, Release, RefuseRow, routeVars
<1>5. QED
  BY <1>1, <1>2, <1>3, <1>4 DEF Next, Continue, Install

\* Routes::apply: what the core believes installed is on the adapter, and
\* nothing else but rows it never put there, whatever Windows refuses.
THEOREM Bookkeeping == Spec => []BookkeepingIsExact
<1>1. RouteInit => BookkeepingIsExact
  BY DEF RouteInit, BookkeepingIsExact
<1>2. BookkeepingIsExact /\ [Next]_vars => BookkeepingIsExact'
  BY TableMovesWithInstalled DEF BookkeepingIsExact
<1>3. QED
  BY <1>1, <1>2, PTL DEF Spec

-----------------------------------------------------------------------------
(* Routing implements RouteSet.                                            *)

\* A step that moves no row and meets no refusal either leaves work to do or
\* changes nothing that is due.
LEMMA QuietSteps ==
  ASSUME IInv, Next,
         ~ \E p \in Proc : \/ ReadLeases(p)
                           \/ \E r \in Prefixes : RemoveRow(p, r) \/ AddRow(p, r) \/ RefuseRow(p, r)
  PROVE  /\ UNCHANGED <<installed, refused>>
         /\ Busy' \/ Union' = Union
<1> USE DEF IInv, RouteTypeOK
<1>1. ASSUME NEW p \in Pipes, NEW req \in Request, AskFamily(p, req)
      PROVE  UNCHANGED <<installed, refused>> /\ Busy'
  BY <1>1 DEF AskFamily, Goto, Busy, Proc
<1>2. ASSUME NEW p \in Pipes, AskSet(p) PROVE UNCHANGED <<installed, refused>> /\ Busy'
  BY <1>2 DEF AskSet, Goto, Busy, Proc
<1>3. ASSUME NEW p \in Pipes, NEW via \in SUBSET Resolvers, InstallPolicy(p, via)
      PROVE  UNCHANGED <<installed, refused>> /\ Busy'
  BY <1>3 DEF InstallPolicy, Goto, Busy, Proc
<1>4. ASSUME NEW result \in {"Carries", "DoesNot"}, Measure(result)
      PROVE  UNCHANGED <<installed, refused>> /\ Busy'
  BY <1>4 DEF Measure, Goto, Busy, Proc
<1>5. ASSUME NEW c \in Callers, NEW answer \in Answers, Learn(c, answer)
      PROVE  UNCHANGED <<installed, refused>> /\ Busy'
  BY <1>5 DEF Learn, Goto, Busy, Proc
<1>6. ASSUME NEW c \in Callers, LearnOne(c) PROVE UNCHANGED <<installed, refused>> /\ Busy'
  <2>1. pc[c] = "record" /\ c \in Proc
    BY <1>6 DEF LearnOne, TakeIn, LocksOK, Proc
  <2>2. QED
    BY <1>6, <2>1 DEF LearnOne, routeVars, Busy
<1>7. ASSUME NEW c \in Callers, Learned(c)
      PROVE  UNCHANGED <<installed, refused>> /\ Union' = Union
  BY <1>7 DEF Learned, EndRecord, Union, Routable
<1>8. ASSUME Sweep PROVE UNCHANGED <<installed, refused>> /\ (Busy' \/ Union' = Union)
  <2>1. CASE DOMAIN held' = DOMAIN held
    BY <1>8, <2>1 DEF Sweep, Union, Routable
  <2>2. CASE DOMAIN held' # DOMAIN held
    BY <1>8, <2>2 DEF Sweep, Goto, Busy, Proc
  <2>3. QED
    BY <2>1, <2>2
<1>9. ASSUME NEW a \in Addresses, Carry(a)
      PROVE  UNCHANGED <<installed, refused>> /\ Union' = Union
  BY <1>9, LeaseStepTypes DEF Carry, routeVars, Union, Routable
<1>10. ASSUME Pass PROVE UNCHANGED <<installed, refused>> /\ Union' = Union
  BY <1>10 DEF Pass, Tick, routeVars, Union, Routable
<1>11. ASSUME NEW p \in Proc,
              TakeLock(p) \/ ReadWants(p) \/ ReadSupport(p) \/ ReadAsked(p) \/ Release(p)
       PROVE  UNCHANGED <<installed, refused>> /\ Union' = Union
  BY <1>11 DEF TakeLock, ReadWants, ReadSupport, ReadAsked, Release, leaseVars, Union, Routable
<1>12. QED
  BY <1>1, <1>2, <1>3, <1>4, <1>5, <1>6, <1>7, <1>8, <1>9, <1>10, <1>11
  DEF Next, Edit, Continue, Install

LEMMA StepsKeepPromise ==
  IInv /\ IInv' /\ [Next]_vars => [Promise!SetNext]_(Promise!setVars)
<1> SUFFICES ASSUME IInv, IInv', [Next]_vars
             PROVE  Promise!SetNext \/ UNCHANGED Promise!setVars
  OBVIOUS
<1> DEFINE Moves(p) == \E r \in Prefixes : RemoveRow(p, r) \/ AddRow(p, r)
           Refuses(p) == ReadLeases(p) \/ \E r \in Prefixes : RefuseRow(p, r)
<1>1. Union \in SUBSET Prefixes /\ Union' \in SUBSET Prefixes
  BY RoutingAssumption DEF IInv, RouteTypeOK, LeaseTypeOK, Union
<1>2. CASE UNCHANGED vars
  BY <1>2 DEF vars, leaseVars, routeVars, Promise!setVars, Union, Routable, Busy
<1>3. CASE \E p \in Proc : Moves(p)
  <2>1. PICK p \in Proc, r \in Prefixes : RemoveRow(p, r) \/ AddRow(p, r)
    BY <1>3
  <2>2. Busy /\ Busy' /\ Union' = Union /\ UNCHANGED refused
    BY <2>1 DEF RemoveRow, AddRow, leaseVars, Busy, Union, Routable
  <2>3. Promise!MoveOne
    BY <2>1, <2>2 DEF RemoveRow, AddRow, Promise!MoveOne
  <2>4. QED
    BY <2>3 DEF Promise!SetNext
<1>4. CASE \E p \in Proc : Refuses(p)
  <2>1. PICK p \in Proc : Refuses(p)
    BY <1>4
  <2>2. Busy
    BY <2>1 DEF ReadLeases, RefuseRow, Busy
  <2>3. Busy' /\ Union' = Union /\ UNCHANGED installed
    BY <2>1 DEF ReadLeases, RefuseRow, leaseVars, Goto, Busy, Union, Routable, IInv, RouteTypeOK
  <2>4. refused' \in SUBSET Prefixes
    BY DEF IInv, RouteTypeOK
  <2>5. Promise!Refuse
    BY <2>2, <2>3, <2>4 DEF Promise!Refuse
  <2>6. QED
    BY <2>5 DEF Promise!SetNext
<1>5. CASE Next /\ ~(\E p \in Proc : Moves(p) \/ Refuses(p))
  <2>1. UNCHANGED <<installed, refused>> /\ (Busy' \/ Union' = Union)
    BY <1>5, QuietSteps
  <2>2. CASE Busy'
    BY <1>1, <2>1, <2>2 DEF Promise!SetNext, Promise!Disturb
  <2>3. CASE ~Busy' /\ Busy
    <3>1. AgreesAtRest'
      <4>1. \A p \in Proc : pc'[p] = "idle"
        BY <2>3 DEF Busy
      <4>2. NobodyOwes' /\ holder' = Nobody
        BY <4>1 DEF NobodyOwes, Owes, IInv, LocksOK, Holding, RouteTypeOK
      <4>3. QED
        BY <4>2 DEF AgreesAtRest, IInv, AgreesUnlessOwed
    <3>2. Promise!Differ \subseteq refused
      BY <2>1, <2>3, <3>1 DEF AgreesAtRest, Astray, Promise!Differ
    <3>3. QED
      BY <2>1, <2>3, <3>2 DEF Promise!SetNext, Promise!ComeToRest
  <2>4. CASE ~Busy' /\ ~Busy
    BY <2>1, <2>4 DEF Promise!setVars
  <2>5. QED
    BY <2>2, <2>3, <2>4
<1>6. QED
  BY <1>2, <1>3, <1>4, <1>5

\* The routing of the core, with its locks, its separate readings and Windows'
\* refusals, implements the one-page promise of RouteSet.
THEOREM Refinement == Spec => KeepsPromise
<1>1. RouteInit => Promise!SetInit
  BY DEF RouteInit, LeaseInit, Promise!SetInit, Union, Busy
<1>2. QED
  BY <1>1, Invariance, StepsKeepPromise, PTL DEF Spec, KeepsPromise, Promise!SetSpec

-----------------------------------------------------------------------------
(* Neither half takes away what the other holds on to.                     *)

\* What has been asked for, or leased, all through the pass under way is due now,
\* and is in the union as far as the pass has put it together.
KeptAndRead ==
    /\ keptAsked \subseteq AskedNow /\ keptLeased \subseteq LeasedNow
    /\ \A p \in Proc :
        /\ pc[p] \in {"asked", "leases"} =>
               \A r \in keptAsked \cup keptLeased : carriesV6 \/ r \notin V6
        /\ pc[p] = "leases" => keptAsked \subseteq wanted
        /\ pc[p] = "apply" => keptAsked \cup keptLeased \subseteq wanted

\* A step that reads nothing, and neither takes nor gives back the lock, only
\* loses from the record.
LEMMA RecordOnlyLoses ==
  ASSUME KeptAndRead, HistNext, UNCHANGED <<holder, carriesV6, wanted>>,
         \A p \in Proc : pc'[p] \in {"asked", "leases", "apply"} => pc'[p] = pc[p]
  PROVE  KeptAndRead'
<1>1. /\ keptAsked' = keptAsked \cap AskedNow' /\ keptLeased' = keptLeased \cap LeasedNow'
  BY DEF HistNext, Since
<1>2. keptAsked' \subseteq keptAsked /\ keptLeased' \subseteq keptLeased
  BY <1>1
<1>3. QED
  BY <1>1, <1>2 DEF KeptAndRead

LEMMA RecordSteps ==
  ASSUME IInv, KeptAndRead, HistNext
  PROVE  KeptAndRead'
<1> USE DEF IInv, RouteTypeOK
<1>0. /\ keptAsked' \subseteq AskedNow' /\ keptLeased' \subseteq LeasedNow'
      /\ UNCHANGED holder => keptAsked' \subseteq keptAsked /\ keptLeased' \subseteq keptLeased
  BY DEF HistNext, Since
<1>1. ASSUME NEW p \in Pipes, NEW req \in Request, AskFamily(p, req) PROVE KeptAndRead'
  BY <1>1, RecordOnlyLoses DEF AskFamily, Goto, Proc
<1>2. ASSUME NEW p \in Pipes, AskSet(p) PROVE KeptAndRead'
  BY <1>2, RecordOnlyLoses DEF AskSet, Goto, Proc
<1>3. ASSUME NEW p \in Pipes, NEW via \in SUBSET Resolvers, InstallPolicy(p, via)
      PROVE  KeptAndRead'
  BY <1>3, RecordOnlyLoses DEF InstallPolicy, Goto, Proc
<1>4. ASSUME NEW result \in {"Carries", "DoesNot"}, Measure(result) PROVE KeptAndRead'
  BY <1>4, RecordOnlyLoses DEF Measure, Goto, Proc
<1>5. ASSUME NEW c \in Callers, NEW answer \in Answers, Learn(c, answer) PROVE KeptAndRead'
  BY <1>5, RecordOnlyLoses DEF Learn, Goto, Proc
<1>6. ASSUME NEW c \in Callers, LearnOne(c) PROVE KeptAndRead'
  BY <1>6, RecordOnlyLoses DEF LearnOne, routeVars
<1>7. ASSUME NEW c \in Callers, Learned(c) PROVE KeptAndRead'
  BY <1>7, RecordOnlyLoses DEF Learned, Goto, Proc
<1>8. ASSUME Sweep PROVE KeptAndRead'
  BY <1>8, RecordOnlyLoses DEF Sweep, Goto, Proc
<1>9. ASSUME NEW a \in Addresses, Carry(a) PROVE KeptAndRead'
  BY <1>9, RecordOnlyLoses DEF Carry, routeVars
<1>10. ASSUME Pass PROVE KeptAndRead'
  BY <1>10, RecordOnlyLoses DEF Pass, routeVars
<1>11. ASSUME NEW p \in Proc, TakeLock(p) PROVE KeptAndRead'
  <2>1. \A q \in Proc : pc'[q] \notin {"asked", "leases", "apply"}
    BY <1>11, RoutingAssumption DEF TakeLock, Goto, LocksOK, Holding
  <2>2. QED
    BY <1>0, <2>1 DEF KeptAndRead
<1>12. ASSUME NEW p \in Proc, Release(p) PROVE KeptAndRead'
  <2>1. \A q \in Proc : pc'[q] \notin {"asked", "leases", "apply"}
    BY <1>12, RoutingAssumption DEF Release, Goto, LocksOK, Holding
  <2>2. QED
    BY <1>0, <2>1 DEF KeptAndRead
<1>13. ASSUME NEW p \in Proc, ReadWants(p) \/ ReadSupport(p) \/ ReadAsked(p) \/ ReadLeases(p)
       PROVE  /\ \A q \in Proc : q # p => pc'[q] \notin {"asked", "leases", "apply"}
              /\ UNCHANGED <<holder, wants, support, asked, held>>
  BY <1>13, RoutingAssumption
  DEF ReadWants, ReadSupport, ReadAsked, ReadLeases, Goto, LocksOK, Holding, leaseVars
<1>14. ASSUME NEW p \in Proc, ReadWants(p) PROVE KeptAndRead'
  <2>1. pc'[p] \in {"support", "asked"} /\ (pc'[p] = "asked" => ~wants')
    BY <1>14 DEF ReadWants, Goto
  <2>2. ~wants' => \A r \in keptAsked' \cup keptLeased' : r \notin V6
    BY <1>0 DEF AskedNow, LeasedNow, Routable
  <2>3. QED
    BY <1>0, <1>13, <1>14, <2>1, <2>2 DEF KeptAndRead
<1>15. ASSUME NEW p \in Proc, ReadSupport(p) PROVE KeptAndRead'
  <2>1. pc'[p] = "asked" /\ carriesV6' = (support' = "Carries")
    BY <1>15 DEF ReadSupport, Goto
  <2>2. \A r \in keptAsked' \cup keptLeased' : carriesV6' \/ r \notin V6
    BY <1>0, <2>1 DEF AskedNow, LeasedNow, Routable
  <2>3. QED
    BY <1>0, <1>13, <1>15, <2>1, <2>2 DEF KeptAndRead
<1>16. ASSUME NEW p \in Proc, ReadAsked(p) PROVE KeptAndRead'
  <2>1. /\ pc[p] = "asked" /\ pc'[p] = "leases"
        /\ wanted' = asked' /\ carriesV6' = carriesV6
    BY <1>16 DEF ReadAsked, Goto
  <2>2. keptAsked' \subseteq wanted'
    BY <1>0, <2>1 DEF AskedNow
  <2>3. \A r \in keptAsked' \cup keptLeased' : carriesV6' \/ r \notin V6
    BY <1>0, <1>13, <1>16, <2>1 DEF KeptAndRead
  <2>4. QED
    BY <1>0, <1>13, <1>16, <2>1, <2>2, <2>3 DEF KeptAndRead
<1>17. ASSUME NEW p \in Proc, ReadLeases(p) PROVE KeptAndRead'
  <2>1. /\ pc[p] = "leases" /\ pc'[p] = "apply"
        /\ wanted' = {r \in wanted \cup DOMAIN held : carriesV6 \/ r \notin V6}
    BY <1>17 DEF ReadLeases, Goto
  <2>2. keptAsked' \subseteq wanted /\ keptLeased' \subseteq DOMAIN held
    BY <1>0, <1>13, <1>17, <2>1 DEF KeptAndRead, LeasedNow
  <2>3. \A r \in keptAsked' \cup keptLeased' : carriesV6 \/ r \notin V6
    BY <1>0, <1>13, <1>17, <2>1 DEF KeptAndRead
  <2>4. keptAsked' \cup keptLeased' \subseteq wanted'
    BY <2>1, <2>2, <2>3
  <2>5. QED
    BY <1>0, <1>13, <1>17, <2>1, <2>4 DEF KeptAndRead
<1>18. ASSUME NEW p \in Proc, NEW r \in Prefixes, RemoveRow(p, r) \/ AddRow(p, r) \/ RefuseRow(p, r)
       PROVE  KeptAndRead'
  BY <1>18, RecordOnlyLoses DEF RemoveRow, AddRow, RefuseRow
<1>19. QED
  BY <1>1, <1>2, <1>3, <1>4, <1>5, <1>6, <1>7, <1>8, <1>9, <1>10, <1>11, <1>12, <1>14,
     <1>15, <1>16, <1>17, <1>18
  DEF HistNext, Next, Edit, Continue, Install

\* Only a removal takes a row from the table, and it is of one not in the union.
LEMMA OnlyRemovalsTake ==
  ASSUME Next, NEW r \in table \ table'
  PROVE  \E p \in Proc : pc[p] = "apply" /\ r \notin wanted
<1>1. CASE \E p \in Proc, row \in Prefixes : RemoveRow(p, row)
  BY <1>1 DEF RemoveRow, Going
<1>2. CASE \E p \in Proc, row \in Prefixes : AddRow(p, row)
  BY <1>2 DEF AddRow
<1>3. CASE Edit \/ (\E a \in Addresses : Carry(a)) \/ Pass
  BY <1>3 DEF Edit, AskFamily, InstallPolicy, Measure, Learn, Sweep, Carry, Pass, routeVars
<1>4. CASE \E p \in Proc :
             \/ AskSet(p) \/ LearnOne(p) \/ Learned(p) \/ TakeLock(p) \/ ReadWants(p)
             \/ ReadSupport(p) \/ ReadAsked(p) \/ ReadLeases(p) \/ Release(p)
             \/ \E row \in Prefixes : RefuseRow(p, row)
  BY <1>4 DEF AskSet, LearnOne, Learned, TakeLock, ReadWants, ReadSupport, ReadAsked,
       ReadLeases, Release, RefuseRow, routeVars
<1>5. QED
  BY <1>1, <1>2, <1>3, <1>4 DEF Next, Continue, Install

\* install_union: a pass takes away no row that the application has asked for, or a
\* name has resolved to, all the time since the pass took the routing lock.
THEOREM NeitherErases == HistSpec => NeitherHalfErasesTheOther
<1>1. HistInit => RouteInit /\ KeptAndRead
  BY DEF HistInit, KeptAndRead, RouteInit
<1>2. [HistNext]_<<vars, kept>> => [Next]_vars
  BY DEF HistNext
<1>3. IInv /\ [Next]_vars => IInv'
  BY TypesKept, LocksKept, ReadingsKept, AgreementKept DEF IInv
<1>4. IInv /\ KeptAndRead /\ [HistNext]_<<vars, kept>> => KeptAndRead'
  <2>1. ASSUME KeptAndRead, UNCHANGED <<vars, kept>> PROVE KeptAndRead'
    BY <2>1 DEF KeptAndRead, vars, leaseVars, routeVars, kept, AskedNow, LeasedNow, Routable
  <2>2. QED
    BY <2>1, RecordSteps
<1>5. KeptAndRead /\ [HistNext]_<<vars, kept>>
        => [(keptAsked \cup keptLeased) \cap (table \ table') = {}]_<<vars, kept>>
  <2>1. ASSUME KeptAndRead, HistNext, NEW r \in keptAsked \cup keptLeased, r \in table \ table'
        PROVE  FALSE
    <3>1. PICK p \in Proc : pc[p] = "apply" /\ r \notin wanted
      BY <2>1, OnlyRemovalsTake DEF HistNext
    <3>2. QED
      BY <2>1, <3>1 DEF KeptAndRead
  <2>2. QED
    BY <2>1
<1>6. QED
  BY <1>1, <1>2, <1>3, <1>4, <1>5, InitIInv, PTL DEF HistSpec, NeitherHalfErasesTheOther

=============================================================================
