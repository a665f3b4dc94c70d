-------------------------- MODULE Resolver_proofs ---------------------------
(***************************************************************************)
(* Proofs about the resolver, for any datagrams, connections, permits,     *)
(* ports, processes and policies: its permits, its read guards and the     *)
(* line for its lock; that the arrangement of a policy decides as a walk   *)
(* over its rules would; that no question is asked from an address the     *)
(* line was known to have lost; and that the process a question is laid to *)
(* held its port.                                                          *)
(***************************************************************************)
EXTENDS MCResolver, SequenceTheorems, FiniteSetTheorems, WellFoundedInduction, TLAPS

-----------------------------------------------------------------------------
(* The policy.                                                              *)

\* A set of numbers has a least, and a bounded one a greatest.
LEMMA LeastThere ==
  ASSUME NEW S \in SUBSET Nat, S # {}
  PROVE  Min(S) \in S /\ \A y \in S : Min(S) <= y
<1>1. PICK x \in S : \A y \in S : <<y, x>> \notin OpToRel(<, Nat)
  BY NatLessThanWellFounded, WFMin
<1>2. \A y \in S : ~ (y < x)
  BY <1>1 DEF OpToRel
<1>3. \A y \in S : x <= y
  BY <1>2
<1> QED
  BY <1>3 DEF Min

LEMMA GreatestThere ==
  ASSUME NEW n \in Nat, NEW S \in SUBSET (1..n), S # {}
  PROVE  Max(S) \in S /\ \A y \in S : Max(S) >= y
<1> DEFINE T == {n - k : k \in S}
<1>1. T \in SUBSET Nat /\ T # {}
  <2>1. \A k \in S : k \in 1..n
    OBVIOUS
  <2>2. \A k \in S : n - k \in Nat
    BY <2>1
  <2> QED
    BY <2>2
<1>2. PICK k \in S : Min(T) = n - k
  BY <1>1, LeastThere
<1>3. \A y \in S : k >= y
  <2> TAKE y \in S
  <2>1. n - y \in T
    OBVIOUS
  <2>2. Min(T) <= n - y
    BY <1>1, <2>1, LeastThere
  <2> QED
    BY <1>2, <2>2
<1> QED
  BY <1>3 DEF Max

Labels == STRING \cup {Lowered(s) : s \in STRING}

LEMMA NormaliseTyped ==
  ASSUME NEW name \in Seq(STRING)
  PROVE  Normalise(name) \in Seq(Labels)
<1> DEFINE kept == {k \in DOMAIN name : name[k] # ""}
<1>1. /\ Len(name) \in Nat /\ DOMAIN name = 1..Len(name)
      /\ \A k \in 1..Len(name) : name[k] \in STRING
  BY LenProperties, ElementOfSeq
<1>2. kept \in SUBSET (1..Len(name))
  BY <1>1
<1>3. Normalise(name) = [k \in 1..IF kept = {} THEN 0 ELSE Max(kept) |-> Lowered(name[k])]
  BY DEF Normalise
<1> HIDE DEF kept
<1>4. PICK last \in 0..Len(name) : last = IF kept = {} THEN 0 ELSE Max(kept)
  <2>1. kept # {} => Max(kept) \in 1..Len(name)
    BY <1>1, <1>2, GreatestThere
  <2>2. CASE kept = {}
    BY <1>1, <2>2
  <2>3. CASE kept # {}
    BY <1>1, <2>1, <2>3
  <2> QED
    BY <2>2, <2>3
<1>5. \A k \in 1..last : Lowered(name[k]) \in Labels
  <2> TAKE k \in 1..last
  <2>1. k \in 1..Len(name)
    BY <1>1, <1>4
  <2>2. name[k] \in STRING
    BY <1>1, <2>1
  <2> QED
    BY <2>2 DEF Labels
<1>6. [k \in 1..last |-> Lowered(name[k])] \in [1..last -> Labels]
  BY <1>5
<1>7. last \in Nat
  BY <1>4
<1> QED
  BY <1>3, <1>4, <1>6, <1>7, SeqDef

\* A suffix is what follows one of the dots, or the whole.
LEMMA SuffixIsTail ==
  ASSUME NEW S, NEW s \in Seq(S), NEW t \in Seq(S), s # <<>>
  PROVE  IsSuffix(s, t) <=> s \in Tails(t)
<1>1. /\ Len(s) \in Nat /\ DOMAIN s = 1..Len(s)
      /\ Len(t) \in Nat /\ DOMAIN t = 1..Len(t)
      /\ \A k \in 1..Len(s) : s[k] \in S
      /\ \A k \in 1..Len(t) : t[k] \in S
      /\ Len(s) # 0
  BY LenProperties, ElementOfSeq, EmptySeq
<1>2. /\ Reverse(s) \in [1..Len(s) -> S] /\ Reverse(t) \in [1..Len(t) -> S]
      /\ \A k \in 1..Len(s) : Reverse(s)[k] = s[(Len(s) - k) + 1]
      /\ \A k \in 1..Len(t) : Reverse(t)[k] = t[(Len(t) - k) + 1]
  BY <1>1 DEF Reverse
<1>3. /\ Reverse(s) \in Seq(S) /\ Reverse(t) \in Seq(S)
  <2>1. Seq(S) = UNION {[1..n -> S] : n \in Nat}
    BY SeqDef
  <2>2. \A n \in Nat : \A f \in [1..n -> S] : f \in Seq(S)
    BY ONLY <2>1
  <2> QED
    BY <1>1, <1>2, <2>2
<1>4. /\ Len(Reverse(s)) = Len(s) /\ Len(Reverse(t)) = Len(t)
  BY <1>1, <1>2, <1>3, LenProperties
<1>5. IsSuffix(s, t) <=> /\ Len(s) <= Len(t)
                         /\ SubSeq(Reverse(s), 1, Len(s)) = SubSeq(Reverse(t), 1, Len(s))
  BY <1>4 DEF IsSuffix, IsPrefix
<1>6. ASSUME Len(s) <= Len(t)
      PROVE  SubSeq(Reverse(s), 1, Len(s)) = SubSeq(Reverse(t), 1, Len(s))
             <=> \A k \in 1..Len(s) : s[k] = t[Len(t) - Len(s) + k]
  <2>1. /\ SubSeq(Reverse(s), 1, Len(s)) \in Seq(S) /\ Len(SubSeq(Reverse(s), 1, Len(s))) = Len(s)
        /\ \A k \in 1..Len(s) : SubSeq(Reverse(s), 1, Len(s))[k] = Reverse(s)[k]
    <3>1. \A k \in 1..Len(s) : Reverse(s)[k] \in S
      BY <1>2
    <3> QED
      BY <1>1, <3>1, SubSeqProperties
  <2>2. /\ SubSeq(Reverse(t), 1, Len(s)) \in Seq(S) /\ Len(SubSeq(Reverse(t), 1, Len(s))) = Len(s)
        /\ \A k \in 1..Len(s) : SubSeq(Reverse(t), 1, Len(s))[k] = Reverse(t)[k]
    <3>1. \A k \in 1..Len(s) : Reverse(t)[k] \in S
      BY <1>1, <1>2, <1>6
    <3> QED
      BY <1>1, <3>1, SubSeqProperties
  <2>3. SubSeq(Reverse(s), 1, Len(s)) = SubSeq(Reverse(t), 1, Len(s))
        <=> \A k \in 1..Len(s) : Reverse(s)[k] = Reverse(t)[k]
    <3>1. ASSUME \A k \in 1..Len(s) : Reverse(s)[k] = Reverse(t)[k]
          PROVE  SubSeq(Reverse(s), 1, Len(s)) = SubSeq(Reverse(t), 1, Len(s))
      BY <2>1, <2>2, <3>1, SeqEqual
    <3> QED
      BY <2>1, <2>2, <3>1
  <2>4. ASSUME \A k \in 1..Len(s) : Reverse(s)[k] = Reverse(t)[k], NEW k \in 1..Len(s)
        PROVE  s[k] = t[Len(t) - Len(s) + k]
    <3> DEFINE j == (Len(s) - k) + 1
    <3>1. j \in 1..Len(s) /\ j \in 1..Len(t) /\ (Len(s) - j) + 1 = k
          /\ (Len(t) - j) + 1 = Len(t) - Len(s) + k
      BY <1>1, <1>6
    <3>2. Reverse(s)[j] = s[k] /\ Reverse(t)[j] = t[Len(t) - Len(s) + k]
      BY <1>2, <3>1
    <3> QED
      BY <2>4, <3>1, <3>2
  <2>5. ASSUME \A k \in 1..Len(s) : s[k] = t[Len(t) - Len(s) + k], NEW k \in 1..Len(s)
        PROVE  Reverse(s)[k] = Reverse(t)[k]
    <3> DEFINE j == (Len(s) - k) + 1
    <3>1. j \in 1..Len(s) /\ k \in 1..Len(t)
          /\ (Len(t) - k) + 1 = Len(t) - Len(s) + j
      BY <1>1, <1>6
    <3>2. Reverse(s)[k] = s[j] /\ Reverse(t)[k] = t[Len(t) - Len(s) + j]
      BY <1>2, <3>1
    <3> QED
      BY <2>5, <3>1, <3>2
  <2> QED
    BY <2>3, <2>4, <2>5
<1>7. ASSUME NEW m \in 1..Len(t)
      PROVE  s = SubSeq(t, m, Len(t))
             <=> Len(s) = Len(t) - m + 1 /\ \A k \in 1..Len(s) : s[k] = t[m + k - 1]
  <2>1. /\ SubSeq(t, m, Len(t)) \in Seq(S) /\ Len(SubSeq(t, m, Len(t))) = Len(t) - m + 1
        /\ \A k \in 1..Len(t) - m + 1 : SubSeq(t, m, Len(t))[k] = t[m + k - 1]
    <3>1. \A k \in m..Len(t) : t[k] \in S
      BY <1>1
    <3> QED
      BY <1>1, <3>1, SubSeqProperties
  <2>2. ASSUME Len(s) = Len(t) - m + 1, \A k \in 1..Len(s) : s[k] = t[m + k - 1]
        PROVE  s = SubSeq(t, m, Len(t))
    BY <2>1, <2>2, SeqEqual
  <2> QED
    BY <2>1, <2>2
<1>8. ASSUME IsSuffix(s, t) PROVE s \in Tails(t)
  <2> DEFINE m == Len(t) - Len(s) + 1
  <2>1. m \in 1..Len(t) /\ Len(s) = Len(t) - m + 1
    BY <1>1, <1>5, <1>8
  <2>2. \A k \in 1..Len(s) : s[k] = t[m + k - 1]
    <3> TAKE k \in 1..Len(s)
    <3>1. m + k - 1 = Len(t) - Len(s) + k
      BY <1>1
    <3> QED
      BY <1>5, <1>6, <1>8, <3>1
  <2> QED
    BY <1>1, <1>7, <2>1, <2>2 DEF Tails
<1>9. ASSUME s \in Tails(t) PROVE IsSuffix(s, t)
  <2>1. PICK m \in 1..Len(t) : s = SubSeq(t, m, Len(t))
    BY <1>1, <1>9 DEF Tails
  <2>2. Len(s) = Len(t) - m + 1 /\ \A k \in 1..Len(s) : s[k] = t[m + k - 1]
    BY <1>7, <2>1
  <2>3. Len(s) <= Len(t)
    BY <1>1, <2>2
  <2>4. \A k \in 1..Len(s) : s[k] = t[Len(t) - Len(s) + k]
    <3> TAKE k \in 1..Len(s)
    <3>1. m + k - 1 = Len(t) - Len(s) + k
      BY <1>1, <2>2
    <3> QED
      BY <2>2, <3>1
  <2> QED
    BY <1>5, <1>6, <2>3, <2>4
<1> QED
  BY <1>8, <1>9

\* What a rule is once it is normal.
LEMMA NormalFields ==
  ASSUME NEW input \in Policies, NEW i \in DOMAIN input.rules
  PROVE  LET rule == input.rules[i] IN
         /\ rule.matcher.by \in {"exact", "suffix", "any"} /\ rule.matcher.name \in Seq(STRING)
         /\ NormalRule(rule).matcher.by = rule.matcher.by
         /\ NormalRule(rule).matcher.name = Normalise(rule.matcher.name)
<1> DEFINE Matcher == [by : {"exact", "suffix", "any"}, name : Seq(STRING)]
           RuleSet == [matcher : Matcher, resolver : STRING, programs : SUBSET STRING,
                       route : BOOLEAN]
<1>1. input.rules \in Seq(RuleSet)
  BY DEF Policies
<1>2. i \in 1..Len(input.rules)
  BY <1>1, LenProperties
<1>3. PICK rule \in RuleSet : rule = input.rules[i]
  BY <1>1, <1>2, ElementOfSeq
<1>4. PICK matcher \in Matcher : matcher = rule.matcher
  BY <1>3
<1>5. /\ NormalRule(rule).matcher.by = matcher.by
      /\ NormalRule(rule).matcher.name = Normalise(matcher.name)
  BY <1>3, <1>4 DEF NormalRule
<1> QED
  BY <1>3, <1>4, <1>5

LEMMA ListedIs ==
  ASSUME NEW rules, NEW by, NEW name
  PROVE  Listed(Index(rules, by), name)
           = {i \in DOMAIN rules : rules[i].matcher.by = by /\ rules[i].matcher.name = name}
<1> DEFINE numbers == {i \in DOMAIN rules : rules[i].matcher.by = by}
           names == {rules[i].matcher.name : i \in numbers}
<1>1. Index(rules, by) = [n \in names |-> {i \in numbers : rules[i].matcher.name = n}]
  BY DEF Index
<1>2. CASE name \in names
  BY <1>1, <1>2 DEF Listed
<1>3. CASE name \notin names
  BY <1>1, <1>3 DEF Listed
<1> QED
  BY <1>2, <1>3

LEMMA CandidatesAre ==
  ASSUME NEW policy, NEW name, NEW i
  PROVE  i \in Candidates(policy, name)
         <=> \/ i \in Listed(policy.exact, name)
             \/ \E rest \in Tails(name) : i \in Listed(policy.suffix, rest)
             \/ i \in policy.any
  BY DEF Candidates

LEMMA CandidatesMatch ==
  ASSUME NEW input \in Policies, RulesStand(input), NEW S, NEW name \in Seq(S),
         NEW i \in DOMAIN input.rules
  PROVE  i \in Candidates(Build(input), name) <=> Matches(input.rules[i].matcher, name)
<1> DEFINE rules == [k \in DOMAIN input.rules |-> NormalRule(input.rules[k])]
<1> PICK matcher, normal : matcher = input.rules[i].matcher /\ normal = Normalise(matcher.name)
  OBVIOUS
<1>1. /\ Build(input).exact = Index(rules, "exact") /\ Build(input).suffix = Index(rules, "suffix")
      /\ Build(input).any = {k \in DOMAIN rules : rules[k].matcher.by = "any"}
  BY DEF Build
<1>2. /\ i \in DOMAIN rules
      /\ rules[i].matcher.by = matcher.by /\ rules[i].matcher.name = normal
      /\ matcher.by \in {"exact", "suffix", "any"} /\ matcher.name \in Seq(STRING)
  BY NormalFields
<1>3. matcher.by = "any" \/ normal # <<>>
  <2>1. DOMAIN input.rules = 1..Len(input.rules)
    BY LenProperties DEF Policies
  <2>2. input.rules[i] \in Range(input.rules)
    BY DEF Range
  <2> QED
    BY <2>2 DEF RulesStand
<1> HIDE DEF rules
<1>4. i \in Candidates(Build(input), name)
      <=> \/ matcher.by = "exact" /\ normal = name
          \/ matcher.by = "suffix" /\ normal \in Tails(name)
          \/ matcher.by = "any"
  <2>1. i \in Listed(Index(rules, "exact"), name) <=> matcher.by = "exact" /\ normal = name
    BY <1>2, ListedIs
  <2>2. \A rest : i \in Listed(Index(rules, "suffix"), rest)
                    <=> matcher.by = "suffix" /\ normal = rest
    BY <1>2, ListedIs
  <2>3. i \in Build(input).any <=> matcher.by = "any"
    BY <1>1, <1>2
  <2> QED
    BY <1>1, <2>1, <2>2, <2>3, CandidatesAre
<1>5. /\ normal \in Seq(Labels \cup S) /\ name \in Seq(Labels \cup S)
  BY <1>2, NormaliseTyped, SeqMonotonic
<1>6. ASSUME matcher.by = "suffix"
      PROVE  normal \in Tails(name) <=> name # <<>> /\ IsSuffix(normal, name)
  <2>1. normal # <<>>
    BY <1>3, <1>6
  <2>2. normal \in Tails(name) => name # <<>>
    BY EmptySeq, LenProperties DEF Tails
  <2> QED
    BY <1>5, <2>1, <2>2, SuffixIsTail
<1>7. Matches(matcher, name)
      <=> \/ matcher.by = "exact" /\ normal = name
          \/ matcher.by = "suffix" /\ normal \in Tails(name)
          \/ matcher.by = "any"
  <2>1. CASE matcher.by = "any"
    BY <2>1 DEF Matches
  <2>2. CASE matcher.by = "exact"
    BY <2>2 DEF Matches
  <2>3. CASE matcher.by = "suffix"
    BY <1>6, <2>3 DEF Matches
  <2> QED
    BY <1>2, <2>1, <2>2, <2>3
<1> QED
  BY <1>4, <1>7

\* policy.rs:222-261: whatever an application sends that build takes, and for every
\* name and whoever asks, the arrangement and the walk over the rules as they were
\* written name the same rule, or none.
THEOREM DecideIsWalk ==
  ASSUME NEW input \in Policies, RulesStand(input), NEW S, NEW name \in Seq(S), NEW who
  PROVE  Decide(Build(input), name, who) = Walk(input, name, who)
<1> DEFINE rules == [k \in DOMAIN input.rules |-> NormalRule(input.rules[k])]
           built == {i \in Candidates(Build(input), name) :
                        AppliesTo(Build(input).rules[i].programs, who)}
           walked == {i \in DOMAIN input.rules :
                        /\ Matches(input.rules[i].matcher, name)
                        /\ AppliesTo(NormalRule(input.rules[i]).programs, who)}
<1>1. Build(input).rules = rules
  BY DEF Build
<1>2. Candidates(Build(input), name) \subseteq DOMAIN input.rules
  <2>1. /\ Build(input).exact = Index(rules, "exact")
        /\ Build(input).suffix = Index(rules, "suffix")
        /\ Build(input).any = {k \in DOMAIN rules : rules[k].matcher.by = "any"}
    BY DEF Build
  <2>2. DOMAIN rules = DOMAIN input.rules
    OBVIOUS
  <2> HIDE DEF rules
  <2>3. \A by, n : Listed(Index(rules, by), n) \subseteq DOMAIN input.rules
    BY <2>2, ListedIs
  <2> QED
    BY <2>1, <2>2, <2>3, CandidatesAre
<1>3. built = walked
  BY <1>1, <1>2, CandidatesMatch
<1> QED
  BY <1>3 DEF Decide, Walk

LEMMA EverythingDecided ==
  ASSUME NEW input \in Policies, DecidesEverything(Build(input)), NEW name, NEW who
  PROVE  Decide(Build(input), name, who) # Undecided
<1> DEFINE rules == [k \in DOMAIN input.rules |-> NormalRule(input.rules[k])]
           fits == {i \in Candidates(Build(input), name) :
                        AppliesTo(Build(input).rules[i].programs, who)}
<1>1. /\ Build(input).exact = Index(rules, "exact") /\ Build(input).suffix = Index(rules, "suffix")
      /\ Build(input).any = {k \in DOMAIN rules : rules[k].matcher.by = "any"}
  BY DEF Build
<1>2. DOMAIN rules = DOMAIN input.rules /\ DOMAIN input.rules = 1..Len(input.rules)
      /\ Len(input.rules) \in Nat
  BY LenProperties DEF Policies
<1> HIDE DEF rules
<1>3. \A by, n : Listed(Index(rules, by), n) \subseteq DOMAIN input.rules
  BY <1>2, ListedIs
<1>4. Candidates(Build(input), name) \subseteq DOMAIN input.rules
  BY <1>1, <1>2, <1>3, CandidatesAre
<1>5. fits \in SUBSET Nat /\ 0 \notin fits
  BY <1>2, <1>4
<1>6. fits # {}
  <2>1. PICK i \in Build(input).any : Build(input).rules[i].programs = {}
    BY DEF DecidesEverything
  <2>2. AppliesTo(Build(input).rules[i].programs, who)
    BY <2>1 DEF AppliesTo
  <2> QED
    BY <2>1, <2>2, CandidatesAre
<1>7. Min(fits) \in fits
  BY <1>5, <1>6, LeastThere
<1> QED
  BY <1>5, <1>6, <1>7 DEF Decide, Undecided

-----------------------------------------------------------------------------
(* The invariants.                                                          *)

Fields == {"at", "question", "process", "asker", "rule", "saw", "from", "found"}

Places == {"idle", "closed", "reply"} \cup Working

AskersOK ==
  /\ AskersTypeOK
  /\ DOMAIN reading = Protocols
  /\ IsFiniteSet(DOMAIN images)

TasksOK ==
  /\ DOMAIN task = Tasks
  /\ \A t \in Tasks :
      /\ DOMAIN task[t] = Fields
      /\ task[t].at \in Places
      /\ task[t].at = "image" => task[t].process \in Pids

Permitted == {t \in Tasks : \/ task[t].at \in Working
                            \/ task[t].at = "reply" /\ t \in Udp}

PermitsOK ==
  /\ inFlight = Permitted
  /\ IsFiniteSet(inFlight)
  /\ Cardinality(inFlight) <= MaxInFlight

GuardsOK == readers = {t \in Tasks : task[t].at \in Guarded}

Waiting == At("lock") \cup (IF pending \in Inputs THEN {Installer} ELSE {})

\* What is sent is installed only after everything that can be refused was refused.
LockOK ==
  /\ queue \in Seq(Tasks \cup {Installer})
  /\ Range(queue) = Waiting
  /\ IsInjective(queue)
  /\ pending \in Acceptable \cup {Refreshing, Nothing}

\* What is in force is the arrangement of what was sent.
ForceOK == pending = Refreshing => inForce \in Acceptable /\ installed = Build(inForce)

\* What is known of a destination under the line there is now is an address the
\* line has had since.
SourcesOK ==
  /\ line \in Nat /\ lineAddress \in lately
  /\ \A d \in DOMAIN sources :
      /\ sources[d].line \in Nat /\ sources[d].line <= line
      /\ sources[d].line = line => sources[d].from \in lately

\* A task that looks the line up began with a line no newer than there is now.
LookedOK ==
  \A t \in Tasks :
    /\ t \in At("lookup") \cup At("remember") => task[t].saw \in Nat /\ task[t].saw <= line
    /\ t \in At("lookup") => possible[t] = {} \/ lineAddress \in possible[t]
    /\ t \in At("remember") =>
          /\ task[t].saw = line => task[t].from \in lately
          /\ possible[t] = {} \/ task[t].from \in possible[t]
    /\ t \in At("ask") \cup At("fallback") =>
          possible[t] = {} \/ task[t].from \in possible[t]
    /\ t \notin At("lookup") \cup At("remember") \cup At("ask") \cup At("fallback")
          => possible[t] = {}

\* Who a table names held the port when it was read.
HeldOK ==
  \A p \in Protocols, port \in Ports, pid \in Pids :
    /\ since[p][port][pid] \in 0..TableTtl
    /\ owner[p][port] = pid => since[p][port][pid] = 0
    /\ reading[p] # Nothing /\ reading[p][port] = pid => since[p][port][pid] <= age[p]

Core == AskersOK /\ TasksOK /\ PermitsOK /\ GuardsOK /\ LockOK

IInv == Core /\ ForceOK /\ SourcesOK /\ LookedOK /\ HeldOK

USE AskersAssumption, ResolverAssumption

-----------------------------------------------------------------------------
(* Small facts.                                                             *)

LEMMA LeastOfTwo ==
  ASSUME NEW a \in Nat, NEW b \in Nat
  PROVE  Min({a, b}) = IF a <= b THEN a ELSE b
<1>1. {a, b} \in SUBSET Nat /\ {a, b} # {}
  OBVIOUS
<1>2. Min({a, b}) \in {a, b} /\ \A y \in {a, b} : Min({a, b}) <= y
  BY <1>1, LeastThere
<1> QED
  BY <1>2

\* Who joins a line stands in it once, and who leaves it is gone.
LEMMA JoinLine ==
  ASSUME NEW S, NEW q \in Seq(S), NEW x \in S, x \notin Range(q), IsInjective(q)
  PROVE  /\ Append(q, x) \in Seq(S) /\ Range(Append(q, x)) = Range(q) \cup {x}
         /\ IsInjective(Append(q, x))
<1>1. /\ Len(q) \in Nat /\ DOMAIN q = 1..Len(q)
      /\ Append(q, x) \in Seq(S) /\ Len(Append(q, x)) = Len(q) + 1
      /\ \A i \in 1..Len(q) : Append(q, x)[i] = q[i]
      /\ Append(q, x)[Len(q) + 1] = x
  BY LenProperties, AppendProperties
<1>2. DOMAIN Append(q, x) = 1..Len(q) + 1
  BY <1>1, LenProperties
<1>3. \A i \in 1..Len(q) + 1 : i \in 1..Len(q) \/ i = Len(q) + 1
  BY <1>1
<1>4. Len(q) + 1 \in 1..Len(q) + 1 /\ 1..Len(q) \subseteq 1..Len(q) + 1
  BY <1>1
<1>5. Range(Append(q, x)) = Range(q) \cup {x}
  BY <1>1, <1>2, <1>3, <1>4 DEF Range
<1>6. IsInjective(Append(q, x))
  BY <1>1, <1>2, <1>3 DEF IsInjective, Range
<1> QED
  BY <1>1, <1>5, <1>6

LEMMA LeaveLine ==
  ASSUME NEW S, NEW q \in Seq(S), q # <<>>, IsInjective(q)
  PROVE  /\ Tail(q) \in Seq(S) /\ Range(Tail(q)) = Range(q) \ {Head(q)}
         /\ IsInjective(Tail(q)) /\ Head(q) \in Range(q)
<1>1. /\ Len(q) \in Nat /\ DOMAIN q = 1..Len(q) /\ Len(q) # 0
  BY LenProperties, EmptySeq
<1>2. /\ Tail(q) \in Seq(S) /\ Len(Tail(q)) = Len(q) - 1 /\ DOMAIN Tail(q) = 1..Len(q) - 1
      /\ \A i \in 1..Len(q) - 1 : Tail(q)[i] = q[i + 1]
  BY HeadTailProperties, LenProperties
<1>3. Head(q) = q[1] /\ 1 \in DOMAIN q
  BY <1>1
<1>4. \A i \in 1..Len(q) - 1 : i + 1 \in 1..Len(q) /\ i + 1 # 1
  BY <1>1
<1>5. \A i \in 1..Len(q) : i = 1 \/ (i - 1 \in 1..Len(q) - 1 /\ (i - 1) + 1 = i)
  BY <1>1
<1>6. \A x \in Range(Tail(q)) : x \in Range(q) /\ x # Head(q)
  BY <1>1, <1>2, <1>3, <1>4 DEF Range, IsInjective
<1>7. \A x \in Range(q) : x # Head(q) => x \in Range(Tail(q))
  <2> SUFFICES ASSUME NEW i \in 1..Len(q), q[i] # Head(q) PROVE q[i] \in Range(Tail(q))
    BY <1>1 DEF Range
  <2>1. i - 1 \in 1..Len(q) - 1 /\ (i - 1) + 1 = i
    BY <1>3, <1>5
  <2>2. Tail(q)[i - 1] = q[i]
    BY <1>2, <2>1
  <2> QED
    BY <1>2, <2>1, <2>2 DEF Range
<1>8. IsInjective(Tail(q))
  <2> SUFFICES ASSUME NEW a \in 1..Len(q) - 1, NEW b \in 1..Len(q) - 1, Tail(q)[a] = Tail(q)[b]
               PROVE  a = b
    BY <1>2 DEF IsInjective
  <2>1. q[a + 1] = q[b + 1] /\ a + 1 \in DOMAIN q /\ b + 1 \in DOMAIN q
    BY <1>1, <1>2, <1>4
  <2>2. a + 1 = b + 1
    BY <2>1 DEF IsInjective
  <2> QED
    BY <2>2
<1> QED
  BY <1>2, <1>3, <1>6, <1>7, <1>8 DEF Range

-----------------------------------------------------------------------------
(* Where each step of a task takes it.                                      *)

Goes(t, there, then) ==
  /\ DOMAIN task' = Tasks /\ DOMAIN task'[t] = Fields
  /\ task[t].at \in there /\ task'[t].at \in then
  /\ \A u \in Tasks \ {t} : task'[u] = task[u]

LEMMA BecomeGoes ==
  ASSUME TasksOK, NEW t \in Tasks, NEW local, DOMAIN local = Fields, Become(t, local)
  PROVE  Goes(t, {task[t].at}, {local.at}) /\ task'[t] = local
BY DEF Goes, Become, TasksOK

LEMMA GotoGoes ==
  ASSUME TasksOK, NEW t \in Tasks, NEW there, Goto(t, there)
  PROVE  /\ Goes(t, {task[t].at}, {there}) /\ task'[t] = [task[t] EXCEPT !.at = there]
         /\ \A f \in Fields \ {"at"} : task'[t][f] = task[t][f]
BY DEF Goes, Goto, TasksOK, Fields

LEMMA BlankShape == \A at : DOMAIN Blank(at) = Fields /\ Blank(at).at = at
BY DEF Blank, Fields
LEMMA TakeGuardGoes ==
  ASSUME TasksOK, NEW t \in Tasks, NEW local, DOMAIN local = Fields, TakeGuard(t, local)
  PROVE  /\ Goes(t, {task[t].at}, {"decide", "lock"})
         /\ \/ task'[t].at = "decide" /\ readers' = readers \cup {t} /\ queue' = queue
            \/ task'[t].at = "lock" /\ readers' = readers /\ queue' = Append(queue, t)
         /\ task'[t].process = local.process
<1>1. ASSUME NEW at, Become(t, [local EXCEPT !.at = at])
      PROVE  /\ Goes(t, {task[t].at}, {at}) /\ task'[t].at = at
             /\ task'[t].process = local.process
  <2>1. /\ DOMAIN [local EXCEPT !.at = at] = Fields /\ [local EXCEPT !.at = at].at = at
        /\ [local EXCEPT !.at = at].process = local.process
    BY DEF Fields
  <2>2. Goes(t, {task[t].at}, {at}) /\ task'[t] = [local EXCEPT !.at = at]
    BY <1>1, <2>1, BecomeGoes
  <2> QED
    BY <2>1, <2>2
<1>2. CASE queue = <<>>
  BY <1>1, <1>2 DEF TakeGuard, Goes
<1>3. CASE queue # <<>>
  BY <1>1, <1>3 DEF TakeGuard, Goes
<1> QED
  BY <1>2, <1>3

LEMMA ReplyingGoes ==
  ASSUME TasksOK, NEW t \in Tasks, Replying(t)
  PROVE  Goes(t, {task[t].at}, {"reply"}) /\ task'[t] = Blank("reply")
BY BecomeGoes, BlankShape DEF Replying

\* Before the policy.
LEMMA PathsToThePolicy ==
  ASSUME TasksOK, NEW t \in Tasks
  PROVE  /\ Unreadable(t) => Goes(t, {"read"}, {"reply"})
         /\ Identify(t) => Goes(t, {"read"}, {"image", "decide", "lock"})
         /\ Name(t) => Goes(t, {"image"}, {"decide", "lock"})
         /\ LockOK /\ Admit(t) => Goes(t, {"lock"}, {"decide"})
<1>1. ASSUME Unreadable(t) PROVE Goes(t, {"read"}, {"reply"})
  BY <1>1, ReplyingGoes DEF Unreadable, At, Goes
<1>2. ASSUME Identify(t) PROVE Goes(t, {"read"}, {"image", "decide", "lock"})
  <2>1. PICK pid \in Pids \cup {Nothing} :
            LET local == [task[t] EXCEPT !.process = pid] IN
              \/ TakeGuard(t, local)
              \/ TakeGuard(t, [local EXCEPT !.asker = images[pid]])
              \/ Become(t, [local EXCEPT !.at = "image"])
    BY <1>2 DEF Identify
  <2> DEFINE local == [task[t] EXCEPT !.process = pid]
  <2>2. DOMAIN local = Fields /\ DOMAIN [local EXCEPT !.asker = images[pid]] = Fields
        /\ DOMAIN [local EXCEPT !.at = "image"] = Fields
        /\ [local EXCEPT !.at = "image"].at = "image"
    BY DEF TasksOK, Fields
  <2> HIDE DEF local
  <2>3. task[t].at = "read"
    BY <1>2 DEF Identify, At
  <2>4. CASE TakeGuard(t, local)
    BY <2>2, <2>3, <2>4, TakeGuardGoes DEF Goes
  <2>5. CASE TakeGuard(t, [local EXCEPT !.asker = images[pid]])
    BY <2>2, <2>3, <2>5, TakeGuardGoes DEF Goes
  <2>6. CASE Become(t, [local EXCEPT !.at = "image"])
    <3>1. Goes(t, {"read"}, {"image"})
      BY <2>2, <2>3, <2>6, BecomeGoes
    <3> QED
      BY ONLY <3>1 DEF Goes
  <2> QED
    BY <2>1, <2>4, <2>5, <2>6 DEF local
<1>3. ASSUME Name(t) PROVE Goes(t, {"image"}, {"decide", "lock"})
  <2>1. PICK program : TakeGuard(t, [task[t] EXCEPT !.asker = program])
    BY <1>3 DEF Name
  <2>2. DOMAIN [task[t] EXCEPT !.asker = program] = Fields
    BY DEF TasksOK
  <2> QED
    BY <1>3, <2>1, <2>2, TakeGuardGoes DEF Name, At, Goes
<1>4. ASSUME LockOK, Admit(t) PROVE Goes(t, {"lock"}, {"decide"})
  <2>1. t \in Waiting /\ t # Installer
    BY <1>4, LeaveLine DEF LockOK, Admit
  <2>2. task[t].at = "lock"
    BY <2>1 DEF Waiting, At
  <2> QED
    BY <1>4, <2>2, GotoGoes DEF Admit
<1> QED
  BY <1>1, <1>2, <1>3, <1>4

\* With the guard.
LEMMA PathsWithTheGuard ==
  ASSUME TasksOK, NEW t \in Tasks
  PROVE  /\ Refuse(t) => Goes(t, {"decide"}, {"reply"})
         /\ Choose(t) => Goes(t, {"decide"}, {"source", "ask"})
         /\ Source(t) => Goes(t, {"source"}, {"ask", "lookup"})
         /\ LookUp(t) => Goes(t, {"lookup"}, {"remember"})
         /\ Remember(t) => Goes(t, {"remember"}, {"ask"})
         /\ Truncated(t) => Goes(t, {"ask"}, {"fallback"})
         /\ Unanswered(t) => Goes(t, {"ask", "fallback"}, {"reply"})
         /\ \A answer : Answered(t, answer) => Goes(t, {"ask", "fallback"}, {"record"})
<1>1. ASSUME Refuse(t) PROVE Goes(t, {"decide"}, {"reply"})
  BY <1>1, ReplyingGoes DEF Refuse, At, Goes
<1>2. ASSUME Choose(t) PROVE Goes(t, {"decide"}, {"source", "ask"})
  <2>1. PICK at \in {"source", "ask"} :
          \E local :
            /\ local = [Blank(at) EXCEPT !.question = task[t].question, !.rule = Chosen(t)]
            /\ Become(t, local)
    BY <1>2 DEF Choose
  <2>2. PICK local :
            /\ local = [Blank(at) EXCEPT !.question = task[t].question, !.rule = Chosen(t)]
            /\ Become(t, local)
    BY <2>1
  <2>3. DOMAIN local = Fields /\ local.at = at
    BY <2>2, BlankShape DEF Fields
  <2>4. task[t].at = "decide"
    BY <1>2 DEF Choose, At
  <2>5. Goes(t, {"decide"}, {at})
    BY <2>2, <2>3, <2>4, BecomeGoes
  <2> QED
    BY ONLY <2>1, <2>5 DEF Goes
<1>3. ASSUME Source(t) PROVE Goes(t, {"source"}, {"ask", "lookup"})
  <2>1. PICK local :
            /\ Become(t, local)
            /\ \/ local = [task[t] EXCEPT !.from = sources[Upstream(t).address].from, !.at = "ask"]
               \/ local = [task[t] EXCEPT !.saw = line, !.at = "lookup"]
    BY <1>3 DEF Source
  <2>2. DOMAIN local = Fields /\ local.at \in {"ask", "lookup"}
    BY <2>1 DEF TasksOK, Fields
  <2>3. task[t].at = "source"
    BY <1>3 DEF Source, At
  <2>4. Goes(t, {"source"}, {local.at})
    BY <2>1, <2>2, <2>3, BecomeGoes
  <2> QED
    BY ONLY <2>2, <2>4 DEF Goes
<1>4. ASSUME LookUp(t) PROVE Goes(t, {"lookup"}, {"remember"})
  <2>1. PICK local : /\ local = [task[t] EXCEPT !.from = lineAddress, !.at = "remember"]
                     /\ Become(t, local)
    BY <1>4 DEF LookUp
  <2>2. DOMAIN local = Fields /\ local.at = "remember"
    BY <2>1 DEF TasksOK, Fields
  <2>3. task[t].at = "lookup"
    BY <1>4 DEF LookUp, At
  <2> QED
    BY <2>1, <2>2, <2>3, BecomeGoes
<1>5. ASSUME Remember(t) PROVE Goes(t, {"remember"}, {"ask"})
  <2>1. PICK local : local = [task[t] EXCEPT !.saw = 0, !.at = "ask"] /\ Become(t, local)
    BY <1>5 DEF Remember
  <2>2. DOMAIN local = Fields /\ local.at = "ask"
    BY <2>1 DEF TasksOK, Fields
  <2>3. task[t].at = "remember"
    BY <1>5 DEF Remember, At
  <2> QED
    BY <2>1, <2>2, <2>3, BecomeGoes
<1>6. ASSUME Truncated(t) PROVE Goes(t, {"ask"}, {"fallback"})
  BY <1>6, GotoGoes DEF Truncated, At
<1>7. ASSUME Unanswered(t) PROVE Goes(t, {"ask", "fallback"}, {"reply"})
  BY <1>7, ReplyingGoes DEF Unanswered, GivenUp, At, Goes
<1>8. ASSUME NEW answer, Answered(t, answer) PROVE Goes(t, {"ask", "fallback"}, {"record"})
  <2>1. PICK found : Become(t, [Blank("record") EXCEPT !.found = found])
    BY <1>8 DEF Answered
  <2>2. DOMAIN [Blank("record") EXCEPT !.found = found] = Fields
        /\ [Blank("record") EXCEPT !.found = found].at = "record"
    BY BlankShape DEF Fields
  <2>3. task[t].at \in {"ask", "fallback"}
    BY <1>8 DEF Answered, At
  <2>4. Goes(t, {task[t].at}, {"record"})
    BY <2>1, <2>2, BecomeGoes
  <2> QED
    BY ONLY <2>3, <2>4 DEF Goes
<1> QED
  BY <1>1, <1>2, <1>3, <1>4, <1>5, <1>6, <1>7, <1>8

\* After it, and around.
LEMMA PathsAround ==
  ASSUME TasksOK, NEW t \in Tasks
  PROVE  /\ Record(t) => Goes(t, {"record"}, {"routes", "reply"})
         /\ RoutesChanged(t) => Goes(t, {"routes"}, {"reply"})
         /\ Reply(t) => Goes(t, {"reply"}, {"idle"})
         /\ \A question : Arrive(t, question) => Goes(t, {"idle"}, {"read"})
         /\ Accept(t) => Goes(t, {"closed"}, {"idle"})
         /\ Hangup(t) => Goes(t, {"idle"}, {"closed"})
         /\ TurnAway(t) => Goes(t, {"idle"}, {"closed"})
<1>1. ASSUME Record(t) PROVE Goes(t, {"record"}, {"routes", "reply"})
  BY <1>1, ReplyingGoes, GotoGoes DEF Record, At, Goes
<1>2. ASSUME RoutesChanged(t) PROVE Goes(t, {"routes"}, {"reply"})
  BY <1>2, ReplyingGoes DEF RoutesChanged, At, Goes
<1>3. ASSUME Reply(t) PROVE Goes(t, {"reply"}, {"idle"})
  BY <1>3, GotoGoes DEF Reply, At
<1>4. ASSUME NEW question, Arrive(t, question) PROVE Goes(t, {"idle"}, {"read"})
  <2> DEFINE local == [Blank("read") EXCEPT !.question = question]
  <2>1. DOMAIN local = Fields /\ local.at = "read"
    BY BlankShape DEF Fields
  <2>2. Become(t, local) /\ task[t].at = "idle"
    BY <1>4 DEF Arrive, At
  <2> HIDE DEF local
  <2> QED
    BY <2>1, <2>2, BecomeGoes
<1>5. ASSUME Accept(t) PROVE Goes(t, {"closed"}, {"idle"})
  BY <1>5, GotoGoes DEF Accept, At
<1>6. ASSUME Hangup(t) PROVE Goes(t, {"idle"}, {"closed"})
  BY <1>6, GotoGoes DEF Hangup, At
<1>7. ASSUME TurnAway(t) PROVE Goes(t, {"idle"}, {"closed"})
  BY <1>7, GotoGoes DEF TurnAway, At
<1> QED
  BY <1>1, <1>2, <1>3, <1>4, <1>5, <1>6, <1>7

-----------------------------------------------------------------------------
(* What a step does to the permits, the guards and the line for the lock.   *)

LEMMA PermitSteps ==
  ASSUME TasksOK, PermitsOK, NEW t \in Tasks
  PROVE  /\ Goes(t, Working, Working) /\ inFlight' = inFlight => PermitsOK'
         /\ Goes(t, {"idle", "closed"}, {"idle", "closed"}) /\ inFlight' = inFlight => PermitsOK'
         /\ Goes(t, Working, {"reply"})
              /\ inFlight' = (IF t \in Tcp THEN inFlight \ {t} ELSE inFlight) => PermitsOK'
         /\ Goes(t, {"reply"}, {"idle"}) /\ inFlight' = inFlight \ {t} => PermitsOK'
         /\ Goes(t, {"idle"}, {"read"}) /\ inFlight' = inFlight \cup {t}
              /\ Cardinality(inFlight) < MaxInFlight => PermitsOK'
<1>0. /\ IsFiniteSet(inFlight) /\ Cardinality(inFlight) \in Nat
      /\ Cardinality(inFlight) <= MaxInFlight /\ MaxInFlight \in Nat
  BY FS_CardinalityType DEF PermitsOK
<1>1. /\ IsFiniteSet(inFlight \ {t}) /\ Cardinality(inFlight \ {t}) <= MaxInFlight
      /\ IsFiniteSet(inFlight \cup {t})
      /\ Cardinality(inFlight) < MaxInFlight => Cardinality(inFlight \cup {t}) <= MaxInFlight
  <2>1. CASE t \in inFlight
    <3>1. inFlight \cup {t} = inFlight
      BY <2>1
    <3>2. IsFiniteSet(inFlight \ {t}) /\ Cardinality(inFlight \ {t}) = Cardinality(inFlight) - 1
      BY <1>0, <2>1, FS_RemoveElement
    <3> QED
      BY <1>0, <3>1, <3>2
  <2>2. CASE t \notin inFlight
    <3>1. inFlight \ {t} = inFlight
      BY <2>2
    <3>2. /\ IsFiniteSet(inFlight \cup {t})
          /\ Cardinality(inFlight \cup {t}) = Cardinality(inFlight) + 1
      BY <1>0, <2>2, FS_AddElement
    <3> QED
      BY <1>0, <3>1, <3>2
  <2> QED
    BY <2>1, <2>2
<1>2. inFlight = Permitted
  BY DEF PermitsOK
<1>3. ASSUME Goes(t, Working, Working), inFlight' = inFlight PROVE PermitsOK'
  <2>1. inFlight' = Permitted'
    BY <1>2, <1>3 DEF Goes, Permitted
  <2> QED
    BY <1>3, <2>1 DEF PermitsOK
<1>4. ASSUME Goes(t, {"idle", "closed"}, {"idle", "closed"}), inFlight' = inFlight PROVE PermitsOK'
  <2>1. inFlight' = Permitted'
    BY <1>2, <1>4 DEF Goes, Permitted, Working
  <2> QED
    BY <1>4, <2>1 DEF PermitsOK
<1>5. ASSUME Goes(t, Working, {"reply"}),
             inFlight' = IF t \in Tcp THEN inFlight \ {t} ELSE inFlight
      PROVE  PermitsOK'
  <2>1. inFlight' = Permitted'
    <3>1. CASE t \in Tcp
      BY <1>2, <1>5, <3>1 DEF Goes, Permitted, Working
    <3>2. CASE t \notin Tcp
      BY <1>2, <1>5, <3>2 DEF Goes, Permitted, Working, Tasks
    <3> QED
      BY <3>1, <3>2
  <2>2. IsFiniteSet(inFlight') /\ Cardinality(inFlight') <= MaxInFlight
    <3>1. inFlight' = inFlight \/ inFlight' = inFlight \ {t}
      BY <1>5
    <3> QED
      BY <1>0, <1>1, <3>1
  <2> QED
    BY <2>1, <2>2 DEF PermitsOK
<1>6. ASSUME Goes(t, {"reply"}, {"idle"}), inFlight' = inFlight \ {t} PROVE PermitsOK'
  <2>1. inFlight' = Permitted'
    BY <1>2, <1>6 DEF Goes, Permitted, Working
  <2>2. Cardinality(inFlight') <= MaxInFlight
    BY <1>1, <1>6
  <2> QED
    BY <1>1, <1>6, <2>1, <2>2 DEF PermitsOK
<1>7. ASSUME Goes(t, {"idle"}, {"read"}), inFlight' = inFlight \cup {t},
             Cardinality(inFlight) < MaxInFlight
      PROVE  PermitsOK'
  <2>1. inFlight' = Permitted'
    BY <1>2, <1>7 DEF Goes, Permitted, Working
  <2>2. Cardinality(inFlight') <= MaxInFlight
    BY <1>1, <1>7
  <2> QED
    BY <1>1, <1>7, <2>1, <2>2 DEF PermitsOK
<1> QED
  BY <1>3, <1>4, <1>5, <1>6, <1>7

LEMMA GuardSteps ==
  ASSUME TasksOK, GuardsOK, NEW t \in Tasks
  PROVE  /\ Goes(t, Guarded, Guarded) /\ readers' = readers => GuardsOK'
         /\ Goes(t, Places \ Guarded, Places \ Guarded) /\ readers' = readers => GuardsOK'
         /\ Goes(t, Places \ Guarded, Guarded) /\ readers' = readers \cup {t} => GuardsOK'
         /\ Goes(t, Guarded, Places \ Guarded) /\ readers' = readers \ {t} => GuardsOK'
<1>1. readers = {u \in Tasks : task[u].at \in Guarded}
  BY DEF GuardsOK
<1>2. ASSUME Goes(t, Guarded, Guarded), readers' = readers PROVE GuardsOK'
  BY <1>1, <1>2 DEF GuardsOK, Goes
<1>3. ASSUME Goes(t, Places \ Guarded, Places \ Guarded), readers' = readers PROVE GuardsOK'
  BY <1>1, <1>3 DEF GuardsOK, Goes
<1>4. ASSUME Goes(t, Places \ Guarded, Guarded), readers' = readers \cup {t} PROVE GuardsOK'
  BY <1>1, <1>4 DEF GuardsOK, Goes
<1>5. ASSUME Goes(t, Guarded, Places \ Guarded), readers' = readers \ {t} PROVE GuardsOK'
  BY <1>1, <1>5 DEF GuardsOK, Goes
<1> QED
  BY <1>2, <1>3, <1>4, <1>5

LEMMA LockSteps ==
  ASSUME TasksOK, LockOK, NEW t \in Tasks, pending' = pending
  PROVE  /\ Goes(t, Places \ {"lock"}, Places \ {"lock"}) /\ queue' = queue => LockOK'
         /\ Goes(t, Places \ {"lock"}, {"lock"}) /\ queue' = Append(queue, t) => LockOK'
         /\ Goes(t, {"lock"}, Places \ {"lock"}) /\ queue # <<>> /\ Head(queue) = t
              /\ queue' = Tail(queue) => LockOK'
<1>1. /\ queue \in Seq(Tasks \cup {Installer}) /\ Range(queue) = Waiting /\ IsInjective(queue)
      /\ pending \in Acceptable \cup {Refreshing, Nothing}
  BY DEF LockOK
<1>2. (pending \in Acceptable \cup {Refreshing, Nothing})'
  BY <1>1 DEF Acceptable
<1>3. ASSUME Goes(t, Places \ {"lock"}, Places \ {"lock"}), queue' = queue PROVE LockOK'
  <2>1. Waiting' = Waiting
    BY <1>3 DEF Waiting, At, Goes
  <2> QED
    BY <1>1, <1>2, <1>3, <2>1 DEF LockOK
<1>4. ASSUME Goes(t, Places \ {"lock"}, {"lock"}), queue' = Append(queue, t) PROVE LockOK'
  <2>1. Waiting' = Waiting \cup {t} /\ t \notin Waiting
    BY <1>4 DEF Waiting, At, Goes
  <2>2. /\ Append(queue, t) \in Seq(Tasks \cup {Installer})
        /\ Range(Append(queue, t)) = Waiting \cup {t} /\ IsInjective(Append(queue, t))
    BY <1>1, <2>1, JoinLine
  <2> QED
    BY <1>2, <1>4, <2>1, <2>2 DEF LockOK
<1>5. ASSUME Goes(t, {"lock"}, Places \ {"lock"}), queue # <<>>, Head(queue) = t,
             queue' = Tail(queue)
      PROVE  LockOK'
  <2>1. Waiting' = Waiting \ {t}
    BY <1>5 DEF Waiting, At, Goes
  <2>2. /\ Tail(queue) \in Seq(Tasks \cup {Installer})
        /\ Range(Tail(queue)) = Waiting \ {t} /\ IsInjective(Tail(queue))
    BY <1>1, <1>5, LeaveLine
  <2> QED
    BY <1>2, <1>5, <2>1, <2>2 DEF LockOK
<1> QED
  BY <1>3, <1>4, <1>5

LEMMA TaskSteps ==
  ASSUME TasksOK, NEW t \in Tasks, NEW there, Goes(t, there, Places),
         task'[t].at = "image" => task'[t].process \in Pids
  PROVE  TasksOK'
BY DEF TasksOK, Goes

TurnOK == TasksOK /\ PermitsOK /\ GuardsOK /\ LockOK

LEMMA TurnUntouched ==
  ASSUME TurnOK, UNCHANGED <<task, inFlight, readers, queue, pending>>
  PROVE  TurnOK'
BY DEF TurnOK, TasksOK, PermitsOK, Permitted, GuardsOK, LockOK, Waiting, At, Acceptable

LEMMA TaskTurns ==
  ASSUME TurnOK, NEW t \in Tasks,
         \/ Continue(t) \/ Truncated(t) \/ Accept(t) \/ Hangup(t) \/ TurnAway(t)
         \/ \E question : Arrive(t, question)
         \/ \E answer : Answered(t, answer)
  PROVE  TurnOK'
<1> USE DEF TurnOK
<1>1. ASSUME \/ Unreadable(t) \/ RoutesChanged(t) PROVE TurnOK'
  <2>1. Goes(t, {"read", "routes"}, {"reply"})
    BY <1>1, PathsToThePolicy, PathsAround DEF Goes
  <2>2. /\ Goes(t, Working, {"reply"}) /\ Goes(t, Places \ Guarded, Places \ Guarded)
        /\ Goes(t, Places \ {"lock"}, Places \ {"lock"}) /\ Goes(t, Places, Places)
        /\ task'[t].at # "image"
    BY <2>1 DEF Goes, Working, Guarded, Places
  <2>3. /\ UNCHANGED <<readers, queue, pending>>
        /\ inFlight' = IF t \in Tcp THEN inFlight \ {t} ELSE inFlight
    BY <1>1 DEF Unreadable, RoutesChanged, Replying, lockVars, policyVars
  <2> QED
    BY <2>2, <2>3, TaskSteps, PermitSteps, GuardSteps, LockSteps
<1>2. ASSUME \/ Refuse(t) \/ Unanswered(t) PROVE TurnOK'
  <2>1. Goes(t, {"decide", "ask", "fallback"}, {"reply"})
    BY <1>2, PathsWithTheGuard DEF Goes
  <2>2. /\ Goes(t, Working, {"reply"}) /\ Goes(t, Guarded, Places \ Guarded)
        /\ Goes(t, Places \ {"lock"}, Places \ {"lock"}) /\ Goes(t, Places, Places)
        /\ task'[t].at # "image"
    BY <2>1 DEF Goes, Working, Guarded, Places
  <2>3. /\ UNCHANGED <<queue, pending>> /\ readers' = readers \ {t}
        /\ inFlight' = IF t \in Tcp THEN inFlight \ {t} ELSE inFlight
    BY <1>2 DEF Refuse, Unanswered, DropGuard, Replying, policyVars
  <2> QED
    BY <2>2, <2>3, TaskSteps, PermitSteps, GuardSteps, LockSteps
<1>3. ASSUME \/ Choose(t) \/ Source(t) \/ LookUp(t) \/ Remember(t) \/ Truncated(t) PROVE TurnOK'
  <2>1. Goes(t, Guarded, {"source", "ask", "lookup", "remember", "fallback"})
    BY <1>3, PathsWithTheGuard DEF Goes, Guarded
  <2>2. /\ Goes(t, Working, Working) /\ Goes(t, Guarded, Guarded)
        /\ Goes(t, Places \ {"lock"}, Places \ {"lock"}) /\ Goes(t, Places, Places)
        /\ task'[t].at # "image"
    BY <2>1 DEF Goes, Working, Guarded, Places
  <2>3. UNCHANGED <<readers, queue, pending, inFlight>>
    BY <1>3 DEF Choose, Source, LookUp, Remember, Truncated, lockVars, policyVars
  <2> QED
    BY <2>2, <2>3, TaskSteps, PermitSteps, GuardSteps, LockSteps
<1>4. ASSUME \/ Accept(t) \/ Hangup(t) \/ TurnAway(t) PROVE TurnOK'
  <2>1. Goes(t, {"idle", "closed"}, {"idle", "closed"})
    BY <1>4, PathsAround DEF Goes
  <2>2. /\ Goes(t, Places \ Guarded, Places \ Guarded)
        /\ Goes(t, Places \ {"lock"}, Places \ {"lock"}) /\ Goes(t, Places, Places)
        /\ task'[t].at # "image"
    BY <2>1 DEF Goes, Working, Guarded, Places
  <2>3. UNCHANGED <<readers, queue, pending, inFlight>>
    BY <1>4 DEF Accept, Hangup, TurnAway, lockVars, policyVars
  <2> QED
    BY <2>1, <2>2, <2>3, TaskSteps, PermitSteps, GuardSteps, LockSteps
<1>5. ASSUME NEW answer, Answered(t, answer) PROVE TurnOK'
  <2>1. Goes(t, {"ask", "fallback"}, {"record"})
    BY <1>5, PathsWithTheGuard
  <2>2. /\ Goes(t, Working, Working) /\ Goes(t, Guarded, Places \ Guarded)
        /\ Goes(t, Places \ {"lock"}, Places \ {"lock"}) /\ Goes(t, Places, Places)
        /\ task'[t].at # "image"
    BY <2>1 DEF Goes, Working, Guarded, Places
  <2>3. UNCHANGED <<queue, pending, inFlight>> /\ readers' = readers \ {t}
    BY <1>5 DEF Answered, DropGuard, policyVars
  <2> QED
    BY <2>2, <2>3, TaskSteps, PermitSteps, GuardSteps, LockSteps
<1>6. ASSUME Record(t) PROVE TurnOK'
  <2>1. Goes(t, {"record"}, {"routes", "reply"}) /\ UNCHANGED <<readers, queue, pending>>
    BY <1>6, PathsAround DEF Record, lockVars, policyVars
  <2>2. /\ Goes(t, Places \ Guarded, Places \ Guarded)
        /\ Goes(t, Places \ {"lock"}, Places \ {"lock"}) /\ Goes(t, Places, Places)
        /\ task'[t].at # "image"
    BY <2>1 DEF Goes, Working, Guarded, Places
  <2>3. PermitsOK'
    <3>1. CASE IsNews(task[t].found)
      <4>1. Goes(t, Working, Working) /\ inFlight' = inFlight
        BY <1>6, <2>1, <3>1, GotoGoes DEF Record, Goes, Working
      <4> QED
        BY <4>1, PermitSteps
    <3>2. CASE ~ IsNews(task[t].found)
      <4>1. Goes(t, Working, {"reply"})
        BY <1>6, <2>1, <3>2, ReplyingGoes DEF Record, Goes, Working
      <4>2. inFlight' = IF t \in Tcp THEN inFlight \ {t} ELSE inFlight
        BY <1>6, <3>2 DEF Record, Replying
      <4> QED
        BY <4>1, <4>2, PermitSteps
    <3> QED
      BY <3>1, <3>2
  <2> QED
    BY <2>1, <2>2, <2>3, TaskSteps, GuardSteps, LockSteps
<1>7. ASSUME NEW question, Arrive(t, question) PROVE TurnOK'
  <2>1. Goes(t, {"idle"}, {"read"})
    BY <1>7, PathsAround
  <2>2. /\ Goes(t, Places \ Guarded, Places \ Guarded)
        /\ Goes(t, Places \ {"lock"}, Places \ {"lock"}) /\ Goes(t, Places, Places)
        /\ task'[t].at # "image"
    BY <2>1 DEF Goes, Working, Guarded, Places
  <2>3. /\ UNCHANGED <<readers, queue, pending>>
        /\ inFlight' = inFlight \cup {t} /\ Cardinality(inFlight) < MaxInFlight
    BY <1>7 DEF Arrive, lockVars, policyVars
  <2> QED
    BY <2>1, <2>2, <2>3, TaskSteps, PermitSteps, GuardSteps, LockSteps
<1>8. ASSUME Reply(t) PROVE TurnOK'
  <2>1. Goes(t, {"reply"}, {"idle"})
    BY <1>8, PathsAround
  <2>2. /\ Goes(t, Places \ Guarded, Places \ Guarded)
        /\ Goes(t, Places \ {"lock"}, Places \ {"lock"}) /\ Goes(t, Places, Places)
        /\ task'[t].at # "image"
    BY <2>1 DEF Goes, Working, Guarded, Places
  <2>3. UNCHANGED <<readers, queue, pending>> /\ inFlight' = inFlight \ {t}
    BY <1>8 DEF Reply, lockVars, policyVars
  <2> QED
    BY <2>1, <2>2, <2>3, TaskSteps, PermitSteps, GuardSteps, LockSteps
<1>9. ASSUME NEW local, DOMAIN local = Fields, TakeGuard(t, local),
             task[t].at \in {"read", "image"}, UNCHANGED <<pending, inFlight>>
      PROVE  TurnOK'
  <2>1. /\ Goes(t, {"read", "image"}, {"decide", "lock"})
        /\ \/ task'[t].at = "decide" /\ readers' = readers \cup {t} /\ queue' = queue
           \/ task'[t].at = "lock" /\ readers' = readers /\ queue' = Append(queue, t)
    BY <1>9, TakeGuardGoes DEF Goes
  <2>2. /\ Goes(t, Working, Working) /\ Goes(t, Places, Places) /\ task'[t].at # "image"
    BY <2>1 DEF Goes, Working, Places
  <2>3. CASE task'[t].at = "decide"
    <3>1. /\ Goes(t, Places \ Guarded, Guarded) /\ readers' = readers \cup {t}
          /\ Goes(t, Places \ {"lock"}, Places \ {"lock"}) /\ queue' = queue
      BY <2>1, <2>3 DEF Goes, Working, Guarded, Places
    <3> QED
      BY <1>9, <2>2, <3>1, TaskSteps, PermitSteps, GuardSteps, LockSteps
  <2>4. CASE task'[t].at = "lock"
    <3>1. /\ Goes(t, Places \ Guarded, Places \ Guarded) /\ readers' = readers
          /\ Goes(t, Places \ {"lock"}, {"lock"}) /\ queue' = Append(queue, t)
      BY <2>1, <2>4 DEF Goes, Working, Guarded, Places
    <3> QED
      BY <1>9, <2>2, <3>1, TaskSteps, PermitSteps, GuardSteps, LockSteps
  <2> QED
    BY <2>1, <2>3, <2>4
<1>10. ASSUME Identify(t) PROVE TurnOK'
  <2>1. PICK pid \in Pids \cup {Nothing} :
          LET local == [task[t] EXCEPT !.process = pid] IN
            IF pid = Nothing
            THEN TakeGuard(t, local)
            ELSE IF pid \in DOMAIN images
            THEN TakeGuard(t, [local EXCEPT !.asker = images[pid]])
            ELSE Become(t, [local EXCEPT !.at = "image"]) /\ UNCHANGED lockVars
    BY <1>10 DEF Identify
  <2> DEFINE local == [task[t] EXCEPT !.process = pid]
             there == [local EXCEPT !.at = "image"]
  <2>2. /\ DOMAIN local = Fields /\ DOMAIN [local EXCEPT !.asker = images[pid]] = Fields
        /\ DOMAIN there = Fields /\ there.at = "image" /\ there.process = pid
    BY DEF TasksOK, Fields
  <2>3. \/ TakeGuard(t, local) \/ TakeGuard(t, [local EXCEPT !.asker = images[pid]])
        \/ pid \in Pids /\ Become(t, there) /\ UNCHANGED lockVars
    BY <2>1
  <2> HIDE DEF local, there
  <2>4. task[t].at = "read" /\ UNCHANGED <<pending, inFlight>>
    BY <1>10 DEF Identify, At, policyVars
  <2>5. CASE pid \in Pids /\ Become(t, there) /\ UNCHANGED lockVars
    <3>1. Goes(t, {"read"}, {"image"}) /\ task'[t] = there
      BY <2>2, <2>4, <2>5, BecomeGoes
    <3>2. /\ Goes(t, Working, Working) /\ Goes(t, Places \ Guarded, Places \ Guarded)
          /\ Goes(t, Places \ {"lock"}, Places \ {"lock"}) /\ Goes(t, Places, Places)
      BY <3>1 DEF Goes, Working, Guarded, Places
    <3>3. task'[t].process \in Pids
      BY <2>2, <2>5, <3>1
    <3>4. UNCHANGED <<readers, queue>>
      BY <2>5 DEF lockVars
    <3> QED
      BY <2>4, <3>2, <3>3, <3>4, TaskSteps, PermitSteps, GuardSteps, LockSteps
  <2> QED
    BY <1>9, <2>2, <2>3, <2>4, <2>5
<1>11. ASSUME Name(t) PROVE TurnOK'
  <2>1. PICK program : TakeGuard(t, [task[t] EXCEPT !.asker = program])
    BY <1>11 DEF Name
  <2>2. DOMAIN [task[t] EXCEPT !.asker = program] = Fields
    BY DEF TasksOK
  <2>3. task[t].at = "image" /\ UNCHANGED <<pending, inFlight>>
    BY <1>11 DEF Name, At, policyVars
  <2> QED
    BY <1>9, <2>1, <2>2, <2>3
<1>12. ASSUME Admit(t) PROVE TurnOK'
  <2>1. Goes(t, {"lock"}, {"decide"})
    BY <1>12, PathsToThePolicy
  <2>2. /\ Goes(t, Working, Working) /\ Goes(t, Places \ Guarded, Guarded)
        /\ Goes(t, {"lock"}, Places \ {"lock"}) /\ Goes(t, Places, Places)
        /\ task'[t].at # "image"
    BY <2>1 DEF Goes, Working, Guarded, Places
  <2>3. /\ queue # <<>> /\ Head(queue) = t /\ queue' = Tail(queue)
        /\ readers' = readers \cup {t} /\ UNCHANGED <<pending, inFlight>>
    BY <1>12 DEF Admit, policyVars
  <2> QED
    BY <2>2, <2>3, TaskSteps, PermitSteps, GuardSteps, LockSteps
<1> HIDE DEF TurnOK
<1> QED
  BY <1>1, <1>2, <1>3, <1>4, <1>5, <1>6, <1>7, <1>8, <1>10, <1>11, <1>12 DEF Continue

LEMMA InstallTurns ==
  ASSUME TurnOK, (\E input : Install(input)) \/ Swap \/ Refresh
  PROVE  TurnOK'
<1>1. /\ queue \in Seq(Tasks \cup {Installer}) /\ Range(queue) = Waiting /\ IsInjective(queue)
      /\ pending \in Acceptable \cup {Refreshing, Nothing} /\ Installer \notin At("lock")
      /\ Acceptable \subseteq Inputs
  BY DEF TurnOK, LockOK, At, Acceptable
<1>2. Acceptable' = Acceptable
  BY DEF Acceptable
<1>3. ASSUME UNCHANGED <<task, inFlight, readers>>, LockOK' PROVE TurnOK'
  BY <1>3 DEF TurnOK, TasksOK, PermitsOK, Permitted, GuardsOK
<1>4. ASSUME NEW input, Install(input) PROVE TurnOK'
  <2>1. Waiting' = Waiting \cup {Installer} /\ Installer \notin Waiting
    BY <1>1, <1>4 DEF Install, Waiting, At
  <2>2. /\ Append(queue, Installer) \in Seq(Tasks \cup {Installer})
        /\ Range(Append(queue, Installer)) = Waiting \cup {Installer}
        /\ IsInjective(Append(queue, Installer))
    BY <1>1, <2>1, JoinLine
  <2>3. LockOK'
    BY <1>2, <1>4, <2>1, <2>2 DEF Install, LockOK
  <2> QED
    BY <1>3, <1>4, <2>3 DEF Install
<1>5. ASSUME Swap PROVE TurnOK'
  <2>1. Waiting' = Waiting \ {Installer}
    BY <1>1, <1>5 DEF Swap, Waiting, At
  <2>2. /\ Tail(queue) \in Seq(Tasks \cup {Installer})
        /\ Range(Tail(queue)) = Waiting \ {Installer} /\ IsInjective(Tail(queue))
    BY <1>1, <1>5, LeaveLine DEF Swap
  <2>3. LockOK'
    BY <1>2, <1>5, <2>1, <2>2 DEF Swap, LockOK
  <2> QED
    BY <1>3, <1>5, <2>3 DEF Swap
<1>6. ASSUME Refresh PROVE TurnOK'
  <2>1. Waiting' = Waiting
    BY <1>1, <1>6 DEF Refresh, Waiting, At, lockVars
  <2>2. LockOK'
    BY <1>1, <1>6, <2>1 DEF Refresh, LockOK, lockVars
  <2> QED
    BY <1>3, <1>6, <2>2 DEF Refresh, lockVars
<1> QED
  BY <1>4, <1>5, <1>6

-----------------------------------------------------------------------------
(* Who asked.                                                               *)

\* What a step may do to what is known of the machine's programs.
Rereads(p) ==
  /\ reading' = [reading EXCEPT ![p] = owner[p]] /\ age' = [age EXCEPT ![p] = 0]
  /\ UNCHANGED <<owner, running, images>>

Keeps(pid) == KeepImage(pid, running[pid]) /\ UNCHANGED <<owner, running, reading, age>>

AskersMove ==
  \/ UNCHANGED askerVars
  \/ \E p \in Protocols : Rereads(p)
  \/ \E pid \in Pids : Keeps(pid)
  \/ \E p \in Protocols, port \in Ports, pid \in Pids \cup {Nothing} : Rebind(p, port, pid)
  \/ \E pid \in Pids, program \in Programs : Reuse(pid, program)
  \/ Tick

LEMMA AskersMoves ==
  ASSUME TasksOK, [Next]_vars
  PROVE  AskersMove
<1>1. ASSUME NEW t \in Tasks, Identify(t) PROVE AskersMove
  <2>1. Protocol(t) \in Protocols
    BY DEF Protocol, Protocols
  <2>2. UNCHANGED askerVars \/ Rereads(Protocol(t))
    BY <1>1 DEF Identify, OwnerOf, ReadTable, Rereads
  <2> QED
    BY <2>1, <2>2 DEF AskersMove
<1>2. ASSUME NEW t \in Tasks, Name(t) PROVE AskersMove
  <2>1. task[t].process \in Pids
    BY <1>2 DEF Name, At, TasksOK
  <2>2. UNCHANGED askerVars \/ Keeps(task[t].process)
    BY <1>2 DEF Name, ImageOf, Keeps
  <2> QED
    BY <2>1, <2>2 DEF AskersMove
<1>3. ASSUME NEW t \in Tasks, \/ Unreadable(t) \/ Admit(t) \/ Refuse(t) \/ Choose(t) \/ Source(t)
      PROVE  UNCHANGED askerVars
  BY <1>3 DEF Unreadable, Admit, Refuse, Choose, Source
<1>4. ASSUME NEW t \in Tasks,
             \/ LookUp(t) \/ Remember(t) \/ Unanswered(t)
             \/ Record(t) \/ RoutesChanged(t) \/ Reply(t)
      PROVE  UNCHANGED askerVars
  BY <1>4 DEF LookUp, Remember, Unanswered, Record, RoutesChanged, Reply
<1>5. ASSUME NEW t \in Tasks, \/ \E question : Arrive(t, question)
                              \/ \E answer : Answered(t, answer)
                              \/ Truncated(t) \/ Accept(t) \/ Hangup(t) \/ TurnAway(t)
      PROVE  UNCHANGED askerVars
  BY <1>5 DEF Arrive, Answered, Truncated, Accept, Hangup, TurnAway
<1>6. ASSUME \/ \E a : Expire(a) \/ LineMoves(a)
             \/ \E input : Install(input)
             \/ Swap \/ Refresh \/ LineReported \/ UNCHANGED vars
      PROVE  UNCHANGED askerVars
  BY <1>6 DEF Expire, LineMoves, Install, Swap, Refresh, LineReported, vars
<1>7. ASSUME MachineChanges PROVE AskersMove
  BY <1>7 DEF MachineChanges, AskersMove
<1>8. ASSUME \E t \in Tasks : Continue(t) PROVE AskersMove
  BY <1>1, <1>2, <1>3, <1>4, <1>8 DEF Continue, AskersMove
<1>9. Tcp \subseteq Tasks
  BY DEF Tasks
<1> QED
  BY <1>5, <1>6, <1>7, <1>8, <1>9 DEF Next, AskersMove

LEMMA AskersKept ==
  ASSUME AskersOK, TasksOK, [Next]_vars
  PROVE  AskersOK'
<1> USE DEF AskersOK, AskersTypeOK
<1>1. CASE UNCHANGED askerVars
  BY <1>1 DEF askerVars
<1>2. ASSUME NEW p \in Protocols, Rereads(p) PROVE AskersOK'
  <2>1. age' \in [Protocols -> 0..TableTtl]
    BY <1>2 DEF Rereads
  <2>2. \A q \in Protocols : reading'[q] = Nothing \/ reading'[q] \in Owners
    BY <1>2 DEF Rereads
  <2> QED
    BY <1>2, <2>1, <2>2 DEF Rereads
<1>3. ASSUME NEW pid \in Pids, Keeps(pid) PROVE AskersOK'
  <2> DEFINE rest == IF Cardinality(DOMAIN images) >= MaxImages THEN {} ELSE DOMAIN images
  <2>1. /\ DOMAIN images' = {pid} \cup rest
        /\ \A q \in DOMAIN images' : images'[q] = IF q = pid THEN running[pid] ELSE images[q]
    BY <1>3 DEF Keeps, KeepImage
  <2>2. /\ rest \subseteq DOMAIN images /\ IsFiniteSet(rest)
        /\ Cardinality(rest) \in Nat /\ Cardinality(rest) < MaxImages
    <3>1. CASE Cardinality(DOMAIN images) >= MaxImages
      BY <3>1, FS_EmptySet
    <3>2. CASE ~ (Cardinality(DOMAIN images) >= MaxImages)
      <4>1. Cardinality(DOMAIN images) \in Nat
        BY FS_CardinalityType
      <4>2. rest = DOMAIN images
        BY <3>2
      <4> QED
        BY <3>2, <4>1, <4>2
    <3> QED
      BY <3>1, <3>2
  <2> HIDE DEF rest
  <2>3. DOMAIN images' = rest \cup {pid}
    BY <2>1
  <2>4. /\ IsFiniteSet(rest \cup {pid})
        /\ Cardinality(rest \cup {pid}) = IF pid \in rest THEN Cardinality(rest)
                                          ELSE Cardinality(rest) + 1
    BY <2>2, FS_AddElement
  <2>5. IsFiniteSet(DOMAIN images') /\ Cardinality(DOMAIN images') <= MaxImages
    BY <2>2, <2>3, <2>4
  <2>6. DOMAIN images' \subseteq Pids /\ Range(images') \subseteq Programs
    BY <2>1, <2>2 DEF Range
  <2> QED
    BY <1>3, <2>5, <2>6 DEF Keeps
<1>4. ASSUME NEW p \in Protocols, NEW port \in Ports, NEW pid \in Pids \cup {Nothing},
             Rebind(p, port, pid)
      PROVE  AskersOK'
  BY <1>4 DEF Rebind, Owners
<1>5. ASSUME NEW pid \in Pids, NEW program \in Programs, Reuse(pid, program) PROVE AskersOK'
  BY <1>5 DEF Reuse
<1>6. ASSUME Tick PROVE AskersOK'
  <2>1. \A p \in Protocols : Min({age[p] + 1, TableTtl}) \in 0..TableTtl
    <3> TAKE p \in Protocols
    <3>1. age[p] \in 0..TableTtl /\ age[p] + 1 \in Nat /\ TableTtl \in Nat
      OBVIOUS
    <3> QED
      BY <3>1, LeastOfTwo
  <2>2. age' \in [Protocols -> 0..TableTtl]
    BY <1>6, <2>1 DEF Tick, AskersTick
  <2> QED
    BY <1>6, <2>2 DEF Tick, AskersTick
<1> QED
  BY <1>1, <1>2, <1>3, <1>4, <1>5, <1>6, AskersMoves DEF AskersMove

LEMMA HeldKept ==
  ASSUME AskersOK, TasksOK, HeldOK, HistNext
  PROVE  HeldOK'
<1> SUFFICES ASSUME NEW p \in Protocols, NEW port \in Ports, NEW pid \in Pids
             PROVE  /\ since'[p][port][pid] \in 0..TableTtl
                    /\ owner'[p][port] = pid => since'[p][port][pid] = 0
                    /\ reading'[p] # Nothing /\ reading'[p][port] = pid
                          => since'[p][port][pid] <= age'[p]
  BY DEF HeldOK
<1>1. since'[p][port][pid] = IF pid \in {owner[p][port], owner'[p][port]} THEN 0
                             ELSE IF Tick THEN Min({since[p][port][pid] + 1, TableTtl})
                             ELSE since[p][port][pid]
  BY DEF HistNext
<1>2. /\ since[p][port][pid] \in 0..TableTtl /\ TableTtl \in Nat
      /\ owner[p][port] = pid => since[p][port][pid] = 0
      /\ reading[p] # Nothing /\ reading[p][port] = pid => since[p][port][pid] <= age[p]
  BY DEF HeldOK
<1>3. age[p] \in 0..TableTtl /\ DOMAIN age = Protocols /\ DOMAIN reading = Protocols
      /\ AskersMove
  BY AskersMoves DEF AskersOK, AskersTypeOK, HistNext
<1>4. CASE Tick
  <2>1. /\ owner' = owner /\ reading' = reading /\ age'[p] = Min({age[p] + 1, TableTtl})
    BY <1>4 DEF Tick, AskersTick
  <2>2. /\ age'[p] = IF age[p] + 1 <= TableTtl THEN age[p] + 1 ELSE TableTtl
        /\ Min({since[p][port][pid] + 1, TableTtl})
             = IF since[p][port][pid] + 1 <= TableTtl THEN since[p][port][pid] + 1 ELSE TableTtl
    BY <1>2, <1>3, <2>1, LeastOfTwo
  <2> QED
    BY <1>1, <1>2, <1>3, <1>4, <2>1, <2>2
<1>5. CASE ~ Tick
  <2>1. /\ since'[p][port][pid] \in 0..TableTtl
        /\ owner'[p][port] = pid => since'[p][port][pid] = 0
        /\ since'[p][port][pid] <= since[p][port][pid]
        /\ owner[p][port] = pid => since'[p][port][pid] = 0
    BY <1>1, <1>2, <1>5
  <2>2. CASE UNCHANGED <<reading, age>>
    BY <1>2, <1>3, <2>1, <2>2
  <2>3. ASSUME NEW q \in Protocols, Rereads(q)
        PROVE  reading'[p] # Nothing /\ reading'[p][port] = pid => since'[p][port][pid] <= age'[p]
    <3>1. CASE q = p
      <4>1. reading'[p] = owner[p] /\ age'[p] = 0
        BY <1>3, <2>3, <3>1 DEF Rereads
      <4> QED
        BY <2>1, <4>1
    <3>2. CASE q # p
      <4>1. reading'[p] = reading[p] /\ age'[p] = age[p]
        BY <1>3, <2>3, <3>2 DEF Rereads
      <4> QED
        BY <1>2, <1>3, <2>1, <4>1
    <3> QED
      BY <3>1, <3>2
  <2>4. (\E q \in Protocols : Rereads(q)) \/ UNCHANGED <<reading, age>>
    BY <1>3, <1>5 DEF AskersMove, askerVars, Keeps, Rebind, Reuse
  <2> QED
    BY <2>1, <2>2, <2>3, <2>4
<1> QED
  BY <1>4, <1>5

-----------------------------------------------------------------------------
(* The line.                                                                *)

LEMMA LineSteps ==
  ASSUME HistNext
  PROVE  \/ UNCHANGED line /\ lately' = lately \cup {lineAddress'}
         \/ /\ LineReported /\ line' = line + 1
            /\ lately' = {lineAddress} /\ lineAddress' = lineAddress
<1>1. lately' = IF line' # line THEN {lineAddress} ELSE lately \cup {lineAddress'}
  BY DEF HistNext
<1>2. CASE LineReported
  <2>1. line' = line + 1 /\ lineAddress' = lineAddress
    BY <1>2 DEF LineReported
  <2> QED
    BY <1>1, <1>2, <2>1
<1>3. CASE ~ LineReported
  <2>1. ASSUME NEW t \in Tasks, Continue(t) PROVE UNCHANGED line
    BY <2>1 DEF Continue, Unreadable, Identify, Name, Admit, Refuse, Choose, Source, LookUp,
                Remember, Unanswered, Record, RoutesChanged, Reply, lineVars
  <2>2. ASSUME NEW t, \/ \E question : Arrive(t, question)
                      \/ \E answer : Answered(t, answer)
                      \/ Truncated(t) \/ Accept(t) \/ Hangup(t) \/ TurnAway(t)
        PROVE  UNCHANGED line
    BY <2>2 DEF Arrive, Answered, Truncated, Accept, Hangup, TurnAway, lineVars
  <2>3. ASSUME \/ \E a : Expire(a) \/ LineMoves(a)
               \/ \E input : Install(input)
               \/ Swap \/ Refresh \/ MachineChanges \/ Tick
        PROVE  UNCHANGED line
    BY <2>3 DEF Expire, LineMoves, Install, Swap, Refresh, MachineChanges, Tick, lineVars
  <2>4. UNCHANGED line
    BY <1>3, <2>1, <2>2, <2>3 DEF HistNext, Next
  <2> QED
    BY <1>1, <2>4
<1> QED
  BY <1>2, <1>3

\* What is known of the line is written by nobody but the task that looked it up.
LEMMA SourcesSteps ==
  ASSUME [Next]_vars
  PROVE  sources' = sources \/ \E t \in Tasks : Remember(t)
<1>1. ASSUME NEW t \in Tasks, Continue(t), ~ Remember(t) PROVE UNCHANGED sources
  BY <1>1 DEF Continue, Unreadable, Identify, Name, Admit, Refuse, Choose, Source, LookUp,
              Unanswered, Record, RoutesChanged, Reply, lineVars
<1>2. ASSUME NEW t, \/ \E question : Arrive(t, question)
                    \/ \E answer : Answered(t, answer)
                    \/ Truncated(t) \/ Accept(t) \/ Hangup(t) \/ TurnAway(t)
      PROVE  UNCHANGED sources
  BY <1>2 DEF Arrive, Answered, Truncated, Accept, Hangup, TurnAway, lineVars
<1>3. ASSUME \/ \E a : Expire(a) \/ LineMoves(a)
             \/ \E input : Install(input)
             \/ Swap \/ Refresh \/ LineReported \/ MachineChanges \/ Tick \/ UNCHANGED vars
      PROVE  UNCHANGED sources
  BY <1>3 DEF Expire, LineMoves, Install, Swap, Refresh, LineReported, MachineChanges, Tick, vars,
              lineVars
<1> QED
  BY <1>1, <1>2, <1>3 DEF Next

LEMMA SourcesKept ==
  ASSUME SourcesOK, LookedOK, TasksOK, HistNext
  PROVE  SourcesOK'
<1>1. /\ line \in Nat /\ lineAddress \in lately
      /\ \A d \in DOMAIN sources :
          /\ sources[d].line \in Nat /\ sources[d].line <= line
          /\ sources[d].line = line => sources[d].from \in lately
  BY DEF SourcesOK
<1>2. CASE sources' = sources
  <2>1. CASE UNCHANGED line /\ lately' = lately \cup {lineAddress'}
    BY <1>1, <1>2, <2>1 DEF SourcesOK
  <2>2. CASE line' = line + 1 /\ lately' = {lineAddress} /\ lineAddress' = lineAddress
    <3>1. line' \in Nat /\ lineAddress' \in lately'
      BY <1>1, <2>2
    <3>2. ASSUME NEW d \in DOMAIN sources PROVE sources[d].line <= line' /\ sources[d].line # line'
      BY <1>1, <2>2
    <3> QED
      BY <1>1, <1>2, <3>1, <3>2 DEF SourcesOK
  <2> QED
    BY <2>1, <2>2, LineSteps
<1>3. ASSUME NEW t \in Tasks, Remember(t) PROVE SourcesOK'
  <2>1. /\ UNCHANGED <<line, lineAddress>> /\ lately \subseteq lately'
    BY <1>1, <1>3, LineSteps DEF Remember
  <2>2. /\ task[t].saw \in Nat /\ task[t].saw <= line
        /\ task[t].saw = line => task[t].from \in lately
    BY <1>3 DEF LookedOK, Remember, At
  <2>3. PICK to : sources' = [d \in DOMAIN sources \cup {to} |->
                    IF d = to THEN [line |-> task[t].saw, from |-> task[t].from] ELSE sources[d]]
    BY <1>3 DEF Remember, Under
  <2>4. ASSUME NEW d \in DOMAIN sources'
        PROVE  /\ sources'[d].line \in Nat /\ sources'[d].line <= line
               /\ sources'[d].line = line => sources'[d].from \in lately
    <3>1. CASE d = to
      <4>1. sources'[d].line = task[t].saw /\ sources'[d].from = task[t].from
        BY <2>3, <2>4, <3>1
      <4> QED
        BY <2>2, <4>1
    <3>2. CASE d # to
      <4>1. d \in DOMAIN sources /\ sources'[d] = sources[d]
        BY <2>3, <2>4, <3>2
      <4> QED
        BY <1>1, <4>1
    <3> QED
      BY <3>1, <3>2
  <2> QED
    BY <1>1, <2>1, <2>4 DEF SourcesOK
<1> QED
  BY <1>2, <1>3, SourcesSteps DEF HistNext

Looked(t) ==
  /\ t \in At("lookup") \cup At("remember") => task[t].saw \in Nat /\ task[t].saw <= line
  /\ t \in At("lookup") => possible[t] = {} \/ lineAddress \in possible[t]
  /\ t \in At("remember") =>
        /\ task[t].saw = line => task[t].from \in lately
        /\ possible[t] = {} \/ task[t].from \in possible[t]
  /\ t \in At("ask") \cup At("fallback") =>
        possible[t] = {} \/ task[t].from \in possible[t]
  /\ t \notin At("lookup") \cup At("remember") \cup At("ask") \cup At("fallback")
        => possible[t] = {}

LEMMA PossibleStep ==
  ASSUME HistNext, NEW t \in Tasks
  PROVE  possible'[t] = IF task'[t].at \notin Guarded THEN {}
                        ELSE IF task[t].at = "source" /\ task'[t].at # "source" THEN lately
                        ELSE IF possible[t] = {} THEN {} ELSE possible[t] \cup {lineAddress'}
BY DEF HistNext, At

\* The others' steps, and the line's.
LEMMA OthersLook ==
  ASSUME SourcesOK, HistNext, NEW t \in Tasks, Looked(t), task'[t] = task[t]
  PROVE  Looked(t)'
<1>1. possible'[t] = IF task[t].at \notin Guarded \/ possible[t] = {} THEN {}
                     ELSE possible[t] \cup {lineAddress'}
  BY PossibleStep
<1>2. line \in Nat
  BY DEF SourcesOK
<1>3. CASE UNCHANGED line /\ lately' = lately \cup {lineAddress'}
  BY <1>1, <1>2, <1>3 DEF Looked, At, Guarded
<1>4. CASE line' = line + 1 /\ lately' = {lineAddress} /\ lineAddress' = lineAddress
  <2>1. task[t].saw \in Nat /\ task[t].saw <= line => task[t].saw <= line' /\ task[t].saw # line'
    BY <1>2, <1>4
  <2> QED
    BY <1>1, <1>2, <1>4, <2>1 DEF Looked, At, Guarded
<1> QED
  BY <1>3, <1>4, LineSteps

LEMMA LookedKept ==
  ASSUME SourcesOK, LookedOK, TasksOK, LockOK, HistNext
  PROVE  LookedOK'
<1> DEFINE Elsewhere == Places \ {"source", "lookup", "remember", "ask", "fallback"}
<1>1. \A t \in Tasks : Looked(t)
  BY DEF LookedOK, Looked
<1>2. SUFFICES \A t \in Tasks : Looked(t)'
  BY DEF LookedOK, Looked
<1>3. ASSUME NEW t \in Tasks, NEW there, Goes(t, there, Places \ Guarded)
      PROVE  \A u \in Tasks : Looked(u)'
  <2>1. possible'[t] = {} /\ task'[t].at \notin Guarded
    BY <1>3, PossibleStep DEF Goes
  <2>2. Looked(t)'
    BY <2>1 DEF Looked, At, Guarded
  <2> QED
    BY <1>1, <1>3, <2>2, OthersLook DEF Goes
<1>4. ASSUME NEW t \in Tasks, Goes(t, Elsewhere, Places \ {"lookup", "remember"})
      PROVE  \A u \in Tasks : Looked(u)'
  <2>1. task[t].at \notin {"source", "lookup", "remember", "ask", "fallback"}
    BY <1>4 DEF Goes
  <2>2. possible[t] = {}
    BY <1>1, <2>1 DEF Looked, At
  <2>3. possible'[t] = {} /\ task'[t].at \notin {"lookup", "remember"}
    BY <1>4, <2>1, <2>2, PossibleStep DEF Goes
  <2>4. Looked(t)'
    BY <2>3 DEF Looked, At
  <2> QED
    BY <1>1, <1>4, <2>4, OthersLook DEF Goes
<1>5. ASSUME UNCHANGED task PROVE \A u \in Tasks : Looked(u)'
  BY <1>1, <1>5, OthersLook
<1>6. ASSUME NEW t \in Tasks, Source(t) PROVE \A u \in Tasks : Looked(u)'
  <2>1. Goes(t, {"source"}, {"ask", "lookup"}) /\ UNCHANGED <<line, lineAddress>>
    BY <1>6, PathsWithTheGuard DEF Source, lineVars
  <2>2. possible'[t] = lately /\ lineAddress \in lately /\ line \in Nat
    BY <2>1, PossibleStep DEF Goes, Guarded, SourcesOK
  <2>3. CASE task'[t].at = "ask"
    <3>1. PICK d \in DOMAIN sources :
              /\ sources[d].line = line
              /\ task' = [task EXCEPT ![t] = [task[t] EXCEPT !.from = sources[d].from,
                                                             !.at = "ask"]]
      <4>1. DOMAIN task = Tasks /\ DOMAIN task[t] = Fields
        BY DEF TasksOK
      <4>2. task' # [task EXCEPT ![t] = [task[t] EXCEPT !.saw = line, !.at = "lookup"]]
        BY ONLY <2>3, <4>1 DEF Fields
      <4> QED
        BY <1>6, <4>2 DEF Source, Become
    <3>2. task'[t].from = sources[d].from
      BY <3>1 DEF TasksOK, Fields
    <3>3. task'[t].from \in possible'[t]
      BY <2>2, <3>1, <3>2 DEF SourcesOK
    <3>4. Looked(t)'
      BY <2>3, <3>3 DEF Looked, At
    <3> QED
      BY <1>1, <2>1, <3>4, OthersLook DEF Goes
  <2>4. CASE task'[t].at = "lookup"
    <3>1. task'[t].saw = line
      BY <1>6, <2>4 DEF Source, Become, TasksOK, Fields
    <3>2. Looked(t)'
      BY <2>1, <2>2, <2>4, <3>1 DEF Looked, At
    <3> QED
      BY <1>1, <2>1, <3>2, OthersLook DEF Goes
  <2> QED
    BY <2>1, <2>3, <2>4 DEF Goes
<1>7. ASSUME NEW t \in Tasks, LookUp(t) PROVE \A u \in Tasks : Looked(u)'
  <2>1. Goes(t, {"lookup"}, {"remember"}) /\ UNCHANGED <<line, lineAddress>>
    BY <1>7, PathsWithTheGuard DEF LookUp, lineVars
  <2>2. task'[t].saw = task[t].saw /\ task'[t].from = lineAddress
    BY <1>7 DEF LookUp, Become, TasksOK, Fields
  <2>3. lineAddress \in lately'
    BY <2>1, LineSteps DEF SourcesOK
  <2>4. possible'[t] = {} \/ lineAddress \in possible'[t]
    BY <2>1, PossibleStep DEF Goes
  <2>5. task[t].saw \in Nat /\ task[t].saw <= line
    BY <1>1, <2>1 DEF Looked, At, Goes
  <2>6. Looked(t)'
    BY <2>1, <2>2, <2>3, <2>4, <2>5 DEF Looked, At, Goes
  <2> QED
    BY <1>1, <2>1, <2>6, OthersLook DEF Goes
<1>8. ASSUME NEW t \in Tasks, Remember(t) \/ Truncated(t) PROVE \A u \in Tasks : Looked(u)'
  <2>1. Goes(t, {"remember", "ask"}, {"ask", "fallback"})
    BY <1>8, PathsWithTheGuard DEF Goes
  <2>2. task'[t].from = task[t].from
    <3>1. DOMAIN task = Tasks /\ "from" \in DOMAIN task[t]
      BY DEF TasksOK, Fields
    <3>2. \/ task' = [task EXCEPT ![t] = [task[t] EXCEPT !.saw = 0, !.at = "ask"]]
          \/ task' = [task EXCEPT ![t].at = "fallback"]
      BY <1>8 DEF Remember, Truncated, Become, Goto
    <3> QED
      BY ONLY <3>1, <3>2
  <2>3. possible[t] = {} \/ task[t].from \in possible[t]
    BY <1>1, <2>1 DEF Looked, At, Goes
  <2>4. possible'[t] = {} \/ task[t].from \in possible'[t]
    BY <2>1, <2>3, PossibleStep DEF Goes
  <2>5. Looked(t)'
    BY <2>1, <2>2, <2>4 DEF Looked, At, Goes
  <2> QED
    BY <1>1, <2>1, <2>5, OthersLook DEF Goes
<1>9. ASSUME NEW t \in Tasks, NEW answer, Unanswered(t) \/ Answered(t, answer)
      PROVE  \A u \in Tasks : Looked(u)'
  <2>1. Goes(t, {"ask", "fallback"}, Places \ Guarded)
    BY <1>9, PathsWithTheGuard DEF Goes, Places, Working, Guarded
  <2> QED
    BY <1>3, <2>1
<1>10. ASSUME NEW t \in Tasks, \/ Unreadable(t) \/ Identify(t) \/ Name(t) \/ Admit(t)
       PROVE  \A u \in Tasks : Looked(u)'
  <2>1. Goes(t, {"read", "image", "lock"}, {"reply", "image", "decide", "lock"})
    BY <1>10, PathsToThePolicy DEF Goes
  <2>2. Goes(t, Elsewhere, Places \ {"lookup", "remember"})
    BY <2>1 DEF Goes, Places, Working
  <2> QED
    BY <1>4, <2>2
<1>11. ASSUME NEW t \in Tasks, Refuse(t) \/ Choose(t) PROVE \A u \in Tasks : Looked(u)'
  <2>1. Goes(t, {"decide"}, {"reply", "source", "ask"})
    BY <1>11, PathsWithTheGuard DEF Goes
  <2>2. Goes(t, Elsewhere, Places \ {"lookup", "remember"})
    BY <2>1 DEF Goes, Places, Working
  <2> QED
    BY <1>4, <2>2
<1>12. ASSUME NEW t \in Tasks, \/ Record(t) \/ RoutesChanged(t) \/ Reply(t)
                               \/ \E question : Arrive(t, question)
                               \/ Accept(t) \/ Hangup(t) \/ TurnAway(t)
       PROVE  \A u \in Tasks : Looked(u)'
  <2>1. Goes(t, {"record", "routes", "reply", "idle", "closed"},
                {"routes", "reply", "idle", "read", "closed"})
    BY <1>12, PathsAround DEF Goes
  <2>2. Goes(t, Elsewhere, Places \ {"lookup", "remember"})
    BY <2>1 DEF Goes, Places, Working
  <2> QED
    BY <1>4, <2>2
<1>13. ASSUME \/ \E a : Expire(a) \/ LineMoves(a)
              \/ \E input : Install(input)
              \/ Swap \/ Refresh \/ LineReported \/ MachineChanges \/ Tick
       PROVE  UNCHANGED task
  BY <1>13 DEF Expire, LineMoves, Install, Swap, Refresh, LineReported, MachineChanges, Tick
<1>14. ASSUME NEW t \in Tasks, Continue(t) PROVE \A u \in Tasks : Looked(u)'
  BY <1>6, <1>7, <1>8, <1>9, <1>10, <1>11, <1>12, <1>14 DEF Continue
<1>15. Tcp \subseteq Tasks
  BY DEF Tasks
<1> HIDE DEF Elsewhere
<1> QED
  BY <1>5, <1>8, <1>9, <1>12, <1>13, <1>14, <1>15 DEF HistNext, Next

-----------------------------------------------------------------------------
(* The policy in force.                                                     *)

LEMMA ForceKept ==
  ASSUME ForceOK, TurnOK, HistNext
  PROVE  ForceOK'
<1>0. Acceptable' = Acceptable
  BY DEF Acceptable
<1>1. inForce' = IF pending # Refreshing /\ pending' = Refreshing THEN pending ELSE inForce
  BY DEF HistNext
<1>2. ASSUME UNCHANGED policyVars PROVE ForceOK'
  BY <1>0, <1>1, <1>2 DEF ForceOK, policyVars
<1>3. ASSUME NEW input \in Inputs, Install(input) PROVE ForceOK'
  BY <1>3 DEF Install, ForceOK
<1>4. ASSUME Swap PROVE ForceOK'
  <2>1. Installer \in Waiting
    BY <1>4, LeaveLine DEF Swap, TurnOK, LockOK
  <2>2. pending \in Acceptable /\ pending # Refreshing
    BY <2>1 DEF Waiting, At, TurnOK, LockOK, Acceptable
  <2> QED
    BY <1>0, <1>1, <1>4, <2>2 DEF Swap, ForceOK
<1>5. ASSUME Refresh PROVE ForceOK'
  BY <1>5 DEF Refresh, ForceOK
<1>6. ASSUME NEW t \in Tasks, Continue(t) PROVE UNCHANGED policyVars
  BY <1>6 DEF Continue, Unreadable, Identify, Name, Admit, Refuse, Choose, Source, LookUp, Remember,
              Unanswered, Record, RoutesChanged, Reply
<1>7. ASSUME NEW t, \/ \E question : Arrive(t, question)
                    \/ \E answer : Answered(t, answer)
                    \/ Truncated(t) \/ Accept(t) \/ Hangup(t) \/ TurnAway(t)
      PROVE  UNCHANGED policyVars
  BY <1>7 DEF Arrive, Answered, Truncated, Accept, Hangup, TurnAway
<1>8. ASSUME \/ \E a : Expire(a) \/ LineMoves(a)
             \/ LineReported \/ MachineChanges \/ Tick
      PROVE  UNCHANGED policyVars
  BY <1>8 DEF Expire, LineMoves, LineReported, MachineChanges, Tick
<1> QED
  BY <1>2, <1>3, <1>4, <1>5, <1>6, <1>7, <1>8 DEF HistNext, Next

-----------------------------------------------------------------------------
(* The invariants hold.                                                     *)

LEMMA TurnKept ==
  ASSUME TurnOK, [Next]_vars
  PROVE  TurnOK'
<1>1. ASSUME \/ \E a : Expire(a) \/ LineMoves(a)
             \/ LineReported \/ MachineChanges \/ Tick \/ UNCHANGED vars
      PROVE  UNCHANGED <<task, inFlight, readers, queue, pending>>
  BY <1>1 DEF Expire, LineMoves, LineReported, MachineChanges, Tick, vars, lockVars, policyVars
<1>2. Tcp \subseteq Tasks
  BY DEF Tasks
<1> QED
  BY <1>1, <1>2, TurnUntouched, TaskTurns, InstallTurns DEF Next

LEMMA InitCore == ResolverInit => Core
<1> SUFFICES ASSUME ResolverInit PROVE Core
  OBVIOUS
<1>1. AskersOK
  <2>1. DOMAIN images = {} /\ Range(images) = {}
    BY DEF ResolverInit, AskersInit, Range
  <2>2. IsFiniteSet(DOMAIN images) /\ Cardinality(DOMAIN images) = 0
    BY <2>1, FS_EmptySet
  <2> QED
    BY <2>1, <2>2 DEF ResolverInit, AskersInit, AskersOK, AskersTypeOK, Protocols
<1>2. TasksOK
  <2>1. \A t \in Tasks : task[t] = Blank(IF t \in Udp THEN "idle" ELSE "closed")
    BY DEF ResolverInit
  <2>2. \A t \in Tasks : task[t].at \in {"idle", "closed"}
    BY <2>1, BlankShape
  <2> QED
    BY <2>1, <2>2, BlankShape DEF ResolverInit, TasksOK, Places
<1>3. \A t \in Tasks : task[t].at \in {"idle", "closed"}
  BY BlankShape DEF ResolverInit
<1>4. PermitsOK
  <2>1. Permitted = {}
    BY <1>3 DEF Permitted, Working
  <2> QED
    BY <2>1, FS_EmptySet DEF ResolverInit, PermitsOK
<1>5. GuardsOK
  BY <1>3 DEF ResolverInit, GuardsOK, Guarded
<1>6. LockOK
  <2>1. Waiting = {}
    BY <1>3 DEF ResolverInit, Waiting, At
  <2>2. queue \in Seq(Tasks \cup {Installer}) /\ Range(queue) = {} /\ IsInjective(queue)
    BY DEF ResolverInit, Range, IsInjective
  <2> QED
    BY <2>1, <2>2 DEF ResolverInit, LockOK
<1> QED
  BY <1>1, <1>2, <1>4, <1>5, <1>6 DEF Core

LEMMA CoreKept == Core /\ [Next]_vars => Core'
BY TurnKept, AskersKept DEF Core, TurnOK

LEMMA CoreTyped == Core => ResolverTypeOK
BY DEF Core, AskersOK, PermitsOK, Permitted, GuardsOK, LockOK, Waiting, ResolverTypeOK

LEMMA CoreHolds == Spec => []Core
<1> QED
  BY InitCore, CoreKept, PTL DEF Spec

LEMMA InitHolds == HistInit => IInv
<1> SUFFICES ASSUME HistInit PROVE IInv
  OBVIOUS
<1>1. Core
  BY InitCore DEF HistInit
<1>2. ForceOK
  BY DEF HistInit, ResolverInit, ForceOK
<1>3. SourcesOK
  BY DEF HistInit, ResolverInit, SourcesOK
<1>4. LookedOK
  <2>1. \A t \in Tasks : task[t].at \in {"idle", "closed"} /\ possible[t] = {}
    BY BlankShape DEF HistInit, ResolverInit
  <2> QED
    BY <2>1 DEF LookedOK, At
<1>5. HeldOK
  BY DEF HistInit, ResolverInit, AskersInit, HeldOK
<1> QED
  BY <1>1, <1>2, <1>3, <1>4, <1>5 DEF IInv

LEMMA StepKeeps == IInv /\ [HistNext]_<<vars, hist>> => IInv'
<1> SUFFICES ASSUME IInv, [HistNext]_<<vars, hist>> PROVE IInv'
  OBVIOUS
<1>1. CASE HistNext
  BY <1>1, CoreKept, ForceKept, SourcesKept, LookedKept, HeldKept DEF HistNext, IInv, Core, TurnOK
<1>2. CASE UNCHANGED <<vars, hist>>
  <2>1. Core'
    BY <1>2, CoreKept DEF IInv
  <2>2. ForceOK'
    BY <1>2 DEF IInv, ForceOK, Acceptable, vars, hist, policyVars
  <2>3. SourcesOK' /\ LookedOK'
    BY <1>2 DEF IInv, SourcesOK, LookedOK, At, vars, hist, lineVars
  <2>4. HeldOK'
    BY <1>2 DEF IInv, HeldOK, vars, hist, askerVars
  <2> QED
    BY <2>1, <2>2, <2>3, <2>4 DEF IInv
<1> QED
  BY <1>1, <1>2

LEMMA InvariantHolds == HistSpec => []IInv
<1> QED
  BY InitHolds, StepKeeps, PTL DEF HistSpec

-----------------------------------------------------------------------------
(* Theorems.                                                                *)

\* server.rs:315-334, 438-505: for any number of datagrams, connections and
\* policies, each question being answered holds one permit and no others are
\* held, each at the policy or its upstream holds one read guard, and each that
\* waits for the lock, the one who installs among them, stands in its line once.
THEOREM ResolverTyped == Spec => []ResolverTypeOK
<1> QED
  BY CoreHolds, CoreTyped, PTL

\* policy.rs:224-227: whatever policies an application sends, the one put in force
\* decides as a walk over the rules as they were written would, and leaves no
\* name without a rule.
THEOREM PolicyInOrder == HistSpec => []FirstMatchWins
<1>1. ASSUME IInv PROVE FirstMatchWins
  <2> SUFFICES ASSUME pending = Refreshing, NEW name \in Names, NEW who \in Programs \cup {Unknown}
               PROVE  LET chosen == Decide(installed, name, who)
                      IN  chosen = Walk(inForce, name, who) /\ chosen # Undecided
    BY DEF FirstMatchWins
  <2>1. inForce \in Acceptable /\ installed = Build(inForce)
    BY <1>1 DEF IInv, ForceOK
  <2>2. /\ inForce \in Policies /\ RulesStand(inForce) /\ DecidesEverything(Build(inForce))
    BY <2>1 DEF Acceptable, Builds
  <2> DEFINE S == {"www", "bank", "ru", "notbank", "com"}
  <2>3. name \in Seq(S)
    <3>1. <<>> \in Seq(S) /\ <<"ru">> \in Seq(S) /\ <<"com">> \in Seq(S)
      OBVIOUS
    <3>2. <<"bank", "ru">> \in Seq(S) /\ <<"notbank", "ru">> \in Seq(S)
      OBVIOUS
    <3>3. <<"www", "bank", "ru">> \in Seq(S)
      OBVIOUS
    <3> QED
      BY <3>1, <3>2, <3>3 DEF Names
  <2> HIDE DEF S
  <2> QED
    BY <2>1, <2>2, <2>3, DecideIsWalk, EverythingDecided
<1> QED
  BY <1>1, InvariantHolds, PTL

\* core.rs:445-481: whatever the line does and however late it is reported, no
\* question is asked from an address the line had lost before the last change
\* reported when the task looked.
THEOREM LineAskedFrom == HistSpec => []AskedFromTheLine
<1>1. IInv => AskedFromTheLine
  <2> SUFFICES ASSUME LookedOK, NEW t \in At("ask") \cup At("fallback"), possible[t] # {}
               PROVE  task[t].from \in possible[t]
    BY DEF IInv, AskedFromTheLine
  <2>1. t \in Tasks
    BY DEF At
  <2> QED
    BY <2>1 DEF LookedOK
<1> QED
  BY <1>1, InvariantHolds, PTL

\* Nobody but of_port names a process.
LEMMA NamedByIdentify ==
  ASSUME TasksOK, LockOK, [Next]_vars, NEW t \in Tasks,
         task'[t].process \notin {task[t].process, Nothing}
  PROVE  Identify(t)
<1>1. ASSUME NEW u \in Tasks, NEW there, NEW then, Goes(u, there, then),
             task'[u].process \in {task[u].process, Nothing}
      PROVE  FALSE
  BY <1>1 DEF Goes
<1>2. \A at : Blank(at).process = Nothing
  BY DEF Blank
<1>3. ASSUME NEW u \in Tasks, \/ Unreadable(u) \/ Refuse(u) \/ Unanswered(u) \/ RoutesChanged(u)
      PROVE  FALSE
  BY <1>1, <1>2, <1>3, ReplyingGoes DEF Unreadable, Refuse, Unanswered, RoutesChanged
<1>4. ASSUME NEW u \in Tasks, Record(u) PROVE FALSE
  <2>1. Replying(u) \/ Goto(u, "routes")
    BY <1>4 DEF Record
  <2>2. CASE Replying(u)
    BY <1>1, <1>2, <2>2, ReplyingGoes
  <2>3. CASE Goto(u, "routes")
    <3>1. task'[u].process = task[u].process
      BY <2>3, GotoGoes DEF Fields
    <3>2. Goes(u, {task[u].at}, {"routes"})
      BY <2>3, GotoGoes
    <3> QED
      BY <1>1, <3>1, <3>2
  <2> QED
    BY <2>1, <2>2, <2>3
<1>5. ASSUME NEW u \in Tasks, \/ Admit(u) \/ Reply(u) \/ Truncated(u)
                              \/ Accept(u) \/ Hangup(u) \/ TurnAway(u)
      PROVE  FALSE
  <2>1. PICK there : Goto(u, there)
    BY <1>5 DEF Admit, Reply, Truncated, Accept, Hangup, TurnAway
  <2> QED
    BY <1>1, <2>1, GotoGoes DEF Fields
<1>6. ASSUME NEW u \in Tasks, Name(u) PROVE FALSE
  <2>1. PICK program : TakeGuard(u, [task[u] EXCEPT !.asker = program])
    BY <1>6 DEF Name
  <2>2. /\ DOMAIN [task[u] EXCEPT !.asker = program] = Fields
        /\ [task[u] EXCEPT !.asker = program].process = task[u].process
    BY DEF TasksOK
  <2>3. task'[u].process = task[u].process
    BY <2>1, <2>2, TakeGuardGoes
  <2> QED
    BY <1>1, <2>1, <2>2, <2>3, TakeGuardGoes
<1>7. ASSUME NEW u \in Tasks, NEW question, NEW answer,
             \/ Choose(u) \/ Arrive(u, question) \/ Answered(u, answer)
      PROVE  FALSE
  <2>1. PICK at, local : /\ Become(u, local) /\ local.process = Nothing
                         /\ DOMAIN local = Fields
    <3>1. CASE Choose(u)
      <4>1. PICK at : Become(u, [Blank(at) EXCEPT !.question = task[u].question,
                                                  !.rule = Chosen(u)])
        BY <3>1 DEF Choose
      <4> DEFINE local == [Blank(at) EXCEPT !.question = task[u].question, !.rule = Chosen(u)]
      <4>2. DOMAIN local = Fields /\ local.process = Nothing
        BY DEF Blank, Fields
      <4> QED
        BY <4>1, <4>2
    <3>2. CASE Arrive(u, question)
      BY <3>2 DEF Arrive, Blank, Fields
    <3>3. CASE Answered(u, answer)
      <4>1. PICK found : Become(u, [Blank("record") EXCEPT !.found = found])
        BY <3>3 DEF Answered
      <4> QED
        BY <4>1 DEF Blank, Fields
    <3> QED
      BY <1>7, <3>1, <3>2, <3>3
  <2> QED
    BY <1>1, <2>1, BecomeGoes
<1>8. ASSUME NEW u \in Tasks, \/ Source(u) \/ LookUp(u) \/ Remember(u) PROVE FALSE
  <2>1. Goes(u, Guarded, Guarded)
    BY <1>8, PathsWithTheGuard DEF Goes, Guarded
  <2>2. task'[u].process = task[u].process
    <3>1. DOMAIN task = Tasks /\ "process" \in DOMAIN task[u]
      BY DEF TasksOK, Fields
    <3>2. \/ \E from : task' = [task EXCEPT ![u] = [task[u] EXCEPT !.from = from, !.at = "ask"]]
          \/ \E from : task' = [task EXCEPT ![u] =
                                    [task[u] EXCEPT !.from = from, !.at = "remember"]]
          \/ \E saw, at : task' = [task EXCEPT ![u] = [task[u] EXCEPT !.saw = saw, !.at = at]]
      BY <1>8 DEF Source, LookUp, Remember, Become
    <3> QED
      BY ONLY <3>1, <3>2
  <2> QED
    BY <1>1, <2>1, <2>2
<1>9. ASSUME \/ \E a : Expire(a) \/ LineMoves(a)
             \/ \E input : Install(input)
             \/ Swap \/ Refresh \/ LineReported \/ MachineChanges \/ Tick \/ UNCHANGED vars
      PROVE  UNCHANGED task
  BY <1>9 DEF Expire, LineMoves, Install, Swap, Refresh, LineReported, MachineChanges, Tick, vars
<1>10. ASSUME NEW u \in Tasks, Identify(u), u # t PROVE FALSE
  BY <1>10, PathsToThePolicy DEF Goes
<1>11. Tcp \subseteq Tasks
  BY DEF Tasks
<1> QED
  BY <1>3, <1>4, <1>5, <1>6, <1>7, <1>8, <1>9, <1>10, <1>11 DEF Next, Continue

\* server.rs:506-509, asker.rs:102-149: the process a question is laid to held the
\* very port it came from, under the protocol it came over, less than TABLE_TTL
\* ago, for any ports, processes and time to live.
THEOREM AskerHeldThePort == HistSpec => NamedHeldThePort
<1>1. ASSUME IInv, [HistNext]_<<vars, hist>>, NEW t \in Tasks,
             task'[t].process \notin {task[t].process, Nothing}
      PROVE  since[Protocol(t)][PortOf[t]][task'[t].process] < TableTtl
  <2>1. [Next]_vars
    BY <1>1 DEF HistNext
  <2>2. Identify(t)
    BY <1>1, <2>1, NamedByIdentify DEF IInv, Core
  <2>3. PICK pid \in Pids \cup {Nothing} :
            /\ OwnerOf(Protocol(t), PortOf[t], pid)
            /\ task'[t].process = pid
    <3>1. PICK pid \in Pids \cup {Nothing} :
            /\ OwnerOf(Protocol(t), PortOf[t], pid)
            /\ LET local == [task[t] EXCEPT !.process = pid] IN
                 \/ TakeGuard(t, local)
                 \/ TakeGuard(t, [local EXCEPT !.asker = images[pid]])
                 \/ Become(t, [local EXCEPT !.at = "image"])
      BY <2>2 DEF Identify
    <3> DEFINE local == [task[t] EXCEPT !.process = pid]
               named == [local EXCEPT !.asker = images[pid]]
               there == [local EXCEPT !.at = "image"]
    <3>2. /\ DOMAIN local = Fields /\ local.process = pid
          /\ DOMAIN named = Fields /\ named.process = pid
          /\ DOMAIN there = Fields /\ there.process = pid
      BY <1>1 DEF IInv, Core, TasksOK, Fields
    <3>3. TakeGuard(t, local) \/ TakeGuard(t, named) \/ Become(t, there)
      BY <3>1
    <3> HIDE DEF local, named, there
    <3>4. TasksOK
      BY <1>1 DEF IInv, Core
    <3>5. task'[t].process = pid
      BY <3>2, <3>3, <3>4, TakeGuardGoes, BecomeGoes
    <3> QED
      BY <3>1, <3>5
  <2>4. pid \in Pids /\ Protocol(t) \in Protocols /\ PortOf[t] \in Ports
    BY <1>1, <2>3 DEF Protocol, Protocols
  <2>5. /\ since[Protocol(t)][PortOf[t]][pid] \in 0..TableTtl
        /\ owner[Protocol(t)][PortOf[t]] = pid => since[Protocol(t)][PortOf[t]][pid] = 0
        /\ reading[Protocol(t)] # Nothing /\ reading[Protocol(t)][PortOf[t]] = pid
              => since[Protocol(t)][PortOf[t]][pid] <= age[Protocol(t)]
        /\ age[Protocol(t)] \in 0..TableTtl
    BY <1>1, <2>4 DEF IInv, HeldOK, Core, AskersOK, AskersTypeOK
  <2>6. \/ Fresh(Protocol(t)) /\ pid = reading[Protocol(t)][PortOf[t]]
        \/ pid = owner[Protocol(t)][PortOf[t]]
    BY <2>3, <2>4 DEF OwnerOf, ReadTable
  <2> QED
    BY <2>3, <2>5, <2>6 DEF Fresh
<1>2. IInv /\ [HistNext]_<<vars, hist>>
        => [\A t \in Tasks : task'[t].process \notin {task[t].process, Nothing} =>
              since[Protocol(t)][PortOf[t]][task'[t].process] < TableTtl]_<<vars, hist>>
  BY <1>1
<1> QED
  BY <1>2, InvariantHolds, PTL DEF HistSpec, NamedHeldThePort
=============================================================================
