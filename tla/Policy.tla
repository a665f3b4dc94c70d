------------------------------- MODULE Policy -------------------------------
(***************************************************************************)
(* Which upstream answers a name (src/dns/policy.rs).                      *)
(*                                                                         *)
(* An application writes resolvers and an ordered list of rules; build     *)
(* checks the whole of it and arranges it for lookup, and decide answers   *)
(* from the arrangement.  A name is the sequence of its labels.            *)
(***************************************************************************)
EXTENDS Integers, Sequences, FiniteSets, SequencesExt, FiniteSetsExt

CONSTANT Lowered(_)  \* a label or a program as written -> as it is compared

NoUrl == "no url"

Unknown == [path |-> "unknown", name |-> "unknown"]

Undecided == 0       \* no rule: they are numbered from 1

-----------------------------------------------------------------------------
(* What an application declares.                                           *)

Resolver(id, kind, address, url, via) ==
    [id |-> id, kind |-> kind, address |-> address, url |-> url, via |-> via]

MatchExact(name)  == [by |-> "exact", name |-> name]
MatchSuffix(name) == [by |-> "suffix", name |-> name]
MatchAny          == [by |-> "any", name |-> <<>>]

Rule(matcher, resolver, programs, route) ==
    [matcher |-> matcher, resolver |-> resolver, programs |-> programs, route |-> route]

\* Whatever an application can write.
Policies ==
    [resolvers : Seq([id : STRING, kind : {"plain", "doh"}, address : STRING,
                      url : STRING, via : {"direct", "tunnel"}]),
     rules : Seq([matcher : [by : {"exact", "suffix", "any"}, name : Seq(STRING)],
                  resolver : STRING, programs : SUBSET STRING, route : BOOLEAN])]

-----------------------------------------------------------------------------
(* build                                                                   *)

\* Trailing dots are empty labels at the end.
Normalise(name) ==
    LET kept == {k \in DOMAIN name : name[k] # ""}
        last == IF kept = {} THEN 0 ELSE Max(kept)
    IN  [k \in 1 .. last |-> Lowered(name[k])]

NormalRule(rule) ==
    [rule EXCEPT !.matcher.name = Normalise(@),
                 !.programs = {Lowered(p) : p \in @}]

ResolversStand(input) ==
    /\ \A r \in Range(input.resolvers) : ~ (r.kind = "doh" /\ r.url = NoUrl)
    /\ \A i, j \in DOMAIN input.resolvers :
            input.resolvers[i].id = input.resolvers[j].id => i = j

RulesStand(input) ==
    \A rule \in Range(input.rules) :
        /\ \E r \in Range(input.resolvers) : r.id = rule.resolver
        /\ rule.matcher.by = "any" \/ Normalise(rule.matcher.name) # <<>>

\* Everything that can be wrong with a policy is wrong here and not at a query.
Builds(input) == ResolversStand(input) /\ RulesStand(input)

\* name -> the numbers of the rules of one kind written for it.
Index(rules, by) ==
    LET numbers == {i \in DOMAIN rules : rules[i].matcher.by = by}
    IN  [name \in {rules[i].matcher.name : i \in numbers} |->
            {i \in numbers : rules[i].matcher.name = name}]

Build(input) ==
    LET rules == [i \in DOMAIN input.rules |-> NormalRule(input.rules[i])]
    IN  [resolvers |-> [id \in {r.id : r \in Range(input.resolvers)} |->
                            CHOOSE r \in Range(input.resolvers) : r.id = id],
         rules  |-> rules,
         exact  |-> Index(rules, "exact"),
         suffix |-> Index(rules, "suffix"),
         any    |-> {i \in DOMAIN rules : rules[i].matcher.by = "any"}]

-----------------------------------------------------------------------------
(* decide                                                                  *)

\* An empty list is every program; a list never admits an asker nobody knows.
AppliesTo(programs, asker) ==
    \/ programs = {}
    \/ asker # Unknown /\ {asker.path, asker.name} \cap programs # {}

Listed(index, name) == IF name \in DOMAIN index THEN index[name] ELSE {}

\* The name, then what follows each of its dots.
Tails(name) == {SubSeq(name, k, Len(name)) : k \in DOMAIN name}

Candidates(policy, name) ==
    Listed(policy.exact, name)
        \cup policy.any
        \cup UNION {Listed(policy.suffix, rest) : rest \in Tails(name)}

\* The lookup that takes a more specific rule before an earlier one.
DecideBySpecificity(policy, name, asker) ==
    LET fits(numbers) == {i \in numbers : AppliesTo(policy.rules[i].programs, asker)}
        exact == fits(Listed(policy.exact, name))
        all   == fits(Candidates(policy, name))
    IN  IF exact # {} THEN Min(exact) ELSE IF all # {} THEN Min(all) ELSE Undecided

\* The number of the rule that decides.
Decide(policy, name, asker) ==
    LET fits == {i \in Candidates(policy, name) :
                    AppliesTo(policy.rules[i].programs, asker)}
    IN  IF fits = {} THEN Undecided ELSE Min(fits)

DecidesEverything(policy) == \E i \in policy.any : policy.rules[i].programs = {}

-----------------------------------------------------------------------------
(* What the arrangement promises: walking the rules as they were written.  *)

Matches(matcher, name) ==
    CASE matcher.by = "any"    -> TRUE
      [] matcher.by = "exact"  -> Normalise(matcher.name) = name
      [] matcher.by = "suffix" -> name # <<>> /\ IsSuffix(Normalise(matcher.name), name)

Walk(input, name, asker) ==
    LET fits == {i \in DOMAIN input.rules :
                    /\ Matches(input.rules[i].matcher, name)
                    /\ AppliesTo(NormalRule(input.rules[i]).programs, asker)}
    IN  IF fits = {} THEN Undecided ELSE Min(fits)
=============================================================================
