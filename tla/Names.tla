------------------------------- MODULE Names --------------------------------
(***************************************************************************)
(* Taking over the machine's names and giving them back: src/names.rs, the *)
(* watch of src/dns/server.rs that proves a claim, and their callers in    *)
(* src/control.rs (one task per connection) and src/main.rs (the sweep a   *)
(* core starts with, and the release it stops with).                       *)
(*                                                                         *)
(* The rule and the cache of answers belong to Windows and survive the     *)
(* core.  Windows takes a change of the rule up in its own time.           *)
(*                                                                         *)
(* A write of the rule may fail; deleting it and flushing the cache work.  *)
(* The machine's question and its answer are one step, and Name, Servers   *)
(* and Options, without which a rule points nowhere, are one write.        *)
(***************************************************************************)
EXTENDS Naturals

CONSTANTS
    Requests,   \* what is asked over the pipe, each to claim or to give back
    Main,       \* the task that starts the core and stops it
    Nobody,
    MostLives   \* how often the core is started (model bound)

ASSUME NamesAssumption ==
    /\ Main \notin Requests /\ Nobody \notin Requests
    /\ MostLives \in Nat \ {0}

Tasks == Requests \cup {Main}

\* What the rule consists of, in the order it is written: its key, where it
\* points, the Comment a sweep looks for, and the name it is shown under.
Values == {"key", "aim", "mark", "label"}

Writing == {"aim", "mark", "label"}
Releasing == {"look", "delete", "flush"}
Over == {"done", "cut"}

VARIABLES
    phase,      \* the core: starting, up, stopping, leaving, ended or killed
    lives,      \* how often it was started
    at,         \* where each task is
    answer,     \* what each request comes to
    slot,       \* Resolver.watching: whose canary is watched for
    watched,    \* Resolver.watched
    told,       \* what each claim's receiver holds
    seen        \* canaries being answered that found watched set

coreVars == <<phase, lives, at, answer, slot, watched, told, seen>>

VARIABLES
    rule,       \* what of the rule is in the registry
    wrote,      \* the claims that have written to the rule now there
    used,       \* the machine asks where the rule says
    foreign,    \* the machine holds answers some other resolver gave
    canaries    \* canaries the machine is resolving

machineVars == <<rule, wrote, used, foreign, canaries>>
vars == <<coreVars, machineVars>>

Running == phase \in {"up", "stopping", "leaving"}

Init ==
    /\ phase = "starting" /\ lives = 1
    /\ at = [t \in Tasks |-> IF t = Main THEN "look" ELSE "unasked"]
    /\ answer = [r \in Requests |-> "none"]
    /\ slot = Nobody /\ watched = FALSE
    /\ told = [r \in Requests |-> "nothing"]
    /\ seen = {}
    /\ rule = {} /\ wrote = {} /\ used = FALSE
    /\ foreign = TRUE /\ canaries = {}

Goes(t, where) == at' = [at EXCEPT ![t] = where]

\* A task has nothing left to do; the core's own moves the core on.
Finishes(t) ==
    /\ Goes(t, "done")
    /\ phase' = IF t # Main THEN phase
                ELSE IF phase = "starting" THEN "up" ELSE "leaving"

-----------------------------------------------------------------------------
\* A request arrives; the pipe is served until the process is gone.
AskToClaim(r) ==
    /\ Running /\ at[r] = "unasked"
    /\ Goes(r, "create")
    /\ UNCHANGED <<phase, lives, answer, slot, watched, told, seen, machineVars>>

AskToGiveBack(r) ==
    /\ Running /\ at[r] = "unasked"
    /\ Goes(r, "look")
    /\ answer' = [answer EXCEPT ![r] = "given back"]
    /\ UNCHANGED <<phase, lives, slot, watched, told, seen, machineVars>>

\* claim: the key is created or opened, then its values are written through it.
Create(r) ==
    /\ at[r] = "create"
    /\ rule' = rule \cup {"key"} /\ wrote' = wrote \cup {r}
    /\ Goes(r, "aim")
    /\ UNCHANGED <<phase, lives, answer, slot, watched, told, seen, used, foreign, canaries>>

Write(r) ==
    /\ at[r] \in Writing /\ r \in wrote
    /\ rule' = rule \cup {at[r]}
    /\ Goes(r, CASE at[r] = "aim" -> "mark" [] at[r] = "mark" -> "label"
                 [] at[r] = "label" -> "watch")
    /\ UNCHANGED <<phase, lives, answer, slot, watched, told, seen, wrote, used,
                   foreign, canaries>>

\* A write is refused: always, once the key it goes through was deleted.
WriteFails(r) ==
    /\ at[r] \in Writing \cup {"create"}
    /\ Goes(r, "done")
    /\ answer' = [answer EXCEPT ![r] = "failed"]
    /\ UNCHANGED <<phase, lives, slot, watched, told, seen, machineVars>>

\* A sender that is overwritten or cleared is dropped, and its receiver ends.
DropsSender(t) ==
    IF slot \in Requests /\ t[slot] = "nothing" THEN [t EXCEPT ![slot] = "dropped"] ELSE t

\* watch_for, and then the question put to the operating system.
Watch(r) ==
    /\ at[r] = "watch"
    /\ slot' = r /\ told' = DropsSender(told)
    /\ Goes(r, "raise")
    /\ UNCHANGED <<phase, lives, answer, watched, seen, machineVars>>

Raise(r) ==
    /\ at[r] = "raise"
    /\ watched' = TRUE
    /\ Goes(r, "ask")
    /\ UNCHANGED <<phase, lives, answer, slot, told, seen, machineVars>>

AskMachine(r) ==
    /\ at[r] = "ask"
    /\ canaries' = canaries \cup {r}
    /\ Goes(r, "wait")
    /\ UNCHANGED <<phase, lives, answer, slot, watched, told, seen, rule, wrote, used, foreign>>

\* take_over stops waiting: carried, if the receiver ended before the time did.
Carried(r) ==
    /\ at[r] = "wait" /\ told[r] # "nothing"
    /\ Goes(r, "lower")
    /\ answer' = [answer EXCEPT ![r] = "claimed"]
    /\ UNCHANGED <<phase, lives, slot, watched, told, seen, machineVars>>

TimesOut(r) ==
    /\ at[r] = "wait" /\ told[r] = "nothing"
    /\ Goes(r, "lower")
    /\ answer' = [answer EXCEPT ![r] = "not carried"]
    /\ UNCHANGED <<phase, lives, slot, watched, told, seen, machineVars>>

\* stop_watching, and then forget_answers or release.
Lower(r) ==
    /\ at[r] = "lower"
    /\ watched' = FALSE
    /\ Goes(r, "clear")
    /\ UNCHANGED <<phase, lives, answer, slot, told, seen, machineVars>>

\* Mutants: a claim that was not carried is not undone; one that was does not
\* make the machine forget.
ClearUndoesNot(r) ==
    /\ at[r] = "clear"
    /\ slot' = Nobody /\ told' = DropsSender(told)
    /\ Goes(r, "flush")
    /\ UNCHANGED <<phase, lives, answer, watched, seen, machineVars>>

ClearForgetsNot(r) ==
    /\ at[r] = "clear"
    /\ slot' = Nobody /\ told' = DropsSender(told)
    /\ Goes(r, IF answer[r] = "claimed" THEN "done" ELSE "look")
    /\ UNCHANGED <<phase, lives, answer, watched, seen, machineVars>>

Clear(r) ==
    /\ at[r] = "clear"
    /\ slot' = Nobody /\ told' = DropsSender(told)
    /\ Goes(r, IF answer[r] = "claimed" THEN "flush" ELSE "look")
    /\ UNCHANGED <<phase, lives, answer, watched, seen, machineVars>>

-----------------------------------------------------------------------------
\* release: list the marked rules, delete them, flush if any went.
Look(t) ==
    /\ at[t] = "look"
    /\ IF "mark" \in rule THEN Goes(t, "delete") /\ UNCHANGED phase ELSE Finishes(t)
    /\ UNCHANGED <<lives, answer, slot, watched, told, seen, machineVars>>

Delete(t) ==
    /\ at[t] = "delete"
    /\ IF "key" \in rule THEN Goes(t, "flush") /\ UNCHANGED phase ELSE Finishes(t)
    /\ rule' = {} /\ wrote' = {}
    /\ UNCHANGED <<lives, answer, slot, watched, told, seen, used, foreign, canaries>>

Flush(t) ==
    /\ at[t] = "flush"
    /\ foreign' = FALSE
    /\ Finishes(t)
    /\ UNCHANGED <<lives, answer, slot, watched, told, seen, rule, wrote, used, canaries>>

-----------------------------------------------------------------------------
\* The core stops: its release runs beside whatever the pipe's tasks are at.
Stop ==
    /\ phase = "up"
    /\ phase' = "stopping" /\ Goes(Main, "look")
    /\ UNCHANGED <<lives, answer, slot, watched, told, seen, machineVars>>

\* The process is gone, by the end of the shutdown or killed at any moment, and
\* every task with it.  A shutdown that gives up on the adapter's reader exits
\* without waiting for any of them.
GoesAway(how) ==
    /\ phase' = how
    /\ at' = [t \in Tasks |-> IF at[t] = "unasked" THEN "unasked" ELSE "cut"]
    /\ slot' = Nobody /\ watched' = FALSE /\ seen' = {} /\ canaries' = {}
    /\ UNCHANGED <<lives, answer, told, rule, wrote, used, foreign>>

\* Mutant: the process does not wait for its own release.
EndEarly == phase \in {"stopping", "leaving"} /\ GoesAway("ended")

End == phase = "leaving" /\ GoesAway("ended")

Kill == phase \notin {"ended", "killed"} /\ GoesAway("killed")

\* Mutant: a core starts without sweeping.
StartUnswept ==
    /\ phase \in {"ended", "killed"} /\ lives < MostLives
    /\ phase' = "up" /\ lives' = lives + 1
    /\ Goes(Main, "done")
    /\ UNCHANGED <<answer, slot, watched, told, seen, machineVars>>

Start ==
    /\ phase \in {"ended", "killed"} /\ lives < MostLives
    /\ phase' = "starting" /\ lives' = lives + 1
    /\ Goes(Main, "look")
    /\ UNCHANGED <<answer, slot, watched, told, seen, machineVars>>

-----------------------------------------------------------------------------
\* The machine takes a change of the rule up.
TakesUp ==
    /\ used # ("aim" \in rule)
    /\ used' = ~used
    /\ UNCHANGED <<coreVars, rule, wrote, foreign, canaries>>

\* Some program's name is resolved by another resolver, and the answer kept.
ResolvesElsewhere ==
    /\ ~used /\ ~foreign
    /\ foreign' = TRUE
    /\ UNCHANGED <<coreVars, rule, wrote, used, canaries>>

\* Another resolver knows nothing of a canary, and that is the end of it.
CanaryGoesElsewhere(r) ==
    /\ r \in canaries /\ ~used
    /\ canaries' = canaries \ {r}
    /\ UNCHANGED <<coreVars, rule, wrote, used, foreign>>

\* Here it is asked as often as the machine likes.  watching_for reads the flag
\* first, and takes the lock if it was set.
CanaryComes(r) ==
    /\ r \in canaries /\ used /\ watched
    /\ seen' = seen \cup {r}
    /\ UNCHANGED <<phase, lives, at, answer, slot, watched, told, machineVars>>

WatchingFor(r) ==
    /\ r \in seen
    /\ seen' = seen \ {r}
    /\ IF slot = r THEN slot' = Nobody /\ told' = [told EXCEPT ![r] = "arrived"]
       ELSE UNCHANGED <<slot, told>>
    /\ UNCHANGED <<phase, lives, at, answer, watched, machineVars>>

-----------------------------------------------------------------------------
Release(t) == Look(t) \/ Delete(t) \/ Flush(t)

Request(r) ==
    \/ Create(r) \/ Write(r) \/ WriteFails(r)
    \/ Watch(r) \/ Raise(r) \/ AskMachine(r)
    \/ Carried(r) \/ TimesOut(r) \/ Lower(r) \/ Clear(r)
    \/ Release(r)

Next ==
    \/ \E r \in Requests : AskToClaim(r) \/ AskToGiveBack(r) \/ Request(r)
    \/ Release(Main) \/ Stop \/ End \/ Kill \/ Start
    \/ TakesUp \/ ResolvesElsewhere
    \/ \E r \in Requests : CanaryGoesElsewhere(r) \/ CanaryComes(r) \/ WatchingFor(r)

Spec == Init /\ [][Next]_vars

-----------------------------------------------------------------------------
\* Every variable holds what the code could hold there, a rule is never marked
\* before it points here (the order claim writes in), and what belongs to the
\* process goes with it.
NamesTypeOK ==
    /\ phase \in {"starting", "up", "stopping", "leaving", "ended", "killed"}
    /\ lives \in 1 .. MostLives
    /\ at \in [Tasks -> {"unasked", "create", "watch", "raise", "ask", "wait", "lower",
                         "clear"} \cup Writing \cup Releasing \cup Over]
    /\ answer \in [Requests -> {"none", "given back", "failed", "claimed", "not carried"}]
    /\ slot \in Requests \cup {Nobody} /\ watched \in BOOLEAN
    /\ told \in [Requests -> {"nothing", "arrived", "dropped"}]
    /\ rule \in {{}, {"key"}, {"key", "aim"}, {"key", "aim", "mark"}, Values}
    /\ wrote \subseteq Requests /\ (wrote # {} => "key" \in rule)
    /\ used \in BOOLEAN /\ foreign \in BOOLEAN
    /\ seen \subseteq Requests /\ canaries \subseteq Requests

Waiting(r) == at[r] \in {"raise", "ask", "wait", "lower", "clear"}

\* names.rs:90-91: a claim that was not carried is undone before it is answered:
\* no rule it wrote to is still there.
UndoneBeforeRefusal ==
    \A r \in Requests : at[r] = "done" /\ answer[r] = "not carried" => r \notin wrote

\* names.rs:111-112: once a claim whose canary arrived is answered, and for as
\* long as its rule stands, the machine holds no other resolver's answer.
ForgottenOnceProved ==
    \A r \in wrote : at[r] = "done" /\ told[r] = "arrived" => ~foreign

\* names.rs:15-17: whatever moment the core before was killed at, one that has
\* started and been asked for nothing has left no marked rule behind.
SweptByNextStart ==
    phase = "up" /\ (\A r \in Requests : at[r] \in {"unasked", "cut"}) => "mark" \notin rule

\* names.rs:84-88 and control-pipe.md:169-171, "proved rather than assumed": a
\* claim answered with success is one whose canary arrived here.
ProvedNotAssumed ==
    \A r \in Requests : at[r] = "done" /\ answer[r] = "claimed" => told[r] = "arrived"

=============================================================================
