---------------------------- MODULE Names_proofs ----------------------------
(***************************************************************************)
(* Proofs about the machine's names, for any set of requests and any       *)
(* number of starts: the types, that a refused claim leaves nothing behind, *)
(* that a proved one left no foreign answer, that a start sweeps, and that *)
(* a quiet stop gives the names back.                                      *)
(***************************************************************************)
EXTENDS MCNames, TLAPS

Claiming == {"create"} \cup Writing

\* Where the core's own task is, and that no request outlives its process.
TasksOK ==
  /\ phase \in {"starting", "stopping"} => at[Main] \in Releasing
  /\ phase \in {"up", "leaving"} => at[Main] = "done"
  /\ phase \in {"ended", "killed"} => at[Main] = "cut"
  /\ phase \in {"starting", "ended", "killed"} =>
       \A r \in Requests : at[r] \in {"unasked", "cut"}

\* What a request can answer, by how far it has come.
AnswersOK ==
  \A r \in Requests :
    /\ at[r] \in Claiming \cup {"unasked", "watch", "raise", "ask", "wait"} => answer[r] = "none"
    /\ at[r] \in {"lower", "clear"} => answer[r] \in {"claimed", "not carried"}
    /\ at[r] \in {"look", "delete"} => answer[r] \in {"given back", "not carried"}

\* A claim whose writing still stands wrote it in order: until the rule is
\* deleted, what the claim has passed is there, and an undone claim is in no rule.
RulesOK ==
  \A r \in Requests :
    /\ at[r] \in {"unasked", "create"} \/ answer[r] = "given back" => r \notin wrote
    /\ at[r] \in {"flush", "done"} /\ answer[r] = "not carried" => r \notin wrote
    /\ r \in wrote =>
         /\ at[r] = "mark" => "aim" \in rule
         /\ at[r] \in {"label", "watch"} \cup Releasing => "mark" \in rule
         /\ Waiting(r) => "mark" \in rule
         /\ at[r] = "done" /\ answer[r] # "failed" => "mark" \in rule

\* Only a claim that asked for its canary is watched for or told of it; and if
\* what it wrote still stands, a canary that came here did so by its rule.
CanariesOK ==
  \A r \in Requests :
    /\ slot = r => Waiting(r)
    /\ slot = r \/ r \in canaries \cup seen \/ told[r] # "nothing" =>
         /\ Waiting(r) \/ at[r] \in Releasing \cup Over
         /\ answer[r] \notin {"failed", "given back"}
    /\ r \in wrote /\ at[r] # "cut" /\ (r \in seen \/ told[r] = "arrived") => used

\* The sweep a core starts with: past the deletion there is no rule.
SweepOK == phase = "starting" /\ at[Main] = "flush" => "mark" \notin rule

IInv ==
  /\ NamesTypeOK
  /\ TasksOK
  /\ AnswersOK
  /\ RulesOK
  /\ CanariesOK
  /\ SweepOK
  /\ ForgottenOnceProved
  /\ SweptByNextStart

\* A core on its way out that nobody claims for: nothing is written beside its
\* release, and past that one's deletion there is no rule.
Calm ==
  /\ \A r \in Requests : at[r] \notin Claiming
  /\ phase # "stopping" \/ at[Main] = "flush" => "mark" \notin rule

Leaving == {"stopping", "leaving", "ended"}

QuietOK == quiet /\ phase \in Leaving => Calm

USE NamesAssumption

LEMMA InitHolds == Init => IInv
<1> SUFFICES ASSUME Init PROVE IInv
  OBVIOUS
<1>1. NamesTypeOK
  <2>1. used \in BOOLEAN /\ foreign \in BOOLEAN /\ watched \in BOOLEAN
    BY DEF Init
  <2>2. QED
    BY <2>1 DEF Init, NamesTypeOK, Tasks, Releasing, Over, Writing
<1>2. QED
  BY <1>1 DEF Init, IInv, Tasks, TasksOK, AnswersOK, RulesOK, CanariesOK, SweepOK,
    ForgottenOnceProved, SweptByNextStart, Claiming, Writing, Releasing, Over, Waiting

LEMMA StepKeeps == IInv /\ [Next]_vars => IInv'
<1> SUFFICES ASSUME IInv, [Next]_vars PROVE IInv'
  OBVIOUS
<1>0. Start => lives' \in 1..MostLives
  <2>1. lives \in 1..MostLives
    BY DEF IInv, NamesTypeOK
  <2> QED
    BY <2>1 DEF Start
<1> USE DEF IInv, Tasks, Claiming, Writing, Releasing, Over, machineVars, Goes
<1>1. ASSUME NEW r \in Requests, AskToClaim(r) PROVE IInv'
  <2> USE <1>1 DEF AskToClaim, Running
  <2>1. NamesTypeOK'
    BY DEF NamesTypeOK, Values
  <2>2. TasksOK' /\ SweepOK' /\ SweptByNextStart'
    BY DEF NamesTypeOK, TasksOK, SweepOK, SweptByNextStart
  <2>3. AnswersOK' /\ RulesOK'
    BY DEF NamesTypeOK, AnswersOK, RulesOK, Waiting
  <2>4. CanariesOK' /\ ForgottenOnceProved'
    BY DEF NamesTypeOK, AnswersOK, RulesOK, CanariesOK, ForgottenOnceProved, Waiting
  <2> QED
    BY <2>1, <2>2, <2>3, <2>4
<1>2. ASSUME NEW r \in Requests, AskToGiveBack(r) PROVE IInv'
  <2> USE <1>2 DEF AskToGiveBack, Running
  <2>1. NamesTypeOK'
    BY DEF NamesTypeOK, Values
  <2>2. TasksOK' /\ SweepOK' /\ SweptByNextStart'
    BY DEF NamesTypeOK, TasksOK, SweepOK, SweptByNextStart
  <2>3. AnswersOK' /\ RulesOK'
    BY DEF NamesTypeOK, AnswersOK, RulesOK, Waiting
  <2>4. CanariesOK' /\ ForgottenOnceProved'
    BY DEF NamesTypeOK, AnswersOK, RulesOK, CanariesOK, ForgottenOnceProved, Waiting
  <2> QED
    BY <2>1, <2>2, <2>3, <2>4
<1>3. ASSUME NEW r \in Requests, Create(r) PROVE IInv'
  <2> USE <1>3 DEF Create
  <2>1. NamesTypeOK'
    BY DEF NamesTypeOK, Values
  <2>2. TasksOK' /\ SweepOK' /\ SweptByNextStart'
    BY DEF NamesTypeOK, TasksOK, SweepOK, SweptByNextStart
  <2>3. AnswersOK' /\ RulesOK'
    BY DEF NamesTypeOK, AnswersOK, RulesOK, Waiting
  <2>4. CanariesOK' /\ ForgottenOnceProved'
    BY DEF NamesTypeOK, AnswersOK, RulesOK, CanariesOK, ForgottenOnceProved, Waiting
  <2> QED
    BY <2>1, <2>2, <2>3, <2>4
<1>4. ASSUME NEW r \in Requests, Write(r) PROVE IInv'
  <2> USE <1>4 DEF Write
  <2>1. NamesTypeOK'
    <3>1. "key" \in rule
      BY DEF NamesTypeOK
    <3>4. (at[r] = "mark" => "aim" \in rule) /\ (at[r] = "label" => "mark" \in rule)
      BY DEF RulesOK
    <3>2. rule' \in {{}, {"key"}, {"key", "aim"}, {"key", "aim", "mark"}, Values}
      BY <3>1, <3>4 DEF NamesTypeOK, Values
    <3>3. at' \in [Tasks -> {"unasked", "create", "watch", "raise", "ask", "wait", "lower",
                            "clear"} \cup Writing \cup Releasing \cup Over]
      BY DEF NamesTypeOK
    <3> QED
      BY <3>2, <3>3 DEF NamesTypeOK
  <2>2. TasksOK' /\ SweepOK' /\ SweptByNextStart'
    BY DEF NamesTypeOK, TasksOK, SweepOK, SweptByNextStart
  <2>3. AnswersOK' /\ RulesOK'
    BY DEF NamesTypeOK, AnswersOK, RulesOK, Waiting
  <2>4. CanariesOK' /\ ForgottenOnceProved'
    BY DEF NamesTypeOK, AnswersOK, RulesOK, CanariesOK, ForgottenOnceProved, Waiting
  <2> QED
    BY <2>1, <2>2, <2>3, <2>4
<1>5. ASSUME NEW r \in Requests, WriteFails(r) PROVE IInv'
  <2>1. at' = [at EXCEPT ![r] = "done"] /\ answer' = [answer EXCEPT ![r] = "failed"]
    BY <1>5 DEF WriteFails
  <2>2. /\ at[r] \in Claiming /\ r # Main
        /\ UNCHANGED <<phase, lives, slot, watched, told, seen, machineVars>>
    BY <1>5 DEF WriteFails
  <2>3. /\ at'[r] = "done" /\ answer'[r] = "failed"
        /\ \A t \in Tasks : t # r => at'[t] = at[t]
        /\ \A q \in Requests : q # r => answer'[q] = answer[q]
    BY <2>1 DEF NamesTypeOK
  <2>4. NamesTypeOK'
    BY <2>1, <2>2, <2>3 DEF NamesTypeOK, Values
  <2>5. TasksOK' /\ SweepOK' /\ SweptByNextStart'
    BY <2>1, <2>2, <2>3 DEF NamesTypeOK, TasksOK, SweepOK, SweptByNextStart
  <2>6. AnswersOK'
    BY <2>1, <2>2, <2>3 DEF NamesTypeOK, AnswersOK
  <2>7. RulesOK'
    BY <2>1, <2>2, <2>3 DEF NamesTypeOK, RulesOK, Waiting
  <2>8. CanariesOK'
    BY <2>1, <2>2, <2>3 DEF NamesTypeOK, AnswersOK, RulesOK, CanariesOK, Waiting
  <2>9. ForgottenOnceProved'
    BY <2>1, <2>2, <2>3 DEF NamesTypeOK, AnswersOK, RulesOK, CanariesOK, ForgottenOnceProved, Waiting
  <2> QED
    BY <2>4, <2>5, <2>6, <2>7, <2>8, <2>9
<1>6. ASSUME NEW r \in Requests, Watch(r) PROVE IInv'
  <2> USE <1>6 DEF Watch, DropsSender
  <2>1. NamesTypeOK'
    BY DEF NamesTypeOK, Values
  <2>2. TasksOK' /\ SweepOK' /\ SweptByNextStart'
    BY DEF NamesTypeOK, TasksOK, SweepOK, SweptByNextStart
  <2>3. AnswersOK' /\ RulesOK'
    BY DEF NamesTypeOK, AnswersOK, RulesOK, Waiting
  <2>4. CanariesOK' /\ ForgottenOnceProved'
    BY DEF NamesTypeOK, AnswersOK, RulesOK, CanariesOK, ForgottenOnceProved, Waiting
  <2> QED
    BY <2>1, <2>2, <2>3, <2>4
<1>7. ASSUME NEW r \in Requests, Raise(r) PROVE IInv'
  <2> USE <1>7 DEF Raise
  <2>1. NamesTypeOK'
    BY DEF NamesTypeOK, Values
  <2>2. TasksOK' /\ SweepOK' /\ SweptByNextStart'
    BY DEF NamesTypeOK, TasksOK, SweepOK, SweptByNextStart
  <2>3. AnswersOK' /\ RulesOK'
    BY DEF NamesTypeOK, AnswersOK, RulesOK, Waiting
  <2>4. CanariesOK' /\ ForgottenOnceProved'
    BY DEF NamesTypeOK, AnswersOK, RulesOK, CanariesOK, ForgottenOnceProved, Waiting
  <2> QED
    BY <2>1, <2>2, <2>3, <2>4
<1>8. ASSUME NEW r \in Requests, AskMachine(r) PROVE IInv'
  <2> USE <1>8 DEF AskMachine
  <2>1. NamesTypeOK'
    BY DEF NamesTypeOK, Values
  <2>2. TasksOK' /\ SweepOK' /\ SweptByNextStart'
    BY DEF NamesTypeOK, TasksOK, SweepOK, SweptByNextStart
  <2>3. AnswersOK' /\ RulesOK'
    BY DEF NamesTypeOK, AnswersOK, RulesOK, Waiting
  <2>4. CanariesOK' /\ ForgottenOnceProved'
    BY DEF NamesTypeOK, AnswersOK, RulesOK, CanariesOK, ForgottenOnceProved, Waiting
  <2> QED
    BY <2>1, <2>2, <2>3, <2>4
<1>9. ASSUME NEW r \in Requests, Carried(r) PROVE IInv'
  <2> USE <1>9 DEF Carried
  <2>1. NamesTypeOK'
    BY DEF NamesTypeOK, Values
  <2>2. TasksOK' /\ SweepOK' /\ SweptByNextStart'
    BY DEF NamesTypeOK, TasksOK, SweepOK, SweptByNextStart
  <2>3. AnswersOK' /\ RulesOK'
    BY DEF NamesTypeOK, AnswersOK, RulesOK, Waiting
  <2>4. CanariesOK' /\ ForgottenOnceProved'
    BY DEF NamesTypeOK, AnswersOK, RulesOK, CanariesOK, ForgottenOnceProved, Waiting
  <2> QED
    BY <2>1, <2>2, <2>3, <2>4
<1>10. ASSUME NEW r \in Requests, TimesOut(r) PROVE IInv'
  <2> USE <1>10 DEF TimesOut
  <2>1. NamesTypeOK'
    BY DEF NamesTypeOK, Values
  <2>2. TasksOK' /\ SweepOK' /\ SweptByNextStart'
    BY DEF NamesTypeOK, TasksOK, SweepOK, SweptByNextStart
  <2>3. AnswersOK' /\ RulesOK'
    BY DEF NamesTypeOK, AnswersOK, RulesOK, Waiting
  <2>4. CanariesOK' /\ ForgottenOnceProved'
    BY DEF NamesTypeOK, AnswersOK, RulesOK, CanariesOK, ForgottenOnceProved, Waiting
  <2> QED
    BY <2>1, <2>2, <2>3, <2>4
<1>11. ASSUME NEW r \in Requests, Lower(r) PROVE IInv'
  <2> USE <1>11 DEF Lower
  <2>1. NamesTypeOK'
    BY DEF NamesTypeOK, Values
  <2>2. TasksOK' /\ SweepOK' /\ SweptByNextStart'
    BY DEF NamesTypeOK, TasksOK, SweepOK, SweptByNextStart
  <2>3. AnswersOK' /\ RulesOK'
    BY DEF NamesTypeOK, AnswersOK, RulesOK, Waiting
  <2>4. CanariesOK' /\ ForgottenOnceProved'
    BY DEF NamesTypeOK, AnswersOK, RulesOK, CanariesOK, ForgottenOnceProved, Waiting
  <2> QED
    BY <2>1, <2>2, <2>3, <2>4
<1>12. ASSUME NEW r \in Requests, Clear(r) PROVE IInv'
  <2> USE <1>12 DEF Clear, DropsSender
  <2>1. NamesTypeOK'
    BY DEF NamesTypeOK, Values
  <2>2. TasksOK' /\ SweepOK' /\ SweptByNextStart'
    BY DEF NamesTypeOK, TasksOK, SweepOK, SweptByNextStart
  <2>3. AnswersOK' /\ RulesOK'
    BY DEF NamesTypeOK, AnswersOK, RulesOK, Waiting
  <2>4. CanariesOK' /\ ForgottenOnceProved'
    BY DEF NamesTypeOK, AnswersOK, RulesOK, CanariesOK, ForgottenOnceProved, Waiting
  <2> QED
    BY <2>1, <2>2, <2>3, <2>4
<1>13. ASSUME NEW r \in Requests, CanaryGoesElsewhere(r) PROVE IInv'
  <2> USE <1>13 DEF CanaryGoesElsewhere, coreVars
  <2>1. NamesTypeOK'
    BY DEF NamesTypeOK, Values
  <2>2. TasksOK' /\ SweepOK' /\ SweptByNextStart'
    BY DEF NamesTypeOK, TasksOK, SweepOK, SweptByNextStart
  <2>3. AnswersOK' /\ RulesOK'
    BY DEF NamesTypeOK, AnswersOK, RulesOK, Waiting
  <2>4. CanariesOK' /\ ForgottenOnceProved'
    BY DEF NamesTypeOK, AnswersOK, RulesOK, CanariesOK, ForgottenOnceProved, Waiting
  <2> QED
    BY <2>1, <2>2, <2>3, <2>4
<1>14. ASSUME NEW r \in Requests, CanaryComes(r) PROVE IInv'
  <2> USE <1>14 DEF CanaryComes
  <2>1. NamesTypeOK'
    BY DEF NamesTypeOK, Values
  <2>2. TasksOK' /\ SweepOK' /\ SweptByNextStart'
    BY DEF NamesTypeOK, TasksOK, SweepOK, SweptByNextStart
  <2>3. AnswersOK' /\ RulesOK'
    BY DEF NamesTypeOK, AnswersOK, RulesOK, Waiting
  <2>4. CanariesOK' /\ ForgottenOnceProved'
    BY DEF NamesTypeOK, AnswersOK, RulesOK, CanariesOK, ForgottenOnceProved, Waiting
  <2> QED
    BY <2>1, <2>2, <2>3, <2>4
<1>15. ASSUME NEW r \in Requests, WatchingFor(r) PROVE IInv'
  <2>1. \/ slot = r /\ slot' = Nobody /\ told' = [told EXCEPT ![r] = "arrived"]
        \/ slot # r /\ UNCHANGED <<slot, told>>
    BY <1>15 DEF WatchingFor
  <2>2. /\ r \in seen /\ seen' = seen \ {r}
        /\ UNCHANGED <<phase, lives, at, answer, watched, machineVars>>
    BY <1>15 DEF WatchingFor
  <2>3. \A q \in Requests : q # r => told'[q] = told[q]
    BY <2>1 DEF NamesTypeOK
  <2>4. NamesTypeOK'
    BY <2>1, <2>2, <2>3 DEF NamesTypeOK, Values
  <2>5. TasksOK' /\ SweepOK' /\ SweptByNextStart'
    BY <2>1, <2>2, <2>3 DEF NamesTypeOK, TasksOK, SweepOK, SweptByNextStart
  <2>6. AnswersOK'
    BY <2>1, <2>2, <2>3 DEF NamesTypeOK, AnswersOK
  <2>7. RulesOK'
    BY <2>1, <2>2, <2>3 DEF NamesTypeOK, RulesOK, Waiting
  <2>8. CanariesOK'
    <3>1. /\ Waiting(r) \/ at[r] \in Releasing \cup Over
          /\ answer[r] \notin {"failed", "given back"}
          /\ r \in wrote /\ at[r] # "cut" => used
      BY <2>2 DEF CanariesOK
    <3>2. slot' \in {slot, Nobody}
      BY <2>1
    <3>3. UNCHANGED <<at, answer, wrote, used, canaries>>
      BY <2>2
    <3>4. \A q \in Requests : q # r => (q \in seen' <=> q \in seen)
      BY <2>2
    <3>5. \A q \in Requests : slot' = q => slot = q
      BY <3>2, NamesAssumption
    <3> QED
      BY <2>3, <3>1, <3>3, <3>4, <3>5 DEF CanariesOK, Waiting
  <2>9. ForgottenOnceProved'
    BY <2>1, <2>2, <2>3 DEF NamesTypeOK, AnswersOK, RulesOK, CanariesOK, ForgottenOnceProved, Waiting
  <2> QED
    BY <2>4, <2>5, <2>6, <2>7, <2>8, <2>9
<1>16. ASSUME NEW r \in Requests, Look(r) PROVE IInv'
  <2>1. PICK where \in {"delete", "done"} :
          /\ at' = [at EXCEPT ![r] = where]
          /\ where = "delete" <=> "mark" \in rule
    BY <1>16 DEF Look, Finishes
  <2>2. /\ at[r] = "look" /\ r # Main
        /\ UNCHANGED <<phase, lives, answer, slot, watched, told, seen, machineVars>>
    BY <1>16 DEF Look, Finishes
  <2>3. at'[r] = where /\ \A t \in Tasks : t # r => at'[t] = at[t]
    BY <2>1 DEF NamesTypeOK
  <2>4. NamesTypeOK'
    <3>1. at' \in [Tasks -> {"unasked", "create", "watch", "raise", "ask", "wait", "lower",
                            "clear"} \cup Writing \cup Releasing \cup Over]
      BY <2>1 DEF NamesTypeOK
    <3> QED
      BY <2>2, <3>1 DEF NamesTypeOK
  <2>5. TasksOK' /\ SweepOK' /\ SweptByNextStart'
    BY <2>1, <2>2, <2>3 DEF NamesTypeOK, TasksOK, SweepOK, SweptByNextStart
  <2>6. AnswersOK'
    BY <2>1, <2>2, <2>3 DEF NamesTypeOK, AnswersOK
  <2>7. RulesOK'
    BY <2>1, <2>2, <2>3 DEF NamesTypeOK, RulesOK, Waiting
  <2>8. CanariesOK'
    BY <2>1, <2>2, <2>3 DEF NamesTypeOK, AnswersOK, RulesOK, CanariesOK, Waiting
  <2>9. ForgottenOnceProved'
    BY <2>1, <2>2, <2>3 DEF NamesTypeOK, AnswersOK, RulesOK, CanariesOK, ForgottenOnceProved, Waiting
  <2> QED
    BY <2>4, <2>5, <2>6, <2>7, <2>8, <2>9
<1>17. ASSUME NEW r \in Requests, Delete(r) PROVE IInv'
  <2>1. PICK where \in {"flush", "done"} :
          /\ at' = [at EXCEPT ![r] = where]
          /\ rule' = {} /\ wrote' = {}
    BY <1>17 DEF Delete, Finishes
  <2>2. /\ at[r] = "delete" /\ r # Main
        /\ UNCHANGED <<phase, lives, answer, slot, watched, told, seen, used, foreign, canaries>>
    BY <1>17 DEF Delete, Finishes
  <2>3. at'[r] = where /\ \A t \in Tasks : t # r => at'[t] = at[t]
    BY <2>1 DEF NamesTypeOK
  <2>4. NamesTypeOK'
    BY <2>1, <2>2, <2>3 DEF NamesTypeOK, Values
  <2>5. TasksOK' /\ SweepOK' /\ SweptByNextStart'
    BY <2>1, <2>2, <2>3 DEF NamesTypeOK, TasksOK, SweepOK, SweptByNextStart
  <2>6. AnswersOK'
    BY <2>1, <2>2, <2>3 DEF NamesTypeOK, AnswersOK
  <2>7. RulesOK'
    BY <2>1, <2>2, <2>3 DEF NamesTypeOK, RulesOK, Waiting
  <2>8. CanariesOK'
    BY <2>1, <2>2, <2>3 DEF NamesTypeOK, AnswersOK, RulesOK, CanariesOK, Waiting
  <2>9. ForgottenOnceProved'
    BY <2>1, <2>2, <2>3 DEF NamesTypeOK, AnswersOK, RulesOK, CanariesOK, ForgottenOnceProved, Waiting
  <2> QED
    BY <2>4, <2>5, <2>6, <2>7, <2>8, <2>9
<1>18. ASSUME NEW r \in Requests, Flush(r) PROVE IInv'
  <2> USE <1>18 DEF Flush, Finishes
  <2>1. NamesTypeOK'
    BY DEF NamesTypeOK, Values
  <2>2. TasksOK' /\ SweepOK' /\ SweptByNextStart'
    BY DEF NamesTypeOK, TasksOK, SweepOK, SweptByNextStart
  <2>3. AnswersOK' /\ RulesOK'
    BY DEF NamesTypeOK, AnswersOK, RulesOK, Waiting
  <2>4. CanariesOK' /\ ForgottenOnceProved'
    BY DEF NamesTypeOK, AnswersOK, RulesOK, CanariesOK, ForgottenOnceProved, Waiting
  <2> QED
    BY <2>1, <2>2, <2>3, <2>4
<1>19. ASSUME Look(Main) PROVE IInv'
  <2>1. PICK where \in {"delete", "done"} :
          /\ at' = [at EXCEPT ![Main] = where]
          /\ where = "delete" => "mark" \in rule /\ phase' = phase
          /\ where = "done" => /\ "mark" \notin rule
                              /\ phase' = IF phase = "starting" THEN "up" ELSE "leaving"
    BY <1>19 DEF Look, Finishes
  <2>2. /\ at[Main] = "look"
        /\ UNCHANGED <<lives, answer, slot, watched, told, seen, machineVars>>
    BY <1>19 DEF Look, Finishes
  <2>3. at'[Main] = where /\ \A r \in Requests : at'[r] = at[r]
    BY <2>1 DEF NamesTypeOK
  <2>4. NamesTypeOK'
    <3>1. phase' \in {"starting", "up", "stopping", "leaving", "ended", "killed"}
      BY <2>1 DEF NamesTypeOK
    <3>2. at' \in [Tasks -> {"unasked", "create", "watch", "raise", "ask", "wait", "lower",
                            "clear"} \cup Writing \cup Releasing \cup Over]
      BY <2>1 DEF NamesTypeOK
    <3> QED
      BY <2>2, <3>1, <3>2 DEF NamesTypeOK
  <2>5. TasksOK' /\ SweepOK' /\ SweptByNextStart'
    BY <2>1, <2>2, <2>3 DEF NamesTypeOK, TasksOK, SweepOK, SweptByNextStart
  <2>6. AnswersOK'
    BY <2>1, <2>2, <2>3 DEF NamesTypeOK, AnswersOK
  <2>7. RulesOK'
    BY <2>1, <2>2, <2>3 DEF NamesTypeOK, RulesOK, Waiting
  <2>8. CanariesOK'
    BY <2>1, <2>2, <2>3 DEF NamesTypeOK, AnswersOK, RulesOK, CanariesOK, Waiting
  <2>9. ForgottenOnceProved'
    BY <2>1, <2>2, <2>3 DEF NamesTypeOK, AnswersOK, RulesOK, CanariesOK, ForgottenOnceProved, Waiting
  <2> QED
    BY <2>4, <2>5, <2>6, <2>7, <2>8, <2>9
<1>20. ASSUME Delete(Main) PROVE IInv'
  <2> USE <1>20 DEF Delete, Finishes
  <2>1. NamesTypeOK'
    BY DEF NamesTypeOK, Values
  <2>2. TasksOK' /\ SweepOK' /\ SweptByNextStart'
    BY DEF NamesTypeOK, TasksOK, SweepOK, SweptByNextStart
  <2>3. AnswersOK' /\ RulesOK'
    BY DEF NamesTypeOK, AnswersOK, RulesOK, Waiting
  <2>4. CanariesOK' /\ ForgottenOnceProved'
    BY DEF NamesTypeOK, AnswersOK, RulesOK, CanariesOK, ForgottenOnceProved, Waiting
  <2> QED
    BY <2>1, <2>2, <2>3, <2>4
<1>21. ASSUME Flush(Main) PROVE IInv'
  <2> USE <1>21 DEF Flush, Finishes
  <2>1. NamesTypeOK'
    BY DEF NamesTypeOK, Values
  <2>2. TasksOK' /\ SweepOK' /\ SweptByNextStart'
    BY DEF NamesTypeOK, TasksOK, SweepOK, SweptByNextStart
  <2>3. AnswersOK' /\ RulesOK'
    BY DEF NamesTypeOK, AnswersOK, RulesOK, Waiting
  <2>4. CanariesOK' /\ ForgottenOnceProved'
    BY DEF NamesTypeOK, AnswersOK, RulesOK, CanariesOK, ForgottenOnceProved, Waiting
  <2> QED
    BY <2>1, <2>2, <2>3, <2>4
<1>22. ASSUME Stop PROVE IInv'
  <2> USE <1>22 DEF Stop
  <2>1. NamesTypeOK'
    BY DEF NamesTypeOK, Values
  <2>2. TasksOK' /\ SweepOK' /\ SweptByNextStart'
    BY DEF NamesTypeOK, TasksOK, SweepOK, SweptByNextStart
  <2>3. AnswersOK' /\ RulesOK'
    BY DEF NamesTypeOK, AnswersOK, RulesOK, Waiting
  <2>4. CanariesOK' /\ ForgottenOnceProved'
    BY DEF NamesTypeOK, AnswersOK, RulesOK, CanariesOK, ForgottenOnceProved, Waiting
  <2> QED
    BY <2>1, <2>2, <2>3, <2>4
<1>23. ASSUME End PROVE IInv'
  <2> USE <1>23 DEF End, GoesAway
  <2>1. NamesTypeOK'
    BY DEF NamesTypeOK, Values
  <2>2. TasksOK' /\ SweepOK' /\ SweptByNextStart'
    BY DEF NamesTypeOK, TasksOK, SweepOK, SweptByNextStart
  <2>3. AnswersOK' /\ RulesOK'
    BY DEF NamesTypeOK, AnswersOK, RulesOK, Waiting
  <2>4. CanariesOK' /\ ForgottenOnceProved'
    BY DEF NamesTypeOK, AnswersOK, RulesOK, CanariesOK, ForgottenOnceProved, Waiting
  <2> QED
    BY <2>1, <2>2, <2>3, <2>4
<1>24. ASSUME Kill PROVE IInv'
  <2> USE <1>24 DEF Kill, GoesAway
  <2>1. NamesTypeOK'
    BY DEF NamesTypeOK, Values
  <2>2. TasksOK' /\ SweepOK' /\ SweptByNextStart'
    BY DEF NamesTypeOK, TasksOK, SweepOK, SweptByNextStart
  <2>3. AnswersOK' /\ RulesOK'
    BY DEF NamesTypeOK, AnswersOK, RulesOK, Waiting
  <2>4. CanariesOK' /\ ForgottenOnceProved'
    BY DEF NamesTypeOK, AnswersOK, RulesOK, CanariesOK, ForgottenOnceProved, Waiting
  <2> QED
    BY <2>1, <2>2, <2>3, <2>4
<1>25. ASSUME Start PROVE IInv'
  <2> USE <1>25 DEF Start
  <2>1. NamesTypeOK'
    <3>1. lives \in 1..MostLives
      BY DEF NamesTypeOK
    <3>2. lives' \in 1..MostLives
      BY <3>1
    <3> QED
      BY <3>2 DEF NamesTypeOK
  <2>2. TasksOK' /\ SweepOK' /\ SweptByNextStart'
    BY DEF NamesTypeOK, TasksOK, SweepOK, SweptByNextStart
  <2>3. AnswersOK' /\ RulesOK'
    BY DEF NamesTypeOK, AnswersOK, RulesOK, Waiting
  <2>4. CanariesOK' /\ ForgottenOnceProved'
    BY DEF NamesTypeOK, AnswersOK, RulesOK, CanariesOK, ForgottenOnceProved, Waiting
  <2> QED
    BY <2>1, <2>2, <2>3, <2>4
<1>26. ASSUME TakesUp PROVE IInv'
  <2> USE <1>26 DEF TakesUp, coreVars
  <2>1. NamesTypeOK'
    BY DEF NamesTypeOK, Values
  <2>2. TasksOK' /\ SweepOK' /\ SweptByNextStart'
    BY DEF NamesTypeOK, TasksOK, SweepOK, SweptByNextStart
  <2>3. AnswersOK' /\ RulesOK'
    BY DEF NamesTypeOK, AnswersOK, RulesOK, Waiting
  <2>4. CanariesOK' /\ ForgottenOnceProved'
    <3>1. ASSUME NEW q \in Requests, q \in wrote, at[q] # "cut",
                 q \in seen \/ told[q] = "arrived"
          PROVE  FALSE
      <4>1. used /\ "aim" \in rule
        BY <3>1 DEF CanariesOK, RulesOK, NamesTypeOK, Values, Waiting
      <4>2. used = TRUE
        BY <4>1 DEF NamesTypeOK
      <4>3. ("aim" \in rule) = TRUE
        BY <4>1
      <4> QED
        BY <4>2, <4>3
    <3> QED
      BY <3>1 DEF NamesTypeOK, CanariesOK, ForgottenOnceProved, Waiting
  <2> QED
    BY <2>1, <2>2, <2>3, <2>4
<1>27. ASSUME ResolvesElsewhere PROVE IInv'
  <2> USE <1>27 DEF ResolvesElsewhere, coreVars
  <2>1. NamesTypeOK'
    BY DEF NamesTypeOK, Values
  <2>2. TasksOK' /\ SweepOK' /\ SweptByNextStart'
    BY DEF NamesTypeOK, TasksOK, SweepOK, SweptByNextStart
  <2>3. AnswersOK' /\ RulesOK'
    BY DEF NamesTypeOK, AnswersOK, RulesOK, Waiting
  <2>4. CanariesOK' /\ ForgottenOnceProved'
    BY DEF NamesTypeOK, AnswersOK, RulesOK, CanariesOK, ForgottenOnceProved, Waiting
  <2> QED
    BY <2>1, <2>2, <2>3, <2>4
<1>28. CASE UNCHANGED vars
  <2> USE <1>28 DEF vars, coreVars
  <2>1. NamesTypeOK'
    BY DEF NamesTypeOK, Values
  <2>2. TasksOK' /\ SweepOK' /\ SweptByNextStart'
    BY DEF NamesTypeOK, TasksOK, SweepOK, SweptByNextStart
  <2>3. AnswersOK' /\ RulesOK'
    BY DEF NamesTypeOK, AnswersOK, RulesOK, Waiting
  <2>4. CanariesOK' /\ ForgottenOnceProved'
    BY DEF NamesTypeOK, AnswersOK, RulesOK, CanariesOK, ForgottenOnceProved, Waiting
  <2> QED
    BY <2>1, <2>2, <2>3, <2>4
<1> QED
  BY <1>1, <1>2, <1>3, <1>4, <1>5, <1>6, <1>7, <1>8, <1>9, <1>10, <1>11, <1>12, <1>13, <1>14,
     <1>15, <1>16, <1>17, <1>18, <1>19, <1>20, <1>21, <1>22, <1>23, <1>24, <1>25, <1>26,
     <1>27, <1>28
  DEF Next, Request, Release

LEMMA InvariantHolds == Spec => []IInv
<1>1. QED
  BY InitHolds, StepKeeps, PTL DEF Spec

\* The record adds nothing to what the names do.
LEMMA RecordOnly == HistSpec => Spec
<1>1. HistInit => Init
  BY DEF HistInit
<1>2. [HistNext]_<<vars, quiet>> => [Next]_vars
  BY DEF HistNext
<1> QED
  BY <1>1, <1>2, PTL DEF HistSpec, Spec

-----------------------------------------------------------------------------
\* Every variable of the names keeps its type, for any requests and any number
\* of starts; a rule is written in order (names.rs:66-80).
THEOREM NamesTyped == Spec => []NamesTypeOK
<1>1. IInv => NamesTypeOK
  BY DEF IInv
<1> QED
  BY <1>1, InvariantHolds, PTL

\* A claim refused because its canary never came has left nothing of itself in
\* the registry by the time it is answered (names.rs:90-91).
THEOREM RefusedLeavesNothing == Spec => []UndoneBeforeRefusal
<1>1. IInv => UndoneBeforeRefusal
  BY DEF IInv, RulesOK, UndoneBeforeRefusal
<1> QED
  BY <1>1, InvariantHolds, PTL

\* Once a claim whose canary came is answered, and while its rule stands, the
\* machine holds no other resolver's answer (names.rs:111-112).
THEOREM ProvedForgets == Spec => []ForgottenOnceProved
<1>1. IInv => ForgottenOnceProved
  BY DEF IInv
<1> QED
  BY <1>1, InvariantHolds, PTL

\* However the core before ended, a core that is up and was asked for nothing
\* has left no marked rule (names.rs:15-17).
THEOREM StartSweeps == Spec => []SweptByNextStart
<1>1. IInv => SweptByNextStart
  BY DEF IInv
<1> QED
  BY <1>1, InvariantHolds, PTL

\* On the way out, a core stays calm unless a claim is asked for.
LEMMA CalmKept ==
  ASSUME IInv, phase \in Leaving => Calm, Next, ~Stop,
         \A r \in Requests : ~AskToClaim(r), phase' \in Leaving
  PROVE  Calm'
<1> USE DEF Calm, Leaving, IInv, NamesTypeOK, TasksOK, Tasks, Claiming, Writing, Releasing,
    Over, Goes, machineVars
<1>1. ASSUME NEW r \in Requests,
             \/ AskToGiveBack(r) \/ Create(r) \/ Write(r) \/ WriteFails(r)
             \/ Watch(r) \/ Raise(r) \/ AskMachine(r)
      PROVE  Calm'
  <2>1. ASSUME AskToGiveBack(r) PROVE Calm'
    BY <2>1 DEF AskToGiveBack
  <2>2. ASSUME Create(r) \/ Write(r) \/ WriteFails(r) PROVE Calm'
    BY <2>2 DEF Create, Write, WriteFails
  <2>3. ASSUME Watch(r) PROVE Calm'
    BY <2>3 DEF Watch
  <2>4. ASSUME Raise(r) \/ AskMachine(r) PROVE Calm'
    BY <2>4 DEF Raise, AskMachine
  <2> QED
    BY <1>1, <2>1, <2>2, <2>3, <2>4
<1>2. ASSUME NEW r \in Requests,
             Carried(r) \/ TimesOut(r) \/ Lower(r) \/ Clear(r)
      PROVE  Calm'
  BY <1>2 DEF Carried, TimesOut, Lower, Clear
<1>3. ASSUME NEW r \in Requests, Release(r) PROVE Calm'
  BY <1>3 DEF Release, Look, Delete, Flush, Finishes
<1>4. ASSUME Release(Main) PROVE Calm'
  <2>1. phase \in Leaving
    BY <1>4 DEF Release, Look, Delete, Flush, Finishes
  <2>2. ASSUME Look(Main) PROVE Calm'
    BY <2>1, <2>2 DEF Look, Finishes
  <2>3. ASSUME Delete(Main) PROVE Calm'
    BY <2>1, <2>3 DEF Delete, Finishes
  <2>4. ASSUME Flush(Main) PROVE Calm'
    BY <2>1, <2>4 DEF Flush, Finishes
  <2> QED
    BY <1>4, <2>2, <2>3, <2>4 DEF Release
<1>5. ASSUME End PROVE Calm'
  BY <1>5 DEF End, GoesAway
<1>6. ASSUME Kill \/ Start PROVE Calm'
  BY <1>6 DEF Kill, Start, GoesAway
<1>7. ASSUME \/ TakesUp \/ ResolvesElsewhere
             \/ \E r \in Requests : CanaryGoesElsewhere(r) \/ CanaryComes(r) \/ WatchingFor(r)
      PROVE  Calm'
  BY <1>7 DEF TakesUp, ResolvesElsewhere, CanaryGoesElsewhere, CanaryComes, WatchingFor, coreVars
<1> QED
  BY <1>1, <1>2, <1>3, <1>4, <1>5, <1>6, <1>7 DEF Next, Request

\* With no claim still writing when the core stops and none asked for after,
\* nothing marked is left when it has ended (main.rs:523-526).
THEOREM QuietGivesBack == HistSpec => []GivenBackWhenQuiet
<1>1. HistInit => QuietOK
  BY DEF HistInit, Init, QuietOK, Leaving
<1>2. IInv /\ QuietOK /\ [HistNext]_<<vars, quiet>> => QuietOK'
  <2> SUFFICES ASSUME IInv, QuietOK, [HistNext]_<<vars, quiet>>, quiet', phase' \in Leaving
               PROVE  Calm'
    BY DEF QuietOK
  <2>1. CASE UNCHANGED <<vars, quiet>>
    BY <2>1 DEF QuietOK, Calm, Leaving, vars, coreVars, machineVars
  <2>2. CASE HistNext
    <3>1. ~\E r \in Requests : AskToClaim(r)
      <4> SUFFICES ASSUME NEW r \in Requests, AskToClaim(r) PROVE FALSE
        OBVIOUS
      <4>1. phase' = phase /\ phase = "up"
        BY <2>2 DEF HistNext, AskToClaim
      <4> QED
        BY <4>1 DEF Leaving
    <3>2. CASE Stop
      <4>1. \A r \in Requests : at[r] \notin Claiming
        BY ONLY <2>2, <3>1, <3>2, quiet' DEF HistNext, Claiming
      <4> QED
        BY <3>2, <4>1
        DEF Stop, Goes, Calm, IInv, NamesTypeOK, Tasks, Claiming, Writing
    <3>3. CASE ~Stop
      <4>1. quiet
        BY ONLY <2>2, <3>1, <3>3, quiet' DEF HistNext
      <4> QED
        BY <2>2, <3>1, <3>3, <4>1, CalmKept DEF HistNext, QuietOK
    <3> QED
      BY <3>2, <3>3
  <2> QED
    BY <2>1, <2>2
<1>3. QuietOK => GivenBackWhenQuiet
  BY DEF QuietOK, Calm, Leaving, GivenBackWhenQuiet
<1> QED
  BY <1>1, <1>2, <1>3, RecordOnly, InvariantHolds, PTL DEF HistSpec

=============================================================================
