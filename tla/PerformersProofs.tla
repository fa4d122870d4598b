--------------------------- MODULE PerformersProofs ---------------------------
(* What a performer leaves behind, for any table of performers that keeps to the
   assumptions. *)
EXTENDS Performers, PerformerCriteria, TLAPS

-----------------------------------------------------------------------------
(* The invariants. *)

(* What was reached lies behind; the job starts with the answer at the end. *)
ReachInv ==
  /\ \A i \in reached : i = 0 \/ (i < at /\ path[i].op = "outside")
  /\ 0 \in reached => jobAt > 0
  /\ told = "none" => jobAt = 0
  /\ jobAt > 0 => job # <<>> /\ told = (IF owed THEN "error" ELSE "ok")
  /\ owed => \E i \in 1 .. Len(path) : path[i].fail = "later"

(* What was written lies behind and is kept when the action has ended. In an aborted
   transaction nothing was written, or a failure is still to come that is reported. *)
StoreInv ==
  /\ \A i \in written : i < at /\ path[i].op = "write"
  /\ dropped = {}
  /\ told = "none" => actionTx \in {"open", "aborted"}
  /\ told = "ok" => ~owed
  /\ actionTx \in {"open", "aborted"} => kept = {}
  /\ actionTx = "aborted" /\ told = "none" /\ ~owed =>
       written = {} \/ \E k \in at .. Len(path) : Reports(path[k])
  /\ actionTx = "aborted" /\ told = "ok" => written = {}
  /\ told = "ok" /\ actionTx \notin {"open", "aborted"} => kept = written

PerformerInv ==
  /\ PerformerTypeOK /\ ReachInv /\ RefusalReachesNothing
  /\ performer \notin LoseWrites => StoreInv

-----------------------------------------------------------------------------
Chosen == \E p \in AllPerformers : performer = p.name /\ path \in p.paths /\ job \in p.jobs

(* What the table says of the path and the job that were chosen. *)
LEMMA TableSays ==
  ASSUME Chosen
  PROVE  /\ path \in Seq(Steps) /\ Len(path) \in Nat /\ DOMAIN path = 1 .. Len(path)
         /\ SkipsWithin(path) /\ job \in Seq(Steps) /\ Len(job) \in Nat
         /\ performer \notin FailAfterReaching => \E jobs : job \in jobs /\ ErrorsComeFirst(path, jobs)
         /\ performer \notin LoseWrites => WritesAreReported(path)
<1>1. PICK p \in AllPerformers : performer = p.name /\ path \in p.paths /\ job \in p.jobs
  BY DEF Chosen
<1>2. path \in Seq(Steps) /\ SkipsWithin(path) /\ job \in Seq(Steps)
  BY <1>1, PathsAreSteps
<1>3. performer \notin FailAfterReaching => ErrorsComeFirst(path, p.jobs)
  BY <1>1, ErrorsAreEarly
<1>4. performer \notin LoseWrites => WritesAreReported(path)
  BY <1>1, LossesAreReported
<1> QED BY <1>1, <1>2, <1>3, <1>4

(* The step at which the performer is. *)
LEMMA HereIs ==
  ASSUME PerformerTypeOK, Running
  PROVE  /\ at \in 1 .. Len(path) /\ at \in Nat /\ Here \in Steps /\ Here = path[at] /\ Here.skip \in Nat
         /\ at + 1 + Here.skip <= Len(path) + 1
         /\ Here.skip > 0 => Here.fail = "later"
<1>1. Chosen /\ at \in 1 .. Len(path) + 1 /\ at <= Len(path)
  BY DEF PerformerTypeOK, Chosen, Running
<1>2. path \in Seq(Steps) /\ Len(path) \in Nat /\ SkipsWithin(path)
  BY <1>1, TableSays
<1>3. at \in 1 .. Len(path) /\ Here = path[at] /\ Here \in Steps
  BY <1>1, <1>2 DEF Here
<1>4. Here.skip \in Nat
  BY <1>3 DEF Steps
<1>5. Here.skip > 0 => Here.fail = "later" /\ at + Here.skip <= Len(path)
  BY <1>2, <1>3 DEF SkipsWithin
<1> QED BY <1>1, <1>2, <1>3, <1>4, <1>5

(* The initial states. *)
LEMMA PerformerInvInit == PerformerInit => PerformerInv
<1> SUFFICES ASSUME PerformerInit PROVE PerformerInv
  OBVIOUS
<1>1. Chosen
  BY DEF PerformerInit, Chosen
<1>2. Len(path) \in Nat /\ Len(job) \in Nat
  BY <1>1, TableSays
<1>3. PerformerTypeOK
  <2>1. /\ at = 1 /\ jobAt = 0 /\ aborts \in BOOLEAN /\ spare \in {0, 1} /\ actionTx = "open" /\ written = {}
        /\ kept = {} /\ dropped = {} /\ reached = {} /\ tmpDir = FALSE /\ owed = FALSE /\ told = "none"
    BY DEF PerformerInit
  <2>2. UNION {written, kept, dropped} \subseteq DOMAIN path
    BY <2>1
  <2>3. tmpDir \in BOOLEAN /\ owed \in BOOLEAN
    BY <2>1, Zenon
  <2> QED BY <1>1, <1>2, <2>1, <2>2, <2>3 DEF PerformerTypeOK, Chosen
<1>4. ReachInv /\ RefusalReachesNothing
  BY DEF PerformerInit, ReachInv, RefusalReachesNothing
<1>5. StoreInv
  BY DEF PerformerInit, StoreInv
<1> QED BY <1>3, <1>4, <1>5 DEF PerformerInv

(* Types: what was chosen stays, and a step is taken within the path. *)
LEMMA PerformerTypeStep ==
  ASSUME PerformerTypeOK, [PerformerNext]_performerVars
  PROVE  PerformerTypeOK'
<1>1. Chosen
  BY DEF PerformerTypeOK, Chosen
<1>2. path \in Seq(Steps) /\ Len(path) \in Nat /\ DOMAIN path = 1 .. Len(path) /\ job \in Seq(Steps) /\ Len(job) \in Nat
  BY <1>1, TableSays
<1>3. performer' = performer /\ path' = path /\ job' = job /\ aborts' = aborts /\ spare' = spare
  BY DEF PerformerNext, performerVars, choiceVars, StepDone, StepFails, Finish, ActionEnds, JobStepDone, JobStepFails
<1>4. Chosen'
  BY <1>1, <1>3 DEF Chosen
<1>5. /\ at \in 1 .. Len(path) + 1 /\ jobAt \in 0 .. Len(job) + 1 /\ aborts \in BOOLEAN /\ spare \in {0, 1}
      /\ actionTx \in {"open", "aborted", "committed", "rolledBack", "lost"}
      /\ UNION {written, kept, dropped} \subseteq DOMAIN path /\ reached \subseteq DOMAIN path \cup {0}
      /\ tmpDir \in BOOLEAN /\ owed \in BOOLEAN /\ told \in {"none", "ok", "notice", "error", "panic"}
  BY DEF PerformerTypeOK
<1>6. written \subseteq DOMAIN path /\ kept \subseteq DOMAIN path /\ dropped \subseteq DOMAIN path
  BY <1>5
<1>7. SUFFICES /\ at' \in 1 .. Len(path) + 1 /\ jobAt' \in 0 .. Len(job) + 1
               /\ actionTx' \in {"open", "aborted", "committed", "rolledBack", "lost"}
               /\ written' \subseteq DOMAIN path /\ kept' \subseteq DOMAIN path /\ dropped' \subseteq DOMAIN path
               /\ reached' \subseteq DOMAIN path \cup {0}
               /\ tmpDir' \in BOOLEAN /\ owed' \in BOOLEAN /\ told' \in {"none", "ok", "notice", "error", "panic"}
  <2>1. Chosen' => \E p \in AllPerformers : performer' = p.name /\ path' \in p.paths /\ job' \in p.jobs
    BY DEF Chosen
  <2> QED BY <1>3, <1>4, <1>5, <2>1 DEF PerformerTypeOK
<1>8. CASE StepDone
  <2>1. at \in 1 .. Len(path)
    BY <1>8, HereIs DEF StepDone
  <2> QED BY <1>2, <1>5, <1>6, <1>8, <2>1 DEF StepDone
<1>9. CASE StepFails
  <2>1. at \in 1 .. Len(path) /\ at + 1 + Here.skip <= Len(path) + 1 /\ Here.skip \in Nat
    BY <1>9, HereIs DEF StepFails
  <2>2. /\ (told' \in {"none", "ok", "notice", "error", "panic"} /\ at' = at) \/ (told' = told /\ at' = at + (1 + Here.skip))
        /\ dropped' = dropped \/ dropped' = dropped \cup {at}
        /\ UNCHANGED <<jobAt, written, kept, reached>>
    BY <1>9 DEF StepFails, Returns, GoesOn
  <2>3. actionTx' \in {"rolledBack", "aborted", actionTx}
    BY <1>9 DEF StepFails, AfterFailure, RollBackActionTx
  <2>4. tmpDir' \in BOOLEAN /\ owed' \in BOOLEAN
    BY <1>5, <1>9, Zenon DEF StepFails
  <2> QED BY <1>2, <1>5, <1>6, <2>1, <2>2, <2>3, <2>4, SMTT(30)
<1>10. CASE Finish
  BY <1>2, <1>5, <1>6, <1>10 DEF Finish
<1>11. CASE ActionEnds
  BY <1>5, <1>6, <1>11 DEF ActionEnds, RollBackActionTx
<1>12. CASE JobStepDone
  BY <1>2, <1>5, <1>6, <1>12 DEF JobStepDone, JobRunning
<1>13. CASE JobStepFails
  BY <1>2, <1>5, <1>6, <1>13 DEF JobStepFails, JobRunning
<1>14. CASE UNCHANGED performerVars
  BY <1>5, <1>6, <1>14 DEF performerVars
<1> QED BY <1>8, <1>9, <1>10, <1>11, <1>12, <1>13, <1>14 DEF PerformerNext

(* What is reached, and what an error leaves: nothing. *)
LEMMA ReachStep ==
  ASSUME PerformerTypeOK, ReachInv, RefusalReachesNothing, [PerformerNext]_performerVars
  PROVE  ReachInv' /\ RefusalReachesNothing'
<1>1. Chosen
  BY DEF PerformerTypeOK, Chosen
<1>2. /\ path \in Seq(Steps) /\ Len(path) \in Nat /\ Len(job) \in Nat
      /\ performer \notin FailAfterReaching => \E jobs : job \in jobs /\ ErrorsComeFirst(path, jobs)
  BY <1>1, TableSays
<1>3. performer' = performer /\ path' = path /\ job' = job
  BY DEF PerformerNext, performerVars, choiceVars, StepDone, StepFails, Finish, ActionEnds, JobStepDone, JobStepFails
<1>4. /\ at \in 1 .. Len(path) + 1 /\ jobAt \in 0 .. Len(job) + 1 /\ reached \subseteq (1 .. Len(path)) \cup {0}
      /\ told \in {"none", "ok", "notice", "error", "panic"} /\ owed \in BOOLEAN
  BY <1>1, TableSays DEF PerformerTypeOK
<1>5. /\ \A i \in reached : i = 0 \/ (i < at /\ path[i].op = "outside")
      /\ 0 \in reached => jobAt > 0
      /\ told = "none" => jobAt = 0
      /\ jobAt > 0 => job # <<>> /\ told = (IF owed THEN "error" ELSE "ok")
      /\ owed => \E i \in 1 .. Len(path) : path[i].fail = "later"
  BY DEF ReachInv
<1>6. CASE StepDone
  <2>1. at \in 1 .. Len(path) /\ Here = path[at] /\ told = "none"
    BY <1>6, HereIs DEF StepDone, Running
  <2>2. /\ at' = at + 1 /\ UNCHANGED <<jobAt, owed, told>>
        /\ \A i \in reached' : i \in reached \/ (i = at /\ Here.op = "outside")
    BY <1>6 DEF StepDone
  <2>3. ReachInv'
    <3>1. \A i \in reached' : i = 0 \/ (i < at' /\ path[i].op = "outside")
      <4> SUFFICES ASSUME NEW i \in reached', i # 0 PROVE i < at' /\ path[i].op = "outside"
        OBVIOUS
      <4>1. CASE i \in reached
        <5>1. i \in 1 .. Len(path) /\ i < at /\ path[i].op = "outside"
          BY <1>4, <1>5, <4>1
        <5> QED BY <1>2, <1>4, <2>2, <5>1
      <4>2. CASE i = at /\ Here.op = "outside"
        BY <2>1, <2>2, <4>2
      <4> QED BY <2>2, <4>1, <4>2
    <3>2. 0 \notin reached' /\ jobAt' = 0
      BY <1>5, <2>1, <2>2
    <3> QED BY <1>3, <1>5, <2>1, <2>2, <3>1, <3>2 DEF ReachInv
  <2> QED BY <2>1, <2>2, <2>3 DEF RefusalReachesNothing
<1>7. CASE StepFails
  <2>1. at \in 1 .. Len(path) /\ Here = path[at] /\ told = "none" /\ Here.skip \in Nat
    BY <1>7, HereIs DEF StepFails, Running
  <2>2. /\ UNCHANGED <<jobAt, reached>> /\ at' >= at
        /\ told' = "error" => Here.fail \in {"error", "undo"} /\ at' = at
    BY <1>4, <1>7, <2>1 DEF StepFails, Returns, GoesOn
  <2>3. owed' => owed \/ Here.fail = "later"
    BY <1>7 DEF StepFails
  <2>4. jobAt = 0 /\ 0 \notin reached
    BY <1>5, <2>1
  <2>5. owed' => \E i \in 1 .. Len(path) : path[i].fail = "later"
    BY <1>5, <2>1, <2>3
  <2>6. at' \in Nat \/ at' = at
    BY <1>4, <1>7, <2>1 DEF StepFails, Returns, GoesOn
  <2>7. ReachInv'
    <3>1. \A i \in reached' : i = 0 \/ (i < at' /\ path[i].op = "outside")
      BY <1>4, <1>5, <2>2, <2>6
    <3> QED BY <1>3, <2>2, <2>4, <2>5, <3>1 DEF ReachInv
  <2>8. ASSUME told' = "error", performer \notin FailAfterReaching PROVE reached = {}
    <3>1. PICK jobs : ErrorsComeFirst(path, jobs)
      BY <1>2, <2>8
    <3>2. path[at].fail \in {"error", "undo"}
      BY <2>1, <2>2, <2>8
    <3>3. \A i \in 1 .. Len(path) : i < at => path[i].op # "outside"
      BY <2>1, <3>1, <3>2 DEF ErrorsComeFirst
    <3> QED BY <1>4, <1>5, <2>4, <3>3
  <2> QED BY <1>3, <2>2, <2>4, <2>7, <2>8 DEF RefusalReachesNothing
<1>8. CASE Finish
  <2>1. /\ told = "none" /\ at = Len(path) + 1 /\ UNCHANGED <<at, reached, owed>>
        /\ jobAt' = (IF job = <<>> THEN 0 ELSE 1) /\ told' = (IF owed THEN "error" ELSE "ok")
    BY <1>8 DEF Finish
  <2>2. jobAt = 0 /\ 0 \notin reached
    BY <1>5, <2>1
  <2>3. ReachInv'
    BY <1>3, <1>5, <2>1, <2>2 DEF ReachInv
  <2>4. ASSUME owed, performer \notin FailAfterReaching PROVE reached = {} /\ job = <<>>
    <3>1. PICK jobs : job \in jobs /\ ErrorsComeFirst(path, jobs)
      BY <1>2, <2>4
    <3>2. jobs = {<<>>} /\ \A i \in 1 .. Len(path) : path[i].op # "outside"
      BY <1>5, <2>4, <3>1 DEF ErrorsComeFirst
    <3> QED BY <1>4, <1>5, <2>2, <3>1, <3>2
  <2> QED BY <1>3, <2>1, <2>3, <2>4 DEF RefusalReachesNothing
<1>9. CASE ActionEnds
  BY <1>3, <1>5, <1>9 DEF ActionEnds, ReachInv, RefusalReachesNothing
<1>10. CASE JobStepDone \/ JobStepFails
  <2>1. /\ jobAt \in 1 .. Len(job) /\ jobAt' > 0 /\ UNCHANGED <<at, owed, told>>
        /\ \A i \in reached' : i \in reached \/ i = 0
    BY <1>2, <1>4, <1>10 DEF JobStepDone, JobStepFails, JobRunning
  <2>2. performer \in FailAfterReaching \/ told # "error"
    BY <2>1 DEF RefusalReachesNothing
  <2>3. ReachInv'
    BY <1>3, <1>5, <2>1 DEF ReachInv
  <2> QED BY <1>3, <2>1, <2>2, <2>3 DEF RefusalReachesNothing
<1>11. CASE UNCHANGED performerVars
  BY <1>5, <1>11 DEF performerVars, ReachInv, RefusalReachesNothing
<1> QED BY <1>6, <1>7, <1>8, <1>9, <1>10, <1>11 DEF PerformerNext

(* What is written, and that a success has lost none of it. *)
LEMMA StoreStep ==
  ASSUME PerformerTypeOK, performer \notin LoseWrites, StoreInv, [PerformerNext]_performerVars
  PROVE  StoreInv'
<1>1. Chosen
  BY DEF PerformerTypeOK, Chosen
<1>2. path \in Seq(Steps) /\ Len(path) \in Nat /\ WritesAreReported(path)
  BY <1>1, TableSays
<1>3. path' = path
  BY DEF PerformerNext, performerVars, choiceVars, StepDone, StepFails, Finish, ActionEnds, JobStepDone, JobStepFails
<1>4. /\ at \in 1 .. Len(path) + 1 /\ written \subseteq 1 .. Len(path)
      /\ actionTx \in {"open", "aborted", "committed", "rolledBack", "lost"}
      /\ told \in {"none", "ok", "notice", "error", "panic"} /\ owed \in BOOLEAN
  BY <1>1, TableSays DEF PerformerTypeOK
<1>5. CASE StepDone
  <2>1. at \in 1 .. Len(path) /\ Here = path[at] /\ told = "none"
    BY <1>5, HereIs DEF StepDone, Running
  <2>2. Here.op # "commit"
    BY <1>2, <2>1 DEF WritesAreReported
  <2>3. /\ at' = at + 1 /\ UNCHANGED <<owed, told, actionTx, kept, dropped>>
        /\ written' = (IF Here.op = "write" THEN written \cup {at} ELSE written)
        /\ Here.op \in {"read", "write"} => actionTx = "open"
    BY <1>5, <2>2 DEF StepDone, IsStatement
  <2>4. \A i \in written' : i < at' /\ path[i].op = "write"
    BY <1>4, <2>1, <2>3 DEF StoreInv
  <2>5. ASSUME actionTx' = "aborted", ~owed'
        PROVE  written' = {} \/ \E k \in at' .. Len(path) : Reports(path[k])
    <3>1. written' = written /\ Here.op \notin {"read", "write"}
      BY <2>3, <2>5
    <3>2. CASE written = {}
      BY <3>1, <3>2
    <3>3. CASE \E k \in at .. Len(path) : Reports(path[k])
      <4>1. PICK k \in at .. Len(path) : Reports(path[k])
        BY <3>3
      <4>2. k # at
        BY <2>1, <3>1, <4>1 DEF Reports
      <4> QED BY <1>4, <2>3, <4>1, <4>2
    <3> QED BY <2>1, <2>3, <2>5, <3>2, <3>3 DEF StoreInv
  <2> QED BY <1>3, <2>1, <2>3, <2>4, <2>5 DEF StoreInv
<1>6. CASE StepFails
  <2>1. at \in 1 .. Len(path) /\ Here = path[at] /\ told = "none" /\ Here.skip \in Nat
        /\ (Here.skip > 0 => Here.fail = "later")
    BY <1>6, HereIs DEF StepFails, Running
  <2>2. Here.fail \notin {"success", "giveUp"} /\ (Here.op = "write" => Here.fail # "log")
    BY <1>2, <2>1 DEF WritesAreReported
  <2>3. /\ UNCHANGED <<written, kept>> /\ dropped' = dropped
        /\ owed' = (owed \/ Here.fail = "later")
    BY <1>6, <2>2 DEF StepFails
  <2>4. \/ /\ told' \in {"notice", "panic", "error"} /\ at' = at
        \/ /\ Here.fail \in PassedOver \cup {"later"} /\ told' = told /\ at' = at + (1 + Here.skip)
           /\ actionTx' \in AfterFailure(actionTx)
    BY <1>6, <2>2 DEF StepFails, Returns, GoesOn, PassedOver
  <2>5. actionTx' = "rolledBack" \/ actionTx' = actionTx \/ (actionTx' = "aborted" /\ IsStatement)
    BY <1>6 DEF StepFails, AfterFailure, RollBackActionTx
  <2>6. at' >= at /\ at' \in Nat
    BY <1>4, <2>1, <2>4
  <2>7. \A i \in written' : i < at' /\ path[i].op = "write"
    BY <1>4, <2>3, <2>6 DEF StoreInv
  <2>8. actionTx \in {"open", "aborted"} /\ kept = {}
    BY <2>1 DEF StoreInv
  <2>9. CASE told' \in {"notice", "panic", "error"}
    BY <1>3, <2>3, <2>7, <2>8, <2>9 DEF StoreInv
  <2>10. CASE Here.fail \in PassedOver \cup {"later"} /\ told' = told /\ at' = at + (1 + Here.skip)
              /\ actionTx' \in AfterFailure(actionTx)
    <3>1. actionTx' \in {"open", "aborted"}
      BY <2>8, <2>10 DEF AfterFailure
    <3>2. ASSUME actionTx' = "aborted", ~owed'
          PROVE  written = {} \/ \E k \in at' .. Len(path) : Reports(path[k])
      <4>1. Here.fail # "later" /\ ~owed /\ Here.fail \in PassedOver /\ at' = at + 1
        <5>1. Here.fail # "later" /\ ~owed
          BY <2>3, <3>2, Zenon
        <5>2. Here.skip = 0
          BY <2>1, <5>1
        <5> QED BY <1>4, <2>10, <5>1, <5>2
      <4>2. CASE actionTx = "aborted"
        <5>1. written = {} \/ \E k \in at .. Len(path) : Reports(path[k])
          BY <2>1, <4>1, <4>2 DEF StoreInv
        <5>2. ASSUME NEW k \in at .. Len(path), Reports(path[k]) PROVE k \in at' .. Len(path)
          <6>1. k # at
            BY <2>1, <4>1, <5>2 DEF Reports
          <6> QED BY <1>4, <4>1, <6>1
        <5> QED BY <5>1, <5>2
      <4>3. CASE actionTx # "aborted"
        <5>1. IsStatement
          BY <2>8, <2>10, <3>2, <4>3 DEF AfterFailure
        <5>2. path[at].op \in {"read", "write"} /\ path[at].fail \in PassedOver
          BY <2>1, <4>1, <5>1 DEF IsStatement
        <5>3. ASSUME NEW i \in written PROVE \E k \in at' .. Len(path) : Reports(path[k])
          <6>1. i \in 1 .. Len(path) /\ i < at /\ path[i].op = "write"
            BY <1>4, <5>3 DEF StoreInv
          <6> QED BY <1>2, <2>1, <4>1, <5>2, <6>1 DEF WritesAreReported
        <5> QED BY <5>3
      <4> QED BY <4>2, <4>3
    <3> QED BY <1>3, <2>1, <2>3, <2>7, <2>8, <2>10, <3>1, <3>2 DEF StoreInv
  <2> QED BY <2>4, <2>9, <2>10
<1>7. CASE Finish
  <2>1. /\ told = "none" /\ at = Len(path) + 1 /\ UNCHANGED <<at, owed, written, kept, dropped, actionTx>>
        /\ told' = (IF owed THEN "error" ELSE "ok")
    BY <1>7 DEF Finish
  <2>2. actionTx \in {"open", "aborted"} /\ kept = {}
    BY <2>1 DEF StoreInv
  <2>3. actionTx = "aborted" /\ ~owed => written = {}
    <3>1. ~\E k \in at .. Len(path) : Reports(path[k])
      BY <1>2, <2>1
    <3> QED BY <2>1, <3>1 DEF StoreInv
  <2> QED BY <1>3, <2>1, <2>2, <2>3 DEF StoreInv
<1>8. CASE ActionEnds
  <2>1. told # "none" /\ actionTx \in {"open", "aborted"} /\ UNCHANGED <<at, written, dropped, owed, told>>
    BY <1>8 DEF ActionEnds
  <2>2. \/ told = "panic"
        \/ actionTx' = "rolledBack" /\ kept' = kept /\ (told = "error" \/ actionTx = "aborted")
        \/ actionTx' = "committed" /\ kept' = written
    BY <1>8 DEF ActionEnds, RollBackActionTx
  <2>3. actionTx' \in {"lost", "rolledBack", "committed"}
    BY <1>8 DEF ActionEnds, RollBackActionTx
  <2> QED BY <1>3, <2>1, <2>2, <2>3 DEF StoreInv
<1>9. CASE JobStepDone \/ JobStepFails
  <2>1. UNCHANGED <<at, actionTx, written, kept, dropped, owed, told>>
    BY <1>9 DEF JobStepDone, JobStepFails
  <2> QED BY <1>3, <2>1 DEF StoreInv
<1>10. CASE UNCHANGED performerVars
  BY <1>10 DEF performerVars, StoreInv
<1> QED BY <1>5, <1>6, <1>7, <1>8, <1>9, <1>10 DEF PerformerNext

(* The steps keep the invariant. *)
LEMMA PerformerInvStep == PerformerInv /\ [PerformerNext]_performerVars => PerformerInv'
<1> SUFFICES ASSUME PerformerInv, [PerformerNext]_performerVars PROVE PerformerInv'
  OBVIOUS
<1>1. performer' = performer
  BY DEF PerformerNext, performerVars, choiceVars, StepDone, StepFails, Finish, ActionEnds, JobStepDone, JobStepFails
<1>2. PerformerTypeOK'
  BY PerformerTypeStep DEF PerformerInv
<1>3. ReachInv' /\ RefusalReachesNothing'
  BY ReachStep DEF PerformerInv
<1>4. performer' \notin LoseWrites => StoreInv'
  BY <1>1, StoreStep DEF PerformerInv
<1> QED BY <1>2, <1>3, <1>4 DEF PerformerInv

(* The invariant holds in every reachable state. *)
LEMMA PerformerInvHolds == PerformerSpec => []PerformerInv
BY PerformerInvInit, PerformerInvStep, PTL DEF PerformerSpec

(* A performer stays on its path, and its job on its own. *)
THEOREM PerformersTypeCorrect == PerformerSpec => []PerformerTypeOK
<1>1. PerformerInv => PerformerTypeOK
  BY DEF PerformerInv
<1> QED BY <1>1, PerformerInvHolds, PTL

(* A performer that refuses has not touched anything that a rollback cannot undo, but
   for those that are named: no mail is sent, no file moved and no job started by an
   outcome that is then answered with an error, whatever of it fails. *)
THEOREM RefusalsReachNothing == PerformerSpec => []RefusalReachesNothing
<1>1. PerformerInv => RefusalReachesNothing
  BY DEF PerformerInv
<1> QED BY <1>1, PerformerInvHolds, PTL

(* What a performer answers as a success is stored when its action has ended, but for
   those that are named: every write it made is committed and none failed silently,
   on a database that refuses statements after the first error too. *)
THEOREM SuccessesAreStored == PerformerSpec => []SuccessIsStored
<1>1. PerformerInv => SuccessIsStored
  BY DEF PerformerInv, StoreInv, SuccessIsStored
<1> QED BY <1>1, PerformerInvHolds, PTL
=============================================================================
