----------------------------- MODULE Performers -----------------------------
(* The run of one performer of PerformerTable as an outcome of an action. ActionRuns
   has one step for it; here is what happens inside: the transaction of the action,
   which statements of the performer may abort, its effects outside of the database,
   the goroutine it leaves and the end of the action. *)
EXTENDS PerformerTable

VARIABLES
  performer,  \* its name
  path,       \* the steps it takes if none fails
  at,         \* the step it is at
  job,        \* the steps its goroutine takes
  jobAt,      \* the step the goroutine is at, 0: it has not been started
  aborts,     \* a failed statement aborts the transaction (PostgreSQL)
  spare,      \* connections of the pool besides that of the action
  actionTx,   \* "open", "aborted", "committed", "rolledBack" or "lost"
  written,    \* writes done in the transaction of the action
  kept,       \* writes that are committed
  dropped,    \* writes that failed and were not reported
  reached,    \* steps that changed something outside of the database
  tmpDir,     \* the temporary directory is there
  owed,       \* an error is kept for the end
  told        \* "none", "ok", "notice", "error" or "panic"

performerVars == <<performer, path, at, job, jobAt, aborts, spare, actionTx, written,
                   kept, dropped, reached, tmpDir, owed, told>>

choiceVars == <<performer, path, job, aborts, spare>>

PerformerTypeOK ==
  /\ \E p \in AllPerformers : performer = p.name /\ path \in p.paths /\ job \in p.jobs
  /\ at \in 1 .. Len(path) + 1
  /\ jobAt \in 0 .. Len(job) + 1
  /\ aborts \in BOOLEAN
  /\ spare \in {0, 1}
  /\ actionTx \in {"open", "aborted", "committed", "rolledBack", "lost"}
  /\ UNION {written, kept, dropped} \subseteq DOMAIN path
  /\ reached \subseteq DOMAIN path \cup {0}
  /\ tmpDir \in BOOLEAN
  /\ owed \in BOOLEAN
  /\ told \in {"none", "ok", "notice", "error", "panic"}

PerformerInit ==
  /\ \E p \in AllPerformers :
       performer = p.name /\ path \in p.paths /\ job \in p.jobs
  /\ at = 1
  /\ jobAt = 0
  /\ aborts \in BOOLEAN
  /\ spare \in {0, 1}
  /\ actionTx = "open"
  /\ written = {}
  /\ kept = {}
  /\ dropped = {}
  /\ reached = {}
  /\ tmpDir = FALSE
  /\ owed = FALSE
  /\ told = "none"

Here == path[at]
Running == told = "none" /\ at <= Len(path)
IsStatement == Here.op \in {"read", "write"}

(* A step that succeeds. A statement cannot in a transaction that was aborted, the
   pool must have a connection to give, which comes back at once. *)
StepDone ==
  /\ Running
  /\ Here.op # "impossible"
  /\ IsStatement => actionTx = "open"
  /\ Here.op = "pool" => spare > 0
  /\ at' = at + 1
  /\ written' = IF Here.op = "write" THEN written \cup {at} ELSE written
  /\ reached' = IF Here.op = "outside" THEN reached \cup {at} ELSE reached
  /\ tmpDir' = (Here.op = "tmp" \/ (tmpDir /\ Here.op # "clean"))
  /\ IF Here.op = "commit"
     THEN actionTx' = "committed" /\ kept' = written'
     ELSE UNCHANGED <<actionTx, kept>>
  /\ UNCHANGED <<choiceVars, jobAt, dropped, owed, told>>

(* What the transaction of the action is after a failed step that does not end it:
   a statement may have been refused by the database or have found no row. *)
AfterFailure(tx) ==
  {tx} \cup IF aborts /\ IsStatement /\ tx = "open" THEN {"aborted"} ELSE {}

Returns(answer) == told' = answer /\ UNCHANGED at

GoesOn(steps) == at' = at + steps /\ UNCHANGED told

(* Rolls back the transaction of the action. *)
RollBackActionTx == actionTx' = "rolledBack"

(* A step that fails, by what the code does about it. *)
StepFails ==
  /\ Running
  /\ Here.op \in {"check", "read", "write", "pool", "outside", "impossible"}
  /\ Here.fail # "never"
  /\ Here.op = "pool" => spare > 0
  /\ IF Here.fail \in {"undo", "undoPanic", "giveUp"}
     THEN RollBackActionTx
     ELSE actionTx' \in AfterFailure(actionTx)
  /\ \/ Here.fail \in {"error", "undo"} /\ Returns("error")
     \/ Here.fail = "notice" /\ Returns("notice")
     \/ Here.fail \in {"success", "giveUp"} /\ Returns("ok")
     \/ Here.fail \in {"panic", "undoPanic"} /\ Returns("panic")
     \/ Here.fail \in {"log", "count", "later", "clean"} /\ GoesOn(1 + Here.skip)
  /\ dropped' = IF Here.op = "write" /\ Here.fail \in {"log", "success", "giveUp"}
                THEN dropped \cup {at} ELSE dropped
  /\ tmpDir' = (tmpDir /\ Here.fail # "clean")
  /\ owed' = (owed \/ Here.fail = "later")
  /\ UNCHANGED <<choiceVars, jobAt, written, kept, reached>>

(* The end of the performer: the goroutine starts, the answer is given. *)
Finish ==
  /\ told = "none"
  /\ at = Len(path) + 1
  /\ jobAt' = IF job = <<>> THEN 0 ELSE 1
  /\ told' = IF owed THEN "error" ELSE "ok"
  /\ UNCHANGED <<choiceVars, at, actionTx, written, kept, dropped, reached, tmpDir, owed>>

(* HandleActionRequest commits after an answer without an error, which an aborted
   transaction turns into a rollback, and rolls back after an error; a panic leaves
   the transaction to nobody. *)
ActionEnds ==
  /\ told # "none"
  /\ actionTx \in {"open", "aborted"}
  /\ \/ told = "panic" /\ actionTx' = "lost" /\ UNCHANGED kept
     \/ told # "panic" /\ (told = "error" \/ actionTx = "aborted") /\ RollBackActionTx /\ UNCHANGED kept
     \/ told \in {"ok", "notice"} /\ actionTx = "open" /\ actionTx' = "committed" /\ kept' = written
  /\ UNCHANGED <<choiceVars, at, job, jobAt, written, dropped, reached, tmpDir, owed, told>>

JobRunning == jobAt \in 1 .. Len(job)

JobStepDone ==
  /\ JobRunning
  /\ jobAt' = jobAt + 1
  /\ reached' = IF job[jobAt].op = "outside" THEN reached \cup {0} ELSE reached
  /\ tmpDir' = (tmpDir /\ job[jobAt].op # "clean")
  /\ UNCHANGED <<choiceVars, at, actionTx, written, kept, dropped, owed, told>>

JobStepFails ==
  /\ JobRunning
  /\ jobAt' = IF job[jobAt].fail = "stop" THEN Len(job) + 1 ELSE jobAt + 1
  /\ UNCHANGED <<choiceVars, at, actionTx, written, kept, dropped, reached, tmpDir, owed, told>>

PerformerNext ==
  \/ StepDone \/ StepFails \/ Finish \/ ActionEnds \/ JobStepDone \/ JobStepFails

(* The goroutines of the request and of the job are scheduled; what a job has to
   wait for ends, well or not. *)
PerformerFairness == WF_performerVars(PerformerNext)

PerformerSpec == PerformerInit /\ [][PerformerNext]_performerVars /\ PerformerFairness

------------------------------------------------------------------------------
(* A performer that answers with an error, whose action is therefore rolled back, has
   changed nothing outside of the database and leaves no job behind that will: sent
   mail, moved files and new folders cannot be rolled back. *)
RefusalReachesNothing ==
  told = "error" /\ performer \notin FailAfterReaching => reached = {} /\ jobAt = 0

(* When a performer has answered without an error and its action has ended, every write
   on its path is committed: no statement failed silently, none aborted the transaction
   on the way, and no helper rolled it back. *)
SuccessIsStored ==
  told = "ok" /\ actionTx \notin {"open", "aborted"} /\ performer \notin LoseWrites
    => dropped = {} /\ kept = written

(* Every performer answers: none waits for a connection while its action holds the last
   one of the pool (SQLite has only one). The exchange of an OAuth profile does. *)
AnswersEventually ==
  (spare = 0 => performer # "oauth.profile.exchange") ~> told # "none"
==============================================================================
