----------------------------- MODULE ActionRuns -----------------------------
(* Runs of actions: POST /action/... (CreatePostActionHandler) and scheduled
   tasks (ActiveTaskInstance.Run). Each takes a connection of the pool, opens a
   transaction and lets HandleActionRequest work through the outcomes of the
   action, which may themselves end the transaction, open another one, change
   the user, stop the action or panic.

   What an outcome does to rows is RowTransactions; here a write is a member of
   a set. Whether a condition holds, whether a statement succeeds, is open. *)
EXTENDS Integers, Sequences

CONSTANTS Runs,          \* requests and task activations, each run once
          Plans,         \* what the runs of an instance may be
          MaxOpenConns   \* SetMaxOpenConns: 1 on SQLite, 50 by default elsewhere

(* The methods of an outcome, by what they do: POST, PATCH, DELETE and EXECUTE of
   a performer with database work (write, perform), GET and GET_BY_ID (read),
   SWITCH_USER (switch), the cases of the $transaction performer (commit,
   rollback, begin), a performer that answers with a page (render),
   ACTIONRESPONSE (respond), a method or performer nobody knows (unknown). *)
Methods == {"write", "perform", "read", "switch", "commit", "rollback",
            "begin", "render", "respond", "unknown"}

Outcome == [method : Methods,
            conditional : BOOLEAN,       \* len(Condition) > 0
            continueOnError : BOOLEAN,
            inResponse : BOOLEAN]        \* ~SkipInResponse

ASSUME ConstantsAssumption ==
  /\ MaxOpenConns \in Nat \ {0}
  /\ \A p \in Plans :
       /\ p.trigger \in {"request", "task"}
       /\ p.outcomes \in Seq(Outcome)

VARIABLES
  plan,       \* plan[r]: its trigger and the OutFields of its action
  pc,         \* pc[r]: where the run is
  fate,       \* fate[r]: what became of each outcome so far
  err,        \* err[r]: the variable err of HandleActionRequest is set
  user,       \* user[r]: the outcome that last changed the user, 0: the caller
  tx,         \* tx[r]: *transaction, "none" yet, "open", "done", or "lost" when
              \*   nobody can end it any more
  work,       \* work[r]: writes of the open transaction
  stored,     \* stored[r]: committed writes
  free,       \* connections of the pool nobody has
  said,       \* said[r]: the outcomes whose responses the answer holds
  reply       \* reply[r]: "none", "ok", "error" or "panic"

vars == <<plan, pc, fate, err, user, tx, work, stored, free, said, reply>>

dbVars == <<tx, work, stored, free>>

(* What became of an outcome: "unevaluated" is a condition that raised an error. *)
Fates == {"done", "failed", "skipped", "unevaluated"}

Write == [outcome : Nat, user : Nat]

Outcomes(r) == plan[r].outcomes
Current(r) == Len(fate[r]) + 1
Method(r) == Outcomes(r)[Current(r)].method

TypeOK ==
  /\ plan \in [Runs -> Plans]
  /\ pc \in [Runs -> {"begin", "check", "outcomes", "reopen", "end", "done"}]
  /\ fate \in [Runs -> Seq(Fates)]
  /\ \A r \in Runs : Len(fate[r]) <= Len(Outcomes(r))
  /\ err \in [Runs -> BOOLEAN]
  /\ user \in [Runs -> Nat]
  /\ tx \in [Runs -> {"none", "open", "done", "lost"}]
  /\ work \in [Runs -> SUBSET Write]
  /\ stored \in [Runs -> SUBSET Write]
  /\ free \in 0..MaxOpenConns
  /\ said \in [Runs -> SUBSET Nat]
  /\ reply \in [Runs -> {"none", "ok", "error", "panic"}]

Init ==
  /\ plan \in [Runs -> Plans]
  /\ pc = [r \in Runs |-> "begin"]
  /\ fate = [r \in Runs |-> <<>>]
  /\ err = [r \in Runs |-> FALSE]
  /\ user = [r \in Runs |-> 0]
  /\ tx = [r \in Runs |-> "none"]
  /\ work = [r \in Runs |-> {}]
  /\ stored = [r \in Runs |-> {}]
  /\ free = MaxOpenConns
  /\ said = [r \in Runs |-> {}]
  /\ reply = [r \in Runs |-> "none"]

Goto(r, label) == pc' = [pc EXCEPT ![r] = label]
Settle(r, f) == fate' = [fate EXCEPT ![r] = Append(@, f)]
SetErr(r, e) == err' = [err EXCEPT ![r] = e]
Answer(r, a) == reply' = [reply EXCEPT ![r] = a]

(* Mutant of Close: the transaction is not marked as ended, so that the deferred
   Commit gives its connection back a second time. *)
CloseTwice(r) ==
  /\ work' = [work EXCEPT ![r] = {}]
  /\ free' = IF tx[r] = "open" THEN free + 1 ELSE free
  /\ UNCHANGED tx

(* The transaction of r ends and its connection goes back; ErrTxDone when it has
   ended before, which the callers ignore or report. *)
Close(r) ==
  /\ tx' = [tx EXCEPT ![r] = "done"]
  /\ work' = [work EXCEPT ![r] = {}]
  /\ free' = IF tx[r] = "open" THEN free + 1 ELSE free

CommitTx(r) ==
  /\ stored' = [stored EXCEPT ![r] = @ \cup work[r]]
  /\ Close(r)

RollbackTx(r) ==
  /\ Close(r)
  /\ UNCHANGED stored

------------------------------------------------------------------------------
(* Before the outcomes. Beginx waits, without a deadline, while no connection is
   free; it fails when the database does. *)

Begin(r) ==
  /\ pc[r] = "begin"
  /\ free > 0
  /\ free' = free - 1
  /\ tx' = [tx EXCEPT ![r] = "open"]
  /\ Goto(r, "check")
  /\ UNCHANGED <<plan, fate, err, user, work, stored, said, reply>>

(* A nil transaction makes the request panic; a task gives up. *)
BeginFails(r) ==
  /\ pc[r] = "begin"
  /\ free > 0
  /\ Answer(r, IF plan[r].trigger = "request" THEN "panic" ELSE "none")
  /\ Goto(r, "done")
  /\ UNCHANGED <<plan, fate, err, user, dbVars, said>>

(* No such action, subject or permission, or invalid input fields. *)
Refuse(r) ==
  /\ pc[r] = "check"
  /\ SetErr(r, TRUE)
  /\ Goto(r, "end")
  /\ UNCHANGED <<plan, fate, user, dbVars, said, reply>>

Admit(r) ==
  /\ pc[r] = "check"
  /\ Goto(r, "outcomes")
  /\ UNCHANGED <<plan, fate, err, user, dbVars, said, reply>>

------------------------------------------------------------------------------
(* The loop over OutFields: one action for each way an outcome can go. *)

AtOutcome(r) == pc[r] = "outcomes" /\ Current(r) <= Len(Outcomes(r))

(* The condition is false; evaluating it reset err. *)
SkipOutcome(r) ==
  /\ AtOutcome(r)
  /\ Outcomes(r)[Current(r)].conditional
  /\ Settle(r, "skipped")
  /\ SetErr(r, FALSE)
  /\ UNCHANGED <<plan, pc, user, dbVars, said, reply>>

(* The condition raises an error: the loop goes on, err stays set. *)
ConditionFails(r) ==
  /\ AtOutcome(r)
  /\ Outcomes(r)[Current(r)].conditional
  /\ Settle(r, "unevaluated")
  /\ SetErr(r, TRUE)
  /\ UNCHANGED <<plan, pc, user, dbVars, said, reply>>

(* BuildOutcome fails: the one place that looks at ContinueOnError. *)
BuildFails(r) ==
  /\ AtOutcome(r)
  /\ Settle(r, "failed")
  /\ SetErr(r, TRUE)
  /\ IF Outcomes(r)[Current(r)].continueOnError
     THEN /\ said' = [said EXCEPT ![r] = @ \cup {Current(r)}]
          /\ UNCHANGED pc
     ELSE /\ Goto(r, "end")
          /\ UNCHANGED said
  /\ UNCHANGED <<plan, user, dbVars, reply>>

(* The outcome succeeded: its responses are appended unless SkipInResponse. *)
Succeed(r) ==
  /\ Settle(r, "done")
  /\ SetErr(r, FALSE)
  /\ said' = [said EXCEPT ![r] =
       IF Outcomes(r)[Current(r)].inResponse THEN @ \cup {Current(r)} ELSE @]
  /\ UNCHANGED <<plan, pc, user, reply>>

(* err and break OutFields: the notification just appended is dropped with the
   other responses, because HandleActionRequest returns nil, err. *)
Stop(r) ==
  /\ Settle(r, "failed")
  /\ SetErr(r, TRUE)
  /\ Goto(r, "end")
  /\ UNCHANGED <<plan, user, said, reply>>

(* The write that outcome number Current(r) makes for the current user. *)
NewWrite(r) == [outcome |-> Current(r), user |-> user[r]]

(* Mutant of Perform: a performer works on a connection of its own, outside of the
   transaction of the action. *)
PerformOutside(r) ==
  /\ AtOutcome(r)
  /\ Method(r) \in {"write", "perform"}
  /\ tx[r] = "open"
  /\ IF Method(r) = "perform"
     THEN /\ stored' = [stored EXCEPT ![r] = @ \cup {NewWrite(r)}]
          /\ UNCHANGED work
     ELSE /\ work' = [work EXCEPT ![r] = @ \cup {NewWrite(r)}]
          /\ UNCHANGED stored
  /\ Succeed(r)
  /\ UNCHANGED <<tx, free>>

(* A statement or a performer succeeds, or fails having written or not; on a
   transaction that has ended it fails. *)
Perform(r) ==
  /\ AtOutcome(r)
  /\ Method(r) \in {"write", "perform"}
  /\ \/ /\ tx[r] = "open"
        /\ work' = [work EXCEPT ![r] = @ \cup {NewWrite(r)}]
        /\ \/ Succeed(r)
           \/ Stop(r)
     \/ /\ Stop(r)
        /\ UNCHANGED work
  /\ UNCHANGED <<tx, stored, free>>

Read(r) ==
  /\ AtOutcome(r)
  /\ Method(r) = "read"
  /\ \/ tx[r] = "open" /\ Succeed(r)
     \/ Stop(r)
  /\ UNCHANGED dbVars

(* A method or performer that does not exist is logged and passed over. *)
PassOver(r) ==
  /\ AtOutcome(r)
  /\ Method(r) = "unknown"
  /\ Settle(r, "skipped")
  /\ SetErr(r, FALSE)
  /\ UNCHANGED <<plan, pc, user, dbVars, said, reply>>

(* ACTIONRESPONSE cannot fail. *)
Respond(r) ==
  /\ AtOutcome(r)
  /\ Method(r) = "respond"
  /\ Succeed(r)
  /\ UNCHANGED dbVars

(* Mutant of SwitchUser: an unknown user is reported and the loop goes on. *)
SwitchUserGoesOn(r) ==
  /\ AtOutcome(r)
  /\ Method(r) = "switch"
  /\ SetErr(r, FALSE)
  /\ \/ /\ tx[r] = "open"
        /\ Settle(r, "done")
        /\ user' = [user EXCEPT ![r] = Current(r)]
        /\ UNCHANGED said
     \/ /\ Settle(r, "failed")
        /\ said' = [said EXCEPT ![r] = @ \cup {Current(r)}]
        /\ UNCHANGED user
  /\ UNCHANGED <<plan, pc, dbVars, reply>>

(* Mutant of SwitchUser: it stops, but without the notification. *)
SwitchUserSilently(r) ==
  /\ AtOutcome(r)
  /\ Method(r) = "switch"
  /\ SetErr(r, FALSE)
  /\ \/ /\ tx[r] = "open"
        /\ Settle(r, "done")
        /\ user' = [user EXCEPT ![r] = Current(r)]
        /\ UNCHANGED pc
     \/ /\ Settle(r, "failed")
        /\ Goto(r, "end")
        /\ UNCHANGED user
  /\ UNCHANGED <<plan, dbVars, said, reply>>

(* Later outcomes are for the new user. A user that is not found stops the
   action, but the err of that branch is a variable of its own: the one of
   HandleActionRequest is nil and the responses are returned. *)
SwitchUser(r) ==
  /\ AtOutcome(r)
  /\ Method(r) = "switch"
  /\ SetErr(r, FALSE)
  /\ \/ /\ tx[r] = "open"
        /\ Settle(r, "done")
        /\ user' = [user EXCEPT ![r] = Current(r)]
        /\ UNCHANGED <<pc, said>>
     \/ /\ Settle(r, "failed")
        /\ said' = [said EXCEPT ![r] = @ \cup {Current(r)}]
        /\ Goto(r, "end")
        /\ UNCHANGED user
  /\ UNCHANGED <<plan, dbVars, reply>>

(* The performer answers with a page: nothing after it runs, the responses so
   far are dropped. *)
Render(r) ==
  /\ AtOutcome(r)
  /\ Method(r) = "render"
  /\ \/ /\ Settle(r, "done")
        /\ SetErr(r, FALSE)
        /\ said' = [said EXCEPT ![r] = {Current(r)}]
        /\ Goto(r, "end")
        /\ UNCHANGED <<plan, user, reply>>
     \/ Stop(r)
  /\ UNCHANGED dbVars

(* A panic inside a performer. The recovery of gin answers 500 and leaves the
   transaction of the request open for ever. A task has a deferred Commit, which
   runs; cron does not recover, and the process is gone with every other run. *)
PanicInRequest(r) ==
  /\ AtOutcome(r)
  /\ Method(r) = "perform"
  /\ plan[r].trigger = "request"
  /\ Settle(r, "failed")
  /\ tx' = [tx EXCEPT ![r] = IF @ = "open" THEN "lost" ELSE @]
  /\ work' = [work EXCEPT ![r] = {}]
  /\ Answer(r, "panic")
  /\ Goto(r, "done")
  /\ UNCHANGED <<plan, err, user, stored, free, said>>

Running(r) == pc[r] \notin {"begin", "done"}

PanicInTask(r) ==
  /\ AtOutcome(r)
  /\ Method(r) = "perform"
  /\ plan[r].trigger = "task"
  /\ Settle(r, "failed")
  /\ \E w \in {{}, {NewWrite(r)}} :
       stored' = [stored EXCEPT ![r] =
                    IF tx[r] = "open" THEN @ \cup work[r] \cup w ELSE @]
  /\ tx' = [q \in Runs |-> IF tx[q] = "none" THEN "none" ELSE "done"]
  /\ work' = [q \in Runs |-> {}]
  /\ free' = MaxOpenConns
  /\ reply' = [reply EXCEPT ![r] = "panic"]
  /\ pc' = [q \in Runs |-> IF Running(q) THEN "done" ELSE pc[q]]
  /\ UNCHANGED <<plan, err, user, said>>

------------------------------------------------------------------------------
(* The $transaction performer works on the transaction of the action itself. *)

CommitOutcome(r) ==
  /\ AtOutcome(r)
  /\ Method(r) = "commit"
  /\ \/ tx[r] = "open" /\ CommitTx(r) /\ Succeed(r)
     \/ RollbackTx(r) /\ Stop(r)

RollbackOutcome(r) ==
  /\ AtOutcome(r)
  /\ Method(r) = "rollback"
  /\ \/ tx[r] = "open" /\ RollbackTx(r) /\ Succeed(r)
     \/ RollbackTx(r) /\ Stop(r)

(* Beginx waits for a connection while the run may still hold its own. *)
BeginOutcome(r) ==
  /\ AtOutcome(r)
  /\ Method(r) = "begin"
  /\ Goto(r, "reopen")
  /\ UNCHANGED <<plan, fate, err, user, dbVars, said, reply>>

(* *transaction = *newTx: a transaction still open is lost with its connection. *)
Reopen(r) ==
  /\ pc[r] = "reopen"
  /\ free > 0
  /\ \/ /\ free' = free - 1
        /\ tx' = [tx EXCEPT ![r] = "open"]
        /\ work' = [work EXCEPT ![r] = {}]
        /\ Settle(r, "done")
        /\ said' = [said EXCEPT ![r] =
             IF Outcomes(r)[Current(r)].inResponse THEN @ \cup {Current(r)} ELSE @]
        /\ Goto(r, "outcomes")
        /\ UNCHANGED <<plan, err, user, stored, reply>>
     \/ Stop(r) /\ UNCHANGED dbVars

------------------------------------------------------------------------------
(* The end of a run. *)

EndOfOutcomes(r) ==
  /\ pc[r] = "outcomes"
  /\ Current(r) > Len(Outcomes(r))
  /\ Goto(r, "end")
  /\ UNCHANGED <<plan, fate, err, user, dbVars, said, reply>>

(* return nil, err: the caller rolls back, the answer holds no response. *)
GiveUp(r) ==
  /\ err[r]
  /\ RollbackTx(r)
  /\ said' = [said EXCEPT ![r] = {}]
  /\ Answer(r, "error")

(* return responses, nil: the caller commits and does not look at the result. *)
Conclude(r) ==
  /\ ~err[r]
  /\ CommitTx(r) \/ RollbackTx(r)
  /\ Answer(r, "ok")
  /\ UNCHANGED said

(* Mutant of EndRequest: a deferred Commit in place of the Rollback. *)
EndRequestCommits(r) ==
  /\ pc[r] = "end"
  /\ plan[r].trigger = "request"
  /\ CommitTx(r)
  /\ Answer(r, IF err[r] THEN "error" ELSE "ok")
  /\ said' = [said EXCEPT ![r] = IF err[r] THEN {} ELSE @]
  /\ Goto(r, "done")
  /\ UNCHANGED <<plan, fate, err, user>>

(* Mutant of EndRequest: an error is answered without ending the transaction. *)
EndRequestForgets(r) ==
  /\ pc[r] = "end"
  /\ plan[r].trigger = "request"
  /\ \/ err[r] /\ Answer(r, "error") /\ UNCHANGED <<dbVars, said>>
     \/ Conclude(r)
  /\ Goto(r, "done")
  /\ UNCHANGED <<plan, fate, err, user>>

EndRequest(r) ==
  /\ pc[r] = "end"
  /\ plan[r].trigger = "request"
  /\ GiveUp(r) \/ Conclude(r)
  /\ Goto(r, "done")
  /\ UNCHANGED <<plan, fate, err, user>>

(* The deferred Commit also runs after the Rollback and then does nothing. *)
EndTask(r) ==
  /\ pc[r] = "end"
  /\ plan[r].trigger = "task"
  /\ GiveUp(r) \/ Conclude(r)
  /\ Goto(r, "done")
  /\ UNCHANGED <<plan, fate, err, user>>

Step(r) ==
  \/ Begin(r) \/ BeginFails(r) \/ Refuse(r) \/ Admit(r)
  \/ SkipOutcome(r) \/ ConditionFails(r) \/ BuildFails(r)
  \/ Perform(r) \/ Read(r) \/ PassOver(r) \/ Respond(r) \/ SwitchUser(r)
  \/ Render(r) \/ PanicInRequest(r) \/ PanicInTask(r)
  \/ CommitOutcome(r) \/ RollbackOutcome(r) \/ BeginOutcome(r) \/ Reopen(r)
  \/ EndOfOutcomes(r) \/ EndRequest(r) \/ EndTask(r)

Next == \E r \in Runs : Step(r)

Spec == Init /\ [][Next]_vars

(* The goroutine of a run that can go on goes on; database/sql serves those who
   wait for a connection in turn. *)
Fairness == \A r \in Runs : WF_vars(Step(r))

FairSpec == Spec /\ Fairness

------------------------------------------------------------------------------
(* Properties. *)

Writes(r) == {i \in 1..Len(fate[r]) : Outcomes(r)[i].method \in {"write", "perform"}
                                     /\ fate[r][i] = "done"}

IsStored(r, i) == \E w \in stored[r] : w.outcome = i

(* Outcome i, which ended or replaced the transaction of the action. *)
EndsSegment(r, i) ==
  /\ Outcomes(r)[i].method \in {"commit", "rollback", "begin"}
  /\ fate[r][i] = "done"

(* Of an action that ends with an error nothing is stored but what a commit
   outcome of the action itself stored before, and never a write that failed:
   Rollback against the deferred Commit of tasks and the $transaction performer. *)
FailureLeavesNothing ==
  \A r \in Runs : reply[r] = "error" =>
    \A w \in stored[r] :
      /\ w.outcome \in Writes(r)
      /\ \E j \in w.outcome + 1..Len(fate[r]) :
           Outcomes(r)[j].method = "commit" /\ fate[r][j] = "done"

(* The writes of an action between two outcomes that end its transaction are all
   stored or none is, whatever fails, panics or stops the process. *)
SegmentsAreAtomic ==
  \A r \in Runs : \A i, j \in Writes(r) :
    (i < j /\ \A k \in i..j : ~EndsSegment(r, k)) => (IsStored(r, i) <=> IsStored(r, j))

(* No write after a SWITCH_USER that succeeded is made for an earlier user, and
   none is made after one that failed, unless it is marked ContinueOnError. *)
SwitchIsObeyed ==
  \A r \in Runs : \A w \in stored[r] \cup work[r] :
    LET before(f) == {i \in 1..w.outcome - 1 : Outcomes(r)[i].method = "switch"
                                              /\ fate[r][i] = f}
    IN /\ w.user \in before("done") \cup {0}
       /\ \A i \in before("done") : i <= w.user
       /\ \A i \in before("failed") : Outcomes(r)[i].continueOnError

(* An action that is answered with success although one of its outcomes failed
   says so in a response, unless it renders a page. *)
FailuresAreNamed ==
  \A r \in Runs : reply[r] = "ok" =>
    \A i \in 1..Len(fate[r]) : fate[r][i] = "failed" =>
      \/ i \in said[r]
      \/ \E j \in said[r] : Outcomes(r)[j].method = "render"

(* Every connection of the pool is lost, or held by a run that waits for a
   second one. *)
Starved ==
  /\ free = 0
  /\ \A r \in Runs : tx[r] = "open" => pc[r] = "reopen"

(* Every run ends, unless lost connections and "begin" outcomes have used up the
   pool: all other paths, early returns and errors give their connection back. *)
EveryRunEnds == \A r \in Runs : pc[r] = "begin" ~> (pc[r] = "done" \/ Starved)

(* "Failed to evaluate condition, assuming false by default"
   (handle_action.go:367): a condition that cannot be evaluated skips its outcome,
   so an action ends with an error only if it was refused or an outcome failed. *)
UnevaluatedIsFalse ==
  \A r \in Runs : reply[r] = "error" =>
    \/ fate[r] = <<>>
    \/ \E i \in 1..Len(fate[r]) : fate[r][i] = "failed"
=============================================================================
