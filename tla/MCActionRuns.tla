----------------------------- MODULE MCActionRuns -----------------------------
(* Two runs of actions of up to four outcomes on a pool of two connections: plain
   writes with conditions and ContinueOnError, a change of user, the three cases
   of $transaction, performers that panic, a rendered page. That a performer is one
   step here rests on the criteria of its steps, which are evaluated too. *)
EXTENDS ActionRuns, PerformerCriteria

Plain(m) == [method |-> m, conditional |-> FALSE, continueOnError |-> FALSE,
             inResponse |-> TRUE]
If(m) == [Plain(m) EXCEPT !.conditional = TRUE]
Tolerant(m) == [Plain(m) EXCEPT !.continueOnError = TRUE]
Silent(m) == [Plain(m) EXCEPT !.inResponse = FALSE]

MCActions ==
  {<<Plain("write"), Tolerant("write"), If("perform")>>,
   <<If("switch"), Silent("write"), Tolerant("switch"), Plain("perform")>>,
   <<Plain("write"), Plain("begin"), Plain("write")>>,
   <<Plain("write"), Plain("commit"), If("begin"), Plain("write")>>,
   <<Plain("write"), If("rollback"), Plain("read"), Plain("unknown")>>,
   <<Tolerant("perform"), If("render"), Plain("respond")>>}

MCPlans == [trigger : {"request", "task"}, outcomes : MCActions]
=============================================================================
