------------------------- MODULE PerformerCriteria --------------------------
(* What the paths of the performers keep to, step by step, read off the table alone.
   The properties of Performers are proved from it, and it is why ActionRuns may take
   a performer for one step: one that fails has done nothing outside of the database,
   one that succeeds has stored what it wrote. The performers that do otherwise are in
   FailAfterReaching and LoseWrites. *)
EXTENDS PerformerTable

Ops == {"check", "read", "write", "pool", "outside", "tmp", "clean", "commit", "impossible"}
Fails == {"error", "log", "count", "later", "notice", "success", "panic", "clean", "never",
          "undo", "undoPanic", "giveUp", "stop"}
Steps == [op : Ops, fail : Fails, skip : Nat]

(* Only what is returned at the end skips steps, those of its own path. *)
SkipsWithin(s) ==
  \A i \in 1 .. Len(s) :
    s[i].skip > 0 => s[i].fail = "later" /\ i + s[i].skip <= Len(s)

ASSUME PathsAreSteps ==
  \A p \in AllPerformers :
    /\ \A s \in p.paths : s \in Seq(Steps) /\ SkipsWithin(s)
    /\ \A s \in p.jobs : s \in Seq(Steps)

(* No error comes after an effect outside of the database, at the end of the path
   neither, where the job would start. *)
ErrorsComeFirst(s, jobs) ==
  /\ \A i, j \in 1 .. Len(s) : i < j /\ s[i].op = "outside" => s[j].fail \notin {"error", "undo"}
  /\ (\E i \in 1 .. Len(s) : s[i].fail = "later") =>
       jobs = {<<>>} /\ \A i \in 1 .. Len(s) : s[i].op # "outside"

ASSUME ErrorsAreEarly ==
  \A p \in AllPerformers : p.name \notin FailAfterReaching => \A s \in p.paths : ErrorsComeFirst(s, p.jobs)

(* Success is told at the end only, and a write that fails is not passed over. After
   a failure that aborts a transaction in which something was written the performer
   comes to a statement whose own failure, which is certain then, is reported. *)
PassedOver == {"log", "count", "clean"}
Reports(step) == step.op \in {"read", "write"} /\ step.fail \notin PassedOver
WritesAreReported(s) ==
  /\ \A i \in 1 .. Len(s) :
       /\ s[i].op # "commit" /\ s[i].fail \notin {"success", "giveUp"}
       /\ s[i].op = "write" => s[i].fail # "log"
  /\ \A i, j \in 1 .. Len(s) :
       i < j /\ s[i].op = "write" /\ s[j].op \in {"read", "write"} /\ s[j].fail \in PassedOver
         => \E k \in j + 1 .. Len(s) : Reports(s[k])

ASSUME LossesAreReported ==
  \A p \in AllPerformers : p.name \notin LoseWrites => \A s \in p.paths : WritesAreReported(s)
=============================================================================
