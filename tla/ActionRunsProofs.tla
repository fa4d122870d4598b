-------------------------- MODULE ActionRunsProofs --------------------------
(* Theorems about ActionRuns, for any runs, plans and size of the pool. *)
EXTENDS ActionRuns, FiniteSets, FiniteSetTheorems, TLAPS

(* The connections of the pool are free, lost, or with the run of an open
   transaction. *)
Open == {r \in Runs : tx[r] = "open"}

PoolInv ==
  /\ IsFiniteSet(Open)
  /\ free \in Nat
  /\ free + Cardinality(Open) <= MaxOpenConns

(* The successful writes since the last outcome that ended the transaction. *)
Segment(r) ==
  {i \in Writes(r) : \A k \in i..Len(fate[r]) : ~EndsSegment(r, k)}

IsWorked(r, i) == \E w \in work[r] : w.outcome = i

(* What goes with the place of a run. *)
PlaceInv(r) ==
  /\ pc[r] # "done" => reply[r] = "none"
  /\ pc[r] = "begin" => tx[r] = "none"
  /\ pc[r] = "reopen" => /\ Current(r) <= Len(Outcomes(r))
                         /\ Method(r) = "begin"
  /\ tx[r] # "open" => work[r] = {}

(* The open transaction holds the writes of the segment, unless the run is about to
   roll back, and none of them is stored. *)
WorkInv(r) ==
  /\ \A w \in work[r] \cup stored[r] : w.outcome \in 1..Len(fate[r])
  /\ \A w \in work[r] : w.outcome \in Segment(r) \/ (pc[r] = "end" /\ err[r])
  /\ pc[r] # "done" =>
       \A i \in Segment(r) :
         /\ ~IsStored(r, i)
         /\ IsWorked(r, i) \/ (pc[r] = "end" /\ err[r])

(* The three safety properties, for one run and with what they hang on. *)
StoredInv(r) == reply[r] \in {"none", "error"} =>
  \A w \in stored[r] :
    /\ w.outcome \in Writes(r)
    /\ \E j \in w.outcome + 1..Len(fate[r]) :
         Outcomes(r)[j].method = "commit" /\ fate[r][j] = "done"

AtomicInv(r) == \A i, j \in Writes(r) :
  (i < j /\ \A k \in i..j : ~EndsSegment(r, k)) => (IsStored(r, i) <=> IsStored(r, j))

Switches(r, f) ==
  {i \in 1..Len(fate[r]) : Outcomes(r)[i].method = "switch" /\ fate[r][i] = f}

Obeys(r, w) ==
  /\ w.user \in {0} \cup {i \in Switches(r, "done") : i < w.outcome}
  /\ \A i \in Switches(r, "done") : i < w.outcome => i <= w.user
  /\ \A i \in Switches(r, "failed") :
       i < w.outcome => Outcomes(r)[i].continueOnError

SwitchInv(r) ==
  /\ user[r] \in {0} \cup Switches(r, "done")
  /\ \A i \in Switches(r, "done") : i <= user[r]
  /\ pc[r] \notin {"end", "done"} =>
       \A i \in Switches(r, "failed") : Outcomes(r)[i].continueOnError
  /\ \A w \in stored[r] \cup work[r] : Obeys(r, w)

NamedInv(r) == pc[r] # "done" \/ reply[r] = "ok" =>
  \A i \in 1..Len(fate[r]) : fate[r][i] = "failed" =>
    \/ i \in said[r]
    \/ \E j \in said[r] : Outcomes(r)[j].method = "render"
    \/ pc[r] = "end" /\ err[r]

RunInv(r) == /\ PlaceInv(r) /\ WorkInv(r) /\ StoredInv(r) /\ AtomicInv(r)
             /\ SwitchInv(r) /\ NamedInv(r)

IInv == TypeOK /\ PoolInv /\ \A r \in Runs : RunInv(r)

------------------------------------------------------------------------------
(* An outcome that has been dealt with: what Settle does to the sequence of fates
   and to the sets read from it. *)

LEMMA FateIsSequence ==
  ASSUME TypeOK, NEW r \in Runs
  PROVE  /\ fate[r] \in Seq(Fates)
         /\ Len(fate[r]) \in Nat
         /\ Current(r) = Len(fate[r]) + 1
         /\ Len(Outcomes(r)) \in Nat
         /\ \A i \in 1..Len(Outcomes(r)) : Outcomes(r)[i] \in Outcome
<1>1. plan[r].outcomes \in Seq(Outcome)
  BY ConstantsAssumption DEF TypeOK
<1>2. QED
  BY <1>1 DEF TypeOK, Outcomes, Current

LEMMA Appended ==
  ASSUME TypeOK, NEW r \in Runs, Current(r) <= Len(Outcomes(r)), NEW f \in Fates,
         Settle(r, f), plan' = plan
  PROVE  /\ fate' \in [Runs -> Seq(Fates)]
         /\ \A q \in Runs : Len(fate'[q]) <= Len(Outcomes(q))'
         /\ \A q \in Runs : q # r => fate'[q] = fate[q]
         /\ Len(fate'[r]) = Current(r)
         /\ \A i \in 1..Len(fate[r]) : fate'[r][i] = fate[r][i]
         /\ fate'[r][Current(r)] = f
<1>1. fate' = [fate EXCEPT ![r] = Append(fate[r], f)]
  BY DEF Settle
<1>2. /\ fate[r] \in Seq(Fates)
      /\ Len(fate[r]) \in Nat
      /\ Current(r) = Len(fate[r]) + 1
  BY FateIsSequence
<1>3. /\ Append(fate[r], f) \in Seq(Fates)
      /\ Len(Append(fate[r], f)) = Len(fate[r]) + 1
      /\ \A i \in 1..Len(fate[r]) : Append(fate[r], f)[i] = fate[r][i]
      /\ Append(fate[r], f)[Len(fate[r]) + 1] = f
  BY <1>2
<1>4. fate'[r] = Append(fate[r], f) /\ \A q \in Runs : q # r => fate'[q] = fate[q]
  BY <1>1 DEF TypeOK
<1>5. fate' \in [Runs -> Seq(Fates)]
  BY <1>1, <1>3 DEF TypeOK
<1>6. \A q \in Runs : Len(fate'[q]) <= Len(Outcomes(q))'
  BY <1>2, <1>3, <1>4 DEF TypeOK, Outcomes
<1>7. QED
  BY <1>2, <1>3, <1>4, <1>5, <1>6

(* The outcome just settled, if it is a successful write. *)
NewlyWritten(r, f) ==
  {i \in {Current(r)} : f = "done" /\ Method(r) \in {"write", "perform"}}

NowEnds(r, f) == f = "done" /\ Method(r) \in {"commit", "rollback", "begin"}

LEMMA SettledSets ==
  ASSUME TypeOK, NEW r \in Runs, Current(r) <= Len(Outcomes(r)), NEW f \in Fates,
         Settle(r, f), plan' = plan, NEW n, n = Current(r)
  PROVE  /\ Writes(r)' = Writes(r) \cup NewlyWritten(r, f)
         /\ \A g \in Fates : Switches(r, g)' =
              Switches(r, g) \cup {i \in {Current(r)} : f = g /\ Method(r) = "switch"}
         /\ \A i \in 1..Len(fate[r]) : EndsSegment(r, i)' <=> EndsSegment(r, i)
         /\ EndsSegment(r, n)' <=> NowEnds(r, f)
         /\ Segment(r)' =
              IF NowEnds(r, f) THEN {} ELSE Segment(r) \cup NewlyWritten(r, f)
<1>1. /\ Len(fate[r]) \in Nat
      /\ Current(r) = Len(fate[r]) + 1
      /\ Len(fate'[r]) = Current(r)
      /\ \A i \in 1..Len(fate[r]) : fate'[r][i] = fate[r][i]
      /\ fate'[r][Current(r)] = f
  BY FateIsSequence, Appended
<1>2. 1..Len(fate'[r]) = 1..Len(fate[r]) \cup {Current(r)} /\ Current(r) \notin 1..Len(fate[r])
  BY <1>1
<1>3. Outcomes(r)' = Outcomes(r)
  BY DEF Outcomes
<1>4. Writes(r)' = Writes(r) \cup NewlyWritten(r, f)
  BY <1>1, <1>2, <1>3 DEF Writes, NewlyWritten, Method
<1>5. \A g \in Fates : Switches(r, g)' =
        Switches(r, g) \cup {i \in {Current(r)} : f = g /\ Method(r) = "switch"}
  BY <1>1, <1>2, <1>3 DEF Switches, Method
<1>6. \A i \in 1..Len(fate[r]) : EndsSegment(r, i)' <=> EndsSegment(r, i)
  BY <1>1, <1>3 DEF EndsSegment
<1>7. EndsSegment(r, n)' <=> NowEnds(r, f)
  BY <1>1, <1>3 DEF EndsSegment, NowEnds, Method
<1>8. Writes(r) \subseteq 1..Len(fate[r])
  BY DEF Writes
<1>9. ASSUME NowEnds(r, f) PROVE Segment(r)' = {}
  <2>1. \A i \in Writes(r)' : n \in (i..Len(fate[r]))'
    BY <1>1, <1>4, <1>8 DEF NewlyWritten
  <2>2. QED BY <1>7, <1>9, <2>1 DEF Segment
<1>10. ASSUME ~NowEnds(r, f) PROVE Segment(r)' = Segment(r) \cup NewlyWritten(r, f)
  <2>1. \A i \in Writes(r) :
          (\A k \in (i..Len(fate[r]))' : ~EndsSegment(r, k)') <=>
          (\A k \in i..Len(fate[r]) : ~EndsSegment(r, k))
    <3> SUFFICES ASSUME NEW i \in Writes(r)
                 PROVE  (\A k \in (i..Len(fate[r]))' : ~EndsSegment(r, k)') <=>
                        (\A k \in i..Len(fate[r]) : ~EndsSegment(r, k))
      OBVIOUS
    <3>1. i \in 1..Len(fate[r])
      BY <1>8
    <3>2. (i..Len(fate[r]))' = i..Len(fate[r]) \cup {n}
          /\ i..Len(fate[r]) \subseteq 1..Len(fate[r])
      BY <1>1, <3>1
    <3>3. QED BY <1>6, <1>7, <1>10, <3>2
  <2>2. \A i \in NewlyWritten(r, f) : (i..Len(fate[r]))' = {n}
    BY <1>1 DEF NewlyWritten
  <2>3. QED BY <1>4, <1>7, <1>10, <2>1, <2>2 DEF Segment
<1>11. QED
  BY <1>4, <1>5, <1>6, <1>7, <1>9, <1>10

------------------------------------------------------------------------------
(* Runs that stay where they are in their action, and runs that settle an outcome:
   one lemma for each part of the invariant. *)

LEMMA StillRun ==
  ASSUME NEW r \in Runs, RunInv(r), PlaceInv(r)', plan' = plan,
         fate'[r] = fate[r], work'[r] = work[r], stored'[r] = stored[r],
         user'[r] = user[r], said'[r] = said[r],
         pc[r] = "end" => pc'[r] = "end" /\ err'[r] = err[r],
         pc[r] = "done" => pc'[r] = "done",
         reply'[r] = reply[r] \/ (reply[r] = "none" /\ reply'[r] = "panic")
  PROVE  RunInv(r)'
<1>1. Outcomes(r)' = Outcomes(r)
  BY DEF Outcomes
<1>2. /\ Writes(r)' = Writes(r)
      /\ \A g \in Fates : Switches(r, g)' = Switches(r, g)
      /\ Segment(r)' = Segment(r)
      /\ \A i : EndsSegment(r, i)' <=> EndsSegment(r, i)
  BY <1>1 DEF Writes, Switches, Segment, EndsSegment
<1>3. \A i : (IsStored(r, i)' <=> IsStored(r, i)) /\ (IsWorked(r, i)' <=> IsWorked(r, i))
  BY DEF IsStored, IsWorked
<1>4. WorkInv(r)'
  BY <1>2, <1>3 DEF RunInv, WorkInv
<1>5. StoredInv(r)'
  BY <1>1, <1>2 DEF RunInv, StoredInv
<1>6. AtomicInv(r)'
  BY <1>2, <1>3 DEF RunInv, AtomicInv
<1>7. SwitchInv(r)'
  <2>1. /\ Switches(r, "done")' = Switches(r, "done")
        /\ Switches(r, "failed")' = Switches(r, "failed")
    BY <1>2 DEF Fates
  <2>2. \A w : Obeys(r, w)' <=> Obeys(r, w)
    BY <1>1, <2>1 DEF Obeys
  <2>3. QED BY <1>1, <2>1, <2>2 DEF RunInv, SwitchInv
<1>8. NamedInv(r)'
  BY <1>1 DEF RunInv, NamedInv
<1>9. QED
  BY <1>4, <1>5, <1>6, <1>7, <1>8 DEF RunInv

(* Run r deals with its current outcome, with fate f. *)
Settles(r, f) ==
  /\ pc[r] \in {"outcomes", "reopen"}
  /\ Current(r) <= Len(Outcomes(r))
  /\ Settle(r, f)
  /\ plan' = plan

LEMMA SettledWork ==
  ASSUME TypeOK, NEW r \in Runs, RunInv(r), NEW f \in Fates, Settles(r, f),
         \/ /\ NowEnds(r, f)
            /\ stored'[r] \subseteq stored[r] \cup work[r]
            /\ work'[r] = {}
         \/ /\ pc'[r] = "end" /\ err'[r] /\ f = "failed"
            /\ stored'[r] = stored[r]
            /\ work'[r] \subseteq work[r] \cup {NewWrite(r)}
         \/ /\ ~NowEnds(r, f)
            /\ stored'[r] = stored[r]
            /\ work'[r] = work[r] \cup {w \in {NewWrite(r)} : NewlyWritten(r, f) # {}}
  PROVE  WorkInv(r)'
<1> DEFINE n == Current(r)
<1>1. /\ Len(fate[r]) \in Nat
      /\ n = Len(fate[r]) + 1
      /\ Len(fate'[r]) = n
  BY FateIsSequence, Appended DEF Settles
<1>2. /\ NewWrite(r).outcome = n
      /\ 1..Len(fate'[r]) = 1..Len(fate[r]) \cup {n}
      /\ n \notin 1..Len(fate[r])
  BY <1>1 DEF NewWrite
<1>3. Segment(r)' = IF NowEnds(r, f) THEN {} ELSE Segment(r) \cup NewlyWritten(r, f)
  BY SettledSets DEF Settles
<1>4. /\ \A w \in work[r] \cup stored[r] : w.outcome \in 1..Len(fate[r])
      /\ \A w \in work[r] : w.outcome \in Segment(r)
      /\ \A i \in Segment(r) : IsWorked(r, i) /\ ~IsStored(r, i)
  BY DEF RunInv, WorkInv, Settles
<1>5. \A w \in work'[r] \cup stored'[r] : w.outcome \in 1..Len(fate'[r])
  BY <1>2, <1>4
<1>6. CASE NowEnds(r, f) /\ work'[r] = {}
  BY <1>3, <1>5, <1>6 DEF WorkInv
<1>7. CASE /\ pc'[r] = "end" /\ err'[r] /\ f = "failed"
           /\ stored'[r] = stored[r]
           /\ work'[r] \subseteq work[r] \cup {NewWrite(r)}
  <2>1. Segment(r)' = Segment(r)
    BY <1>3, <1>7 DEF NowEnds, NewlyWritten
  <2>2. QED BY <1>4, <1>5, <1>7, <2>1 DEF WorkInv, IsStored
<1>8. CASE /\ ~NowEnds(r, f)
           /\ stored'[r] = stored[r]
           /\ work'[r] = work[r] \cup {w \in {NewWrite(r)} : NewlyWritten(r, f) # {}}
  <2>1. NewlyWritten(r, f) \subseteq {n}
    BY DEF NewlyWritten
  <2>2. \A w \in work'[r] : w.outcome \in Segment(r)'
    BY <1>2, <1>3, <1>4, <1>8, <2>1
  <2>3. \A i \in Segment(r)' : IsWorked(r, i)'
    BY <1>2, <1>3, <1>4, <1>8, <2>1 DEF IsWorked
  <2>4. \A i \in Segment(r)' : ~IsStored(r, i)'
    BY <1>2, <1>3, <1>4, <1>8, <2>1 DEF IsStored
  <2>5. QED BY <1>5, <2>2, <2>3, <2>4 DEF WorkInv
<1>9. QED
  BY <1>6, <1>7, <1>8

LEMMA SettledStored ==
  ASSUME TypeOK, NEW r \in Runs, RunInv(r), NEW f \in Fates, Settles(r, f),
         stored'[r] = stored[r]
  PROVE  StoredInv(r)' /\ AtomicInv(r)'
<1> DEFINE n == Current(r)
<1>1. /\ Len(fate[r]) \in Nat
      /\ n = Len(fate[r]) + 1
      /\ Len(fate'[r]) = n
      /\ \A i \in 1..Len(fate[r]) : fate'[r][i] = fate[r][i]
  BY FateIsSequence, Appended DEF Settles
<1>2. /\ Writes(r)' = Writes(r) \cup NewlyWritten(r, f)
      /\ \A i \in 1..Len(fate[r]) : EndsSegment(r, i)' <=> EndsSegment(r, i)
      /\ NewlyWritten(r, f) \subseteq {n}
  BY SettledSets DEF Settles, NewlyWritten
<1>3. Outcomes(r)' = Outcomes(r) /\ Writes(r) \subseteq 1..Len(fate[r])
  BY DEF Outcomes, Settles, Writes
<1>4. reply[r] = "none"
  BY DEF Settles, RunInv, PlaceInv
<1>5. StoredInv(r)'
  <2> SUFFICES ASSUME NEW w \in stored[r]
               PROVE  /\ w.outcome \in Writes(r)'
                      /\ \E j \in w.outcome + 1..Len(fate'[r]) :
                           Outcomes(r)'[j].method = "commit" /\ fate'[r][j] = "done"
    BY DEF StoredInv
  <2>1. /\ w.outcome \in Writes(r)
        /\ \E j \in w.outcome + 1..Len(fate[r]) :
             Outcomes(r)[j].method = "commit" /\ fate[r][j] = "done"
    BY <1>4 DEF RunInv, StoredInv
  <2>2. QED BY <1>1, <1>2, <1>3, <2>1, SMTT(30)
<1>6. AtomicInv(r)'
  <2>1. \A i : IsStored(r, i)' <=> IsStored(r, i)
    BY DEF IsStored
  <2> SUFFICES ASSUME NEW i \in Writes(r)', NEW j \in Writes(r)', i < j,
                      \A k \in i..j : ~EndsSegment(r, k)'
               PROVE  IsStored(r, i) <=> IsStored(r, j)
    BY <2>1 DEF AtomicInv
  <2>2. i \in Writes(r) /\ i \in 1..Len(fate[r])
    BY <1>1, <1>2, <1>3
  <2>3. CASE j \in Writes(r)
    <3>1. \A k \in i..j : ~EndsSegment(r, k)
      BY <1>1, <1>2, <1>3, <2>2, <2>3
    <3>2. QED BY <2>2, <2>3, <3>1 DEF RunInv, AtomicInv
  <2>4. CASE j = n
    <3>1. \A k \in i..Len(fate[r]) : ~EndsSegment(r, k)
      BY <1>1, <1>2, <2>2, <2>4
    <3>2. i \in Segment(r)
      BY <2>2, <3>1 DEF Segment
    <3>3. ~IsStored(r, i)
      BY <3>2 DEF RunInv, WorkInv, Settles
    <3>4. ~IsStored(r, j)
      BY <1>1, <2>4 DEF RunInv, WorkInv, IsStored
    <3>5. QED BY <3>3, <3>4
  <2>5. QED BY <1>2, <2>3, <2>4
<1>7. QED
  BY <1>5, <1>6

LEMMA SettledSwitch ==
  ASSUME TypeOK, NEW r \in Runs, RunInv(r), NEW f \in Fates, Settles(r, f),
         stored'[r] \cup work'[r] \subseteq stored[r] \cup work[r] \cup {NewWrite(r)},
         user'[r] = IF f = "done" /\ Method(r) = "switch" THEN Current(r) ELSE user[r],
         f = "failed" /\ Method(r) = "switch" =>
           pc'[r] \in {"end", "done"} \/ Outcomes(r)[Current(r)].continueOnError
  PROVE  SwitchInv(r)'
<1> DEFINE n == Current(r)
<1>1. /\ Len(fate[r]) \in Nat
      /\ n = Len(fate[r]) + 1
  BY FateIsSequence
<1>2. /\ Switches(r, "done")' =
           Switches(r, "done") \cup {i \in {n} : f = "done" /\ Method(r) = "switch"}
      /\ Switches(r, "failed")' =
           Switches(r, "failed") \cup {i \in {n} : f = "failed" /\ Method(r) = "switch"}
  BY SettledSets DEF Settles, Fates
<1>3. /\ Switches(r, "done") \subseteq 1..Len(fate[r])
      /\ Switches(r, "failed") \subseteq 1..Len(fate[r])
  BY DEF Switches
<1>4. Outcomes(r)' = Outcomes(r)
  BY DEF Outcomes, Settles
<1>5. /\ user[r] \in {0} \cup Switches(r, "done")
      /\ \A i \in Switches(r, "done") : i <= user[r]
      /\ \A i \in Switches(r, "failed") : Outcomes(r)[i].continueOnError
      /\ \A w \in stored[r] \cup work[r] : Obeys(r, w) /\ w.outcome \in 1..Len(fate[r])
  BY DEF RunInv, SwitchInv, WorkInv, Settles
<1>6. /\ user'[r] \in {0} \cup Switches(r, "done")'
      /\ \A i \in Switches(r, "done")' : i <= user'[r]
  BY <1>1, <1>2, <1>3, <1>5
<1>7. pc'[r] \notin {"end", "done"} =>
        \A i \in Switches(r, "failed")' : Outcomes(r)'[i].continueOnError
  BY <1>2, <1>4, <1>5
<1>8. ASSUME NEW w \in stored[r] \cup work[r] PROVE Obeys(r, w)'
  BY <1>1, <1>2, <1>3, <1>4, <1>5 DEF Obeys
<1>9. Obeys(r, NewWrite(r)) /\ NewWrite(r).outcome = n
  BY <1>1, <1>3, <1>5 DEF Obeys, NewWrite
<1>10. ASSUME NEW w, w = NewWrite(r) PROVE Obeys(r, w)'
  BY <1>1, <1>2, <1>4, <1>9, <1>10 DEF Obeys
<1>11. QED
  BY <1>6, <1>7, <1>8, <1>10 DEF SwitchInv

LEMMA SettledNamed ==
  ASSUME TypeOK, NEW r \in Runs, RunInv(r), NEW f \in Fates, Settles(r, f),
         \/ said[r] \subseteq said'[r]
         \/ Method(r) = "render" /\ Current(r) \in said'[r]
         \/ pc'[r] = "end" /\ err'[r],
         f = "failed" => Current(r) \in said'[r] \/ (pc'[r] = "end" /\ err'[r])
  PROVE  NamedInv(r)'
<1> DEFINE n == Current(r)
<1>1. /\ Len(fate[r]) \in Nat
      /\ n = Len(fate[r]) + 1
      /\ Len(fate'[r]) = n
      /\ \A i \in 1..Len(fate[r]) : fate'[r][i] = fate[r][i]
      /\ fate'[r][n] = f
  BY FateIsSequence, Appended DEF Settles
<1>2. Outcomes(r)' = Outcomes(r)
  BY DEF Outcomes, Settles
<1> SUFFICES ASSUME NEW i \in 1..Len(fate'[r]), fate'[r][i] = "failed"
             PROVE  \/ i \in said'[r]
                    \/ \E j \in said'[r] : Outcomes(r)'[j].method = "render"
                    \/ pc'[r] = "end" /\ err'[r]
  BY DEF NamedInv
<1>3. CASE i = n
  BY <1>1, <1>3
<1>4. CASE i \in 1..Len(fate[r])
  <2>1. \/ i \in said[r]
        \/ \E j \in said[r] : Outcomes(r)[j].method = "render"
    BY <1>1, <1>4 DEF RunInv, NamedInv, Settles
  <2>2. QED BY <1>2, <2>1 DEF Method
<1>5. QED
  BY <1>1, <1>3, <1>4

(* What becomes stored all at once was either all in the open transaction or all
   stored before. *)
LEMMA StoreWork ==
  ASSUME TypeOK, NEW r \in Runs, RunInv(r), pc[r] # "done", ~(pc[r] = "end" /\ err[r]), NEW S,
         \A i \in Writes(r) :
           (\E w \in S : w.outcome = i) <=> IsStored(r, i) \/ IsWorked(r, i),
         NEW i \in Writes(r), NEW j \in Writes(r), i < j,
         \A k \in i..j : ~EndsSegment(r, k)
  PROVE  (\E w \in S : w.outcome = i) <=> (\E w \in S : w.outcome = j)
<1>1. IsStored(r, i) <=> IsStored(r, j)
  BY DEF RunInv, AtomicInv
<1>2. \A m \in Writes(r) : IsWorked(r, m) <=> m \in Segment(r)
  BY DEF RunInv, WorkInv, IsWorked
<1>3. Len(fate[r]) \in Nat /\ Writes(r) \subseteq 1..Len(fate[r])
  BY FateIsSequence DEF Writes
<1>4. i \in Segment(r) <=> j \in Segment(r)
  BY <1>3 DEF Segment
<1>5. QED
  BY <1>1, <1>2, <1>4

LEMMA CommitSettled ==
  ASSUME TypeOK, NEW r \in Runs, RunInv(r), Settles(r, "done"), Method(r) = "commit",
         stored'[r] = stored[r] \cup work[r]
  PROVE  StoredInv(r)' /\ AtomicInv(r)'
<1> DEFINE n == Current(r)
<1>1. /\ Len(fate[r]) \in Nat
      /\ n = Len(fate[r]) + 1
      /\ Len(fate'[r]) = n
      /\ \A i \in 1..Len(fate[r]) : fate'[r][i] = fate[r][i]
      /\ fate'[r][n] = "done"
  BY FateIsSequence, Appended DEF Settles, Fates
<1>2. /\ Writes(r)' = Writes(r)
      /\ \A i \in 1..Len(fate[r]) : EndsSegment(r, i)' <=> EndsSegment(r, i)
  <2>1. "done" \in Fates
    BY DEF Fates
  <2>2. /\ Writes(r)' = Writes(r) \cup NewlyWritten(r, "done")
        /\ \A i \in 1..Len(fate[r]) : EndsSegment(r, i)' <=> EndsSegment(r, i)
    BY <2>1, SettledSets DEF Settles
  <2>3. NewlyWritten(r, "done") = {}
    BY DEF NewlyWritten
  <2>4. QED BY <2>2, <2>3
<1>3. Outcomes(r)' = Outcomes(r) /\ Writes(r) \subseteq 1..Len(fate[r])
  BY DEF Outcomes, Settles, Writes
<1>4. /\ reply[r] = "none"
      /\ \A w \in work[r] : w.outcome \in Writes(r)
      /\ \A w \in stored[r] : w.outcome \in Writes(r)
  BY DEF Settles, RunInv, PlaceInv, WorkInv, StoredInv, Segment
<1>5. StoredInv(r)'
  <2> SUFFICES ASSUME NEW w \in stored[r] \cup work[r]
               PROVE  /\ w.outcome \in Writes(r)'
                      /\ \E j \in w.outcome + 1..Len(fate'[r]) :
                           Outcomes(r)'[j].method = "commit" /\ fate'[r][j] = "done"
    BY DEF StoredInv
  <2>1. n \in w.outcome + 1..Len(fate'[r])
    BY <1>1, <1>3, <1>4
  <2>2. QED BY <1>1, <1>2, <1>3, <1>4, <2>1 DEF Method
<1>6. AtomicInv(r)'
  <2> SUFFICES ASSUME NEW i \in Writes(r)', NEW j \in Writes(r)', i < j,
                      \A k \in i..j : ~EndsSegment(r, k)'
               PROVE  IsStored(r, i)' <=> IsStored(r, j)'
    BY DEF AtomicInv
  <2>1. \A k \in i..j : ~EndsSegment(r, k)
    BY <1>1, <1>2, <1>3
  <2>2. \A m \in Writes(r) :
          (\E w \in stored'[r] : w.outcome = m) <=> IsStored(r, m) \/ IsWorked(r, m)
    BY DEF IsStored, IsWorked
  <2>3. (\E w \in stored'[r] : w.outcome = i) <=> (\E w \in stored'[r] : w.outcome = j)
    BY <1>2, <2>1, <2>2, StoreWork, SMTT(30) DEF Settles
  <2>4. QED BY <2>3 DEF IsStored
<1>7. QED
  BY <1>5, <1>6

------------------------------------------------------------------------------
(* The steps of run r, by what they do to it. *)

(* Steps between outcomes. *)
LEMMA StillSteps ==
  ASSUME TypeOK, NEW r \in Runs, RunInv(r),
         \/ Begin(r) \/ BeginFails(r) \/ Refuse(r) \/ Admit(r)
         \/ BeginOutcome(r) \/ EndOfOutcomes(r)
  PROVE  RunInv(r)'
<1> USE DEF Goto, SetErr, Answer, dbVars, TypeOK
<1>1. /\ plan' = plan /\ fate' = fate /\ work' = work /\ stored' = stored
      /\ user' = user /\ said' = said
  BY DEF Begin, BeginFails, Refuse, Admit, BeginOutcome, EndOfOutcomes
<1>2. /\ pc[r] \notin {"end", "done"}
      /\ reply'[r] = reply[r] \/ (reply[r] = "none" /\ reply'[r] = "panic")
  BY DEF Begin, BeginFails, Refuse, Admit, BeginOutcome, EndOfOutcomes, AtOutcome,
         RunInv, PlaceInv
<1>3. PlaceInv(r)'
  BY <1>1 DEF Begin, BeginFails, Refuse, Admit, BeginOutcome, EndOfOutcomes, AtOutcome,
         RunInv, PlaceInv, Current, Outcomes, Method
<1>4. QED
  BY <1>1, <1>2, <1>3, StillRun

(* Outcomes that are settled without a change to the database. *)
LEMMA QuietSteps ==
  ASSUME TypeOK, NEW r \in Runs, RunInv(r),
         \/ SkipOutcome(r) \/ ConditionFails(r) \/ BuildFails(r) \/ Read(r) \/ PassOver(r)
         \/ Respond(r) \/ SwitchUser(r) \/ Render(r)
  PROVE  RunInv(r)'
<1> USE DEF Goto, SetErr, dbVars, AtOutcome, Succeed, Stop
<1>1. PICK f \in Fates :
        /\ Settles(r, f)
        /\ pc'[r] \in {"outcomes", "end"}
        /\ f = "done" => Method(r) \in {"read", "respond", "switch", "render"}
        /\ user'[r] = IF f = "done" /\ Method(r) = "switch" THEN Current(r) ELSE user[r]
        /\ \/ said[r] \subseteq said'[r]
           \/ Method(r) = "render" /\ Current(r) \in said'[r]
           \/ pc'[r] = "end" /\ err'[r]
        /\ f = "failed" => Current(r) \in said'[r] \/ (pc'[r] = "end" /\ err'[r])
        /\ f = "failed" =>
             pc'[r] \in {"end", "done"} \/ Outcomes(r)[Current(r)].continueOnError
  <2> USE DEF Settles, TypeOK, Fates
  <2>1. CASE SkipOutcome(r)
    BY <2>1 DEF SkipOutcome
  <2>2. CASE ConditionFails(r)
    BY <2>2 DEF ConditionFails
  <2>3. CASE BuildFails(r)
    BY <2>3 DEF BuildFails
  <2>4. CASE Read(r)
    BY <2>4 DEF Read
  <2>5. CASE PassOver(r)
    BY <2>5 DEF PassOver
  <2>6. CASE Respond(r)
    BY <2>6 DEF Respond
  <2>7. CASE SwitchUser(r)
    BY <2>7 DEF SwitchUser
  <2>8. CASE Render(r)
    BY <2>8 DEF Render
  <2>9. QED BY <2>1, <2>2, <2>3, <2>4, <2>5, <2>6, <2>7, <2>8
<1>2. /\ work' = work /\ stored' = stored /\ tx' = tx /\ reply' = reply
  BY DEF SkipOutcome, ConditionFails, BuildFails, Read, PassOver, Respond, SwitchUser, Render
<1>3. ~NowEnds(r, f) /\ NewlyWritten(r, f) = {}
  BY <1>1 DEF NowEnds, NewlyWritten
<1>4. PlaceInv(r)'
  BY <1>1, <1>2 DEF RunInv, PlaceInv, Settles
<1>5. WorkInv(r)'
  BY <1>1, <1>2, <1>3, SettledWork
<1>6. StoredInv(r)' /\ AtomicInv(r)'
  BY <1>1, <1>2, SettledStored
<1>7. SwitchInv(r)'
  BY <1>1, <1>2, SettledSwitch
<1>8. NamedInv(r)'
  BY <1>1, SettledNamed
<1>9. QED
  BY <1>4, <1>5, <1>6, <1>7, <1>8 DEF RunInv

(* Writes, within or at the end of the transaction. *)
LEMMA PerformStep ==
  ASSUME TypeOK, NEW r \in Runs, RunInv(r), Perform(r) PROVE RunInv(r)'
<1> USE DEF Goto, SetErr, AtOutcome
<1>1. PICK f \in {"done", "failed"} :
        /\ Settles(r, f)
        /\ pc'[r] \in {"outcomes", "end"}
        /\ user' = user
        /\ said[r] \subseteq said'[r]
        /\ f = "failed" => pc'[r] = "end" /\ err'[r]
        /\ \/ f = "done" /\ tx[r] = "open" /\ work'[r] = work[r] \cup {NewWrite(r)}
           \/ f = "failed" /\ tx[r] = "open" /\ work'[r] = work[r] \cup {NewWrite(r)}
           \/ f = "failed" /\ work' = work
  <2>1. CASE /\ tx[r] = "open"
             /\ work' = [work EXCEPT ![r] = @ \cup {NewWrite(r)}]
             /\ Succeed(r)
    BY <2>1 DEF Perform, Settles, Succeed, TypeOK
  <2>2. CASE /\ tx[r] = "open"
             /\ work' = [work EXCEPT ![r] = @ \cup {NewWrite(r)}]
             /\ Stop(r)
    BY <2>2 DEF Perform, Settles, Stop, TypeOK
  <2>3. CASE Stop(r) /\ UNCHANGED work
    BY <2>3 DEF Perform, Settles, Stop, TypeOK
  <2>4. QED BY <2>1, <2>2, <2>3 DEF Perform
<1>2. /\ Method(r) \in {"write", "perform"}
      /\ tx' = tx /\ stored' = stored /\ reply' = reply /\ f \in Fates
  BY DEF Perform, Succeed, Stop, Fates
<1>3. ~NowEnds(r, f) /\ (f = "done" => NewlyWritten(r, f) # {})
  BY <1>2 DEF NowEnds, NewlyWritten
<1>4. PlaceInv(r)'
  BY <1>1, <1>2 DEF RunInv, PlaceInv, Settles
<1>5. WorkInv(r)'
  BY <1>1, <1>2, <1>3, SettledWork
<1>6. StoredInv(r)' /\ AtomicInv(r)'
  BY <1>1, <1>2, SettledStored
<1>7. SwitchInv(r)'
  BY <1>1, <1>2, SettledSwitch
<1>8. NamedInv(r)'
  BY <1>1, <1>2, SettledNamed
<1>9. QED
  BY <1>4, <1>5, <1>6, <1>7, <1>8 DEF RunInv

(* The $transaction performer. *)
LEMMA TransactionSteps ==
  ASSUME TypeOK, NEW r \in Runs, RunInv(r),
         CommitOutcome(r) \/ RollbackOutcome(r) \/ Reopen(r)
  PROVE  RunInv(r)'
<1> USE DEF Goto, SetErr, AtOutcome
<1>1. PICK f \in {"done", "failed"} :
        /\ Settles(r, f)
        /\ Method(r) \in {"commit", "rollback", "begin"}
        /\ pc'[r] \in {"outcomes", "end"}
        /\ user' = user /\ reply' = reply
        /\ said[r] \subseteq said'[r]
        /\ f = "failed" => pc'[r] = "end" /\ err'[r]
        /\ \/ /\ work'[r] = {}
              /\ \/ stored'[r] = stored[r]
                 \/ /\ stored'[r] = stored[r] \cup work[r]
                    /\ f = "done" /\ Method(r) = "commit"
           \/ work' = work /\ stored' = stored /\ tx' = tx /\ f = "failed"
  <2>1. CASE CommitOutcome(r)
    <3>1. CASE tx[r] = "open" /\ CommitTx(r) /\ Succeed(r)
      BY <2>1, <3>1 DEF CommitOutcome, CommitTx, Close, Settles, Succeed, TypeOK
    <3>2. CASE RollbackTx(r) /\ Stop(r)
      BY <2>1, <3>2 DEF CommitOutcome, RollbackTx, Close, Settles, Stop, TypeOK
    <3>3. QED BY <2>1, <3>1, <3>2 DEF CommitOutcome
  <2>2. CASE RollbackOutcome(r)
    <3>1. CASE tx[r] = "open" /\ RollbackTx(r) /\ Succeed(r)
      BY <2>2, <3>1 DEF RollbackOutcome, RollbackTx, Close, Settles, Succeed, TypeOK
    <3>2. CASE RollbackTx(r) /\ Stop(r)
      BY <2>2, <3>2 DEF RollbackOutcome, RollbackTx, Close, Settles, Stop, TypeOK
    <3>3. QED BY <2>2, <3>1, <3>2 DEF RollbackOutcome
  <2>3. CASE Reopen(r)
    BY <2>3 DEF Reopen, Settles, Stop, dbVars, TypeOK, RunInv, PlaceInv
  <2>4. QED BY <2>1, <2>2, <2>3
<1>2. f \in Fates /\ (f = "done" <=> NowEnds(r, f)) /\ NewlyWritten(r, f) = {}
  BY <1>1 DEF Fates, NowEnds, NewlyWritten
<1>3. PlaceInv(r)'
  BY <1>1 DEF RunInv, PlaceInv, Settles
<1>4. WorkInv(r)'
  BY <1>1, <1>2, SettledWork
<1>5. StoredInv(r)' /\ AtomicInv(r)'
  BY <1>1, <1>2, SettledStored, CommitSettled
<1>6. SwitchInv(r)'
  BY <1>1, <1>2, SettledSwitch
<1>7. NamedInv(r)'
  BY <1>1, <1>2, SettledNamed
<1>8. QED
  BY <1>3, <1>4, <1>5, <1>6, <1>7 DEF RunInv

(* Facts about a run whose outcomes stay as they are. *)
LEMMA SameFate ==
  ASSUME NEW r \in Runs, plan' = plan, fate'[r] = fate[r]
  PROVE  /\ Outcomes(r)' = Outcomes(r)
         /\ Writes(r)' = Writes(r)
         /\ Switches(r, "done")' = Switches(r, "done")
         /\ Switches(r, "failed")' = Switches(r, "failed")
         /\ Segment(r)' = Segment(r)
         /\ \A i : EndsSegment(r, i)' <=> EndsSegment(r, i)
         /\ \A w : Obeys(r, w)' <=> Obeys(r, w)
<1>1. Outcomes(r)' = Outcomes(r)
  BY DEF Outcomes
<1>2. QED
  BY <1>1 DEF Writes, Switches, Segment, EndsSegment, Obeys

(* The end of a run, by commit or rollback. *)
LEMMA EndSteps ==
  ASSUME TypeOK, NEW r \in Runs, RunInv(r), EndRequest(r) \/ EndTask(r)
  PROVE  RunInv(r)'
<1>1. /\ pc[r] = "end" /\ pc'[r] = "done"
      /\ plan' = plan /\ fate' = fate /\ user' = user /\ err' = err
      /\ work'[r] = {}
      /\ \/ err[r] /\ reply'[r] = "error" /\ stored' = stored
         \/ /\ ~err[r] /\ reply'[r] = "ok" /\ said' = said
            /\ stored'[r] = stored[r] \cup work[r] \/ stored' = stored
  <2>1. CASE GiveUp(r)
    BY <2>1 DEF EndRequest, EndTask, Goto, GiveUp, RollbackTx, Close, Answer, TypeOK
  <2>2. CASE Conclude(r)
    BY <2>2 DEF EndRequest, EndTask, Goto, Conclude, CommitTx, RollbackTx, Close, Answer,
                TypeOK
  <2>3. QED BY <2>1, <2>2 DEF EndRequest, EndTask
<1>2. /\ Outcomes(r)' = Outcomes(r)
      /\ Writes(r)' = Writes(r)
      /\ Switches(r, "done")' = Switches(r, "done")
      /\ Switches(r, "failed")' = Switches(r, "failed")
      /\ \A i : EndsSegment(r, i)' <=> EndsSegment(r, i)
      /\ \A w : Obeys(r, w)' <=> Obeys(r, w)
  BY <1>1, SameFate
<1>3. PlaceInv(r)'
  BY <1>1 DEF PlaceInv
<1>4. WorkInv(r)'
  BY <1>1 DEF RunInv, WorkInv
<1>5. StoredInv(r)'
  BY <1>1, <1>2 DEF RunInv, StoredInv, PlaceInv
<1>6. AtomicInv(r)'
  <2>1. CASE stored' = stored
    BY <1>2, <2>1 DEF RunInv, AtomicInv, IsStored
  <2>2. CASE ~err[r] /\ stored'[r] = stored[r] \cup work[r]
    <3> SUFFICES ASSUME NEW i \in Writes(r)', NEW j \in Writes(r)', i < j,
                        \A k \in i..j : ~EndsSegment(r, k)'
                 PROVE  IsStored(r, i)' <=> IsStored(r, j)'
      BY DEF AtomicInv
    <3>1. \A m \in Writes(r) :
            (\E w \in stored'[r] : w.outcome = m) <=> IsStored(r, m) \/ IsWorked(r, m)
      BY <2>2 DEF IsStored, IsWorked
    <3>2. (\E w \in stored'[r] : w.outcome = i) <=> (\E w \in stored'[r] : w.outcome = j)
      BY <1>1, <1>2, <2>2, <3>1, StoreWork
    <3>3. QED BY <3>2 DEF IsStored
  <2>3. QED BY <1>1, <2>1, <2>2
<1>7. SwitchInv(r)'
  BY <1>1, <1>2 DEF RunInv, SwitchInv
<1>8. NamedInv(r)'
  BY <1>1, <1>2 DEF RunInv, NamedInv
<1>9. QED
  BY <1>3, <1>4, <1>5, <1>6, <1>7, <1>8 DEF RunInv

(* A panic: of what a request had not committed nothing is stored; of a task, all
   that is in its open transaction. *)
LEMMA PanicOwnRun ==
  ASSUME TypeOK, NEW r \in Runs, RunInv(r), PanicInRequest(r) \/ PanicInTask(r)
  PROVE  RunInv(r)'
<1> DEFINE n == Current(r)
<1>1. /\ Settles(r, "failed") /\ "failed" \in Fates
      /\ Method(r) = "perform"
      /\ pc'[r] = "done" /\ reply'[r] = "panic" /\ work'[r] = {} /\ user' = user
      /\ \/ stored'[r] = stored[r]
         \/ stored'[r] = stored[r] \cup work[r]
         \/ stored'[r] = stored[r] \cup work[r] \cup {NewWrite(r)}
  <2>1. CASE PanicInRequest(r)
    BY <2>1 DEF PanicInRequest, Settles, AtOutcome, Goto, Answer, Fates, TypeOK
  <2>2. CASE PanicInTask(r)
    <3>1. PICK w \in {{}, {NewWrite(r)}} :
            stored' = [stored EXCEPT ![r] =
                         IF tx[r] = "open" THEN @ \cup work[r] \cup w ELSE @]
      BY <2>2 DEF PanicInTask
    <3>2. QED
      BY <2>2, <3>1 DEF PanicInTask, Settles, AtOutcome, Running, Fates, TypeOK
  <2>3. QED BY <2>1, <2>2
<1>2. /\ Len(fate[r]) \in Nat
      /\ n = Len(fate[r]) + 1
      /\ Len(fate'[r]) = n
  BY <1>1, FateIsSequence, Appended DEF Settles
<1>3. NewlyWritten(r, "failed") = {}
  BY DEF NewlyWritten
<1>4. /\ Writes(r)' = Writes(r)
      /\ \A i \in 1..Len(fate[r]) : EndsSegment(r, i)' <=> EndsSegment(r, i)
  BY <1>1, <1>3, SettledSets DEF Settles
<1>5. Writes(r) \subseteq 1..Len(fate[r]) /\ n \notin Writes(r) /\ NewWrite(r).outcome = n
  BY <1>2 DEF Writes, NewWrite
<1>6. PlaceInv(r)' /\ StoredInv(r)' /\ NamedInv(r)'
  BY <1>1 DEF PlaceInv, StoredInv, NamedInv
<1>7. WorkInv(r)'
  BY <1>1, <1>2, <1>5 DEF RunInv, WorkInv
<1>8. AtomicInv(r)'
  <2>1. CASE stored'[r] = stored[r]
    BY <1>1, <2>1, SettledStored
  <2>2. CASE \/ stored'[r] = stored[r] \cup work[r]
             \/ stored'[r] = stored[r] \cup work[r] \cup {NewWrite(r)}
    <3> SUFFICES ASSUME NEW i \in Writes(r)', NEW j \in Writes(r)', i < j,
                        \A k \in i..j : ~EndsSegment(r, k)'
                 PROVE  IsStored(r, i)' <=> IsStored(r, j)'
      BY DEF AtomicInv
    <3>1. \A k \in i..j : ~EndsSegment(r, k)
      BY <1>2, <1>4, <1>5
    <3>2. \A m \in Writes(r) :
            (\E w \in stored'[r] : w.outcome = m) <=> IsStored(r, m) \/ IsWorked(r, m)
      BY <1>5, <2>2 DEF IsStored, IsWorked
    <3>3. (\E w \in stored'[r] : w.outcome = i) <=> (\E w \in stored'[r] : w.outcome = j)
      BY <1>1, <1>4, <3>1, <3>2, StoreWork DEF Settles
    <3>4. QED BY <3>3 DEF IsStored
  <2>3. QED BY <1>1, <2>1, <2>2
<1>9. SwitchInv(r)'
  BY <1>1, SettledSwitch
<1>10. QED
  BY <1>6, <1>7, <1>8, <1>9 DEF RunInv

(* The other runs: a task that panics stops them, all other steps leave them be. *)
LEMMA PanicOtherRun ==
  ASSUME TypeOK, NEW r \in Runs, PanicInTask(r), NEW q \in Runs, q # r, RunInv(q)
  PROVE  RunInv(q)'
<1>1. /\ plan' = plan /\ fate'[q] = fate[q] /\ stored'[q] = stored[q]
      /\ user' = user /\ err' = err /\ reply'[q] = reply[q] /\ said' = said
      /\ work'[q] = {}
      /\ tx'[q] = IF tx[q] = "none" THEN "none" ELSE "done"
      /\ pc'[q] = IF pc[q] = "begin" THEN "begin" ELSE "done"
  <2>1. PICK w \in {{}, {NewWrite(r)}} :
          stored' = [stored EXCEPT ![r] =
                       IF tx[r] = "open" THEN @ \cup work[r] \cup w ELSE @]
    BY DEF PanicInTask
  <2>2. QED
    BY <2>1 DEF PanicInTask, Settle, Running, TypeOK
<1>2. /\ Outcomes(q)' = Outcomes(q)
      /\ Writes(q)' = Writes(q)
      /\ Switches(q, "done")' = Switches(q, "done")
      /\ Switches(q, "failed")' = Switches(q, "failed")
      /\ Segment(q)' = Segment(q)
      /\ \A i : EndsSegment(q, i)' <=> EndsSegment(q, i)
      /\ \A w : Obeys(q, w)' <=> Obeys(q, w)
  BY <1>1, SameFate
<1>3. PlaceInv(q)'
  BY <1>1 DEF RunInv, PlaceInv
<1>4. WorkInv(q)'
  BY <1>1, <1>2 DEF RunInv, WorkInv, PlaceInv, IsWorked, IsStored
<1>5. StoredInv(q)'
  BY <1>1, <1>2 DEF RunInv, StoredInv
<1>6. AtomicInv(q)'
  BY <1>1, <1>2 DEF RunInv, AtomicInv, IsStored
<1>7. SwitchInv(q)'
  BY <1>1, <1>2 DEF RunInv, SwitchInv
<1>8. NamedInv(q)'
  BY <1>1, <1>2 DEF RunInv, NamedInv, PlaceInv
<1>9. QED
  BY <1>3, <1>4, <1>5, <1>6, <1>7, <1>8 DEF RunInv

LEMMA OtherRun ==
  ASSUME TypeOK, NEW r \in Runs, Step(r), ~PanicInTask(r),
         NEW q \in Runs, q # r, RunInv(q)
  PROVE  RunInv(q)'
<1>1. /\ plan' = plan /\ fate'[q] = fate[q] /\ stored'[q] = stored[q]
      /\ user'[q] = user[q] /\ err'[q] = err[q] /\ reply'[q] = reply[q]
      /\ said'[q] = said[q] /\ work'[q] = work[q] /\ tx'[q] = tx[q] /\ pc'[q] = pc[q]
  <2> USE DEF TypeOK, Goto, SetErr, Settle, Answer, dbVars
  <2>1. CASE \/ Begin(r) \/ BeginFails(r) \/ Refuse(r) \/ Admit(r)
             \/ SkipOutcome(r) \/ ConditionFails(r) \/ BuildFails(r)
    BY <2>1 DEF Begin, BeginFails, Refuse, Admit, SkipOutcome, ConditionFails, BuildFails
  <2>2. CASE Perform(r) \/ Read(r) \/ PassOver(r) \/ Respond(r)
    BY <2>2 DEF Perform, Read, PassOver, Respond, Succeed, Stop
  <2>3. CASE SwitchUser(r) \/ Render(r) \/ PanicInRequest(r)
    BY <2>3 DEF SwitchUser, Render, PanicInRequest, Stop
  <2>4. CASE CommitOutcome(r) \/ RollbackOutcome(r)
    BY <2>4 DEF CommitOutcome, RollbackOutcome, CommitTx, RollbackTx, Close, Succeed, Stop
  <2>5. CASE BeginOutcome(r) \/ Reopen(r) \/ EndOfOutcomes(r)
    BY <2>5 DEF BeginOutcome, Reopen, EndOfOutcomes, Stop
  <2>6. CASE EndRequest(r) \/ EndTask(r)
    BY <2>6 DEF EndRequest, EndTask, GiveUp, Conclude, CommitTx, RollbackTx, Close
  <2>7. QED BY <2>1, <2>2, <2>3, <2>4, <2>5, <2>6 DEF Step
<1>2. PlaceInv(q)'
  BY <1>1 DEF RunInv, PlaceInv, Current, Outcomes, Method
<1>3. QED
  BY <1>1, <1>2, StillRun

LEMMA RunsInv ==
  ASSUME TypeOK, \A q \in Runs : RunInv(q), NEW r \in Runs, Step(r)
  PROVE  \A q \in Runs : RunInv(q)'
<1>1. RunInv(r)'
  BY StillSteps, QuietSteps, PerformStep, TransactionSteps, EndSteps, PanicOwnRun DEF Step
<1>2. ASSUME NEW q \in Runs, q # r PROVE RunInv(q)'
  BY <1>2, OtherRun, PanicOtherRun
<1>3. QED
  BY <1>1, <1>2

------------------------------------------------------------------------------
(* The pool, and types. *)

(* A step takes a connection for a run, gives one back, or loses one. *)
LEMMA PoolStep ==
  ASSUME TypeOK, PoolInv, NEW r \in Runs,
         \/ /\ tx' = tx
            /\ free' = free
         \/ /\ free > 0
            /\ free' = free - 1
            /\ tx' = [tx EXCEPT ![r] = "open"]
         \/ /\ free' = IF tx[r] = "open" THEN free + 1 ELSE free
            /\ tx' = [tx EXCEPT ![r] = "done"]
         \/ /\ free' = free
            /\ tx' = [tx EXCEPT ![r] = IF @ = "open" THEN "lost" ELSE @]
         \/ /\ free' = MaxOpenConns
            /\ tx' = [q \in Runs |-> IF tx[q] = "none" THEN "none" ELSE "done"]
  PROVE  PoolInv'
<1>1. /\ IsFiniteSet(Open) /\ Cardinality(Open) \in Nat
      /\ free \in Nat /\ MaxOpenConns \in Nat
      /\ free + Cardinality(Open) <= MaxOpenConns
  BY ConstantsAssumption, FS_CardinalityType DEF PoolInv
<1>2. CASE tx' = tx /\ free' = free
  BY <1>1, <1>2 DEF PoolInv, Open
<1>3. CASE /\ free > 0
           /\ free' = free - 1
           /\ tx' = [tx EXCEPT ![r] = "open"]
  <2>1. Open' = Open \cup {r}
    BY <1>3 DEF TypeOK, Open
  <2>2. /\ IsFiniteSet(Open')
        /\ Cardinality(Open') \in {Cardinality(Open), Cardinality(Open) + 1}
    BY <1>1, <2>1, FS_AddElement
  <2>3. QED BY <1>1, <1>3, <2>2 DEF PoolInv
<1>4. CASE /\ free' = IF tx[r] = "open" THEN free + 1 ELSE free
           /\ tx' = [tx EXCEPT ![r] = "done"]
  <2>1. Open' = Open \ {r} /\ (r \in Open <=> tx[r] = "open")
    BY <1>4 DEF TypeOK, Open
  <2>2. /\ IsFiniteSet(Open')
        /\ Cardinality(Open') = IF r \in Open THEN Cardinality(Open) - 1 ELSE Cardinality(Open)
    BY <1>1, <2>1, FS_RemoveElement
  <2>3. QED BY <1>1, <1>4, <2>1, <2>2 DEF PoolInv
<1>5. CASE /\ free' = free
           /\ tx' = [tx EXCEPT ![r] = IF @ = "open" THEN "lost" ELSE @]
  <2>1. Open' = Open \ {r}
    BY <1>5 DEF TypeOK, Open
  <2>2. /\ IsFiniteSet(Open')
        /\ Cardinality(Open') \in {Cardinality(Open) - 1, Cardinality(Open)}
    BY <1>1, <2>1, FS_RemoveElement
  <2>3. QED BY <1>1, <1>5, <2>2 DEF PoolInv
<1>6. CASE /\ free' = MaxOpenConns
           /\ tx' = [q \in Runs |-> IF tx[q] = "none" THEN "none" ELSE "done"]
  <2>1. Open' = {}
    BY <1>6 DEF TypeOK, Open
  <2>2. QED BY <1>1, <1>6, <2>1, FS_EmptySet DEF PoolInv
<1>7. QED
  BY <1>2, <1>3, <1>4, <1>5, <1>6

LEMMA NextPool ==
  ASSUME TypeOK, PoolInv, NEW r \in Runs, Step(r) PROVE PoolInv'
<1>1. CASE \/ BeginFails(r) \/ Refuse(r) \/ Admit(r) \/ SkipOutcome(r) \/ ConditionFails(r)
           \/ BuildFails(r) \/ Perform(r) \/ Read(r) \/ PassOver(r) \/ Respond(r)
           \/ SwitchUser(r) \/ Render(r) \/ BeginOutcome(r) \/ EndOfOutcomes(r)
  <2>1. tx' = tx /\ free' = free
    BY <1>1 DEF BeginFails, Refuse, Admit, SkipOutcome, ConditionFails, BuildFails, Perform,
            Read, PassOver, Respond, SwitchUser, Render, BeginOutcome, EndOfOutcomes, dbVars
  <2>2. QED BY <2>1, PoolStep
<1>2. CASE Begin(r) \/ Reopen(r)
  BY <1>2, PoolStep DEF Begin, Reopen, dbVars
<1>3. CASE CommitOutcome(r) \/ RollbackOutcome(r) \/ EndRequest(r) \/ EndTask(r)
  <2>1. Close(r)
    BY <1>3 DEF CommitOutcome, RollbackOutcome, EndRequest, EndTask, GiveUp, Conclude,
                CommitTx, RollbackTx
  <2>2. QED BY <2>1, PoolStep DEF Close
<1>4. CASE PanicInRequest(r) \/ PanicInTask(r)
  BY <1>4, PoolStep DEF PanicInRequest, PanicInTask
<1>5. QED
  BY <1>1, <1>2, <1>3, <1>4 DEF Step

LEMMA NextType ==
  ASSUME TypeOK, PoolInv', NEW r \in Runs, PlaceInv(r), Step(r) PROVE TypeOK'
<1>1. /\ Current(r) \in Nat /\ Len(fate[r]) \in Nat
      /\ NewWrite(r) \in Write
  BY FateIsSequence DEF NewWrite, Write, TypeOK
<1>2. free' \in 0..MaxOpenConns
  <2>1. Cardinality(Open') \in Nat
    BY FS_CardinalityType DEF PoolInv
  <2>2. QED BY <2>1, ConstantsAssumption DEF PoolInv
<1>3. plan' = plan /\ Outcomes(r)' = Outcomes(r)
  BY DEF Step, Begin, BeginFails, Refuse, Admit, SkipOutcome, ConditionFails, BuildFails,
         Perform, Read, PassOver, Respond, SwitchUser, Render, PanicInRequest, PanicInTask,
         CommitOutcome, RollbackOutcome, BeginOutcome, Reopen, EndOfOutcomes, EndRequest,
         EndTask, Succeed, Stop, Outcomes
<1>4. fate' \in [Runs -> Seq(Fates)] /\ \A q \in Runs : Len(fate'[q]) <= Len(Outcomes(q))'
  <2>1. CASE fate' = fate
    BY <1>3, <2>1 DEF TypeOK, Outcomes
  <2>2. CASE /\ Current(r) <= Len(Outcomes(r))
             /\ \E f \in Fates : Settle(r, f)
    BY <1>3, <2>2, Appended
  <2> USE DEF Fates, AtOutcome, Succeed, Stop
  <2>3. CASE \/ Begin(r) \/ BeginFails(r) \/ Refuse(r) \/ Admit(r) \/ BeginOutcome(r)
             \/ EndOfOutcomes(r) \/ EndRequest(r) \/ EndTask(r)
    BY <2>1, <2>3 DEF Begin, BeginFails, Refuse, Admit, BeginOutcome, EndOfOutcomes,
                      EndRequest, EndTask
  <2>4. CASE \/ SkipOutcome(r) \/ ConditionFails(r) \/ BuildFails(r) \/ Perform(r) \/ Read(r)
             \/ PassOver(r) \/ Respond(r) \/ SwitchUser(r) \/ Render(r)
    BY <2>2, <2>4 DEF SkipOutcome, ConditionFails, BuildFails, Perform, Read, PassOver,
                      Respond, SwitchUser, Render
  <2>5. CASE PanicInRequest(r) \/ PanicInTask(r) \/ CommitOutcome(r) \/ RollbackOutcome(r)
    BY <2>2, <2>5 DEF PanicInRequest, PanicInTask, CommitOutcome, RollbackOutcome
  <2>6. CASE Reopen(r)
    BY <2>2, <2>6 DEF Reopen, PlaceInv
  <2>7. QED BY <2>3, <2>4, <2>5, <2>6 DEF Step
<1> USE DEF Goto, SetErr, Answer, dbVars, Succeed, Stop, CommitTx, RollbackTx, Close, GiveUp,
            Conclude
<1> USE DEF Begin, BeginFails, Refuse, Admit, SkipOutcome, ConditionFails, BuildFails,
            Perform, Read, PassOver, Respond, SwitchUser, Render, PanicInRequest,
            PanicInTask, CommitOutcome, RollbackOutcome, BeginOutcome, Reopen,
            EndOfOutcomes, EndRequest, EndTask
<1>5. pc' \in [Runs -> {"begin", "check", "outcomes", "reopen", "end", "done"}]
  <2>1. pc \in [Runs -> {"begin", "check", "outcomes", "reopen", "end", "done"}]
    BY DEF TypeOK
  <2>2. QED BY <2>1 DEF Step, Running
<1>6. err' \in [Runs -> BOOLEAN]
  <2>1. err \in [Runs -> BOOLEAN]
    BY DEF TypeOK
  <2>2. QED BY <2>1 DEF Step
<1>7. user' \in [Runs -> Nat]
  <2>1. user \in [Runs -> Nat]
    BY DEF TypeOK
  <2>2. QED BY <1>1, <2>1 DEF Step
<1>8. tx' \in [Runs -> {"none", "open", "done", "lost"}]
  <2>1. tx \in [Runs -> {"none", "open", "done", "lost"}]
    BY DEF TypeOK
  <2>2. QED BY <2>1 DEF Step
<1>9. work' \in [Runs -> SUBSET Write]
  <2>1. work \in [Runs -> SUBSET Write]
    BY DEF TypeOK
  <2>2. QED BY <1>1, <2>1 DEF Step
<1>10. stored' \in [Runs -> SUBSET Write]
  <2>1. stored \in [Runs -> SUBSET Write] /\ work \in [Runs -> SUBSET Write]
    BY DEF TypeOK
  <2>2. QED BY <1>1, <2>1 DEF Step
<1>11. said' \in [Runs -> SUBSET Nat]
  <2>1. said \in [Runs -> SUBSET Nat]
    BY DEF TypeOK
  <2>2. QED BY <1>1, <2>1 DEF Step
<1>12. reply' \in [Runs -> {"none", "ok", "error", "panic"}]
  <2>1. reply \in [Runs -> {"none", "ok", "error", "panic"}]
    BY DEF TypeOK
  <2>2. QED BY <2>1 DEF Step
<1>13. QED
  BY <1>2, <1>3, <1>4, <1>5, <1>6, <1>7, <1>8, <1>9, <1>10, <1>11, <1>12 DEF TypeOK

------------------------------------------------------------------------------
LEMMA InitIInv == Init => IInv
<1> SUFFICES ASSUME Init PROVE IInv
  OBVIOUS
<1>1. \A r \in Runs : Len(Outcomes(r)) \in Nat
  <2> SUFFICES ASSUME NEW r \in Runs PROVE Len(Outcomes(r)) \in Nat
    OBVIOUS
  <2>1. plan[r].outcomes \in Seq(Outcome)
    BY ConstantsAssumption DEF Init
  <2>2. QED BY <2>1 DEF Outcomes
<1>2. TypeOK
  BY <1>1, ConstantsAssumption DEF Init, TypeOK
<1>3. PoolInv
  <2>1. Open = {}
    BY DEF Init, Open
  <2>2. QED BY <2>1, FS_EmptySet, ConstantsAssumption DEF Init, PoolInv
<1>4. ASSUME NEW r \in Runs PROVE RunInv(r)
  BY DEF Init, RunInv, PlaceInv, WorkInv, StoredInv, AtomicInv, SwitchInv, NamedInv,
         Writes, Segment, Switches
<1>5. QED
  BY <1>2, <1>3, <1>4 DEF IInv

LEMMA NextIInv == IInv /\ [Next]_vars => IInv'
<1> SUFFICES ASSUME IInv, [Next]_vars PROVE IInv'
  OBVIOUS
<1>1. CASE UNCHANGED vars
  <2>1. TypeOK'
    BY <1>1 DEF vars, IInv, TypeOK, Outcomes
  <2>2. PoolInv'
    BY <1>1 DEF vars, IInv, PoolInv, Open
  <2>3. ASSUME NEW r \in Runs PROVE RunInv(r)'
    <3>1. PlaceInv(r)'
      BY <1>1 DEF vars, IInv, RunInv, PlaceInv, Current, Outcomes, Method
    <3>2. QED BY <1>1, <3>1, StillRun DEF vars, IInv
  <2>4. QED BY <2>1, <2>2, <2>3 DEF IInv
<1>2. CASE Next
  <2>1. PICK r \in Runs : Step(r)
    BY <1>2 DEF Next
  <2>2. PoolInv'
    BY <2>1, NextPool DEF IInv
  <2>3. TypeOK'
    BY <2>1, <2>2, NextType DEF IInv, RunInv
  <2>4. \A q \in Runs : RunInv(q)'
    BY <2>1, RunsInv DEF IInv
  <2>5. QED BY <2>2, <2>3, <2>4 DEF IInv
<1>3. QED
  BY <1>1, <1>2

LEMMA Invariant == Spec => []IInv
  BY InitIInv, NextIInv, PTL DEF Spec

(* Every variable keeps its type; for the pool this says that no connection is given
   back twice, and none out of it is held by a run that has ended. *)
THEOREM TypeCorrect == Spec => []TypeOK
<1>1. IInv => TypeOK
  BY DEF IInv
<1>2. QED
  BY <1>1, Invariant, PTL

(* An action answered with an error has stored nothing but what a commit outcome
   of its own stored: the Rollback of handle_action.go:126 and task_scheduler.go:108. *)
THEOREM FailuresLeaveNothing == Spec => []FailureLeavesNothing
<1>1. IInv => FailureLeavesNothing
  BY DEF IInv, RunInv, StoredInv, FailureLeavesNothing
<1>2. QED
  BY <1>1, Invariant, PTL

(* What an action writes between two ends of its transaction is stored together,
   however it ends, a panic of it or of another task included. *)
THEOREM SegmentsStayTogether == Spec => []SegmentsAreAtomic
<1>1. IInv => SegmentsAreAtomic
  BY DEF IInv, RunInv, AtomicInv, SegmentsAreAtomic
<1>2. QED
  BY <1>1, Invariant, PTL

(* Every write is made for the user that the last SWITCH_USER before it set
   (handle_action.go:449), and none follows a SWITCH_USER that failed. *)
THEOREM SwitchesAreObeyed == Spec => []SwitchIsObeyed
<1>1. ASSUME IInv, NEW r \in Runs, NEW w \in stored[r] \cup work[r],
             NEW f \in {"done", "failed"}
      PROVE  {i \in 1..w.outcome - 1 : Outcomes(r)[i].method = "switch" /\ fate[r][i] = f} =
             {i \in Switches(r, f) : i < w.outcome}
  <2>1. w.outcome \in 1..Len(fate[r]) /\ Len(fate[r]) \in Nat
    BY <1>1, FateIsSequence DEF IInv, RunInv, WorkInv
  <2>2. QED BY <2>1 DEF Switches
<1>2. IInv => SwitchIsObeyed
  <2> SUFFICES ASSUME IInv, NEW r \in Runs, NEW w \in stored[r] \cup work[r]
               PROVE  LET before(f) == {i \in 1..w.outcome - 1 :
                            Outcomes(r)[i].method = "switch" /\ fate[r][i] = f}
                      IN /\ w.user \in before("done") \cup {0}
                         /\ \A i \in before("done") : i <= w.user
                         /\ \A i \in before("failed") : Outcomes(r)[i].continueOnError
    BY DEF SwitchIsObeyed
  <2>1. Obeys(r, w)
    BY DEF IInv, RunInv, SwitchInv
  <2>2. QED BY <1>1, <2>1 DEF Obeys
<1>3. QED
  BY <1>2, Invariant, PTL

(* A success that hides a failed outcome does not exist: the answer of
   handle_action.go:208 holds a response about it or is a page. *)
THEOREM FailuresAreReported == Spec => []FailuresAreNamed
<1>1. IInv => FailuresAreNamed
  BY DEF IInv, RunInv, NamedInv, FailuresAreNamed, PlaceInv
<1>2. QED
  BY <1>1, Invariant, PTL
=============================================================================
