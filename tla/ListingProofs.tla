---------------------------- MODULE ListingProofs ----------------------------
(* What the cache does to permissions and sessions and what the interceptors let
   through, for any rows, permissions, sessions and operations; then what a list and an
   aggregate answer, for any table, query, filter and session, and what the client gets
   who walks from page to page. *)
EXTENDS Listing, FiniteSetTheorems, SequenceTheorems, TLAPS

-----------------------------------------------------------------------------
(* The words of a group are seven, each in its place. *)
LEMMA GroupWordsAre ==
  ASSUME NEW g
  PROVE  /\ Len(GroupWords(g)) = 7
         /\ GroupWords(g)[1] = <<g.group, 1>> /\ GroupWords(g)[3] = <<g.object, 1>>
         /\ GroupWords(g)[5] = <<g.relation, 1>> /\ GroupWords(g)[7] = g.bits
BY DEF GroupWords, IdWords

(* The words of a list of groups: every group has a block of its own. *)
LEMMA GroupListWordsAre ==
  ASSUME NEW groups \in Seq(GroupPermissions)
  PROVE  /\ Len(GroupListWords(groups)) = 7 * Len(groups)
         /\ \A i \in 1 .. Len(groups), j \in 1 .. 7 :
              GroupListWords(groups)[7 * (i - 1) + j] = GroupWords(groups[i])[j]
<1>1. Len(groups) \in Nat
  OBVIOUS
<1>2. Len(GroupListWords(groups)) = 7 * Len(groups)
  BY <1>1 DEF GroupListWords, WordsPerGroup
<1>3. ASSUME NEW i \in 1 .. Len(groups), NEW j \in 1 .. 7
      PROVE  GroupListWords(groups)[7 * (i - 1) + j] = GroupWords(groups[i])[j]
  <2> DEFINE k == 7 * (i - 1) + j
  <2>1. k \in 1 .. 7 * Len(groups)
    BY <1>1
  <2>2. (k - 1) \div 7 + 1 = i /\ ((k - 1) % 7) + 1 = j
    OBVIOUS
  <2> QED BY <2>1, <2>2 DEF GroupListWords, WordsPerGroup
<1> QED BY <1>2, <1>3
(* The words that say who and what come first, in three places. *)
Words(a, b, c, groups) == <<a, b, c>> \o GroupListWords(groups)

(* Where each of them is. *)
LEMMA HeadWords ==
  ASSUME NEW a, NEW b, NEW c, NEW groups \in Seq(GroupPermissions)
  PROVE  /\ Len(groups) \in Nat /\ Len(Words(a, b, c, groups)) = 3 + 7 * Len(groups)
         /\ Words(a, b, c, groups)[1] = a
         /\ Words(a, b, c, groups)[2] = b
         /\ Words(a, b, c, groups)[3] = c
         /\ \A n \in 1 .. 7 * Len(groups) :
              Words(a, b, c, groups)[3 + n] = GroupListWords(groups)[n]
<1> DEFINE w == Words(a, b, c, groups)
<1> DEFINE words == GroupListWords(groups)
<1>1. Len(words) = 7 * Len(groups) /\ Len(groups) \in Nat
  BY GroupListWordsAre
<1>2. words = [n \in 1 .. 7 * Len(groups) |-> words[n]]
  BY DEF GroupListWords, WordsPerGroup
<1> DEFINE S == {words[n] : n \in 1 .. 7 * Len(groups)} \cup {a, b, c}
<1> HIDE DEF words
<1>3. words \in Seq(S) /\ <<a, b, c>> \in Seq(S)
  BY <1>1, <1>2
<1> HIDE DEF S
<1>4. /\ Len(w) = 3 + Len(words)
      /\ \A n \in 1 .. 3 + Len(words) : w[n] = IF n <= 3 THEN <<a, b, c>>[n] ELSE words[n - 3]
  <2>1. w = <<a, b, c>> \o words /\ Len(<<a, b, c>>) = 3
    BY DEF Words, words
  <2> HIDE DEF w
  <2> QED BY <1>3, <2>1, ConcatProperties
<1> HIDE DEF w
<1>5. Len(w) = 3 + 7 * Len(groups) /\ w[1] = a /\ w[2] = b /\ w[3] = c
  BY <1>1, <1>4
<1>6. ASSUME NEW n \in 1 .. 7 * Len(groups) PROVE w[3 + n] = words[n]
  <2>1. 3 + n \in 1 .. 3 + Len(words) /\ ~(3 + n <= 3) /\ 3 + n - 3 = n
    BY <1>1
  <2> QED BY <1>4, <2>1
<1> QED BY <1>1, <1>5, <1>6 DEF words, w

(* Reading from one word to another. *)
LEMMA WordsBetween ==
  ASSUME NEW w, NEW first \in Nat, NEW length \in Nat
  PROVE  /\ Len(SubSeq(w, first + 1, first + length)) = length
         /\ \A j \in 1 .. length : SubSeq(w, first + 1, first + length)[j] = w[first + j]
<1> DEFINE S == {w[k] : k \in first + 1 .. first + length}
<1>1. \A k \in first + 1 .. first + length : w[k] \in S
  OBVIOUS
<1> HIDE DEF S
<1>2. /\ Len(SubSeq(w, first + 1, first + length))
             = IF first + 1 <= first + length THEN first + length - (first + 1) + 1 ELSE 0
      /\ \A j \in 1 .. first + length - (first + 1) + 1 :
           SubSeq(w, first + 1, first + length)[j] = w[first + 1 + j - 1]
  BY <1>1, SubSeqProperties
<1>3. first + length - (first + 1) + 1 = length /\ \A j \in 1 .. length : first + 1 + j - 1 = first + j
  OBVIOUS
<1>4. ASSUME length = 0 PROVE ~(first + 1 <= first + length)
  BY <1>4
<1> QED BY <1>2, <1>3, <1>4

(* So many words are that many blocks. *)
LEMMA Blocks == \A n \in Nat : (7 * n) \div 7 = n
OBVIOUS

(* A block that is read gives back the group it was written from. *)
LEMMA BlockIsGroup ==
  ASSUME NEW g \in GroupPermissions, NEW w, Len(w) = 7, \A j \in 1 .. 7 : w[j] = GroupWords(g)[j]
  PROVE  GroupOf(w) = g
BY GroupWordsAre DEF GroupOf, GroupPermissions

(* What was cached comes back as it was: CanPeek and the others decide about a cached
   permission as about the one that was read from the database. *)
THEOREM CachedIsSame == \A p \in PermissionInstances : Cached(p) = p
<1> SUFFICES ASSUME NEW p \in PermissionInstances PROVE Unmarshal(Marshal(p)) = p
  BY DEF Cached
<1> DEFINE w == Marshal(p)
           n == Len(p.groups)
           rest == SubSeq(w, 4, Len(w))
<1>1. p.groups \in Seq(GroupPermissions) /\ n \in Nat
  BY DEF PermissionInstances
<1>2. w = Words(<<p.owner, 1>>, <<p.owner, 2>>, p.bits, p.groups)
  BY DEF Marshal, IdWords, Words
<1> HIDE DEF w
<1>3. /\ Len(w) = 3 + 7 * n /\ w[1] = <<p.owner, 1>> /\ w[3] = p.bits
      /\ \A m \in 1 .. 7 * n : w[3 + m] = GroupListWords(p.groups)[m]
  BY <1>1, <1>2, HeadWords
<1>4. /\ Len(rest) = 7 * n
      /\ \A m \in 1 .. 7 * n : rest[m] = GroupListWords(p.groups)[m]
  <2>1. rest = SubSeq(w, 3 + 1, 3 + 7 * n) /\ 7 * n \in Nat
    BY <1>1, <1>3
  <2>2. Len(rest) = 7 * n /\ \A m \in 1 .. 7 * n : rest[m] = w[3 + m]
    <3> HIDE DEF rest
    <3> QED BY <2>1, WordsBetween
  <2> QED BY <1>3, <2>2
<1> DEFINE block(i) == SubSeq(rest, (i - 1) * WordsPerGroup + 1, i * WordsPerGroup)
<1>5. ASSUME NEW i \in 1 .. n PROVE GroupOf(block(i)) = p.groups[i]
  <2>1. (i - 1) * WordsPerGroup + 1 = 7 * (i - 1) + 1 /\ i * WordsPerGroup = 7 * i
        /\ 7 * (i - 1) + 1 \in 1 .. 7 * n /\ 7 * i \in 1 .. 7 * n
    BY <1>1 DEF WordsPerGroup
  <2>2. /\ Len(block(i)) = 7
        /\ \A j \in 1 .. 7 : block(i)[j] = rest[7 * (i - 1) + j]
    <3> DEFINE first == 7 * (i - 1)
    <3>1. first \in Nat /\ 7 * i = first + 7
      BY <1>1
    <3>2. block(i) = SubSeq(rest, first + 1, first + 7)
      BY <2>1, <3>1
    <3> HIDE DEF rest, block, first
    <3>3. Len(block(i)) = 7 /\ \A j \in 1 .. 7 : block(i)[j] = rest[first + j]
      BY <3>1, <3>2, WordsBetween
    <3> QED BY <3>3 DEF first
  <2>3. \A j \in 1 .. 7 : block(i)[j] = GroupWords(p.groups[i])[j]
    <3> HIDE DEF rest, block
    <3> SUFFICES ASSUME NEW j \in 1 .. 7 PROVE block(i)[j] = GroupWords(p.groups[i])[j]
      OBVIOUS
    <3>1. 7 * (i - 1) + j \in 1 .. 7 * n
      BY <1>1
    <3> QED BY <1>1, <1>4, <2>2, <3>1, GroupListWordsAre
  <2>4. p.groups[i] \in GroupPermissions
    BY <1>1
  <2> HIDE DEF rest, block
  <2> QED BY <2>2, <2>3, <2>4, BlockIsGroup
<1>6. Len(rest) \div WordsPerGroup = n
  <2> HIDE DEF rest
  <2> QED BY <1>1, <1>4, Blocks DEF WordsPerGroup
<1>7. Unmarshal(w) = Permission(w[1][1], w[3], [i \in 1 .. n |-> GroupOf(block(i))])
  BY <1>6 DEF Unmarshal
<1>8. [i \in 1 .. n |-> GroupOf(block(i))] = p.groups
  <2> HIDE DEF rest, block
  <2> QED BY <1>1, <1>5
<1>9. p = Permission(p.owner, p.bits, p.groups)
  BY DEF PermissionInstances, Permission
<1>10. Unmarshal(w) = p
  <2> HIDE DEF rest, block
  <2>1. w[1][1] = p.owner
    BY <1>3
  <2> QED BY <1>3, <1>7, <1>8, <1>9, <2>1
<1> QED BY <1>10 DEF w

(* A session comes out of the cache as it went in. *)
THEOREM CachedSessionIsSame == \A s \in SessionUsers : UnmarshalSession(MarshalSession(s)) = s
<1> SUFFICES ASSUME NEW s \in SessionUsers PROVE UnmarshalSession(MarshalSession(s)) = s
  OBVIOUS
<1> DEFINE w == MarshalSession(s)
           n == Len(s.groups)
<1>1. s.groups \in Seq(GroupPermissions) /\ n \in Nat
  BY DEF SessionUsers
<1>2. w = Words(s.id, <<s.user, 1>>, <<s.user, 2>>, s.groups)
  BY DEF MarshalSession, IdWords, Words
<1> HIDE DEF w
<1>3. /\ Len(w) = 3 + 7 * n /\ w[1] = s.id /\ w[2] = <<s.user, 1>>
      /\ \A m \in 1 .. 7 * n : w[3 + m] = GroupListWords(s.groups)[m]
  BY <1>1, <1>2, HeadWords
<1> DEFINE block(i) == SubSeq(w, 4 + (i - 1) * WordsPerGroup, 3 + i * WordsPerGroup)
<1>4. ASSUME NEW i \in 1 .. n PROVE GroupOf(block(i)) = s.groups[i]
  <2> DEFINE first == 7 * (i - 1)
  <2>1. /\ first \in Nat /\ 3 + first \in Nat
        /\ 4 + (i - 1) * WordsPerGroup = 3 + first + 1 /\ 3 + i * WordsPerGroup = 3 + first + 7
    BY <1>1 DEF WordsPerGroup
  <2>2. block(i) = SubSeq(w, 3 + first + 1, 3 + first + 7)
    BY <2>1
  <2> HIDE DEF block, first
  <2>3. Len(block(i)) = 7 /\ \A j \in 1 .. 7 : block(i)[j] = w[3 + first + j]
    BY <2>1, <2>2, WordsBetween
  <2>4. \A j \in 1 .. 7 : block(i)[j] = GroupWords(s.groups[i])[j]
    <3> SUFFICES ASSUME NEW j \in 1 .. 7 PROVE block(i)[j] = GroupWords(s.groups[i])[j]
      OBVIOUS
    <3>1. first + j \in 1 .. 7 * n /\ 3 + first + j = 3 + (first + j)
      BY <1>1 DEF first
    <3>2. block(i)[j] = GroupListWords(s.groups)[first + j]
      BY <1>3, <2>3, <3>1
    <3> QED BY <1>1, <3>2, GroupListWordsAre DEF first
  <2>5. s.groups[i] \in GroupPermissions
    BY <1>1
  <2> QED BY <2>3, <2>4, <2>5, BlockIsGroup
<1>5. (Len(w) - 3) \div WordsPerGroup = n
  <2>1. Len(w) - 3 = 7 * n /\ WordsPerGroup = 7
    BY <1>1, <1>3 DEF WordsPerGroup
  <2> QED BY <1>1, <2>1, Blocks
<1>6. UnmarshalSession(w) = [id |-> w[1], user |-> w[2][1], groups |-> [i \in 1 .. n |-> GroupOf(block(i))]]
  BY <1>5 DEF UnmarshalSession
<1>7. [i \in 1 .. n |-> GroupOf(block(i))] = s.groups
  <2> HIDE DEF block
  <2> QED BY <1>1, <1>4
<1>8. s = [id |-> s.id, user |-> s.user, groups |-> s.groups]
  BY DEF SessionUsers
<1>9. UnmarshalSession(w) = s
  <2> HIDE DEF block
  <2>1. w[1] = s.id /\ w[2][1] = s.user
    BY <1>3
  <2> QED BY <1>6, <1>7, <1>8, <2>1
<1> QED BY <1>9 DEF w
-----------------------------------------------------------------------------
(* The loop after the handler. *)

(* Its two maps hold what it decided, and it has kept what is answerable among the rows
   it has passed. *)
Decided(request, ref) == ObjectAllowsAfter(request.op, request.rows[ref], request.session)

LoopInv ==
  /\ next \in 1 .. Len(asked.after) + 1
  /\ included \subseteq {ref \in References : Decided(asked, ref)}
  /\ notIncluded \subseteq {ref \in References : ~Decided(asked, ref)}
  /\ returnMap \in Seq(Rows)
  /\ FilteredTo(returnMap, asked, next - 1)

AccessInv ==
  /\ asked \in Asked
  /\ stage \in {"table", "object", "handler", "tableAfter", "objectAfter", "answered", "forbidden"}
  /\ stage \in {"handler", "tableAfter"} => NoLoop
  /\ stage = "objectAfter" => LoopInv
  /\ AnswerIsFiltered

(* A request is made of what the constants say. *)
LEMMA AskedParts ==
  ASSUME asked \in Asked
  PROVE  /\ asked.op.method \in Methods /\ asked.session \in SessionUsers
         /\ asked.table \in PermissionInstances
         /\ asked.rows \in [References -> PermissionInstances]
         /\ asked.after \in Seq(Rows)
         /\ Session = asked.session
         /\ \A ref \in References : Cached(asked.rows[ref]) = asked.rows[ref]
<1>1. /\ asked.op \in Operations /\ asked.session \in Sessions
      /\ asked.table \in TablePermissions /\ asked.rows \in RowPermissions
      /\ asked.after \in RowLists
  BY DEF Asked
<1>2. /\ asked.op \in [method : Methods, relationship : BOOLEAN] /\ asked.session \in SessionUsers
      /\ asked.table \in PermissionInstances
      /\ asked.rows \in [References -> PermissionInstances]
      /\ asked.after \in Seq(Rows)
  BY <1>1, AccessAssumption
<1>3. Session = asked.session
  BY <1>2, CachedSessionIsSame DEF Session
<1>4. \A ref \in References : Cached(asked.rows[ref]) = asked.rows[ref]
  BY <1>2, CachedIsSame
<1> QED BY <1>2, <1>3, <1>4

(* Before the first row there is nothing to keep. *)
LEMMA NothingKept == \A request : FilteredTo(<<>>, request, 0)
<1>1. DOMAIN <<>> = {} /\ 1 .. 0 = {}
  OBVIOUS
<1>2. [i \in {} |-> i] \in [DOMAIN <<>> -> 1 .. 0]
  BY <1>1
<1> QED BY <1>1, <1>2 DEF FilteredTo

(* One more row that is kept. *)
LEMMA KeepsOne ==
  ASSUME NEW rows \in Seq(Rows), NEW request, NEW n \in Nat, FilteredTo(rows, request, n),
         request.after \in Seq(Rows), n + 1 \in 1 .. Len(request.after),
         Answerable(request, request.after[n + 1])
  PROVE  FilteredTo(Append(rows, request.after[n + 1]), request, n + 1)
<1> DEFINE longer == Append(rows, request.after[n + 1])
<1>1. /\ Len(rows) \in Nat /\ DOMAIN rows = 1 .. Len(rows) /\ DOMAIN longer = 1 .. Len(rows) + 1
      /\ \A i \in 1 .. Len(rows) : longer[i] = rows[i]
      /\ longer[Len(rows) + 1] = request.after[n + 1]
  OBVIOUS
<1>2. PICK at \in [DOMAIN rows -> 1 .. n] :
        /\ \A i, j \in DOMAIN rows : i < j => at[i] < at[j]
        /\ \A k \in 1 .. n : Answerable(request, request.after[k]) <=> \E i \in DOMAIN rows : at[i] = k
        /\ \A i \in DOMAIN rows : rows[i] = request.after[at[i]]
  BY DEF FilteredTo
<1> DEFINE at2 == [i \in DOMAIN longer |-> IF i \in DOMAIN rows THEN at[i] ELSE n + 1]
<1> HIDE DEF longer
<1>3. at2 \in [DOMAIN longer -> 1 .. n + 1]
  BY <1>1, <1>2
<1>4. \A i, j \in DOMAIN longer : i < j => at2[i] < at2[j]
  BY <1>1, <1>2
<1>5. \A k \in 1 .. n + 1 : Answerable(request, request.after[k]) <=> \E i \in DOMAIN longer : at2[i] = k
  <2> SUFFICES ASSUME NEW k \in 1 .. n + 1
               PROVE  Answerable(request, request.after[k]) <=> \E i \in DOMAIN longer : at2[i] = k
    OBVIOUS
  <2>1. CASE k = n + 1
    BY <1>1, <2>1
  <2>2. CASE k \in 1 .. n
    BY <1>1, <1>2, <2>2
  <2> QED BY <2>1, <2>2
<1>6. \A i \in DOMAIN longer : longer[i] = request.after[at2[i]]
  BY <1>1, <1>2
<1> HIDE DEF at2
<1>7. FilteredTo(longer, request, n + 1)
  BY <1>3, <1>4, <1>5, <1>6 DEF FilteredTo
<1> QED BY <1>7 DEF longer

(* One more row that is dropped. *)
LEMMA DropsOne ==
  ASSUME NEW rows \in Seq(Rows), NEW request, NEW n \in Nat, FilteredTo(rows, request, n), ~Answerable(request, request.after[n + 1])
  PROVE  FilteredTo(rows, request, n + 1)
<1>1. PICK at \in [DOMAIN rows -> 1 .. n] :
        /\ \A i, j \in DOMAIN rows : i < j => at[i] < at[j]
        /\ \A k \in 1 .. n : Answerable(request, request.after[k]) <=> \E i \in DOMAIN rows : at[i] = k
        /\ \A i \in DOMAIN rows : rows[i] = request.after[at[i]]
  BY DEF FilteredTo
<1>2. at \in [DOMAIN rows -> 1 .. n + 1]
  OBVIOUS
<1>3. \A k \in 1 .. n + 1 : Answerable(request, request.after[k]) <=> \E i \in DOMAIN rows : at[i] = k
  <2> SUFFICES ASSUME NEW k \in 1 .. n + 1
               PROVE  Answerable(request, request.after[k]) <=> \E i \in DOMAIN rows : at[i] = k
    OBVIOUS
  <2>1. CASE k = n + 1
    <3>1. \A i \in DOMAIN rows : at[i] # n + 1
      BY <1>1
    <3> QED BY <2>1, <3>1
  <2>2. CASE k \in 1 .. n
    BY <1>1, <2>2
  <2> QED BY <2>1, <2>2
<1> QED BY <1>1, <1>2, <1>3 DEF FilteredTo

(* One turn decides about one row, as was decided for its reference id before. *)
LEMMA TurnKeepsLoop ==
  ASSUME AccessInv, ObjectAfterRow
  PROVE  LoopInv'
<1> DEFINE row == asked.after[next]
<1>1. /\ stage = "objectAfter" /\ next <= Len(asked.after) /\ asked' = asked
      /\ Turn(row, "file", ObjectAllowsAfter(asked.op, PermissionOf(row), Session))
      /\ LoopInv /\ asked \in Asked
  BY DEF ObjectAfterRow, AccessInv
<1>2. asked.after \in Seq(Rows) /\ next \in 1 .. Len(asked.after)
  BY <1>1, AskedParts DEF LoopInv
<1>3. row \in Rows /\ row.ref \in References
  <2>1. row \in Rows
    BY <1>2
  <2> QED BY <2>1 DEF Rows
<1>4. ObjectAllowsAfter(asked.op, PermissionOf(row), Session) = Decided(asked, row.ref)
  BY <1>1, <1>3, AskedParts DEF PermissionOf, Decided
<1>5. Answerable(asked, row) <=> row.type # "nil" /\ (row.type = "file" \/ Decided(asked, row.ref))
  BY DEF Answerable, Decided, ObjectAllowsAfter, CanRead, CanPeek
<1>6. next' = next + 1 /\ next' \in 1 .. Len(asked'.after) + 1
      /\ next - 1 \in Nat /\ (next - 1) + 1 = next /\ next' - 1 = next
  BY <1>1, <1>2 DEF Turn
<1>7. returnMap \in Seq(Rows) /\ FilteredTo(returnMap, asked, next - 1)
  BY <1>1 DEF LoopInv
<1> HIDE DEF row
<1>8. CASE Answerable(asked, row)
  <2>1. row.ref \notin notIncluded \/ row.type = "file"
    BY <1>1, <1>5, <1>8 DEF LoopInv
  <2>2. returnMap' = Append(returnMap, row) /\ UNCHANGED notIncluded
        /\ included' = IF row.type = "file" THEN included ELSE included \cup {row.ref}
    BY <1>1, <1>4, <1>5, <1>8, <2>1 DEF Turn
  <2>3. FilteredTo(returnMap', asked, next)
    BY <1>2, <1>6, <1>7, <1>8, <2>2, KeepsOne DEF row
  <2> QED BY <1>1, <1>3, <1>5, <1>6, <1>7, <1>8, <2>2, <2>3
          DEF LoopInv
<1>9. CASE ~Answerable(asked, row)
  <2>1. row.ref \notin included \/ row.type = "nil"
    BY <1>1, <1>5, <1>9 DEF LoopInv
  <2>2. /\ UNCHANGED <<returnMap, included>>
        /\ notIncluded' \in {notIncluded, notIncluded \cup {row.ref}}
        /\ notIncluded' # notIncluded => ~Decided(asked, row.ref)
    BY <1>1, <1>4, <1>5, <1>9, <2>1 DEF Turn
  <2>3. FilteredTo(returnMap', asked, next)
    BY <1>6, <1>7, <1>9, <2>2, DropsOne DEF row
  <2> QED BY <1>1, <1>3, <1>6, <1>7, <2>2, <2>3
          DEF LoopInv
<1> QED BY <1>8, <1>9

(* Every step keeps what the loop knows. *)
LEMMA NextAccessInv == ASSUME AccessInv, [AccessNext]_accessVars PROVE AccessInv'
<1> USE DEF AccessInv, AnswerIsFiltered
<1>1. CASE Table
  BY <1>1 DEF Table
<1>2. CASE ObjectRow
  BY <1>2 DEF ObjectRow
<1>3. CASE ObjectEnds
  BY <1>3 DEF ObjectEnds, LoopStarts, NoLoop
<1>4. CASE Handle
  BY <1>4 DEF Handle, NoLoop
<1>5. CASE TableAfter
  <2>1. asked' = asked /\ returnMap' = <<>> /\ next' = 1 /\ included' = {} /\ notIncluded' = {}
    BY <1>5 DEF TableAfter, NoLoop
  <2>2. LoopInv'
    <3>1. FilteredTo(returnMap', asked, 0)
      BY <2>1, NothingKept
    <3>2. asked.after \in Seq(Rows)
      BY AskedParts
    <3> QED BY <2>1, <3>1, <3>2 DEF LoopInv
  <2> QED BY <1>5, <2>2 DEF TableAfter
<1>6. CASE ObjectAfterRow
  <2>1. LoopInv'
    BY <1>6, TurnKeepsLoop
  <2> QED BY <1>6, <2>1 DEF ObjectAfterRow
<1>7. CASE ObjectAfterEnds
  <2>1. asked' = asked /\ stage = "objectAfter" /\ stage' = "answered" /\ LoopInv /\ asked \in Asked
    BY <1>7 DEF ObjectAfterEnds
  <2>2. Session = asked.session /\ asked.after \in Seq(Rows)
    BY <2>1, AskedParts
  <2>3. CASE InAdminGroup(asked.session) \/ asked.op.method = "DELETE"
    <3>1. returnMap' = asked.after
      BY <1>7, <2>2, <2>3 DEF ObjectAfterEnds, AfterSkipped
    <3> QED BY <2>1, <2>3, <3>1
  <2>4. CASE ~(InAdminGroup(asked.session) \/ asked.op.method = "DELETE")
    <3>1. returnMap' = returnMap /\ next > Len(asked.after)
      BY <1>7, <2>2, <2>4 DEF ObjectAfterEnds, AfterSkipped
    <3>2. next - 1 = Len(asked.after) /\ FilteredTo(returnMap, asked, next - 1)
      BY <2>1, <2>2, <3>1 DEF LoopInv
    <3> QED BY <2>1, <2>4, <3>1, <3>2
  <2> QED BY <2>3, <2>4
<1>8. CASE UNCHANGED accessVars
  BY <1>8 DEF accessVars, NoLoop, LoopInv
<1> QED BY <1>1, <1>2, <1>3, <1>4, <1>5, <1>6, <1>7, <1>8 DEF AccessNext

(* What is answered is exactly what the session may see of what the handler found, in
   its order, whatever the two maps and the cache have been used for. *)
THEOREM AnswersAreFiltered == AccessSpec => []AnswerIsFiltered
<1>1. AccessInit => AccessInv
  BY DEF AccessInit, AccessInv, AnswerIsFiltered
<1>2. AccessInv => AnswerIsFiltered
  BY DEF AccessInv
<1> QED BY <1>1, <1>2, NextAccessInv, PTL DEF AccessSpec

-----------------------------------------------------------------------------
(* Filters. An operator of goqu that the list translates becomes itself. *)
LEMMA OperatorsKept ==
  ASSUME NEW op \in GoquOperators \cup {"=", "not"}, op \in DOMAIN OperatorMap
  PROVE  OperatorMap[op] = op
<1>1. op \in {"like", "is", "eq", "neq", "in"}
  BY DEF OperatorMap, GoquOperators
<1> QED BY <1>1 DEF OperatorMap

(* No operator of goqu, nor "=" or "not", is one of two words. *)
LEMMA NotTwoWords ==
  ASSUME NEW op \in GoquOperators \cup {"=", "not"}
  PROVE  op \notin DOMAIN TwoWords
BY DEF TwoWords, GoquOperators

(* Where a list and an aggregate both accept a filter, and it is none of the three
   that they read differently, they make the same condition of it. *)
LEMMA SameCondition ==
  ASSUME NEW f, f.op \notin {"in", "notin", "is"},
         addFilter(f) # Error, BuildWhereClause(f) # Error
  PROVE  f.known /\ addFilter(f) = BuildWhereClause(f)
<1>0. f.known
  BY DEF addFilter
<1>1. f.op \in GoquOperators \cup {"=", "not"}
  BY DEF BuildWhereClause, GoquOperators
<1> DEFINE op == IF f.op \in DOMAIN OperatorMap THEN OperatorMap[f.op] ELSE f.op
<1>2. op = f.op
  BY <1>1, OperatorsKept
<1>3. op \notin DOMAIN TwoWords
  BY <1>1, <1>2, NotTwoWords
<1>4. addFilter(f) = IF f.op \in {"is", "="} THEN Equals(f.value)
                     ELSE IF f.op = "not" THEN Differs(f.value)
                     ELSE IF f.op \in GoquOperators THEN Is(f.op, f.value) ELSE Error
  BY <1>0, <1>2, <1>3 DEF addFilter
<1>5. CASE f.value = Null
  <2>1. f.op = "not" /\ BuildWhereClause(f) = Differs(Null)
    BY <1>5 DEF BuildWhereClause
  <2> QED BY <2>1, <1>0, <1>4, <1>5
<1>6. CASE f.value # Null
  <2>1. BuildWhereClause(f) = IF f.op \in {"in", "notin", "="} THEN Equals(f.value)
                              ELSE IF f.op = "not" THEN Differs(f.value)
                              ELSE IF f.op \in GoquOperators THEN Is(f.op, f.value) ELSE Error
    BY <1>6 DEF BuildWhereClause
  <2> QED BY <2>1, <1>0, <1>4
<1> QED BY <1>5, <1>6

(* The rows that a filter finds, and their groups, by key. *)
Found(f, rows) == {i \in DOMAIN rows : Satisfies(addFilter(f), rows[i].value)}
GroupOfKey(f, rows, k) ==
  [key |-> k, count |-> Cardinality({i \in Found(f, rows) : rows[i].key = k})]

(* What an aggregate answers of such a filter: the number, or the groups. *)
LEMMA StatsOfFound ==
  ASSUME NEW f, NEW rows, f.op \notin {"in", "notin", "is"},
         addFilter(f) # Error, BuildWhereClause(f) # Error
  PROVE  /\ DataStats(rows, f, FALSE) = {[key |-> Null, count |-> Cardinality(Found(f, rows))]}
         /\ DataStats(rows, f, TRUE) = {GroupOfKey(f, rows, rows[i].key) : i \in Found(f, rows)}
<1>1. f.known /\ addFilter(f) = BuildWhereClause(f)
  BY SameCondition
<1>2. Found(f, rows) = {i \in DOMAIN rows : Satisfies(BuildWhereClause(f), rows[i].value)}
  BY <1>1 DEF Found
<1> HIDE DEF Found
<1> QED BY <1>1, <1>2 DEF DataStats, GroupOfKey

(* An aggregate and a list agree, whatever the table and the filters are. *)
LEMMA AggregateAlwaysAgrees == AggregateAgrees
<1> SUFFICES ASSUME NEW f \in query.filters, f.op \notin {"in", "notin", "is"},
                    addFilter(f) # Error, BuildWhereClause(f) # Error
             PROVE  LET found == Found(f, content)
                        groups == DataStats(content, f, TRUE)
                    IN  /\ DataStats(content, f, FALSE) = {[key |-> Null, count |-> Cardinality(found)]}
                        /\ \E group \in [found -> groups] :
                             \A g \in groups : Cardinality({i \in found : group[i] = g}) = g.count
  BY DEF AggregateAgrees, Found
<1> DEFINE found == Found(f, content)
<1> DEFINE of(k) == GroupOfKey(f, content, k)
<1> DEFINE group == [i \in found |-> of(content[i].key)]
<1>1. /\ DataStats(content, f, FALSE) = {[key |-> Null, count |-> Cardinality(found)]}
      /\ DataStats(content, f, TRUE) = {of(content[i].key) : i \in found}
  BY StatsOfFound, ZenonT(30)
<1>2. group \in [found -> DataStats(content, f, TRUE)]
  BY <1>1
<1>3. ASSUME NEW g \in DataStats(content, f, TRUE)
      PROVE  Cardinality({i \in found : group[i] = g}) = g.count
  <2>1. PICK j \in found : g = of(content[j].key)
    BY <1>1
  <2>2. \A k : of(k).key = k
    BY DEF GroupOfKey
  <2>3. {i \in found : group[i] = g} = {i \in found : content[i].key = content[j].key}
    BY <2>1, <2>2
  <2> QED BY <2>1, <2>3 DEF GroupOfKey
<1> QED BY <1>1, <1>2, <1>3

(* For the filters that both know in the same meaning, the aggregate counts what the
   list of an administrator finds, and each row in one of the groups. *)
THEOREM AggregatesAgree == ListSpec => []AggregateAgrees
BY AggregateAlwaysAgrees, PTL

-----------------------------------------------------------------------------
(* The place of x in S, in the order of k: how many elements come no later. *)
NoLater(S, k, x) == {y \in S : k[y] <= k[x]}
Rank(S, k, x) == Cardinality(NoLater(S, k, x))

(* Elements with different keys have different places, from the first to the last,
   in the order of the keys, and every place is taken. *)
LEMMA RanksAre ==
  ASSUME NEW S, IsFiniteSet(S), NEW k, \A x \in S : k[x] \in Int,
         \A x, y \in S : k[x] = k[y] => x = y
  PROVE  /\ Cardinality(S) \in Nat
         /\ \A x \in S : Rank(S, k, x) \in 1 .. Cardinality(S)
         /\ \A x, y \in S : k[x] < k[y] => Rank(S, k, x) < Rank(S, k, y)
         /\ \A n \in 1 .. Cardinality(S) : \E x \in S : Rank(S, k, x) = n
<1>1. Cardinality(S) \in Nat
  BY FS_CardinalityType
<1>2. ASSUME NEW x \in S
      PROVE  IsFiniteSet(NoLater(S, k, x)) /\ Rank(S, k, x) \in 1 .. Cardinality(S)
  <2>1. NoLater(S, k, x) \in SUBSET S /\ x \in NoLater(S, k, x)
    BY DEF NoLater
  <2>2. IsFiniteSet(NoLater(S, k, x)) /\ Cardinality(NoLater(S, k, x)) <= Cardinality(S)
    BY <2>1, FS_Subset
  <2>3. Cardinality(NoLater(S, k, x)) \in Nat /\ Cardinality(NoLater(S, k, x)) # 0
    BY <2>1, <2>2, FS_CardinalityType, FS_EmptySet
  <2> QED BY <1>1, <2>2, <2>3 DEF Rank
<1>3. ASSUME NEW x \in S, NEW y \in S, k[x] < k[y]
      PROVE  Rank(S, k, x) < Rank(S, k, y)
  <2>1. NoLater(S, k, x) \in SUBSET NoLater(S, k, y) /\ y \notin NoLater(S, k, x)
        /\ y \in NoLater(S, k, y)
    BY <1>3 DEF NoLater
  <2>2. Cardinality(NoLater(S, k, x)) <= Cardinality(NoLater(S, k, y))
        /\ Cardinality(NoLater(S, k, x)) # Cardinality(NoLater(S, k, y))
    BY <1>2, <2>1, FS_Subset
  <2> QED BY <1>2, <2>2 DEF Rank
<1>4. \A n \in 1 .. Cardinality(S) : \E x \in S : Rank(S, k, x) = n
  <2> DEFINE T == 1 .. Cardinality(S)
  <2> DEFINE f == [x \in S |-> Rank(S, k, x)]
  <2>1. f \in [S -> T]
    BY <1>2
  <2>2. ASSUME NEW x \in S, NEW y \in S, f[x] = f[y]
        PROVE  x = y
    <3>1. Rank(S, k, x) = Rank(S, k, y) /\ Rank(S, k, x) \in Int
      BY <2>2, <1>1, <1>2
    <3>2. ~(k[x] < k[y]) /\ ~(k[y] < k[x])
      BY <3>1, <1>3, <1>1, <1>2
    <3>3. k[x] = k[y]
      BY <3>2
    <3> QED BY <3>3
  <2>3. f \in Injection(S, T)
    BY <2>1, <2>2 DEF Injection, IsInjective
  <2>4. IsFiniteSet(T) /\ Cardinality(T) = Cardinality(S)
    BY <1>1, FS_Interval
  <2>5. f \in Surjection(S, T)
    BY <2>3, <2>4, FS_Injection
  <2> QED BY <2>5 DEF Surjection
<1> QED BY <1>1, <1>2, <1>3, <1>4

(* In a sequence of all elements in the order of their keys, the n-th has place n. *)
LEMMA SortedByRank ==
  ASSUME NEW S, IsFiniteSet(S), NEW k, \A x \in S : k[x] \in Int,
         \A x, y \in S : k[x] = k[y] => x = y,
         NEW s \in [1 .. Cardinality(S) -> S],
         \A i, j \in 1 .. Cardinality(S) : i # j => s[i] # s[j],
         \A i, j \in 1 .. Cardinality(S) : i < j => k[s[i]] <= k[s[j]]
  PROVE  \A n \in 1 .. Cardinality(S) : Rank(S, k, s[n]) = n
<1> DEFINE N == Cardinality(S)
<1>1. N \in Nat
  BY FS_CardinalityType
<1>2. s \in Surjection(1 .. N, S)
  <2>1. s \in Injection(1 .. N, S)
    BY DEF Injection, IsInjective
  <2>2. Cardinality(1 .. N) = N
    BY <1>1, FS_Interval
  <2> QED BY <2>1, <2>2, FS_Injection
<1> SUFFICES ASSUME NEW n \in 1 .. N PROVE Rank(S, k, s[n]) = n
  OBVIOUS
<1> DEFINE t == [i \in 1 .. n |-> s[i]]
<1>3. t \in [1 .. n -> NoLater(S, k, s[n])]
  <2> SUFFICES ASSUME NEW i \in 1 .. n PROVE s[i] \in NoLater(S, k, s[n])
    OBVIOUS
  <2>1. i \in 1 .. N /\ (i < n \/ i = n) /\ s[i] \in S /\ s[n] \in S
    BY <1>1
  <2>2. k[s[i]] <= k[s[n]]
    BY <2>1
  <2> QED BY <2>1, <2>2 DEF NoLater
<1>4. t \in Injection(1 .. n, NoLater(S, k, s[n]))
  BY <1>1, <1>3 DEF Injection, IsInjective
<1>5. ASSUME NEW y \in NoLater(S, k, s[n])
      PROVE  \E i \in 1 .. n : t[i] = y
  <2>1. PICK i \in 1 .. N : s[i] = y
    BY <1>2 DEF Surjection, NoLater
  <2>2. k[s[i]] <= k[s[n]] /\ i \in Int /\ n \in Int
    BY <1>1, <2>1 DEF NoLater
  <2>3. i <= n
    <3> SUFFICES ASSUME n < i PROVE FALSE
      BY <2>2
    <3>1. k[s[n]] <= k[s[i]] /\ s[n] # s[i] /\ s[n] \in S /\ s[i] \in S
      BY <1>1
    <3> QED BY <2>2, <3>1
  <2> QED BY <2>1, <2>3
<1>6. t \in Bijection(1 .. n, NoLater(S, k, s[n]))
  BY <1>3, <1>4, <1>5 DEF Bijection, Surjection
<1>7. Cardinality(NoLater(S, k, s[n])) = Cardinality(1 .. n)
  BY <1>1, <1>6, FS_Interval, FS_Bijection DEF ExistsBijection
<1> QED BY <1>1, <1>7, FS_Interval DEF Rank

(* Nth goes through a finite set of numbers from the least to the greatest. *)
LEMMA NthIs ==
  ASSUME NEW S, IsFiniteSet(S), S \subseteq Int
  PROVE  /\ Cardinality(S) \in Nat
         /\ \A n \in 1 .. Cardinality(S) : Nth(S, n) \in S
         /\ \A m, n \in 1 .. Cardinality(S) : m < n => Nth(S, m) < Nth(S, n)
         /\ \A x \in S : \E n \in 1 .. Cardinality(S) : Nth(S, n) = x
<1> DEFINE k == [x \in S |-> x]
<1>1. \A x \in S : k[x] \in Int /\ k[x] = x
  OBVIOUS
<1>2. /\ Cardinality(S) \in Nat
      /\ \A x \in S : Rank(S, k, x) \in 1 .. Cardinality(S)
      /\ \A x, y \in S : k[x] < k[y] => Rank(S, k, x) < Rank(S, k, y)
      /\ \A n \in 1 .. Cardinality(S) : \E x \in S : Rank(S, k, x) = n
  <2>1. \A x, y \in S : k[x] = k[y] => x = y
    BY <1>1
  <2> HIDE DEF k
  <2> QED BY <1>1, <2>1, RanksAre
<1>3. ASSUME NEW x \in S
      PROVE  Rank(S, k, x) = Cardinality({y \in S : y <= x})
  <2>1. NoLater(S, k, x) = {y \in S : y <= x}
    BY <1>1 DEF NoLater
  <2> QED BY <2>1 DEF Rank
<1>4. ASSUME NEW n \in 1 .. Cardinality(S)
      PROVE  Nth(S, n) \in S /\ Rank(S, k, Nth(S, n)) = n
  <2>1. \E x \in S : Cardinality({y \in S : y <= x}) = n
    BY <1>2, <1>3
  <2>2. Nth(S, n) \in S /\ Cardinality({y \in S : y <= Nth(S, n)}) = n
    BY <2>1 DEF Nth
  <2> QED BY <2>2, <1>3
<1>a. \A x, y \in S : x < y => Rank(S, k, x) < Rank(S, k, y)
  BY <1>1, <1>2
<1>b. \A x \in S : x \in Int /\ Rank(S, k, x) \in Int
  BY <1>2
<1> HIDE DEF k
<1>5. ASSUME NEW m \in 1 .. Cardinality(S), NEW n \in 1 .. Cardinality(S), m < n
      PROVE  Nth(S, m) < Nth(S, n)
  <2>1. Nth(S, m) \in S /\ Nth(S, n) \in S
        /\ Rank(S, k, Nth(S, m)) = m /\ Rank(S, k, Nth(S, n)) = n
    BY <1>4
  <2>2. Nth(S, n) < Nth(S, m) => n < m
    BY <2>1, <1>a
  <2>3. Nth(S, m) \in Int /\ Nth(S, n) \in Int /\ m \in Int /\ n \in Int
    BY <2>1, <1>b
  <2> QED BY <2>1, <2>2, <2>3, <1>5
<1>6. ASSUME NEW x \in S
      PROVE  \E n \in 1 .. Cardinality(S) : Nth(S, n) = x
  <2> DEFINE n == Rank(S, k, x)
  <2>1. n \in 1 .. Cardinality(S)
    BY <1>2
  <2>2. Nth(S, n) \in S /\ Rank(S, k, Nth(S, n)) = Rank(S, k, x)
    BY <1>4, <2>1
  <2>3. Nth(S, n) \in Int /\ x \in Int /\ Rank(S, k, x) \in Int
    BY <2>2, <1>b
  <2>4. Nth(S, n) = x
    BY <2>2, <2>3, <1>a
  <2> QED BY <2>1, <2>4
<1> QED BY <1>2, <1>4, <1>5, <1>6

(* The rows that are kept, one after the other, each from its place. *)
LEMMA KeptAre ==
  ASSUME NEW q, NEW T, NEW rows \in Seq(T), NEW table
  PROVE  LET S == KeptPlaces(q, rows, table)
             kept == Kept(q, rows, table)
         IN  /\ IsFiniteSet(S) /\ S \subseteq DOMAIN rows
             /\ Cardinality(S) \in Nat /\ Cardinality(S) <= Len(rows)
             /\ kept \in Seq(T) /\ Len(kept) = Cardinality(S)
             /\ \A n \in 1 .. Cardinality(S) : kept[n] = rows[Nth(S, n)] /\ Nth(S, n) \in S
<1> DEFINE S == KeptPlaces(q, rows, table)
<1> DEFINE L == Len(rows)
<1>0. L \in Nat /\ DOMAIN rows = 1 .. L
  OBVIOUS
<1>1. S \in SUBSET (1 .. L)
  BY <1>0 DEF KeptPlaces
<1> HIDE DEF L, S
<1>2. IsFiniteSet(1 .. L) /\ Cardinality(1 .. L) = L
  BY <1>0, FS_Interval
<1>3. IsFiniteSet(S) /\ Cardinality(S) <= L
  BY <1>1, <1>2, FS_Subset
<1>4. Cardinality(S) \in Nat /\ \A n \in 1 .. Cardinality(S) : Nth(S, n) \in S
  <2>1. S \subseteq Int
    BY <1>0, <1>1
  <2> QED BY <2>1, <1>3, NthIs
<1>5. Kept(q, rows, table) = [i \in 1 .. Cardinality(S) |-> rows[Nth(S, i)]]
  BY DEF Kept, S
<1>6. \A n \in 1 .. Cardinality(S) : rows[Nth(S, n)] \in T
  <2>1. \A i \in 1 .. L : rows[i] \in T
    BY DEF L
  <2> QED BY <2>1, <1>1, <1>4
<1>7. Kept(q, rows, table) \in Seq(T) /\ Len(Kept(q, rows, table)) = Cardinality(S)
  BY <1>4, <1>5, <1>6
<1> QED BY <1>0, <1>1, <1>3, <1>4, <1>5, <1>7 DEF S, L

-----------------------------------------------------------------------------
(* Types. What the table is, and what ORDER BY gives. *)
LEMMA ContentIs ==
  ASSUME NEW rows \in Contents
  PROVE  /\ IsFiniteSet(DOMAIN rows) /\ DOMAIN rows \subseteq Nat
         /\ \A i \in DOMAIN rows : rows[i].key \in Int /\ rows[i].near \in Nears
<1>1. \A i \in DOMAIN rows : rows[i].near \in {rows[j].near : j \in DOMAIN rows}
  OBVIOUS
<1>2. {rows[j].near : j \in DOMAIN rows} \in {{c[i].near : i \in DOMAIN c} : c \in Contents}
  OBVIOUS
<1>3. \A i \in DOMAIN rows : rows[i].near \in Nears
  BY <1>1, <1>2 DEF Nears
<1> QED BY <1>3, ListingAssumption

LEMMA OrderedIs ==
  ASSUME NEW q, NEW rows, NEW S, IsFiniteSet(S), NEW s \in Ordered(q, rows, S)
  PROVE  /\ Cardinality(S) \in Nat /\ s \in [1 .. Cardinality(S) -> S]
         /\ s \in Seq(S) /\ Len(s) = Cardinality(S)
         /\ \A i, j \in 1 .. Cardinality(S) : i # j => s[i] # s[j]
         /\ q.sort => \A i, j \in 1 .. Cardinality(S) : i < j => rows[s[i][1]].key <= rows[s[j][1]].key
<1>1. Cardinality(S) \in Nat
  BY FS_CardinalityType
<1>2. s \in [1 .. Cardinality(S) -> S] /\ \A i, j \in 1 .. Cardinality(S) : i # j => s[i] # s[j]
  BY DEF Ordered, SetToSeqs
<1>3. s \in Seq(S) /\ Len(s) = Cardinality(S) /\ DOMAIN s = 1 .. Cardinality(S)
  BY <1>1, <1>2
<1> QED BY <1>1, <1>2, <1>3 DEF Ordered

(* The rows that a list selects, and the pairs its statements read. *)
LEMMA SelectedFinite ==
  ASSUME NEW q, NEW rows \in Contents
  PROVE  /\ IsFiniteSet(Selected(q, rows)) /\ Selected(q, rows) \subseteq DOMAIN rows
         /\ Cardinality(Selected(q, rows)) \in Nat
<1>1. Selected(q, rows) \in SUBSET DOMAIN rows
  BY DEF Selected
<1>2. IsFiniteSet(Selected(q, rows))
  BY <1>1, ContentIs, FS_Subset
<1> QED BY <1>1, <1>2, FS_CardinalityType

Paired(S) == {<<i, 1>> : i \in S}

LEMMA PairedFinite ==
  ASSUME NEW S, IsFiniteSet(S)
  PROVE  IsFiniteSet(Paired(S)) /\ Cardinality(Paired(S)) = Cardinality(S)
<1> DEFINE f == [i \in S |-> <<i, 1>>]
<1>1. f \in Bijection(S, Paired(S))
  BY DEF Bijection, Injection, Surjection, IsInjective, Paired
<1> QED BY <1>1, FS_Bijection DEF ExistsBijection

Copies(q, rows, S) ==
  {c \in (S \cap DOMAIN rows) \X (1 .. Cardinality(q.objects) + 1) : c[2] <= Times(q, rows[c[1]])}

LEMMA CopiesFinite ==
  ASSUME NEW q \in Queries, NEW rows \in Contents, NEW S
  PROVE  IsFiniteSet(Copies(q, rows, S)) /\ Cardinality(q.objects) \in Nat
<1>1. Cardinality(q.objects) \in Nat
  BY ListingAssumption, FS_CardinalityType
<1> DEFINE A == S \cap DOMAIN rows
<1> DEFINE B == 1 .. Cardinality(q.objects) + 1
<1>2. IsFiniteSet(A)
  BY ContentIs, FS_Intersection
<1>3. IsFiniteSet(B)
  BY <1>1, FS_Interval
<1>4. IsFiniteSet(A \X B)
  BY <1>2, <1>3, FS_Product
<1>5. Copies(q, rows, S) \in SUBSET (A \X B)
  BY DEF Copies
<1> QED BY <1>1, <1>4, <1>5, FS_Subset

Size(q) == IF q.size = 0 THEN 1 ELSE q.size

(* A page is a part of the sequence. *)
LEMMA PageIs ==
  ASSUME NEW q \in Queries, NEW number \in Nat, NEW T, NEW s \in Seq(T)
  PROVE  PageOf(q, number, s) \in Seq(T)
<1> DEFINE size == IF q.size = 0 THEN 1 ELSE q.size
<1> DEFINE from == IF Offset(number, size) < 0 THEN 0 ELSE Offset(number, size)
<1> DEFINE to == IF from + size > Len(s) THEN Len(s) ELSE from + size
<1>1. size \in Nat /\ q.cursor \in {"none", "after", "before"}
  BY ListingAssumption
<1>2. Offset(number, size) \in Int
  BY <1>1 DEF Offset
<1>3. from \in Nat /\ to \in Nat /\ to <= Len(s)
  BY <1>1, <1>2
<1>4. SubSeq(s, from + 1, to) \in Seq(T)
  BY <1>3, SubSeqProperties
<1>5. SubSeq(s, 1, IF size > Len(s) THEN Len(s) ELSE size) \in Seq(T)
  BY <1>1, SubSeqProperties
<1>6. <<>> \in Seq(T)
  OBVIOUS
<1>7. /\ q.cursor = "none" => PageOf(q, number, s) = SubSeq(s, from + 1, to)
      /\ q.cursor # "none" /\ q.cursorExists => PageOf(q, number, s) = s
      /\ q.cursor = "after" /\ ~q.cursorExists =>
           PageOf(q, number, s) = SubSeq(s, 1, IF size > Len(s) THEN Len(s) ELSE size)
      /\ q.cursor = "before" /\ ~q.cursorExists => PageOf(q, number, s) = <<>>
  BY DEF PageOf
<1> QED BY <1>1, <1>4, <1>5, <1>6, <1>7

-----------------------------------------------------------------------------
(* What is included with a row read in the second statement is near this row. *)
NearIncluded == \A i \in DOMAIN results : includes[i] \subseteq results[i].near

ReadRow == [id : Nat, near : Nears]
AnswerRow == [id : Nat, near : Nears, includes : SUBSET UNION Nears, moved : BOOLEAN]

TypeInv == ListTypeOK /\ NearIncluded

(* The statement that reads the ids gives numbers of rows. *)
LEMMA ReadIdsType ==
  ASSUME ListTypeOK, ReadIds
  PROVE  ids' \in Seq(Nat)
<1> DEFINE S == Selected(query, content)
<1>1. PICK s \in Ordered(query, content, Paired(S)) :
        ids' = [i \in DOMAIN PageOf(query, walk.number, s) |-> PageOf(query, walk.number, s)[i][1]]
  BY DEF ReadIds, Paired
<1>2. content \in Contents /\ query \in Queries /\ walk.number \in Nat
  BY DEF ListTypeOK
<1>3. IsFiniteSet(Paired(S)) /\ S \subseteq Nat
  BY <1>2, ContentIs, SelectedFinite, PairedFinite
<1>4. s \in Seq(Paired(S))
  BY <1>3, OrderedIs
<1> DEFINE P == PageOf(query, walk.number, s)
<1> HIDE DEF S
<1>5. P \in Seq(Paired(S))
  BY <1>2, <1>4, PageIs
<1> HIDE DEF P
<1>6. \A i \in 1 .. Len(P) : P[i][1] \in Nat
  <2>1. \A p \in Paired(S) : p[1] \in Nat
    BY <1>3 DEF Paired
  <2> QED BY <2>1, <1>5
<1>7. ids' = [i \in 1 .. Len(P) |-> P[i][1]]
  BY <1>1, <1>5 DEF P
<1> QED BY <1>5, <1>6, <1>7

(* The one that reads the rows gives rows, and each with what is to be included. *)
LEMMA ReadRowsType ==
  ASSUME ListTypeOK, ReadRows
  PROVE  /\ results' \in Seq(ReadRow)
         /\ includes' \in Seq(SUBSET UNION Nears) /\ Len(includes') = Len(results')
         /\ NearIncluded'
<1> DEFINE S == Copies(query, content, ToSet(ids))
<1>1. PICK s \in Ordered(query, content, S) :
        results' = [i \in DOMAIN s |-> [id |-> s[i][1], near |-> content[s[i][1]].near]]
  BY DEF ReadRows, Copies
<1>2. content \in Contents /\ query \in Queries
  BY DEF ListTypeOK
<1>3. IsFiniteSet(S)
  BY <1>2, CopiesFinite
<1>4. \A c \in S : c[1] \in DOMAIN content
  BY DEF Copies
<1> HIDE DEF S
<1>5. s \in Seq(S)
  BY <1>3, OrderedIs
<1>6. \A i \in 1 .. Len(s) : [id |-> s[i][1], near |-> content[s[i][1]].near] \in ReadRow
  <2>1. \A c \in S : [id |-> c[1], near |-> content[c[1]].near] \in ReadRow
    BY <1>2, <1>4, ContentIs DEF ReadRow
  <2> QED BY <2>1, <1>5
<1>7. results' \in Seq(ReadRow)
  BY <1>1, <1>5, <1>6
<1>8. includes' = [i \in 1 .. Len(results') |-> IF query.include = "none" THEN {} ELSE results'[i].near]
  BY <1>7 DEF ReadRows, ResultToArrayOfMap
<1>9. \A i \in 1 .. Len(results') :
        /\ (IF query.include = "none" THEN {} ELSE results'[i].near) \in SUBSET UNION Nears
        /\ (IF query.include = "none" THEN {} ELSE results'[i].near) \subseteq results'[i].near
  <2>1. \A i \in 1 .. Len(results') : results'[i] \in ReadRow
    BY <1>7
  <2>2. \A i \in 1 .. Len(results') : results'[i].near \in Nears
    BY <2>1 DEF ReadRow
  <2> QED BY <2>2
<1>10. includes' \in Seq(SUBSET UNION Nears) /\ Len(includes') = Len(results')
  BY <1>7, <1>8, <1>9
<1>11. \A i \in 1 .. Len(results') : includes'[i] \subseteq results'[i].near
  BY <1>8, <1>9
<1> QED BY <1>7, <1>10, <1>11 DEF NearIncluded

WalkType == [number : Nat, toLast : BOOLEAN, visited : Seq(Nat), disturbed : BOOLEAN,
             misled : BOOLEAN, cut : BOOLEAN]

(* The ids of a sequence of rows. *)
IdsOf(rows) == [i \in DOMAIN rows |-> rows[i].id]

(* The page that is answered: its rows are kept ones of the rows read, and what is
   included with the first of them that the permissions have not moved is near it. *)
LEMMA AnswerType ==
  ASSUME TypeInv, AnswerList
  PROVE  /\ answer' \in Seq(AnswerRow)
         /\ IdsOf(answer') = IdsOf(Kept(query, results, content))
         /\ walk' = [walk EXCEPT !.visited = @ \o IdsOf(answer')] /\ walk' \in WalkType
         /\ IncludesBelong'
<1> DEFINE kept == Kept(query, results, content)
<1> DEFINE S == KeptPlaces(query, results, content)
<1> DEFINE N == Cardinality(S)
<1>1. results \in Seq(ReadRow) /\ includes \in Seq(SUBSET UNION Nears)
      /\ Len(includes) = Len(results) /\ walk \in WalkType
  BY DEF TypeInv, ListTypeOK, ReadRow, WalkType
<1>2. N \in Nat /\ N <= Len(results) /\ kept \in Seq(ReadRow) /\ Len(kept) = N
  BY <1>1, KeptAre
<1> DEFINE row(i) == [id |-> kept[i].id, near |-> kept[i].near,
                      includes |-> Shown(query, includes[i]),
                      moved |-> SubSeq(results, 1, i) # SubSeq(kept, 1, i)]
<1>3. answer' = [i \in DOMAIN kept |-> row(i)]
      /\ walk' = [walk EXCEPT !.visited = @ \o [i \in DOMAIN answer' |-> answer'[i].id]]
  BY DEF AnswerList
<1> HIDE DEF S, N, kept
<1>4. \A i \in 1 .. N : kept[i] \in ReadRow /\ includes[i] \in SUBSET UNION Nears
  BY <1>1, <1>2
<1>5. \A i \in 1 .. N : row(i) \in AnswerRow
  <2> SUFFICES ASSUME NEW i \in 1 .. N PROVE row(i) \in AnswerRow
    OBVIOUS
  <2>1. Shown(query, includes[i]) \in SUBSET UNION Nears
    BY <1>4 DEF Shown
  <2>2. kept[i].id \in Nat /\ kept[i].near \in Nears
    BY <1>4 DEF ReadRow
  <2>3. (SubSeq(results, 1, i) # SubSeq(kept, 1, i)) \in BOOLEAN
    OBVIOUS
  <2> QED BY <2>1, <2>2, <2>3, Zenon DEF AnswerRow
<1>6. answer' = [i \in 1 .. N |-> row(i)] /\ DOMAIN kept = 1 .. N
  BY <1>2, <1>3
<1> DEFINE r == [i \in 1 .. N |-> row(i)]
<1>7. r \in Seq(AnswerRow) /\ \A i \in 1 .. N : r[i] = row(i)
  <2> HIDE DEF row
  <2> QED BY <1>2, <1>5
<1>8. \A i \in 1 .. N : r[i].id = kept[i].id
  BY <1>7
<1>9. IdsOf(answer') = IdsOf(kept)
  <2>1. answer' = r /\ DOMAIN r = 1 .. N
    BY <1>6
  <2> HIDE DEF r
  <2> QED BY <2>1, <1>6, <1>8 DEF IdsOf
<1>10. IdsOf(answer') \in Seq(Nat)
  <2>1. \A i \in 1 .. N : kept[i].id \in Nat
    BY <1>4 DEF ReadRow
  <2>2. IdsOf(kept) = [i \in 1 .. N |-> kept[i].id]
    BY <1>6 DEF IdsOf
  <2> QED BY <1>2, <1>9, <2>1, <2>2
<1>11. walk' = [walk EXCEPT !.visited = @ \o IdsOf(answer')]
  BY <1>3 DEF IdsOf
<1>12. walk' \in WalkType
  <2> DEFINE new == IdsOf(answer')
  <2>1. walk.visited \in Seq(Nat) /\ new \in Seq(Nat)
    BY <1>1, <1>10 DEF WalkType
  <2> HIDE DEF new
  <2>2. walk.visited \o new \in Seq(Nat)
    BY <2>1
  <2>3. walk' = [walk EXCEPT !.visited = walk.visited \o new]
    BY <1>11 DEF new
  <2> QED BY <1>1, <2>2, <2>3 DEF WalkType
<1>13. \A i \in 1 .. N : row(i).moved \/ row(i).includes \subseteq row(i).near
  <2> SUFFICES ASSUME NEW i \in 1 .. N, SubSeq(results, 1, i) = SubSeq(kept, 1, i)
               PROVE  Shown(query, includes[i]) \subseteq kept[i].near
    OBVIOUS
  <2>1. i \in 1 .. Len(results) /\ i \in 1 .. Len(kept) /\ i \in Nat
    BY <1>1, <1>2
  <2>2. SubSeq(results, 1, i)[i] = results[i] /\ SubSeq(kept, 1, i)[i] = kept[i]
    BY <1>1, <1>2, <2>1
  <2>3. results[i] = kept[i]
    BY <2>2
  <2>4. includes[i] \subseteq results[i].near
    BY <2>1, <1>1 DEF TypeInv, NearIncluded
  <2>5. Shown(query, includes[i]) \subseteq includes[i]
    BY DEF Shown
  <2> QED BY <2>3, <2>4, <2>5
<1>14. IncludesBelong'
  <2> HIDE DEF row
  <2> QED BY <1>6, <1>7, <1>13 DEF IncludesBelong
<1> QED BY <1>6, <1>7, <1>9, <1>11, <1>12, <1>14 DEF kept

(* The types hold at first, and every step keeps them, what is included near its row
   and, in the pages that are answered, near the row that gets it. *)
LEMMA TypeStart == ListInit => TypeInv /\ IncludesBelong
<1> SUFFICES ASSUME ListInit PROVE TypeInv /\ IncludesBelong
  OBVIOUS
<1>1. /\ content \in Contents /\ writes = 0 /\ query \in Queries /\ phase = "asking"
      /\ ids = <<>> /\ results = <<>> /\ includes = <<>> /\ total = 0 /\ answer = <<>>
      /\ walk \in [number : {query.first}, toLast : BOOLEAN, visited : {<<>>},
                   disturbed : {FALSE}, misled : {FALSE}, cut : {FALSE}]
      /\ counts = NoCount \/ \E n \in OtherTotals : counts = [count |-> n, left |-> 1]
  BY DEF ListInit
<1>2. query.first \in Nat /\ MaxWrites \in Nat /\ OtherTotals \subseteq Nat
  BY <1>1, ListingAssumption
<1>3. walk \in WalkType
  <2>1. \A T : <<>> \in Seq(T)
    OBVIOUS
  <2> QED BY <1>1, <1>2, <2>1 DEF WalkType
<1>4. counts \in [count : Nat, left : 0 .. 1]
  BY <1>1, <1>2 DEF NoCount
<1>5. \A T : <<>> \in Seq(T)
  OBVIOUS
<1>6. Len(includes) = Len(results) /\ DOMAIN results = {} /\ DOMAIN answer = {}
  BY <1>1
<1> QED BY <1>1, <1>2, <1>3, <1>4, <1>5, <1>6
        DEF TypeInv, ListTypeOK, NearIncluded, IncludesBelong, WalkType, Phases

LEMMA TypeStep ==
  TypeInv /\ IncludesBelong /\ [ListNext]_listVars => TypeInv' /\ IncludesBelong'
<1> SUFFICES ASSUME TypeInv, IncludesBelong, [ListNext]_listVars
             PROVE  TypeInv' /\ IncludesBelong'
  OBVIOUS
<1> USE DEF TypeInv, ListTypeOK, NearIncluded, IncludesBelong, WalkType, Phases
<1>0. MaxWrites \in Nat /\ <<>> \in Seq(Nat) /\ <<>> \in Seq([id : Nat, near : Nears])
      /\ <<>> \in Seq(SUBSET UNION Nears) /\ Len(<<>>) = 0 /\ DOMAIN <<>> = {}
      /\ <<>> \in Seq([id : Nat, near : Nears, includes : SUBSET UNION Nears, moved : BOOLEAN])
  <2>1. \A T : <<>> \in Seq(T)
    OBVIOUS
  <2>2. Len(<<>>) = 0 /\ DOMAIN <<>> = {}
    OBVIOUS
  <2>3. MaxWrites \in Nat
    BY ListingAssumption
  <2> QED BY <2>1, <2>2, <2>3
<1>1. CASE Ask
  BY <1>0, <1>1 DEF Ask, LocalsReset
<1>2. CASE BeforeList
  BY <1>2 DEF BeforeList
<1>3. CASE ReadIds
  <2>1. ids' \in Seq(Nat)
    BY <1>3, ReadIdsType
  <2> QED BY <1>3, <2>1 DEF ReadIds
<1>4. CASE ReadRows
  <2>1. /\ results' \in Seq(ReadRow) /\ includes' \in Seq(SUBSET UNION Nears)
        /\ Len(includes') = Len(results') /\ NearIncluded'
    BY <1>4, ReadRowsType
  <2> QED BY <1>4, <2>1 DEF ReadRows, ReadRow
<1>5. CASE GetTotalCount
  <2>1. Cardinality(Selected(query, content)) \in Nat
    BY SelectedFinite
  <2>2. total' \in Nat
    BY <1>5, <2>1 DEF GetTotalCount
  <2>3. counts' \in [count : Nat, left : 0 .. 1]
    BY <1>5, <2>2 DEF GetTotalCount
  <2>4. walk' \in WalkType
    <3> DEFINE m == walk.misled \/ total' # Cardinality(Selected(query, content))
    <3>1. walk' = [walk EXCEPT !.misled = m]
      BY <1>5 DEF GetTotalCount
    <3>2. m \in BOOLEAN
      OBVIOUS
    <3> HIDE DEF m
    <3> QED BY <3>1, <3>2
  <2> QED BY <1>5, <2>2, <2>3, <2>4 DEF GetTotalCount
<1>6. CASE AnswerList
  <2>1. answer' \in Seq(AnswerRow) /\ walk' \in WalkType /\ IncludesBelong'
    BY <1>6, AnswerType
  <2> QED BY <1>6, <2>1 DEF AnswerList, AnswerRow
<1>7. CASE NextPage
  <2>1. /\ walk' = walk \/ walk' = [walk EXCEPT !.number = walk.number + 1]
        /\ phase' = "done" \/ phase' = "asking"
    BY <1>7 DEF NextPage
  <2>2. walk' \in WalkType /\ phase' \in Phases
    <3> DEFINE n == walk.number + 1
    <3>1. n \in Nat /\ walk \in WalkType
      OBVIOUS
    <3>2. walk' = walk \/ walk' = [walk EXCEPT !.number = n]
      BY <2>1
    <3> HIDE DEF n
    <3> QED BY <2>1, <3>1, <3>2
  <2> QED BY <1>7, <2>2 DEF NextPage
<1>8. CASE ListFail
  <2> DEFINE swallowed == query.nested /\ phase \in {"ids", "rows", "count"}
  <2>1. walk' \in WalkType /\ phase' \in Phases
    <3>1. walk' = [walk EXCEPT !.cut = walk.cut \/ swallowed]
          /\ phase' = IF swallowed THEN "after" ELSE "failed"
      BY <1>8 DEF ListFail
    <3>2. (walk.cut \/ swallowed) \in BOOLEAN
      OBVIOUS
    <3> HIDE DEF swallowed
    <3> QED BY <3>1, <3>2
  <2> QED BY <1>0, <1>8, <2>1 DEF ListFail, LocalsReset
<1>9. CASE ListPanic
  BY <1>9 DEF ListPanic
<1>10. CASE CountExpires
  BY <1>10, SMTT(30) DEF CountExpires, NoCount
<1>11. ASSUME NEW c \in Contents, WriteTable(c)
       PROVE  TypeInv' /\ IncludesBelong'
  <2>1. walk' \in WalkType
    BY <1>11 DEF WriteTable
  <2>2. writes' \in 0 .. MaxWrites /\ content' \in Contents
    BY <1>0, <1>11 DEF WriteTable
  <2> QED BY <1>11, <2>1, <2>2 DEF WriteTable
<1>12. CASE UNCHANGED listVars
  BY <1>12 DEF listVars
<1> QED BY <1>1, <1>2, <1>3, <1>4, <1>5, <1>6, <1>7, <1>8, <1>9, <1>10, <1>11, <1>12 DEF ListNext

(* The types of the list. *)
THEOREM ListTypeCorrect == ListSpec => []ListTypeOK
<1>1. ListInit => TypeInv /\ IncludesBelong
  BY TypeStart
<1>2. TypeInv /\ IncludesBelong /\ [ListNext]_listVars => TypeInv' /\ IncludesBelong'
  BY TypeStep
<1>3. TypeInv => ListTypeOK
  BY DEF TypeInv
<1> QED BY <1>1, <1>2, <1>3, PTL DEF ListSpec

(* What is included with a row of an answer is near it, unless a row before it was
   taken out by its permission: then the lists have moved up by one. *)
THEOREM InclusionsBelong == ListSpec => []IncludesBelong
BY TypeStart, TypeStep, PTL DEF ListSpec

-----------------------------------------------------------------------------
(* The walk from page to page. Where the order says which of two rows comes first,
   each selected row has a place, and a page is the rows of some consecutive places. *)
Distinct(rows) == \A i, j \in DOMAIN rows : rows[i].key = rows[j].key => i = j
Key(rows) == [i \in DOMAIN rows |-> rows[i].key]
Place(q, rows, i) == Rank(Selected(q, rows), Key(rows), i)

PageRows(q, rows, n) ==
  {i \in Selected(q, rows) : /\ (n - 1) * Size(q) < Place(q, rows, i)
                             /\ Place(q, rows, i) <= n * Size(q)}
RowsUpTo(q, rows, n) == {i \in Selected(q, rows) : Place(q, rows, i) <= n * Size(q)}

(* The size of a page is a number that is not 0. *)
LEMMA SizeIs ==
  ASSUME NEW q \in Queries
  PROVE  Size(q) \in Nat /\ Size(q) # 0
<1>1. q.size \in Nat
  BY ListingAssumption
<1> QED BY <1>1 DEF Size

(* A page begins where the one before it ends. *)
LEMMA PageBounds ==
  ASSUME NEW size \in Nat, size # 0, NEW n \in Nat
  PROVE  /\ n * size \in Nat /\ (n + 1) * size = n * size + size
         /\ n # 0 => n - 1 \in Nat /\ (n - 1) * size \in Nat /\ n * size = (n - 1) * size + size
<1>1. n * size \in Nat /\ (n + 1) * size = n * size + size
  OBVIOUS
<1>2. ASSUME n # 0
      PROVE  n - 1 \in Nat /\ (n - 1) * size \in Nat /\ n * size = (n - 1) * size + size
  <2> DEFINE m == n - 1
  <2>1. m \in Nat /\ n = m + 1
    BY <1>2
  <2> HIDE DEF m
  <2>2. m * size \in Nat /\ (m + 1) * size = m * size + size
    BY <2>1
  <2> QED BY <2>1, <2>2 DEF m
<1> QED BY <1>1, <1>2

(* Places are from the first to the last, in the order of the keys, and all taken. *)
LEMMA PlacesAre ==
  ASSUME NEW q \in Queries, NEW rows \in Contents, Distinct(rows)
  PROVE  LET S == Selected(q, rows)
         IN  /\ Cardinality(S) \in Nat
             /\ \A i \in S : Place(q, rows, i) \in 1 .. Cardinality(S)
             /\ \A i, j \in S : Place(q, rows, i) < Place(q, rows, j) => rows[i].key < rows[j].key
             /\ \A n \in 1 .. Cardinality(S) : \E i \in S : Place(q, rows, i) = n
<1> DEFINE S == Selected(q, rows)
<1> DEFINE k == Key(rows)
<1>1. IsFiniteSet(S) /\ S \subseteq DOMAIN rows
  BY SelectedFinite
<1>2. \A i \in S : k[i] \in Int /\ k[i] = rows[i].key
  BY <1>1, ContentIs DEF Key
<1>3. \A i, j \in S : k[i] = k[j] => i = j
  BY <1>1, <1>2 DEF Distinct
<1> HIDE DEF S, k
<1>4. /\ Cardinality(S) \in Nat
      /\ \A i \in S : Rank(S, k, i) \in 1 .. Cardinality(S)
      /\ \A i, j \in S : k[i] < k[j] => Rank(S, k, i) < Rank(S, k, j)
      /\ \A n \in 1 .. Cardinality(S) : \E i \in S : Rank(S, k, i) = n
  BY <1>1, <1>2, <1>3, RanksAre
<1>5. \A i \in S : Place(q, rows, i) = Rank(S, k, i)
  BY DEF Place, S, k
<1>6. ASSUME NEW i \in S, NEW j \in S, Rank(S, k, i) < Rank(S, k, j)
      PROVE  k[i] < k[j]
  <2>1. Rank(S, k, i) \in Int /\ Rank(S, k, j) \in Int /\ k[i] \in Int /\ k[j] \in Int
    BY <1>2, <1>4
  <2>2. ~(k[j] < k[i])
    BY <1>4, <1>6, <2>1
  <2>3. k[i] # k[j]
    BY <1>3, <1>6, <2>1
  <2> QED BY <2>1, <2>2, <2>3
<1> QED BY <1>2, <1>4, <1>5, <1>6 DEF S

(* The rows of the pages so far, and a page that has none. *)
LEMMA PagesAre ==
  ASSUME NEW q \in Queries, NEW rows \in Contents, Distinct(rows), NEW n \in Nat, n # 0
  PROVE  LET S == Selected(q, rows)
             before == RowsUpTo(q, rows, n - 1)
             page == PageRows(q, rows, n)
         IN  /\ RowsUpTo(q, rows, n) = before \cup page
             /\ \A i \in before, j \in page : rows[i].key < rows[j].key
             /\ RowsUpTo(q, rows, 0) = {}
             /\ page = {} => Cardinality(S) <= n * Size(q)
             /\ Cardinality(S) <= n * Size(q) => RowsUpTo(q, rows, n) = S
<1> DEFINE S == Selected(q, rows)
<1> DEFINE N == Cardinality(S)
<1> DEFINE from == (n - 1) * Size(q)
<1> DEFINE to == n * Size(q)
<1>1. from \in Nat /\ to = from + Size(q) /\ Size(q) \in Nat /\ Size(q) # 0
  BY SizeIs, PageBounds
<1>2. /\ N \in Nat
      /\ \A i \in S : Place(q, rows, i) \in 1 .. N
      /\ \A i, j \in S : Place(q, rows, i) < Place(q, rows, j) => rows[i].key < rows[j].key
      /\ \A m \in 1 .. N : \E i \in S : Place(q, rows, i) = m
  BY PlacesAre
<1>3. /\ RowsUpTo(q, rows, n) = {i \in S : Place(q, rows, i) <= to}
      /\ RowsUpTo(q, rows, n - 1) = {i \in S : Place(q, rows, i) <= from}
      /\ PageRows(q, rows, n) = {i \in S : from < Place(q, rows, i) /\ Place(q, rows, i) <= to}
  BY DEF RowsUpTo, PageRows
<1>4. RowsUpTo(q, rows, 0) = {i \in S : Place(q, rows, i) <= 0}
  <2>1. 0 * Size(q) = 0
    BY <1>1
  <2> QED BY <2>1 DEF RowsUpTo
<1> HIDE DEF S, N, from, to
<1>5. \A i \in S : Place(q, rows, i) \in Int
  BY <1>2
<1>6. RowsUpTo(q, rows, n) = RowsUpTo(q, rows, n - 1) \cup PageRows(q, rows, n)
  BY <1>1, <1>3, <1>5
<1>7. ASSUME NEW i \in RowsUpTo(q, rows, n - 1), NEW j \in PageRows(q, rows, n)
      PROVE  rows[i].key < rows[j].key
  BY <1>1, <1>2, <1>3, <1>5
<1>8. RowsUpTo(q, rows, 0) = {}
  BY <1>2, <1>4
<1>9. ASSUME PageRows(q, rows, n) = {}
      PROVE  N <= to
  <2> SUFFICES ASSUME N > to PROVE FALSE
    BY <1>1, <1>2
  <2>1. from + 1 \in 1 .. N /\ from < from + 1 /\ from + 1 <= to
    BY <1>1, <1>2
  <2>2. PICK i \in S : Place(q, rows, i) = from + 1
    BY <1>2, <2>1
  <2> QED BY <1>3, <1>9, <2>1, <2>2
<1>10. ASSUME N <= to
       PROVE  RowsUpTo(q, rows, n) = S
  BY <1>1, <1>2, <1>3, <1>10
<1> QED BY <1>6, <1>7, <1>8, <1>9, <1>10 DEF S, N, to

(* A client that goes by the last page ends behind the last row. *)
LEMMA LastPageIsBehind ==
  ASSUME NEW q \in Queries, NEW t \in Nat, NEW n \in Nat, n >= LastPage(q, t)
  PROVE  t <= n * Size(q)
<1> DEFINE d == t \div Size(q)
<1>1. Size(q) \in Nat /\ Size(q) # 0 /\ n >= 1 + d
  BY SizeIs DEF LastPage, Size
<1>2. d \in Nat /\ t < d * Size(q) + Size(q)
  BY <1>1
<1> HIDE DEF d
<1>3. (d + 1) * Size(q) = d * Size(q) + Size(q)
  BY <1>1, <1>2
<1>4. (d + 1) * Size(q) <= n * Size(q)
  BY <1>1, <1>2
<1>5. n * Size(q) \in Nat /\ d * Size(q) \in Nat
  BY <1>1, <1>2
<1> QED BY <1>1, <1>2, <1>3, <1>4, <1>5

(* A documented operator that does not make the query fail asks for what it says. *)
LEMMA DocumentedIsAsked ==
  ASSUME NEW f, NEW v, f.op \in DocumentedOperators, addFilter(f) # Error
  PROVE  Satisfies(addFilter(f), v) <=> Documented(f, v)
<1>0. f.known
  BY DEF addFilter
<1> DEFINE op == IF f.op \in DOMAIN OperatorMap THEN OperatorMap[f.op] ELSE f.op
<1>1. addFilter(f) =
        IF op \in DOMAIN TwoWords
        THEN LET word == TwoWords[op]
             IN  CASE word[2] = Null -> IF word[1] = "is" THEN Equals(Null) ELSE Differs(Null)
                   [] word[2] = 1 -> Is(IF word[1] = "is" THEN "isTrue" ELSE "isNotTrue", 1)
                   [] word[2] = 0 -> Is(IF word[1] = "is" THEN "isFalse" ELSE "isNotFalse", 0)
                   [] OTHER -> Panic
        ELSE IF op \in {"is", "="} THEN Equals(f.value)
        ELSE IF op = "not" THEN Differs(f.value)
        ELSE IF op \in GoquOperators THEN Is(op, f.value) ELSE Error
  BY <1>0 DEF addFilter
<1>2. CASE f.op = "is"
  <2>1. op = "is" /\ op \notin DOMAIN TwoWords
    BY <1>2 DEF OperatorMap, TwoWords
  <2>2. addFilter(f) = Equals(f.value)
    BY <1>1, <2>1
  <2>3. CASE f.value = Null
    BY <1>2, <2>2, <2>3 DEF Equals, Is, Satisfies, Documented
  <2>4. CASE f.value # Null
    BY <1>2, <2>2, <2>4 DEF Equals, Is, Satisfies, Documented
  <2> QED BY <2>3, <2>4
<1>3. CASE f.op = "before"
  <2>1. op = "lt" /\ op \notin DOMAIN TwoWords
    BY <1>3 DEF OperatorMap, TwoWords
  <2>2. addFilter(f) = Is("lt", f.value)
    BY <1>1, <2>1 DEF GoquOperators
  <2> QED BY <1>3, <2>2 DEF Is, Satisfies, Documented
<1>4. CASE f.op = "after"
  <2>1. op = "gt" /\ op \notin DOMAIN TwoWords
    BY <1>4 DEF OperatorMap, TwoWords
  <2>2. addFilter(f) = Is("gt", f.value)
    BY <1>1, <2>1 DEF GoquOperators
  <2> QED BY <1>4, <2>2 DEF Is, Satisfies, Documented
<1>5. CASE f.op = "is empty"
  <2>1. op = "is nil" /\ op \in DOMAIN TwoWords /\ TwoWords[op] = <<"is", Null>>
    BY <1>5 DEF OperatorMap, TwoWords
  <2> DEFINE w == TwoWords[op]
  <2>2. addFilter(f) =
          CASE w[2] = Null -> IF w[1] = "is" THEN Equals(Null) ELSE Differs(Null)
            [] w[2] = 1 -> Is(IF w[1] = "is" THEN "isTrue" ELSE "isNotTrue", 1)
            [] w[2] = 0 -> Is(IF w[1] = "is" THEN "isFalse" ELSE "isNotFalse", 0)
            [] OTHER -> Panic
    BY <1>1, <2>1
  <2>3. addFilter(f) = Equals(Null)
    <3>1. w = <<"is", Null>>
      BY <2>1
    <3> HIDE DEF w, op
    <3>2. w[1] = "is" /\ w[2] = Null
      BY <3>1
    <3> QED BY <2>2, <3>2 DEF Null
  <2>4. addFilter(f) = Is("isNull", Null)
    BY <2>3 DEF Equals
  <2>5. Satisfies(addFilter(f), v) <=> v = Null
    BY <2>4 DEF Is, Satisfies
  <2>6. Documented(f, v) <=> v = Null
    BY <1>5 DEF Documented
  <2> QED BY <2>5, <2>6
<1>6. CASE f.op = "is not empty"
  <2>1. op = "is not empty" /\ op \notin DOMAIN TwoWords
    BY <1>6 DEF OperatorMap, TwoWords
  <2>2. addFilter(f) = Error
    BY <1>1, <2>1 DEF GoquOperators
  <2> QED BY <2>2
<1>7. CASE f.op = "any of"
  <2>1. op = "any of" /\ op \notin DOMAIN TwoWords
    BY <1>7 DEF OperatorMap, TwoWords
  <2>2. addFilter(f) = Error
    BY <1>1, <2>1 DEF GoquOperators
  <2> QED BY <2>2
<1> QED BY <1>2, <1>3, <1>4, <1>5, <1>6, <1>7 DEF DocumentedOperators

(* The page of ids: the rows of its places. *)
LEMMA ReadIdsPage ==
  ASSUME ListTypeOK, ReadIds, Distinct(content), query.sort,
         query.cursor = "none", walk.number # 0
  PROVE  ToSet(ids') = PageRows(query, content, walk.number)
<1> DEFINE S == Selected(query, content)
<1> DEFINE N == Cardinality(S)
<1> DEFINE k == Key(content)
<1> DEFINE n == walk.number
<1> DEFINE from == (n - 1) * Size(query)
<1>1. PICK s \in Ordered(query, content, Paired(S)) :
        ids' = [i \in DOMAIN PageOf(query, n, s) |-> PageOf(query, n, s)[i][1]]
  BY DEF ReadIds, Paired
<1>2. content \in Contents /\ query \in Queries /\ n \in Nat /\ n # 0
  BY DEF ListTypeOK
<1>3. /\ IsFiniteSet(S) /\ S \subseteq DOMAIN content
      /\ IsFiniteSet(Paired(S)) /\ Cardinality(Paired(S)) = N /\ N \in Nat
  BY <1>2, SelectedFinite, PairedFinite
<1>4. from \in Nat /\ n * Size(query) = from + Size(query)
      /\ Size(query) \in Nat /\ Size(query) # 0
  BY <1>2, SizeIs, PageBounds
<1>5. Offset(n, Size(query)) = from
  BY DEF Offset
<1> DEFINE to == IF from + Size(query) > N THEN N ELSE from + Size(query)
<1> HIDE DEF S
<1>6. /\ s \in [1 .. N -> Paired(S)] /\ s \in Seq(Paired(S)) /\ Len(s) = N
      /\ \A i, j \in 1 .. N : i # j => s[i] # s[j]
      /\ \A i, j \in 1 .. N : i < j => content[s[i][1]].key <= content[s[j][1]].key
  BY <1>3, OrderedIs
<1> HIDE DEF N
<1>7. PageOf(query, n, s) = SubSeq(s, from + 1, to)
  <2>1. PageOf(query, n, s) =
          LET start == IF Offset(n, Size(query)) < 0 THEN 0 ELSE Offset(n, Size(query))
              end == IF start + Size(query) > Len(s) THEN Len(s) ELSE start + Size(query)
          IN  SubSeq(s, start + 1, end)
    BY Zenon DEF PageOf, Size
  <2>2. ~(from < 0)
    BY <1>4
  <2> HIDE DEF from
  <2> QED BY <1>5, <1>6, <2>1, <2>2
<1> DEFINE t == [i \in 1 .. N |-> s[i][1]]
<1>8. t \in [1 .. N -> S] /\ \A i \in 1 .. N : s[i] = <<t[i], 1>>
  <2>1. \A p \in Paired(S) : p[1] \in S /\ p = <<p[1], 1>>
    BY DEF Paired
  <2> QED BY <2>1, <1>6
<1>9. \A i, j \in 1 .. N : i # j => t[i] # t[j]
  BY <1>6, <1>8
<1>10. \A i, j \in 1 .. N : i < j => content[t[i]].key <= content[t[j]].key
  BY <1>6
<1> HIDE DEF t, k, from
<1>11. \A i \in S : k[i] = content[i].key /\ k[i] \in Int
  BY <1>2, <1>3, ContentIs DEF Key, k
<1>12. \A i, j \in S : k[i] = k[j] => i = j
  BY <1>3, <1>11 DEF Distinct
<1>13. \A i \in 1 .. N : Rank(S, k, t[i]) = i
  <2>1. \A i, j \in 1 .. N : i < j => k[t[i]] <= k[t[j]]
    BY <1>8, <1>10, <1>11
  <2> QED BY <1>3, <1>8, <1>9, <1>11, <1>12, <2>1, SortedByRank, SMTT(30) DEF N
<1>14. \A i \in S : Rank(S, k, i) \in 1 .. N
       /\ \A j \in S : Rank(S, k, i) = Rank(S, k, j) => i = j
  <2>1. /\ \A i \in S : Rank(S, k, i) \in 1 .. N
        /\ \A i, j \in S : k[i] < k[j] => Rank(S, k, i) < Rank(S, k, j)
    BY <1>3, <1>11, <1>12, RanksAre DEF N
  <2>2. ASSUME NEW i \in S, NEW j \in S, Rank(S, k, i) = Rank(S, k, j)
        PROVE  i = j
    <3>1. ~(k[i] < k[j]) /\ ~(k[j] < k[i]) /\ k[i] \in Int /\ k[j] \in Int
      BY <1>3, <1>11, <2>1, <2>2
    <3> QED BY <3>1, <1>12
  <2> QED BY <2>1, <2>2
<1>15. \A i \in S : Place(query, content, i) = Rank(S, k, i)
  BY DEF Place, S, k
<1>16. PageRows(query, content, n) =
         {i \in S : from < Rank(S, k, i) /\ Rank(S, k, i) <= from + Size(query)}
  BY <1>4, <1>15 DEF PageRows, S, from
<1>17. Len(SubSeq(s, from + 1, to)) = (IF from + 1 <= to THEN to - from ELSE 0)
       /\ \A i \in 1 .. to - from : SubSeq(s, from + 1, to)[i] = s[from + i]
  BY <1>3, <1>4, <1>6, SubSeqProperties
<1> DEFINE P == SubSeq(s, from + 1, to)
<1> DEFINE L == IF from + 1 <= to THEN to - from ELSE 0
<1>a. from \in Nat /\ to \in Nat /\ N \in Nat /\ to <= N /\ to <= from + Size(query)
      /\ (to = N \/ to = from + Size(query)) /\ L \in Nat /\ L <= N
  BY <1>3, <1>4 DEF from
<1>18. ToSet(ids') = {t[i] : i \in from + 1 .. to}
  <2>1. P \in Seq(Paired(S))
    BY <1>6, <1>a, SubSeqProperties
  <2>2. DOMAIN P = 1 .. L
    BY <1>17, <2>1
  <2>3. \A i \in 1 .. L : i \in 1 .. to - from /\ from + i \in 1 .. N /\ from + i \in from + 1 .. to
    BY <1>a
  <2>4. \A i \in 1 .. L : P[i] = s[from + i]
    BY <1>17, <2>3
  <2> HIDE DEF P, L, to
  <2>5. \A i \in 1 .. L : P[i][1] = t[from + i]
    BY <1>8, <2>3, <2>4
  <2>6. ids' = [i \in 1 .. L |-> P[i][1]]
    BY <1>1, <1>7, <2>2 DEF P
  <2>7. DOMAIN ids' = 1 .. L /\ \A i \in 1 .. L : ids'[i] = t[from + i]
    BY <2>5, <2>6
  <2>8. ToSet(ids') = {t[from + i] : i \in 1 .. L}
    BY <2>7 DEF ToSet
  <2>9. \A j \in from + 1 .. to : j - from \in 1 .. L /\ from + (j - from) = j
    BY <1>a DEF L
  <2>10. \A j \in from + 1 .. to : \E i \in 1 .. L : t[from + i] = t[j]
    BY <2>9
  <2> QED BY <2>3, <2>8, <2>10
<1>19. {t[i] : i \in from + 1 .. to} =
         {i \in S : from < Rank(S, k, i) /\ Rank(S, k, i) <= from + Size(query)}
  <2> HIDE DEF to, P, L
  <2>1. ASSUME NEW i \in from + 1 .. to
        PROVE  t[i] \in S /\ from < Rank(S, k, t[i]) /\ Rank(S, k, t[i]) <= from + Size(query)
    <3>1. i \in 1 .. N /\ from < i /\ i <= from + Size(query)
      BY <1>4, <1>a
    <3> QED BY <3>1, <1>8, <1>13
  <2>2. ASSUME NEW i \in S, from < Rank(S, k, i), Rank(S, k, i) <= from + Size(query)
        PROVE  \E j \in from + 1 .. to : t[j] = i
    <3> DEFINE r == Rank(S, k, i)
    <3>1. r \in 1 .. N /\ r \in from + 1 .. to
      BY <1>4, <1>a, <1>14, <2>2
    <3>2. t[r] \in S /\ Rank(S, k, t[r]) = Rank(S, k, i)
      BY <1>8, <1>13, <3>1
    <3>3. t[r] = i
      BY <1>14, <3>2
    <3> QED BY <3>1, <3>3
  <2> QED BY <2>1, <2>2
<1> QED BY <1>16, <1>18, <1>19

(* s lists the rows of S: all of them, in the order of their keys, each as often as
   the join has it. *)
Lists(q, rows, s, S) ==
  /\ s \in Seq(Nat) /\ ToSet(s) = S
  /\ \A i, j \in DOMAIN s : i < j => rows[s[i]].key <= rows[s[j]].key
  /\ \A n \in S : Cardinality({i \in DOMAIN s : s[i] = n}) = Times(q, rows[n])

Readable(q, rows, S) == {i \in S : Keeps(q, rows[i])}

(* A function that maps one set onto another, and no two elements to the same. *)
LEMMA SameNumber ==
  ASSUME NEW A, NEW B, IsFiniteSet(A), NEW f,
         \A x \in A : f[x] \in B,
         \A x, y \in A : f[x] = f[y] => x = y,
         \A z \in B : \E x \in A : f[x] = z
  PROVE  IsFiniteSet(B) /\ Cardinality(B) = Cardinality(A)
<1> DEFINE g == [x \in A |-> f[x]]
<1>1. g \in Bijection(A, B)
  BY DEF Bijection, Injection, Surjection, IsInjective
<1> QED BY <1>1, FS_Bijection DEF ExistsBijection

(* The places of a sequence are finitely many. *)
LEMMA PlacesFinite ==
  ASSUME NEW T, NEW s \in Seq(T), NEW S, S \subseteq DOMAIN s
  PROVE  IsFiniteSet(S)
<1> DEFINE L == Len(s)
<1>1. L \in Nat /\ DOMAIN s = 1 .. L
  OBVIOUS
<1> HIDE DEF L
<1>2. IsFiniteSet(1 .. L) /\ S \in SUBSET (1 .. L)
  BY <1>1, FS_Interval
<1> QED BY <1>2, FS_Subset

(* A row that is related to the objects asked for is in the join at least once. *)
LEMMA TimesIs ==
  ASSUME NEW q \in Queries, NEW row, Related(q, row)
  PROVE  Cardinality(q.objects) \in Nat /\ Times(q, row) \in 1 .. Cardinality(q.objects) + 1
<1> DEFINE X == q.objects \cap row.near
<1> DEFINE N == Cardinality(q.objects)
<1>1. IsFiniteSet(q.objects) /\ (q.rel = "has_many filtered" => q.objects # {})
  BY ListingAssumption
<1>2. N \in Nat /\ IsFiniteSet(X) /\ Cardinality(X) <= N /\ Cardinality(X) \in Nat
  BY <1>1, FS_CardinalityType, FS_Intersection
<1>3. CASE q.rel \in {"none", "has_one", "belongs_to"}
  <2>1. Times(q, row) = 1
    BY <1>3 DEF Times
  <2> QED BY <1>2, <2>1
<1>4. CASE q.rel \notin {"none", "has_one", "belongs_to"}
  <2>1. Times(q, row) = Cardinality(X)
    BY <1>4 DEF Times
  <2>2. X # {}
    <3>1. CASE q.rel = "has_many filtered"
      <4>1. q.objects \subseteq row.near
        BY <3>1 DEF Related
      <4> QED BY <1>1, <3>1, <4>1
    <3>2. CASE q.rel # "has_many filtered"
      BY <1>4, <3>2 DEF Related
    <3> QED BY <3>1, <3>2
  <2>3. Cardinality(X) # 0
    BY <1>2, <2>2, FS_EmptySet
  <2> HIDE DEF X, N
  <2> QED BY <1>2, <2>1, <2>3 DEF N
<1> QED BY <1>3, <1>4

(* One list after another whose rows all come later. *)
LEMMA ListsJoin ==
  ASSUME NEW q, NEW rows, NEW A, NEW B, NEW s, NEW t,
         Lists(q, rows, s, A), Lists(q, rows, t, B),
         \A a \in A \cup B : rows[a].key \in Int,
         \A a \in A, b \in B : rows[a].key < rows[b].key
  PROVE  Lists(q, rows, s \o t, A \cup B)
<1> DEFINE m == Len(s)
<1> DEFINE n == Len(t)
<1> DEFINE u == s \o t
<1>1. /\ s \in Seq(Nat) /\ t \in Seq(Nat) /\ m \in Nat /\ n \in Nat
      /\ DOMAIN s = 1 .. m /\ DOMAIN t = 1 .. n
      /\ A = {s[i] : i \in 1 .. m} /\ B = {t[i] : i \in 1 .. n}
  BY DEF Lists, ToSet
<1>2. /\ u \in Seq(Nat) /\ DOMAIN u = 1 .. m + n
      /\ \A i \in 1 .. m : u[i] = s[i]
      /\ \A j \in 1 .. n : u[m + j] = t[j]
  BY <1>1
<1>3. \A i \in 1 .. m + n : i \in 1 .. m \/ (i - m \in 1 .. n /\ m + (i - m) = i)
  BY <1>1
<1>4. /\ \A i \in 1 .. m : i \in 1 .. m + n
      /\ \A j \in 1 .. n : m + j \in 1 .. m + n
  BY <1>1
<1>5. /\ \A i, j \in 1 .. m : i < j => rows[s[i]].key <= rows[s[j]].key
      /\ \A i, j \in 1 .. n : i < j => rows[t[i]].key <= rows[t[j]].key
  BY <1>1 DEF Lists
<1> HIDE DEF m, n, u
<1>a. \A i \in 1 .. m + n :
        \/ i \in 1 .. m /\ u[i] = s[i]
        \/ i - m \in 1 .. n /\ u[i] = t[i - m]
  <2> SUFFICES ASSUME NEW i \in 1 .. m + n
               PROVE  \/ i \in 1 .. m /\ u[i] = s[i]
                      \/ i - m \in 1 .. n /\ u[i] = t[i - m]
    OBVIOUS
  <2>1. CASE i \in 1 .. m
    BY <1>2, <2>1
  <2>2. CASE i - m \in 1 .. n /\ m + (i - m) = i
    <3>1. u[m + (i - m)] = t[i - m]
      BY <1>2, <2>2
    <3> QED BY <2>2, <3>1
  <2> QED BY <1>3, <2>1, <2>2
<1>6. ToSet(u) = A \cup B
  <2>1. \A i \in 1 .. m + n : u[i] \in A \cup B
    BY <1>1, <1>a
  <2>2. \A a \in A : \E i \in 1 .. m + n : u[i] = a
    BY <1>1, <1>2, <1>4
  <2>3. ASSUME NEW b \in B
        PROVE  \E i \in 1 .. m + n : u[i] = b
    <3>1. PICK j \in 1 .. n : t[j] = b
      BY <1>1
    <3>2. m + j \in 1 .. m + n /\ u[m + j] = t[j]
      BY <1>2, <1>4
    <3> QED BY <3>1, <3>2
  <2> QED BY <1>2, <2>1, <2>2, <2>3 DEF ToSet
<1>7. ASSUME NEW i \in 1 .. m + n, NEW j \in 1 .. m + n, i < j
      PROVE  rows[u[i]].key <= rows[u[j]].key
  <2>1. CASE i \in 1 .. m /\ j \in 1 .. m
    BY <1>2, <1>5, <1>7, <2>1
  <2>2. CASE i \in 1 .. m /\ j \notin 1 .. m
    <3>1. u[i] \in A /\ u[j] \in B
      BY <1>1, <1>2, <1>a, <2>2
    <3> QED BY <3>1
  <2>3. CASE i \notin 1 .. m
    <3>1. j \notin 1 .. m
      BY <1>1, <1>7, <2>3
    <3>2. i - m \in 1 .. n /\ j - m \in 1 .. n /\ i - m < j - m
          /\ u[i] = t[i - m] /\ u[j] = t[j - m]
      BY <1>1, <1>7, <1>a, <2>3, <3>1
    <3> QED BY <1>5, <3>2
  <2> QED BY <2>1, <2>2, <2>3
<1>8. A \cap B = {}
  <2> SUFFICES ASSUME NEW a \in A, a \in B PROVE FALSE
    OBVIOUS
  <2>1. rows[a].key < rows[a].key /\ rows[a].key \in Int
    OBVIOUS
  <2> QED BY <2>1
<1>9. ASSUME NEW a \in A
      PROVE  Cardinality({i \in DOMAIN u : u[i] = a}) = Times(q, rows[a])
  <2>1. ASSUME NEW i \in DOMAIN u, u[i] = a
        PROVE  i \in DOMAIN s /\ s[i] = a
    <3>1. i \in 1 .. m \/ u[i] \in B
      BY <1>2, <1>a, <1>1
    <3>2. i \in 1 .. m
      BY <1>8, <2>1, <3>1
    <3> QED BY <1>1, <1>2, <2>1, <3>2
  <2>2. ASSUME NEW i \in DOMAIN s, s[i] = a
        PROVE  i \in DOMAIN u /\ u[i] = a
    <3>1. i \in 1 .. m /\ i \in 1 .. m + n
      BY <1>1, <2>2
    <3> QED BY <1>2, <1>4, <2>2, <3>1
  <2>3. {i \in DOMAIN u : u[i] = a} = {i \in DOMAIN s : s[i] = a}
    BY <2>1, <2>2
  <2> QED BY <2>3 DEF Lists
<1>10. ASSUME NEW b \in B
       PROVE  Cardinality({i \in DOMAIN u : u[i] = b}) = Times(q, rows[b])
  <2> DEFINE X == {i \in DOMAIN t : t[i] = b}
  <2> DEFINE Y == {i \in DOMAIN u : u[i] = b}
  <2> DEFINE f == [i \in X |-> m + i]
  <2>1. IsFiniteSet(X)
    BY <1>1, PlacesFinite
  <2>2. ASSUME NEW i \in X
        PROVE  f[i] \in Y
    <3>1. i \in 1 .. n /\ m + i \in 1 .. m + n /\ u[m + i] = t[i]
      BY <1>1, <1>2, <1>4
    <3> QED BY <1>2, <3>1
  <2>3. \A i, j \in X : f[i] = f[j] => i = j
    BY <1>1
  <2>4. \A j \in Y : \E i \in X : f[i] = j
    <3> SUFFICES ASSUME NEW j \in Y PROVE j - m \in X /\ m + (j - m) = j
      OBVIOUS
    <3>1. ~(j \in 1 .. m /\ u[j] = s[j])
      BY <1>1, <1>8
    <3>2. j - m \in 1 .. n /\ u[j] = t[j - m]
      BY <1>2, <1>a, <3>1
    <3> QED BY <1>1, <1>2, <3>2
  <2> HIDE DEF X, Y, f
  <2>5. Cardinality(Y) = Cardinality(X)
    BY <2>1, <2>2, <2>3, <2>4, SameNumber
  <2> QED BY <2>5 DEF X, Y, Lists
<1> QED BY <1>2, <1>6, <1>7, <1>9, <1>10 DEF Lists, u

(* Taking out what may not be read leaves a list of what may. *)
LEMMA KeptLists ==
  ASSUME NEW q, NEW rows, NEW R \in Seq(ReadRow), NEW A, A \subseteq DOMAIN rows,
         Lists(q, rows, IdsOf(R), A)
  PROVE  Lists(q, rows, IdsOf(Kept(q, R, rows)), Readable(q, rows, A))
<1> DEFINE L == Len(R)
<1> DEFINE P == KeptPlaces(q, R, rows)
<1> DEFINE N == Cardinality(P)
<1> DEFINE kept == Kept(q, R, rows)
<1> DEFINE old == IdsOf(R)
<1> DEFINE new == IdsOf(kept)
<1>1. L \in Nat /\ DOMAIN R = 1 .. L /\ \A i \in 1 .. L : R[i] \in ReadRow
  OBVIOUS
<1>2. DOMAIN old = 1 .. L /\ \A i \in 1 .. L : old[i] = R[i].id /\ old[i] \in Nat
  BY <1>1 DEF IdsOf, ReadRow
<1>3. /\ ToSet(old) = A
      /\ \A i, j \in 1 .. L : i < j => rows[old[i]].key <= rows[old[j]].key
      /\ \A n \in A : Cardinality({i \in 1 .. L : old[i] = n}) = Times(q, rows[n])
  <2> HIDE DEF old, L
  <2> QED BY <1>2 DEF Lists, old
<1>4. P = {i \in 1 .. L : Keeps(q, rows[old[i]])}
  <2>1. \A i \in 1 .. L : old[i] \in DOMAIN rows
    BY <1>2, <1>3 DEF ToSet
  <2> QED BY <1>1, <1>2, <2>1 DEF KeptPlaces
<1>5. /\ IsFiniteSet(P) /\ P \subseteq 1 .. L /\ N \in Nat
      /\ kept \in Seq(ReadRow) /\ Len(kept) = N
      /\ \A n \in 1 .. N : kept[n] = R[Nth(P, n)] /\ Nth(P, n) \in P
  BY <1>1, KeptAre
<1>6. /\ \A m, n \in 1 .. N : m < n => Nth(P, m) < Nth(P, n)
      /\ \A x \in P : \E n \in 1 .. N : Nth(P, n) = x
  <2>1. P \subseteq Int
    BY <1>5
  <2> HIDE DEF P
  <2> QED BY <1>5, <2>1, NthIs
<1> HIDE DEF L, P, N, kept
<1>7. DOMAIN new = 1 .. N /\ \A n \in 1 .. N : new[n] = kept[n].id
  <2>1. DOMAIN kept = 1 .. N
    BY <1>5
  <2> QED BY <2>1 DEF IdsOf
<1> HIDE DEF old, new
<1>8. \A n \in 1 .. N : new[n] = old[Nth(P, n)] /\ Nth(P, n) \in P /\ Nth(P, n) \in 1 .. L
  BY <1>2, <1>5, <1>7
<1>9. new \in Seq(Nat)
  <2>1. \A n \in 1 .. N : kept[n].id \in Nat
    BY <1>2, <1>7, <1>8
  <2>2. new = [n \in 1 .. N |-> kept[n].id]
    <3>1. DOMAIN kept = 1 .. N
      BY <1>5
    <3> QED BY <3>1 DEF new, IdsOf
  <2>3. N \in Nat
    BY <1>5
  <2> QED BY <2>1, <2>2, <2>3
<1>10. ToSet(new) = Readable(q, rows, A)
  <2>1. \A n \in 1 .. N : new[n] \in A /\ Keeps(q, rows[new[n]])
    BY <1>2, <1>3, <1>4, <1>8 DEF ToSet
  <2>2. ASSUME NEW a \in A, Keeps(q, rows[a])
        PROVE  \E n \in 1 .. N : new[n] = a
    <3>1. PICK i \in 1 .. L : old[i] = a
      BY <1>2, <1>3 DEF ToSet
    <3>2. i \in P
      BY <1>4, <2>2, <3>1
    <3>3. PICK n \in 1 .. N : Nth(P, n) = i
      BY <1>6, <3>2
    <3> QED BY <1>8, <3>1, <3>3
  <2> QED BY <1>7, <2>1, <2>2 DEF ToSet, Readable
<1>11. ASSUME NEW i \in 1 .. N, NEW j \in 1 .. N, i < j
       PROVE  rows[new[i]].key <= rows[new[j]].key
  <2>1. Nth(P, i) < Nth(P, j) /\ Nth(P, i) \in 1 .. L /\ Nth(P, j) \in 1 .. L
    BY <1>6, <1>8, <1>11
  <2>2. rows[old[Nth(P, i)]].key <= rows[old[Nth(P, j)]].key
    BY <1>3, <2>1
  <2> QED BY <1>8, <2>2
<1>12. ASSUME NEW a \in Readable(q, rows, A)
       PROVE  Cardinality({n \in 1 .. N : new[n] = a}) = Times(q, rows[a])
  <2> DEFINE X == {n \in 1 .. N : new[n] = a}
  <2> DEFINE Y == {i \in 1 .. L : old[i] = a}
  <2> DEFINE f == [n \in X |-> Nth(P, n)]
  <2>1. IsFiniteSet(X)
    BY <1>7, <1>9, PlacesFinite
  <2>2. \A n \in X : f[n] \in Y
    BY <1>8
  <2>3. ASSUME NEW m \in X, NEW n \in X, f[m] = f[n]
        PROVE  m = n
    <3>1. Nth(P, m) = Nth(P, n) /\ Nth(P, m) \in Int /\ m \in 1 .. N /\ n \in 1 .. N
      BY <1>1, <1>8, <2>3 DEF L
    <3>2. ~(m < n) /\ ~(n < m)
      BY <1>6, <3>1
    <3> QED BY <1>5, <3>1, <3>2
  <2>4. \A i \in Y : \E n \in X : f[n] = i
    <3> SUFFICES ASSUME NEW i \in Y PROVE \E n \in X : f[n] = i
      OBVIOUS
    <3>1. i \in P
      BY <1>4 DEF Readable
    <3>2. PICK n \in 1 .. N : Nth(P, n) = i
      BY <1>6, <3>1
    <3>3. n \in X
      BY <1>8, <3>2
    <3> QED BY <3>2, <3>3
  <2>5. a \in A
    BY DEF Readable
  <2> HIDE DEF X, Y, f
  <2>6. Cardinality(Y) = Cardinality(X)
    BY <2>1, <2>2, <2>3, <2>4, SameNumber
  <2>7. Cardinality(Y) = Times(q, rows[a])
    BY <1>3, <2>5 DEF Y
  <2> QED BY <2>6, <2>7 DEF X
<1> QED BY <1>7, <1>9, <1>10, <1>11, <1>12 DEF Lists, Readable, new, kept

(* The statement that reads the rows lists those of the ids that were read. *)
LEMMA ReadRowsLists ==
  ASSUME ListTypeOK, ReadRows, query.sort, ToSet(ids) \subseteq Selected(query, content)
  PROVE  Lists(query, content, IdsOf(results'), ToSet(ids))
<1> DEFINE A == ToSet(ids)
<1> DEFINE S == Copies(query, content, A)
<1> DEFINE N == Cardinality(S)
<1> DEFINE r == IdsOf(results')
<1>1. PICK s \in Ordered(query, content, S) :
        results' = [i \in DOMAIN s |-> [id |-> s[i][1], near |-> content[s[i][1]].near]]
  BY DEF ReadRows, Copies
<1>2. content \in Contents /\ query \in Queries
  BY DEF ListTypeOK
<1>3. IsFiniteSet(S)
  BY <1>2, CopiesFinite
<1>4. \A c \in S : c = <<c[1], c[2]>> /\ c[1] \in A /\ c[1] \in DOMAIN content
  BY DEF Copies
<1>5. A \subseteq DOMAIN content /\ A \subseteq Nat
  BY <1>2, SelectedFinite, ContentIs
<1>6. \A n \in A : Times(query, content[n]) \in 1 .. Cardinality(query.objects) + 1
      /\ Cardinality(query.objects) \in Nat
  BY <1>2, TimesIs DEF Selected
<1>7. \A n \in A : \A m \in 1 .. Times(query, content[n]) : <<n, m>> \in S
  <2> SUFFICES ASSUME NEW n \in A, NEW m \in 1 .. Times(query, content[n])
               PROVE  <<n, m>> \in S
    OBVIOUS
  <2>1. m \in 1 .. Cardinality(query.objects) + 1 /\ m <= Times(query, content[n])
    BY <1>6
  <2> HIDE DEF A
  <2> QED BY <1>5, <2>1 DEF Copies
<1>8. \A c \in S : c[2] \in 1 .. Times(query, content[c[1]])
  <2> SUFFICES ASSUME NEW c \in S PROVE c[2] \in 1 .. Times(query, content[c[1]])
    OBVIOUS
  <2>1. c[1] \in A /\ c[2] \in 1 .. Cardinality(query.objects) + 1
        /\ c[2] <= Times(query, content[c[1]])
    BY DEF Copies
  <2> QED BY <1>6, <2>1
<1> HIDE DEF S, A
<1>9. /\ N \in Nat /\ s \in [1 .. N -> S] /\ s \in Seq(S) /\ DOMAIN s = 1 .. N
      /\ \A i, j \in 1 .. N : i # j => s[i] # s[j]
      /\ \A i, j \in 1 .. N : i < j => content[s[i][1]].key <= content[s[j][1]].key
  BY <1>3, OrderedIs
<1>10. \A c \in S : \E i \in 1 .. N : s[i] = c
  <2>1. s \in Injection(1 .. N, S)
    BY <1>9 DEF Injection, IsInjective
  <2>2. Cardinality(1 .. N) = N
    BY <1>9, FS_Interval
  <2>3. s \in Surjection(1 .. N, S)
    BY <1>3, <2>1, <2>2, FS_Injection
  <2> QED BY <2>3 DEF Surjection
<1> HIDE DEF N
<1>11. DOMAIN r = 1 .. N /\ \A i \in 1 .. N : r[i] = s[i][1]
  BY <1>1, <1>9 DEF IdsOf
<1>12. r \in Seq(Nat)
  <2>1. r = [i \in 1 .. N |-> s[i][1]]
    BY <1>1, <1>9 DEF IdsOf
  <2>2. \A i \in 1 .. N : s[i][1] \in Nat
    BY <1>4, <1>5, <1>9
  <2> QED BY <1>9, <2>1, <2>2
<1> HIDE DEF r
<1>13. ToSet(r) = A
  <2>1. \A i \in 1 .. N : r[i] \in A
    BY <1>4, <1>9, <1>11
  <2>2. ASSUME NEW n \in A
        PROVE  \E i \in 1 .. N : r[i] = n
    <3>1. 1 \in 1 .. Times(query, content[n])
      BY <1>6
    <3>2. PICK i \in 1 .. N : s[i] = <<n, 1>>
      BY <1>7, <1>10, <3>1
    <3> QED BY <1>11, <3>2
  <2> QED BY <1>11, <2>1, <2>2 DEF ToSet
<1>14. ASSUME NEW n \in A
       PROVE  Cardinality({i \in 1 .. N : r[i] = n}) = Times(query, content[n])
  <2> DEFINE T == Times(query, content[n])
  <2> DEFINE X == {i \in 1 .. N : r[i] = n}
  <2> DEFINE f == [i \in X |-> s[i][2]]
  <2>1. IsFiniteSet(X)
    BY <1>11, <1>12, PlacesFinite
  <2>2. \A i \in X : s[i] = <<n, s[i][2]>> /\ s[i][2] \in 1 .. T
    BY <1>4, <1>8, <1>9, <1>11
  <2>3. \A i, j \in X : f[i] = f[j] => i = j
    BY <1>9, <2>2, SMTT(30)
  <2>4. \A m \in 1 .. T : \E i \in X : f[i] = m
    <3> SUFFICES ASSUME NEW m \in 1 .. T PROVE \E i \in X : s[i][2] = m
      OBVIOUS
    <3>1. PICK i \in 1 .. N : s[i] = <<n, m>>
      BY <1>7, <1>10
    <3> QED BY <1>11, <3>1
  <2>5. \A i \in X : f[i] \in 1 .. T
    BY <2>2
  <2>6. T \in Nat
    BY <1>6
  <2> HIDE DEF X, f, T
  <2>7. Cardinality(1 .. T) = Cardinality(X)
    BY <2>1, <2>3, <2>4, <2>5, SameNumber
  <2>8. Cardinality(X) = T
    BY <2>6, <2>7, FS_Interval
  <2> QED BY <2>8 DEF X, T
<1>15. \A i, j \in 1 .. N : i < j => content[r[i]].key <= content[r[j]].key
  BY <1>9, <1>11
<1> QED BY <1>11, <1>12, <1>13, <1>14, <1>15 DEF Lists, r, A

(* The inductive invariant: as long as nobody writes and no error is swallowed, the
   client has the readable rows of the pages it has asked for. *)
Calm ==
  /\ ~walk.disturbed /\ ~walk.cut /\ query.cursor = "none" /\ query.first = 1
  /\ query.sort /\ Distinct(content)

Chosen == Selected(query, content)
Page == PageRows(query, content, walk.number)
PagesGot == IF phase \in {"answered", "done"} THEN walk.number ELSE walk.number - 1

VisitedInv ==
  walk.number # 0 /\ Lists(query, content, walk.visited, Readable(query, content, RowsUpTo(query, content, PagesGot)))
FiltersInv ==
  phase \in {"rows", "count", "after", "answered", "done"} => Conditions(query) \cap {Error, Panic} = {}
IdsInv == phase = "rows" => ToSet(ids) = Page
RowsInv == phase \in {"count", "after"} => Lists(query, content, IdsOf(results), Page)
TotalInv == phase \in {"after", "answered"} => walk.misled \/ total = Cardinality(Chosen)
AnswerInv == phase = "answered" /\ answer = <<>> => Readable(query, content, Page) = {}
EndInv ==
  phase = "done" => \/ Cardinality(Chosen) <= walk.number * Size(query)
                    \/ IF walk.toLast THEN walk.misled ELSE \E i \in Chosen : ~Keeps(query, content[i])

WalkInv ==
  Calm => VisitedInv /\ FiltersInv /\ IdsInv /\ RowsInv /\ TotalInv /\ AnswerInv /\ EndInv

(* An empty walk is a list of no rows. *)
LEMMA WalkStart == ListInit => WalkInv
<1> SUFFICES ASSUME ListInit, Calm PROVE WalkInv
  BY DEF WalkInv
<1>1. /\ content \in Contents /\ query \in Queries /\ phase = "asking"
      /\ walk.visited = <<>> /\ walk.number = query.first
  BY DEF ListInit
<1> DEFINE A == Readable(query, content, RowsUpTo(query, content, PagesGot))
<1>2. A = {}
  <2>1. query.first = 1 /\ PagesGot = 0
    BY <1>1 DEF Calm, PagesGot
  <2>2. RowsUpTo(query, content, 0) = {}
    BY <1>1, PagesAre DEF Calm
  <2> QED BY <2>1, <2>2 DEF Readable
<1>3. Lists(query, content, <<>>, A)
  <2>1. <<>> \in Seq(Nat) /\ ToSet(<<>>) = {} /\ DOMAIN <<>> = {}
    BY DEF ToSet
  <2> HIDE DEF A
  <2> QED BY <1>2, <2>1 DEF Lists
<1>4. walk.number # 0
  BY <1>1 DEF Calm
<1> QED BY <1>1, <1>3, <1>4 DEF WalkInv, VisitedInv, FiltersInv, IdsInv, RowsInv, TotalInv, AnswerInv, EndInv

(* Every step keeps it. *)
LEMMA WalkStep == TypeInv /\ WalkInv /\ [ListNext]_listVars => WalkInv'
<1> SUFFICES ASSUME TypeInv, WalkInv, [ListNext]_listVars, Calm' PROVE WalkInv'
  BY DEF WalkInv
<1>0. /\ content \in Contents /\ query \in Queries /\ walk.number \in Nat /\ ListTypeOK
      /\ walk \in WalkType
  BY DEF TypeInv, ListTypeOK, WalkType
<1> USE DEF WalkInv, VisitedInv, FiltersInv, IdsInv, RowsInv, TotalInv, AnswerInv, EndInv, Calm,
            PagesGot, Page, Chosen
<1>1. CASE Ask
  BY <1>1 DEF Ask
<1>2. CASE BeforeList
  BY <1>2 DEF BeforeList
<1>3. CASE ReadIds
  <2>1. ToSet(ids') = PageRows(query, content, walk.number)
    BY <1>0, <1>3, ReadIdsPage DEF ReadIds
  <2> QED BY <1>3, <2>1 DEF ReadIds
<1>4. CASE ReadRows
  <2>1. ToSet(ids) = Page /\ ToSet(ids) \subseteq Selected(query, content) /\ query.sort
    BY <1>4 DEF ReadRows, PageRows
  <2>2. Lists(query, content, IdsOf(results'), Page)
    BY <1>0, <1>4, <2>1, ReadRowsLists
  <2> QED BY <1>4, <2>2 DEF ReadRows
<1>5. CASE GetTotalCount
  BY <1>0, <1>5 DEF GetTotalCount, WalkType
<1>6. CASE AnswerList
  <2> DEFINE n == walk.number
  <2> DEFINE got == Readable(query, content, RowsUpTo(query, content, n - 1))
  <2> DEFINE new == Readable(query, content, Page)
  <2>1. /\ phase = "after" /\ phase' = "answered" /\ Calm
        /\ UNCHANGED <<content, query, ids, results, total>>
        /\ walk' = [walk EXCEPT !.visited = walk.visited \o IdsOf(answer')]
        /\ IdsOf(answer') = IdsOf(Kept(query, results, content))
        /\ answer' \in Seq(AnswerRow)
    <3>1. walk' = [walk EXCEPT !.visited = walk.visited \o IdsOf(answer')]
          /\ IdsOf(answer') = IdsOf(Kept(query, results, content)) /\ answer' \in Seq(AnswerRow)
      BY <1>6, AnswerType
    <3>2. /\ phase = "after" /\ phase' = "answered"
          /\ UNCHANGED <<content, query, ids, results, total>>
      BY <1>6 DEF AnswerList
    <3> QED BY <1>0, <3>1, <3>2 DEF WalkType
  <2>2. /\ Lists(query, content, walk.visited, got) /\ n # 0 /\ n \in Nat
        /\ Lists(query, content, IdsOf(results), Page)
    BY <1>0, <2>1
  <2>3. /\ RowsUpTo(query, content, n) = RowsUpTo(query, content, n - 1) \cup Page
        /\ \A i \in RowsUpTo(query, content, n - 1), j \in Page : content[i].key < content[j].key
    BY <1>0, <2>1, <2>2, PagesAre
  <2>4. got \cup new \subseteq DOMAIN content /\ Page \subseteq DOMAIN content
    BY <1>0, SelectedFinite DEF Readable, RowsUpTo, PageRows
  <2>5. Lists(query, content, IdsOf(answer'), new)
    <3>1. results \in Seq(ReadRow)
      BY <1>0 DEF ListTypeOK, ReadRow
    <3> HIDE DEF Page
    <3> QED BY <2>1, <2>2, <2>4, <3>1, KeptLists
  <2>6. Lists(query, content, walk.visited \o IdsOf(answer'), got \cup new)
    <3>1. \A a \in got \cup new : content[a].key \in Int
      BY <1>0, <2>4, ContentIs
    <3>2. \A a \in got, b \in new : content[a].key < content[b].key
      BY <2>3 DEF Readable
    <3> HIDE DEF got, new
    <3> QED BY <2>2, <2>5, <3>1, <3>2, ListsJoin
  <2>7. got \cup new = Readable(query, content, RowsUpTo(query, content, n))
    BY <2>3 DEF Readable
  <2>8. walk'.visited = walk.visited \o IdsOf(answer') /\ walk'.number = n
        /\ walk'.misled = walk.misled
    BY <1>0, <2>1 DEF WalkType
  <2>9. VisitedInv'
    BY <2>1, <2>2, <2>6, <2>7, <2>8
  <2>10. answer' = <<>> => new = {}
    <3> SUFFICES ASSUME answer' = <<>> PROVE new = {}
      OBVIOUS
    <3>1. ToSet(IdsOf(answer')) = {}
      BY DEF ToSet, IdsOf
    <3> QED BY <2>5, <3>1 DEF Lists
  <2> QED BY <2>1, <2>8, <2>9, <2>10
<1>7. CASE NextPage
  <2> DEFINE n == walk.number
  <2>1. phase = "answered" /\ UNCHANGED <<content, query, ids, results, total, answer>>
    BY <1>7 DEF NextPage
  <2>2. CASE phase' = "asking"
    <3>1. walk' = [walk EXCEPT !.number = n + 1]
      BY <1>7, <2>2 DEF NextPage
    <3>2. walk'.number = n + 1 /\ walk'.number - 1 = n /\ walk'.number # 0
          /\ walk'.visited = walk.visited /\ walk'.cut = walk.cut
          /\ walk'.disturbed = walk.disturbed
      BY <1>0, <3>1 DEF WalkType
    <3> QED BY <2>1, <2>2, <3>2
  <2>3. CASE phase' # "asking"
    <3>1. /\ phase' = "done" /\ walk' = walk
          /\ n # 0 /\ query.cursor = "none" =>
               IF walk.toLast THEN n >= LastPage(query, total) ELSE answer = <<>>
      BY <1>7, <2>3 DEF NextPage
    <3>2. Calm /\ n # 0 /\ n \in Nat
      BY <1>0, <2>1, <3>1
    <3>3. Cardinality(Chosen) <= n * Size(query)
          \/ IF walk.toLast THEN walk.misled ELSE \E i \in Chosen : ~Keeps(query, content[i])
      <4>1. CASE walk.toLast
        <5>1. walk.misled \/ total = Cardinality(Chosen)
          BY <2>1, <3>2
        <5>2. n >= LastPage(query, total) /\ total \in Nat
          BY <1>0, <3>1, <3>2, <4>1 DEF ListTypeOK
        <5>3. total <= n * Size(query)
          BY <1>0, <3>2, <5>2, LastPageIsBehind
        <5> QED BY <4>1, <5>1, <5>3
      <4>2. CASE ~walk.toLast
        <5>1. Readable(query, content, Page) = {}
          BY <2>1, <3>1, <3>2, <4>2
        <5>2. (\E i \in Chosen : ~Keeps(query, content[i])) \/ Page = {}
          BY <5>1 DEF Readable, PageRows
        <5>3. Page = {} => Cardinality(Chosen) <= n * Size(query)
          BY <1>0, <3>2, PagesAre
        <5> QED BY <4>2, <5>2, <5>3
      <4> QED BY <4>1, <4>2
    <3> QED BY <2>1, <3>1, <3>2, <3>3
  <2> QED BY <2>2, <2>3
<1>8. CASE ListFail
  <2> DEFINE swallowed == query.nested /\ phase \in {"ids", "rows", "count"}
  <2>1. /\ phase \in {"before", "ids", "rows", "count", "after"}
        /\ phase' = IF swallowed THEN "after" ELSE "failed"
        /\ walk' = [walk EXCEPT !.cut = walk.cut \/ swallowed]
        /\ UNCHANGED <<content, query>>
    BY <1>8 DEF ListFail
  <2>2. walk'.cut = (walk.cut \/ swallowed) /\ walk'.visited = walk.visited
        /\ walk'.number = walk.number /\ walk'.disturbed = walk.disturbed
    BY <1>0, <2>1 DEF WalkType
  <2>3. ~swallowed /\ ~walk.cut
    BY <2>2
  <2> HIDE DEF swallowed
  <2>4. phase' = "failed" /\ Calm
    BY <2>1, <2>2, <2>3
  <2> QED BY <2>1, <2>2, <2>4
<1>9. CASE ListPanic
  BY <1>9 DEF ListPanic
<1>10. CASE CountExpires
  BY <1>10 DEF CountExpires
<1>11. ASSUME NEW c \in Contents, WriteTable(c)
       PROVE  WalkInv'
  BY <1>0, <1>11 DEF WriteTable, WalkType
<1>12. CASE UNCHANGED listVars
  BY <1>12 DEF listVars
<1> QED BY <1>1, <1>2, <1>3, <1>4, <1>5, <1>6, <1>7, <1>8, <1>9, <1>10, <1>11, <1>12 DEF ListNext

(* What the walk has in the end: in the done state, this is what the client was
   promised. *)
LEMMA WalkEnd == TypeInv /\ WalkInv => WalkSeesAll
<1> SUFFICES ASSUME TypeInv, WalkInv, phase = "done", query.first = 1, query.cursor = "none",
                    \A f \in query.filters : f.op \in DocumentedOperators,
                    ~walk.disturbed, ~walk.cut, KeysDiffer
             PROVE  LET seen == walk.visited
                        dropped == \E i \in Selected(query, content) : ~Keeps(query, content[i])
                    IN  /\ ToSet(seen) \subseteq Wanted
                        /\ \A i, j \in DOMAIN seen : i < j => content[seen[i]].key <= content[seen[j]].key
                        /\ \A n \in ToSet(seen) :
                             Cardinality({i \in DOMAIN seen : seen[i] = n}) = Times(query, content[n])
                        /\ (IF walk.toLast THEN ~walk.misled ELSE ~dropped) => ToSet(seen) = Wanted
  BY DEF WalkSeesAll
<1> DEFINE seen == walk.visited
<1> DEFINE n == walk.number
<1> DEFINE S == Selected(query, content)
<1>1. content \in Contents /\ query \in Queries /\ n \in Nat
  BY DEF TypeInv, ListTypeOK
<1>2. Calm /\ Distinct(content)
  BY DEF Calm, KeysDiffer, Distinct
<1>3. /\ n # 0 /\ Conditions(query) \cap {Error, Panic} = {}
      /\ Lists(query, content, seen, Readable(query, content, RowsUpTo(query, content, n)))
      /\ \/ Cardinality(S) <= n * Size(query)
         \/ IF walk.toLast THEN walk.misled ELSE \E i \in S : ~Keeps(query, content[i])
  BY <1>2 DEF WalkInv, VisitedInv, FiltersInv, EndInv, PagesGot, Chosen
<1>4. \A f \in query.filters : addFilter(f) # Error
  BY <1>3 DEF Conditions
<1>5. ASSUME NEW i \in DOMAIN content
      PROVE  (\A c \in Conditions(query) : Satisfies(c, content[i].value))
               <=> (\A f \in query.filters : Documented(f, content[i].value))
  <2>1. \A f \in query.filters :
          Satisfies(addFilter(f), content[i].value) <=> Documented(f, content[i].value)
    BY <1>4, DocumentedIsAsked
  <2> QED BY <2>1, Zenon DEF Conditions
<1>6. Readable(query, content, S) = Wanted
  BY <1>5, Zenon DEF Selected, Readable, Wanted
<1>7. ToSet(seen) \subseteq Wanted
  <2>1. RowsUpTo(query, content, n) \subseteq S
    BY DEF RowsUpTo
  <2>2. ToSet(seen) = Readable(query, content, RowsUpTo(query, content, n))
    BY <1>3 DEF Lists
  <2> HIDE DEF S
  <2> QED BY <1>6, <2>1, <2>2 DEF Readable
<1>8. Cardinality(S) <= n * Size(query) => ToSet(seen) = Wanted
  <2>1. Cardinality(S) <= n * Size(query) => RowsUpTo(query, content, n) = S
    BY <1>1, <1>2, <1>3, PagesAre
  <2>2. ToSet(seen) = Readable(query, content, RowsUpTo(query, content, n))
    BY <1>3 DEF Lists
  <2> HIDE DEF S
  <2> QED BY <1>6, <2>1, <2>2
<1>9. /\ \A i, j \in DOMAIN seen : i < j => content[seen[i]].key <= content[seen[j]].key
      /\ \A m \in ToSet(seen) :
           Cardinality({i \in DOMAIN seen : seen[i] = m}) = Times(query, content[m])
  BY <1>3 DEF Lists
<1> QED BY <1>3, <1>7, <1>8, <1>9

(* A client that walks from the first page over a table that nobody writes gets the
   rows it may read and asked for, in their order and each as often as the join has
   it, and all of them unless a total misled it or permissions emptied a page. *)
THEOREM WalksSeeAll == ListSpec => []WalkSeesAll
<1>1. ListInit => TypeInv /\ IncludesBelong /\ WalkInv
  BY TypeStart, WalkStart
<1>2. TypeInv /\ IncludesBelong /\ [ListNext]_listVars => TypeInv' /\ IncludesBelong'
  BY TypeStep
<1>3. TypeInv /\ WalkInv /\ [ListNext]_listVars => WalkInv'
  BY WalkStep
<1>4. TypeInv /\ WalkInv => WalkSeesAll
  BY WalkEnd
<1> QED BY <1>1, <1>2, <1>3, <1>4, PTL DEF ListSpec
=============================================================================
