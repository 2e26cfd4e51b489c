--------------------------- MODULE FunctionProofs ----------------------------
(***************************************************************************)
(* Proofs about the pure functions: that they compute what they have to    *)
(* for every input, and so for the inputs of MCFunctions.  A loop is a     *)
(* recursive function over the places of a sequence; what holds of it is   *)
(* shown place by place (CountUp), and that there is such a function, by   *)
(* Iteration.                                                              *)
(***************************************************************************)
EXTENDS MCFunctions, SetLemmas, SequenceTheorems

-----------------------------------------------------------------------------
(* The routing of an event (router.py, ruleset.py).                        *)

\* The rows of a table: an id is the key, and the targets of a row are finitely many.
IsTable(rows) ==
  /\ IsFiniteSet(rows)
  /\ \A r \in rows : r.id \in Int /\ r.order \in Int /\ r.stop \in BOOLEAN /\ IsFiniteSet(r.targets)
  /\ \A r, s \in rows : r.id = s.id => r = s

InOrderOfRules(rows) == {p \in rows \X rows : Before(p[1], p[2])}

\* Before (ruleset.py's sort key) orders the rows of a table.
LEMMA RowsAreOrdered ==
  ASSUME NEW rows, IsTable(rows)
  PROVE  Orders(InOrderOfRules(rows), rows)
<1>1. \A r, s \in rows : <<r, s>> \in InOrderOfRules(rows) <=> Before(r, s)
  BY DEF InOrderOfRules
<1>2. \A r \in rows : ~Before(r, r)
  BY DEF Before, IsTable
<1>3. \A r, s \in rows : r = s \/ Before(r, s) \/ Before(s, r)
  BY DEF Before, IsTable
<1>4. \A r, s, t \in rows : Before(r, s) /\ Before(s, t) => Before(r, t)
  BY DEF Before, IsTable
<1> QED
  BY <1>1, <1>2, <1>3, <1>4 DEF Orders

\* What InTurn gives: every row once, in the order of the rules.
Listed(rules, rows) ==
  /\ rules \in Seq(rows)
  /\ \A i, j \in 1 .. Len(rules) : i < j <=> Before(rules[i], rules[j])
  /\ \A r \in rows : \E i \in 1 .. Len(rules) : rules[i] = r

\* Sorting lists every row once, an earlier one before a later.
LEMMA RowsInTurn ==
  ASSUME NEW rows, IsTable(rows)
  PROVE  Listed(InTurn(rows), rows)
<1> DEFINE R == InOrderOfRules(rows)
           n == Cardinality(rows)
           seq == InTurn(rows)
<1>1. IsFiniteSet(rows) /\ n \in Nat
  BY FS_CardinalityType DEF IsTable
<1>2. Orders(R, rows)
  BY RowsAreOrdered
<1>3. \A r, s \in rows : <<r, s>> \in R <=> Before(r, s)
  BY DEF InOrderOfRules
<1> HIDE DEF R
<1>4. PICK ranks : Ranks(ranks, rows, R)
  BY <1>1, <1>2, RankingExists
<1>5. /\ ranks \in [1 .. n -> rows]
      /\ \A i, j \in DOMAIN ranks : i < j => Before(ranks[i], ranks[j])
  BY <1>3, <1>4 DEF Ranks
<1>6. /\ seq \in [1 .. n -> rows]
      /\ \A i, j \in DOMAIN seq : i < j => Before(seq[i], seq[j])
  BY <1>5 DEF InTurn
<1> HIDE DEF seq
<1>7. Ranks(seq, rows, R)
  BY <1>3, <1>6 DEF Ranks
<1>8. seq \in Seq(rows) /\ Len(seq) = n
  BY <1>1, <1>6
<1>9. ASSUME NEW i \in 1 .. n, NEW j \in 1 .. n
      PROVE  i < j <=> Before(seq[i], seq[j])
  <2>1. seq[i] \in rows /\ seq[j] \in rows
    BY <1>6
  <2>2. ~Before(seq[i], seq[i]) /\ ~(Before(seq[i], seq[j]) /\ Before(seq[j], seq[i]))
    BY <2>1 DEF Before, IsTable
  <2>3. i < j => Before(seq[i], seq[j])
    BY <1>6
  <2>4. j < i => Before(seq[j], seq[i])
    BY <1>6
  <2> QED
    BY <1>1, <2>2, <2>3, <2>4
<1>10. \A r \in rows : \E i \in 1 .. n : seq[i] = r
  BY <1>1, <1>2, <1>7, RankingIsOnto
<1> HIDE DEF n
<1>11. Listed(seq, rows)
  BY <1>8, <1>9, <1>10 DEF Listed
<1> QED
  BY <1>11 DEF seq

\* A finite set as a sequence: every element once.
LEMMA SetAsSequence ==
  ASSUME NEW S, IsFiniteSet(S)
  PROVE  /\ SetToSeq(S) \in Seq(S)
         /\ ToSet(SetToSeq(S)) = S
         /\ \A i, j \in 1 .. Len(SetToSeq(S)) : SetToSeq(S)[i] = SetToSeq(S)[j] => i = j
<1> DEFINE n == Cardinality(S)
           seq == SetToSeq(S)
<1>1. n \in Nat
  BY FS_CardinalityType
<1>2. PICK f \in [1 .. n -> S] : f \in Bijection(1 .. n, S)
  <2>1. ExistsBijection(1 .. n, S)
    BY FS_NatBijection, FS_CountingElements
  <2> QED
    BY <2>1 DEF ExistsBijection, Bijection, Injection
<1>3. IsInjective(f)
  BY <1>2 DEF Bijection, Injection
<1>4. seq \in [1 .. n -> S] /\ IsInjective(seq)
  BY <1>3 DEF SetToSeq
<1> HIDE DEF seq
<1>5. seq \in Injection(1 .. n, S)
  BY <1>4 DEF Injection
<1>6. IsFiniteSet(1 .. n) /\ Cardinality(1 .. n) = n
  BY <1>1, FS_Interval
<1>7. seq \in Surjection(1 .. n, S)
  BY <1>5, <1>6, FS_Injection
<1>8. \A x \in S : \E i \in 1 .. n : seq[i] = x
  BY <1>7 DEF Surjection
<1>9. seq \in Seq(S) /\ Len(seq) = n /\ DOMAIN seq = 1 .. n
  BY <1>1, <1>4
<1>10. ToSet(seq) = S
  BY <1>4, <1>8, <1>9 DEF ToSet
<1> HIDE DEF n
<1>11. \A i, j \in 1 .. Len(seq) : seq[i] = seq[j] => i = j
  BY <1>4, <1>9 DEF IsInjective
<1> QED
  BY <1>9, <1>10, <1>11 DEF seq

\* A sequence without repetition is as long as its set is large.
LEMMA AllDifferent ==
  ASSUME NEW S, NEW seq \in Seq(S),
         \A i, j \in 1 .. Len(seq) : seq[i] = seq[j] => i = j
  PROVE  Len(seq) = Cardinality(ToSet(seq))
<1>1. Len(seq) \in Nat /\ DOMAIN seq = 1 .. Len(seq)
  BY LenProperties
<1>2. ToSet(seq) = {seq[i] : i \in 1 .. Len(seq)}
  BY <1>1 DEF ToSet
<1>3. seq \in [1 .. Len(seq) -> ToSet(seq)]
  BY <1>1, <1>2
<1>4. seq \in Bijection(1 .. Len(seq), ToSet(seq))
  BY <1>2, <1>3 DEF Bijection, Injection, Surjection, IsInjective
<1>5. ExistsBijection(1 .. Len(seq), ToSet(seq))
  BY <1>4 DEF ExistsBijection
<1> QED
  BY <1>1, <1>5, FS_CountingElements

\* The place of a rule that the walk reaches and that matches.
Reached(rules, sev, i) ==
  Matches(rules[i], sev) /\ \A j \in 1 .. i - 1 : Matches(rules[j], sev) => ~rules[j].stop

\* Target t is due on the i-th rule, the first reached one that has it.
DueAt(rules, sev, i, t) ==
  /\ Reached(rules, sev, i) /\ t \in rules[i].targets
  /\ \A j \in 1 .. i - 1 : Reached(rules, sev, j) => t \notin rules[j].targets

\* What the walk has done after n rules.
WalkedTo(rules, sev, n, walk) ==
  /\ walk.sent \in Seq({r.id : r \in ToSet(rules)} \X UNION {r.targets : r \in ToSet(rules)})
  /\ walk.over = \E i \in 1 .. n : Matches(rules[i], sev) /\ rules[i].stop
  /\ \A d : d \in ToSet(walk.sent) <=>
       \E i \in 1 .. n : \E t \in rules[i].targets : DueAt(rules, sev, i, t) /\ d = <<rules[i].id, t>>
  /\ \A t : (\E d \in ToSet(walk.sent) : d[2] = t) <=>
       \E i \in 1 .. n : Reached(rules, sev, i) /\ t \in rules[i].targets
  /\ \A k, l \in 1 .. Len(walk.sent) : walk.sent[k][2] = walk.sent[l][2] => k = l

\* Before the first rule, nothing is dispatched.
LEMMA NothingWalked ==
  ASSUME NEW rules, NEW sev
  PROVE  WalkedTo(rules, sev, 0, [sent |-> <<>>, over |-> FALSE])
<1>1. ToSet(<<>>) = {}
  BY DEF ToSet
<1>2. \A S : <<>> \in Seq(S) /\ Len(<<>>) = 0
  OBVIOUS
<1> DEFINE w == [sent |-> <<>>, over |-> FALSE]
<1>3. w.sent = <<>> /\ w.over = FALSE
  OBVIOUS
<1> HIDE DEF w
<1>4. WalkedTo(rules, sev, 0, w)
  <2>1. 1 .. 0 = {} /\ \A k \in 1 .. Len(<<>>) : FALSE
    OBVIOUS
  <2> QED
    BY <1>1, <1>2, <1>3, <2>1 DEF WalkedTo
<1> QED
  BY <1>4 DEF w

\* A rule that the walk passes by changes nothing.
LEMMA PassedBy ==
  ASSUME NEW rules, NEW sev, NEW n \in Nat \ {0}, NEW walk,
         WalkedTo(rules, sev, n - 1, walk),
         walk.over \/ ~Matches(rules[n], sev)
  PROVE  WalkedTo(rules, sev, n, walk)
<1>1. ~Reached(rules, sev, n)
  BY DEF WalkedTo, Reached
<1>2. \A t : ~DueAt(rules, sev, n, t)
  BY <1>1 DEF DueAt
<1>3. 1 .. n = (1 .. n - 1) \cup {n}
  OBVIOUS
<1>4. walk.over = \E i \in 1 .. n : Matches(rules[i], sev) /\ rules[i].stop
  BY <1>3 DEF WalkedTo
<1>5. \A d : d \in ToSet(walk.sent) <=>
        \E i \in 1 .. n : \E t \in rules[i].targets : DueAt(rules, sev, i, t) /\ d = <<rules[i].id, t>>
  BY <1>2, <1>3 DEF WalkedTo
<1>6. \A t : (\E d \in ToSet(walk.sent) : d[2] = t) <=>
        \E i \in 1 .. n : Reached(rules, sev, i) /\ t \in rules[i].targets
  BY <1>1, <1>3 DEF WalkedTo
<1> QED
  BY <1>4, <1>5, <1>6 DEF WalkedTo

\* The dispatches of one rule, appended to those before.
For(a, due) == [i \in DOMAIN due |-> <<a, due[i]>>]
Extended(sent, a, due) == sent \o For(a, due)

AppendedTo(sent, a, due, all) ==
  /\ Len(all) = Len(sent) + Len(due)
  /\ \A i \in 1 .. Len(sent) : all[i] = sent[i]
  /\ \A i \in 1 .. Len(due) : all[Len(sent) + i] = <<a, due[i]>>
  /\ \A d : d \in ToSet(all) <=> d \in ToSet(sent) \/ \E t \in ToSet(due) : d = <<a, t>>

\* What a sequence holds to which a rule's dispatches are appended.
LEMMA Appended ==
  ASSUME NEW S, NEW B, NEW a, NEW sent \in Seq(S), NEW due \in Seq(B),
         \A t \in B : <<a, t>> \in S
  PROVE  AppendedTo(sent, a, due, Extended(sent, a, due)) /\ Extended(sent, a, due) \in Seq(S)
<1> DEFINE more == For(a, due)
           all == sent \o more
<1>1. Len(due) \in Nat /\ DOMAIN due = 1 .. Len(due) /\ Len(sent) \in Nat /\ DOMAIN sent = 1 .. Len(sent)
  BY LenProperties
<1>2. more = [i \in 1 .. Len(due) |-> <<a, due[i]>>]
  BY <1>1 DEF For
<1>3. \A i \in 1 .. Len(due) : due[i] \in B /\ more[i] = <<a, due[i]>> /\ more[i] \in S
  BY <1>2
<1>4. more \in Seq(S) /\ Len(more) = Len(due)
  BY <1>1, <1>2, <1>3
<1> HIDE DEF more
<1>5. /\ all \in Seq(S) /\ Len(all) = Len(sent) + Len(due)
      /\ \A i \in 1 .. Len(sent) + Len(due) :
           all[i] = IF i <= Len(sent) THEN sent[i] ELSE more[i - Len(sent)]
  <2>1. /\ sent \o more \in Seq(S) /\ Len(sent \o more) = Len(sent) + Len(more)
        /\ \A i \in 1 .. Len(sent) + Len(more) :
             (sent \o more)[i] = IF i <= Len(sent) THEN sent[i] ELSE more[i - Len(sent)]
    BY <1>4, ConcatProperties
  <2> QED
    BY <1>4, <2>1
<1>6. \A i \in 1 .. Len(sent) : all[i] = sent[i]
  BY <1>1, <1>5
<1>7. \A i \in 1 .. Len(due) : all[Len(sent) + i] = <<a, due[i]>>
  <2> SUFFICES ASSUME NEW i \in 1 .. Len(due)
               PROVE  all[Len(sent) + i] = <<a, due[i]>>
    OBVIOUS
  <2>1. Len(sent) + i \in 1 .. Len(sent) + Len(due) /\ ~(Len(sent) + i <= Len(sent))
    BY <1>1
  <2>2. (Len(sent) + i) - Len(sent) = i
    BY <1>1
  <2> QED
    BY <1>3, <1>5, <2>1, <2>2
<1>8. DOMAIN all = 1 .. Len(sent) + Len(due)
  BY <1>5, LenProperties
<1>9. \A i \in 1 .. Len(sent) + Len(due) : i \in 1 .. Len(sent) \/ \E k \in 1 .. Len(due) : i = Len(sent) + k
  <2> SUFFICES ASSUME NEW i \in 1 .. Len(sent) + Len(due), i \notin 1 .. Len(sent)
               PROVE  \E k \in 1 .. Len(due) : i = Len(sent) + k
    OBVIOUS
  <2>1. i - Len(sent) \in 1 .. Len(due) /\ i = Len(sent) + (i - Len(sent))
    BY <1>1
  <2> QED
    BY <2>1
<1>10. \A k \in 1 .. Len(due) : Len(sent) + k \in 1 .. Len(sent) + Len(due)
  BY <1>1
<1>11. \A i \in 1 .. Len(sent) : i \in 1 .. Len(sent) + Len(due)
  BY <1>1
<1>12. ToSet(all) = {all[i] : i \in 1 .. Len(sent) + Len(due)}
  BY <1>8 DEF ToSet
<1>13. ToSet(due) = {due[i] : i \in 1 .. Len(due)} /\ ToSet(sent) = {sent[i] : i \in 1 .. Len(sent)}
  BY <1>1 DEF ToSet
<1>14. ToSet(all) = ToSet(sent) \cup {<<a, t>> : t \in ToSet(due)}
  <2> HIDE DEF all
  <2>1. ASSUME NEW d \in ToSet(all)
        PROVE  d \in ToSet(sent) \cup {<<a, t>> : t \in ToSet(due)}
    <3>1. PICK i \in 1 .. Len(sent) + Len(due) : d = all[i]
      BY <1>12
    <3> QED
      BY <1>6, <1>7, <1>9, <1>13, <3>1
  <2>2. ASSUME NEW d \in ToSet(sent)
        PROVE  d \in ToSet(all)
    BY <1>6, <1>11, <1>12, <1>13
  <2>3. ASSUME NEW t \in ToSet(due)
        PROVE  <<a, t>> \in ToSet(all)
    BY <1>7, <1>10, <1>12, <1>13
  <2> QED
    BY <2>1, <2>2, <2>3
<1> QED
  BY <1>5, <1>6, <1>7, <1>14 DEF more, Extended, AppendedTo

\* A rule that the walk reaches: its new targets are dispatched, each once.
LEMMA Dispatched ==
  ASSUME NEW rows, NEW rules \in Seq(rows), NEW sev, NEW n \in 1 .. Len(rules), NEW walk,
         WalkedTo(rules, sev, n - 1, walk), ~walk.over, Matches(rules[n], sev),
         rules[n].stop \in BOOLEAN, IsFiniteSet(rules[n].targets)
  PROVE  WalkedTo(rules, sev, n, WalkRule(sev, walk, rules[n]))
<1> DEFINE r == rules[n]
           D == {t \in r.targets : \A d \in ToSet(walk.sent) : d[2] # t}
           due == SetToSeq(D)
           sent == Extended(walk.sent, r.id, due)
           Ids == {q.id : q \in ToSet(rules)}
           Targets == UNION {q.targets : q \in ToSet(rules)}
           S == Ids \X Targets
           reaches(i, t) == Reached(rules, sev, i) /\ t \in rules[i].targets
<1>1. WalkRule(sev, walk, r) = [sent |-> sent, over |-> r.stop]
  BY DEF WalkRule, For, Extended
<1>2. /\ due \in Seq(D) /\ ToSet(due) = D
      /\ \A i, j \in 1 .. Len(due) : due[i] = due[j] => i = j
  <2>1. IsFiniteSet(D)
    BY FS_Subset
  <2> HIDE DEF D
  <2> QED
    BY <2>1, SetAsSequence
<1>3. r.id \in Ids /\ \A t \in D : <<r.id, t>> \in S
  <2>1. n \in DOMAIN rules
    BY LenProperties
  <2>2. r \in ToSet(rules)
    BY <2>1 DEF ToSet
  <2> QED
    BY <2>2
<1>4. walk.sent \in Seq(S)
  BY DEF WalkedTo
<1> HIDE DEF due, S
<1>5. /\ sent \in Seq(S)
      /\ Len(sent) = Len(walk.sent) + Len(due)
      /\ \A i \in 1 .. Len(walk.sent) : sent[i] = walk.sent[i]
      /\ \A i \in 1 .. Len(due) : sent[Len(walk.sent) + i] = <<r.id, due[i]>>
      /\ \A d : d \in ToSet(sent) <=>
           d \in ToSet(walk.sent) \/ \E t \in ToSet(due) : d = <<r.id, t>>
  <2> DEFINE a == r.id
             before == walk.sent
             all == Extended(before, a, due)
  <2>1. (\A t \in D : <<a, t>> \in S) /\ before \in Seq(S) /\ due \in Seq(D)
    BY <1>2, <1>3, <1>4
  <2> HIDE DEF D, r, a, before
  <2>2. AppendedTo(before, a, due, all) /\ all \in Seq(S)
    BY <2>1, Appended
  <2> QED
    BY <2>2 DEF a, before, AppendedTo
<1> HIDE DEF sent
<1>6. 1 .. n = (1 .. n - 1) \cup {n} /\ n \in 1 .. n /\ n \in Nat
  BY LenProperties
<1>7. \A i \in 1 .. n - 1 : Matches(rules[i], sev) => ~rules[i].stop
  BY DEF WalkedTo
<1>8. Reached(rules, sev, n)
  BY <1>7 DEF Reached
<1>9. \A t : (\E d \in ToSet(walk.sent) : d[2] = t) <=> \E i \in 1 .. n - 1 : reaches(i, t)
  BY DEF WalkedTo
<1>10. \A t : DueAt(rules, sev, n, t) <=> t \in D
  BY <1>8, <1>9 DEF DueAt
<1>11. r.stop = \E i \in 1 .. n : Matches(rules[i], sev) /\ rules[i].stop
  BY <1>6, <1>7
<1>12. \A d : d \in ToSet(sent) <=>
         \E i \in 1 .. n : \E t \in rules[i].targets : DueAt(rules, sev, i, t) /\ d = <<rules[i].id, t>>
  <2> SUFFICES ASSUME NEW d
               PROVE  d \in ToSet(sent) <=>
                        \E i \in 1 .. n : \E t \in rules[i].targets :
                          DueAt(rules, sev, i, t) /\ d = <<rules[i].id, t>>
    OBVIOUS
  <2>1. d \in ToSet(walk.sent) <=>
          \E i \in 1 .. n - 1 : \E t \in rules[i].targets :
            DueAt(rules, sev, i, t) /\ d = <<rules[i].id, t>>
    BY DEF WalkedTo
  <2>2. (\E t \in ToSet(due) : d = <<r.id, t>>) <=>
          \E t \in rules[n].targets : DueAt(rules, sev, n, t) /\ d = <<rules[n].id, t>>
    BY <1>2, <1>10
  <2> QED
    BY <1>5, <1>6, <2>1, <2>2
<1>13. \A t : (\E d \in ToSet(sent) : d[2] = t) <=> \E i \in 1 .. n : reaches(i, t)
  <2> SUFFICES ASSUME NEW t
               PROVE  (\E d \in ToSet(sent) : d[2] = t) <=> \E i \in 1 .. n : reaches(i, t)
    OBVIOUS
  <2>1. (\E d \in ToSet(sent) : d[2] = t) <=> (\E d \in ToSet(walk.sent) : d[2] = t) \/ t \in D
    <3> HIDE DEF D, r
    <3>1. \A u \in D : <<r.id, u>> \in ToSet(sent) /\ <<r.id, u>>[2] = u
      BY <1>2, <1>5
    <3>2. ASSUME NEW d \in ToSet(sent), d[2] = t, d \notin ToSet(walk.sent)
          PROVE  t \in D
      <4>1. PICK u \in D : d = <<r.id, u>>
        BY <1>2, <1>5, <3>2
      <4> QED
        BY <3>2, <4>1
    <3>3. ToSet(walk.sent) \subseteq ToSet(sent)
      BY <1>5
    <3> QED
      BY <3>1, <3>2, <3>3
  <2>2. t \in D \/ (\E d \in ToSet(walk.sent) : d[2] = t) <=>
          t \in r.targets \/ (\E d \in ToSet(walk.sent) : d[2] = t)
    OBVIOUS
  <2>3. reaches(n, t) <=> t \in r.targets
    BY <1>8
  <2>4. (\E i \in 1 .. n : reaches(i, t)) <=> (\E i \in 1 .. n - 1 : reaches(i, t)) \/ reaches(n, t)
    <3> HIDE DEF reaches
    <3> QED
      BY <1>6
  <2>5. (\E d \in ToSet(walk.sent) : d[2] = t) <=> \E i \in 1 .. n - 1 : reaches(i, t)
    BY <1>9
  <2> HIDE DEF D, reaches, r
  <2> QED
    BY <2>1, <2>2, <2>3, <2>4, <2>5
<1>14. \A k, l \in 1 .. Len(sent) : sent[k][2] = sent[l][2] => k = l
  <2> DEFINE m == Len(walk.sent)
  <2>1. m \in Nat /\ Len(due) \in Nat
    BY <1>2, <1>4, LenProperties
  <2>2. \A k \in 1 .. m : walk.sent[k] \in ToSet(walk.sent)
    BY <1>4, LenProperties DEF ToSet
  <2>3. \A i \in 1 .. Len(due) : due[i] \in D
    BY <1>2
  <2>4. ASSUME NEW k \in 1 .. m, NEW i \in 1 .. Len(due), walk.sent[k][2] = due[i]
        PROVE  FALSE
    BY <2>2, <2>3, <2>4
  <2>5. \A k, l \in 1 .. m : walk.sent[k][2] = walk.sent[l][2] => k = l
    BY DEF WalkedTo
  <2>6. \A k \in 1 .. Len(sent) :
          \/ k \in 1 .. m /\ sent[k] = walk.sent[k]
          \/ k - m \in 1 .. Len(due) /\ k = m + (k - m) /\ sent[k] = <<r.id, due[k - m]>>
    <3> SUFFICES ASSUME NEW k \in 1 .. Len(sent), k \notin 1 .. m
                 PROVE  k - m \in 1 .. Len(due) /\ k = m + (k - m) /\ sent[k] = <<r.id, due[k - m]>>
      BY <1>5
    <3>1. Len(sent) = m + Len(due)
      BY <1>5
    <3>2. k - m \in 1 .. Len(due) /\ k = m + (k - m)
      BY <2>1, <3>1
    <3>3. sent[m + (k - m)] = <<r.id, due[k - m]>>
      BY <1>5, <3>2
    <3> QED
      BY <3>2, <3>3
  <2> HIDE DEF m, D, r
  <2> SUFFICES ASSUME NEW k \in 1 .. Len(sent), NEW l \in 1 .. Len(sent), sent[k][2] = sent[l][2]
               PROVE  k = l
    OBVIOUS
  <2>7. k \in Int /\ l \in Int
    BY <1>5, LenProperties
  <2>8. CASE k \in 1 .. m /\ l \in 1 .. m /\ sent[k] = walk.sent[k] /\ sent[l] = walk.sent[l]
    BY <2>5, <2>8
  <2>9. CASE /\ k - m \in 1 .. Len(due) /\ sent[k] = <<r.id, due[k - m]>>
             /\ l - m \in 1 .. Len(due) /\ sent[l] = <<r.id, due[l - m]>>
    <3>1. due[k - m] = due[l - m]
      BY <2>9
    <3>2. k - m = l - m
      BY <1>2, <2>9, <3>1
    <3> QED
      BY <2>1, <2>7, <3>2
  <2>10. CASE /\ k \in 1 .. m /\ sent[k] = walk.sent[k]
              /\ l - m \in 1 .. Len(due) /\ sent[l] = <<r.id, due[l - m]>>
    BY <2>4, <2>10
  <2>11. CASE /\ l \in 1 .. m /\ sent[l] = walk.sent[l]
              /\ k - m \in 1 .. Len(due) /\ sent[k] = <<r.id, due[k - m]>>
    BY <2>4, <2>11
  <2> QED
    BY <2>6, <2>8, <2>9, <2>10, <2>11
<1> DEFINE w == [sent |-> sent, over |-> r.stop]
<1>15. w.sent = sent /\ w.over = r.stop
  OBVIOUS
<1>16. sent \in Seq(Ids \X Targets)
  BY <1>5 DEF S
<1> HIDE DEF w, r, D
<1>17. WalkedTo(rules, sev, n, w)
  BY <1>11, <1>12, <1>13, <1>14, <1>15, <1>16 DEF WalkedTo
<1> QED
  BY <1>1, <1>17 DEF w, r

WalkStates(rules) ==
  [sent : Seq({r.id : r \in ToSet(rules)} \X UNION {r.targets : r \in ToSet(rules)}), over : BOOLEAN]

\* The rows of a compiled ruleset, as far as the walk depends on them.
Walkable(rules) == \A i \in 1 .. Len(rules) : rules[i].stop \in BOOLEAN /\ IsFiniteSet(rules[i].targets)

\* Every rule leaves a state of the walk.
LEMMA WalkRuleType ==
  ASSUME NEW rows, NEW rules \in Seq(rows), Walkable(rules), NEW sev,
         NEW n \in 1 .. Len(rules), NEW walk \in WalkStates(rules)
  PROVE  WalkRule(sev, walk, rules[n]) \in WalkStates(rules)
<1> DEFINE r == rules[n]
           a == r.id
           before == walk.sent
           D == {t \in r.targets : \A d \in ToSet(walk.sent) : d[2] # t}
           due == SetToSeq(D)
           all == Extended(before, a, due)
           S == {q.id : q \in ToSet(rules)} \X UNION {q.targets : q \in ToSet(rules)}
<1>1. WalkRule(sev, walk, r) = IF walk.over \/ ~Matches(r, sev) THEN walk ELSE [sent |-> all, over |-> r.stop]
  BY DEF WalkRule, For, Extended
<1>2. due \in Seq(D)
  <2>1. IsFiniteSet(D)
    BY FS_Subset DEF Walkable
  <2> HIDE DEF D
  <2> QED
    BY <2>1, SetAsSequence
<1>3. \A t \in D : <<a, t>> \in S
  <2>1. n \in DOMAIN rules
    BY LenProperties
  <2>2. r \in ToSet(rules)
    BY <2>1 DEF ToSet
  <2> QED
    BY <2>2
<1>4. before \in Seq(S) /\ r.stop \in BOOLEAN
  BY DEF WalkStates, Walkable
<1>5. all \in Seq(S)
  <2> HIDE DEF D, S, a, before, due
  <2> QED
    BY <1>2, <1>3, <1>4, Appended
<1>6. [sent |-> all, over |-> r.stop] \in WalkStates(rules)
  <2> HIDE DEF all, r
  <2> QED
    BY <1>4, <1>5 DEF WalkStates
<1> QED
  BY <1>1, <1>6

\* The walk over the whole ruleset.
LEMMA WalkedToTheEnd ==
  ASSUME NEW rows, NEW rules \in Seq(rows), Walkable(rules), NEW sev
  PROVE  \E walk : WalkedTo(rules, sev, Len(rules), walk) /\ Walk(rules, sev) = walk.sent
<1> DEFINE N == Len(rules)
           W == WalkStates(rules)
           b == [sent |-> <<>>, over |-> FALSE]
           G == [n \in 1 .. N |-> [w \in W |-> WalkRule(sev, w, rules[n])]]
           Is(f) == f = [n \in 0 .. N |-> IF n = 0 THEN b ELSE WalkRule(sev, f[n - 1], rules[n])]
           walk == CHOOSE f : Is(f)
<1>1. N \in Nat
  BY LenProperties
<1>2. b \in W
  BY EmptySeq DEF WalkStates
<1>3. G \in [1 .. N -> [W -> W]]
  <2> HIDE DEF W
  <2>1. \A n \in 1 .. N : \A w \in W : WalkRule(sev, w, rules[n]) \in W
    BY WalkRuleType DEF W
  <2> QED
    BY <2>1
<1>4. PICK g \in [0 .. N -> W] : Iterates(g, N, b, G)
  <2> HIDE DEF N, W, b, G
  <2> QED
    BY <1>1, <1>2, <1>3, Iteration
<1>5. Is(g)
  <2>1. g[0] = b
    BY <1>4 DEF Iterates
  <2>2. ASSUME NEW n \in 1 .. N
        PROVE  g[n] = WalkRule(sev, g[n - 1], rules[n])
    <3>1. n - 1 \in 0 .. N
      BY <1>1
    <3> HIDE DEF W, N
    <3>2. g[n] = G[n][g[n - 1]] /\ g[n - 1] \in W
      BY <1>4, <3>1 DEF Iterates
    <3> QED
      BY <3>2
  <2>3. \A n \in 0 .. N : n = 0 \/ n \in 1 .. N
    BY <1>1
  <2> HIDE DEF N, W, b, G
  <2>4. \A n \in 0 .. N : g[n] = IF n = 0 THEN b ELSE WalkRule(sev, g[n - 1], rules[n])
    BY <1>1, <2>1, <2>2, <2>3
  <2> QED
    BY <1>4, <2>4
<1>6. Is(walk)
  <2> HIDE DEF Is
  <2> QED
    BY <1>5
<1>7. Walk(rules, sev) = walk[N].sent
  BY DEF Walk, ForEach
<1> HIDE DEF walk
<1>8. walk[0] = b /\ \A n \in 1 .. N : walk[n] = WalkRule(sev, walk[n - 1], rules[n])
  <2> HIDE DEF b
  <2>1. \A n \in 0 .. N : walk[n] = IF n = 0 THEN b ELSE WalkRule(sev, walk[n - 1], rules[n])
    BY <1>6
  <2> QED
    BY <1>1, <2>1
<1> DEFINE P == {n \in 0 .. N : WalkedTo(rules, sev, n, walk[n])}
<1>9. 0 \in P
  BY <1>1, <1>8, NothingWalked
<1>10. ASSUME NEW n \in 1 .. N, n - 1 \in P
       PROVE  n \in P
  <2>1. WalkedTo(rules, sev, n - 1, walk[n - 1]) /\ n \in Nat \ {0}
    BY <1>10
  <2>2. CASE walk[n - 1].over \/ ~Matches(rules[n], sev)
    <3>1. WalkRule(sev, walk[n - 1], rules[n]) = walk[n - 1]
      BY <2>2 DEF WalkRule
    <3> QED
      BY <1>8, <2>1, <2>2, <3>1, PassedBy
  <2>3. CASE ~(walk[n - 1].over \/ ~Matches(rules[n], sev))
    <3>1. WalkedTo(rules, sev, n, WalkRule(sev, walk[n - 1], rules[n]))
      BY <2>1, <2>3, Dispatched DEF Walkable
    <3> QED
      BY <1>8, <3>1
  <2> QED
    BY <2>2, <2>3
<1>11. N \in P
  <2>1. \A n \in 1 .. N : n - 1 \in P => n \in P
    BY <1>10
  <2> HIDE DEF P, N
  <2>2. \A n \in 0 .. N : n \in P
    BY <1>1, <1>9, <2>1, CountUp
  <2> QED
    BY <1>1, <2>2
<1> QED
  BY <1>7, <1>11

\* Compiling any finite table of rules and walking over it (Ruleset.reload,
\* _consider_one) dispatches to each target of a rule that the event meets exactly
\* once, for the first such rule that no block shields.
THEOREM TargetsNotifiedOnce ==
  ASSUME NEW rows, IsTable(rows), NEW sev
  PROVE  /\ ToSet(Routed(rows, sev)) = Due(rows, sev)
         /\ Len(Routed(rows, sev)) = Cardinality(ToSet(Routed(rows, sev)))
<1> DEFINE K == {r \in Enabled(rows) : r.targets # {} \/ r.stop}
           rules == InTurn(K)
           sent == Routed(rows, sev)
           M == Met(rows, sev)
<1>1. K \subseteq Enabled(rows) /\ Enabled(rows) \subseteq rows
  BY DEF Enabled
<1>2. IsTable(K)
  BY <1>1, FS_Subset DEF IsTable
<1>3. Listed(rules, K)
  <2> HIDE DEF K
  <2> QED
    BY <1>2, RowsInTurn
<1>4. PICK walk : WalkedTo(rules, sev, Len(rules), walk) /\ Walk(rules, sev) = walk.sent
  <2> HIDE DEF K, rules
  <2>1. rules \in Seq(K)
    BY <1>3 DEF Listed
  <2>2. Walkable(rules)
    BY <1>2, <2>1 DEF IsTable, Walkable
  <2> QED
    BY <2>1, <2>2, WalkedToTheEnd
<1>5. sent = walk.sent
  BY <1>4 DEF Routed, Compile
<1> HIDE DEF rules, sent
<1>6. rules \in Seq(K) /\ Len(rules) \in Nat /\ \A i \in 1 .. Len(rules) : rules[i] \in K
  BY <1>3, LenProperties DEF Listed
<1>7. \A i, j \in 1 .. Len(rules) : i < j <=> Before(rules[i], rules[j])
  BY <1>3 DEF Listed
<1>8. \A r \in K : \E i \in 1 .. Len(rules) : rules[i] = r
  BY <1>3 DEF Listed
<1>9. ASSUME NEW i \in 1 .. Len(rules)
      PROVE  Reached(rules, sev, i) <=> rules[i] \in M
  <2> DEFINE r == rules[i]
  <2>1. ASSUME Reached(rules, sev, i), NEW s \in Enabled(rows), Before(s, r), Matches(s, sev), s.stop
        PROVE  FALSE
    <3>1. s \in K
      BY <2>1
    <3>2. PICK j \in 1 .. Len(rules) : rules[j] = s
      BY <1>8, <3>1
    <3>3. j < i
      BY <1>7, <2>1, <3>2
    <3>4. j \in 1 .. i - 1
      BY <1>6, <3>3
    <3> QED
      BY <2>1, <3>2, <3>4 DEF Reached
  <2>2. ASSUME r \in M, NEW j \in 1 .. i - 1, Matches(rules[j], sev), rules[j].stop
        PROVE  FALSE
    <3>1. j \in 1 .. Len(rules) /\ j < i
      BY <1>6
    <3>2. Before(rules[j], r) /\ rules[j] \in Enabled(rows)
      BY <1>1, <1>6, <1>7, <3>1
    <3> QED
      BY <2>2, <3>2 DEF Met
  <2>3. r \in Enabled(rows)
    BY <1>1, <1>6
  <2>4. \A q \in rows : q.stop \in BOOLEAN
    BY DEF IsTable
  <2> QED
    BY <1>1, <2>1, <2>2, <2>3, <2>4 DEF Met, Reached
<1>10. ASSUME NEW r \in M, NEW t \in r.targets
       PROVE  \E i \in 1 .. Len(rules) : rules[i] = r
  <2>1. r \in K
    BY DEF Met
  <2> QED
    BY <1>8, <2>1
<1>11. ASSUME NEW i \in 1 .. Len(rules), NEW t \in rules[i].targets
       PROVE  DueAt(rules, sev, i, t) <=>
                rules[i] \in M /\ \A s \in M : Before(s, rules[i]) => t \notin s.targets
  <2>1. ASSUME DueAt(rules, sev, i, t), NEW s \in M, Before(s, rules[i]), t \in s.targets
        PROVE  FALSE
    <3>1. PICK j \in 1 .. Len(rules) : rules[j] = s
      BY <1>10, <2>1
    <3>2. j < i /\ Reached(rules, sev, j)
      BY <1>7, <1>9, <2>1, <3>1
    <3>3. j \in 1 .. i - 1
      BY <1>6, <3>2
    <3> QED
      BY <2>1, <3>1, <3>2, <3>3 DEF DueAt
  <2>2. ASSUME \A s \in M : Before(s, rules[i]) => t \notin s.targets,
               NEW j \in 1 .. i - 1, Reached(rules, sev, j), t \in rules[j].targets
        PROVE  FALSE
    <3>1. j \in 1 .. Len(rules) /\ j < i
      BY <1>6
    <3>2. rules[j] \in M /\ Before(rules[j], rules[i])
      BY <1>7, <1>9, <2>2, <3>1
    <3> QED
      BY <2>2, <3>2
  <2> QED
    BY <1>9, <2>1, <2>2 DEF DueAt
<1>12. \A d : d \in ToSet(sent) <=>
         \E i \in 1 .. Len(rules) : \E t \in rules[i].targets :
           DueAt(rules, sev, i, t) /\ d = <<rules[i].id, t>>
  BY <1>4, <1>5 DEF WalkedTo
<1>13. \A d : d \in Due(rows, sev) <=>
         \E r \in M : \E t \in r.targets :
           (\A s \in M : Before(s, r) => t \notin s.targets) /\ d = <<r.id, t>>
  BY DEF Due
<1> HIDE DEF M, K
<1>14. ASSUME NEW d
       PROVE  d \in ToSet(sent) <=> d \in Due(rows, sev)
  <2>1. ASSUME d \in ToSet(sent)
        PROVE  d \in Due(rows, sev)
    <3>1. PICK i \in 1 .. Len(rules) : \E t \in rules[i].targets :
            DueAt(rules, sev, i, t) /\ d = <<rules[i].id, t>>
      BY <1>12, <2>1
    <3>2. PICK t \in rules[i].targets : DueAt(rules, sev, i, t) /\ d = <<rules[i].id, t>>
      BY <3>1
    <3>3. rules[i] \in M /\ \A s \in M : Before(s, rules[i]) => t \notin s.targets
      BY <1>11, <3>2
    <3> QED
      BY <1>13, <3>2, <3>3
  <2>2. ASSUME d \in Due(rows, sev)
        PROVE  d \in ToSet(sent)
    <3>1. PICK r \in M : \E t \in r.targets :
            (\A s \in M : Before(s, r) => t \notin s.targets) /\ d = <<r.id, t>>
      BY <1>13, <2>2
    <3>2. PICK t \in r.targets :
            (\A s \in M : Before(s, r) => t \notin s.targets) /\ d = <<r.id, t>>
      BY <3>1
    <3>3. PICK i \in 1 .. Len(rules) : rules[i] = r
      BY <1>10, <3>2
    <3>4. DueAt(rules, sev, i, t)
      BY <1>11, <3>2, <3>3
    <3> QED
      BY <1>12, <3>2, <3>3, <3>4
  <2> QED
    BY <2>1, <2>2
<1>15. Len(sent) = Cardinality(ToSet(sent))
  <2> DEFINE S == {r.id : r \in ToSet(rules)} \X UNION {r.targets : r \in ToSet(rules)}
  <2>1. sent \in Seq(S)
    BY <1>4, <1>5 DEF WalkedTo
  <2>2. \A k, l \in 1 .. Len(sent) : sent[k] = sent[l] => k = l
    BY <1>4, <1>5 DEF WalkedTo
  <2> HIDE DEF S
  <2> QED
    BY <2>1, <2>2, AllDifferent
<1> QED
  BY <1>14, <1>15 DEF sent

-----------------------------------------------------------------------------
(* The behaviours, and the first theorem about them.                       *)

IInv == input \in Inputs /\ result \in {None, Computed(input)}

\* An input is of the kind that it names.
LEMMA InputKinds ==
  ASSUME NEW in \in Inputs
  PROVE  /\ in.what = "route" => in \in RouteInputs
         /\ in.what = "filter" => in \in FilterInputs
         /\ in.what = "glob" => in \in GlobInputs
         /\ in.what = "view" => in \in ViewInputs
         /\ in.what = "day" => in \in DayInputs
         /\ in.what = "time" => in \in TimeInputs
         /\ in.what = "line" => in \in LineInputs
         /\ in.what = "otlp" => in \in OtlpInputs
         /\ in.what = "week" => in \in WeekInputs
<1>1. \A i \in RouteInputs : i.what = "route"
  BY DEF RouteInputs
<1>2. \A i \in FilterInputs : i.what = "filter"
  BY DEF FilterInputs
<1>3. \A i \in GlobInputs : i.what = "glob"
  BY DEF GlobInputs
<1>4. \A i \in ViewInputs : i.what = "view"
  BY DEF ViewInputs
<1>5. \A i \in DayInputs : i.what = "day"
  BY DEF DayInputs
<1>6. \A i \in TimeInputs : i.what = "time"
  BY DEF TimeInputs
<1>7. \A i \in LineInputs : i.what = "line"
  BY DEF LineInputs
<1>8. \A i \in OtlpInputs : i.what = "otlp"
  BY DEF OtlpInputs
<1>9. \A i \in WeekInputs : i.what = "week"
  BY DEF WeekInputs
<1> QED
  BY <1>1, <1>2, <1>3, <1>4, <1>5, <1>6, <1>7, <1>8, <1>9 DEF Inputs

\* A behaviour's result is what the code computes of its input.
LEMMA Inductive == Spec => []IInv
<1>1. Init => IInv
  BY DEF Init, IInv
<1>2. IInv /\ [Compute]_vars => IInv'
  BY DEF IInv, Compute, vars
<1> QED
  BY <1>1, <1>2, PTL DEF Spec

\* The rows of an input are a table.
LEMMA RouteTables ==
  ASSUME NEW in \in RouteInputs
  PROVE  IsTable(in.rows)
<1>1. PICK r \in [1 .. 3 -> RuleChoices], order \in {<<1, 2, 3>>, <<2, 1, 1>>} :
        in.rows = {Numbered(r[i], i, order[i]) : i \in 1 .. 3}
  BY DEF RouteInputs
<1> DEFINE f == [i \in 1 .. 3 |-> Numbered(r[i], i, order[i])]
<1>2. in.rows = {f[i] : i \in 1 .. 3}
  BY <1>1
<1>3. IsFiniteSet(in.rows)
  <2>1. f \in Surjection(1 .. 3, in.rows)
    <3> HIDE DEF f
    <3>1. f = [i \in 1 .. 3 |-> f[i]]
      BY DEF f
    <3> QED
      BY <1>2, <3>1 DEF Surjection
  <2>2. IsFiniteSet(1 .. 3)
    <3>1. \A n \in Nat : IsFiniteSet(1 .. n)
      BY FS_Interval
    <3> QED
      BY <3>1
  <2> QED
    BY <2>1, <2>2, FS_Surjection
<1>4. \A i \in 1 .. 3 : /\ f[i].id = i /\ f[i].order = order[i]
                        /\ f[i].stop = r[i].stop /\ f[i].targets = r[i].targets
  BY DEF Numbered
<1>5. \A i \in 1 .. 3 : order[i] \in Int
  OBVIOUS
<1>6. \A c \in RuleChoices : c.stop \in BOOLEAN /\ c.targets \in {{}, {"t1"}, {"t1", "t2"}}
  BY DEF RuleChoices
<1>7. \A ts \in {{}, {"t1"}, {"t1", "t2"}} : IsFiniteSet(ts)
  <2>1. IsFiniteSet({}) /\ IsFiniteSet({"t1"})
    BY FS_EmptySet, FS_Singleton
  <2>2. IsFiniteSet({"t1"} \cup {"t2"})
    BY <2>1, FS_AddElement
  <2>3. {"t1"} \cup {"t2"} = {"t1", "t2"}
    OBVIOUS
  <2> QED
    BY <2>1, <2>2, <2>3
<1>8. \A i \in 1 .. 3 : r[i] \in RuleChoices
  OBVIOUS
<1>9. ASSUME NEW i \in 1 .. 3
      PROVE  f[i].id \in Int /\ f[i].order \in Int /\ f[i].stop \in BOOLEAN /\ IsFiniteSet(f[i].targets)
  <2>1. r[i] \in RuleChoices
    BY <1>8
  <2>2. r[i].stop \in BOOLEAN /\ IsFiniteSet(r[i].targets)
    BY <1>6, <1>7, <2>1
  <2> HIDE DEF f
  <2> QED
    BY <1>4, <1>5, <2>2
<1>10. \A i, j \in 1 .. 3 : f[i].id = f[j].id => f[i] = f[j]
  BY <1>4
<1> HIDE DEF f
<1> QED
  BY <1>2, <1>3, <1>9, <1>10 DEF IsTable

\* The router's result is what is due (FirstRuleNotifies), always.
THEOREM FirstRule == Spec => []FirstRuleNotifies
<1>1. IInv => FirstRuleNotifies
  <2> SUFFICES ASSUME IInv, Of("route")
               PROVE  /\ ToSet(result) = Due(input.rows, input.sev)
                      /\ Len(result) = Cardinality(ToSet(result))
    BY DEF FirstRuleNotifies
  <2>1. input \in RouteInputs
    BY InputKinds DEF IInv, Of
  <2>2. result = Routed(input.rows, input.sev)
    BY DEF IInv, Of, Computed
  <2>3. IsTable(input.rows)
    BY <2>1, RouteTables
  <2> QED
    BY <2>2, <2>3, TargetsNotifiedOnce
<1> QED
  BY <1>1, Inductive, PTL

-----------------------------------------------------------------------------
(* Concatenations, and globs as LIKE patterns (filters.py).                *)

\* The concatenation of the first n of some sequences.
Joins(g, seqs) == g[0] = <<>> /\ \A n \in 1 .. Len(seqs) : g[n] = g[n - 1] \o seqs[n]

\* FlattenSeq is the last of the concatenations.
LEMMA Flattened ==
  ASSUME NEW S, NEW seqs \in Seq(Seq(S))
  PROVE  \E g \in [0 .. Len(seqs) -> Seq(S)] : Joins(g, seqs) /\ FlattenSeq(seqs) = g[Len(seqs)]
<1> DEFINE N == Len(seqs)
           T == Seq(S)
           G == [n \in 1 .. N |-> [w \in T |-> w \o seqs[n]]]
<1>1. N \in Nat /\ \A n \in 1 .. N : seqs[n] \in T
  BY LenProperties
<1>2. <<>> \in T
  BY EmptySeq
<1>3. G \in [1 .. N -> [T -> T]]
  <2>1. \A n \in 1 .. N : \A w \in T : w \o seqs[n] \in T
    BY <1>1, ConcatProperties
  <2> HIDE DEF T
  <2> QED
    BY <2>1
<1>4. PICK g \in [0 .. N -> T] : Iterates(g, N, <<>>, G)
  <2> HIDE DEF N, T, G
  <2> QED
    BY <1>1, <1>2, <1>3, Iteration
<1>5. g[0] = <<>>
  BY <1>4 DEF Iterates
<1>6. ASSUME NEW n \in 1 .. N
      PROVE  g[n] = g[n - 1] \o seqs[n]
  <2>1. n - 1 \in 0 .. N
    BY <1>1
  <2>2. g[n] = G[n][g[n - 1]] /\ g[n - 1] \in T
    BY <1>4, <2>1 DEF Iterates
  <2> HIDE DEF T
  <2> QED
    BY <2>2
<1>7. Joins(g, seqs)
  BY <1>5, <1>6 DEF Joins
<1>8. CASE N = 0
  <2>1. seqs = <<>>
    BY <1>8, EmptySeq
  <2> QED
    BY <1>4, <1>7, <1>8, <2>1 DEF FlattenSeq, Joins
<1>9. CASE N # 0
  <2> DEFINE Is(f) == f = [i \in 1 .. N |-> IF i = 1 THEN seqs[i] ELSE f[i - 1] \o seqs[i]]
             h == [i \in 1 .. N |-> g[i]]
             f == CHOOSE f : Is(f)
  <2>1. FlattenSeq(seqs) = f[N]
    BY <1>9 DEF FlattenSeq
  <2>2. g[1] = seqs[1]
    <3>1. 1 \in 1 .. N /\ 1 - 1 = 0
      BY <1>1, <1>9
    <3>2. g[1] = <<>> \o seqs[1]
      BY <1>5, <1>6, <3>1
    <3> QED
      BY <1>1, <3>1, <3>2, ConcatEmptySeq
  <2>3. \A i \in 1 .. N : g[i] = IF i = 1 THEN seqs[i] ELSE g[i - 1] \o seqs[i]
    BY <1>6, <2>2
  <2>4. \A i \in 1 .. N : i # 1 => i - 1 \in 1 .. N
    BY <1>1
  <2>5. Is(h)
    <3> HIDE DEF N, T
    <3> QED
      BY <2>3, <2>4
  <2>6. Is(f)
    <3> HIDE DEF Is
    <3> QED
      BY <2>5
  <2> HIDE DEF f, h
  <2> DEFINE P == {n \in 0 .. N : n # 0 => f[n] = g[n]}
  <2>7. 0 \in P
    BY <1>1
  <2>8. \A n \in 1 .. N : n - 1 \in P => n \in P
    <3> SUFFICES ASSUME NEW n \in 1 .. N, n - 1 \in P
                 PROVE  f[n] = g[n]
      BY <1>1
    <3>1. f[n] = IF n = 1 THEN seqs[n] ELSE f[n - 1] \o seqs[n]
      BY <2>6
    <3>2. n # 1 => f[n - 1] = g[n - 1]
      BY <2>4
    <3> HIDE DEF P, N
    <3> QED
      BY <2>3, <3>1, <3>2
  <2>9. N \in P
    <3> HIDE DEF P, N
    <3>1. \A n \in 0 .. N : n \in P
      BY <1>1, <2>7, <2>8, CountUp
    <3> QED
      BY <1>1, <3>1
  <2>10. f[N] = g[N]
    BY <1>9, <2>9
  <2> QED
    BY <1>4, <1>7, <2>1, <2>10
<1> QED
  BY <1>8, <1>9

\* The place of every part in the whole.
InPlace(g, seqs, n) ==
  \E l \in Nat :
    /\ l = Len(seqs[n])
    /\ Len(g[n]) = Len(g[n - 1]) + l
    /\ Len(g[n]) <= Len(g[Len(seqs)])
    /\ \A k \in 1 .. l : g[Len(seqs)][Len(g[n - 1]) + k] = seqs[n][k]

\* Every part is found in the whole, behind the parts before it.
LEMMA PartsInPlace ==
  ASSUME NEW S, NEW seqs \in Seq(Seq(S)), NEW g \in [0 .. Len(seqs) -> Seq(S)], Joins(g, seqs),
         NEW n \in 1 .. Len(seqs)
  PROVE  InPlace(g, seqs, n)
<1> DEFINE N == Len(seqs)
           Grown(m) == \A i \in 0 .. m : /\ Len(g[i]) <= Len(g[m])
                                           /\ \A k \in 1 .. Len(g[i]) : g[m][k] = g[i][k]
           P == {m \in 0 .. N : Grown(m)}
<1>1. N \in Nat /\ \A m \in 1 .. N : seqs[m] \in Seq(S)
  BY LenProperties
<1>2. \A m \in 0 .. N : g[m] \in Seq(S) /\ Len(g[m]) \in Nat
  BY LenProperties
<1>3. ASSUME NEW m \in 1 .. N
      PROVE  /\ Len(seqs[m]) \in Nat
             /\ Len(g[m]) = Len(g[m - 1]) + Len(seqs[m])
             /\ \A k \in 1 .. Len(g[m - 1]) : g[m][k] = g[m - 1][k]
             /\ \A k \in 1 .. Len(seqs[m]) : g[m][Len(g[m - 1]) + k] = seqs[m][k]
  <2> DEFINE a == g[m - 1]
             b == seqs[m]
  <2>1. m - 1 \in 0 .. N
    BY <1>1
  <2>2. a \in Seq(S) /\ b \in Seq(S) /\ Len(a) \in Nat /\ Len(b) \in Nat
    BY <1>1, <1>2, <2>1, LenProperties
  <2>3. g[m] = a \o b
    BY DEF Joins
  <2> HIDE DEF a, b
  <2>4. /\ Len(a \o b) = Len(a) + Len(b)
        /\ \A k \in 1 .. Len(a) + Len(b) : (a \o b)[k] = IF k <= Len(a) THEN a[k] ELSE b[k - Len(a)]
    BY <2>2, ConcatProperties
  <2>5. \A k \in 1 .. Len(a) : (a \o b)[k] = a[k]
    BY <2>2, <2>4
  <2>6. \A k \in 1 .. Len(b) : (a \o b)[Len(a) + k] = b[k]
    <3> SUFFICES ASSUME NEW k \in 1 .. Len(b)
                 PROVE  (a \o b)[Len(a) + k] = b[k]
      OBVIOUS
    <3>1. Len(a) + k \in 1 .. Len(a) + Len(b) /\ ~(Len(a) + k <= Len(a)) /\ (Len(a) + k) - Len(a) = k
      BY <2>2
    <3> QED
      BY <2>4, <3>1
  <2> QED
    BY <2>2, <2>3, <2>4, <2>5, <2>6 DEF a, b
<1>4. 0 \in P
  BY <1>1, <1>2
<1>5. ASSUME NEW m \in 1 .. N, m - 1 \in P
      PROVE  m \in P
  <2> SUFFICES ASSUME NEW i \in 0 .. m
               PROVE  Len(g[i]) <= Len(g[m]) /\ \A k \in 1 .. Len(g[i]) : g[m][k] = g[i][k]
    OBVIOUS
  <2>1. m - 1 \in 0 .. N /\ i \in 0 .. N
    BY <1>1
  <2>2. CASE i = m
    BY <1>2, <2>1, <2>2
  <2>3. CASE i # m
    <3>1. i \in 0 .. m - 1
      BY <1>1, <2>3
    <3>2. Len(g[i]) <= Len(g[m - 1]) /\ \A k \in 1 .. Len(g[i]) : g[m - 1][k] = g[i][k]
      BY <1>5, <3>1
    <3>3. /\ Len(g[m - 1]) \in Nat /\ Len(g[i]) \in Nat /\ Len(seqs[m]) \in Nat
          /\ Len(g[m]) = Len(g[m - 1]) + Len(seqs[m])
      BY <1>2, <1>3, <2>1
    <3>4. \A k \in 1 .. Len(g[m - 1]) : g[m][k] = g[m - 1][k]
      BY <1>3
    <3> HIDE DEF P, N
    <3>5. Len(g[i]) <= Len(g[m])
      <4> DEFINE a == Len(g[i])
                 b == Len(g[m - 1])
                 c == Len(seqs[m])
      <4>1. a \in Nat /\ b \in Nat /\ c \in Nat /\ a <= b /\ Len(g[m]) = b + c
        BY <3>2, <3>3
      <4> HIDE DEF a, b, c
      <4>2. a <= b + c
        BY <4>1
      <4> QED
        BY <4>1, <4>2 DEF a
    <3>6. \A k \in 1 .. Len(g[i]) : k \in 1 .. Len(g[m - 1])
      <4> DEFINE a == Len(g[i])
                 b == Len(g[m - 1])
      <4>1. a \in Nat /\ b \in Nat /\ a <= b
        BY <3>2, <3>3
      <4> HIDE DEF a, b
      <4>2. \A k \in 1 .. a : k \in 1 .. b
        BY <4>1
      <4> QED
        BY <4>2 DEF a, b
    <3>7. \A k \in 1 .. Len(g[i]) : g[m][k] = g[i][k]
      BY <3>2, <3>4, <3>6
    <3> QED
      BY <3>5, <3>7
  <2> QED
    BY <2>2, <2>3
<1>6. N \in P
  <2>1. \A m \in 1 .. N : m - 1 \in P => m \in P
    BY <1>5
  <2> HIDE DEF P, N
  <2>2. \A m \in 0 .. N : m \in P
    BY <1>1, <1>4, <2>1, CountUp
  <2> QED
    BY <1>1, <2>2
<1>7. n \in 0 .. N /\ n - 1 \in 0 .. N
  BY <1>1
<1>8. Len(g[n]) <= Len(g[N]) /\ \A k \in 1 .. Len(g[n]) : g[N][k] = g[n][k]
  BY <1>6, <1>7
<1>9. \A k \in 1 .. Len(seqs[n]) : Len(g[n - 1]) + k \in 1 .. Len(g[n])
  <2>1. Len(g[n - 1]) \in Nat /\ Len(seqs[n]) \in Nat /\ Len(g[n]) = Len(g[n - 1]) + Len(seqs[n])
    BY <1>2, <1>3, <1>7
  <2> DEFINE a == Len(g[n - 1])
             b == Len(seqs[n])
             c == Len(g[n])
  <2>2. a \in Nat /\ b \in Nat /\ c = a + b
    BY <2>1
  <2> HIDE DEF a, b, c
  <2>3. \A k \in 1 .. b : a + k \in 1 .. c
    BY <2>2
  <2> QED
    BY <2>3 DEF a, b, c
<1>10. \A k \in 1 .. Len(seqs[n]) : g[n][Len(g[n - 1]) + k] = seqs[n][k]
  BY <1>3
<1>11. Len(g[n]) = Len(g[n - 1]) + Len(seqs[n])
  BY <1>3
<1>12. Len(seqs[n]) \in Nat
  BY <1>3
<1>13. \A k \in 1 .. Len(seqs[n]) : g[N][Len(g[n - 1]) + k] = seqs[n][k]
  BY <1>8, <1>9, <1>10
<1> QED
  BY <1>8, <1>11, <1>12, <1>13 DEF InPlace

\* The first n tokens of a glob.
FirstTokens(glob, n) == [i \in 1 .. n |-> Token(glob[i], "*", "?")]

Plain(tokens) == [tokens |-> tokens, escape |-> FALSE]

\* One more token.
LEMMA NextToken ==
  ASSUME NEW glob, NEW n \in Nat \ {0}
  PROVE  Append(FirstTokens(glob, n - 1), Token(glob[n], "*", "?")) = FirstTokens(glob, n)
<1> DEFINE T == {Token(glob[i], "*", "?") : i \in 1 .. n}
           a == FirstTokens(glob, n - 1)
           b == FirstTokens(glob, n)
           c == Token(glob[n], "*", "?")
<1>1. a \in Seq(T) /\ Len(a) = n - 1 /\ \A i \in 1 .. n - 1 : a[i] = Token(glob[i], "*", "?")
  BY DEF FirstTokens
<1>2. b \in Seq(T) /\ Len(b) = n /\ \A i \in 1 .. n : b[i] = Token(glob[i], "*", "?")
  BY DEF FirstTokens
<1>3. c \in T
  OBVIOUS
<1> HIDE DEF a, b, T
<1>4. /\ Append(a, c) \in Seq(T) /\ Len(Append(a, c)) = n
      /\ \A i \in 1 .. n - 1 : Append(a, c)[i] = a[i]
      /\ Append(a, c)[n] = c
  BY <1>1, <1>3, AppendProperties
<1>5. \A i \in 1 .. n : Append(a, c)[i] = b[i]
  BY <1>1, <1>2, <1>4
<1> HIDE DEF c
<1>6. Append(a, c) = b
  BY <1>2, <1>4, <1>5, SeqEqual
<1> QED
  BY <1>6 DEF a, b, c

\* The characters that LIKE gives a meaning to.
Special == {"%", "_", "\\"}

\* A character with a meaning is escaped, which makes it two.
LEMMA LikeCharLength ==
  ASSUME NEW c
  PROVE  Len(LikeChar(c)) = IF c \in Special THEN 2 ELSE 1
BY DEF LikeChar, Special

\* What LIKE reads of one translated character.
LEMMA ReadOne ==
  ASSUME NEW c, NEW tokens, c \notin Special
  PROVE  ReadLike(Plain(tokens), LikeChar(c)[1]) = Plain(Append(tokens, Token(c, "*", "?")))
<1>2. \A d : d # "\\" =>
        ReadLike(Plain(tokens), d) = Plain(Append(tokens, Token(d, "%", "_")))
  BY DEF ReadLike, Plain
<1>3. CASE c = "*"
  <2>1. LikeChar(c)[1] = "%"
    BY <1>3 DEF LikeChar
  <2>2. Token("%", "%", "_") = Token(c, "*", "?")
    BY <1>3 DEF Token, Special
  <2> QED
    BY <1>2, <2>1, <2>2
<1>4. CASE c = "?"
  <2>1. LikeChar(c)[1] = "_"
    BY <1>4 DEF LikeChar
  <2>2. Token("_", "%", "_") = Token(c, "*", "?")
    BY <1>4 DEF Token, Special
  <2> QED
    BY <1>2, <2>1, <2>2
<1>5. CASE c \notin {"*", "?"}
  <2>1. LikeChar(c)[1] = c
    BY <1>5 DEF LikeChar, Special
  <2>2. Token(c, "%", "_") = Token(c, "*", "?")
    BY <1>5 DEF Token, Special
  <2> QED
    BY <1>2, <2>1, <2>2 DEF Special
<1> QED
  BY <1>3, <1>4, <1>5

\* The two are the escape and the character.
LEMMA EscapedChar ==
  ASSUME NEW c, c \in Special
  PROVE  LikeChar(c)[1] = "\\" /\ LikeChar(c)[2] = c
<1>1. LikeChar(c) = <<"\\", c>>
  BY DEF LikeChar, Special
<1>2. <<"\\", c>>[1] = "\\" /\ <<"\\", c>>[2] = c
  OBVIOUS
<1> QED
  BY <1>1, <1>2

\* What LIKE reads of an escaped character.
LEMMA ReadTwo ==
  ASSUME NEW c, NEW tokens, c \in Special
  PROVE  ReadLike(ReadLike(Plain(tokens), "\\"), c) = Plain(Append(tokens, Token(c, "*", "?")))
<1>1. ReadLike(Plain(tokens), "\\") = [tokens |-> tokens, escape |-> TRUE]
  BY DEF ReadLike, Plain
<1>2. ReadLike([tokens |-> tokens, escape |-> TRUE], c) = Plain(Append(tokens, <<"is", c>>))
  BY DEF ReadLike, Plain
<1>3. Token(c, "*", "?") = <<"is", c>>
  BY DEF Token, Special
<1> QED
  BY <1>1, <1>2, <1>3

\* The tokens of some characters, and the states of the reader.
TokensOf(chars) == {<<"any">>, <<"one">>} \cup {<<"is", c>> : c \in chars}
LikeStates(chars) == [tokens : Seq(TokensOf(chars)), escape : BOOLEAN]

\* Every character leaves a state of the reader.
LEMMA ReadLikeType ==
  ASSUME NEW chars, NEW read \in LikeStates(chars), NEW c \in chars
  PROVE  ReadLike(read, c) \in LikeStates(chars)
<1> DEFINE T == TokensOf(chars)
           t == IF read.escape THEN <<"is", c>> ELSE Token(c, "%", "_")
<1>1. t \in T
  BY DEF TokensOf, Token
<1>2. read.tokens \in Seq(T) /\ read.escape \in BOOLEAN
  BY DEF LikeStates
<1>3. Append(read.tokens, t) \in Seq(T)
  <2> HIDE DEF T, t
  <2> QED
    BY <1>1, <1>2, AppendProperties
<1>4. ReadLike(read, c) = IF c = "\\" /\ ~read.escape THEN [tokens |-> read.tokens, escape |-> TRUE]
                          ELSE [tokens |-> Append(read.tokens, t), escape |-> FALSE]
  BY DEF ReadLike
<1> HIDE DEF t
<1> QED
  BY <1>2, <1>3, <1>4 DEF LikeStates

\* LIKE reads a pattern character by character.
LEMMA LikeReads ==
  ASSUME NEW chars, NEW like \in Seq(chars)
  PROVE  \E read : /\ read[0] = Plain(<<>>)
                   /\ \A n \in 1 .. Len(like) : read[n] = ReadLike(read[n - 1], like[n])
                   /\ LikeTokens(like) = read[Len(like)].tokens
<1> DEFINE N == Len(like)
           W == LikeStates(chars)
           b == [tokens |-> <<>>, escape |-> FALSE]
           G == [n \in 1 .. N |-> [w \in W |-> ReadLike(w, like[n])]]
           Is(f) == f = [n \in 0 .. N |-> IF n = 0 THEN b ELSE ReadLike(f[n - 1], like[n])]
           read == CHOOSE f : Is(f)
<1>1. N \in Nat /\ \A n \in 1 .. N : like[n] \in chars
  BY LenProperties
<1>2. b \in W
  BY EmptySeq DEF LikeStates
<1>3. G \in [1 .. N -> [W -> W]]
  <2>1. \A n \in 1 .. N : \A w \in W : ReadLike(w, like[n]) \in W
    BY <1>1, ReadLikeType
  <2> HIDE DEF W
  <2> QED
    BY <2>1
<1>4. PICK g \in [0 .. N -> W] : Iterates(g, N, b, G)
  <2> HIDE DEF N, W, b, G
  <2> QED
    BY <1>1, <1>2, <1>3, Iteration
<1>5. Is(g)
  <2>1. g[0] = b
    BY <1>4 DEF Iterates
  <2>2. ASSUME NEW n \in 1 .. N
        PROVE  g[n] = ReadLike(g[n - 1], like[n])
    <3>1. n - 1 \in 0 .. N
      BY <1>1
    <3> HIDE DEF W, N
    <3>2. g[n] = G[n][g[n - 1]] /\ g[n - 1] \in W
      BY <1>4, <3>1 DEF Iterates
    <3> QED
      BY <3>2
  <2>3. \A n \in 0 .. N : n = 0 \/ n \in 1 .. N
    BY <1>1
  <2> HIDE DEF N, W, b, G
  <2>4. \A n \in 0 .. N : g[n] = IF n = 0 THEN b ELSE ReadLike(g[n - 1], like[n])
    BY <1>1, <2>1, <2>2, <2>3
  <2> QED
    BY <1>4, <2>4
<1>6. Is(read)
  <2> HIDE DEF Is
  <2> QED
    BY <1>5
<1>7. LikeTokens(like) = read[N].tokens
  BY DEF LikeTokens, ForEach
<1> HIDE DEF read
<1>8. read[0] = b /\ \A n \in 1 .. N : read[n] = ReadLike(read[n - 1], like[n])
  <2> HIDE DEF b
  <2>1. \A n \in 0 .. N : read[n] = IF n = 0 THEN b ELSE ReadLike(read[n - 1], like[n])
    BY <1>6
  <2> QED
    BY <1>1, <2>1
<1> QED
  BY <1>7, <1>8 DEF Plain

\* The pattern that a glob is translated to means what the glob means.
LEMMA LikeTokensAreGlobTokens ==
  ASSUME NEW letters, NEW glob \in Seq(letters)
  PROVE  LikeTokens(LikePattern(glob)) = GlobTokens(glob)
<1> DEFINE chars == letters \cup {"\\", "%", "_"}
           parts == [i \in DOMAIN glob |-> LikeChar(glob[i])]
           N == Len(glob)
           like == LikePattern(glob)
<1>1. N \in Nat /\ DOMAIN glob = 1 .. N /\ \A n \in 1 .. N : glob[n] \in letters
  BY LenProperties
<1>2. \A c \in letters : LikeChar(c) \in Seq(chars)
  <2> SUFFICES ASSUME NEW c \in letters
               PROVE  LikeChar(c) \in Seq(chars)
    OBVIOUS
  <2>1. \A S : \A d, e \in S : <<d>> \in Seq(S) /\ <<d, e>> \in Seq(S)
    OBVIOUS
  <2>2. c \in chars /\ "%" \in chars /\ "_" \in chars /\ "\\" \in chars
    OBVIOUS
  <2>3. LikeChar(c) \in {<<"\\", c>>, <<"%">>, <<"_">>, <<c>>}
    BY DEF LikeChar
  <2> HIDE DEF chars
  <2> QED
    BY <2>1, <2>2, <2>3
<1>3. parts \in Seq(Seq(chars)) /\ Len(parts) = N /\ \A n \in 1 .. N : parts[n] = LikeChar(glob[n])
  <2> DEFINE C == Seq(chars)
  <2>1. parts = [i \in 1 .. N |-> LikeChar(glob[i])] /\ \A i \in 1 .. N : LikeChar(glob[i]) \in C
    BY <1>1, <1>2
  <2> HIDE DEF C, N, parts
  <2>2. parts \in [1 .. N -> C]
    BY <2>1
  <2>3. parts \in Seq(C) /\ Len(parts) = N
    BY <1>1, <2>2
  <2> QED
    BY <2>1, <2>3 DEF C
<1>4. PICK g \in [0 .. N -> Seq(chars)] : Joins(g, parts) /\ like = g[N]
  <2>1. like = FlattenSeq(parts)
    BY DEF LikePattern
  <2> HIDE DEF chars, parts, N, like
  <2> QED
    BY <1>3, <2>1, Flattened
<1> HIDE DEF chars, parts, like
<1>5. like \in Seq(chars) /\ Len(like) \in Nat
  BY <1>1, <1>4, LenProperties
<1>6. PICK read : /\ read[0] = Plain(<<>>)
                  /\ \A n \in 1 .. Len(like) : read[n] = ReadLike(read[n - 1], like[n])
                  /\ LikeTokens(like) = read[Len(like)].tokens
  BY <1>5, LikeReads
<1> DEFINE At(n) == Len(g[n])
           P == {n \in 0 .. N : read[At(n)] = Plain(FirstTokens(glob, n))}
<1>7. ASSUME NEW n \in 0 .. N
      PROVE  At(n) \in Nat
  BY <1>4, LenProperties
<1>8. At(0) = 0
  BY <1>4 DEF Joins
<1>9. ASSUME NEW n \in 1 .. N
      PROVE  \E l \in Nat :
               /\ l = Len(LikeChar(glob[n]))
               /\ At(n) = At(n - 1) + l /\ At(n) <= Len(like)
               /\ \A k \in 1 .. l : like[At(n - 1) + k] = LikeChar(glob[n])[k]
  <2>1. n \in 1 .. Len(parts) /\ g \in [0 .. Len(parts) -> Seq(chars)] /\ parts[n] = LikeChar(glob[n])
    BY <1>3, <1>4
  <2>2. InPlace(g, parts, n)
    BY <1>3, <1>4, <2>1, PartsInPlace
  <2> QED
    BY <1>3, <1>4, <2>1, <2>2 DEF InPlace
<1> HIDE DEF At
<1>10. 0 \in P
  <2>1. FirstTokens(glob, 0) = <<>>
    BY DEF FirstTokens
  <2> QED
    BY <1>1, <1>6, <1>8, <2>1
<1>11. ASSUME NEW n \in 1 .. N, n - 1 \in P
       PROVE  n \in P
  <2> DEFINE c == glob[n]
             m == At(n - 1)
             before == FirstTokens(glob, n - 1)
             top == Len(like)
  <2>0. PICK l \in Nat :
          /\ l = Len(LikeChar(c))
          /\ At(n) = m + l /\ At(n) <= top
          /\ \A k \in 1 .. l : like[m + k] = LikeChar(c)[k]
    BY <1>9
  <2>1. m \in Nat /\ top \in Nat /\ n \in Nat \ {0} /\ n \in 0 .. N
    BY <1>1, <1>5, <1>7
  <2>6. \A i \in 1 .. top : read[i] = ReadLike(read[i - 1], like[i])
    BY <1>6
  <2>2. read[m] = Plain(before)
    BY <1>11
  <2>3. Append(before, Token(c, "*", "?")) = FirstTokens(glob, n)
    BY <2>1, NextToken
  <2> HIDE DEF before, c, m, top
  <2>4. CASE c \notin Special
    <3>1. l = 1
      BY <2>0, <2>4, LikeCharLength
    <3>2. At(n) = m + 1 /\ like[m + 1] = LikeChar(c)[1] /\ m + 1 \in 1 .. top
      BY <2>0, <2>1, <3>1
    <3>3. read[m + 1] = ReadLike(read[m], LikeChar(c)[1])
      BY <2>1, <2>6, <3>2
    <3>4. read[m + 1] = Plain(Append(before, Token(c, "*", "?")))
      BY <2>2, <2>4, <3>3, ReadOne
    <3> QED
      BY <2>1, <2>3, <3>2, <3>4
  <2>5. CASE c \in Special
    <3>1. l = 2
      BY <2>0, <2>5, LikeCharLength
    <3>0. LikeChar(c)[1] = "\\" /\ LikeChar(c)[2] = c
      BY <2>5, EscapedChar
    <3>9. ReadLike(ReadLike(Plain(before), "\\"), c) = Plain(Append(before, Token(c, "*", "?")))
      BY <2>5, ReadTwo
    <3>2. /\ At(n) = m + 2 /\ like[m + 1] = "\\" /\ like[m + 2] = c
          /\ m + 1 \in 1 .. top /\ m + 2 \in 1 .. top
      BY <2>0, <2>1, <3>0, <3>1
    <3>3. (m + 1) - 1 = m /\ (m + 2) - 1 = m + 1
      BY <2>1
    <3>4. read[m + 2] = ReadLike(ReadLike(read[m], "\\"), c)
      BY <2>6, <3>2, <3>3
    <3>5. read[m + 2] = Plain(Append(before, Token(c, "*", "?")))
      BY <2>2, <3>4, <3>9
    <3> QED
      BY <2>1, <2>3, <3>2, <3>5
  <2> QED
    BY <2>4, <2>5
<1>12. N \in P
  <2>1. \A n \in 1 .. N : n - 1 \in P => n \in P
    BY <1>11
  <2> HIDE DEF P, N
  <2>2. \A n \in 0 .. N : n \in P
    BY <1>1, <1>10, <2>1, CountUp
  <2> QED
    BY <1>1, <2>2
<1>13. LikeTokens(like) = FirstTokens(glob, N)
  <2>1. At(N) = Len(like)
    BY <1>4 DEF At
  <2> QED
    BY <1>6, <1>12, <2>1 DEF Plain
<1>14. FirstTokens(glob, N) = GlobTokens(glob)
  BY <1>1 DEF FirstTokens, GlobTokens
<1> QED
  BY <1>13, <1>14 DEF like

\* Every glob selects the texts that its translation to LIKE selects
\* (_like_glob_clause), whatever characters LIKE gives a meaning to.
THEOREM GlobIsLike ==
  ASSUME NEW letters, NEW glob \in Seq(letters), NEW text
  PROVE  GlobMatch(glob, text) = LikeMatch(glob, text)
BY LikeTokensAreGlobTokens DEF GlobMatch, LikeMatch

\* A text is folded as it is lowered where every character is.
LEMMA FoldingAgrees ==
  ASSUME NEW text, \A c \in ToSet(text) : CasefoldChar(c) = LowerChar(c)
  PROVE  Casefold(text) = Lower(text)
<1>1. \A i \in DOMAIN text : CasefoldChar(text[i]) = LowerChar(text[i])
  BY DEF ToSet
<1>2. [i \in DOMAIN text |-> CasefoldChar(text[i])] = [i \in DOMAIN text |-> LowerChar(text[i])]
  BY <1>1
<1> QED
  BY <1>2 DEF Casefold, Lower

\* What a filter drops, its preview counts (FilterAgrees), always.
THEOREM FiltersAgree == Spec => []FilterAgrees
<1>1. IInv => PreviewAgrees
  <2> SUFFICES ASSUME IInv, Of("filter"),
                      \A c \in ToSet(input.pattern) \cup ToSet(input.body) : CasefoldChar(c) = LowerChar(c)
               PROVE  result[1] = result[2]
    BY DEF PreviewAgrees
  <2>1. result = <<LiveMatch(input.pattern, input.sensitive, input.body),
                   SqlMatch(input.pattern, input.sensitive, input.body)>>
    BY DEF IInv, Of, Computed
  <2>2. Casefold(input.pattern) = Lower(input.pattern) /\ Casefold(input.body) = Lower(input.body)
    BY FoldingAgrees
  <2>3. LiveMatch(input.pattern, input.sensitive, input.body) = SqlMatch(input.pattern, input.sensitive, input.body)
    BY <2>2 DEF LiveMatch, SqlMatch
  <2> QED
    BY <2>1, <2>3
<1>2. IInv => GlobsAgree
  <2> SUFFICES ASSUME IInv, Of("glob")
               PROVE  result[1] = result[2]
    BY DEF GlobsAgree
  <2>1. result = <<GlobMatch(input.glob, input.text), LikeMatch(input.glob, input.text)>>
    BY DEF IInv, Of, Computed
  <2>2. input \in GlobInputs
    BY InputKinds DEF IInv, Of
  <2>3. PICK n \in 1 .. 3 : input.glob \in [1 .. n -> {"a", "*", "?", "%", "_", "\\"}]
    BY <2>2 DEF GlobInputs, Texts
  <2>4. input.glob \in Seq({"a", "*", "?", "%", "_", "\\"})
    <3>1. \A S : \A f \in [1 .. n -> S] : f \in Seq(S)
      OBVIOUS
    <3> QED
      BY <2>3, <3>1
  <2>5. GlobMatch(input.glob, input.text) = LikeMatch(input.glob, input.text)
    BY <2>4, GlobIsLike
  <2> QED
    BY <2>1, <2>5
<1> QED
  BY <1>1, <1>2, Inductive, PTL DEF FilterAgrees

-----------------------------------------------------------------------------
(* The year of a line that states none (syslog_parse.py).                  *)

\* The days before a year.
Begin(y) == y * (YearDays - 1) + (y + 3) \div 4

YearLength(y) == IF Leap(y) THEN YearDays ELSE YearDays - 1

\* The place of a date in its year.
Place(date) == date.day - (IF ~Leap(date.year) /\ date.day > LeapDay THEN 1 ELSE 0)

IsDate(date) == date.year \in Nat /\ date.day \in 1 .. YearDays /\ Exists(date)

\* The number of a date is the days before its year and its place in the year.
LEMMA DayNumberIs ==
  ASSUME NEW date, IsDate(date)
  PROVE  /\ DayNumber(date) = Begin(date.year) + Place(date)
         /\ Begin(date.year) \in Nat
         /\ Place(date) \in 1 .. YearLength(date.year)
<1> DEFINE y == date.year
           d == date.day
           M == y * (YearDays - 1)
<1>1. y \in Nat /\ d \in 1 .. YearDays /\ (d = LeapDay => Leap(y))
  BY DEF IsDate, Exists
<1>2. YearDays \in Nat /\ YearDays > 1 /\ LeapDay \in 1 .. YearDays
  BY CalendarAssumption
<1>3. M \in Nat
  BY <1>1, <1>2
<1>4. DayNumber(date) = (M + (y + 3) \div 4) + d - (IF ~Leap(y) /\ d > LeapDay THEN 1 ELSE 0)
  BY DEF DayNumber
<1>5. Begin(y) = M + (y + 3) \div 4
  BY DEF Begin
<1> HIDE DEF M
<1>6. Begin(y) \in Nat
  BY <1>1, <1>3, <1>5
<1>7. Place(date) = d - (IF ~Leap(y) /\ d > LeapDay THEN 1 ELSE 0)
  BY DEF Place
<1> HIDE DEF y, d
<1>8. Place(date) \in 1 .. YearLength(y)
  BY <1>1, <1>2, <1>7 DEF YearLength
<1>9. DayNumber(date) = Begin(y) + Place(date)
  BY <1>1, <1>2, <1>3, <1>4, <1>5, <1>7
<1> QED
  BY <1>6, <1>8, <1>9 DEF y

\* A year begins where the one before ends.
LEMMA NextYear ==
  ASSUME NEW y \in Nat
  PROVE  Begin(y + 1) = Begin(y) + YearLength(y)
<1>1. YearDays \in Nat
  BY CalendarAssumption
<1> DEFINE W == YearDays - 1
<1>2. (y + 1) * W = y * W + W /\ y * W \in Int /\ W \in Int
  BY <1>1
<1>3. ((y + 1) + 3) \div 4 = (y + 3) \div 4 + (IF Leap(y) THEN 1 ELSE 0)
  BY DEF Leap
<1>4. Begin(y + 1) = (y + 1) * W + ((y + 1) + 3) \div 4 /\ Begin(y) = y * W + (y + 3) \div 4
  BY DEF Begin
<1>5. YearLength(y) = W + (IF Leap(y) THEN 1 ELSE 0)
  BY <1>1 DEF YearLength
<1> DEFINE M == y * W
           L == (y + 1) * W
<1>6. (y + 3) \div 4 \in Int
  BY <1>1
<1> HIDE DEF M, L, W
<1> QED
  BY <1>2, <1>3, <1>4, <1>5, <1>6 DEF M, L

\* Years follow each other.
LEMMA LaterYear ==
  ASSUME NEW y \in Nat, NEW z \in Nat, y < z
  PROVE  Begin(y) + YearLength(y) <= Begin(z)
<1> DEFINE W == YearDays - 1
           k == z - (y + 1)
<1>1. W \in Nat
  BY CalendarAssumption
<1>2. k \in Nat /\ z = (y + 1) + k
  OBVIOUS
<1> HIDE DEF W, k
<1>3. z * W = (y + 1) * W + k * W /\ k * W \in Nat /\ (y + 1) * W \in Nat
  BY <1>1, <1>2
<1>4. ((y + 1) + 3) \div 4 <= (z + 3) \div 4 /\ ((y + 1) + 3) \div 4 \in Nat /\ (z + 3) \div 4 \in Nat
  BY <1>2
<1>5. Begin(z) = z * W + (z + 3) \div 4 /\ Begin(y + 1) = (y + 1) * W + ((y + 1) + 3) \div 4
  BY DEF Begin, W
<1> DEFINE a == (y + 1) * W
           b == k * W
           c == ((y + 1) + 3) \div 4
           d == (z + 3) \div 4
<1>6. a \in Nat /\ b \in Nat /\ c \in Nat /\ d \in Nat /\ c <= d /\ Begin(z) = (a + b) + d /\ Begin(y + 1) = a + c
  BY <1>3, <1>4, <1>5
<1> HIDE DEF a, b, c, d
<1>7. Begin(y + 1) <= Begin(z)
  BY <1>6
<1> QED
  BY <1>7, NextYear

DateIn(y, day) == [year |-> y, day |-> day]

\* Every day of a year has a date.
LEMMA DateExists ==
  ASSUME NEW y \in Nat, NEW p \in 1 .. YearLength(y)
  PROVE  \E day \in 1 .. YearDays :
           IsDate(DateIn(y, day)) /\ DayNumber(DateIn(y, day)) = Begin(y) + p
<1> DEFINE day == IF Leap(y) \/ p < LeapDay THEN p ELSE p + 1
           date == DateIn(y, day)
<1>1. YearDays \in Nat /\ YearDays > 1 /\ LeapDay \in 1 .. YearDays
  BY CalendarAssumption
<1>2. day \in 1 .. YearDays /\ (day = LeapDay => Leap(y))
  BY <1>1 DEF YearLength
<1>3. day - (IF ~Leap(y) /\ day > LeapDay THEN 1 ELSE 0) = p
  BY <1>1 DEF YearLength
<1> HIDE DEF day
<1>4. date.year = y /\ date.day = day
  BY DEF DateIn
<1> HIDE DEF date
<1>5. IsDate(date)
  BY <1>2, <1>4 DEF IsDate, Exists
<1>6. DayNumber(date) = Begin(y) + p
  BY <1>3, <1>4, <1>5, DayNumberIs DEF Place
<1> QED
  BY <1>2, <1>5, <1>6 DEF date

\* From a day to the same day of the next year it is a year, or a day more.
LEMMA YearOn ==
  ASSUME NEW y \in Nat, NEW day \in 1 .. YearDays, day # LeapDay
  PROVE  /\ IsDate(DateIn(y, day)) /\ IsDate(DateIn(y + 1, day))
         /\ DayNumber(DateIn(y, day)) \in Nat /\ DayNumber(DateIn(y + 1, day)) \in Nat
         /\ DayNumber(DateIn(y + 1, day)) >= DayNumber(DateIn(y, day)) + (YearDays - 1)
<1> DEFINE a == DateIn(y, day)
           b == DateIn(y + 1, day)
<1>1. a.year = y /\ a.day = day /\ b.year = y + 1 /\ b.day = day
  BY DEF DateIn
<1> HIDE DEF a, b
<1>2. IsDate(a) /\ IsDate(b)
  BY <1>1 DEF IsDate, Exists
<1>3. YearDays \in Nat /\ LeapDay \in Nat
  BY CalendarAssumption
<1>4. DayNumber(a) = Begin(y) + Place(a) /\ Begin(y) \in Nat /\ Place(a) \in 1 .. YearLength(y)
  BY <1>1, <1>2, DayNumberIs
<1>5. DayNumber(b) = Begin(y + 1) + Place(b) /\ Place(b) \in 1 .. YearLength(y + 1)
  BY <1>1, <1>2, DayNumberIs
<1>6. YearLength(y) \in Nat /\ YearLength(y + 1) \in Nat /\ Begin(y + 1) = Begin(y) + YearLength(y)
  BY <1>3, NextYear, CalendarAssumption DEF YearLength
<1>7. YearLength(y) + Place(b) >= Place(a) + (YearDays - 1)
  BY <1>1, <1>3 DEF Place, YearLength, Leap
<1> DEFINE p == Place(a)
           q == Place(b)
           m == Begin(y)
           k == YearLength(y)
<1>8. p \in Nat /\ q \in Nat /\ m \in Nat /\ k \in Nat /\ k + q >= p + (YearDays - 1)
      /\ DayNumber(a) = m + p /\ DayNumber(b) = (m + k) + q
  BY <1>4, <1>5, <1>6, <1>7
<1> HIDE DEF p, q, m, k
<1>9. DayNumber(a) \in Nat /\ DayNumber(b) \in Nat /\ DayNumber(b) >= DayNumber(a) + (YearDays - 1)
  BY <1>3, <1>8
<1> QED
  BY <1>2, <1>9 DEF a, b

\* A line that comes on the day now, age days after it was written, is of this
\* year or of the last.
LEMMA ThisYearOrLast ==
  ASSUME NEW y \in Nat, NEW day \in 1 .. YearDays, day # LeapDay,
         NEW age \in Int, age >= -1, age < YearDays - 2, age < 0 => day > 1,
         NEW now, IsDate(now), DayNumber(now) = DayNumber(DateIn(y, day)) + age
  PROVE  now.year = y \/ now.year = y + 1
<1> DEFINE a == DateIn(y, day)
           z == now.year
<1>1. a.year = y /\ a.day = day
  BY DEF DateIn
<1>2. YearDays \in Nat /\ YearDays > 1 /\ LeapDay \in 2 .. YearDays
  BY CalendarAssumption
<1>3. IsDate(a)
  BY YearOn
<1> HIDE DEF a
<1>4. DayNumber(a) = Begin(y) + Place(a) /\ Begin(y) \in Nat /\ Place(a) \in 1 .. YearLength(y)
  BY <1>1, <1>3, DayNumberIs
<1>5. /\ DayNumber(now) = Begin(z) + Place(now) /\ Begin(z) \in Nat
      /\ Place(now) \in 1 .. YearLength(z) /\ z \in Nat
  BY DayNumberIs DEF IsDate
<1>6. \A x \in Nat : YearLength(x) \in Nat /\ YearLength(x) >= YearDays - 1
  BY <1>2 DEF YearLength
<1>7. age < 0 => Place(a) > 1
  BY <1>1, <1>2 DEF Place
<1>8. Begin(z) + Place(now) = (Begin(y) + Place(a)) + age
  BY <1>4, <1>5 DEF a
<1> DEFINE p == Place(a)
           q == Place(now)
           by == Begin(y)
           bz == Begin(z)
           ly == YearLength(y)
           lz == YearLength(z)
<1>9. /\ p \in 1 .. ly /\ q \in 1 .. lz /\ by \in Nat /\ bz \in Nat /\ ly \in Nat /\ lz \in Nat
      /\ bz + q = (by + p) + age /\ (age < 0 => p > 1)
  BY <1>4, <1>5, <1>6, <1>7, <1>8
<1> HIDE DEF z, p, q, by, bz, ly, lz
<1>10. ~(z < y)
  <2> SUFFICES ASSUME z < y
               PROVE  FALSE
    OBVIOUS
  <2>1. bz + lz <= by
    BY <1>5, LaterYear DEF bz, lz, by, z
  <2> QED
    BY <1>9, <2>1
<1>11. ~(y + 1 < z)
  <2> SUFFICES ASSUME y + 1 < z
               PROVE  FALSE
    OBVIOUS
  <2> DEFINE bn == Begin(y + 1)
             ln == YearLength(y + 1)
  <2>1. bn = by + ly
    BY NextYear DEF by, ly
  <2>2. bn + ln <= bz
    BY <1>5, LaterYear DEF bz, z
  <2>3. ln \in Nat /\ ln >= YearDays - 1
    BY <1>6
  <2> HIDE DEF bn, ln
  <2> QED
    BY <1>2, <1>9, <2>1, <2>2, <2>3
<1> QED
  BY <1>5, <1>10, <1>11 DEF z

\* A line of any date but the leap day, received within a year of its day or a
\* day before it by the receiver's clock, gets its own date (_parse_3164_ts).
THEOREM DatedInYear ==
  ASSUME NEW y \in Nat, NEW day \in 1 .. YearDays, day # LeapDay,
         NEW age \in Int, age >= -1, age < YearDays - 2, age < 0 => day > 1,
         NEW now, IsDate(now), DayNumber(now) = DayNumber(DateIn(y, day)) + age
  PROVE  Inferred(day, now) = DayNumber(DateIn(y, day))
<1>1. YearDays \in Nat
  BY CalendarAssumption
<1>2. DateIn(now.year, day) = [year |-> now.year, day |-> day]
  BY DEF DateIn
<1>3. now.year \in Nat /\ Exists(DateIn(now.year, day))
  BY DEF IsDate, Exists, DateIn
<1> DEFINE d == DayNumber(DateIn(y, day))
           n == DayNumber(now)
<1>4. d \in Nat /\ n = d + age
  BY YearOn
<1>5. CASE now.year = y
  <2>1. Inferred(day, now) = IF d - n <= 1 THEN d
                             ELSE IF Exists([DateIn(y, day) EXCEPT !.year = @ - 1])
                                  THEN DayNumber([DateIn(y, day) EXCEPT !.year = @ - 1]) ELSE n
    BY <1>2, <1>3, <1>5 DEF Inferred
  <2> HIDE DEF d, n
  <2>2. d - n <= 1
    BY <1>4
  <2> QED
    BY <2>1, <2>2 DEF d
<1>6. CASE now.year = y + 1
  <2> DEFINE e == DayNumber(DateIn(y + 1, day))
  <2>1. [DateIn(y + 1, day) EXCEPT !.year = @ - 1] = DateIn(y, day)
    BY DEF DateIn
  <2>2. Exists(DateIn(y, day))
    BY DEF Exists, DateIn
  <2>3. Inferred(day, now) = IF e - n <= 1 THEN e ELSE d
    BY <1>2, <1>3, <1>6, <2>1, <2>2 DEF Inferred
  <2>4. e \in Nat /\ e >= d + (YearDays - 1)
    BY YearOn
  <2> HIDE DEF d, n, e
  <2>5. ~(e - n <= 1)
    BY <1>1, <1>4, <2>4
  <2> QED
    BY <2>3, <2>5 DEF d
<1> QED
  BY <1>5, <1>6, ThisYearOrLast

\* Every day that a line may come on has a date.
LEMMA DateOfExists ==
  ASSUME NEW y \in 1 .. 8, NEW day \in 1 .. YearDays, day # LeapDay,
         NEW age \in Int, age >= -1, age < YearDays - 2, age < 0 => day > 1
  PROVE  LET n == DayNumber(DateIn(y, day)) + age
         IN IsDate(DateOf(n)) /\ DayNumber(DateOf(n)) = n
<1> DEFINE a == DateIn(y, day)
           n == DayNumber(a) + age
           D == [year : 0 .. 12, day : 1 .. YearDays]
<1>1. a.year = y /\ a.day = day /\ y \in Nat
  BY DEF DateIn
<1>2. YearDays \in Nat /\ YearDays > 1 /\ LeapDay \in 2 .. YearDays
  BY CalendarAssumption
<1>3. IsDate(a)
  BY <1>1, YearOn DEF a
<1> HIDE DEF a
<1>4. DayNumber(a) = Begin(y) + Place(a) /\ Begin(y) \in Nat /\ Place(a) \in 1 .. YearLength(y)
  BY <1>1, <1>3, DayNumberIs
<1>5. age < 0 => Place(a) > 1
  BY <1>1, <1>2 DEF Place
<1>6. Begin(y + 1) = Begin(y) + YearLength(y)
  BY <1>1, NextYear
<1> DEFINE p == Place(a)
           b == Begin(y)
           l == YearLength(y)
           m == YearLength(y + 1)
<1>7. l \in Nat /\ m \in Nat /\ l >= YearDays - 1 /\ m >= YearDays - 1 /\ l <= YearDays
  BY <1>2 DEF YearLength
<1>8. p \in 1 .. l /\ b \in Nat /\ n = (b + p) + age /\ (age < 0 => p > 1) /\ Begin(y + 1) = b + l
  BY <1>4, <1>5, <1>6
<1>9. \E z \in 0 .. 12 : \E d \in 1 .. YearDays : IsDate(DateIn(z, d)) /\ DayNumber(DateIn(z, d)) = n
  <2> HIDE DEF p, b, l, m, n
  <2>1. CASE p + age <= l
    <3>1. p + age \in 1 .. l
      BY <1>7, <1>8, <2>1
    <3>2. \E d \in 1 .. YearDays : IsDate(DateIn(y, d)) /\ DayNumber(DateIn(y, d)) = Begin(y) + (p + age)
      BY <1>1, <3>1, DateExists DEF l
    <3>3. Begin(y) + (p + age) = n
      BY <1>8, <3>1 DEF b
    <3>4. y \in 0 .. 12
      OBVIOUS
    <3> QED
      BY <3>2, <3>3, <3>4
  <2>2. CASE ~(p + age <= l)
    <3> DEFINE q == (p + age) - l
    <3>1. q \in 1 .. m /\ q \in Int
      BY <1>2, <1>7, <1>8, <2>2
    <3> HIDE DEF q
    <3>2. \E d \in 1 .. YearDays : IsDate(DateIn(y + 1, d)) /\ DayNumber(DateIn(y + 1, d)) = Begin(y + 1) + q
      BY <1>1, <3>1, DateExists DEF m
    <3>3. (b + l) + q = n
      BY <1>7, <1>8, <3>1 DEF q
    <3>4. y + 1 \in 0 .. 12
      OBVIOUS
    <3> QED
      BY <1>8, <3>2, <3>3, <3>4
  <2> QED
    BY <2>1, <2>2
<1> HIDE DEF n
<1>10. \E d \in D : IsDate(d) /\ DayNumber(d) = n
  BY <1>9 DEF DateIn
<1>11. \A d \in D : Exists(d) => IsDate(d)
  BY DEF IsDate
<1>12. \E d \in D : Exists(d) /\ DayNumber(d) = n
  BY <1>10 DEF IsDate
<1>13. DateOf(n) \in D /\ Exists(DateOf(n)) /\ DayNumber(DateOf(n)) = n
  BY <1>12 DEF DateOf
<1>14. IsDate(DateOf(n)) /\ DayNumber(DateOf(n)) = n
  BY <1>11, <1>13
<1> QED
  BY <1>14 DEF n, a

\* So do the lines of the run.
LEMMA LinesAreDated == IInv => DatedRight
<1> SUFFICES ASSUME IInv, Of("day"), input.age < YearDays - 2, input.day # LeapDay,
                    input.age < 0 => input.day > 1
             PROVE  result = DayNumber(input)
  BY DEF DatedRight
<1>1. input \in DayInputs
  BY InputKinds DEF IInv, Of
<1>2. input.year \in 1 .. 8 /\ input.day \in 1 .. YearDays /\ input.age \in -1 .. YearDays
  BY <1>1 DEF DayInputs
<1> DEFINE y == input.year
           day == input.day
           age == input.age
           n == DayNumber(input) + age
<1>3. DayNumber(input) = DayNumber(DateIn(y, day))
  BY DEF DayNumber, DateIn
<1>4. result = Inferred(day, DateOf(n))
  BY DEF IInv, Of, Computed
<1>5. y \in Nat /\ age \in Int /\ age >= -1
  BY <1>2, CalendarAssumption
<1> HIDE DEF y, day, age
<1>6. IsDate(DateOf(n)) /\ DayNumber(DateOf(n)) = n
  BY <1>2, <1>3, <1>5, DateOfExists DEF y, day, age
<1>7. Inferred(day, DateOf(n)) = DayNumber(DateIn(y, day))
  <2> DEFINE now == DateOf(n)
  <2>1. IsDate(now) /\ DayNumber(now) = DayNumber(DateIn(y, day)) + age
    BY <1>3, <1>6
  <2>2. day \in 1 .. YearDays /\ day # LeapDay /\ age < YearDays - 2 /\ (age < 0 => day > 1)
    BY <1>2 DEF day, age
  <2> HIDE DEF now
  <2>3. Inferred(day, now) = DayNumber(DateIn(y, day))
    BY <1>5, <2>1, <2>2, DatedInYear
  <2> QED
    BY <2>3 DEF now
<1> QED
  BY <1>3, <1>4, <1>7

-----------------------------------------------------------------------------
(* The severity of a line (syslog_parse.py).                               *)

\* The more urgent a level, the more severe.
LEMMA Grades ==
  /\ ToOtel(0) = 24 /\ ToOtel(1) = 21 /\ ToOtel(2) = 19 /\ ToOtel(3) = 17
  /\ ToOtel(4) = 13 /\ ToOtel(5) = 10 /\ ToOtel(6) = 9 /\ ToOtel(7) = 5
BY DEF ToOtel

\* Of two syslog levels, the more urgent has the higher OTel number, and only
\* emergency the highest (_SYSLOG_TO_OTEL).
THEOREM UrgencyIsSeverity ==
  ASSUME NEW level \in 0 .. 7
  PROVE  /\ ToOtel(level) \in 5 .. 24 /\ (ToOtel(level) = 24 <=> level = 0)
         /\ \A l \in 0 .. 7 : l < level => ToOtel(l) > ToOtel(level)
<1>1. \A l \in 0 .. 7 : l = 0 \/ l = 1 \/ l = 2 \/ l = 3 \/ l = 4 \/ l = 5 \/ l = 6 \/ l = 7
  OBVIOUS
<1> QED
  BY <1>1, Grades

\* A line is graded by the level that it states.
LEMMA LinesAreGraded ==
  ASSUME None \notin Int
  PROVE  IInv => UrgencyKept
<1> SUFFICES ASSUME IInv, Of("line")
             PROVE  LET level == IF input.cisco \in 0 .. 7 THEN input.cisco
                                 ELSE IF input.pri = None THEN None ELSE input.pri - 8 * (input.pri \div 8)
                    IN IF level = None THEN result = 0
                       ELSE /\ result \in 5 .. 24 /\ (result = 24 <=> level = 0)
                            /\ \A l \in 0 .. 7 : l < level => ToOtel(l) > result
  BY DEF UrgencyKept
<1> DEFINE pri == input.pri
           cisco == input.cisco
<1>1. input \in LineInputs
  BY InputKinds DEF IInv, Of
<1>2. pri \in {None} \cup 0 .. 191
  BY <1>1 DEF LineInputs
<1>3. result = LineSeverity(input)
  BY DEF IInv, Of, Computed
<1>4. CASE cisco \in 0 .. 7
  <2>1. result = ToOtel(cisco)
    BY <1>3, <1>4 DEF LineSeverity
  <2>2. cisco # None
    BY <1>4
  <2> QED
    BY <1>4, <2>1, <2>2, UrgencyIsSeverity
<1>5. CASE cisco \notin 0 .. 7 /\ pri = None
  BY <1>3, <1>5 DEF LineSeverity
<1>6. CASE cisco \notin 0 .. 7 /\ pri # None
  <2> DEFINE level == pri - 8 * (pri \div 8)
  <2>1. level = pri % 8 /\ level \in 0 .. 7
    BY <1>2, <1>6
  <2>2. result = ToOtel(pri % 8)
    BY <1>3, <1>6 DEF LineSeverity, PriSeverity
  <2>3. level # None
    BY <2>1
  <2> HIDE DEF level
  <2>4. /\ result \in 5 .. 24 /\ (result = 24 <=> level = 0)
        /\ \A l \in 0 .. 7 : l < level => ToOtel(l) > result
    BY <2>1, <2>2, UrgencyIsSeverity
  <2> QED
    BY <1>6, <2>3, <2>4 DEF level
<1> QED
  BY <1>4, <1>5, <1>6

-----------------------------------------------------------------------------
(* The partition of an event (collector.py and schema.sql).                *)

\* The remainder is smaller than the divisor.
LEMMA Division ==
  ASSUME NEW a \in Int, NEW w \in Nat \ {0}
  PROVE  /\ a = w * (a \div w) + (a % w) /\ a % w \in 0 .. w - 1
         /\ a \div w \in Int
OBVIOUS

\* Dividing a multiple.
LEMMA Multiple ==
  ASSUME NEW q \in Int, NEW w \in Nat \ {0}
  PROVE  (q * w) \div w = q
<1> DEFINE p == (q * w) \div w
           m == (q * w) % w
<1>1. q * w \in Int
  OBVIOUS
<1>2. q * w = w * p + m /\ m \in 0 .. w - 1 /\ p \in Int
  BY <1>1, Division
<1> HIDE DEF p, m
<1>3. w * (q - p) = m
  BY <1>2
<1>4. q - p >= 1 => w * (q - p) >= w
  BY <1>2
<1>5. q - p <= -1 => w * (q - p) <= -w
  BY <1>2
<1>6. q - p \in Int /\ m \in Int /\ m < w /\ m >= 0
  BY <1>2
<1>7. p = q
  BY <1>2, <1>3, <1>4, <1>5, <1>6
<1> QED
  BY <1>7 DEF p

\* The multiple of w at or before a.
LEMMA Floor ==
  ASSUME NEW a \in Int, NEW w \in Nat \ {0}
  PROVE  /\ (a \div w) * w \in Int
         /\ (a \div w) * w <= a /\ a < (a \div w) * w + w
         /\ (((a \div w) * w) \div w) * w = (a \div w) * w
<1> DEFINE q == a \div w
           m == a % w
<1>1. a = w * q + m /\ m \in 0 .. w - 1 /\ q \in Int
  BY Division
<1> HIDE DEF q, m
<1>2. q * w \in Int /\ q * w <= a /\ a < q * w + w
  BY <1>1
<1>3. (q * w) \div w = q
  BY <1>1, Multiple
<1> QED
  BY <1>2, <1>3 DEF q

\* The partition that the flusher makes for an event (ringdown_ensure_week of the
\* event's Monday) holds it, where the database's session is in UTC.
THEOREM WeekOfEvent ==
  ASSUME NEW hour \in Int, NEW now
  PROVE  LET week == Ensured(hour, now, 0)
         IN week.from <= hour /\ hour < week.to
<1> DEFINE start == (hour \div Week) * Week
<1>1. Week \in Nat \ {0}
  BY CalendarAssumption DEF Week
<1>3. start \in Int /\ start <= hour /\ hour < start + Week
  BY <1>1, Floor
<1>4. (start \div Week) * Week = start
  BY <1>1, Floor
<1>5. Ensured(hour, now, 0) = [from |-> ((start + 0) \div Week) * Week - 0,
                               to |-> (((start + 0) \div Week) * Week - 0) + Week]
  BY DEF Ensured, EnsureWeek, Monday
<1>6. start + 0 = start
  BY <1>3
<1> QED
  BY <1>1, <1>3, <1>4, <1>5, <1>6

\* So do the partitions of the run, and they outlive their events' term.
LEMMA EventsAreStored ==
  ASSUME Zones = {0}
  PROVE  IInv => WeekHoldsEvent
<1> SUFFICES ASSUME IInv, Of("week")
             PROVE  /\ result.from <= input.hour /\ input.hour < result.to
                    /\ Expired(result, input.now, input.keep) => input.hour < input.now - input.keep
  BY DEF WeekHoldsEvent
<1>1. input \in WeekInputs
  BY InputKinds DEF IInv, Of
<1>2. Week \in Nat
  BY CalendarAssumption DEF Week
<1>3. input.hour \in Int /\ input.now \in Int /\ input.zone = 0 /\ input.keep \in Int
  BY <1>1, <1>2 DEF WeekInputs
<1>4. result = Ensured(input.hour, input.now, 0)
  BY <1>3 DEF IInv, Of, Computed
<1>5. result.from <= input.hour /\ input.hour < result.to
  BY <1>3, <1>4, WeekOfEvent
<1>6. result.to \in Int
  <2> DEFINE k == (Monday(input.hour) + 0) \div Week
  <2>1. result.to = (k * Week - 0) + Week
    BY <1>4 DEF Ensured, EnsureWeek
  <2>2. k \in Int
    <3>1. Week \in Nat \ {0}
      BY CalendarAssumption DEF Week
    <3>2. Monday(input.hour) \in Int
      BY <1>3, <3>1, Floor DEF Monday
    <3>3. Monday(input.hour) + 0 \in Int
      BY <3>2
    <3> QED
      BY <1>2, <3>1, <3>3, Division
  <2> HIDE DEF k
  <2> QED
    BY <1>2, <2>1, <2>2
<1> QED
  BY <1>3, <1>5, <1>6 DEF Expired

-----------------------------------------------------------------------------
(* A request's records, all or none of them (otlp.py).                     *)

\* Joins of sequences that begin alike agree there.
BeginAlike(a, b, m) ==
  /\ Len(a) \in Nat /\ Len(b) \in Nat /\ m \in 0 .. Len(a) /\ m \in 0 .. Len(b)
  /\ \A i \in 1 .. m : a[i] = b[i]

\* They are the same concatenations.
LEMMA JoinsAgree ==
  ASSUME NEW a, NEW b, NEW m, BeginAlike(a, b, m),
         NEW g, NEW h, Joins(g, a), Joins(h, b)
  PROVE  g[m] = h[m]
<1> DEFINE P == {n \in 0 .. m : g[n] = h[n]}
<1>0. m \in Nat
  BY DEF BeginAlike
<1>1. 0 \in P
  BY <1>0 DEF Joins
<1>2. ASSUME NEW n \in 1 .. m, n - 1 \in P
      PROVE  n \in P
  <2>1. n \in 1 .. Len(a) /\ n \in 1 .. Len(b) /\ n \in 0 .. m
    <3>1. PICK la \in Nat, lb \in Nat : la = Len(a) /\ lb = Len(b)
      BY DEF BeginAlike
    <3>5. m <= la /\ m <= lb
      BY <3>1 DEF BeginAlike
    <3>2. n \in 1 .. la /\ n \in 1 .. lb /\ n \in 0 .. m
      BY <1>0, <3>5
    <3> QED
      BY <3>1, <3>2
  <2>2. g[n] = g[n - 1] \o a[n] /\ h[n] = h[n - 1] \o b[n]
    BY <2>1 DEF Joins
  <2>3. g[n - 1] = h[n - 1] /\ a[n] = b[n]
    BY <1>2 DEF BeginAlike
  <2>4. g[n] = h[n]
    BY <2>2, <2>3
  <2> QED
    BY <2>1, <2>4
<1> HIDE DEF P
<1>3. \A n \in 0 .. m : n \in P
  BY <1>0, <1>1, <1>2, CountUp
<1> QED
  BY <1>0, <1>3 DEF P

\* Flattening a concatenation.
LEMMA FlattenConcat ==
  ASSUME NEW S, NEW a \in Seq(Seq(S)), NEW b \in Seq(Seq(S))
  PROVE  FlattenSeq(a \o b) = FlattenSeq(a) \o FlattenSeq(b)
<1>0. \A x, y, z \in Seq(S) : (x \o y) \o z = x \o (y \o z)
  BY ConcatAssociative, SMTT(30)
<1> DEFINE T == Seq(S)
<1>1. PICK la \in Nat, lb \in Nat : la = Len(a) /\ lb = Len(b)
  BY LenProperties
<1>2. PICK c \in Seq(T) : c = a \o b /\ Len(c) = la + lb
  BY <1>1, ConcatProperties
<1>3. /\ \A i \in 1 .. la : c[i] = a[i]
      /\ \A i \in 1 .. lb : c[la + i] = b[i]
  <2>1. \A i \in 1 .. la + lb : c[i] = IF i <= la THEN a[i] ELSE b[i - la]
    <3> HIDE DEF T
    <3>1. \A i \in 1 .. Len(a) + Len(b) : (a \o b)[i] = IF i <= Len(a) THEN a[i] ELSE b[i - Len(a)]
      BY ConcatProperties DEF T
    <3> QED
      BY <1>1, <1>2, <3>1
  <2>2. \A i \in 1 .. la : i \in 1 .. la + lb /\ i <= la
    OBVIOUS
  <2>3. \A i \in 1 .. lb : la + i \in 1 .. la + lb /\ ~(la + i <= la) /\ (la + i) - la = i
    OBVIOUS
  <2> QED
    BY <2>1, <2>2, <2>3
<1>4. PICK g \in [0 .. la + lb -> T] : Joins(g, c) /\ FlattenSeq(c) = g[la + lb]
  BY <1>2, Flattened
<1>5. PICK ga \in [0 .. la -> T] : Joins(ga, a) /\ FlattenSeq(a) = ga[la]
  BY <1>1, Flattened
<1>6. PICK gb \in [0 .. lb -> T] : Joins(gb, b) /\ FlattenSeq(b) = gb[lb]
  BY <1>1, Flattened
<1>7. g[la] = ga[la]
  <2>1. BeginAlike(c, a, la)
    BY <1>1, <1>2, <1>3 DEF BeginAlike
  <2>2. Joins(g, c) /\ Joins(ga, a)
    BY <1>4, <1>5
  <2>3. \A p, q : Joins(p, c) /\ Joins(q, a) => p[la] = q[la]
    BY <2>1, JoinsAgree
  <2> QED
    BY <2>2, <2>3
<1> DEFINE P == {n \in 0 .. lb : g[la + n] = ga[la] \o gb[n]}
<1>8. ga[la] \in T /\ \A n \in 0 .. lb : gb[n] \in T
  OBVIOUS
<1>9. 0 \in P
  <2>1. la + 0 = la /\ gb[0] = <<>> /\ 0 \in 0 .. lb
    BY <1>6 DEF Joins
  <2>2. ga[la] \o <<>> = ga[la]
    BY <1>8, ConcatEmptySeq
  <2> QED
    BY <1>7, <2>1, <2>2
<1>10. ASSUME NEW n \in 1 .. lb, n - 1 \in P
       PROVE  n \in P
  <2>1. g[la + n] = g[(la + n) - 1] \o c[la + n]
    <3>1. la + n \in 1 .. Len(c)
      BY <1>2
    <3> QED
      BY <1>4, <3>1 DEF Joins
  <2>2. (la + n) - 1 = la + (n - 1) /\ n - 1 \in 0 .. lb
    OBVIOUS
  <2>3. g[la + n] = (ga[la] \o gb[n - 1]) \o b[n]
    <3>1. g[la + (n - 1)] = ga[la] \o gb[n - 1]
      BY <1>10
    <3>2. c[la + n] = b[n]
      BY <1>3
    <3> HIDE DEF P
    <3> QED
      BY <2>1, <2>2, <3>1, <3>2
  <2>4. b[n] \in T /\ gb[n - 1] \in T
    BY <1>1, <1>8, <2>2, ElementOfSeq
  <2>5. g[la + n] = ga[la] \o (gb[n - 1] \o b[n])
    <3>1. PICK x \in Seq(S), y \in Seq(S), z \in Seq(S) : x = ga[la] /\ y = gb[n - 1] /\ z = b[n]
      BY <1>8, <2>4
    <3>2. (x \o y) \o z = x \o (y \o z)
      BY <1>0
    <3> QED
      BY <2>3, <3>1, <3>2
  <2>6. gb[n] = gb[n - 1] \o b[n]
    BY <1>1, <1>6 DEF Joins
  <2>7. n \in 0 .. lb
    OBVIOUS
  <2>8. g[la + n] = ga[la] \o gb[n]
    BY <2>5, <2>6
  <2> QED
    BY <2>7, <2>8
<1> HIDE DEF P
<1>11. \A n \in 0 .. lb : n \in P
  BY <1>9, <1>10, CountUp
<1>12. g[la + lb] = ga[la] \o gb[lb]
  <2>1. lb \in P
    BY <1>11
  <2> QED
    BY <2>1 DEF P
<1> QED
  BY <1>2, <1>4, <1>5, <1>6, <1>12

\* The elements of a concatenation.
LEMMA JoinedSet ==
  ASSUME NEW S, NEW s \in Seq(S), NEW t \in Seq(S)
  PROVE  ToSet(s \o t) = ToSet(s) \cup ToSet(t)
<1>1. PICK ls \in Nat, lt \in Nat : ls = Len(s) /\ lt = Len(t)
  BY LenProperties
<1>2. PICK u \in Seq(S) : u = s \o t
  BY ConcatProperties
<1>3. Len(u) = ls + lt /\ \A i \in 1 .. ls + lt : u[i] = IF i <= ls THEN s[i] ELSE t[i - ls]
  <2>1. /\ Len(s \o t) = Len(s) + Len(t)
        /\ \A i \in 1 .. Len(s) + Len(t) : (s \o t)[i] = IF i <= Len(s) THEN s[i] ELSE t[i - Len(s)]
    BY ConcatProperties
  <2> QED
    BY <1>1, <1>2, <2>1
<1>4. DOMAIN u = 1 .. ls + lt /\ DOMAIN s = 1 .. ls /\ DOMAIN t = 1 .. lt
  BY <1>1, <1>3, LenProperties
<1>5. ASSUME NEW x \in ToSet(u)
      PROVE  x \in ToSet(s) \cup ToSet(t)
  <2>1. PICK i \in 1 .. ls + lt : x = u[i]
    BY <1>4 DEF ToSet
  <2>2. CASE i \in 1 .. ls
    <3>1. x = s[i]
      BY <1>3, <2>1, <2>2
    <3> QED
      BY <1>4, <2>2, <3>1 DEF ToSet
  <2>3. CASE i \notin 1 .. ls
    <3>1. i - ls \in 1 .. lt /\ ~(i <= ls)
      BY <2>3
    <3>2. x = t[i - ls]
      BY <1>3, <2>1, <3>1
    <3> QED
      BY <1>4, <3>1, <3>2 DEF ToSet
  <2> QED
    BY <2>2, <2>3
<1>6. ASSUME NEW x \in ToSet(s)
      PROVE  x \in ToSet(u)
  <2>1. PICK i \in 1 .. ls : x = s[i]
    BY <1>4 DEF ToSet
  <2>2. i \in 1 .. ls + lt /\ i <= ls
    OBVIOUS
  <2> QED
    BY <1>3, <1>4, <2>1, <2>2 DEF ToSet
<1>7. ASSUME NEW x \in ToSet(t)
      PROVE  x \in ToSet(u)
  <2>1. PICK i \in 1 .. lt : x = t[i]
    BY <1>4 DEF ToSet
  <2>2. ls + i \in 1 .. ls + lt /\ ~(ls + i <= ls) /\ (ls + i) - ls = i
    OBVIOUS
  <2> QED
    BY <1>3, <1>4, <2>1, <2>2 DEF ToSet
<1> QED
  BY <1>2, <1>5, <1>6, <1>7

\* The elements of the whole are those of the parts.
LEMMA FlattenedMembers ==
  ASSUME NEW S, NEW seqs \in Seq(Seq(S)), NEW x
  PROVE  x \in ToSet(FlattenSeq(seqs)) <=> \E n \in 1 .. Len(seqs) : x \in ToSet(seqs[n])
<1>1. PICK l \in Nat : l = Len(seqs)
  BY LenProperties
<1>2. PICK g \in [0 .. l -> Seq(S)] : Joins(g, seqs) /\ FlattenSeq(seqs) = g[l]
  BY <1>1, Flattened
<1> DEFINE P == {m \in 0 .. l : x \in ToSet(g[m]) <=> \E n \in 1 .. m : x \in ToSet(seqs[n])}
<1>3. 0 \in P
  <2>1. g[0] = <<>> /\ ToSet(<<>>) = {}
    BY <1>2 DEF Joins, ToSet
  <2> QED
    BY <2>1
<1>4. ASSUME NEW m \in 1 .. l, m - 1 \in P
      PROVE  m \in P
  <2>1. g[m] = g[m - 1] \o seqs[m]
    BY <1>1, <1>2 DEF Joins
  <2>2. m - 1 \in 0 .. l /\ 1 .. m = (1 .. m - 1) \cup {m}
    OBVIOUS
  <2>3. g[m - 1] \in Seq(S) /\ seqs[m] \in Seq(S)
    BY <1>1, <2>2, ElementOfSeq
  <2>4. ToSet(g[m]) = ToSet(g[m - 1]) \cup ToSet(seqs[m])
    BY <2>1, <2>3, JoinedSet
  <2>5. x \in ToSet(g[m - 1]) <=> \E n \in 1 .. m - 1 : x \in ToSet(seqs[n])
    BY <1>4
  <2>6. x \in ToSet(g[m]) <=> \E n \in 1 .. m : x \in ToSet(seqs[n])
    BY <2>2, <2>4, <2>5
  <2>7. m \in 0 .. l
    OBVIOUS
  <2> QED
    BY <2>6, <2>7
<1> HIDE DEF P
<1>5. \A m \in 0 .. l : m \in P
  BY <1>3, <1>4, CountUp
<1> QED
  BY <1>1, <1>2, <1>5 DEF P

\* The sequences of one element each.
Singles(s) == [n \in 1 .. Len(s) |-> <<s[n]>>]

\* They are sequences.
LEMMA SinglesType ==
  ASSUME NEW S, NEW s \in Seq(S)
  PROVE  Singles(s) \in Seq(Seq(S))
<1>1. PICK l \in Nat : l = Len(s)
  BY LenProperties
<1>2. \A n \in 1 .. l : <<s[n]>> \in Seq(S)
  <2> SUFFICES ASSUME NEW n \in 1 .. l
               PROVE  <<s[n]>> \in Seq(S)
    OBVIOUS
  <2>1. s[n] \in S
    BY <1>1, ElementOfSeq
  <2> QED
    BY <2>1
<1> DEFINE T == Seq(S)
<1>3. \A n \in 1 .. l : <<s[n]>> \in T
  BY <1>2
<1> HIDE DEF T
<1>4. [n \in 1 .. l |-> <<s[n]>>] \in Seq(T)
  BY <1>3
<1> QED
  BY <1>1, <1>4 DEF Singles, T

\* Together they are the sequence.
LEMMA FlattenSingles ==
  ASSUME NEW S, NEW s \in Seq(S)
  PROVE  FlattenSeq(Singles(s)) = s
<1>1. PICK l \in Nat : l = Len(s)
  BY LenProperties
<1>2. PICK c \in Seq(Seq(S)) : c = Singles(s)
  BY SinglesType
<1>3. Len(c) = l /\ \A n \in 1 .. l : c[n] = <<s[n]>> /\ s[n] \in S
  <2>1. c = [n \in 1 .. l |-> <<s[n]>>]
    BY <1>1, <1>2 DEF Singles
  <2>2. DOMAIN c = 1 .. l /\ DOMAIN c = 1 .. Len(c) /\ Len(c) \in Nat
    BY <2>1, LenProperties
  <2>3. \A n \in 1 .. l : s[n] \in S
    BY <1>1, ElementOfSeq
  <2>4. Len(c) = l
    BY <2>2
  <2> QED
    BY <2>1, <2>3, <2>4
<1>4. PICK g \in [0 .. l -> Seq(S)] : Joins(g, c) /\ FlattenSeq(c) = g[l]
  BY <1>3, Flattened
<1> DEFINE P == {m \in 0 .. l : Len(g[m]) = m /\ \A i \in 1 .. m : g[m][i] = s[i]}
<1>5. 0 \in P
  BY <1>4 DEF Joins
<1>6. ASSUME NEW m \in 1 .. l, m - 1 \in P
      PROVE  m \in P
  <2>1. PICK a \in Seq(S) : a = g[m - 1] /\ Len(a) = m - 1 /\ \A i \in 1 .. m - 1 : a[i] = s[i]
    <3>1. m - 1 \in 0 .. l
      OBVIOUS
    <3> QED
      BY <1>6, <3>1
  <2>2. g[m] = a \o <<s[m]>>
    BY <1>3, <1>4, <2>1 DEF Joins
  <2>3. <<s[m]>> \in Seq(S) /\ Len(<<s[m]>>) = 1 /\ <<s[m]>>[1] = s[m]
    <3>1. s[m] \in S
      BY <1>3
    <3> QED
      BY <3>1
  <2>4. PICK u \in Seq(S) : u = <<s[m]>> /\ Len(u) = 1 /\ u[1] = s[m]
    BY <2>3
  <2>5. /\ Len(a \o u) = Len(a) + Len(u)
        /\ \A i \in 1 .. Len(a) + Len(u) : (a \o u)[i] = IF i <= Len(a) THEN a[i] ELSE u[i - Len(a)]
    BY <2>4, ConcatProperties
  <2>6. Len(a \o u) = m /\ \A i \in 1 .. m : (a \o u)[i] = IF i <= m - 1 THEN a[i] ELSE u[i - (m - 1)]
    <3>1. Len(a) + Len(u) = m
      BY <2>1, <2>4
    <3> QED
      BY <2>1, <2>5, <3>1
  <2>7. ASSUME NEW i \in 1 .. m
        PROVE  (a \o u)[i] = s[i]
    <3>1. CASE i = m
      <4>1. ~(m <= m - 1) /\ m - (m - 1) = 1
        OBVIOUS
      <4> QED
        BY <2>4, <2>6, <3>1, <4>1
    <3>2. CASE i # m
      <4>1. i \in 1 .. m - 1 /\ i <= m - 1
        BY <3>2
      <4> QED
        BY <2>1, <2>6, <4>1
    <3> QED
      BY <3>1, <3>2
  <2>8. g[m] = a \o u
    BY <2>2, <2>4
  <2> HIDE DEF P
  <2>9. Len(g[m]) = m /\ \A i \in 1 .. m : g[m][i] = s[i]
    BY <2>6, <2>7, <2>8
  <2> QED
    BY <2>9 DEF P
<1> HIDE DEF P
<1>7. \A m \in 0 .. l : m \in P
  BY <1>5, <1>6, CountUp
<1>8. Len(g[l]) = l /\ (\A i \in 1 .. l : g[l][i] = s[i]) /\ g[l] \in Seq(S)
  BY <1>7 DEF P
<1>9. g[l] = s
  BY <1>1, <1>8, SeqEqual
<1> QED
  BY <1>2, <1>4, <1>9

\* Flattening the parts first makes no difference.
LEMMA FlattenTwice ==
  ASSUME NEW S, NEW p \in Seq(Seq(Seq(S))), NEW v \in Seq(Seq(S)), Len(v) = Len(p),
         \A n \in 1 .. Len(p) : v[n] = FlattenSeq(p[n])
  PROVE  FlattenSeq(v) = FlattenSeq(FlattenSeq(p))
<1>1. PICK l \in Nat : l = Len(p) /\ l = Len(v)
  BY LenProperties
<1> DEFINE T == Seq(S)
<1>2. PICK g : (g \in [0 .. l -> Seq(T)]) /\ Joins(g, p) /\ FlattenSeq(p) = g[l]
  BY <1>1, Flattened
<1>3. PICK h : (h \in [0 .. l -> T]) /\ Joins(h, v) /\ FlattenSeq(v) = h[l]
  BY <1>1, Flattened
<1> DEFINE P == {n \in 0 .. l : h[n] = FlattenSeq(g[n])}
<1>4. 0 \in P
  <2>1. FlattenSeq(<<>>) = <<>>
    BY DEF FlattenSeq
  <2> QED
    BY <1>2, <1>3, <2>1 DEF Joins
<1>5. ASSUME NEW n \in 1 .. l, n - 1 \in P
      PROVE  n \in P
  <2>1. h[n] = h[n - 1] \o v[n] /\ g[n] = g[n - 1] \o p[n] /\ v[n] = FlattenSeq(p[n])
    BY <1>1, <1>2, <1>3 DEF Joins
  <2>2. h[n - 1] = FlattenSeq(g[n - 1]) /\ n - 1 \in 0 .. l /\ n \in 0 .. l
    BY <1>5
  <2>3. g[n - 1] \in Seq(Seq(S)) /\ p[n] \in Seq(Seq(S))
    BY <1>1, <1>2, <2>2, ElementOfSeq
  <2>4. FlattenSeq(g[n - 1] \o p[n]) = FlattenSeq(g[n - 1]) \o FlattenSeq(p[n])
    BY <2>3, FlattenConcat
  <2> HIDE DEF P
  <2>5. h[n] = FlattenSeq(g[n])
    BY <2>1, <2>2, <2>4
  <2> QED
    BY <2>2, <2>5 DEF P
<1> HIDE DEF P
<1>6. \A n \in 0 .. l : n \in P
  BY <1>4, <1>5, CountUp
<1> QED
  BY <1>2, <1>3, <1>6 DEF P

-----------------------------------------------------------------------------

\* What adding a part to the events comes to: all of it, or nothing at all. 
Plus(max, events, part) ==
  IF events = None \/ part = None \/ Len(events) + Len(part) > max THEN None ELSE events \o part

Taken(R, max) == {None} \cup {s \in Seq(R) : Len(s) <= max}

\* What the parts come to together.
AllOf(parts) == IF \E n \in 1 .. Len(parts) : parts[n] = None THEN None ELSE FlattenSeq(parts)

\* The events stay within the bound.
LEMMA PlusType ==
  ASSUME NEW R, NEW max \in Nat, NEW events \in Taken(R, max), NEW part \in Seq(R) \cup {None}
  PROVE  Plus(max, events, part) \in Taken(R, max)
<1>1. CASE events = None \/ part = None \/ Len(events) + Len(part) > max
  BY <1>1 DEF Plus, Taken
<1>2. CASE ~(events = None \/ part = None \/ Len(events) + Len(part) > max)
  <2>1. PICK e \in Seq(R), s \in Seq(R) : e = events /\ s = part
    BY <1>2 DEF Taken
  <2>2. e \o s \in Seq(R) /\ Len(e \o s) = Len(e) + Len(s) /\ Len(e) \in Nat /\ Len(s) \in Nat
    BY ConcatProperties, LenProperties
  <2>3. Plus(max, events, part) = e \o s
    BY <1>2, <2>1 DEF Plus
  <2>4. Len(e) + Len(s) <= max
    BY <1>2, <2>1, <2>2
  <2> QED
    BY <2>2, <2>3, <2>4 DEF Taken
<1> QED
  BY <1>1, <1>2

\* Adding one part and then another is adding both.
LEMMA PlusOf ==
  ASSUME NEW R, None \notin Seq(R), NEW max \in Nat, NEW events \in Taken(R, max),
         NEW a \in Seq(R), NEW b \in Seq(R)
  PROVE  Plus(max, Plus(max, events, a), b) = Plus(max, events, a \o b)
<1>1. a # None /\ b # None /\ a \o b # None /\ a \o b \in Seq(R)
  BY ConcatProperties
<1>2. PICK la \in Nat, lb \in Nat : la = Len(a) /\ lb = Len(b) /\ Len(a \o b) = la + lb
  BY LenProperties, ConcatProperties
<1>3. CASE events = None
  BY <1>3 DEF Plus
<1>4. CASE events # None
  <2>1. PICK e \in Seq(R) : e = events
    BY <1>4 DEF Taken
  <2>2. PICK le \in Nat : le = Len(e)
    BY LenProperties
  <2>3. PICK u \in Seq(R) : u = e \o a /\ Len(u) = le + la /\ u # None
    BY <1>2, <2>2, ConcatProperties
  <2>4. u \o b = e \o (a \o b)
    BY <2>3, ConcatAssociative, SMTT(30)
  <2>5. Plus(max, events, a) = IF le + la > max THEN None ELSE u
    BY <1>1, <1>2, <1>4, <2>1, <2>2, <2>3 DEF Plus
  <2>6. Plus(max, events, a \o b) = IF le + (la + lb) > max THEN None ELSE u \o b
    BY <1>1, <1>2, <1>4, <2>1, <2>2, <2>4 DEF Plus
  <2>7. Plus(max, u, b) = IF (le + la) + lb > max THEN None ELSE u \o b
    BY <1>1, <1>2, <2>3 DEF Plus
  <2>8. le + (la + lb) = (le + la) + lb /\ (le + la > max => (le + la) + lb > max)
    OBVIOUS
  <2>9. Plus(max, None, b) = None
    BY DEF Plus
  <2> QED
    BY <2>5, <2>6, <2>7, <2>8, <2>9
<1> QED
  BY <1>3, <1>4

\* A loop that adds its parts one after the other.
AddsUp(g, R, max, b, N, parts) ==
  /\ \A n \in 0 .. N : g[n] \in Taken(R, max)
  /\ g = [n \in 0 .. N |-> g[n]]
  /\ g[0] = b /\ \A n \in 1 .. N : g[n] = Plus(max, g[n - 1], parts[n])
  /\ g[N] = Plus(max, b, AllOf(parts))

\* There is such a loop, and it adds all of the parts or nothing.
LEMMA PartsAdded ==
  ASSUME NEW R, None \notin Seq(R), NEW max \in Nat, NEW b \in Taken(R, max),
         NEW N \in Nat, NEW parts \in [1 .. N -> Seq(R) \cup {None}]
  PROVE  \E g : AddsUp(g, R, max, b, N, parts)
<1> DEFINE W == Taken(R, max)
           G == [n \in 1 .. N |-> [w \in W |-> Plus(max, w, parts[n])]]
<1>1. G \in [1 .. N -> [W -> W]]
  <2>1. \A n \in 1 .. N : \A w \in W : Plus(max, w, parts[n]) \in W
    BY PlusType
  <2> HIDE DEF W
  <2> QED
    BY <2>1
<1>2. PICK g \in [0 .. N -> W] : Iterates(g, N, b, G)
  <2>1. b \in W
    OBVIOUS
  <2> HIDE DEF W, G
  <2> QED
    BY <1>1, <2>1, Iteration
<1>3. g[0] = b
  BY <1>2 DEF Iterates
<1>4. ASSUME NEW n \in 1 .. N
      PROVE  g[n] = Plus(max, g[n - 1], parts[n]) /\ g[n - 1] \in W
  <2>1. g[n] = G[n][g[n - 1]] /\ g[n - 1] \in W
    BY <1>2 DEF Iterates
  <2> HIDE DEF W
  <2> QED
    BY <2>1
<1>5. parts \in Seq(Seq(R) \cup {None}) /\ Len(parts) = N
  OBVIOUS
<1>6. CASE \E n \in 1 .. N : parts[n] = None
  <2>1. PICK k \in 1 .. N : parts[k] = None
    BY <1>6
  <2> DEFINE P == {n \in 0 .. N : n >= k => g[n] = None}
  <2>2. 0 \in P
    OBVIOUS
  <2>3. ASSUME NEW n \in 1 .. N, n - 1 \in P
        PROVE  n \in P
    <3>1. n = k => g[n] = None
      BY <1>4, <2>1 DEF Plus
    <3>2. n > k => g[n - 1] = None
      BY <2>3
    <3>3. n > k => g[n] = None
      BY <1>4, <3>2 DEF Plus
    <3> QED
      BY <3>1, <3>3
  <2> HIDE DEF P
  <2>4. \A n \in 0 .. N : n \in P
    BY <2>2, <2>3, CountUp
  <2>5. g[N] = None
    BY <2>4 DEF P
  <2>6. AllOf(parts) = None
    BY <1>5, <1>6 DEF AllOf
  <2>7. g[N] = Plus(max, b, AllOf(parts))
    BY <2>5, <2>6 DEF Plus
  <2> QED
    BY <1>2, <1>3, <1>4, <2>7 DEF AddsUp
<1>7. CASE \A n \in 1 .. N : parts[n] # None
  <2>1. parts \in Seq(Seq(R)) /\ \A n \in 1 .. N : parts[n] \in Seq(R)
    <3> DEFINE T == Seq(R)
    <3>1. \A n \in 1 .. N : parts[n] \in T
      BY <1>7
    <3> HIDE DEF T
    <3>2. parts \in Seq(T)
      BY <3>1
    <3> QED
      BY <3>1, <3>2 DEF T
  <2>2. PICK h : (h \in [0 .. N -> Seq(R)]) /\ Joins(h, parts) /\ FlattenSeq(parts) = h[N]
    BY <1>5, <2>1, Flattened
  <2> DEFINE P == {n \in 0 .. N : g[n] = Plus(max, b, h[n])}
  <2>3. 0 \in P
    <3>1. h[0] = <<>> /\ <<>> # None /\ Len(<<>>) = 0
      BY <2>2, EmptySeq DEF Joins
    <3>2. CASE b = None
      BY <1>3, <3>2 DEF Plus
    <3>3. CASE b # None
      <4>1. b \in Seq(R) /\ Len(b) <= max /\ Len(b) \in Nat
        BY <3>3, LenProperties DEF Taken
      <4>2. b \o <<>> = b
        BY <4>1, ConcatEmptySeq
      <4>3. ~(Len(b) + Len(<<>>) > max)
        BY <3>1, <4>1
      <4>4. Plus(max, b, <<>>) = b
        BY <3>1, <3>3, <4>2, <4>3 DEF Plus
      <4> QED
        BY <1>3, <3>1, <4>4
    <3> QED
      BY <3>2, <3>3
  <2>4. ASSUME NEW n \in 1 .. N, n - 1 \in P
        PROVE  n \in P
    <3>1. n - 1 \in 0 .. N /\ n \in 0 .. N
      OBVIOUS
    <3>2. h[n - 1] \in Seq(R) /\ parts[n] \in Seq(R)
      BY <2>1, <2>2, <3>1
    <3>3. h[n] = h[n - 1] \o parts[n]
      BY <1>5, <2>2 DEF Joins
    <3>4. Plus(max, Plus(max, b, h[n - 1]), parts[n]) = Plus(max, b, h[n - 1] \o parts[n])
      BY <3>2, PlusOf
    <3>5. g[n - 1] = Plus(max, b, h[n - 1])
      BY <2>4
    <3> HIDE DEF P
    <3>6. g[n] = Plus(max, b, h[n])
      BY <1>4, <3>3, <3>4, <3>5
    <3> QED
      BY <3>1, <3>6 DEF P
  <2> HIDE DEF P
  <2>5. \A n \in 0 .. N : n \in P
    BY <2>3, <2>4, CountUp
  <2>6. AllOf(parts) = h[N]
    BY <1>5, <1>7, <2>2 DEF AllOf
  <2>7. g[N] = Plus(max, b, AllOf(parts))
    BY <2>5, <2>6 DEF P
  <2> QED
    BY <1>2, <1>3, <1>4, <2>7 DEF AddsUp
<1> QED
  BY <1>6, <1>7

\* What a record, a scope and a group come to.
RecordPart(record) == IF record = Bad THEN None ELSE <<record>>
ScopePart(scope) == IF scope = Bad \/ Bad \in ToSet(scope) THEN None ELSE scope
GroupPart(group) ==
  IF group = Bad \/ (\E s \in ToSet(group) : ScopePart(s) = None) THEN None ELSE FlattenSeq(group)

\* What the innermost loop does with a record (parse_otlp_json).
LEMMA RecordAdded ==
  ASSUME NEW R, None \notin Seq(R), NEW max \in Nat, NEW events \in Taken(R, max), NEW record \in R
  PROVE  AddRecord(max, events, record) = Plus(max, events, RecordPart(record))
<1>1. CASE events = None \/ record = Bad
  BY <1>1 DEF AddRecord, Plus, RecordPart
<1>2. CASE events # None /\ record # Bad
  <2>1. PICK e \in Seq(R) : e = events
    BY <1>2 DEF Taken
  <2>2. PICK u \in Seq(R) : u = <<record>> /\ Len(u) = 1
    <3>1. <<record>> \in Seq(R) /\ Len(<<record>>) = 1
      OBVIOUS
    <3> QED
      BY <3>1
  <2>3. Append(e, record) = e \o u /\ Len(e) \in Nat
    BY <2>2
  <2>4. Len(e) >= max <=> Len(e) + Len(u) > max
    BY <2>2, <2>3
  <2>5. u # None
    OBVIOUS
  <2>6. RecordPart(record) = u
    BY <1>2, <2>2 DEF RecordPart
  <2>7. AddRecord(max, e, record) = IF Len(e) >= max THEN None ELSE Append(e, record)
    BY <1>2, <2>1 DEF AddRecord, TooMany
  <2>8. Plus(max, e, u) = IF Len(e) + Len(u) > max THEN None ELSE e \o u
    BY <1>2, <2>1, <2>5 DEF Plus
  <2> QED
    BY <2>1, <2>3, <2>4, <2>6, <2>7, <2>8
<1> QED
  BY <1>1, <1>2

\* The loop over the records of a scope.
LEMMA ScopeAdded ==
  ASSUME NEW R, None \notin Seq(R), NEW max \in Nat, NEW events \in Taken(R, max),
         NEW scope \in Seq(R) \cup {Bad}
  PROVE  AddScope(max, events, scope) = Plus(max, events, ScopePart(scope))
<1>1. CASE events = None \/ scope = Bad
  BY <1>1 DEF AddScope, Plus, ScopePart
<1>2. CASE events # None /\ scope # Bad
  <2>1. PICK N \in Nat : N = Len(scope)
    BY <1>2, LenProperties
  <2>2. \A n \in 1 .. N : scope[n] \in R
    BY <1>2, <2>1, ElementOfSeq
  <2> DEFINE parts == [n \in 1 .. N |-> RecordPart(scope[n])]
             Is(f) == f = [n \in 0 .. N |-> IF n = 0 THEN events ELSE AddRecord(max, f[n - 1], scope[n])]
             f == CHOOSE f : Is(f)
  <2>3. parts \in [1 .. N -> Seq(R) \cup {None}]
    <3>1. \A n \in 1 .. N : <<scope[n]>> \in Seq(R)
      BY <2>2
    <3> QED
      BY <3>1 DEF RecordPart
  <2>4. \A n \in 1 .. N : parts[n] = RecordPart(scope[n])
    OBVIOUS
  <2> HIDE DEF parts
  <2>13. PICK g : AddsUp(g, R, max, events, N, parts)
    BY <2>3, PartsAdded
  <2>5. /\ \A n \in 0 .. N : g[n] \in Taken(R, max)
        /\ g = [n \in 0 .. N |-> g[n]]
        /\ g[0] = events /\ \A n \in 1 .. N : g[n] = Plus(max, g[n - 1], parts[n])
        /\ g[N] = Plus(max, events, AllOf(parts))
    BY <2>13 DEF AddsUp
  <2>6. \A n \in 1 .. N : g[n] = AddRecord(max, g[n - 1], scope[n])
    <3> SUFFICES ASSUME NEW n \in 1 .. N
                 PROVE  g[n] = AddRecord(max, g[n - 1], scope[n])
      OBVIOUS
    <3>1. g[n - 1] \in Taken(R, max)
      BY <2>5
    <3>2. AddRecord(max, g[n - 1], scope[n]) = Plus(max, g[n - 1], RecordPart(scope[n]))
      BY <2>2, <3>1, RecordAdded
    <3> QED
      BY <2>4, <2>5, <3>2
  <2>7. Is(g)
    <3>1. \A n \in 0 .. N : n = 0 \/ n \in 1 .. N
      OBVIOUS
    <3>2. \A n \in 0 .. N : g[n] = IF n = 0 THEN events ELSE AddRecord(max, g[n - 1], scope[n])
      BY <2>5, <2>6, <3>1
    <3> QED
      BY <2>5, <3>2
  <2>8. Is(f)
    <3> HIDE DEF Is
    <3> QED
      BY <2>7
  <2>9. AddScope(max, events, scope) = f[N]
    BY <1>2, <2>1 DEF AddScope, ForEach
  <2> HIDE DEF f
  <2>10. f[0] = events /\ \A n \in 1 .. N : f[n] = AddRecord(max, f[n - 1], scope[n])
    <3>1. \A n \in 0 .. N : f[n] = IF n = 0 THEN events ELSE AddRecord(max, f[n - 1], scope[n])
      BY <2>8
    <3> QED
      BY <3>1
  <2>11. f[N] = g[N]
    <3> DEFINE P == {n \in 0 .. N : f[n] = g[n]}
    <3>1. 0 \in P
      BY <2>5, <2>10
    <3>2. \A n \in 1 .. N : n - 1 \in P => n \in P
      BY <2>6, <2>10
    <3> HIDE DEF P
    <3>3. \A n \in 0 .. N : n \in P
      BY <3>1, <3>2, CountUp
    <3> QED
      BY <3>3 DEF P
  <2>12. AllOf(parts) = ScopePart(scope)
    <3>1. ToSet(scope) = {scope[n] : n \in 1 .. N} /\ Len(parts) = N
      BY <1>2, <2>1, <2>3, LenProperties DEF ToSet
    <3>2. \A n \in 1 .. N : parts[n] = None <=> scope[n] = Bad
      <4>1. \A n \in 1 .. N : <<scope[n]>> \in Seq(R)
        BY <2>2
      <4> QED
        BY <2>4, <4>1 DEF RecordPart
    <3>3. CASE Bad \in ToSet(scope)
      BY <3>1, <3>2, <3>3 DEF AllOf, ScopePart
    <3>4. CASE Bad \notin ToSet(scope)
      <4>1. \A n \in 1 .. N : parts[n] = <<scope[n]>>
        BY <2>4, <3>1, <3>4 DEF RecordPart
      <4>2. parts = Singles(scope)
        BY <2>1, <2>3, <4>1 DEF Singles
      <4>3. FlattenSeq(parts) = scope
        BY <1>2, <4>2, FlattenSingles
      <4> QED
        BY <1>2, <3>1, <3>2, <3>4, <4>3 DEF AllOf, ScopePart
    <3> QED
      BY <3>3, <3>4
  <2> QED
    BY <2>5, <2>9, <2>11, <2>12
<1> QED
  BY <1>1, <1>2

\* The part of a scope is a sequence of records.
LEMMA ScopePartType ==
  ASSUME NEW R, NEW scope \in Seq(R) \cup {Bad}
  PROVE  /\ ScopePart(scope) \in Seq(R) \cup {None}
         /\ ScopePart(scope) # None => ScopePart(scope) = scope /\ scope \in Seq(R) /\ scope # Bad
BY DEF ScopePart

\* The loop over the scopes of a group.
LEMMA GroupAdded ==
  ASSUME NEW R, None \notin Seq(R), NEW max \in Nat, NEW events \in Taken(R, max),
         NEW group \in Seq(Seq(R) \cup {Bad}) \cup {Bad}
  PROVE  AddGroup(max, events, group) = Plus(max, events, GroupPart(group))
<1>1. CASE events = None \/ group = Bad
  BY <1>1 DEF AddGroup, Plus, GroupPart
<1>2. CASE events # None /\ group # Bad
  <2> DEFINE Sc == Seq(R) \cup {Bad}
  <2>0. group \in Seq(Sc)
    BY <1>2
  <2>1. PICK N \in Nat : N = Len(group)
    BY <2>0, LenProperties
  <2>2. \A n \in 1 .. N : group[n] \in Sc
    BY <2>0, <2>1, ElementOfSeq
  <2> DEFINE parts == [n \in 1 .. N |-> ScopePart(group[n])]
             Is(f) == f = [n \in 0 .. N |-> IF n = 0 THEN events ELSE AddScope(max, f[n - 1], group[n])]
             f == CHOOSE f : Is(f)
  <2>3. parts \in [1 .. N -> Seq(R) \cup {None}]
    <3>1. \A n \in 1 .. N : ScopePart(group[n]) \in Seq(R) \cup {None}
      BY <2>2, ScopePartType
    <3> QED
      BY <3>1
  <2>4. \A n \in 1 .. N : parts[n] = ScopePart(group[n])
    OBVIOUS
  <2> HIDE DEF parts
  <2>13. PICK g : AddsUp(g, R, max, events, N, parts)
    BY <2>3, PartsAdded
  <2>5. /\ \A n \in 0 .. N : g[n] \in Taken(R, max)
        /\ g = [n \in 0 .. N |-> g[n]]
        /\ g[0] = events /\ \A n \in 1 .. N : g[n] = Plus(max, g[n - 1], parts[n])
        /\ g[N] = Plus(max, events, AllOf(parts))
    BY <2>13 DEF AddsUp
  <2>6. \A n \in 1 .. N : g[n] = AddScope(max, g[n - 1], group[n])
    <3> SUFFICES ASSUME NEW n \in 1 .. N
                 PROVE  g[n] = AddScope(max, g[n - 1], group[n])
      OBVIOUS
    <3>1. g[n - 1] \in Taken(R, max)
      BY <2>5
    <3>2. AddScope(max, g[n - 1], group[n]) = Plus(max, g[n - 1], ScopePart(group[n]))
      BY <2>2, <3>1, ScopeAdded
    <3> QED
      BY <2>4, <2>5, <3>2
  <2>7. Is(g)
    <3>1. \A n \in 0 .. N : n = 0 \/ n \in 1 .. N
      OBVIOUS
    <3>2. \A n \in 0 .. N : g[n] = IF n = 0 THEN events ELSE AddScope(max, g[n - 1], group[n])
      BY <2>5, <2>6, <3>1
    <3> QED
      BY <2>5, <3>2
  <2>8. Is(f)
    <3> HIDE DEF Is
    <3> QED
      BY <2>7
  <2>9. AddGroup(max, events, group) = f[N]
    BY <1>2, <2>1 DEF AddGroup, ForEach
  <2> HIDE DEF f
  <2>10. f[0] = events /\ \A n \in 1 .. N : f[n] = AddScope(max, f[n - 1], group[n])
    <3>1. \A n \in 0 .. N : f[n] = IF n = 0 THEN events ELSE AddScope(max, f[n - 1], group[n])
      BY <2>8
    <3> QED
      BY <3>1
  <2>11. f[N] = g[N]
    <3> DEFINE P == {n \in 0 .. N : f[n] = g[n]}
    <3>1. 0 \in P
      BY <2>5, <2>10
    <3>2. \A n \in 1 .. N : n - 1 \in P => n \in P
      BY <2>6, <2>10
    <3> HIDE DEF P
    <3>3. \A n \in 0 .. N : n \in P
      BY <3>1, <3>2, CountUp
    <3> QED
      BY <3>3 DEF P
  <2>12. AllOf(parts) = GroupPart(group)
    <3>1. ToSet(group) = {group[n] : n \in 1 .. N} /\ Len(parts) = N
      BY <2>0, <2>1, <2>3, LenProperties DEF ToSet
    <3>2. (\E n \in 1 .. N : parts[n] = None) <=> \E s \in ToSet(group) : ScopePart(s) = None
      BY <2>4, <3>1
    <3>3. CASE \E n \in 1 .. N : parts[n] = None
      BY <3>1, <3>2, <3>3 DEF AllOf, GroupPart
    <3>4. CASE \A n \in 1 .. N : parts[n] # None
      <4>1. \A n \in 1 .. N : parts[n] = group[n]
        BY <2>2, <2>4, <3>4, ScopePartType
      <4>2. parts = group
        <5>1. parts \in Seq(Seq(R) \cup {None} \cup Sc) /\ group \in Seq(Seq(R) \cup {None} \cup Sc)
          BY <2>0, <2>3, SeqMonotonic
        <5> HIDE DEF Sc
        <5> QED
          BY <2>1, <3>1, <4>1, <5>1, SeqEqual
      <4> QED
        BY <1>2, <3>1, <3>2, <3>4, <4>2 DEF AllOf, GroupPart
    <3> QED
      BY <3>3, <3>4
  <2> QED
    BY <2>5, <2>9, <2>11, <2>12
<1> QED
  BY <1>1, <1>2

\* A group without a malformed scope is a sequence of scopes.
LEMMA GroupPartType ==
  ASSUME NEW R, NEW group \in Seq(Seq(R) \cup {Bad}) \cup {Bad}
  PROVE  /\ GroupPart(group) \in Seq(R) \cup {None}
         /\ GroupPart(group) # None =>
              GroupPart(group) = FlattenSeq(group) /\ group \in Seq(Seq(R)) /\ group # Bad
<1>1. CASE group = Bad \/ \E s \in ToSet(group) : ScopePart(s) = None
  BY <1>1 DEF GroupPart
<1>2. CASE ~(group = Bad \/ \E s \in ToSet(group) : ScopePart(s) = None)
  <2> DEFINE Sc == Seq(R) \cup {Bad}
             T == Seq(R)
  <2>1. group \in Seq(Sc)
    BY <1>2
  <2>2. PICK N \in Nat : N = Len(group) /\ DOMAIN group = 1 .. N /\ \A n \in 1 .. N : group[n] \in Sc
    <3> HIDE DEF Sc
    <3> QED
      BY <2>1, LenProperties
  <2>3. \A n \in 1 .. N : group[n] \in T
    <3> SUFFICES ASSUME NEW n \in 1 .. N
                 PROVE  group[n] \in T
      OBVIOUS
    <3>1. group[n] \in ToSet(group)
      BY <2>2 DEF ToSet
    <3>2. ScopePart(group[n]) # None
      BY <1>2, <3>1
    <3> QED
      BY <2>2, <3>2, ScopePartType
  <2>4. group \in Seq(T)
    <3>1. group = [n \in 1 .. N |-> group[n]]
      <4> HIDE DEF Sc
      <4> QED
        BY <2>1, <2>2
    <3> HIDE DEF T, Sc
    <3>2. [n \in 1 .. N |-> group[n]] \in Seq(T)
      BY <2>3
    <3> QED
      BY <3>1, <3>2
  <2>5. FlattenSeq(group) \in Seq(R)
    <3>1. PICK g : (g \in [0 .. N -> Seq(R)]) /\ FlattenSeq(group) = g[N]
      BY <2>2, <2>4, Flattened
    <3> QED
      BY <3>1
  <2>6. GroupPart(group) = FlattenSeq(group)
    BY <1>2 DEF GroupPart
  <2> QED
    BY <1>2, <2>4, <2>5, <2>6
<1> QED
  BY <1>1, <1>2

\* The loop over the groups of a request.
LEMMA RequestAdded ==
  ASSUME NEW R, None \notin Seq(R), NEW max \in Nat,
         NEW payload \in Seq(Seq(Seq(R) \cup {Bad}) \cup {Bad}),
         NEW parts \in [1 .. Len(payload) -> Seq(R) \cup {None}],
         \A n \in 1 .. Len(payload) : parts[n] = GroupPart(payload[n])
  PROVE  ParseOtlp(payload, max) = Plus(max, <<>>, AllOf(parts))
<1> DEFINE Gr == Seq(Seq(R) \cup {Bad}) \cup {Bad}
<1>1. PICK N \in Nat : N = Len(payload)
  BY LenProperties
<1>2. \A n \in 1 .. N : payload[n] \in Gr
  BY <1>1, ElementOfSeq
<1>12. <<>> \in Taken(R, max)
  BY EmptySeq DEF Taken
<1> DEFINE Is(f) == f = [n \in 0 .. N |-> IF n = 0 THEN <<>> ELSE AddGroup(max, f[n - 1], payload[n])]
           f == CHOOSE f : Is(f)
<1>3. parts \in [1 .. N -> Seq(R) \cup {None}] /\ \A n \in 1 .. N : parts[n] = GroupPart(payload[n])
  BY <1>1
<1>4. PICK g : AddsUp(g, R, max, <<>>, N, parts)
  BY <1>12, <1>3, PartsAdded
<1>5. /\ \A n \in 0 .. N : g[n] \in Taken(R, max)
      /\ g = [n \in 0 .. N |-> g[n]]
      /\ g[0] = <<>> /\ \A n \in 1 .. N : g[n] = Plus(max, g[n - 1], parts[n])
      /\ g[N] = Plus(max, <<>>, AllOf(parts))
  BY <1>4 DEF AddsUp
<1>6. \A n \in 1 .. N : g[n] = AddGroup(max, g[n - 1], payload[n])
  <2> SUFFICES ASSUME NEW n \in 1 .. N
               PROVE  g[n] = AddGroup(max, g[n - 1], payload[n])
    OBVIOUS
  <2>1. g[n - 1] \in Taken(R, max)
    BY <1>5
  <2>2. AddGroup(max, g[n - 1], payload[n]) = Plus(max, g[n - 1], GroupPart(payload[n]))
    <3>1. \A e \in Taken(R, max), x \in Seq(Seq(R) \cup {Bad}) \cup {Bad} :
            AddGroup(max, e, x) = Plus(max, e, GroupPart(x))
      BY GroupAdded
    <3>2. payload[n] \in Seq(Seq(R) \cup {Bad}) \cup {Bad}
      BY <1>2
    <3> QED
      BY <2>1, <3>1, <3>2
  <2> QED
    BY <1>3, <1>5, <2>2
<1>7. Is(g)
  <2>1. \A n \in 0 .. N : n = 0 \/ n \in 1 .. N
    OBVIOUS
  <2>2. \A n \in 0 .. N : g[n] = IF n = 0 THEN <<>> ELSE AddGroup(max, g[n - 1], payload[n])
    BY <1>5, <1>6, <2>1
  <2> QED
    BY <1>5, <2>2
<1>8. Is(f)
  <2> HIDE DEF Is
  <2> QED
    BY <1>7
<1>9. ParseOtlp(payload, max) = f[N]
  BY <1>1 DEF ParseOtlp, ForEach
<1> HIDE DEF f
<1>10. f[0] = <<>> /\ \A n \in 1 .. N : f[n] = AddGroup(max, f[n - 1], payload[n])
  <2>1. \A n \in 0 .. N : f[n] = IF n = 0 THEN <<>> ELSE AddGroup(max, f[n - 1], payload[n])
    BY <1>8
  <2> QED
    BY <2>1
<1>11. f[N] = g[N]
  <2> DEFINE P == {n \in 0 .. N : f[n] = g[n]}
  <2>1. 0 \in P
    BY <1>5, <1>10
  <2>2. \A n \in 1 .. N : n - 1 \in P => n \in P
    BY <1>6, <1>10
  <2> HIDE DEF P
  <2>3. \A n \in 0 .. N : n \in P
    BY <2>1, <2>2, CountUp
  <2> QED
    BY <2>3 DEF P
<1> QED
  BY <1>5, <1>9, <1>11

\* A sequence whose elements are all in the smaller set.
LEMMA Narrowed ==
  ASSUME NEW S, NEW T, NEW s \in Seq(S), \A x \in ToSet(s) : x \in T
  PROVE  s \in Seq(T)
<1>1. PICK N \in Nat : N = Len(s) /\ DOMAIN s = 1 .. N /\ s \in [1 .. N -> S]
  BY LenProperties
<1>2. \A n \in 1 .. N : s[n] \in T
  BY <1>1 DEF ToSet
<1>3. s = [n \in 1 .. N |-> s[n]]
  BY <1>1
<1>4. [n \in 1 .. N |-> s[n]] \in Seq(T)
  BY <1>2
<1> QED
  BY <1>3, <1>4

\* The whole of sequences is a sequence.
LEMMA FlattenType ==
  ASSUME NEW S, NEW seqs \in Seq(Seq(S))
  PROVE  FlattenSeq(seqs) \in Seq(S)
<1>1. PICK N \in Nat : N = Len(seqs)
  BY LenProperties
<1>2. PICK g : (g \in [0 .. N -> Seq(S)]) /\ FlattenSeq(seqs) = g[N]
  BY <1>1, Flattened
<1> QED
  BY <1>2

\* A part added to no events.
LEMMA PartOfRequest ==
  ASSUME NEW max \in Nat, NEW part, part # None, Len(part) \in Nat, <<>> \o part = part, <<>> # None
  PROVE  Plus(max, <<>>, part) = IF Len(part) <= max THEN part ELSE None
<1>1. Len(<<>>) = 0
  OBVIOUS
<1>2. Len(<<>>) + Len(part) > max <=> ~(Len(part) <= max)
  BY <1>1
<1> QED
  BY <1>2 DEF Plus

\* The records of a request, and whether all of it is well-formed and fits.
WholeRequest(payload, max) ==
  LET Flat(groups) == IF Bad \in ToSet(groups) THEN <<>> ELSE FlattenSeq(groups)
      scopes == Flat(payload)
      records == Flat(scopes)
      whole == /\ Bad \notin ToSet(payload) /\ Bad \notin ToSet(scopes)
               /\ Bad \notin ToSet(records) /\ Len(records) <= max
  IN IF whole THEN records ELSE None

\* The nested loops of parse_otlp_json make of any request all of its records,
\* in order, or nothing: when anything in it is malformed, or it has too many.
THEOREM RequestIsWholeOrNothing ==
  ASSUME NEW R, None \notin Seq(R), NEW max \in Nat,
         NEW payload \in Seq(Seq(Seq(R) \cup {Bad}) \cup {Bad})
  PROVE  ParseOtlp(payload, max) = WholeRequest(payload, max)
<1> DEFINE Sc == Seq(R) \cup {Bad}
           T == Seq(R)
<1>1. PICK N \in Nat : N = Len(payload) /\ DOMAIN payload = 1 .. N
  BY LenProperties
<1>2. \A n \in 1 .. N : payload[n] \in Seq(Sc) \cup {Bad}
  BY <1>1, ElementOfSeq
<1>3. PICK parts : /\ parts \in [1 .. N -> Seq(R) \cup {None}]
                   /\ \A n \in 1 .. N : parts[n] = GroupPart(payload[n])
  <2> DEFINE p == [n \in 1 .. N |-> GroupPart(payload[n])]
  <2>1. \A n \in 1 .. N : GroupPart(payload[n]) \in Seq(R) \cup {None}
    BY <1>2, GroupPartType
  <2>2. p \in [1 .. N -> Seq(R) \cup {None}] /\ \A n \in 1 .. N : p[n] = GroupPart(payload[n])
    BY <2>1
  <2> HIDE DEF p
  <2> QED
    BY <2>2
<1>4. Len(parts) = N
  BY <1>3
<1>5. ParseOtlp(payload, max) = Plus(max, <<>>, AllOf(parts))
  BY <1>1, <1>3, RequestAdded
<1>6. ASSUME NEW n \in 1 .. N, GroupPart(payload[n]) = None
      PROVE  ParseOtlp(payload, max) = None
  <2>1. AllOf(parts) = None
    BY <1>3, <1>4, <1>6 DEF AllOf
  <2> QED
    BY <1>5, <2>1 DEF Plus
<1>7. CASE Bad \in ToSet(payload)
  <2>1. PICK n \in 1 .. N : payload[n] = Bad
    BY <1>1, <1>7 DEF ToSet
  <2>2. ParseOtlp(payload, max) = None
    BY <1>6, <2>1 DEF GroupPart
  <2> QED
    BY <1>7, <2>2 DEF WholeRequest
<1>8. CASE Bad \notin ToSet(payload)
  <2>1. payload \in Seq(Seq(Sc))
    <3>1. \A x \in ToSet(payload) : x \in Seq(Sc)
      BY <1>1, <1>2, <1>8 DEF ToSet
    <3> HIDE DEF Sc
    <3> QED
      BY <3>1, Narrowed DEF Sc
  <2> DEFINE scopes == FlattenSeq(payload)
             records == FlattenSeq(scopes)
  <2>2. scopes \in Seq(Sc)
    <3> HIDE DEF Sc
    <3> QED
      BY <2>1, FlattenType
  <2>3. \A s : s \in ToSet(scopes) <=> \E n \in 1 .. N : s \in ToSet(payload[n])
    <3> HIDE DEF Sc
    <3> QED
      BY <1>1, <2>1, FlattenedMembers
  <2>4. ASSUME NEW s \in ToSet(scopes), ScopePart(s) = None
        PROVE  ParseOtlp(payload, max) = None
    <3>1. PICK n \in 1 .. N : s \in ToSet(payload[n])
      BY <2>3
    <3>2. GroupPart(payload[n]) = None
      BY <2>4, <3>1 DEF GroupPart
    <3> QED
      BY <1>6, <3>2
  <2>5. CASE Bad \in ToSet(scopes)
    <3>1. ParseOtlp(payload, max) = None
      BY <2>4, <2>5 DEF ScopePart
    <3> QED
      BY <1>8, <2>5, <3>1 DEF WholeRequest
  <2>6. CASE Bad \notin ToSet(scopes)
    <3>1. scopes \in Seq(T)
      <4>0. PICK M \in Nat : DOMAIN scopes = 1 .. M /\ \A m \in 1 .. M : scopes[m] \in Sc
        <5> HIDE DEF Sc, scopes
        <5> QED
          BY <2>2, LenProperties
      <4>1. \A x \in ToSet(scopes) : x \in T
        BY <2>6, <4>0 DEF ToSet
      <4> HIDE DEF T, Sc, scopes
      <4> QED
        BY <2>2, <4>1, Narrowed
    <3>5. \A s \in ToSet(scopes) : s \in T
      <4>1. PICK M \in Nat : DOMAIN scopes = 1 .. M /\ \A m \in 1 .. M : scopes[m] \in T
        <5> HIDE DEF T, scopes
        <5> QED
          BY <3>1, LenProperties
      <4> QED
        BY <4>1 DEF ToSet
    <3>2. records \in Seq(R)
      <4> HIDE DEF scopes
      <4> QED
        BY <3>1, FlattenType
    <3>3. CASE Bad \in ToSet(records)
      <4>1. PICK M \in Nat : M = Len(scopes) /\ DOMAIN scopes = 1 .. M
        <5> HIDE DEF T, scopes
        <5> QED
          BY <3>1, LenProperties
      <4>2. PICK m \in 1 .. M : Bad \in ToSet(scopes[m])
        <5> HIDE DEF scopes
        <5> QED
          BY <3>1, <3>3, <4>1, FlattenedMembers
      <4>3. scopes[m] \in ToSet(scopes) /\ ScopePart(scopes[m]) = None
        BY <4>1, <4>2 DEF ToSet, ScopePart
      <4>4. ParseOtlp(payload, max) = None
        BY <2>4, <4>3
      <4> QED
        BY <1>8, <2>6, <3>3, <4>4 DEF WholeRequest
    <3>4. CASE Bad \notin ToSet(records)
      <4>1. ASSUME NEW n \in 1 .. N
            PROVE  GroupPart(payload[n]) # None
        <5>1. payload[n] # Bad
          BY <1>1, <1>8 DEF ToSet
        <5>2. ASSUME NEW s \in ToSet(payload[n]), ScopePart(s) = None
              PROVE  FALSE
          <6>1. s \in ToSet(scopes)
            BY <2>3, <5>2
          <6>2. Bad \in ToSet(s)
            <7>1. s # Bad
              BY <2>6, <6>1
            <7>2. s # None
              BY <3>5, <6>1
            <7> QED
              BY <5>2, <7>1, <7>2 DEF ScopePart
          <6>3. PICK M \in Nat : M = Len(scopes) /\ DOMAIN scopes = 1 .. M
            <7> HIDE DEF T, scopes
            <7> QED
              BY <3>1, LenProperties
          <6>4. PICK m \in 1 .. M : s = scopes[m]
            BY <6>1, <6>3 DEF ToSet
          <6>5. Bad \in ToSet(records)
            <7> HIDE DEF scopes
            <7> QED
              BY <3>1, <6>2, <6>3, <6>4, FlattenedMembers
          <6> QED
            BY <3>4, <6>5
        <5>3. FlattenSeq(payload[n]) # None
          <6>1. FlattenSeq(payload[n]) \in Seq(R)
            <7>1. payload[n] \in Seq(Seq(R))
              <8>1. \A s \in ToSet(payload[n]) : s \in T
                BY <2>3, <3>5
              <8>2. payload[n] \in Seq(Sc)
                BY <1>2, <5>1
              <8> HIDE DEF T, Sc
              <8>3. payload[n] \in Seq(T)
                BY <8>1, <8>2, Narrowed
              <8> QED
                BY <8>3 DEF T
            <7> QED
              BY <7>1, FlattenType
          <6> QED
            BY <6>1
        <5> QED
          BY <5>1, <5>2, <5>3 DEF GroupPart
      <4>2. ASSUME NEW n \in 1 .. N
            PROVE  /\ parts[n] = FlattenSeq(payload[n]) /\ payload[n] \in Seq(Seq(R))
                   /\ parts[n] \in T
        BY <1>2, <1>3, <4>1, GroupPartType
      <4>3. AllOf(parts) = FlattenSeq(parts)
        BY <1>3, <1>4, <4>1 DEF AllOf
      <4>4. parts \in Seq(Seq(R))
        <5>1. parts = [n \in 1 .. N |-> parts[n]]
          BY <1>3
        <5>2. \A n \in 1 .. N : parts[n] \in T
          BY <4>2
        <5> HIDE DEF T
        <5>3. [n \in 1 .. N |-> parts[n]] \in Seq(T)
          BY <5>2
        <5> QED
          BY <5>1, <5>3 DEF T
      <4>5. payload \in Seq(Seq(Seq(R)))
        <5> DEFINE U == Seq(Seq(R))
        <5>1. \A x \in ToSet(payload) : x \in U
          BY <1>1, <4>2 DEF ToSet
        <5> HIDE DEF U
        <5>2. payload \in Seq(U)
          BY <5>1, Narrowed
        <5> QED
          BY <5>2 DEF U
      <4>6. FlattenSeq(parts) = records
        <5>1. \A p \in Seq(Seq(Seq(R))), v \in Seq(Seq(R)) :
                Len(v) = Len(p) /\ (\A n \in 1 .. Len(p) : v[n] = FlattenSeq(p[n]))
                  => FlattenSeq(v) = FlattenSeq(FlattenSeq(p))
          BY FlattenTwice
        <5>2. Len(parts) = Len(payload) /\ \A n \in 1 .. Len(payload) : parts[n] = FlattenSeq(payload[n])
          BY <1>1, <1>4, <4>2
        <5> QED
          BY <4>4, <4>5, <5>1, <5>2
      <4>7. Plus(max, <<>>, records) = IF Len(records) <= max THEN records ELSE None
        <5>1. records # None /\ Len(records) \in Nat /\ <<>> \o records = records /\ <<>> # None
          <6> HIDE DEF records
          <6> QED
            BY <3>2, LenProperties, ConcatEmptySeq, EmptySeq
        <5> HIDE DEF records
        <5> QED
          BY <5>1, PartOfRequest
      <4>8. ParseOtlp(payload, max) = IF Len(records) <= max THEN records ELSE None
        BY <1>5, <4>3, <4>6, <4>7
      <4>9. WholeRequest(payload, max) = IF Len(records) <= max THEN records ELSE None
        BY <1>8, <2>6, <3>4 DEF WholeRequest
      <4> QED
        BY <4>8, <4>9
    <3> QED
      BY <3>3, <3>4
  <2> QED
    BY <2>5, <2>6
<1> QED
  BY <1>7, <1>8

\* So they do of the requests of the run.
LEMMA RequestsAreTaken ==
  ASSUME None \notin Seq({1, 2, Bad})
  PROVE  IInv => AllOrNone
<1> SUFFICES ASSUME IInv, Of("otlp")
             PROVE  AllOrNone
  BY DEF AllOrNone
<1> DEFINE R == {1, 2, Bad}
           Sc == Seq(R) \cup {Bad}
           Gr == Seq(Sc) \cup {Bad}
<1>1. input \in OtlpInputs
  BY InputKinds DEF IInv, Of
<1>2. input.max \in Nat
  BY <1>1 DEF OtlpInputs
<1>3. \A S, N : \A t \in Texts(S, 0 .. 1) \cup Texts(S, 0 .. 2) : t \in Seq(S)
  <2> SUFFICES ASSUME NEW S, NEW t \in Texts(S, 0 .. 1) \cup Texts(S, 0 .. 2)
               PROVE  t \in Seq(S)
    OBVIOUS
  <2>1. PICK n \in 0 .. 2 : t \in [1 .. n -> S]
    BY DEF Texts
  <2> QED
    BY <2>1
<1>4. Texts(R, 0 .. 2) \cup {Bad} \subseteq Sc
  BY <1>3
<1>5. \A S, T, n : S \subseteq T => Texts(S, n) \subseteq Texts(T, n)
  BY DEF Texts
<1>6. Texts(Texts(R, 0 .. 2) \cup {Bad}, 0 .. 1) \cup {Bad} \subseteq Gr
  <2> HIDE DEF R
  <2>1. Texts(Texts(R, 0 .. 2) \cup {Bad}, 0 .. 1) \subseteq Texts(Sc, 0 .. 1)
    BY <1>4, <1>5
  <2> HIDE DEF Sc
  <2> QED
    BY <1>3, <2>1
<1>7. input.payload \in Seq(Gr)
  <2> HIDE DEF R, Gr
  <2>1. input.payload \in Texts(Texts(Texts(R, 0 .. 2) \cup {Bad}, 0 .. 1) \cup {Bad}, 0 .. 2)
    BY <1>1 DEF OtlpInputs, R
  <2>2. input.payload \in Texts(Gr, 0 .. 2)
    BY <1>5, <1>6, <2>1
  <2> QED
    BY <1>3, <2>2
<1>8. result = ParseOtlp(input.payload, input.max)
  BY DEF IInv, Of, Computed
<1>9. ParseOtlp(input.payload, input.max) = WholeRequest(input.payload, input.max)
  <2> HIDE DEF R
  <2>1. None \notin Seq(R)
    BY DEF R
  <2> QED
    BY <1>2, <1>7, <2>1, RequestIsWholeOrNothing
<1> QED
  BY <1>8, <1>9 DEF AllOrNone, WholeRequest

\* Every event is dated, graded, taken and stored where it belongs
\* (DecodedRight), always, where the database's session is in UTC.
THEOREM Decoded ==
  ASSUME None \notin Int, None \notin Seq({1, 2, Bad}), Zones = {0}
  PROVE  Spec => []DecodedRight
<1>1. IInv => DecodedRight
  BY LinesAreDated, LinesAreGraded, RequestsAreTaken, EventsAreStored DEF DecodedRight
<1> QED
  BY <1>1, Inductive, PTL

-----------------------------------------------------------------------------
(* The browser's screen (webui.py).  Its buffer is the top of the rows that *)
(* came, its screen the top of the buffer's rows that pass, each ranked by *)
(* time; every call keeps that, and a ranking is unique.                   *)

\* A set has one ranking.
LEMMA RankingIsUnique ==
  ASSUME NEW X, IsFiniteSet(X), NEW R, Orders(R, X),
         NEW s, Ranks(s, X, R), NEW t, Ranks(t, X, R)
  PROVE  s = t
<1>1. PICK n : n = Cardinality(X) /\ n \in Nat
  BY FS_CardinalityType
<1>2. /\ s \in [1 .. n -> X] /\ t \in [1 .. n -> X]
      /\ \A i, j \in 1 .. n : i < j => <<s[i], s[j]>> \in R /\ <<t[i], t[j]>> \in R
  BY <1>1 DEF Ranks
<1>3. \A x \in X : (\E i \in 1 .. n : s[i] = x) /\ (\E i \in 1 .. n : t[i] = x)
  BY <1>1, RankingIsOnto
<1> DEFINE S == {i \in 1 .. n : s[i] # t[i]}
<1> SUFFICES S = {}
  <2>1. ASSUME S = {}
        PROVE  \A i \in 1 .. n : s[i] = t[i]
    BY <2>1
  <2>2. s = [i \in 1 .. n |-> s[i]] /\ t = [i \in 1 .. n |-> t[i]]
    BY <1>2
  <2> QED
    BY <2>1, <2>2
<1> SUFFICES ASSUME S # {}
             PROVE  FALSE
  OBVIOUS
<1>4. PICK i \in S : \A j \in S : i <= j
  <2>1. S \in SUBSET (1 .. n)
    OBVIOUS
  <2> HIDE DEF S
  <2> QED
    BY <1>1, <2>1, LeastElement
<1>5. \A j \in 1 .. n : j < i => s[j] = t[j]
  BY <1>1, <1>4
<1>6. s[i] \in X /\ t[i] \in X /\ s[i] # t[i] /\ i \in 1 .. n
  BY <1>2
<1>7. PICK j \in 1 .. n : t[j] = s[i]
  BY <1>3, <1>6
<1>8. PICK l \in 1 .. n : s[l] = t[i]
  BY <1>3, <1>6
<1>9. \A x \in X : <<x, x>> \notin R
  BY DEF Orders
<1>10. ~(j < i)
  BY <1>2, <1>5, <1>6, <1>7, <1>9
<1>11. ~(l < i)
  BY <1>2, <1>5, <1>6, <1>8, <1>9
<1>12. i < j /\ i < l
  BY <1>1, <1>6, <1>7, <1>8, <1>10, <1>11
<1>13. <<t[i], s[i]>> \in R /\ <<s[i], t[i]>> \in R
  BY <1>2, <1>6, <1>7, <1>8, <1>12
<1> QED
  BY <1>6, <1>9, <1>13 DEF Orders

\* The m first elements of S in the order R.
IsTop(T, S, m, R) ==
  /\ IsFiniteSet(T) /\ T \subseteq S /\ Cardinality(T) <= m
  /\ \A r \in S \ T : Cardinality(T) = m /\ \A t \in T : <<t, r>> \in R

\* A set has one top.
LEMMA TopIsUnique ==
  ASSUME NEW S, NEW m \in Nat, NEW R, Orders(R, S),
         NEW T, IsTop(T, S, m, R), NEW U, IsTop(U, S, m, R)
  PROVE  T = U
<1>1. ASSUME NEW V, IsTop(V, S, m, R), NEW W, IsTop(W, S, m, R)
      PROVE  W \subseteq V
  <2> SUFFICES ASSUME NEW r \in W, r \notin V
               PROVE  FALSE
    OBVIOUS
  <2>1. r \in S /\ V \subseteq S /\ W \subseteq S /\ IsFiniteSet(W) /\ IsFiniteSet(V)
    BY <1>1 DEF IsTop
  <2>2. Cardinality(V) = m /\ Cardinality(W) <= m /\ \A t \in V : <<t, r>> \in R
    BY <1>1, <2>1 DEF IsTop
  <2>3. Cardinality(V) \in Nat /\ Cardinality(W) \in Nat
    BY <2>1, FS_CardinalityType
  <2>4. ~(V \subseteq W)
    <3> SUFFICES ASSUME V \subseteq W
                 PROVE  FALSE
      OBVIOUS
    <3>1. Cardinality(V) < Cardinality(W)
      <4>1. V \subseteq W /\ V # W
        OBVIOUS
      <4> QED
        BY <2>1, <2>3, <4>1, FS_Subset
    <3> QED
      BY <2>2, <2>3, <3>1
  <2>5. PICK u \in V : u \notin W
    BY <2>4
  <2>6. <<u, r>> \in R /\ <<r, u>> \in R
    BY <1>1, <2>1, <2>2, <2>5 DEF IsTop
  <2> QED
    BY <2>1, <2>5, <2>6 DEF Orders
<1> QED
  BY <1>1

\* The top with one more element: it comes in, and the last goes when there are too many.
LEMMA TopInsert ==
  ASSUME NEW S, NEW m \in Nat, NEW R, NEW x, x \notin S, Orders(R, S \cup {x}),
         NEW T, IsTop(T, S, m, R)
  PROVE  /\ Cardinality(T \cup {x}) <= m => IsTop(T \cup {x}, S \cup {x}, m, R)
         /\ \A l \in T \cup {x} :
              /\ Cardinality(T \cup {x}) > m
              /\ \A t \in T \cup {x} : t # l => <<t, l>> \in R
              => IsTop((T \cup {x}) \ {l}, S \cup {x}, m, R)
<1>1. IsFiniteSet(T) /\ T \subseteq S
  BY DEF IsTop
<1>2. PICK c \in Nat : c = Cardinality(T)
  BY <1>1, FS_CardinalityType
<1>3. IsFiniteSet(T \cup {x}) /\ Cardinality(T \cup {x}) = c + 1
  BY <1>1, <1>2, FS_AddElement
<1>4. c <= m /\ \A r \in S \ T : c = m /\ \A t \in T : <<t, r>> \in R
  BY <1>2 DEF IsTop
<1>5. ASSUME Cardinality(T \cup {x}) <= m
      PROVE  IsTop(T \cup {x}, S \cup {x}, m, R)
  <2>1. S \ T = {}
    BY <1>3, <1>4, <1>5
  <2> QED
    BY <1>1, <1>3, <1>5, <2>1 DEF IsTop
<1>6. ASSUME NEW l \in T \cup {x}, Cardinality(T \cup {x}) > m,
             \A t \in T \cup {x} : t # l => <<t, l>> \in R
      PROVE  IsTop((T \cup {x}) \ {l}, S \cup {x}, m, R)
  <2> DEFINE U == (T \cup {x}) \ {l}
  <2>1. c = m
    BY <1>3, <1>4, <1>6
  <2>2. IsFiniteSet(U) /\ Cardinality(U) = m
    <3>1. /\ IsFiniteSet(U)
          /\ Cardinality(U) = IF l \in T \cup {x} THEN Cardinality(T \cup {x}) - 1 ELSE Cardinality(T \cup {x})
      BY <1>3, FS_RemoveElement
    <3> QED
      BY <1>3, <2>1, <3>1
  <2>3. ASSUME NEW r \in (S \cup {x}) \ U, NEW t \in U
        PROVE  <<t, r>> \in R
    <3>1. t \in T \cup {x} /\ t # l /\ <<t, l>> \in R
      BY <1>6
    <3>2. CASE r = l
      BY <3>1, <3>2
    <3>3. CASE r # l
      <4>1. r \in S \ T /\ \A y \in T : <<y, r>> \in R
        BY <1>4, <3>3
      <4>2. CASE t \in T
        BY <4>1, <4>2
      <4>3. CASE t = x
        <5>1. l \in T /\ <<x, l>> \in R /\ <<l, r>> \in R
          BY <3>1, <4>1, <4>3
        <5> QED
          BY <1>1, <4>1, <4>3, <5>1 DEF Orders
      <4> QED
        BY <3>1, <4>2, <4>3
    <3> QED
      BY <3>2, <3>3
  <2>4. U \subseteq S \cup {x}
    BY <1>1
  <2> QED
    BY <2>2, <2>3, <2>4 DEF IsTop
<1> QED
  BY <1>5, <1>6

\* InsertAt, by the places of the result.
Inserted(s, n, p, x) == [i \in 1 .. n + 1 |-> IF i < p THEN s[i] ELSE IF i = p THEN x ELSE s[i - 1]]

\* InsertAt does that.
LEMMA InsertPlaces ==
  ASSUME NEW n \in Nat, NEW S, NEW s \in [1 .. n -> S], NEW x, NEW p \in 1 .. n + 1
  PROVE  InsertAt(s, p, x) = Inserted(s, n, p, x)
<1> DEFINE T == S \cup {x}
           a == SubSeq(s, 1, p - 1)
           b == SubSeq(s, p, n)
<1>1. s \in Seq(T) /\ Len(s) = n
  OBVIOUS
<1>2. /\ a \in Seq(T) /\ Len(a) = p - 1
      /\ \A i \in 1 .. p - 1 : a[i] = s[i]
  <2>1. \A i \in 1 .. p - 1 : s[i] \in T
    OBVIOUS
  <2>2. 1 \in Int /\ p - 1 \in Int
    OBVIOUS
  <2> HIDE DEF T
  <2>3. /\ SubSeq(s, 1, p - 1) \in Seq(T)
        /\ Len(SubSeq(s, 1, p - 1)) = IF 1 <= p - 1 THEN (p - 1) - 1 + 1 ELSE 0
        /\ \A i \in 1 .. (p - 1) - 1 + 1 : SubSeq(s, 1, p - 1)[i] = s[1 + i - 1]
    BY <2>1, <2>2, SubSeqProperties
  <2> QED
    BY <2>3
<1>3. /\ b \in Seq(T) /\ Len(b) = n - p + 1
      /\ \A i \in 1 .. n - p + 1 : b[i] = s[p + i - 1]
  <2>1. \A i \in p .. n : s[i] \in T
    OBVIOUS
  <2>2. p \in Int /\ n \in Int
    OBVIOUS
  <2> HIDE DEF T
  <2>3. /\ SubSeq(s, p, n) \in Seq(T)
        /\ Len(SubSeq(s, p, n)) = IF p <= n THEN n - p + 1 ELSE 0
        /\ \A i \in 1 .. n - p + 1 : SubSeq(s, p, n)[i] = s[p + i - 1]
    BY <2>1, <2>2, SubSeqProperties
  <2> QED
    BY <2>3
<1>4. /\ <<x>> \in Seq(T) /\ Len(<<x>>) = 1 /\ <<x>>[1] = x
  OBVIOUS
<1> HIDE DEF T, a, b
<1>5. /\ a \o <<x>> \in Seq(T) /\ Len(a \o <<x>>) = p
      /\ \A i \in 1 .. p : (a \o <<x>>)[i] = IF i < p THEN s[i] ELSE x
  <2>1. PICK c : c = <<x>>
    OBVIOUS
  <2>2. c \in Seq(T) /\ Len(c) = 1 /\ c[1] = x
    BY <1>4, <2>1
  <2>3. /\ a \o c \in Seq(T) /\ Len(a \o c) = Len(a) + Len(c)
        /\ \A i \in 1 .. Len(a) + Len(c) : (a \o c)[i] = IF i <= Len(a) THEN a[i] ELSE c[i - Len(a)]
    BY <1>2, <2>2, ConcatProperties
  <2>4. ASSUME NEW i \in 1 .. p
        PROVE  (a \o c)[i] = IF i < p THEN s[i] ELSE x
    <3>1. (a \o c)[i] = IF i <= p - 1 THEN a[i] ELSE c[i - (p - 1)]
      BY <1>2, <2>2, <2>3
    <3>2. i <= p - 1 => i < p /\ a[i] = s[i]
      BY <1>2
    <3>3. ~(i <= p - 1) => ~(i < p) /\ c[i - (p - 1)] = x
      BY <2>2
    <3> QED
      BY <3>1, <3>2, <3>3
  <2> QED
    BY <1>2, <2>1, <2>2, <2>3, <2>4
<1>6. PICK d : d = a \o <<x>>
  OBVIOUS
<1>7. /\ d \o b \in Seq(T) /\ Len(d \o b) = n + 1
      /\ \A i \in 1 .. n + 1 : (d \o b)[i] = IF i <= p THEN d[i] ELSE b[i - p]
  <2>1. d \in Seq(T) /\ Len(d) = p
    BY <1>5, <1>6
  <2>2. /\ d \o b \in Seq(T) /\ Len(d \o b) = Len(d) + Len(b)
        /\ \A i \in 1 .. Len(d) + Len(b) : (d \o b)[i] = IF i <= Len(d) THEN d[i] ELSE b[i - Len(d)]
    BY <1>3, <2>1, ConcatProperties
  <2>3. p + (n - p + 1) = n + 1
    OBVIOUS
  <2> QED
    BY <1>3, <2>1, <2>2, <2>3
<1>8. \A i \in 1 .. n + 1 : (d \o b)[i] = IF i < p THEN s[i] ELSE IF i = p THEN x ELSE s[i - 1]
  <2> SUFFICES ASSUME NEW i \in 1 .. n + 1
               PROVE  (d \o b)[i] = IF i < p THEN s[i] ELSE IF i = p THEN x ELSE s[i - 1]
    OBVIOUS
  <2>1. (d \o b)[i] = IF i <= p THEN d[i] ELSE b[i - p]
    BY <1>7
  <2>2. CASE i <= p
    <3>1. d[i] = IF i < p THEN s[i] ELSE x
      BY <1>5, <1>6, <2>2
    <3> QED
      BY <2>1, <2>2, <3>1
  <2>3. CASE ~(i <= p)
    <3>1. i - p \in 1 .. n - p + 1 /\ p + (i - p) - 1 = i - 1
      BY <2>3
    <3>2. b[i - p] = s[i - 1]
      BY <1>3, <3>1
    <3>3. ~(i < p) /\ i # p
      BY <2>3
    <3> QED
      BY <2>1, <2>3, <3>2, <3>3
  <2> QED
    BY <2>2, <2>3
<1>9. d \o b = Inserted(s, n, p, x)
  <2>1. d \o b \in [1 .. n + 1 -> T]
    BY <1>7, LenProperties
  <2>2. d \o b = [i \in 1 .. n + 1 |-> (d \o b)[i]]
    BY <2>1
  <2> QED
    BY <1>8, <2>2 DEF Inserted
<1>10. InsertAt(s, p, x) = d \o b
  BY <1>1, <1>6 DEF InsertAt, a, b
<1> QED
  BY <1>9, <1>10

\* A beginning of a sequence, by its places.
LEMMA PrefixPlaces ==
  ASSUME NEW n \in Nat, NEW S, NEW s \in [1 .. n -> S], NEW m \in 0 .. n
  PROVE  SubSeq(s, 1, m) = [i \in 1 .. m |-> s[i]]
<1>1. \A i \in 1 .. m : s[i] \in S
  OBVIOUS
<1>2. 1 \in Int /\ m \in Int
  OBVIOUS
<1>3. /\ SubSeq(s, 1, m) \in Seq(S)
      /\ Len(SubSeq(s, 1, m)) = IF 1 <= m THEN m - 1 + 1 ELSE 0
      /\ \A i \in 1 .. m - 1 + 1 : SubSeq(s, 1, m)[i] = s[1 + i - 1]
  BY <1>1, <1>2, SubSeqProperties
<1>4. PICK t : t = SubSeq(s, 1, m)
  OBVIOUS
<1>5. t \in Seq(S) /\ Len(t) = m /\ \A i \in 1 .. m : t[i] = s[i]
  BY <1>3, <1>4
<1>6. t \in [1 .. m -> S]
  BY <1>5, LenProperties
<1>7. t = [i \in 1 .. m |-> s[i]]
  BY <1>5, <1>6
<1> QED
  BY <1>4, <1>7

\* A ranking with one more element, at its place.
LEMMA RankInserted ==
  ASSUME NEW T, IsFiniteSet(T), NEW R, NEW s, Ranks(s, T, R), NEW n, n = Cardinality(T),
         NEW x, x \notin T, NEW p \in 1 .. n + 1, Orders(R, T \cup {x}),
         \A j \in 1 .. n : j < p => <<s[j], x>> \in R,
         \A j \in 1 .. n : j >= p => <<x, s[j]>> \in R
  PROVE  /\ Ranks(InsertAt(s, p, x), T \cup {x}, R)
         /\ InsertAt(s, p, x) = Inserted(s, n, p, x)
<1>1. n \in Nat /\ Cardinality(T \cup {x}) = n + 1
  BY FS_CardinalityType, FS_AddElement
<1>2. s \in [1 .. n -> T] /\ \A i, j \in 1 .. n : i < j => <<s[i], s[j]>> \in R
  BY DEF Ranks
<1>3. InsertAt(s, p, x) = Inserted(s, n, p, x)
  <2>1. s \in [1 .. n -> T] /\ n \in Nat
    BY <1>1, <1>2
  <2> QED
    BY ONLY <2>1, p \in 1 .. n + 1, InsertPlaces
<1>4. PICK t : t = Inserted(s, n, p, x)
  OBVIOUS
<1>5. /\ \A i \in 1 .. n + 1 : i < p => t[i] = s[i] /\ i \in 1 .. n
      /\ t[p] = x
      /\ \A i \in 1 .. n + 1 : i > p => t[i] = s[i - 1] /\ i - 1 \in 1 .. n /\ i - 1 >= p
  BY <1>1, <1>4 DEF Inserted
<1>6. t \in [1 .. n + 1 -> T \cup {x}]
  <2>1. ASSUME NEW i \in 1 .. n + 1
        PROVE  t[i] \in T \cup {x}
    <3>1. i < p \/ i = p \/ i > p
      BY <1>1
    <3> QED
      BY <1>2, <1>5, <3>1
  <2> QED
    BY <1>4, <2>1 DEF Inserted
<1>7. ASSUME NEW i \in 1 .. n + 1, NEW j \in 1 .. n + 1, i < j
      PROVE  <<t[i], t[j]>> \in R
  <2>1. CASE j < p
    <3>1. i < p
      BY <1>1, <1>7, <2>1
    <3> QED
      BY <1>2, <1>5, <1>7, <2>1, <3>1
  <2>2. CASE j = p
    BY <1>5, <1>7, <2>2
  <2>3. CASE j > p /\ i < p
    <3>1. i < j - 1
      BY <1>1, <1>7, <2>3
    <3> QED
      BY <1>2, <1>5, <2>3, <3>1
  <2>4. CASE j > p /\ i = p
    BY <1>5, <2>4
  <2>5. CASE j > p /\ i > p
    <3>1. i - 1 < j - 1
      BY <1>1, <1>7
    <3> QED
      BY <1>2, <1>5, <2>5, <3>1
  <2> QED
    BY <1>1, <2>1, <2>2, <2>3, <2>4, <2>5
<1> QED
  BY <1>1, <1>3, <1>4, <1>6, <1>7 DEF Ranks

\* A ranking without its last element.
LEMMA RankFront ==
  ASSUME NEW T, IsFiniteSet(T), NEW R, Orders(R, T), NEW s, Ranks(s, T, R),
         NEW n, n = Cardinality(T), T # {}
  PROVE  /\ n \in Nat \ {0} /\ s[n] \in T /\ \A t \in T : t # s[n] => <<t, s[n]>> \in R
         /\ SubSeq(s, 1, n - 1) = [i \in 1 .. n - 1 |-> s[i]]
         /\ Ranks(SubSeq(s, 1, n - 1), T \ {s[n]}, R)
<1>1. n \in Nat /\ n # 0
  BY FS_CardinalityType, FS_EmptySet
<1>2. s \in [1 .. n -> T] /\ \A i, j \in 1 .. n : i < j => <<s[i], s[j]>> \in R
  BY DEF Ranks
<1>3. /\ \A x \in T : \E i \in 1 .. n : s[i] = x
      /\ \A i, j \in 1 .. n : s[i] = s[j] => i = j
  BY RankingIsOnto
<1>4. s[n] \in T
  BY <1>1, <1>2
<1>5. ASSUME NEW t \in T, t # s[n]
      PROVE  <<t, s[n]>> \in R
  <2>1. PICK i \in 1 .. n : s[i] = t
    BY <1>3
  <2>2. i < n /\ n \in 1 .. n
    BY <1>1, <1>5, <2>1
  <2> QED
    BY <1>2, <2>1, <2>2
<1>6. SubSeq(s, 1, n - 1) = [i \in 1 .. n - 1 |-> s[i]]
  <2>1. n - 1 \in 0 .. n
    BY <1>1
  <2> QED
    BY <1>1, <1>2, <2>1, PrefixPlaces
<1>7. Cardinality(T \ {s[n]}) = n - 1
  BY <1>4, FS_RemoveElement
<1>8. \A i \in 1 .. n - 1 : i \in 1 .. n /\ i # n
  BY <1>1
<1>9. PICK t : t = SubSeq(s, 1, n - 1)
  OBVIOUS
<1>10. \A i \in 1 .. n - 1 : s[i] \in T \ {s[n]}
  BY <1>1, <1>2, <1>3, <1>8
<1>11. t \in [1 .. n - 1 -> T \ {s[n]}]
  BY <1>6, <1>9, <1>10
<1>12. \A i, j \in 1 .. n - 1 : i < j => <<t[i], t[j]>> \in R
  BY <1>2, <1>6, <1>8, <1>9
<1>13. Ranks(t, T \ {s[n]}, R)
  BY <1>7, <1>11, <1>12 DEF Ranks
<1> QED
  BY <1>1, <1>4, <1>5, <1>6, <1>9, <1>13

\* A ranking with one more element, at its end.
LEMMA RankAppended ==
  ASSUME NEW T, IsFiniteSet(T), NEW R, NEW s, Ranks(s, T, R),
         NEW x, x \notin T, \A t \in T : <<t, x>> \in R
  PROVE  Ranks(Append(s, x), T \cup {x}, R)
<1>1. PICK n \in Nat : n = Cardinality(T) /\ Cardinality(T \cup {x}) = n + 1
  BY FS_CardinalityType, FS_AddElement
<1>2. s \in [1 .. n -> T] /\ \A i, j \in 1 .. n : i < j => <<s[i], s[j]>> \in R
  BY <1>1 DEF Ranks
<1>3. Append(s, x) = [i \in 1 .. n + 1 |-> IF i = n + 1 THEN x ELSE s[i]]
  <2>1. s \in Seq(T \cup {x}) /\ Len(s) = n /\ x \in T \cup {x}
    BY <1>2
  <2>2. /\ Append(s, x) \in Seq(T \cup {x}) /\ Len(Append(s, x)) = n + 1
        /\ \A i \in 1 .. n : Append(s, x)[i] = s[i]
        /\ Append(s, x)[n + 1] = x
    BY <2>1, AppendProperties
  <2>3. Append(s, x) \in [1 .. n + 1 -> T \cup {x}]
    BY <2>2, LenProperties
  <2>4. \A i \in 1 .. n + 1 : i = n + 1 \/ i \in 1 .. n
    OBVIOUS
  <2>5. \A i \in 1 .. n + 1 : Append(s, x)[i] = IF i = n + 1 THEN x ELSE s[i]
    BY <2>2, <2>4
  <2>6. Append(s, x) = [i \in 1 .. n + 1 |-> Append(s, x)[i]]
    BY <2>3
  <2> QED
    BY <2>5, <2>6
<1>4. PICK t : t = [i \in 1 .. n + 1 |-> IF i = n + 1 THEN x ELSE s[i]]
  OBVIOUS
<1>5. \A i \in 1 .. n + 1 : i = n + 1 \/ i \in 1 .. n
  OBVIOUS
<1>6. t \in [1 .. n + 1 -> T \cup {x}]
  <2>1. \A i \in 1 .. n + 1 : t[i] \in T \cup {x}
    BY <1>2, <1>4, <1>5
  <2> QED
    BY <1>4, <2>1
<1>7. ASSUME NEW i \in 1 .. n + 1, NEW j \in 1 .. n + 1, i < j
      PROVE  <<t[i], t[j]>> \in R
  <2>1. i \in 1 .. n /\ t[i] = s[i] /\ s[i] \in T
    BY <1>2, <1>4, <1>7
  <2>2. CASE j = n + 1
    BY <1>4, <2>1, <2>2
  <2>3. CASE j \in 1 .. n
    <3>1. t[j] = s[j]
      BY <1>4, <2>3
    <3> QED
      BY <1>2, <1>7, <2>1, <2>3, <3>1
  <2> QED
    BY <1>5, <2>2, <2>3
<1> QED
  BY <1>1, <1>3, <1>4, <1>6, <1>7 DEF Ranks

\* Newer rows go first, and of rows of one time the one that came later.
Ahead(key) ==
  {p \in Nat \X Nat : key[p[1]] > key[p[2]] \/ (key[p[1]] = key[p[2]] /\ p[1] > p[2])}

\* The order of two rows, by their numbers.
LEMMA AheadIs ==
  ASSUME NEW key \in [Nat -> Int], NEW s \in Nat, NEW t \in Nat
  PROVE  <<s, t>> \in Ahead(key) <=> key[s] > key[t] \/ (key[s] = key[t] /\ s > t)
BY DEF Ahead

\* Rows have an order.
LEMMA AheadOrders ==
  ASSUME NEW key \in [Nat -> Int], NEW S \in SUBSET Nat
  PROVE  Orders(Ahead(key), S)
<1>1. \A x \in S : <<x, x>> \notin Ahead(key)
  BY AheadIs
<1>2. \A x, y \in S : x = y \/ <<x, y>> \in Ahead(key) \/ <<y, x>> \in Ahead(key)
  <2> SUFFICES ASSUME NEW x \in S, NEW y \in S
               PROVE  x = y \/ <<x, y>> \in Ahead(key) \/ <<y, x>> \in Ahead(key)
    OBVIOUS
  <2>1. key[x] \in Int /\ key[y] \in Int /\ x \in Nat /\ y \in Nat
    OBVIOUS
  <2> QED
    BY <2>1, AheadIs
<1>3. \A x, y, z \in S : <<x, y>> \in Ahead(key) /\ <<y, z>> \in Ahead(key) => <<x, z>> \in Ahead(key)
  <2> SUFFICES ASSUME NEW x \in S, NEW y \in S, NEW z \in S,
                      <<x, y>> \in Ahead(key), <<y, z>> \in Ahead(key)
               PROVE  <<x, z>> \in Ahead(key)
    OBVIOUS
  <2>1. key[x] \in Int /\ key[y] \in Int /\ key[z] \in Int /\ x \in Nat /\ y \in Nat /\ z \in Nat
    OBVIOUS
  <2> QED
    BY <2>1, AheadIs
<1> QED
  BY <1>1, <1>2, <1>3 DEF Orders

\* The halving of findIdx ends at the border between rows that are newer and rows
\* that are older.
Border(q, lo, hi) == IF lo >= hi THEN lo ELSE IF q < lo THEN lo ELSE IF q > hi THEN hi ELSE q

\* If the items from place q + 1 on are the older ones, findIdx finds q + 1.
LEMMA Halving ==
  ASSUME NEW items, NEW n \in Nat, Len(items) = n, NEW k, NEW q \in 0 .. n,
         \A j \in 1 .. n : Older(k, items[j]) <=> j > q
  PROVE  FindIdx(items, k) = q + 1
<1> DEFINE places == 0 .. n
           ranges == places \X places
           Step(f, range) ==
             LET lo == range[1]
                 hi == range[2]
                 mid == (lo + hi) \div 2
             IN IF lo >= hi THEN lo
                ELSE IF Older(k, items[mid + 1]) THEN f[<<lo, mid>>] ELSE f[<<mid + 1, hi>>]
           Is(f) == f = [range \in ranges |-> Step(f, range)]
           b == [range \in ranges |-> Border(q, range[1], range[2])]
           f == CHOOSE f : Is(f)
<1>1. \A lo, hi \in 0 .. n : <<lo, hi>> \in ranges /\ b[<<lo, hi>>] = Border(q, lo, hi)
  OBVIOUS
<1>2. ASSUME NEW lo \in 0 .. n, NEW hi \in 0 .. n, lo < hi, NEW mid, mid = (lo + hi) \div 2
      PROVE  mid \in 0 .. n /\ mid + 1 \in 0 .. n /\ mid + 1 \in 1 .. n /\ lo <= mid /\ mid < hi
  BY <1>2
<1>3. Is(b)
  <2>1. ASSUME NEW lo \in 0 .. n, NEW hi \in 0 .. n
        PROVE  Border(q, lo, hi) = Step(b, <<lo, hi>>)
    <3>1. CASE lo >= hi
      BY <3>1 DEF Border
    <3>2. CASE lo < hi
      <4>1. PICK mid : mid = (lo + hi) \div 2
        OBVIOUS
      <4>2. mid \in 0 .. n /\ mid + 1 \in 0 .. n /\ mid + 1 \in 1 .. n /\ lo <= mid /\ mid < hi
        BY <1>2, <3>2, <4>1
      <4>3. Older(k, items[mid + 1]) <=> mid + 1 > q
        BY <4>2
      <4>4. mid + 1 > q => Border(q, lo, hi) = Border(q, lo, mid)
        BY <3>2, <4>2 DEF Border
      <4>5. ~(mid + 1 > q) => Border(q, lo, hi) = Border(q, mid + 1, hi)
        BY <3>2, <4>2 DEF Border
      <4> HIDE DEF b
      <4>6. Border(q, lo, hi) = IF Older(k, items[mid + 1]) THEN b[<<lo, mid>>] ELSE b[<<mid + 1, hi>>]
        BY <1>1, <4>2, <4>3, <4>4, <4>5
      <4>7. ~(lo >= hi)
        BY <3>2
      <4> QED
        BY <4>1, <4>6, <4>7
    <3> QED
      BY <3>1, <3>2
  <2>2. ASSUME NEW range \in ranges
        PROVE  Border(q, range[1], range[2]) = Step(b, range)
    <3>1. PICK lo \in 0 .. n, hi \in 0 .. n : range = <<lo, hi>>
      OBVIOUS
    <3>2. range[1] = lo /\ range[2] = hi
      BY <3>1
    <3> HIDE DEF Step, ranges, b
    <3>3. Border(q, lo, hi) = Step(b, <<lo, hi>>)
      BY <2>1
    <3> QED
      BY <3>1, <3>2, <3>3
  <2> HIDE DEF Step
  <2> QED
    BY <2>2
<1>4. Is(f)
  <2> HIDE DEF Is
  <2> QED
    BY <1>3
<1>9. FindIdx(items, k) = f[<<0, n>>] + 1
  BY DEF FindIdx
<1> HIDE DEF f, b
<1>5. \A lo, hi \in 0 .. n : f[<<lo, hi>>] = Step(f, <<lo, hi>>)
  <2> HIDE DEF Step
  <2> QED
    BY <1>1, <1>4
<1> DEFINE P == {d \in 0 .. n : \A lo, hi \in 0 .. n : hi - lo <= d => f[<<lo, hi>>] = Border(q, lo, hi)}
<1>6. 0 \in P
  <2>1. ASSUME NEW lo \in 0 .. n, NEW hi \in 0 .. n, hi - lo <= 0
        PROVE  f[<<lo, hi>>] = Border(q, lo, hi)
    <3>1. lo >= hi
      BY <2>1
    <3> QED
      BY <1>5, <3>1 DEF Border
  <2> QED
    BY <2>1
<1>7. ASSUME NEW d \in 1 .. n, d - 1 \in P
      PROVE  d \in P
  <2>1. ASSUME NEW lo \in 0 .. n, NEW hi \in 0 .. n, hi - lo <= d
        PROVE  f[<<lo, hi>>] = Border(q, lo, hi)
    <3>1. CASE lo >= hi
      BY <1>5, <3>1 DEF Border
    <3>2. CASE lo < hi
      <4>1. PICK mid : mid = (lo + hi) \div 2
        OBVIOUS
      <4>2. mid \in 0 .. n /\ mid + 1 \in 0 .. n /\ mid + 1 \in 1 .. n /\ lo <= mid /\ mid < hi
        BY <1>2, <3>2, <4>1
      <4>3. Older(k, items[mid + 1]) <=> mid + 1 > q
        BY <4>2
      <4>4. mid + 1 > q => Border(q, lo, hi) = Border(q, lo, mid)
        BY <3>2, <4>2 DEF Border
      <4>5. ~(mid + 1 > q) => Border(q, lo, hi) = Border(q, mid + 1, hi)
        BY <3>2, <4>2 DEF Border
      <4>6. f[<<lo, hi>>] = IF Older(k, items[mid + 1]) THEN f[<<lo, mid>>] ELSE f[<<mid + 1, hi>>]
        <5>1. ~(lo >= hi)
          BY <3>2
        <5> QED
          BY <1>5, <4>1, <5>1
      <4>7. mid - lo <= d - 1 /\ hi - (mid + 1) <= d - 1
        BY <2>1, <4>2
      <4>8. f[<<lo, mid>>] = Border(q, lo, mid) /\ f[<<mid + 1, hi>>] = Border(q, mid + 1, hi)
        BY <1>7, <4>2, <4>7
      <4> QED
        BY <4>3, <4>4, <4>5, <4>6, <4>8
    <3> QED
      BY <3>1, <3>2
  <2>2. d \in 0 .. n
    OBVIOUS
  <2> QED
    BY <2>1, <2>2
<1>8. f[<<0, n>>] = q
  <2>1. n \in P
    <3>1. \A d \in 1 .. n : d - 1 \in P => d \in P
      BY <1>7
    <3> HIDE DEF P
    <3>2. \A d \in 0 .. n : d \in P
      BY <1>6, <3>1, CountUp
    <3> QED
      BY <3>2
  <2>2. f[<<0, n>>] = Border(q, 0, n)
    BY <2>1
  <2> QED
    BY <2>2 DEF Border
<1> QED
  BY <1>8, <1>9

\* The items of the rows s in their order, of which those of V are on screen.
ItemOf(q, V, key, kind) ==
  [k |-> key[q], seq |-> q, kind |-> kind[q], node |-> IF q \in V THEN TRUE ELSE FALSE]
Items(s, V, key, kind) == [p \in DOMAIN s |-> ItemOf(s[p], V, key, kind)]

\* The place of x among the n elements of t.
PlaceFor(p, x, t, n, R) ==
  /\ p \in 1 .. n + 1
  /\ \A j \in 1 .. n : j < p => <<t[j], x>> \in R
  /\ \A j \in 1 .. n : j >= p => <<x, t[j]>> \in R

\* findIdx finds the place of a row that comes after the rows of the buffer.
LEMMA FoundPlace ==
  ASSUME NEW key \in [Nat -> Int], NEW kind, NEW B \in SUBSET Nat, IsFiniteSet(B),
         NEW s, Ranks(s, B, Ahead(key)), NEW V, NEW x \in Nat, \A y \in B : y < x
  PROVE  PlaceFor(FindIdx(Items(s, V, key, kind), key[x]), x, s, Cardinality(B), Ahead(key))
<1> DEFINE items == Items(s, V, key, kind)
           n == Cardinality(B)
           old == {j \in 1 .. n : Older(key[x], items[j])}
<1>1. n \in Nat
  BY FS_CardinalityType
<1>2. s \in [1 .. n -> B] /\ \A i, j \in 1 .. n : i < j => <<s[i], s[j]>> \in Ahead(key)
  BY DEF Ranks
<1>3. items = [p \in 1 .. n |-> ItemOf(s[p], V, key, kind)]
  BY <1>2 DEF Items
<1>4. Len(items) = n
  BY <1>1, <1>3
<1>5. ASSUME NEW j \in 1 .. n
      PROVE  /\ s[j] \in Nat /\ s[j] < x /\ key[s[j]] \in Int /\ key[x] \in Int
             /\ Older(key[x], items[j]) <=> key[s[j]] <= key[x]
  <2>1. s[j] \in B
    BY <1>2
  <2>2. items[j].k = key[s[j]]
    BY <1>3 DEF ItemOf
  <2> QED
    BY <2>1, <2>2 DEF Older
<1> HIDE DEF items, n
<1>6. \A j \in 1 .. n : Older(key[x], items[j]) <=> <<x, s[j]>> \in Ahead(key)
  BY <1>5, AheadIs
<1>7. \A j \in 1 .. n : ~Older(key[x], items[j]) => <<s[j], x>> \in Ahead(key)
  BY <1>5, AheadIs
<1>8. \A i, j \in 1 .. n : i < j /\ Older(key[x], items[i]) => Older(key[x], items[j])
  <2> SUFFICES ASSUME NEW i \in 1 .. n, NEW j \in 1 .. n, i < j, Older(key[x], items[i])
               PROVE  Older(key[x], items[j])
    OBVIOUS
  <2>1. key[s[i]] >= key[s[j]]
    <3>1. <<s[i], s[j]>> \in Ahead(key) /\ s[i] \in Nat /\ s[j] \in Nat
      BY <1>2, <1>5
    <3>2. key[s[i]] \in Int /\ key[s[j]] \in Int
      BY <1>5
    <3> QED
      BY <3>1, <3>2, AheadIs
  <2> QED
    BY <1>5, <2>1
<1>9. PICK q \in 0 .. n : \A j \in 1 .. n : Older(key[x], items[j]) <=> j > q
  <2>1. CASE old = {}
    <3>1. \A j \in 1 .. n : Older(key[x], items[j]) <=> j > n
      BY <1>1, <2>1
    <3> QED
      BY <1>1, <3>1
  <2>2. CASE old # {}
    <3>1. PICK m \in old : \A y \in old : m <= y
      <4>1. old \in SUBSET (1 .. n)
        OBVIOUS
      <4> HIDE DEF old
      <4> QED
        BY <1>1, <2>2, <4>1, LeastElement
    <3>2. \A j \in 1 .. n : Older(key[x], items[j]) <=> j > m - 1
      <4> SUFFICES ASSUME NEW j \in 1 .. n
                   PROVE  Older(key[x], items[j]) <=> j >= m
        BY <1>1
      <4>1. Older(key[x], items[j]) => j >= m
        BY <3>1
      <4>2. j = m => Older(key[x], items[j])
        BY <3>1
      <4>3. j > m => Older(key[x], items[j])
        BY <1>8, <3>1
      <4> QED
        BY <1>1, <4>1, <4>2, <4>3
    <3>3. m - 1 \in 0 .. n
      BY <1>1
    <3> QED
      BY <3>2, <3>3
  <2> QED
    BY <2>1, <2>2
<1>10. FindIdx(items, key[x]) = q + 1
  BY <1>1, <1>4, <1>9, Halving
<1>11. /\ q + 1 \in 1 .. n + 1
       /\ \A j \in 1 .. n : j < q + 1 <=> ~(j > q)
       /\ \A j \in 1 .. n : j >= q + 1 <=> j > q
  BY <1>1
<1> QED
  BY <1>6, <1>7, <1>9, <1>10, <1>11 DEF items, n, PlaceFor

\* The items, at each place.
ItemsAt(items, n, S, s, V, key, kind) ==
  /\ items = [p \in 1 .. n |-> ItemOf(s[p], V, key, kind)]
  /\ items \in [1 .. n -> {ItemOf(y, V, key, kind) : y \in S}]
  /\ Len(items) = n

\* The items have the places of their rows.
LEMMA ItemsPlaces ==
  ASSUME NEW n \in Nat, NEW S, NEW s \in [1 .. n -> S], NEW V, NEW key, NEW kind
  PROVE  ItemsAt(Items(s, V, key, kind), n, S, s, V, key, kind)
<1>1. PICK items : items = Items(s, V, key, kind)
  OBVIOUS
<1>2. items = [p \in 1 .. n |-> ItemOf(s[p], V, key, kind)]
  BY <1>1 DEF Items
<1>3. items \in [1 .. n -> {ItemOf(y, V, key, kind) : y \in S}]
  BY <1>2
<1>4. Len(items) = n
  BY <1>2
<1> QED
  BY <1>1, <1>2, <1>3, <1>4 DEF ItemsAt

\* Rows come onto the screen and go.
ItemsChange(s, V, X, key, kind) ==
  /\ SetNode(Items(s, V, key, kind), X, TRUE) = Items(s, V \cup X, key, kind)
  /\ SetNode(Items(s, V, key, kind), X, FALSE) = Items(s, V \ X, key, kind)

\* SetNode puts the rows of X on the screen, or takes them from it.
LEMMA ItemsSet ==
  ASSUME NEW n \in Nat, NEW S, NEW s \in [1 .. n -> S], NEW V, NEW X, NEW key, NEW kind
  PROVE  ItemsChange(s, V, X, key, kind)
<1> DEFINE It(y, W) == ItemOf(y, W, key, kind)
<1>1. \A W : Items(s, W, key, kind) = [p \in 1 .. n |-> It(s[p], W)]
  BY DEF Items
<1>2. \A on : SetNode(Items(s, V, key, kind), X, on)
              = [p \in 1 .. n |-> IF s[p] \in X THEN [It(s[p], V) EXCEPT !.node = on] ELSE It(s[p], V)]
  <2> SUFFICES ASSUME NEW on
               PROVE  SetNode(Items(s, V, key, kind), X, on)
                      = [p \in 1 .. n |->
                           IF s[p] \in X THEN [It(s[p], V) EXCEPT !.node = on] ELSE It(s[p], V)]
    OBVIOUS
  <2>1. PICK items : items = Items(s, V, key, kind)
    OBVIOUS
  <2>2. items = [p \in 1 .. n |-> It(s[p], V)] /\ DOMAIN items = 1 .. n
    BY <1>1, <2>1
  <2>3. \A p \in 1 .. n : items[p] = It(s[p], V) /\ items[p].seq = s[p]
    BY <2>2 DEF ItemOf
  <2>4. SetNode(items, X, on)
        = [p \in 1 .. n |-> IF s[p] \in X THEN [It(s[p], V) EXCEPT !.node = on] ELSE It(s[p], V)]
    <3> HIDE DEF It
    <3> QED
      BY <2>2, <2>3 DEF SetNode
  <2> QED
    BY <2>1, <2>4
<1>3. \A y : y \in X => /\ [It(y, V) EXCEPT !.node = TRUE] = It(y, V \cup X)
                        /\ [It(y, V) EXCEPT !.node = FALSE] = It(y, V \ X)
  <2> SUFFICES ASSUME NEW y \in X
               PROVE  /\ [It(y, V) EXCEPT !.node = TRUE] = It(y, V \cup X)
                      /\ [It(y, V) EXCEPT !.node = FALSE] = It(y, V \ X)
    OBVIOUS
  <2>1. \A on : [It(y, V) EXCEPT !.node = on] = [k |-> key[y], seq |-> y, kind |-> kind[y], node |-> on]
    BY DEF ItemOf
  <2>2. It(y, V \cup X) = [k |-> key[y], seq |-> y, kind |-> kind[y], node |-> TRUE]
    BY DEF ItemOf
  <2>3. It(y, V \ X) = [k |-> key[y], seq |-> y, kind |-> kind[y], node |-> FALSE]
    BY DEF ItemOf
  <2> HIDE DEF It
  <2> QED
    BY <2>1, <2>2, <2>3
<1>4. \A y : y \notin X => It(y, V) = It(y, V \cup X) /\ It(y, V) = It(y, V \ X)
  <2> SUFFICES ASSUME NEW y, y \notin X
               PROVE  It(y, V) = It(y, V \cup X) /\ It(y, V) = It(y, V \ X)
    OBVIOUS
  <2>1. (y \in V <=> y \in V \cup X) /\ (y \in V <=> y \in V \ X)
    OBVIOUS
  <2> QED
    BY <2>1 DEF ItemOf
<1> HIDE DEF It
<1>5. SetNode(Items(s, V, key, kind), X, TRUE) = [p \in 1 .. n |-> It(s[p], V \cup X)]
  <2> DEFINE h == [p \in 1 .. n |-> IF s[p] \in X THEN [It(s[p], V) EXCEPT !.node = TRUE] ELSE It(s[p], V)]
  <2>1. \A p \in 1 .. n : h[p] = It(s[p], V \cup X)
    BY <1>3, <1>4
  <2>2. h = [p \in 1 .. n |-> h[p]] /\ SetNode(Items(s, V, key, kind), X, TRUE) = h
    BY <1>2
  <2> HIDE DEF h
  <2> QED
    BY <2>1, <2>2
<1>6. SetNode(Items(s, V, key, kind), X, FALSE) = [p \in 1 .. n |-> It(s[p], V \ X)]
  <2> DEFINE h == [p \in 1 .. n |-> IF s[p] \in X THEN [It(s[p], V) EXCEPT !.node = FALSE] ELSE It(s[p], V)]
  <2>1. \A p \in 1 .. n : h[p] = It(s[p], V \ X)
    BY <1>3, <1>4
  <2>2. h = [p \in 1 .. n |-> h[p]] /\ SetNode(Items(s, V, key, kind), X, FALSE) = h
    BY <1>2
  <2> HIDE DEF h
  <2> QED
    BY <2>1, <2>2
<1> QED
  BY <1>1, <1>5, <1>6 DEF ItemsChange

\* With the item of one more row.
ItemsInsert(s, p, x, V, key, kind) ==
  InsertAt(Items(s, V, key, kind), p, ItemOf(x, V, key, kind)) = Items(InsertAt(s, p, x), V, key, kind)

\* The item of one more row goes where the row goes.
LEMMA ItemsInserted ==
  ASSUME NEW n \in Nat, NEW S, NEW s \in [1 .. n -> S], NEW V, NEW key, NEW kind,
         NEW x, NEW p \in 1 .. n + 1
  PROVE  ItemsInsert(s, p, x, V, key, kind)
<1> DEFINE It(y) == ItemOf(y, V, key, kind)
           S2 == {It(y) : y \in S}
<1>0. ItemsAt(Items(s, V, key, kind), n, S, s, V, key, kind)
  BY ItemsPlaces
<1>1. PICK items \in [1 .. n -> S2] : items = Items(s, V, key, kind)
  BY <1>0 DEF ItemsAt
<1>2. \A i \in 1 .. n : items[i] = It(s[i])
  BY <1>0, <1>1 DEF ItemsAt
<1> HIDE DEF S2, It
<1>3. InsertAt(items, p, It(x)) = Inserted(items, n, p, It(x))
  BY InsertPlaces
<1>4. InsertAt(s, p, x) = Inserted(s, n, p, x)
  BY InsertPlaces
<1>5. Items(Inserted(s, n, p, x), V, key, kind) = [i \in 1 .. n + 1 |-> It(Inserted(s, n, p, x)[i])]
  <2>1. DOMAIN Inserted(s, n, p, x) = 1 .. n + 1
    BY DEF Inserted
  <2> QED
    BY <2>1 DEF Items, It
<1>6. \A i \in 1 .. n + 1 : It(Inserted(s, n, p, x)[i]) = Inserted(items, n, p, It(x))[i]
  <2> SUFFICES ASSUME NEW i \in 1 .. n + 1
               PROVE  It(Inserted(s, n, p, x)[i]) = Inserted(items, n, p, It(x))[i]
    OBVIOUS
  <2>1. CASE i < p
    <3>1. i \in 1 .. n
      BY <2>1
    <3> QED
      BY <1>2, <2>1, <3>1 DEF Inserted
  <2>2. CASE i = p
    BY <2>2 DEF Inserted
  <2>3. CASE i > p
    <3>1. i - 1 \in 1 .. n /\ ~(i < p) /\ i # p
      BY <2>3
    <3> QED
      BY <1>2, <3>1 DEF Inserted
  <2> QED
    BY <2>1, <2>2, <2>3
<1>7. Inserted(items, n, p, It(x)) = [i \in 1 .. n + 1 |-> Inserted(items, n, p, It(x))[i]]
  BY DEF Inserted
<1>8. Items(Inserted(s, n, p, x), V, key, kind) = Inserted(items, n, p, It(x))
  BY <1>5, <1>6, <1>7
<1> QED
  BY <1>1, <1>3, <1>4, <1>8 DEF It, ItemsInsert

\* Without the last row.
FrontOf(s, n, V, key, kind) ==
  Front(Items(s, V, key, kind)) = Items(SubSeq(s, 1, n - 1), V, key, kind)

\* The items without the last are those of the rows without the last.
LEMMA ItemsFront ==
  ASSUME NEW n \in Nat, n # 0, NEW S, NEW s \in [1 .. n -> S], NEW V, NEW key, NEW kind
  PROVE  FrontOf(s, n, V, key, kind)
<1> DEFINE It(y) == ItemOf(y, V, key, kind)
           S2 == {It(y) : y \in S}
<1>0. ItemsAt(Items(s, V, key, kind), n, S, s, V, key, kind)
  BY ItemsPlaces
<1>1. PICK items \in [1 .. n -> S2] : items = Items(s, V, key, kind) /\ Len(items) = n
  BY <1>0 DEF ItemsAt
<1>2. \A i \in 1 .. n : items[i] = It(s[i])
  BY <1>0, <1>1 DEF ItemsAt
<1> HIDE DEF S2, It
<1>3. Front(items) = [i \in 1 .. n - 1 |-> items[i]]
  <2>1. n - 1 \in 0 .. n /\ n \in Nat
    OBVIOUS
  <2>2. SubSeq(items, 1, n - 1) = [i \in 1 .. n - 1 |-> items[i]]
    BY <2>1, PrefixPlaces
  <2> QED
    BY <1>1, <2>2 DEF Front
<1>4. Items([i \in 1 .. n - 1 |-> s[i]], V, key, kind) = [i \in 1 .. n - 1 |-> It(s[i])]
  BY DEF Items, It
<1>5. \A i \in 1 .. n - 1 : i \in 1 .. n
  OBVIOUS
<1>6. SubSeq(s, 1, n - 1) = [i \in 1 .. n - 1 |-> s[i]]
  <2>1. n - 1 \in 0 .. n /\ n \in Nat
    OBVIOUS
  <2> QED
    BY <2>1, PrefixPlaces
<1>7. [i \in 1 .. n - 1 |-> items[i]] = [i \in 1 .. n - 1 |-> It(s[i])]
  BY <1>2, <1>5
<1>8. PICK f : f = [i \in 1 .. n - 1 |-> s[i]]
  OBVIOUS
<1>9. Front(items) = Items(f, V, key, kind)
  BY <1>3, <1>4, <1>7, <1>8
<1> QED
  BY <1>1, <1>6, <1>8, <1>9 DEF FrontOf

\* A set of numbers has a least one, and Min is it.
LEMMA LeastIs ==
  ASSUME NEW N \in Nat, NEW S \in SUBSET (1 .. N), S # {}
  PROVE  Min(S) \in S /\ \A y \in S : Min(S) <= y
<1>1. \E x \in S : \A y \in S : x <= y
  BY LeastElement
<1> QED
  BY <1>1 DEF Min

\* A row is found at its place.
LEMMA PlaceIs ==
  ASSUME NEW V, IsFiniteSet(V), NEW R, Orders(R, V), NEW t, Ranks(t, V, R), NEW j \in 1 .. Cardinality(V)
  PROVE  PlaceOf(t[j], t) = j
<1>1. \A i \in 1 .. Cardinality(V) : t[i] = t[j] => i = j
  BY RankingIsOnto
<1>2. DOMAIN t = 1 .. Cardinality(V)
  BY DEF Ranks
<1> QED
  BY <1>1, <1>2 DEF PlaceOf

\* Where render puts row i: before the next that is on screen, or at the end.
NextPlace(s, V, t, i) ==
  LET after == {j \in DOMAIN s : j > i /\ s[j] \in V}
  IN IF after = {} THEN Cardinality(V) + 1 ELSE PlaceOf(s[Min(after)], t)

\* insertBefore the next row that is on screen puts a row where it belongs.
LEMMA NextOnScreen ==
  ASSUME NEW B, IsFiniteSet(B), NEW R, Orders(R, B), NEW s, Ranks(s, B, R),
         NEW V \in SUBSET B, NEW t, Ranks(t, V, R), NEW i \in 1 .. Cardinality(B), s[i] \notin V
  PROVE  PlaceFor(NextPlace(s, V, t, i), s[i], t, Cardinality(V), R)
<1>0. PICK n, c : n = Cardinality(B) /\ c = Cardinality(V)
  OBVIOUS
<1>13. i \in 1 .. n
  BY <1>0
<1>10. PICK after : after = {j \in 1 .. n : j > i /\ s[j] \in V}
  OBVIOUS
<1>11. PICK p : p = IF after = {} THEN c + 1 ELSE PlaceOf(s[Min(after)], t)
  OBVIOUS
<1>1. IsFiniteSet(V) /\ n \in Nat /\ c \in Nat
  <2>1. IsFiniteSet(V)
    BY FS_Subset
  <2> QED
    BY <1>0, <2>1, FS_CardinalityType
<1>2. Orders(R, V)
  BY DEF Orders
<1>3. s \in [1 .. n -> B] /\ \A k, l \in 1 .. n : k < l => <<s[k], s[l]>> \in R
  BY <1>0 DEF Ranks
<1>4. t \in [1 .. c -> V] /\ \A k, l \in 1 .. c : k < l => <<t[k], t[l]>> \in R
  BY <1>0 DEF Ranks
<1>5. \A x \in B : \E k \in 1 .. n : s[k] = x
  BY <1>0, RankingIsOnto
<1>6. \A x \in V : \E k \in 1 .. c : t[k] = x
  BY <1>0, <1>1, <1>2, RankingIsOnto
<1>7. \A j \in 1 .. c : \E k \in 1 .. n : s[k] = t[j] /\ s[k] \in V /\ k # i
  BY <1>4, <1>5
<1>8. ASSUME after = {}
      PROVE  PlaceFor(p, s[i], t, c, R)
  <2>1. ASSUME NEW j \in 1 .. c
        PROVE  <<t[j], s[i]>> \in R
    <3>1. PICK k \in 1 .. n : s[k] = t[j] /\ s[k] \in V /\ k # i
      BY <1>7
    <3>2. ~(k > i)
      BY <1>8, <1>10, <3>1
    <3>3. k < i
      BY <1>1, <1>0, <3>1, <3>2
    <3> QED
      BY <1>3, <1>13, <3>1, <3>3
  <2>2. p = c + 1
    BY <1>8, <1>11
  <2>3. \A j \in 1 .. c : ~(j >= p)
    BY <1>1, <2>2
  <2> QED
    BY <1>1, <2>1, <2>2, <2>3 DEF PlaceFor
<1>9. ASSUME after # {}
      PROVE  PlaceFor(p, s[i], t, c, R)
  <2>1. PICK m : m = Min(after)
    OBVIOUS
  <2>2. m \in after /\ \A y \in after : m <= y
    <3>1. after \in SUBSET (1 .. n)
      BY <1>10
    <3> QED
      BY <1>1, <1>9, <2>1, <3>1, LeastIs
  <2>3. m \in 1 .. n /\ m > i /\ s[m] \in V
    BY <1>10, <2>2
  <2>4. PICK z \in 1 .. c : t[z] = s[m]
    BY <1>6, <2>3
  <2>5. p = z
    <3>1. PlaceOf(t[z], t) = z
      BY <1>0, <1>1, <1>2, <2>4, PlaceIs
    <3> QED
      BY <1>9, <1>11, <2>1, <2>4, <3>1
  <2>6. ASSUME NEW j \in 1 .. c, j < p
        PROVE  <<t[j], s[i]>> \in R
    <3>1. PICK k \in 1 .. n : s[k] = t[j] /\ s[k] \in V /\ k # i
      BY <1>7
    <3>2. <<s[k], s[m]>> \in R
      BY <1>4, <2>4, <2>5, <2>6, <3>1
    <3>3. k < m
      <4>1. ~(k = m)
        BY <1>3, <3>2 DEF Orders
      <4>2. ~(m < k)
        <5> SUFFICES ASSUME m < k
                     PROVE  FALSE
          OBVIOUS
        <5>1. <<s[m], s[k]>> \in R /\ s[m] \in B /\ s[k] \in B
          BY <1>3, <1>13, <2>3
        <5> QED
          BY <3>2, <5>1 DEF Orders
      <4> QED
        BY <1>1, <2>3, <4>1, <4>2
    <3>4. ~(k > i)
      <4>1. k > i => k \in after
        BY <1>10, <3>1
      <4> QED
        BY <1>1, <2>2, <2>3, <3>3, <4>1
    <3>5. k < i
      BY <1>0, <1>1, <3>1, <3>4
    <3> QED
      BY <1>3, <1>13, <3>1, <3>5
  <2>7. ASSUME NEW j \in 1 .. c, j >= p
        PROVE  <<s[i], t[j]>> \in R
    <3>1. <<s[i], s[m]>> \in R
      BY <1>3, <1>13, <2>3
    <3>2. CASE j = p
      BY <2>4, <2>5, <3>1, <3>2
    <3>3. CASE j > p
      <4>1. <<s[m], t[j]>> \in R
        BY <1>4, <2>4, <2>5, <3>3
      <4>2. s[i] \in B /\ s[m] \in B /\ t[j] \in B
        BY <1>3, <1>13, <1>4, <2>3
      <4> QED
        BY <3>1, <4>1, <4>2 DEF Orders
    <3> QED
      BY <1>1, <2>5, <2>7, <3>2, <3>3
  <2> QED
    BY <1>1, <2>5, <2>6, <2>7 DEF PlaceFor
<1>12. NextPlace(s, V, t, i) = p
  <2>1. DOMAIN s = 1 .. n
    BY <1>3
  <2> QED
    BY <1>0, <1>10, <1>11, <2>1 DEF NextPlace
<1> QED
  BY <1>0, <1>8, <1>9, <1>12

\* The elements of a ranking are those of the set.
LEMMA RankingSet ==
  ASSUME NEW X, IsFiniteSet(X), NEW R, Orders(R, X), NEW s, Ranks(s, X, R)
  PROVE  ToSet(s) = X /\ Len(s) = Cardinality(X) /\ DOMAIN s = 1 .. Cardinality(X)
<1>1. PICK n \in Nat : n = Cardinality(X)
  BY FS_CardinalityType
<1>2. s \in [1 .. n -> X]
  BY <1>1 DEF Ranks
<1>3. \A x \in X : \E i \in 1 .. n : s[i] = x
  BY <1>1, RankingIsOnto
<1>4. Len(s) = n /\ DOMAIN s = 1 .. n
  BY <1>2
<1>5. ToSet(s) = X
  BY <1>2, <1>3, <1>4 DEF ToSet
<1> QED
  BY <1>1, <1>4, <1>5

\* A view: the buffer has the rows s, the screen the rows t, which are those of V.
Buffer(s, V, t, q, hidden, key, kind) ==
  [items |-> Items(s, V, key, kind), nodes |-> t, seq |-> q, hidden |-> hidden]
Passing(B, hidden, kind) == {b \in B : kind[b] \notin hidden}

\* Without the last of c rows on screen, when they are too many.
TrimmedTo(s, V, t, c, q, hidden, key, kind) ==
  IF c <= MaxNodes THEN Buffer(s, V, t, q, hidden, key, kind)
  ELSE Buffer(s, V \ {t[c]}, SubSeq(t, 1, c - 1), q, hidden, key, kind)

\* trim takes the last row from the screen, when there is one too many.
LEMMA Trimmed ==
  ASSUME NEW key \in [Nat -> Int], NEW kind, NEW hidden, NEW q,
         NEW B \in SUBSET Nat, IsFiniteSet(B), NEW s, Ranks(s, B, Ahead(key)),
         NEW V \in SUBSET B, V # {}, NEW t, Ranks(t, V, Ahead(key)), Cardinality(V) <= MaxNodes + 1
  PROVE  Trim(Buffer(s, V, t, q, hidden, key, kind)) = TrimmedTo(s, V, t, Cardinality(V), q, hidden, key, kind)
<1>0. PICK c : c = Cardinality(V)
  OBVIOUS
<1> DEFINE view == Buffer(s, V, t, q, hidden, key, kind)
           R == Ahead(key)
<1>1. IsFiniteSet(V) /\ Orders(R, V) /\ Orders(R, B) /\ Cardinality(B) \in Nat
  <2>1. IsFiniteSet(V)
    BY FS_Subset
  <2>2. V \in SUBSET Nat
    OBVIOUS
  <2> QED
    BY <2>1, <2>2, AheadOrders, FS_CardinalityType
<1> HIDE DEF R
<1>2. view.nodes = t /\ view.items = Items(s, V, key, kind)
  BY DEF Buffer
<1>3. ToSet(t) = V /\ Len(t) = c
  BY <1>0, <1>1, RankingSet DEF R
<1>4. c \in Nat /\ MaxNodes \in Nat
  BY <1>0, <1>1, FS_CardinalityType, ViewAssumption
<1>5. ASSUME c <= MaxNodes
      PROVE  Trim(view) = view
  BY <1>2, <1>3, <1>5 DEF Trim
<1>6. ASSUME c > MaxNodes
      PROVE  Trim(view) = Buffer(s, V \ {t[c]}, SubSeq(t, 1, c - 1), q, hidden, key, kind)
  <2>1. MaxNodes = c - 1
    BY <1>0, <1>4, <1>6
  <2>2. PICK kept : kept = SubSeq(t, 1, c - 1)
    OBVIOUS
  <2>3. Ranks(kept, V \ {t[c]}, R) /\ t[c] \in V
    BY <1>0, <1>1, <2>2, RankFront DEF R
  <2>4. ToSet(kept) = V \ {t[c]}
    <3>1. IsFiniteSet(V \ {t[c]})
      BY <1>1, FS_RemoveElement
    <3>2. Orders(R, V \ {t[c]})
      BY <1>1 DEF Orders
    <3> QED
      BY <2>3, <3>1, <3>2, RankingSet
  <2>5. ToSet(t) \ ToSet(kept) = {t[c]}
    BY <1>3, <2>3, <2>4
  <2>6. SetNode(Items(s, V, key, kind), {t[c]}, FALSE) = Items(s, V \ {t[c]}, key, kind)
    <3>1. PICK n \in Nat : s \in [1 .. n -> B]
      BY <1>1 DEF Ranks
    <3>2. ItemsChange(s, V, {t[c]}, key, kind)
      BY <3>1, ItemsSet
    <3> QED
      BY <3>2 DEF ItemsChange
  <2>7. Trim(view) = [view EXCEPT !.nodes = kept,
                                  !.items = SetNode(Items(s, V, key, kind), {t[c]}, FALSE)]
    <3>1. ~(Len(view.nodes) <= MaxNodes)
      BY <1>2, <1>3, <1>4, <1>6
    <3>2. SubSeq(view.nodes, 1, MaxNodes) = kept
      BY <1>2, <2>1, <2>2
    <3> HIDE DEF view
    <3> QED
      BY <1>2, <2>5, <3>1, <3>2 DEF Trim
  <2> QED
    BY <2>2, <2>6, <2>7 DEF Buffer
<1> QED
  BY <1>0, <1>4, <1>5, <1>6 DEF TrimmedTo

\* Two fields change one after the other.
ItemsNodes(view, i, n) == [view EXCEPT !.items = i, !.nodes = n]
NodesItems(view, n, i) == [view EXCEPT !.nodes = n, !.items = i]
ItemsSeq(view, i, q) == [view EXCEPT !.items = i, !.seq = q]
FieldsOf(i, n, q, h) == [items |-> i, nodes |-> n, seq |-> q, hidden |-> h]

\* Each of these changes is one field after the other.
LEMMA FieldsChanged ==
  ASSUME NEW i, NEW n, NEW q, NEW h, NEW a, NEW b
  PROVE  /\ NodesItems(FieldsOf(i, n, q, h), a, b) = FieldsOf(b, a, q, h)
         /\ ItemsNodes(FieldsOf(i, n, q, h), b, a) = FieldsOf(b, a, q, h)
         /\ ItemsSeq(FieldsOf(i, n, q, h), b, a) = FieldsOf(b, n, a, h)
<1>0. PICK r : r = FieldsOf(i, n, q, h)
  OBVIOUS
<1>1. /\ NodesItems(r, a, b) = [[r EXCEPT !.nodes = a] EXCEPT !.items = b]
      /\ ItemsNodes(r, b, a) = [[r EXCEPT !.items = b] EXCEPT !.nodes = a]
      /\ ItemsSeq(r, b, a) = [[r EXCEPT !.items = b] EXCEPT !.seq = a]
  BY Zenon DEF NodesItems, ItemsNodes, ItemsSeq
<1>2. /\ [r EXCEPT !.nodes = a] = FieldsOf(i, a, q, h)
      /\ [r EXCEPT !.items = b] = FieldsOf(b, n, q, h)
  BY <1>0 DEF FieldsOf
<1>3. [FieldsOf(i, a, q, h) EXCEPT !.items = b] = FieldsOf(b, a, q, h)
  BY DEF FieldsOf
<1>4. /\ [FieldsOf(b, n, q, h) EXCEPT !.nodes = a] = FieldsOf(b, a, q, h)
      /\ [FieldsOf(b, n, q, h) EXCEPT !.seq = a] = FieldsOf(b, n, a, h)
  BY DEF FieldsOf
<1> QED
  BY <1>0, <1>1, <1>2, <1>3, <1>4, Zenon

\* Showing a new row leaves on the screen the newest that pass.
LEMMA Rendered ==
  ASSUME NEW key \in [Nat -> Int], NEW kind, NEW hidden, NEW q,
         NEW B \in SUBSET Nat, IsFiniteSet(B), NEW s, Ranks(s, B, Ahead(key)),
         NEW i \in 1 .. Cardinality(B), NEW x, x = s[i],
         NEW V, NEW t, Ranks(t, V, Ahead(key)),
         IsTop(V, Passing(B \ {x}, hidden, kind), MaxNodes, Ahead(key))
  PROVE  \E W, u :
           /\ Render(Buffer(s, V, t, q, hidden, key, kind), i) = Buffer(s, W, u, q, hidden, key, kind)
           /\ Ranks(u, W, Ahead(key)) /\ IsTop(W, Passing(B, hidden, kind), MaxNodes, Ahead(key))
<1> DEFINE view == Buffer(s, V, t, q, hidden, key, kind)
           R == Ahead(key)
           n == Cardinality(B)
           c == Cardinality(V)
           S == Passing(B \ {x}, hidden, kind)
           items == Items(s, V, key, kind)
<1>1. n \in Nat /\ s \in [1 .. n -> B] /\ x \in B
  BY FS_CardinalityType DEF Ranks
<1>2. V \subseteq S /\ S \subseteq B \ {x} /\ IsFiniteSet(V) /\ c <= MaxNodes
  BY DEF IsTop, Passing
<1>3. Orders(R, B) /\ Orders(R, V)
  <2>1. V \in SUBSET Nat
    BY <1>2
  <2> QED
    BY <2>1, AheadOrders
<1>4. /\ view.items = items /\ view.nodes = t /\ view.hidden = hidden
      /\ view = [items |-> items, nodes |-> t, seq |-> q, hidden |-> hidden]
  BY DEF Buffer
<1>5. items = [p \in 1 .. n |-> ItemOf(s[p], V, key, kind)]
  <2>1. ItemsAt(items, n, B, s, V, key, kind)
    BY <1>1, ItemsPlaces
  <2> QED
    BY <2>1 DEF ItemsAt
<1>6. items[i] = ItemOf(x, V, key, kind) /\ items[i].kind = kind[x] /\ items[i].seq = x
  BY <1>5 DEF ItemOf
<1> HIDE DEF view, R, n, c, S, items
<1>7. CASE kind[x] \in hidden
  <2>1. Render(view, i) = view
    BY <1>4, <1>6, <1>7 DEF Render, Passes
  <2>2. Passing(B, hidden, kind) = S
    BY <1>7 DEF Passing, S
  <2> QED
    BY <2>1, <2>2 DEF view, R, S
<1>8. CASE kind[x] \notin hidden
  <2> DEFINE after == {j \in 1 .. n : j > i /\ s[j] \in V}
             place == NextPlace(s, V, t, i)
             W == V \cup {x}
             u == InsertAt(t, place, x)
  <2>1. x \notin V /\ x \notin S /\ V \in SUBSET B /\ x \in Nat
    BY <1>1, <1>2
  <2>2. Passing(B, hidden, kind) = S \cup {x}
    BY <1>1, <1>8 DEF Passing, S
  <2>3. {j \in DOMAIN view.items : j > i /\ view.items[j].node} = after
    <3>1. DOMAIN items = 1 .. n
      BY <1>5
    <3>2. \A j \in 1 .. n : items[j].node <=> s[j] \in V
      BY <1>5 DEF ItemOf
    <3> QED
      BY <1>4, <3>1, <3>2
  <2>4. after # {} => Min(after) \in 1 .. n
    <3>1. after \in SUBSET (1 .. n)
      OBVIOUS
    <3> HIDE DEF after
    <3> QED
      BY <1>1, <3>1, LeastIs
  <2>5. Len(t) = c /\ ToSet(t) = V
    BY <1>2, <1>3, RankingSet DEF R, c
  <2>6. place = IF {j \in DOMAIN view.items : j > i /\ view.items[j].node} = {} THEN Len(view.nodes) + 1
                ELSE PlaceOf(view.items[Min({j \in DOMAIN view.items : j > i /\ view.items[j].node})].seq, view.nodes)
    <3>1. after # {} => items[Min(after)].seq = s[Min(after)]
      <4>1. \A j \in 1 .. n : items[j].seq = s[j]
        BY <1>5 DEF ItemOf
      <4> QED
        BY <2>4, <4>1
    <3>2. place = IF after = {} THEN c + 1 ELSE PlaceOf(s[Min(after)], t)
      <4>1. DOMAIN s = 1 .. n
        BY <1>1
      <4> QED
        BY <4>1 DEF NextPlace, c
    <3> HIDE DEF after, place
    <3> QED
      BY <1>4, <2>3, <2>5, <3>1, <3>2
  <2>7. /\ place \in 1 .. c + 1
        /\ \A j \in 1 .. c : j < place => <<t[j], x>> \in R
        /\ \A j \in 1 .. c : j >= place => <<x, t[j]>> \in R
    <3>1. PlaceFor(place, x, t, c, R)
      <4>1. Ranks(s, B, R) /\ Ranks(t, V, R) /\ s[i] \notin V /\ i \in 1 .. Cardinality(B)
        BY <2>1 DEF R
      <4> HIDE DEF place
      <4>2. PlaceFor(NextPlace(s, V, t, i), s[i], t, Cardinality(V), R)
        BY <1>3, <2>1, <4>1, NextOnScreen
      <4> QED
        BY <4>2 DEF place, c
    <3> QED
      BY <3>1 DEF PlaceFor
  <2>8. Render(view, i) = Trim([view EXCEPT !.nodes = u, !.items = SetNode(items, {x}, TRUE)])
    <3>1. Passes(view, view.items[i])
      BY <1>4, <1>6, <1>8 DEF Passes
    <3>2. view.items[i].seq = x /\ view.items = items /\ view.nodes = t
      BY <1>4, <1>6
    <3> HIDE DEF place, after
    <3>3. Render(view, i) = Trim([view EXCEPT !.nodes = InsertAt(view.nodes, place, view.items[i].seq),
                                              !.items = SetNode(view.items, {view.items[i].seq}, TRUE)])
      BY <2>6, <3>1 DEF Render
    <3> QED
      BY <3>2, <3>3
  <2> HIDE DEF place, after, W, u
  <2>9. [view EXCEPT !.nodes = u, !.items = SetNode(items, {x}, TRUE)] = Buffer(s, W, u, q, hidden, key, kind)
    <3>1. SetNode(items, {x}, TRUE) = Items(s, W, key, kind)
      <4>1. ItemsChange(s, V, {x}, key, kind)
        BY <1>1, ItemsSet
      <4> QED
        BY <4>1 DEF ItemsChange, items, W
    <3>2. view = FieldsOf(items, t, q, hidden)
      BY <1>4 DEF FieldsOf
    <3>3. PICK shown : shown = SetNode(items, {x}, TRUE)
      OBVIOUS
    <3>4. NodesItems(view, u, shown) = FieldsOf(shown, u, q, hidden)
      BY <3>2, FieldsChanged
    <3> QED
      BY <3>1, <3>3, <3>4 DEF Buffer, NodesItems, FieldsOf
  <2>10. Ranks(u, W, R)
    <3>1. Orders(R, V \cup {x})
      <4>1. V \cup {x} \in SUBSET Nat
        BY <2>1
      <4> QED
        BY <4>1, AheadOrders DEF R
    <3>2. Ranks(t, V, R) /\ c = Cardinality(V)
      BY DEF R, c
    <3> QED
      BY <1>2, <2>1, <2>7, <3>1, <3>2, RankInserted DEF W, u
  <2>11. /\ IsFiniteSet(W) /\ Cardinality(W) = c + 1 /\ c \in Nat /\ W \in SUBSET B /\ W # {}
         /\ MaxNodes \in Nat /\ Orders(R, W) /\ Orders(R, S \cup {x})
    <3>1. W \in SUBSET Nat /\ S \cup {x} \in SUBSET Nat /\ W \in SUBSET B
      BY <1>1, <1>2, <2>1 DEF W
    <3> QED
      BY <1>2, <2>1, <3>1, AheadOrders, FS_AddElement, FS_CardinalityType, ViewAssumption DEF R, c, W
  <2>12. /\ Cardinality(W) <= MaxNodes => IsTop(W, S \cup {x}, MaxNodes, R)
         /\ \A l \in W :
              /\ Cardinality(W) > MaxNodes
              /\ \A y \in W : y # l => <<y, l>> \in R
              => IsTop(W \ {l}, S \cup {x}, MaxNodes, R)
    <3>1. IsTop(V, S, MaxNodes, R) /\ x \notin S
      BY <2>1 DEF R, S
    <3> QED
      BY <2>11, <3>1, TopInsert DEF W
  <2>15. Cardinality(W) <= MaxNodes + 1
    BY <1>2, <2>11, FS_CardinalityType DEF c
  <2>16. Trim(Buffer(s, W, u, q, hidden, key, kind)) = TrimmedTo(s, W, u, Cardinality(W), q, hidden, key, kind)
    BY <2>10, <2>11, <2>15, Trimmed DEF R
  <2>13. CASE Cardinality(W) <= MaxNodes
    <3>1. Trim(Buffer(s, W, u, q, hidden, key, kind)) = Buffer(s, W, u, q, hidden, key, kind)
      BY <2>13, <2>16 DEF TrimmedTo
    <3> QED
      BY <2>2, <2>8, <2>9, <2>10, <2>12, <2>13, <3>1 DEF view, R
  <2>14. CASE Cardinality(W) > MaxNodes
    <3> DEFINE w == Cardinality(W)
    <3>1. Trim(Buffer(s, W, u, q, hidden, key, kind))
          = Buffer(s, W \ {u[w]}, SubSeq(u, 1, w - 1), q, hidden, key, kind)
      BY <2>11, <2>14, <2>16 DEF TrimmedTo
    <3>2. /\ u[w] \in W /\ \A y \in W : y # u[w] => <<y, u[w]>> \in R
          /\ Ranks(SubSeq(u, 1, w - 1), W \ {u[w]}, R)
      BY <2>10, <2>11, RankFront
    <3>3. IsTop(W \ {u[w]}, S \cup {x}, MaxNodes, R)
      BY <2>12, <2>14, <3>2
    <3> HIDE DEF w
    <3> QED
      BY <2>2, <2>8, <2>9, <3>1, <3>2, <3>3 DEF view, R
  <2> QED
    BY <2>11, <2>13, <2>14
<1> QED
  BY <1>7, <1>8

\* Two sets that agree on the rows of s show the same items.
LEMMA ItemsSame ==
  ASSUME NEW s, NEW V, NEW W, NEW key, NEW kind, \A i \in DOMAIN s : s[i] \in V <=> s[i] \in W
  PROVE  Items(s, V, key, kind) = Items(s, W, key, kind)
<1>1. ASSUME NEW i \in DOMAIN s
      PROVE  ItemOf(s[i], V, key, kind) = ItemOf(s[i], W, key, kind)
  BY DEF ItemOf
<1> HIDE DEF ItemOf
<1> QED
  BY <1>1 DEF Items

\* The oldest row of the buffer may go from its screen too.
Oldest(o, B, R) == o \in B /\ \A b \in B : b # o => <<b, o>> \in R

TopLess(o, V, S, m, R) == IsTop(V \ {o}, S \ {o}, m, R) /\ (o \in V => V = S)

\* The oldest row may leave the set and its top.
LEMMA TopWithout ==
  ASSUME NEW B, NEW R, Orders(R, B), NEW o, Oldest(o, B, R),
         NEW S \in SUBSET B, NEW m \in Nat, NEW V, IsTop(V, S, m, R)
  PROVE  TopLess(o, V, S, m, R)
<1>1. IsFiniteSet(V) /\ V \subseteq S /\ Cardinality(V) <= m /\ Cardinality(V) \in Nat
  BY FS_CardinalityType DEF IsTop
<1>2. \A r \in S \ V : Cardinality(V) = m /\ \A t \in V : <<t, r>> \in R
  BY DEF IsTop
<1>3. ASSUME o \in V
      PROVE  V = S
  <2> SUFFICES ASSUME NEW r \in S \ V
               PROVE  FALSE
    BY <1>1
  <2>1. <<o, r>> \in R /\ <<r, o>> \in R /\ o \in B /\ r \in B
    BY <1>2, <1>3 DEF Oldest
  <2> QED
    BY <2>1 DEF Orders
<1>4. ASSUME o \in V
      PROVE  IsTop(V \ {o}, S \ {o}, m, R)
  <2>1. IsFiniteSet(V \ {o}) /\ Cardinality(V \ {o}) = Cardinality(V) - 1
    BY <1>1, <1>4, FS_RemoveElement
  <2> QED
    BY <1>1, <1>3, <1>4, <2>1 DEF IsTop
<1>5. ASSUME o \notin V
      PROVE  IsTop(V \ {o}, S \ {o}, m, R)
  <2>1. V \ {o} = V
    BY <1>5
  <2> QED
    BY <1>1, <1>2, <1>5, <2>1 DEF IsTop
<1>6. IsTop(V \ {o}, S \ {o}, m, R)
  BY <1>4, <1>5
<1> QED
  BY <1>3, <1>6 DEF TopLess

\* Of a full buffer the oldest row goes, from the screen too if it is there.
EvictedTo(s, V, t, B, q, hidden, key, kind) ==
  LET n == Cardinality(B)
  IN \E W, u :
       /\ Evict(Buffer(s, V, t, q, hidden, key, kind))
          = Buffer(SubSeq(s, 1, n - 1), W, u, q, hidden, key, kind)
       /\ Ranks(u, W, Ahead(key))
       /\ IsTop(W, Passing(B \ {s[n]}, hidden, kind), MaxNodes, Ahead(key))

\* What evict does to a buffer that is full, and to one that is not.
LEMMA Evicted ==
  ASSUME NEW key \in [Nat -> Int], NEW kind, NEW hidden, NEW q,
         NEW B \in SUBSET Nat, IsFiniteSet(B), B # {}, NEW s, Ranks(s, B, Ahead(key)),
         NEW V, NEW t, Ranks(t, V, Ahead(key)),
         IsTop(V, Passing(B, hidden, kind), MaxNodes, Ahead(key))
  PROVE  /\ Cardinality(B) <= MaxItems
            => Evict(Buffer(s, V, t, q, hidden, key, kind)) = Buffer(s, V, t, q, hidden, key, kind)
         /\ Cardinality(B) > MaxItems => EvictedTo(s, V, t, B, q, hidden, key, kind)
<1>0. PICK n, c, R : n = Cardinality(B) /\ c = Cardinality(V) /\ R = Ahead(key)
  OBVIOUS
<1> DEFINE items == Items(s, V, key, kind)
           view == Buffer(s, V, t, q, hidden, key, kind)
           S == Passing(B, hidden, kind)
           o == s[n]
<1>1. n \in Nat \ {0} /\ MaxItems \in Nat /\ MaxNodes \in Nat /\ s \in [1 .. n -> B]
  BY <1>0, FS_CardinalityType, FS_EmptySet, ViewAssumption DEF Ranks
<1>2. Orders(R, B) /\ IsTop(V, S, MaxNodes, R) /\ S \in SUBSET B
  BY <1>0, AheadOrders DEF Passing
<1>3. V \in SUBSET B /\ IsFiniteSet(V) /\ Orders(R, V) /\ c \in Nat /\ c <= MaxNodes /\ V \subseteq S
  <2>1. V \subseteq S /\ IsFiniteSet(V) /\ Cardinality(V) <= MaxNodes
    BY <1>2 DEF IsTop
  <2> QED
    BY <1>0, <1>2, <2>1, FS_CardinalityType DEF Orders
<1>4. /\ o \in B /\ \A b \in B : b # o => <<b, o>> \in R
      /\ SubSeq(s, 1, n - 1) = [i \in 1 .. n - 1 |-> s[i]]
      /\ Ranks(SubSeq(s, 1, n - 1), B \ {o}, R)
  <2>1. Ranks(s, B, R)
    BY <1>0
  <2>2. /\ s[n] \in B /\ \A b \in B : b # s[n] => <<b, s[n]>> \in R
        /\ Ranks(SubSeq(s, 1, n - 1), B \ {s[n]}, R)
    BY <1>0, <1>2, <2>1, RankFront
  <2>3. SubSeq(s, 1, n - 1) = [i \in 1 .. n - 1 |-> s[i]]
    <3>1. n \in Nat /\ n - 1 \in 0 .. n
      BY <1>1
    <3> QED
      BY <1>1, <3>1, PrefixPlaces
  <2> QED
    BY <2>2, <2>3
<1>5. IsTop(V \ {o}, S \ {o}, MaxNodes, R) /\ (o \in V => V = S)
  <2>1. Oldest(o, B, R)
    BY <1>4 DEF Oldest
  <2>2. PICK T, l : T = S /\ l = o
    OBVIOUS
  <2>3. Oldest(l, B, R) /\ IsTop(V, T, MaxNodes, R) /\ T \in SUBSET B /\ Orders(R, B) /\ MaxNodes \in Nat
    BY <1>1, <1>2, <2>1, <2>2
  <2>4. TopLess(l, V, T, MaxNodes, R)
    BY <2>3, TopWithout
  <2> QED
    BY <2>2, <2>4 DEF TopLess
<1>6. view = FieldsOf(items, t, q, hidden) /\ view.items = items /\ view.nodes = t
  BY DEF Buffer, FieldsOf
<1>7. items = [p \in 1 .. n |-> ItemOf(s[p], V, key, kind)] /\ Len(items) = n
  <2>1. ItemsAt(items, n, B, s, V, key, kind)
    BY <1>1, ItemsPlaces
  <2> QED
    BY <2>1 DEF ItemsAt
<1>8. Last(items).node <=> o \in V
  BY <1>1, <1>7 DEF Last, ItemOf
<1>9. Last(items).seq = o
  BY <1>1, <1>7 DEF Last, ItemOf
<1>10. ASSUME n <= MaxItems
       PROVE  Evict(view) = view
  <2> HIDE DEF view, items
  <2> QED
    BY <1>6, <1>7, <1>10 DEF Evict
<1>11. ASSUME n > MaxItems
       PROVE  EvictedTo(s, V, t, B, q, hidden, key, kind)
  <2> DEFINE f == SubSeq(s, 1, n - 1)
             left == IF Last(items).node THEN RemoveAt(t, PlaceOf(Last(items).seq, t)) ELSE t
  <2>1. Evict(view) = FieldsOf(Front(items), left, q, hidden)
    <3>1. Evict(view) = ItemsNodes(view, Front(items), left)
      <4> HIDE DEF view, items
      <4>1. ~(Len(view.items) <= MaxItems)
        BY <1>1, <1>6, <1>7, <1>11
      <4> QED
        BY <1>6, <4>1 DEF Evict, ItemsNodes
    <3> HIDE DEF view, items, left
    <3> QED
      BY <1>6, <3>1, FieldsChanged
  <2>2. Front(items) = Items(f, V, key, kind)
    <3>1. FrontOf(s, n, V, key, kind)
      BY <1>1, ItemsFront
    <3> QED
      BY <3>1 DEF FrontOf
  <2>3. Items(f, V, key, kind) = Items(f, V \ {o}, key, kind)
    <3>1. f \in [1 .. n - 1 -> B \ {o}]
      <4>1. IsFiniteSet(B \ {o}) /\ Cardinality(B \ {o}) = n - 1
        BY <1>0, <1>4, FS_RemoveElement
      <4> HIDE DEF f, o
      <4> QED
        BY <1>4, <4>1 DEF Ranks, f
    <3> HIDE DEF f, o
    <3>2. \A i \in DOMAIN f : f[i] \in V <=> f[i] \in V \ {o}
      BY <3>1
    <3> QED
      BY <3>2, ItemsSame
  <2>4. Ranks(left, V \ {o}, R)
    <3>1. CASE o \notin V
      <4>1. left = t /\ V \ {o} = V
        BY <1>8, <3>1
      <4> QED
        BY <1>0, <4>1
    <3>2. CASE o \in V
      <4>1. left = RemoveAt(t, PlaceOf(o, t))
        BY <1>8, <1>9, <3>2
      <4>2. Ranks(t, V, R) /\ V # {}
        BY <1>0, <3>2
      <4>3. /\ c \in Nat \ {0} /\ t[c] \in V /\ \A y \in V : y # t[c] => <<y, t[c]>> \in R
            /\ Ranks(SubSeq(t, 1, c - 1), V \ {t[c]}, R)
        BY <1>0, <1>3, <4>2, RankFront
      <4>4. t[c] = o
        <5> SUFFICES ASSUME t[c] # o
                     PROVE  FALSE
          OBVIOUS
        <5> HIDE DEF o
        <5>1. <<o, t[c]>> \in R /\ <<t[c], o>> \in R
          BY <1>3, <1>4, <3>2, <4>3
        <5> QED
          BY <1>2, <1>3, <1>4, <4>3, <5>1 DEF Orders
      <4>5. PlaceOf(t[c], t) = c
        BY <1>0, <1>3, <4>2, <4>3, PlaceIs
      <4>6. RemoveAt(t, c) = SubSeq(t, 1, c - 1)
        <5>1. t \in [1 .. c -> V] /\ c - 1 \in 0 .. c /\ c \in Nat
          BY <1>0, <4>3 DEF Ranks
        <5>2. Len(t) = c /\ SubSeq(t, c + 1, c) = <<>>
          BY <5>1
        <5>3. SubSeq(t, 1, c - 1) \in Seq(V)
          <6>1. SubSeq(t, 1, c - 1) = [i \in 1 .. c - 1 |-> t[i]]
            BY <5>1, PrefixPlaces
          <6> QED
            BY <5>1, <6>1
        <5>4. PICK d \in Seq(V) : d = SubSeq(t, 1, c - 1)
          BY <5>3
        <5>5. d \o <<>> = d
          BY <5>4
        <5> QED
          BY <5>2, <5>4, <5>5 DEF RemoveAt
      <4> QED
        BY <4>1, <4>3, <4>4, <4>5, <4>6
    <3> QED
      BY <3>1, <3>2
  <2>5. IsTop(V \ {o}, Passing(B \ {o}, hidden, kind), MaxNodes, R)
    <3>1. Passing(B \ {o}, hidden, kind) = S \ {o}
      BY DEF Passing
    <3> QED
      BY <1>5, <3>1
  <2>6. Evict(view) = Buffer(f, V \ {o}, left, q, hidden, key, kind)
    <3> HIDE DEF view, items, left, f
    <3> QED
      BY <2>1, <2>2, <2>3 DEF Buffer, FieldsOf
  <2> HIDE DEF left
  <2> QED
    BY <1>0, <2>4, <2>5, <2>6 DEF EvictedTo
<1> QED
  BY <1>0, <1>1, <1>10, <1>11

\* What a view shows of the rows A: the newest are in the buffer, and of those that
\* pass the newest are on screen.
Shows(view, q, hidden, A, key, kind) ==
  \E B, V, s, t :
    /\ IsTop(B, A, MaxItems, Ahead(key)) /\ Ranks(s, B, Ahead(key))
    /\ IsTop(V, Passing(B, hidden, kind), MaxNodes, Ahead(key)) /\ Ranks(t, V, Ahead(key))
    /\ view = Buffer(s, V, t, q, hidden, key, kind)

\* A row comes: it takes its place in the buffer, and on screen.
LEMMA Ingested ==
  ASSUME NEW key \in [Nat -> Int], NEW kind, NEW hidden, NEW q \in Nat,
         NEW A \in SUBSET Nat, \A a \in A : a < q,
         NEW view, Shows(view, q, hidden, A, key, kind)
  PROVE  Shows(Ingest(view, key[q], kind[q]), q + 1, hidden, A \cup {q}, key, kind)
<1>0. PICK R : R = Ahead(key)
  OBVIOUS
<1>1. PICK B, V, s, t :
        /\ IsTop(B, A, MaxItems, R) /\ Ranks(s, B, R)
        /\ IsTop(V, Passing(B, hidden, kind), MaxNodes, R) /\ Ranks(t, V, R)
        /\ view = Buffer(s, V, t, q, hidden, key, kind)
  BY <1>0 DEF Shows
<1> DEFINE n == Cardinality(B)
           items == Items(s, V, key, kind)
           p == FindIdx(items, key[q])
           C == B \cup {q}
           u == InsertAt(s, p, q)
<1>2. /\ B \subseteq A /\ IsFiniteSet(B) /\ n \in Nat /\ n <= MaxItems /\ q \notin A /\ B \in SUBSET Nat
      /\ MaxItems \in Nat /\ MaxNodes \in Nat /\ V \subseteq B /\ q \notin V
  BY <1>1, FS_CardinalityType, ViewAssumption DEF IsTop, Passing
<1>3. s \in [1 .. n -> B]
  BY <1>1 DEF Ranks
<1>4. PlaceFor(p, q, s, n, R)
  <2>1. \A y \in B : y < q
    BY <1>2
  <2> QED
    BY <1>0, <1>1, <1>2, <2>1, FoundPlace
<1>5. /\ IsFiniteSet(C) /\ Cardinality(C) = n + 1 /\ C \in SUBSET Nat /\ A \cup {q} \in SUBSET Nat
  BY <1>2, FS_AddElement
<1>6. Orders(R, C) /\ Orders(R, A \cup {q}) /\ Orders(R, A)
  BY <1>0, <1>5, AheadOrders
<1> HIDE DEF p, n
<1>7. /\ p \in 1 .. n + 1
      /\ \A j \in 1 .. n : j < p => <<s[j], q>> \in R
      /\ \A j \in 1 .. n : j >= p => <<q, s[j]>> \in R
  BY <1>4 DEF PlaceFor
<1>8. Ranks(u, C, R) /\ u = Inserted(s, n, p, q)
  <2>1. n = Cardinality(B) /\ q \notin B
    BY <1>2 DEF n
  <2> QED
    BY <1>1, <1>2, <1>6, <1>7, <2>1, RankInserted
<1>9. u[p] = q
  BY <1>7, <1>8 DEF Inserted
<1>10. PICK x : x = [k |-> key[q], seq |-> q, kind |-> kind[q], node |-> FALSE]
  OBVIOUS
<1>11. InsertAt(items, p, x) = Items(u, V, key, kind)
  <2>1. x = ItemOf(q, V, key, kind)
    BY <1>2, <1>10 DEF ItemOf
  <2> QED
    <3>1. ItemsInsert(s, p, q, V, key, kind)
      BY <1>2, <1>3, <1>7, ItemsInserted
    <3> QED
      BY <2>1, <3>1 DEF ItemsInsert
<1>12. Ingest(view, key[q], kind[q]) = Evict(Render(Buffer(u, V, t, q + 1, hidden, key, kind), p))
  <2>1. view = FieldsOf(items, t, q, hidden) /\ view.items = items /\ view.seq = q
    BY <1>1 DEF Buffer, FieldsOf
  <2>2. ItemsSeq(view, InsertAt(items, p, x), q + 1) = Buffer(u, V, t, q + 1, hidden, key, kind)
    <3> HIDE DEF items, u
    <3>1. PICK i : i = InsertAt(items, p, x)
      OBVIOUS
    <3>2. ItemsSeq(view, i, q + 1) = FieldsOf(i, t, q + 1, hidden)
      BY <2>1, FieldsChanged
    <3> QED
      BY <1>11, <3>1, <3>2 DEF Buffer, FieldsOf
  <2>3. Ingest(view, key[q], kind[q]) = Evict(Render(ItemsSeq(view, InsertAt(items, p, x), q + 1), p))
    <3> HIDE DEF items
    <3>1. FindIdx(view.items, key[q]) = p
      BY <2>1 DEF p
    <3> QED
      BY <1>10, <2>1, <3>1 DEF Ingest, ItemsSeq
  <2> QED
    BY <2>2, <2>3
<1>13. PICK W, w :
         /\ Render(Buffer(u, V, t, q + 1, hidden, key, kind), p) = Buffer(u, W, w, q + 1, hidden, key, kind)
         /\ Ranks(w, W, R) /\ IsTop(W, Passing(C, hidden, kind), MaxNodes, R)
  <2>1. C \ {u[p]} = B
    BY <1>2, <1>9
  <2>2. p \in 1 .. Cardinality(C) /\ IsTop(V, Passing(C \ {u[p]}, hidden, kind), MaxNodes, Ahead(key))
    BY <1>0, <1>1, <1>5, <1>7, <2>1
  <2> HIDE DEF u, C
  <2> QED
    BY <1>0, <1>1, <1>5, <1>8, <2>2, Rendered
<1> HIDE DEF u
<1>14. /\ Cardinality(C) <= MaxItems
          => Evict(Buffer(u, W, w, q + 1, hidden, key, kind)) = Buffer(u, W, w, q + 1, hidden, key, kind)
       /\ Cardinality(C) > MaxItems => EvictedTo(u, W, w, C, q + 1, hidden, key, kind)
  <2>1. C # {}
    OBVIOUS
  <2> HIDE DEF C
  <2> QED
    BY <1>0, <1>5, <1>8, <1>13, <2>1, Evicted
<1>15. /\ Cardinality(C) <= MaxItems => IsTop(C, A \cup {q}, MaxItems, R)
       /\ \A l \in C :
            /\ Cardinality(C) > MaxItems
            /\ \A y \in C : y # l => <<y, l>> \in R
            => IsTop(C \ {l}, A \cup {q}, MaxItems, R)
  BY <1>1, <1>2, <1>6, TopInsert
<1>16. CASE Cardinality(C) <= MaxItems
  BY <1>0, <1>8, <1>12, <1>13, <1>14, <1>15, <1>16 DEF Shows
<1>17. CASE Cardinality(C) > MaxItems
  <2> DEFINE m == Cardinality(C)
  <2>1. PICK X, z :
          /\ Evict(Buffer(u, W, w, q + 1, hidden, key, kind))
             = Buffer(SubSeq(u, 1, m - 1), X, z, q + 1, hidden, key, kind)
          /\ Ranks(z, X, R)
          /\ IsTop(X, Passing(C \ {u[m]}, hidden, kind), MaxNodes, R)
    BY <1>0, <1>14, <1>17 DEF EvictedTo
  <2>2. /\ u[m] \in C /\ \A y \in C : y # u[m] => <<y, u[m]>> \in R
        /\ Ranks(SubSeq(u, 1, m - 1), C \ {u[m]}, R)
    <3>1. IsFiniteSet(C) /\ Orders(R, C) /\ Ranks(u, C, R) /\ C # {} /\ m = Cardinality(C)
      BY <1>5, <1>6, <1>8
    <3> HIDE DEF m, C
    <3> QED
      BY <3>1, RankFront
  <2>3. IsTop(C \ {u[m]}, A \cup {q}, MaxItems, R)
    BY <1>15, <1>17, <2>2
  <2> HIDE DEF m, C
  <2> QED
    BY <1>0, <1>12, <1>13, <2>1, <2>2, <2>3 DEF Shows
<1> QED
  BY <1>2, <1>5, <1>16, <1>17

\* The first n rows.
First(s, n) == {s[i] : i \in 1 .. n}

\* What rebuild has put on screen of some rows.
OnScreen(u, S, key) == \E W : Ranks(u, W, Ahead(key)) /\ IsTop(W, S, MaxNodes, Ahead(key))

\* rebuild takes one more row.
LEMMA RebuiltOne ==
  ASSUME NEW key \in [Nat -> Int], NEW kind, NEW hidden,
         NEW B \in SUBSET Nat, IsFiniteSet(B), NEW s, Ranks(s, B, Ahead(key)), NEW V,
         NEW n \in 1 .. Cardinality(B), NEW u,
         OnScreen(u, Passing(First(s, n - 1), hidden, kind), key)
  PROVE  OnScreen(Rebuild(hidden, u, ItemOf(s[n], V, key, kind)), Passing(First(s, n), hidden, kind), key)
<1>0. PICK R, N, x, P, d : /\ R = Ahead(key) /\ N = Cardinality(B) /\ x = s[n]
                           /\ P = Passing(First(s, n - 1), hidden, kind)
                           /\ d = ItemOf(x, V, key, kind)
  OBVIOUS
<1>1. PICK W : Ranks(u, W, R) /\ IsTop(W, P, MaxNodes, R)
  BY <1>0 DEF OnScreen
<1>2. /\ N \in Nat /\ n \in 1 .. N /\ MaxNodes \in Nat
      /\ s \in [1 .. N -> B] /\ \A i, j \in 1 .. N : i < j => <<s[i], s[j]>> \in R
  BY <1>0, FS_CardinalityType, ViewAssumption DEF Ranks
<1>3. d.kind = kind[x] /\ d.seq = x
  BY <1>0 DEF ItemOf
<1>4. First(s, n) = First(s, n - 1) \cup {x}
  <2>1. \A i \in 1 .. n : i = n \/ i \in 1 .. n - 1
    BY <1>2
  <2>2. \A i \in 1 .. n - 1 : i \in 1 .. n
    BY <1>2
  <2>3. n \in 1 .. n
    BY <1>2
  <2> QED
    BY <1>0, <2>1, <2>2, <2>3 DEF First
<1>5. \A y \in First(s, n - 1) : <<y, x>> \in R
  <2> SUFFICES ASSUME NEW i \in 1 .. n - 1
               PROVE  <<s[i], x>> \in R
    BY DEF First
  <2>1. i \in 1 .. N /\ i < n
    BY <1>2
  <2> QED
    BY <1>0, <1>2, <2>1
<1>6. Orders(R, B) /\ x \in B /\ First(s, n - 1) \subseteq B
  <2>1. x \in B
    BY <1>0, <1>2
  <2>2. \A i \in 1 .. n - 1 : i \in 1 .. N
    BY <1>2
  <2>3. First(s, n - 1) \subseteq B
    BY <1>2, <2>2 DEF First
  <2> QED
    BY <1>0, <2>1, <2>3, AheadOrders
<1>7. /\ W \subseteq P /\ P \subseteq First(s, n - 1) /\ IsFiniteSet(W) /\ W \in SUBSET Nat
      /\ Cardinality(W) \in Nat /\ Cardinality(W) <= MaxNodes
      /\ \A r \in P \ W : Cardinality(W) = MaxNodes /\ \A t \in W : <<t, r>> \in R
  BY <1>0, <1>1, <1>6, FS_CardinalityType DEF IsTop, Passing
<1>8. x \notin P /\ \A w \in W : <<w, x>> \in R
  BY <1>5, <1>6, <1>7 DEF Orders
<1>9. Len(u) = Cardinality(W)
  <2>1. Orders(R, W)
    BY <1>0, <1>7, AheadOrders
  <2> QED
    BY <1>1, <1>7, <2>1, RankingSet
<1>10. ASSUME kind[x] \in hidden
       PROVE  OnScreen(Rebuild(hidden, u, d), Passing(First(s, n), hidden, kind), key)
  <2>1. Passing(First(s, n), hidden, kind) = P
    BY <1>0, <1>4, <1>10 DEF Passing
  <2>2. Rebuild(hidden, u, d) = u
    BY <1>3, <1>10 DEF Rebuild
  <2> QED
    BY <1>0, <1>1, <2>1, <2>2 DEF OnScreen
<1>11. kind[x] \notin hidden => Passing(First(s, n), hidden, kind) = P \cup {x}
  BY <1>0, <1>4 DEF Passing
<1>12. ASSUME kind[x] \notin hidden, Cardinality(W) = MaxNodes
       PROVE  OnScreen(Rebuild(hidden, u, d), Passing(First(s, n), hidden, kind), key)
  <2>1. Rebuild(hidden, u, d) = u
    BY <1>9, <1>12 DEF Rebuild
  <2>2. IsTop(W, P \cup {x}, MaxNodes, R)
    BY <1>7, <1>8, <1>12 DEF IsTop
  <2> QED
    BY <1>0, <1>1, <1>11, <1>12, <2>1, <2>2 DEF OnScreen
<1>13. ASSUME kind[x] \notin hidden, Cardinality(W) # MaxNodes
       PROVE  OnScreen(Rebuild(hidden, u, d), Passing(First(s, n), hidden, kind), key)
  <2>1. Rebuild(hidden, u, d) = Append(u, x)
    BY <1>3, <1>9, <1>13 DEF Rebuild
  <2>2. W = P
    BY <1>7, <1>13
  <2>3. Ranks(Append(u, x), W \cup {x}, R)
    BY <1>1, <1>7, <1>8, <2>2, RankAppended
  <2>4. IsFiniteSet(W \cup {x}) /\ Cardinality(W \cup {x}) = Cardinality(W) + 1
    BY <1>7, <1>8, <2>2, FS_AddElement
  <2>5. Cardinality(W \cup {x}) <= MaxNodes
    BY <1>2, <1>7, <1>13, <2>4
  <2>6. IsTop(W \cup {x}, P \cup {x}, MaxNodes, R)
    BY <2>2, <2>4, <2>5 DEF IsTop
  <2> QED
    BY <1>0, <1>11, <1>13, <2>1, <2>3, <2>6 DEF OnScreen
<1> QED
  BY <1>0, <1>10, <1>12, <1>13

\* rebuild's loop over the whole buffer.
RebuiltNodes(hidden, items) == ForEach(LAMBDA n, d : Rebuild(hidden, n, d), <<>>, items)

\* It leaves the newest rows that pass.
LEMMA Rebuilt ==
  ASSUME NEW key \in [Nat -> Int], NEW kind, NEW hidden,
         NEW B \in SUBSET Nat, IsFiniteSet(B), NEW s, Ranks(s, B, Ahead(key)), NEW V
  PROVE  OnScreen(RebuiltNodes(hidden, Items(s, V, key, kind)), Passing(B, hidden, kind), key)
<1>0. PICK N \in Nat : N = Cardinality(B)
  BY FS_CardinalityType
<1>1. PICK items : N = Cardinality(B) /\ items = Items(s, V, key, kind)
  BY <1>0
<1>2. s \in [1 .. N -> B]
  BY <1>1 DEF Ranks
<1>3. Len(items) = N /\ \A n \in 1 .. N : items[n] = ItemOf(s[n], V, key, kind)
  <2>1. ItemsAt(items, N, B, s, V, key, kind)
    BY <1>1, <1>2, ItemsPlaces
  <2> QED
    BY <2>1 DEF ItemsAt
<1> DEFINE Is(f, m) == f = [n \in 0 .. m |-> IF n = 0 THEN <<>> ELSE Rebuild(hidden, f[n - 1], items[n])]
           f == CHOOSE f : Is(f, N)
           E == {m \in 0 .. N : \E g : Is(g, m)}
<1>4. 0 \in E
  <2>1. PICK g : g = [n \in 0 .. 0 |-> <<>>]
    OBVIOUS
  <2>2. Is(g, 0)
    BY <2>1
  <2> QED
    BY <2>2
<1>5. ASSUME NEW m \in 1 .. N, m - 1 \in E
      PROVE  m \in E
  <2>1. PICK g : Is(g, m - 1)
    BY <1>5
  <2>2. PICK h : h = [n \in 0 .. m |-> IF n = m THEN Rebuild(hidden, g[m - 1], items[m]) ELSE g[n]]
    OBVIOUS
  <2>3. \A n \in 0 .. m : n # m => h[n] = g[n]
    BY <2>2
  <2>4. \A n \in 0 .. m : h[n] = IF n = 0 THEN <<>> ELSE Rebuild(hidden, h[n - 1], items[n])
    <3> SUFFICES ASSUME NEW n \in 0 .. m
                 PROVE  h[n] = IF n = 0 THEN <<>> ELSE Rebuild(hidden, h[n - 1], items[n])
      OBVIOUS
    <3>1. CASE n = m
      <4>1. m # 0 /\ m - 1 \in 0 .. m /\ m - 1 # m
        OBVIOUS
      <4> QED
        BY <2>2, <2>3, <3>1, <4>1
    <3>2. CASE n # m
      <4>1. n \in 0 .. m - 1
        BY <3>2
      <4>2. g[n] = IF n = 0 THEN <<>> ELSE Rebuild(hidden, g[n - 1], items[n])
        BY <2>1, <4>1
      <4>3. n # 0 => n - 1 \in 0 .. m /\ n - 1 # m
        BY <4>1
      <4> QED
        BY <2>3, <3>2, <4>2, <4>3
    <3> QED
      BY <3>1, <3>2
  <2>5. h = [n \in 0 .. m |-> h[n]]
    BY <2>2
  <2>6. Is(h, m)
    BY <2>4, <2>5
  <2>7. m \in 0 .. N
    OBVIOUS
  <2> HIDE DEF Is
  <2> QED
    BY <2>6, <2>7
<1>6. Is(f, N)
  <2>1. \A m \in 1 .. N : m - 1 \in E => m \in E
    BY <1>5
  <2> HIDE DEF E
  <2>2. N \in E
    BY <1>4, <2>1, CountUp
  <2> HIDE DEF Is
  <2> QED
    BY <2>2 DEF E
<1>7. RebuiltNodes(hidden, items) = f[N]
  BY <1>3 DEF RebuiltNodes, ForEach
<1> HIDE DEF f
<1>8. f[0] = <<>> /\ \A n \in 1 .. N : f[n] = Rebuild(hidden, f[n - 1], items[n])
  <2>1. \A n \in 0 .. N : f[n] = IF n = 0 THEN <<>> ELSE Rebuild(hidden, f[n - 1], items[n])
    BY <1>6
  <2> QED
    BY <2>1
<1> HIDE DEF Is, E
<1> DEFINE P == {n \in 0 .. N : OnScreen(f[n], Passing(First(s, n), hidden, kind), key)}
<1>9. 0 \in P
  <2>1. Passing(First(s, 0), hidden, kind) = {}
    BY DEF Passing, First
  <2>2. Ranks(<<>>, {}, Ahead(key)) /\ IsTop({}, {}, MaxNodes, Ahead(key))
    BY FS_EmptySet, ViewAssumption DEF Ranks, IsTop
  <2>3. OnScreen(<<>>, {}, key)
    BY <2>2 DEF OnScreen
  <2>4. OnScreen(f[0], Passing(First(s, 0), hidden, kind), key)
    BY <1>8, <2>1, <2>3
  <2> QED
    BY <1>1, <2>4
<1>10. ASSUME NEW n \in 1 .. N, n - 1 \in P
       PROVE  n \in P
  <2>1. OnScreen(f[n - 1], Passing(First(s, n - 1), hidden, kind), key)
    BY <1>10
  <2>2. OnScreen(Rebuild(hidden, f[n - 1], ItemOf(s[n], V, key, kind)), Passing(First(s, n), hidden, kind), key)
    BY <1>1, <2>1, RebuiltOne
  <2>3. n \in 0 .. N /\ f[n] = Rebuild(hidden, f[n - 1], ItemOf(s[n], V, key, kind))
    BY <1>3, <1>8
  <2> QED
    BY <2>2, <2>3
<1>11. N \in P
  <2>1. \A n \in 1 .. N : n - 1 \in P => n \in P
    BY <1>10
  <2> HIDE DEF P
  <2> QED
    BY <1>9, <2>1, CountUp
<1>12. First(s, N) = B
  <2>1. Orders(Ahead(key), B)
    BY AheadOrders
  <2>2. \A b \in B : \E i \in 1 .. N : s[i] = b
    BY <1>1, <2>1, RankingIsOnto
  <2> QED
    BY <1>2, <2>2 DEF First
<1> QED
  BY <1>1, <1>7, <1>11, <1>12

\* A checkbox turns.
Flipped(hidden, k) == IF k \in hidden THEN hidden \ {k} ELSE hidden \cup {k}

HiddenNodesItems(view, h, n, i) == [view EXCEPT !.hidden = h, !.nodes = n, !.items = i]

\* So is a change of three fields.
LEMMA ThreeFieldsChanged ==
  ASSUME NEW i, NEW n, NEW q, NEW h, NEW a, NEW b, NEW c
  PROVE  HiddenNodesItems(FieldsOf(i, n, q, h), a, b, c) = FieldsOf(c, b, q, a)
<1>0. PICK r : r = FieldsOf(i, n, q, h)
  OBVIOUS
<1>1. HiddenNodesItems(r, a, b, c) = [[[r EXCEPT !.hidden = a] EXCEPT !.nodes = b] EXCEPT !.items = c]
  BY Zenon DEF HiddenNodesItems
<1>2. [r EXCEPT !.hidden = a] = FieldsOf(i, n, q, a)
  BY <1>0 DEF FieldsOf
<1>3. [FieldsOf(i, n, q, a) EXCEPT !.nodes = b] = FieldsOf(i, b, q, a)
  BY DEF FieldsOf
<1>4. [FieldsOf(i, b, q, a) EXCEPT !.items = c] = FieldsOf(c, b, q, a)
  BY DEF FieldsOf
<1> QED
  BY <1>0, <1>1, <1>2, <1>3, <1>4, Zenon

\* After a click on a checkbox the screen shows again what it has to.
LEMMA Toggled ==
  ASSUME NEW key \in [Nat -> Int], NEW kind, NEW hidden, NEW q, NEW A \in SUBSET Nat,
         NEW view, Shows(view, q, hidden, A, key, kind), NEW k
  PROVE  Shows(Toggle(view, k), q, Flipped(hidden, k), A, key, kind)
<1>0. PICK R, h : R = Ahead(key) /\ h = Flipped(hidden, k)
  OBVIOUS
<1>1. PICK B, V, s, t :
        /\ IsTop(B, A, MaxItems, R) /\ Ranks(s, B, R)
        /\ IsTop(V, Passing(B, hidden, kind), MaxNodes, R) /\ Ranks(t, V, R)
        /\ view = Buffer(s, V, t, q, hidden, key, kind)
  BY <1>0 DEF Shows
<1>2. B \in SUBSET Nat /\ IsFiniteSet(B) /\ V \subseteq B
  BY <1>1 DEF IsTop, Passing
<1>3. PICK N \in Nat : N = Cardinality(B) /\ s \in [1 .. N -> B]
  BY <1>1, <1>2, FS_CardinalityType DEF Ranks
<1>4. PICK items, u : /\ items = Items(s, V, key, kind)
                      /\ u = RebuiltNodes(h, Items(s, V, key, kind))
  OBVIOUS
<1>5. view = FieldsOf(items, t, q, hidden) /\ view.items = items /\ view.hidden = hidden
  BY <1>1, <1>4 DEF Buffer, FieldsOf
<1>6. PICK W : Ranks(u, W, R) /\ IsTop(W, Passing(B, h, kind), MaxNodes, R)
  <2>1. OnScreen(RebuiltNodes(h, Items(s, V, key, kind)), Passing(B, h, kind), key)
    BY <1>0, <1>1, <1>2, Rebuilt
  <2> QED
    BY <1>0, <1>4, <2>1 DEF OnScreen
<1>7. ToSet(u) = W
  <2>1. W \subseteq B /\ IsFiniteSet(W)
    BY <1>6 DEF IsTop, Passing
  <2>2. W \in SUBSET Nat
    BY <1>2, <2>1
  <2>3. Orders(R, W)
    BY <1>0, <2>2, AheadOrders
  <2> QED
    BY <1>6, <2>1, <2>3, RankingSet
<1>8. PICK seqs : seqs = {d.seq : d \in ToSet(items)}
  OBVIOUS
<1>9. V \subseteq seqs
  <2>1. Orders(R, B)
    BY <1>0, <1>2, AheadOrders
  <2>2. \A b \in B : \E i \in 1 .. N : s[i] = b
    BY <1>1, <1>2, <1>3, <2>1, RankingIsOnto
  <2>3. items = [p \in 1 .. N |-> ItemOf(s[p], V, key, kind)]
    BY <1>3, <1>4 DEF Items
  <2>4. \A i \in 1 .. N : items[i].seq = s[i] /\ items[i] \in ToSet(items)
    BY <2>3 DEF ItemOf, ToSet
  <2> QED
    BY <1>2, <1>8, <2>2, <2>4
<1>10. SetNode(SetNode(items, seqs, FALSE), W, TRUE) = Items(s, W, key, kind)
  <2>1. ItemsChange(s, V, seqs, key, kind) /\ ItemsChange(s, {}, W, key, kind)
    BY <1>3, ItemsSet
  <2>2. V \ seqs = {} /\ {} \cup W = W
    BY <1>9
  <2> QED
    BY <1>4, <2>1, <2>2 DEF ItemsChange
<1>11. Toggle(view, k) = HiddenNodesItems(view, h, u, SetNode(SetNode(items, seqs, FALSE), W, TRUE))
  <2>1. h = Flipped(view.hidden, k) /\ u = RebuiltNodes(h, view.items)
    BY <1>0, <1>4, <1>5
  <2>2. Toggle(view, k)
        = HiddenNodesItems(view, Flipped(view.hidden, k), RebuiltNodes(Flipped(view.hidden, k), view.items),
                           SetNode(SetNode(view.items, {d.seq : d \in ToSet(view.items)}, FALSE),
                                   ToSet(RebuiltNodes(Flipped(view.hidden, k), view.items)), TRUE))
    BY DEF Toggle, HiddenNodesItems, RebuiltNodes, Flipped
  <2> QED
    BY <1>5, <1>7, <1>8, <2>1, <2>2
<1>12. Toggle(view, k) = Buffer(s, W, u, q, h, key, kind)
  <2>1. PICK j : j = Items(s, W, key, kind)
    OBVIOUS
  <2>2. HiddenNodesItems(view, h, u, j) = FieldsOf(j, u, q, h)
    BY <1>5, ThreeFieldsChanged
  <2> QED
    BY <1>10, <1>11, <2>1, <2>2 DEF Buffer, FieldsOf
<1> QED
  BY <1>0, <1>1, <1>6, <1>12 DEF Shows

\* Nothing is shown of no rows.
LEMMA NothingShown ==
  ASSUME NEW q, NEW hidden, NEW key, NEW kind
  PROVE  Shows(FieldsOf(<<>>, <<>>, q, hidden), q, hidden, {}, key, kind)
<1>1. Ranks(<<>>, {}, Ahead(key))
  BY FS_EmptySet DEF Ranks
<1>2. Passing({}, hidden, kind) = {}
  BY DEF Passing
<1>3. IsTop({}, {}, MaxNodes, Ahead(key)) /\ IsTop({}, {}, MaxItems, Ahead(key))
  BY FS_EmptySet, ViewAssumption DEF IsTop
<1>4. Items(<<>>, {}, key, kind) = <<>>
  BY DEF Items
<1>5. FieldsOf(<<>>, <<>>, q, hidden) = Buffer(<<>>, {}, <<>>, q, hidden, key, kind)
  BY <1>4 DEF FieldsOf, Buffer
<1> QED
  BY <1>1, <1>2, <1>3, <1>5 DEF Shows

\* clear starts over.
LEMMA Cleared ==
  ASSUME NEW key, NEW kind, NEW hidden, NEW q, NEW A,
         NEW view, Shows(view, q, hidden, A, key, kind)
  PROVE  Shows(Clear(view), q, hidden, {}, key, kind)
<1>1. PICK items, t : view = FieldsOf(items, t, q, hidden)
  BY DEF Shows, Buffer, FieldsOf
<1>2. Clear(view) = ItemsNodes(view, <<>>, <<>>)
  BY DEF Clear, ItemsNodes
<1>3. ItemsNodes(view, <<>>, <<>>) = FieldsOf(<<>>, <<>>, q, hidden)
  BY <1>1, FieldsChanged
<1> QED
  BY <1>2, <1>3, NothingShown

\* Numbers count the rows, and a later row has a greater one.
LEMMA RowNumbers ==
  ASSUME NEW ops
  PROVE  /\ RowNumber(ops, 1) = 0
         /\ \A i \in Nat \ {0} :
              /\ RowNumber(ops, i) \in Nat
              /\ RowNumber(ops, i + 1) = RowNumber(ops, i) + (IF IsRow(ops, i) THEN 1 ELSE 0)
         /\ \A i, j \in Nat \ {0} : i < j /\ IsRow(ops, i) => RowNumber(ops, i) < RowNumber(ops, j)
<1> DEFINE S(i) == {j \in 1 .. i - 1 : IsRow(ops, j)}
<1>1. RowNumber(ops, 1) = 0
  <2>1. S(1) = {}
    OBVIOUS
  <2> QED
    BY <2>1, FS_EmptySet DEF RowNumber
<1>2. ASSUME NEW i \in Nat \ {0}
      PROVE  IsFiniteSet(S(i)) /\ RowNumber(ops, i) = Cardinality(S(i)) /\ RowNumber(ops, i) \in Nat
  <2>1. S(i) \in SUBSET (1 .. i - 1) /\ 1 \in Int /\ i - 1 \in Int
    OBVIOUS
  <2>2. IsFiniteSet(1 .. i - 1)
    BY <2>1, FS_Interval
  <2> HIDE DEF S
  <2>3. IsFiniteSet(S(i))
    BY <2>1, <2>2, FS_Subset
  <2> QED
    BY <2>3, FS_CardinalityType DEF RowNumber, S
<1>3. ASSUME NEW i \in Nat \ {0}
      PROVE  RowNumber(ops, i + 1) = RowNumber(ops, i) + (IF IsRow(ops, i) THEN 1 ELSE 0)
  <2>1. i + 1 \in Nat \ {0} /\ \A j \in 1 .. (i + 1) - 1 : j = i \/ j \in 1 .. i - 1
    OBVIOUS
  <2>2. \A j \in 1 .. i - 1 : j \in 1 .. (i + 1) - 1
    OBVIOUS
  <2>3. CASE IsRow(ops, i)
    <3>1. i \in 1 .. (i + 1) - 1
      OBVIOUS
    <3>2. S(i + 1) = S(i) \cup {i}
      BY <2>1, <2>2, <2>3, <3>1
    <3>3. i \notin S(i)
      OBVIOUS
    <3> HIDE DEF S
    <3>4. Cardinality(S(i + 1)) = Cardinality(S(i)) + 1
      BY <1>2, <3>2, <3>3, FS_AddElement
    <3> QED
      BY <1>2, <2>1, <2>3, <3>4
  <2>4. CASE ~IsRow(ops, i)
    <3>1. S(i + 1) = S(i)
      BY <2>1, <2>2, <2>4
    <3> HIDE DEF S
    <3> QED
      BY <1>2, <2>1, <2>4, <3>1
  <2> QED
    BY <2>3, <2>4
<1>4. ASSUME NEW i \in Nat \ {0}, NEW j \in Nat \ {0}, i < j, IsRow(ops, i)
      PROVE  RowNumber(ops, i) < RowNumber(ops, j)
  <2>1. \A k \in 1 .. i - 1 : k \in 1 .. j - 1
    BY <1>4
  <2>2. i \in S(j) /\ i \notin S(i)
    BY <1>4
  <2>3. S(i) \subseteq S(j) /\ S(i) # S(j)
    BY <2>1, <2>2
  <2> HIDE DEF S
  <2>4. Cardinality(S(i)) < Cardinality(S(j))
    <3>1. /\ Cardinality(S(i)) <= Cardinality(S(j))
          /\ Cardinality(S(i)) = Cardinality(S(j)) => S(i) = S(j)
      BY <1>2, <2>3, FS_Subset
    <3> QED
      BY <1>2, <2>3, <3>1
  <2> QED
    BY <1>2, <2>4
<1> HIDE DEF S
<1> QED
  BY <1>1, <1>2, <1>3, <1>4

\* The rows after the last clear, of the first n calls.
Alive(ops, n) == {i \in 1 .. n : IsRow(ops, i) /\ \A j \in 1 .. n : ops[j].do = "clear" => j < i}
NumbersOf(ops, S) == {RowNumber(ops, i) : i \in S}

\* key and kind are those of the rows, by their numbers.
Describe(ops, N, key, kind) ==
  \A i \in 1 .. N : IsRow(ops, i) =>
    key[RowNumber(ops, i)] = ops[i].k /\ kind[RowNumber(ops, i)] = ops[i].kind

\* What is shown after n calls.
ShownAfter(view, n, ops, key, kind) ==
  \E h : Shows(view, RowNumber(ops, n + 1), h, NumbersOf(ops, Alive(ops, n)), key, kind)

\* One more call.
LEMMA OneMoreCall ==
  ASSUME NEW ops, NEW N \in Nat, NEW key \in [Nat -> Int], NEW kind, Describe(ops, N, key, kind),
         NEW n \in 1 .. N, ops[n].do \in {"row", "toggle", "clear"},
         NEW view, ShownAfter(view, n - 1, ops, key, kind)
  PROVE  ShownAfter(Do(view, ops[n]), n, ops, key, kind)
<1>0. PICK q, A, op : /\ q = RowNumber(ops, n) /\ A = NumbersOf(ops, Alive(ops, n - 1)) /\ op = ops[n]
  OBVIOUS
<1>1. PICK h : Shows(view, q, h, A, key, kind)
  <2>1. (n - 1) + 1 = n
    OBVIOUS
  <2> QED
    BY <1>0, <2>1 DEF ShownAfter
<1>2. q \in Nat /\ RowNumber(ops, n + 1) = q + (IF IsRow(ops, n) THEN 1 ELSE 0)
  <2>1. n \in Nat \ {0}
    OBVIOUS
  <2> QED
    BY <1>0, <2>1, RowNumbers
<1>3. A \in SUBSET Nat /\ \A a \in A : a < q
  <2> SUFFICES ASSUME NEW i \in Alive(ops, n - 1)
               PROVE  RowNumber(ops, i) \in Nat /\ RowNumber(ops, i) < q
    BY <1>0 DEF NumbersOf
  <2>1. i \in Nat \ {0} /\ i < n /\ n \in Nat \ {0} /\ IsRow(ops, i)
    BY DEF Alive
  <2> QED
    BY <1>0, <2>1, RowNumbers
<1>4. /\ \A i \in 1 .. n : i = n \/ i \in 1 .. n - 1
      /\ \A i \in 1 .. n - 1 : i \in 1 .. n /\ i < n /\ i # n
      /\ n \in 1 .. n /\ ~(n < n)
  OBVIOUS
<1>5. ASSUME op.do = "row"
      PROVE  ShownAfter(Do(view, op), n, ops, key, kind)
  <2>1. Do(view, op) = Ingest(view, key[q], kind[q])
    BY <1>0, <1>5 DEF Do, Describe, IsRow
  <2>2. Shows(Do(view, op), q + 1, h, A \cup {q}, key, kind)
    <3>1. Shows(Ingest(view, key[q], kind[q]), q + 1, h, A \cup {q}, key, kind)
      <4>1. q \in Nat /\ A \in SUBSET Nat /\ (\A a \in A : a < q) /\ Shows(view, q, h, A, key, kind)
        BY <1>1, <1>2, <1>3
      <4> QED
        BY <4>1, Ingested
    <3> QED
      BY <2>1, <3>1
  <2>3. Alive(ops, n) = Alive(ops, n - 1) \cup {n}
    <3>1. ops[n].do # "clear" /\ IsRow(ops, n)
      BY <1>0, <1>5 DEF IsRow
    <3> QED
      BY <1>4, <3>1 DEF Alive
  <2>4. NumbersOf(ops, Alive(ops, n)) = A \cup {q}
    BY <1>0, <2>3 DEF NumbersOf
  <2>5. RowNumber(ops, n + 1) = q + 1
    BY <1>0, <1>2, <1>5 DEF IsRow
  <2> QED
    BY <2>2, <2>4, <2>5 DEF ShownAfter
<1>6. ASSUME op.do = "toggle"
      PROVE  ShownAfter(Do(view, op), n, ops, key, kind)
  <2>1. Do(view, op) = Toggle(view, op.kind)
    BY <1>6 DEF Do
  <2>2. Shows(Do(view, op), q, Flipped(h, op.kind), A, key, kind)
    BY <1>1, <1>3, <2>1, Toggled
  <2>3. Alive(ops, n) = Alive(ops, n - 1)
    <3>1. ops[n].do # "clear" /\ ~IsRow(ops, n)
      BY <1>0, <1>6 DEF IsRow
    <3> QED
      BY <1>4, <3>1 DEF Alive
  <2>4. RowNumber(ops, n + 1) = q
    BY <1>0, <1>2, <1>6 DEF IsRow
  <2> QED
    BY <1>0, <2>2, <2>3, <2>4 DEF ShownAfter
<1>7. ASSUME op.do = "clear"
      PROVE  ShownAfter(Do(view, op), n, ops, key, kind)
  <2>1. Do(view, op) = Clear(view)
    BY <1>7 DEF Do
  <2>2. Shows(Do(view, op), q, h, {}, key, kind)
    BY <1>1, <2>1, Cleared
  <2>3. Alive(ops, n) = {}
    <3>1. ops[n].do = "clear" /\ ~IsRow(ops, n)
      BY <1>0, <1>7 DEF IsRow
    <3>2. \A i \in 1 .. n : ~(n < i)
      OBVIOUS
    <3> QED
      BY <1>4, <3>1, <3>2 DEF Alive
  <2>4. NumbersOf(ops, Alive(ops, n)) = {}
    BY <2>3 DEF NumbersOf
  <2>5. RowNumber(ops, n + 1) = q
    BY <1>0, <1>2, <1>7 DEF IsRow
  <2> QED
    BY <2>2, <2>4, <2>5 DEF ShownAfter
<1> QED
  BY <1>0, <1>5, <1>6, <1>7

\* Calls of the browser's script: their number is N.
AreCalls(ops, N) ==
  /\ Len(ops) = N /\ DOMAIN ops = 1 .. N
  /\ \A i \in 1 .. N : ops[i].do \in {"row", "toggle", "clear"} /\ ops[i].k \in Int

\* After all calls the newest rows are shown.
LEMMA ViewShown ==
  ASSUME NEW N \in Nat, NEW ops, AreCalls(ops, N),
         NEW key \in [Nat -> Int], NEW kind, Describe(ops, N, key, kind)
  PROVE  ShownAfter(View(ops), N, ops, key, kind)
<1> DEFINE Is(f, m) == f = [n \in 0 .. m |-> IF n = 0 THEN NoView ELSE Do(f[n - 1], ops[n])]
           f == CHOOSE f : Is(f, N)
           E == {m \in 0 .. N : \E g : Is(g, m)}
<1>4. 0 \in E
  <2>1. PICK g : g = [n \in 0 .. 0 |-> NoView]
    OBVIOUS
  <2>2. Is(g, 0)
    BY <2>1
  <2> QED
    BY <2>2
<1>5. ASSUME NEW m \in 1 .. N, m - 1 \in E
      PROVE  m \in E
  <2>1. PICK g : Is(g, m - 1)
    BY <1>5
  <2>2. PICK h : h = [n \in 0 .. m |-> IF n = m THEN Do(g[m - 1], ops[m]) ELSE g[n]]
    OBVIOUS
  <2>3. \A n \in 0 .. m : n # m => h[n] = g[n]
    BY <2>2
  <2>4. \A n \in 0 .. m : h[n] = IF n = 0 THEN NoView ELSE Do(h[n - 1], ops[n])
    <3> SUFFICES ASSUME NEW n \in 0 .. m
                 PROVE  h[n] = IF n = 0 THEN NoView ELSE Do(h[n - 1], ops[n])
      OBVIOUS
    <3>1. CASE n = m
      <4>1. m # 0 /\ m - 1 \in 0 .. m /\ m - 1 # m
        OBVIOUS
      <4> QED
        BY <2>2, <2>3, <3>1, <4>1
    <3>2. CASE n # m
      <4>1. n \in 0 .. m - 1
        BY <3>2
      <4>2. g[n] = IF n = 0 THEN NoView ELSE Do(g[n - 1], ops[n])
        BY <2>1, <4>1
      <4>3. n # 0 => n - 1 \in 0 .. m /\ n - 1 # m
        BY <4>1
      <4> QED
        BY <2>3, <3>2, <4>2, <4>3
    <3> QED
      BY <3>1, <3>2
  <2>5. h = [n \in 0 .. m |-> h[n]]
    BY <2>2
  <2>6. Is(h, m)
    BY <2>4, <2>5
  <2>7. m \in 0 .. N
    OBVIOUS
  <2> HIDE DEF Is
  <2> QED
    BY <2>6, <2>7
<1>6. Is(f, N)
  <2>1. \A m \in 1 .. N : m - 1 \in E => m \in E
    BY <1>5
  <2> HIDE DEF E
  <2>2. N \in E
    BY <1>4, <2>1, CountUp
  <2> HIDE DEF Is
  <2> QED
    BY <2>2 DEF E
<1>7. View(ops) = f[N]
  BY DEF View, ForEach, AreCalls
<1> HIDE DEF f
<1>8. f[0] = NoView /\ \A n \in 1 .. N : f[n] = Do(f[n - 1], ops[n])
  <2>1. \A n \in 0 .. N : f[n] = IF n = 0 THEN NoView ELSE Do(f[n - 1], ops[n])
    BY <1>6
  <2> QED
    BY <2>1
<1> HIDE DEF Is, E
<1> DEFINE P == {n \in 0 .. N : ShownAfter(f[n], n, ops, key, kind)}
<1>9. 0 \in P
  <2>1. Alive(ops, 0) = {} /\ 0 + 1 = 1
    BY DEF Alive
  <2>2. NumbersOf(ops, Alive(ops, 0)) = {}
    BY <2>1 DEF NumbersOf
  <2>3. RowNumber(ops, 0 + 1) = 0
    BY <2>1, RowNumbers
  <2>4. NoView = FieldsOf(<<>>, <<>>, 0, {})
    BY DEF NoView, FieldsOf
  <2>5. Shows(f[0], 0, {}, {}, key, kind)
    BY <1>8, <2>4, NothingShown
  <2>6. ShownAfter(f[0], 0, ops, key, kind)
    BY <2>2, <2>3, <2>5 DEF ShownAfter
  <2> QED
    BY <2>6
<1>10. ASSUME NEW n \in 1 .. N, n - 1 \in P
       PROVE  n \in P
  <2>1. ShownAfter(f[n - 1], n - 1, ops, key, kind)
    BY <1>10
  <2>2. ops[n].do \in {"row", "toggle", "clear"}
    BY DEF AreCalls
  <2>3. ShownAfter(Do(f[n - 1], ops[n]), n, ops, key, kind)
    BY <2>1, <2>2, OneMoreCall
  <2>4. n \in 0 .. N /\ f[n] = Do(f[n - 1], ops[n])
    BY <1>8
  <2> QED
    BY <2>3, <2>4
<1>11. N \in P
  <2>1. \A n \in 1 .. N : n - 1 \in P => n \in P
    BY <1>10
  <2> HIDE DEF P
  <2> QED
    BY <1>9, <2>1, CountUp
<1> QED
  BY <1>7, <1>11

\* The first of a ranking are the top of its set, ranked.
TopPart(s, e, X, m, R) ==
  /\ IsTop(First(s, e), X, m, R)
  /\ Ranks([i \in 1 .. e |-> s[i]], First(s, e), R)

\* A beginning of a ranking is the top of its set.
LEMMA TopPrefix ==
  ASSUME NEW X, IsFiniteSet(X), NEW R, Orders(R, X), NEW s, Ranks(s, X, R), NEW m \in Nat,
         NEW e, e = IF Cardinality(X) < m THEN Cardinality(X) ELSE m
  PROVE  TopPart(s, e, X, m, R)
<1>1. PICK n \in Nat : n = Cardinality(X)
  BY FS_CardinalityType
<1>2. /\ e \in Nat /\ e <= n /\ e <= m /\ (e < n => e = m)
      /\ \A i \in 1 .. e : i \in 1 .. n
  BY <1>1
<1>3. s \in [1 .. n -> X] /\ \A i, j \in 1 .. n : i < j => <<s[i], s[j]>> \in R
  BY <1>1 DEF Ranks
<1>4. /\ \A x \in X : \E i \in 1 .. n : s[i] = x
      /\ \A i, j \in 1 .. n : s[i] = s[j] => i = j
  BY <1>1, RankingIsOnto
<1>5. PICK T, p : T = First(s, e) /\ p = [i \in 1 .. e |-> s[i]]
  OBVIOUS
<1>6. p \in [1 .. e -> T]
  BY <1>5 DEF First
<1>8. T \subseteq X
  BY <1>2, <1>3, <1>5 DEF First
<1>7. IsFiniteSet(T) /\ Cardinality(T) = e
  <2>1. \A t \in T : \E i \in 1 .. e : p[i] = t
    BY <1>5 DEF First
  <2>2. \A i, j \in 1 .. e : p[i] = p[j] => i = j
    BY <1>2, <1>4, <1>5
  <2>3. p \in Bijection(1 .. e, T)
    BY <1>6, <2>1, <2>2 DEF Bijection, Injection, Surjection, IsInjective
  <2>4. ExistsBijection(1 .. e, T)
    BY <2>3 DEF ExistsBijection
  <2>5. IsFiniteSet(T)
    BY <1>8, FS_Subset
  <2> QED
    BY <1>2, <2>4, <2>5, FS_CountingElements
<1>9. ASSUME NEW r \in X \ T
      PROVE  e = m /\ \A t \in T : <<t, r>> \in R
  <2>1. PICK j \in 1 .. n : s[j] = r
    BY <1>4
  <2>2. ~(j <= e)
    <3>1. j <= e => j \in 1 .. e
      OBVIOUS
    <3> QED
      BY <1>5, <1>9, <2>1, <3>1 DEF First
  <2>3. e < n /\ e = m
    BY <1>2, <2>2
  <2>4. ASSUME NEW i \in 1 .. e
        PROVE  <<s[i], r>> \in R
    <3>1. i \in 1 .. n /\ i < j
      BY <1>2, <2>2
    <3> QED
      BY <1>3, <2>1, <3>1
  <2> QED
    BY <1>5, <2>3, <2>4 DEF First
<1>10. IsTop(T, X, m, R)
  BY <1>2, <1>7, <1>8, <1>9 DEF IsTop
<1>11. Ranks(p, T, R)
  <2>1. \A i, j \in 1 .. e : i < j => <<p[i], p[j]>> \in R
    BY <1>2, <1>3, <1>5
  <2> QED
    BY <1>6, <1>7, <2>1 DEF Ranks
<1> QED
  BY <1>5, <1>10, <1>11 DEF TopPart

\* The newest rows by their numbers are the top of the numbers, ranked.
NewestOf(w, ops, rows, m, key) ==
  \E e, T :
    /\ e \in Nat /\ w \in [1 .. e -> rows]
    /\ T = NumbersOf(ops, ToSet(w))
    /\ IsTop(T, NumbersOf(ops, rows), m, Ahead(key))
    /\ Ranks([i \in 1 .. e |-> RowNumber(ops, w[i])], T, Ahead(key))

\* What Newest chooses is that.
LEMMA NewestRanked ==
  ASSUME NEW N \in Nat, NEW ops, AreCalls(ops, N),
         NEW key \in [Nat -> Int], NEW kind, Describe(ops, N, key, kind),
         NEW rows \in SUBSET {i \in 1 .. N : IsRow(ops, i)}, NEW m \in Nat
  PROVE  NewestOf(Newest(ops, rows, m), ops, rows, m, key)
<1> DEFINE num(i) == RowNumber(ops, i)
           R == {p \in Nat \X Nat : Newer(ops, p[1], p[2])}
           X == NumbersOf(ops, rows)
           c == Cardinality(rows)
           sorted == CHOOSE seq \in [1 .. c -> rows] :
                       \A i, j \in DOMAIN seq : i < j => Newer(ops, seq[i], seq[j])
           g == [i \in 1 .. c |-> num(sorted[i])]
           e == IF c < m THEN c ELSE m
           w == Newest(ops, rows, m)
<1>1. /\ \A i \in rows : /\ i \in 1 .. N /\ i \in Nat \ {0} /\ IsRow(ops, i) /\ ops[i].k \in Int
                         /\ num(i) \in Nat /\ key[num(i)] = ops[i].k
      /\ \A i, j \in rows : i < j => num(i) < num(j)
  <2>1. \A i \in rows : i \in 1 .. N /\ i \in Nat \ {0} /\ IsRow(ops, i)
    OBVIOUS
  <2> QED
    BY <2>1, RowNumbers DEF AreCalls, Describe
<1>2. IsFiniteSet(rows) /\ c \in Nat
  <2>1. IsFiniteSet(1 .. N)
    BY FS_Interval
  <2>2. rows \in SUBSET (1 .. N)
    OBVIOUS
  <2>3. IsFiniteSet(rows)
    BY <2>1, <2>2, FS_Subset
  <2> QED
    BY <2>3, FS_CardinalityType
<1>3. \A i, j \in rows : /\ Newer(ops, i, j) <=> <<i, j>> \in R
                         /\ Newer(ops, i, j) <=> <<num(i), num(j)>> \in Ahead(key)
                         /\ num(i) = num(j) => i = j
  <2> SUFFICES ASSUME NEW i \in rows, NEW j \in rows
               PROVE  /\ Newer(ops, i, j) <=> <<i, j>> \in R
                      /\ Newer(ops, i, j) <=> <<num(i), num(j)>> \in Ahead(key)
                      /\ num(i) = num(j) => i = j
    OBVIOUS
  <2>1. /\ i \in Nat /\ j \in Nat /\ ops[i].k \in Int /\ ops[j].k \in Int
        /\ num(i) \in Nat /\ num(j) \in Nat /\ key[num(i)] = ops[i].k /\ key[num(j)] = ops[j].k
        /\ i < j => num(i) < num(j)
        /\ j < i => num(j) < num(i)
    BY <1>1
  <2> HIDE DEF num
  <2>2. num(i) = num(j) => i = j
    BY <2>1
  <2>3. num(i) > num(j) <=> i > j
    BY <2>1
  <2>4. <<num(i), num(j)>> \in Ahead(key)
          <=> key[num(i)] > key[num(j)] \/ (key[num(i)] = key[num(j)] /\ num(i) > num(j))
    BY <2>1, AheadIs
  <2>5. Newer(ops, i, j) <=> <<num(i), num(j)>> \in Ahead(key)
    BY <2>1, <2>3, <2>4 DEF Newer
  <2>6. Newer(ops, i, j) <=> <<i, j>> \in R
    BY <2>1
  <2> QED
    BY <2>2, <2>5, <2>6
<1>4. X \in SUBSET Nat
  BY <1>1 DEF NumbersOf
<1>5. Orders(Ahead(key), X)
  BY <1>4, AheadOrders
<1>6. \A i \in rows : num(i) \in X
  BY DEF NumbersOf
<1> HIDE DEF num, R
<1>7. Orders(R, rows)
  <2>1. ASSUME NEW i \in rows
        PROVE  <<i, i>> \notin R
    BY <1>3, <1>5, <1>6 DEF Orders
  <2>2. ASSUME NEW i \in rows, NEW j \in rows
        PROVE  i = j \/ <<i, j>> \in R \/ <<j, i>> \in R
    BY <1>3, <1>5, <1>6 DEF Orders
  <2>3. ASSUME NEW i \in rows, NEW j \in rows, NEW l \in rows, <<i, j>> \in R, <<j, l>> \in R
        PROVE  <<i, l>> \in R
    <3>1. <<num(i), num(j)>> \in Ahead(key) /\ <<num(j), num(l)>> \in Ahead(key)
      BY <1>3, <2>3
    <3>2. <<num(i), num(l)>> \in Ahead(key)
      BY <1>5, <1>6, <3>1 DEF Orders
    <3> QED
      BY <1>3, <3>2
  <2> QED
    BY <2>1, <2>2, <2>3 DEF Orders
<1>8. sorted \in [1 .. c -> rows] /\ \A i, j \in 1 .. c : i < j => Newer(ops, sorted[i], sorted[j])
  <2>1. PICK seq : Ranks(seq, rows, R)
    BY <1>2, <1>7, RankingExists
  <2>2. seq \in [1 .. c -> rows] /\ \A i, j \in DOMAIN seq : i < j => Newer(ops, seq[i], seq[j])
    BY <1>3, <2>1 DEF Ranks
  <2> HIDE DEF c
  <2>3. sorted \in [1 .. c -> rows] /\ \A i, j \in DOMAIN sorted : i < j => Newer(ops, sorted[i], sorted[j])
    BY <2>2
  <2> HIDE DEF sorted
  <2> QED
    BY <2>3
<1>9. Len(sorted) = c /\ Newest(ops, rows, m) = SubSeq(sorted, 1, e)
  <2>1. Len(sorted) = c
    <3> HIDE DEF sorted, c
    <3> QED
      BY <1>2, <1>8
  <2> QED
    BY <2>1 DEF Newest
<1> HIDE DEF sorted, c
<1>10. Ranks(sorted, rows, R)
  BY <1>3, <1>8 DEF Ranks, c
<1>11. \A i \in rows : \E k \in 1 .. c : sorted[k] = i
  BY <1>2, <1>7, <1>10, RankingIsOnto DEF c
<1>12. /\ g \in [1 .. c -> X] /\ \A i, j \in 1 .. c : i < j => <<g[i], g[j]>> \in Ahead(key)
       /\ \A x \in X : \E k \in 1 .. c : g[k] = x
       /\ \A i, j \in 1 .. c : g[i] = g[j] => i = j
  <2>1. \A i \in 1 .. c : sorted[i] \in rows /\ g[i] = num(sorted[i])
    BY <1>8
  <2>2. g \in [1 .. c -> X]
    BY <1>6, <2>1
  <2>3. \A i, j \in 1 .. c : i < j => <<g[i], g[j]>> \in Ahead(key)
    BY <1>3, <1>8, <2>1
  <2>4. \A x \in X : \E k \in 1 .. c : g[k] = x
    BY <1>11, <2>1 DEF NumbersOf, num
  <2>5. \A i, j \in 1 .. c : g[i] = g[j] => i = j
    <3> SUFFICES ASSUME NEW i \in 1 .. c, NEW j \in 1 .. c, g[i] = g[j], i # j
                 PROVE  FALSE
      OBVIOUS
    <3> HIDE DEF g
    <3>1. i < j \/ j < i
      BY <1>2
    <3>2. <<g[i], g[i]>> \in Ahead(key) /\ g[i] \in X
      BY <2>2, <2>3, <3>1
    <3> QED
      BY <1>5, <3>2 DEF Orders
  <2> QED
    BY <2>2, <2>3, <2>4, <2>5
<1> HIDE DEF X
<1>13. IsFiniteSet(X) /\ Cardinality(X) = c
  <2>1. g \in Bijection(1 .. c, X)
    <3> HIDE DEF g
    <3> QED
      BY <1>12 DEF Bijection, Injection, Surjection, IsInjective
  <2>2. ExistsBijection(1 .. c, X)
    BY <2>1 DEF ExistsBijection
  <2>3. IsFiniteSet(X)
    <3>1. g \in Surjection(1 .. c, X)
      BY <2>1 DEF Bijection
    <3>2. IsFiniteSet(1 .. c)
      BY <1>2, FS_Interval
    <3> QED
      BY <3>1, <3>2, FS_Surjection
  <2> QED
    BY <1>2, <2>2, <2>3, FS_CountingElements
<1> HIDE DEF g
<1>14. Ranks(g, X, Ahead(key))
  BY <1>12, <1>13 DEF Ranks
<1>15. TopPart(g, e, X, m, Ahead(key))
  <2>1. e = IF Cardinality(X) < m THEN Cardinality(X) ELSE m
    BY <1>13
  <2> HIDE DEF e
  <2> QED
    BY <1>5, <1>13, <1>14, <2>1, TopPrefix
<1>16. e \in 0 .. c /\ e \in Nat /\ \A i \in 1 .. e : i \in 1 .. c
  BY <1>2
<1> HIDE DEF e
<1>17. w = [i \in 1 .. e |-> sorted[i]]
  <2>1. SubSeq(sorted, 1, e) = [i \in 1 .. e |-> sorted[i]]
    BY <1>2, <1>8, <1>16, PrefixPlaces
  <2> QED
    BY <1>9, <2>1
<1> HIDE DEF w
<1>18. \A i \in 1 .. e : w[i] = sorted[i] /\ w[i] \in rows /\ num(w[i]) = g[i]
  <2>1. \A i \in 1 .. c : g[i] = num(sorted[i])
    BY DEF g
  <2> QED
    BY <1>8, <1>16, <1>17, <2>1
<1>19. w \in [1 .. e -> rows]
  BY <1>17, <1>18
<1>20. [i \in 1 .. e |-> RowNumber(ops, w[i])] = [i \in 1 .. e |-> g[i]]
  BY <1>18 DEF num
<1>21. First(g, e) = NumbersOf(ops, ToSet(w))
  <2>1. ToSet(w) = {w[i] : i \in 1 .. e}
    BY <1>19 DEF ToSet
  <2>2. NumbersOf(ops, ToSet(w)) = {num(w[i]) : i \in 1 .. e}
    BY <2>1 DEF NumbersOf, num
  <2>3. First(g, e) = {g[i] : i \in 1 .. e}
    BY DEF First
  <2> QED
    BY <1>18, <2>2, <2>3
<1> QED
  BY <1>15, <1>16, <1>19, <1>20, <1>21 DEF TopPart, NewestOf, X, w

\* Rows have different numbers, so their keys and kinds are functions of the numbers.
LEMMA Described ==
  ASSUME NEW N \in Nat, NEW ops, AreCalls(ops, N)
  PROVE  \E key \in [Nat -> Int] : \E kind : Describe(ops, N, key, kind)
<1> DEFINE Is(i, q) == IsRow(ops, i) /\ RowNumber(ops, i) = q
           At(q) == CHOOSE i \in 1 .. N : Is(i, q)
           key == [q \in Nat |-> IF \E i \in 1 .. N : Is(i, q) THEN ops[At(q)].k ELSE 0]
           kind == [q \in Nat |-> ops[At(q)].kind]
<1>1. \A q : (\E i \in 1 .. N : Is(i, q)) => At(q) \in 1 .. N /\ Is(At(q), q)
  <2> SUFFICES ASSUME NEW q, \E i \in 1 .. N : Is(i, q)
               PROVE  At(q) \in 1 .. N /\ Is(At(q), q)
    OBVIOUS
  <2> HIDE DEF Is
  <2> QED
    OBVIOUS
<1> HIDE DEF At
<1>2. key \in [Nat -> Int]
  <2>1. \A q \in Nat : key[q] \in Int
    <3> HIDE DEF Is
    <3> QED
      BY <1>1 DEF AreCalls
  <2> QED
    BY <2>1
<1>3. ASSUME NEW i \in 1 .. N, IsRow(ops, i)
      PROVE  key[RowNumber(ops, i)] = ops[i].k /\ kind[RowNumber(ops, i)] = ops[i].kind
  <2>1. PICK q \in Nat : q = RowNumber(ops, i)
    BY RowNumbers
  <2>2. Is(i, q)
    BY <1>3, <2>1
  <2>3. At(q) \in 1 .. N /\ Is(At(q), q)
    BY <1>1, <2>2
  <2>4. PICK j \in 1 .. N : j = At(q) /\ IsRow(ops, j) /\ RowNumber(ops, j) = RowNumber(ops, i)
    BY <2>1, <2>3
  <2>5. i \in Nat \ {0} /\ j \in Nat \ {0} /\ RowNumber(ops, i) \in Nat
    BY <2>1
  <2>6. /\ i < j => RowNumber(ops, i) < RowNumber(ops, j)
        /\ j < i => RowNumber(ops, j) < RowNumber(ops, i)
    <3>1. IsRow(ops, i) /\ IsRow(ops, j)
      BY <1>3, <2>4
    <3> HIDE DEF Is
    <3> QED
      BY <2>5, <3>1, RowNumbers
  <2>7. At(q) = i
    BY <2>4, <2>5, <2>6
  <2> HIDE DEF Is
  <2> QED
    BY <2>1, <2>2, <2>7
<1> HIDE DEF key, kind
<1>4. Describe(ops, N, key, kind)
  BY <1>3 DEF Describe
<1> QED
  BY <1>2, <1>4

\* After any rows, clicks and clears the screen shows the newest rows that pass, of
\* the newest that are kept, in their order.
THEOREM NewestOnScreen ==
  ASSUME NEW N \in Nat, NEW ops, AreCalls(ops, N)
  PROVE  ShowsNewest(ops, View(ops))
<1>0. PICK key \in [Nat -> Int] : \E kind : Describe(ops, N, key, kind)
  BY Described
<1>1. PICK kind : Describe(ops, N, key, kind)
  BY <1>0
<1>2. PICK R, A, q, view : /\ R = Ahead(key) /\ A = NumbersOf(ops, Rows(ops))
                           /\ q = RowNumber(ops, N + 1) /\ view = View(ops)
  OBVIOUS
<1>3. Rows(ops) = Alive(ops, N) /\ Rows(ops) \in SUBSET {i \in 1 .. N : IsRow(ops, i)}
  BY DEF Rows, Alive, AreCalls
<1>4. PICK h : Shows(view, q, h, A, key, kind)
  BY <1>1, <1>2, <1>3, ViewShown DEF ShownAfter
<1>5. PICK B, V, s, t :
        /\ IsTop(B, A, MaxItems, R) /\ Ranks(s, B, R)
        /\ IsTop(V, Passing(B, h, kind), MaxNodes, R) /\ Ranks(t, V, R)
        /\ view = Buffer(s, V, t, q, h, key, kind)
  BY <1>2, <1>4 DEF Shows
<1>6. /\ A \in SUBSET Nat /\ B \in SUBSET Nat /\ IsFiniteSet(B) /\ V \subseteq Passing(B, h, kind)
      /\ V \in SUBSET Nat /\ IsFiniteSet(V) /\ V \subseteq B /\ Passing(B, h, kind) \in SUBSET Nat
      /\ MaxItems \in Nat /\ MaxNodes \in Nat
  <2>1. A \in SUBSET Nat
    <3>1. \A i \in Rows(ops) : i \in Nat \ {0}
      BY <1>3
    <3> QED
      BY <1>2, <3>1, RowNumbers DEF NumbersOf
  <2>2. B \subseteq A /\ IsFiniteSet(B) /\ V \subseteq Passing(B, h, kind) /\ IsFiniteSet(V)
    BY <1>5 DEF IsTop
  <2>3. Passing(B, h, kind) \subseteq B
    BY DEF Passing
  <2> QED
    BY <2>1, <2>2, <2>3, ViewAssumption
<1>7. Orders(R, A) /\ Orders(R, B) /\ Orders(R, V) /\ Orders(R, Passing(B, h, kind))
  BY <1>2, <1>6, AheadOrders
<1>8. PICK kept : kept = Newest(ops, Rows(ops), MaxItems)
  OBVIOUS
<1>9. NewestOf(kept, ops, Rows(ops), MaxItems, key)
  BY <1>1, <1>3, <1>6, <1>8, NewestRanked
<1>10. PICK e, T :
         /\ e \in Nat /\ kept \in [1 .. e -> Rows(ops)] /\ T = NumbersOf(ops, ToSet(kept))
         /\ IsTop(T, A, MaxItems, R) /\ Ranks([i \in 1 .. e |-> RowNumber(ops, kept[i])], T, R)
  BY <1>2, <1>9 DEF NewestOf
<1>11. T = B
  BY <1>5, <1>6, <1>7, <1>10, TopIsUnique
<1>12. [i \in 1 .. e |-> RowNumber(ops, kept[i])] = s
  <2>1. PICK r : r = [i \in 1 .. e |-> RowNumber(ops, kept[i])]
    OBVIOUS
  <2>2. Ranks(r, B, R)
    BY <1>10, <1>11, <2>1
  <2>3. r = s
    BY <1>5, <1>6, <1>7, <2>2, RankingIsUnique
  <2> QED
    BY <2>1, <2>3
<1>13. PICK n \in Nat : n = Cardinality(B) /\ s \in [1 .. n -> B]
  BY <1>5, <1>6, FS_CardinalityType DEF Ranks
<1>14. /\ view.nodes = t /\ view.hidden = h
       /\ view.items = [p \in 1 .. n |-> ItemOf(s[p], V, key, kind)]
  BY <1>5, <1>13 DEF Buffer, Items
<1>15. DOMAIN view.items = 1 .. n /\ \A p \in 1 .. n : view.items[p].seq = s[p] /\ (view.items[p].node <=> s[p] \in V)
  BY <1>14 DEF ItemOf
<1>16. [i \in DOMAIN view.items |-> view.items[i].seq] = [i \in DOMAIN kept |-> RowNumber(ops, kept[i])]
  <2>1. [i \in DOMAIN view.items |-> view.items[i].seq] = [i \in 1 .. n |-> s[i]]
    BY <1>15
  <2>2. [i \in 1 .. n |-> s[i]] = s
    BY <1>13
  <2>3. DOMAIN kept = 1 .. e
    BY <1>10
  <2> QED
    BY <1>12, <2>1, <2>2, <2>3
<1>17. PICK rows : rows = {i \in ToSet(kept) : ops[i].kind \notin h}
  OBVIOUS
<1>18. PICK shown : shown = Newest(ops, rows, MaxNodes)
  OBVIOUS
<1>19. ToSet(kept) \subseteq Rows(ops)
  BY <1>10 DEF ToSet
<1>20. NumbersOf(ops, rows) = Passing(B, h, kind)
  <2>1. \A i \in ToSet(kept) : kind[RowNumber(ops, i)] = ops[i].kind
    BY <1>1, <1>3, <1>19 DEF Describe
  <2> QED
    BY <1>10, <1>11, <1>17, <2>1 DEF NumbersOf, Passing
<1>21. NewestOf(shown, ops, rows, MaxNodes, key)
  <2>1. rows \in SUBSET {i \in 1 .. N : IsRow(ops, i)}
    BY <1>3, <1>17, <1>19
  <2> QED
    BY <1>1, <1>6, <1>18, <2>1, NewestRanked
<1>22. PICK d, W :
         /\ d \in Nat /\ shown \in [1 .. d -> rows]
         /\ IsTop(W, Passing(B, h, kind), MaxNodes, R)
         /\ Ranks([i \in 1 .. d |-> RowNumber(ops, shown[i])], W, R)
  BY <1>2, <1>20, <1>21 DEF NewestOf
<1>23. W = V
  BY <1>5, <1>6, <1>7, <1>22, TopIsUnique
<1>24. view.nodes = [i \in DOMAIN shown |-> RowNumber(ops, shown[i])]
  <2>1. PICK r : r = [i \in 1 .. d |-> RowNumber(ops, shown[i])]
    OBVIOUS
  <2>2. Ranks(r, V, R)
    BY <1>22, <1>23, <2>1
  <2>3. r = t
    BY <1>5, <1>6, <1>7, <2>2, RankingIsUnique
  <2>4. DOMAIN shown = 1 .. d
    BY <1>22
  <2> QED
    BY <1>14, <2>1, <2>3, <2>4
<1>25. ToSet(view.nodes) = {x.seq : x \in {y \in ToSet(view.items) : y.node}}
  <2>1. ToSet(t) = V
    BY <1>5, <1>6, <1>7, RankingSet
  <2>2. \A b \in B : \E i \in 1 .. n : s[i] = b
    BY <1>5, <1>6, <1>7, <1>13, RankingIsOnto
  <2>3. ToSet(view.items) = {view.items[p] : p \in 1 .. n}
    BY <1>15 DEF ToSet
  <2>4. {x.seq : x \in {y \in ToSet(view.items) : y.node}} = {s[p] : p \in {z \in 1 .. n : s[z] \in V}}
    <3>1. PICK items : items = view.items
      OBVIOUS
    <3>2. \A p \in 1 .. n : items[p].seq = s[p] /\ (items[p].node <=> s[p] \in V)
      BY <1>15, <3>1
    <3>3. ToSet(items) = {items[p] : p \in 1 .. n}
      BY <2>3, <3>1
    <3>4. {x.seq : x \in {y \in ToSet(items) : y.node}} \subseteq {s[p] : p \in {z \in 1 .. n : s[z] \in V}}
      BY <3>2, <3>3
    <3>5. {s[p] : p \in {z \in 1 .. n : s[z] \in V}} \subseteq {x.seq : x \in {y \in ToSet(items) : y.node}}
      BY <3>2, <3>3
    <3> QED
      BY <3>1, <3>4, <3>5
  <2>5. {s[p] : p \in {z \in 1 .. n : s[z] \in V}} = V
    BY <1>6, <2>2
  <2> QED
    BY <1>14, <2>1, <2>4, <2>5
<1> QED
  BY <1>2, <1>8, <1>14, <1>16, <1>17, <1>18, <1>24, <1>25 DEF ShowsNewest

\* The calls of an input are calls.
LEMMA ViewCalls ==
  ASSUME NEW in \in ViewInputs
  PROVE  \E N \in Nat : AreCalls(in.ops, N)
<1> DEFINE C == [do : {"row"}, k : 1 .. 2, kind : {"log", "alert"}]
                  \cup {[do |-> "toggle", k |-> 0, kind |-> "log"], [do |-> "clear", k |-> 0, kind |-> "log"]}
<1>1. \A c \in C : c.do \in {"row", "toggle", "clear"} /\ c.k \in Int
  OBVIOUS
<1>2. in.ops \in Texts(C, 0 .. 5)
  BY DEF ViewInputs
<1> HIDE DEF C
<1>3. PICK N \in 0 .. 5 : in.ops \in [1 .. N -> C]
  BY <1>2 DEF Texts
<1>4. N \in Nat /\ Len(in.ops) = N /\ DOMAIN in.ops = 1 .. N
  BY <1>3
<1>5. AreCalls(in.ops, N)
  BY <1>1, <1>3, <1>4 DEF AreCalls
<1> QED
  BY <1>4, <1>5

\* The screen of the browser is what it has to be (ScreenIsNewest), always.
THEOREM ScreenShowsNewest == Spec => []ScreenIsNewest
<1>1. IInv => ScreenIsNewest
  <2> SUFFICES ASSUME IInv, Of("view")
               PROVE  ShowsNewest(input.ops, result)
    BY DEF ScreenIsNewest
  <2>1. input \in ViewInputs
    BY InputKinds DEF IInv, Of
  <2>2. result = View(input.ops)
    BY DEF IInv, Of, Computed
  <2>3. PICK N \in Nat : AreCalls(input.ops, N)
    BY <2>1, ViewCalls
  <2> QED
    BY <2>2, <2>3, NewestOnScreen
<1> QED
  BY <1>1, Inductive, PTL
=============================================================================
