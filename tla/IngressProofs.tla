--------------------------- MODULE IngressProofs ----------------------------
(***************************************************************************)
(* Proofs about Ingress for every set of lines and every bound on the      *)
(* queue and the batch: no line is lost without a trace, an export is      *)
(* admitted as a whole, and a clean exit drains the queue.                 *)
(***************************************************************************)
EXTENDS Ingress, SetLemmas, SequenceTheorems, TLAPS

-----------------------------------------------------------------------------
(* The inductive invariant.                                                *)

\* A line is in one place: it has not arrived, a reader holds it, it waits in
\* the queue, once, or the flusher has had it.
Once ==
  /\ IsInjective(queue) /\ unsent \cap held = {}
  /\ (unsent \cup held) \cap (Queued \cup InBatch \cup stored \cup counted) = {}

\* What has become of the lines in the flusher's hands.
Hands ==
  /\ pc = "collect" => InBatch \cap (stored \cup counted) = {}
  /\ pc = "route" => InBatch \subseteq stored \cup counted
  /\ pc = "rollback" => InBatch \subseteq reported

\* The flusher ended when it had been told to, with nothing in the queue.
Drained == pc = "done" => stop /\ Queued \subseteq late

Conveyed ==
  /\ TypeOK /\ Once /\ Hands /\ Accounted /\ ExportWhole /\ Drained

-----------------------------------------------------------------------------
(* Sequences and the sets of their elements.                               *)

\* A set as a sequence: each element once.
LEMMA SetAsSeq ==
  ASSUME NEW S, IsFiniteSet(S)
  PROVE  /\ SetToSeq(S) \in Seq(S) /\ Len(SetToSeq(S)) = Cardinality(S)
         /\ IsInjective(SetToSeq(S)) /\ ToSet(SetToSeq(S)) = S
<1> DEFINE n == Cardinality(S)
           q == SetToSeq(S)
<1>1. n \in Nat /\ ExistsBijection(1 .. n, S)
  BY FS_CardinalityType
<1>2. \E f \in [1 .. n -> S] : IsInjective(f)
  BY <1>1 DEF ExistsBijection, Bijection, Injection
<1>3. q \in [1 .. n -> S] /\ IsInjective(q)
  BY <1>2 DEF SetToSeq
<1>4. IsFiniteSet(1 .. n) /\ Cardinality(1 .. n) = n
  BY <1>1, FS_Interval
<1>5. q \in Injection(1 .. n, S)
  BY <1>3 DEF Injection
<1>6. q \in Surjection(1 .. n, S)
  BY <1>4, <1>5, FS_Injection
<1> HIDE DEF q
<1>7. q \in Seq(S) /\ Len(q) = n
  BY <1>1, <1>3
<1>8. ToSet(q) = S
  BY <1>3, <1>6 DEF ToSet, Surjection
<1> QED
  BY <1>3, <1>7, <1>8 DEF q

LEMMA JoinedSet ==
  ASSUME NEW S, NEW s \in Seq(S), NEW t \in Seq(S)
  PROVE  /\ ToSet(s \o t) = ToSet(s) \cup ToSet(t)
         /\ IsInjective(s) /\ IsInjective(t) /\ ToSet(s) \cap ToSet(t) = {} => IsInjective(s \o t)
<1> DEFINE both == s \o t
           n == Len(s)
           m == Len(t)
<1>1. /\ both \in Seq(S) /\ Len(both) = n + m
      /\ \A i \in 1 .. n + m : both[i] = IF i <= n THEN s[i] ELSE t[i - n]
  BY ConcatProperties
<1>2. /\ n \in Nat /\ m \in Nat /\ DOMAIN s = 1 .. n /\ DOMAIN t = 1 .. m
      /\ DOMAIN both = 1 .. n + m
  BY <1>1, LenProperties
<1> HIDE DEF both, n, m
<1>3. \A i \in 1 .. n : i \in 1 .. n + m /\ both[i] = s[i]
  BY <1>1, <1>2
<1>4. ASSUME NEW i \in 1 .. m
      PROVE  n + i \in 1 .. n + m /\ both[n + i] = t[i]
  <2>1. n + i \in 1 .. n + m /\ ~(n + i <= n) /\ n + i - n = i
    BY <1>2
  <2> QED
    BY <1>1, <1>2, <2>1
<1>5. ASSUME NEW i \in 1 .. n + m
      PROVE  \/ i \in 1 .. n /\ both[i] = s[i]
             \/ i - n \in 1 .. m /\ both[i] = t[i - n]
  <2>1. CASE i <= n
    <3>1. i \in 1 .. n
      BY <1>2, <2>1
    <3> QED
      BY <1>3, <3>1
  <2>2. CASE ~(i <= n)
    <3>1. i - n \in 1 .. m
      BY <1>2, <2>2
    <3> QED
      BY <1>1, <2>2, <3>1
  <2> QED
    BY <2>1, <2>2
<1>6. ToSet(both) = ToSet(s) \cup ToSet(t)
  <2>1. \A x \in ToSet(s) \cup ToSet(t) : x \in ToSet(both)
    BY <1>2, <1>3, <1>4 DEF ToSet
  <2>2. \A x \in ToSet(both) : x \in ToSet(s) \cup ToSet(t)
    BY <1>2, <1>5 DEF ToSet
  <2> QED
    BY <2>1, <2>2
<1>7. ASSUME IsInjective(s), IsInjective(t), ToSet(s) \cap ToSet(t) = {},
             NEW i \in 1 .. n + m, NEW j \in 1 .. n + m, both[i] = both[j]
      PROVE  i = j
  <2>1. CASE i \in 1 .. n /\ both[i] = s[i] /\ j \in 1 .. n /\ both[j] = s[j]
    BY <1>2, <1>7, <2>1 DEF IsInjective
  <2>2. CASE i - n \in 1 .. m /\ both[i] = t[i - n] /\ j - n \in 1 .. m /\ both[j] = t[j - n]
    <3>1. i - n = j - n
      BY <1>2, <1>7, <2>2 DEF IsInjective
    <3> QED
      BY <1>2, <3>1
  <2>3. \A k \in 1 .. n, l \in 1 .. m : s[k] # t[l]
    BY <1>2, <1>7 DEF ToSet
  <2> QED
    BY <1>5, <1>7, <2>1, <2>2, <2>3
<1> QED
  BY <1>2, <1>6, <1>7 DEF both, IsInjective

LEMMA AppendedSet ==
  ASSUME NEW S, NEW s \in Seq(S), NEW e \in S
  PROVE  Append(s, e) \in Seq(S) /\ Len(Append(s, e)) = Len(s) + 1
         /\ ToSet(Append(s, e)) = ToSet(s) \cup {e}
<1> DEFINE both == Append(s, e)
           n == Len(s)
<1>1. /\ both \in Seq(S) /\ Len(both) = n + 1
      /\ \A i \in 1 .. n : both[i] = s[i]
      /\ both[n + 1] = e
  BY AppendProperties
<1>2. n \in Nat /\ DOMAIN s = 1 .. n /\ DOMAIN both = 1 .. n + 1
  BY <1>1, LenProperties
<1> HIDE DEF both, n
<1>3. \A i \in 1 .. n + 1 : i \in 1 .. n \/ i = n + 1
  BY <1>2
<1>4. n + 1 \in 1 .. n + 1 /\ \A i \in 1 .. n : i \in 1 .. n + 1
  BY <1>2
<1>5. ToSet(both) = ToSet(s) \cup {e}
  BY <1>1, <1>2, <1>3, <1>4 DEF ToSet
<1> QED
  BY <1>1, <1>5 DEF both, n

LEMMA HeadTaken ==
  ASSUME NEW S, NEW s \in Seq(S), s # <<>>
  PROVE  /\ Head(s) \in S /\ Tail(s) \in Seq(S) /\ Len(Tail(s)) <= Len(s)
         /\ ToSet(s) = ToSet(Tail(s)) \cup {Head(s)}
         /\ IsInjective(s) => IsInjective(Tail(s)) /\ Head(s) \notin ToSet(Tail(s))
<1> DEFINE n == Len(s)
           rest == Tail(s)
<1>1. /\ Head(s) \in S /\ rest \in Seq(S) /\ Len(rest) = n - 1
      /\ \A i \in 1 .. Len(rest) : rest[i] = s[i + 1]
      /\ Head(s) = s[1]
  BY HeadTailProperties
<1>2. n \in Nat /\ n # 0 /\ DOMAIN s = 1 .. n
  BY EmptySeq, LenProperties
<1>3. DOMAIN rest = 1 .. n - 1
  BY <1>1, LenProperties
<1> HIDE DEF n, rest
<1>4. \A i \in 1 .. n - 1 : i + 1 \in 1 .. n /\ i + 1 # 1 /\ rest[i] = s[i + 1]
  BY <1>1, <1>2
<1>5. 1 \in 1 .. n /\ \A i \in 1 .. n : i = 1 \/ (i - 1 \in 1 .. n - 1 /\ rest[i - 1] = s[i])
  <2>1. 1 \in 1 .. n
    BY <1>2
  <2>2. ASSUME NEW i \in 1 .. n, i # 1
        PROVE  i - 1 \in 1 .. n - 1 /\ rest[i - 1] = s[i]
    <3>1. i - 1 \in 1 .. n - 1 /\ i - 1 + 1 = i
      BY <1>2, <2>2
    <3> QED
      BY <1>4, <3>1
  <2> QED
    BY <2>1, <2>2
<1>6. ToSet(s) = ToSet(rest) \cup {Head(s)}
  <2>1. \A x \in ToSet(s) : x \in ToSet(rest) \cup {Head(s)}
    BY <1>1, <1>2, <1>3, <1>5 DEF ToSet
  <2>2. \A x \in ToSet(rest) : x \in ToSet(s)
    BY <1>2, <1>3, <1>4 DEF ToSet
  <2>3. Head(s) \in ToSet(s)
    BY <1>1, <1>2, <1>5 DEF ToSet
  <2> QED
    BY <2>1, <2>2, <2>3
<1>7. ASSUME IsInjective(s)
      PROVE  IsInjective(rest) /\ Head(s) \notin ToSet(rest)
  <2>1. \A i, j \in 1 .. n - 1 : rest[i] = rest[j] => i + 1 = j + 1
    BY <1>2, <1>4, <1>7 DEF IsInjective
  <2>2. \A i, j \in 1 .. n - 1 : i + 1 = j + 1 => i = j
    BY <1>2
  <2>3. ASSUME NEW i \in 1 .. n - 1
        PROVE  rest[i] # s[1]
    <3>1. i + 1 \in 1 .. n /\ rest[i] = s[i + 1] /\ i + 1 # 1
      BY <1>2, <1>4
    <3>2. 1 \in DOMAIN s /\ i + 1 \in DOMAIN s
      BY <1>2, <1>5, <3>1
    <3> QED
      BY <1>7, <3>1, <3>2 DEF IsInjective
  <2> QED
    BY <1>1, <1>3, <2>1, <2>2, <2>3 DEF IsInjective, ToSet
<1>8. Len(rest) <= n
  BY <1>1, <1>2
<1> QED
  BY <1>1, <1>6, <1>7, <1>8 DEF n, rest

-----------------------------------------------------------------------------
(* The listeners.                                                          *)

\* Lines that have a place in the queue get in, once each.
LEMMA EnqueueEffect ==
  ASSUME Conveyed, NEW ls \in SUBSET (unsent \cup held), Enqueue(ls),
         Len(queue) + Cardinality(ls) <= QueueMax
  PROVE  /\ queue' \in Seq(Lines) /\ Len(queue') <= QueueMax /\ IsInjective(queue')
         /\ Queued' = Queued \cup ls
         /\ late' \subseteq Lines /\ late \subseteq late' /\ (stop => ls \subseteq late')
<1> DEFINE new == SetToSeq(ls)
<1>1. ls \subseteq Lines
  BY DEF Conveyed, TypeOK, Lines
<1>2. IsFiniteSet(ls)
  BY <1>1, IngressAssumption, FS_Subset
<1>3. new \in Seq(ls) /\ Len(new) = Cardinality(ls) /\ IsInjective(new) /\ ToSet(new) = ls
  BY <1>2, SetAsSeq
<1>4. queue \in Seq(Lines) /\ new \in Seq(Lines)
  BY <1>1, <1>3, SeqMonotonic DEF Conveyed, TypeOK
<1> HIDE DEF new
<1>5. queue' = queue \o new
  BY DEF Enqueue, new
<1>6. IsInjective(queue) /\ Queued \cap ls = {}
  BY DEF Conveyed, Once
<1>7. queue' \in Seq(Lines) /\ Len(queue') = Len(queue) + Cardinality(ls)
  BY <1>3, <1>4, <1>5, ConcatProperties
<1>8. ToSet(queue') = Queued \cup ls /\ IsInjective(queue')
  BY <1>3, <1>4, <1>5, <1>6, JoinedSet DEF Queued
<1>9. late' \subseteq Lines /\ late \subseteq late' /\ (stop => ls \subseteq late')
  BY <1>1 DEF Enqueue, Conveyed, TypeOK
<1> QED
  BY <1>7, <1>8, <1>9 DEF Queued

\* A step of a listener: some lines go to the queue, and some nowhere.
LEMMA ArrivalStep ==
  ASSUME Conveyed, Rest, NEW ls \in SUBSET (unsent \cup held),
         queue' \in Seq(Lines), Len(queue') <= QueueMax, IsInjective(queue'),
         Queued' = Queued \cup ls,
         late' \subseteq Lines, late \subseteq late', stop => ls \subseteq late',
         unsent' = unsent \ ls, held' = held \ ls,
         answer' \in {"none", "ok", "full", "error"}, ExportWhole'
  PROVE  Conveyed'
<1>1. UNCHANGED <<batch, pc, open, filter, stored, counted, routed, reported, stop, closed, up,
                  edits, faults>>
  BY DEF Rest, flusher, tables, outcome, process
<1>2. InBatch' = InBatch
  BY <1>1 DEF InBatch
<1>3. TypeOK'
  BY <1>1 DEF Conveyed, TypeOK
<1>4. Once'
  BY <1>1, <1>2 DEF Conveyed, Once
<1>5. Hands'
  BY <1>1, <1>2 DEF Conveyed, Hands
<1>6. Taken' = Taken
  BY DEF Taken, Conveyed, TypeOK, Lines
<1>7. Settled'
  BY <1>1, <1>2, <1>4, <1>6 DEF Conveyed, Accounted, Settled, Once
<1>8. RoutedIsStored'
  BY <1>1, <1>2 DEF Conveyed, Accounted, RoutedIsStored
<1>9. Drained'
  BY <1>1 DEF Conveyed, Drained
<1> QED
  BY <1>3, <1>4, <1>5, <1>7, <1>8, <1>9 DEF Conveyed, Accounted

LEMMA UdpStep ==
  ASSUME Conveyed, NEW l \in Lines, UdpArrives(l)
  PROVE  Conveyed'
<1>1. /\ l \in Udp /\ l \in unsent /\ unsent' = unsent \ {l} /\ UNCHANGED <<held, answer>> /\ Rest
      /\ l \notin Otlp /\ l \notin Tcp /\ l \notin held
  BY IngressAssumption DEF UdpArrives, Conveyed, Once
<1>2. ExportWhole'
  BY <1>1 DEF Conveyed, ExportWhole
<1>3. CASE Full
  <2>1. UNCHANGED <<queue, late>>
    BY <1>3 DEF UdpArrives
  <2>2. UNCHANGED <<batch, pc, open, filter, stored, counted, routed, reported, stop, closed, up,
                    edits, faults>>
    BY <1>1 DEF Rest, flusher, tables, outcome, process
  <2>3. Queued' = Queued /\ InBatch' = InBatch
    BY <2>1, <2>2 DEF Queued, InBatch
  <2>4. TypeOK'
    BY <1>1, <2>1, <2>2 DEF Conveyed, TypeOK
  <2>5. Once' /\ Hands' /\ Drained'
    BY <1>1, <2>1, <2>2, <2>3 DEF Conveyed, Once, Hands, Drained
  <2>6. Taken' \cap (Tcp \cup Otlp) = Taken \cap (Tcp \cup Otlp)
    BY <1>1, <2>3 DEF Taken
  <2>7. Accounted'
    BY <2>2, <2>3, <2>6 DEF Conveyed, Accounted, Settled, RoutedIsStored
  <2> QED
    BY <1>2, <2>4, <2>5, <2>7 DEF Conveyed
<1>4. CASE ~Full
  <2>1. Enqueue({l})
    BY <1>4 DEF UdpArrives
  <2>2. Len(queue) + Cardinality({l}) <= QueueMax
    <3>1. Cardinality({l}) = 1
      BY FS_Singleton
    <3>2. Len(queue) \in Nat /\ QueueMax \in Nat
      BY IngressAssumption, LenProperties DEF Conveyed, TypeOK
    <3> QED
      BY <1>4, <3>1, <3>2 DEF Full
  <2>3. {l} \in SUBSET (unsent \cup held) /\ held' = held \ {l}
    BY <1>1
  <2>4. answer' \in {"none", "ok", "full", "error"}
    BY <1>1 DEF Conveyed, TypeOK
  <2>5. /\ queue' \in Seq(Lines) /\ Len(queue') <= QueueMax /\ IsInjective(queue')
        /\ Queued' = Queued \cup {l}
        /\ late' \subseteq Lines /\ late \subseteq late' /\ (stop => {l} \subseteq late')
    BY <2>1, <2>2, <2>3, EnqueueEffect
  <2> QED
    BY <1>1, <1>2, <2>3, <2>4, <2>5, ArrivalStep
<1> QED
  BY <1>3, <1>4

LEMMA TcpPutsStep ==
  ASSUME Conveyed, NEW l \in Lines, TcpPuts(l)
  PROVE  Conveyed'
<1>1. /\ l \in held /\ held' = held \ {l} /\ UNCHANGED <<unsent, answer>> /\ Rest
      /\ l \notin unsent /\ Enqueue({l}) /\ ~Full
  BY DEF TcpPuts, Conveyed, Once
<1>2. ExportWhole'
  BY <1>1 DEF Conveyed, ExportWhole
<1>3. Len(queue) + Cardinality({l}) <= QueueMax
  <2>1. Cardinality({l}) = 1
    BY FS_Singleton
  <2>2. Len(queue) \in Nat /\ QueueMax \in Nat
    BY IngressAssumption, LenProperties DEF Conveyed, TypeOK
  <2> QED
    BY <1>1, <2>1, <2>2 DEF Full
<1>4. {l} \in SUBSET (unsent \cup held) /\ unsent' = unsent \ {l}
  BY <1>1
<1>5. answer' \in {"none", "ok", "full", "error"}
  BY <1>1 DEF Conveyed, TypeOK
<1>6. /\ queue' \in Seq(Lines) /\ Len(queue') <= QueueMax /\ IsInjective(queue')
      /\ Queued' = Queued \cup {l}
      /\ late' \subseteq Lines /\ late \subseteq late' /\ (stop => {l} \subseteq late')
  BY <1>1, <1>3, <1>4, EnqueueEffect
<1> QED
  BY <1>1, <1>2, <1>4, <1>5, <1>6, ArrivalStep

LEMMA TcpReadsStep ==
  ASSUME Conveyed, NEW l \in Lines, TcpReads(l)
  PROVE  Conveyed'
<1>1. /\ l \in Tcp /\ l \in unsent /\ unsent' = unsent \ {l} /\ held' = held \cup {l}
      /\ UNCHANGED <<queue, late, answer>> /\ l \notin Otlp
  BY IngressAssumption DEF TcpReads
<1>2. UNCHANGED <<batch, pc, open, filter, stored, counted, routed, reported, stop, closed, up,
                  edits, faults>>
  BY DEF TcpReads, Rest, flusher, tables, outcome, process
<1>3. Queued' = Queued /\ InBatch' = InBatch
  BY <1>1, <1>2 DEF Queued, InBatch
<1>4. TypeOK'
  BY <1>1, <1>2 DEF Conveyed, TypeOK
<1>5. Once' /\ Hands' /\ Drained'
  BY <1>1, <1>2, <1>3 DEF Conveyed, Once, Hands, Drained
<1>6. Taken' \subseteq Taken
  BY <1>1, <1>3 DEF Taken
<1>7. Accounted'
  BY <1>2, <1>3, <1>6 DEF Conveyed, Accounted, Settled, RoutedIsStored
<1>8. ExportWhole'
  BY <1>1 DEF Conveyed, ExportWhole
<1> QED
  BY <1>4, <1>5, <1>7, <1>8 DEF Conveyed

\* The check of the free places and the puts are one step: every line of the
\* request finds its place.
LEMMA OtlpStep ==
  ASSUME Conveyed, OtlpPost
  PROVE  Conveyed'
<1>1. Otlp # {} /\ Otlp \subseteq unsent /\ UNCHANGED held /\ Rest
  BY DEF OtlpPost
<1>2. IsFiniteSet(Otlp) /\ Cardinality(Otlp) \in Nat /\ Len(queue) \in Nat /\ QueueMax \in Nat
  <2>1. IsFiniteSet(Otlp)
    BY IngressAssumption, FS_Subset DEF Lines
  <2> QED
    BY <2>1, IngressAssumption, FS_CardinalityType, LenProperties DEF Conveyed, TypeOK
<1>3. CASE Fits(Otlp)
  <2>1. PICK put \in SUBSET Otlp :
          /\ Cardinality(put) = Min({Cardinality(Otlp), QueueMax - Len(queue)})
          /\ Enqueue(put) /\ unsent' = unsent \ put
          /\ answer' = IF put = Otlp THEN "ok" ELSE "error"
    BY <1>3 DEF OtlpPost
  <2>2. Cardinality(put) = Cardinality(Otlp)
    <3> DEFINE c == Cardinality(Otlp)
               free == QueueMax - Len(queue)
    <3>1. c \in Int /\ free \in Int /\ c <= free
      BY <1>2, <1>3 DEF Fits
    <3> HIDE DEF c, free
    <3>2. Min({c, free}) = c
      BY <3>1 DEF Min
    <3> QED
      BY <2>1, <3>2 DEF c, free
  <2>3. put = Otlp
    BY <1>2, <2>2, FS_Subset
  <2>4. Otlp \in SUBSET (unsent \cup held) /\ held' = held \ Otlp
    BY <1>1 DEF Conveyed, Once
  <2>5. Len(queue) + Cardinality(Otlp) <= QueueMax
    BY <1>3 DEF Fits
  <2>6. Enqueue(Otlp) /\ unsent' = unsent \ Otlp /\ answer' = "ok"
    BY <2>1, <2>3
  <2>7. /\ queue' \in Seq(Lines) /\ Len(queue') <= QueueMax /\ IsInjective(queue')
        /\ Queued' = Queued \cup Otlp
        /\ late' \subseteq Lines /\ late \subseteq late' /\ (stop => Otlp \subseteq late')
    BY <2>4, <2>5, <2>6, EnqueueEffect
  <2>8. ExportWhole'
    BY <2>6 DEF ExportWhole
  <2> QED
    BY <1>1, <2>4, <2>6, <2>7, <2>8, ArrivalStep
<1>4. CASE ~Fits(Otlp)
  <2>1. answer' = "full" /\ UNCHANGED <<queue, late, unsent>>
    BY <1>4 DEF OtlpPost
  <2>2. /\ {} \in SUBSET (unsent \cup held) /\ Queued' = Queued \cup {}
        /\ unsent' = unsent \ {} /\ held' = held \ {}
    BY <1>1, <2>1 DEF Queued
  <2>3. queue' \in Seq(Lines) /\ Len(queue') <= QueueMax /\ IsInjective(queue')
    BY <2>1 DEF Conveyed, TypeOK, Once
  <2>4. late' \subseteq Lines /\ late \subseteq late'
    BY <2>1 DEF Conveyed, TypeOK
  <2>5. ExportWhole'
    BY <1>1, <2>1 DEF ExportWhole
  <2> QED
    BY <1>1, <2>1, <2>2, <2>3, <2>4, <2>5, ArrivalStep
<1> QED
  BY <1>3, <1>4

LEMMA RetryStep ==
  ASSUME Conveyed, OtlpRetry
  PROVE  Conveyed'
<1>1. answer = "full" /\ answer' = "none" /\ UNCHANGED <<unsent, held, queue, late>> /\ Rest
  BY DEF OtlpRetry
<1>2. /\ {} \in SUBSET (unsent \cup held) /\ Queued' = Queued \cup {}
      /\ unsent' = unsent \ {} /\ held' = held \ {}
  BY <1>1 DEF Queued
<1>3. /\ queue' \in Seq(Lines) /\ Len(queue') <= QueueMax /\ IsInjective(queue')
      /\ late' \subseteq Lines /\ late \subseteq late'
  BY <1>1 DEF Conveyed, TypeOK, Once
<1>4. ExportWhole'
  BY <1>1 DEF Conveyed, ExportWhole
<1> QED
  BY <1>1, <1>2, <1>3, <1>4, ArrivalStep

-----------------------------------------------------------------------------
(* The flusher.                                                            *)

\* A line goes from the queue to the flusher's hands.
LEMMA TakeStep ==
  ASSUME Conveyed, Take \/ TakeFails
  PROVE  Conveyed'
<1> DEFINE h == Head(queue)
<1>1. /\ pc = "collect" /\ queue # <<>> /\ More
      /\ batch' = Append(batch, h) /\ queue' = Tail(queue) /\ pc' \in {"collect", "dead"}
      /\ UNCHANGED <<unsent, held, answer, late, open, filter, stored, counted, routed, reported,
                     stop, closed, up, edits>>
      /\ faults' = faults \/ Fault
  BY DEF Take, TakeFails, arrivals, tables, outcome, process
<1>2. queue \in Seq(Lines) /\ batch \in Seq(Lines) /\ IsInjective(queue)
  BY DEF Conveyed, TypeOK, Once
<1>3. /\ h \in Lines /\ Tail(queue) \in Seq(Lines) /\ Len(Tail(queue)) <= Len(queue)
      /\ Queued = ToSet(Tail(queue)) \cup {h}
      /\ IsInjective(Tail(queue)) /\ h \notin ToSet(Tail(queue))
  BY <1>1, <1>2, HeadTaken DEF Queued
<1> HIDE DEF h
<1>4. batch' \in Seq(Lines) /\ Len(batch') = Len(batch) + 1 /\ InBatch' = InBatch \cup {h}
  BY <1>1, <1>2, <1>3, AppendedSet DEF InBatch
<1>5. /\ queue' \in Seq(Lines) /\ IsInjective(queue')
      /\ Queued' = Queued \ {h} /\ h \in Queued
  BY <1>1, <1>3 DEF Queued
<1>6. Len(queue') <= QueueMax /\ Len(batch') <= BatchMax
  <2>1. /\ Len(queue) \in Nat /\ Len(queue') \in Nat /\ Len(batch) \in Nat
        /\ QueueMax \in Nat /\ BatchMax \in Nat
    BY <1>2, <1>5, IngressAssumption, LenProperties
  <2>2. Len(queue) <= QueueMax /\ Len(batch) < BatchMax
    BY <1>1 DEF More, Conveyed, TypeOK
  <2>3. Len(queue') <= Len(queue)
    BY <1>1, <1>3
  <2> QED
    BY <1>4, <2>1, <2>2, <2>3
<1>7. faults' \in 0 .. MaxFaults
  BY <1>1, IngressAssumption DEF Fault, Conveyed, TypeOK
<1>8. TypeOK'
  BY <1>1, <1>4, <1>5, <1>6, <1>7 DEF Conveyed, TypeOK
<1>9. Once'
  BY <1>1, <1>4, <1>5 DEF Conveyed, Once
<1>10. h \notin stored /\ h \notin counted /\ h \notin InBatch
  BY <1>5 DEF Conveyed, Accounted, Settled
<1>11. Hands'
  BY <1>1, <1>4, <1>10 DEF Conveyed, Hands
<1>12. Taken' = Taken \cup {h}
  BY <1>1, <1>3, <1>5 DEF Taken, Conveyed, Once
<1>13. Settled'
  BY <1>1, <1>4, <1>5, <1>10, <1>12 DEF Conveyed, Accounted, Settled
<1>14. RoutedIsStored'
  BY <1>1, <1>4 DEF Conveyed, Accounted, RoutedIsStored
<1>15. ExportWhole' /\ Drained'
  BY <1>1 DEF Conveyed, ExportWhole, Drained
<1> QED
  BY <1>8, <1>9, <1>11, <1>13, <1>14, <1>15 DEF Conveyed, Accounted

\* What the other steps of the flusher leave alone.
Still ==
  /\ UNCHANGED <<unsent, held, answer, late, queue, filter, stop, closed, up, edits>>
  /\ open' \in BOOLEAN /\ (faults' = faults \/ Fault)
  /\ batch' \in {batch, <<>>}

LEMMA StillKeeps ==
  ASSUME Conveyed, Still
  PROVE  /\ Queued' = Queued /\ Taken' = Taken /\ faults' \in 0 .. MaxFaults
         /\ InBatch' \in {InBatch, {}}
         /\ batch' \in Seq(Lines) /\ Len(batch') <= BatchMax
         /\ ExportWhole'
         /\ InBatch \subseteq Lines
<1>1. Queued' = Queued /\ Taken' = Taken
  BY DEF Still, Queued, Taken
<1>2. faults' \in 0 .. MaxFaults
  BY IngressAssumption DEF Still, Fault, Conveyed, TypeOK
<1>3. <<>> \in Seq(Lines) /\ Len(<<>>) = 0 /\ ToSet(<<>>) = {}
  BY EmptySeq DEF ToSet
<1>4. InBatch' \in {InBatch, {}}
  BY <1>3 DEF Still, InBatch
<1>5. batch' \in Seq(Lines) /\ Len(batch') <= BatchMax
  <2>1. CASE batch' = batch
    BY <2>1 DEF Conveyed, TypeOK
  <2>2. CASE batch' = <<>>
    BY <1>3, <2>2, IngressAssumption
  <2> QED
    BY <2>1, <2>2 DEF Still
<1>6. ExportWhole'
  BY DEF Still, Conveyed, ExportWhole
<1>7. InBatch \subseteq Lines
  <2>1. batch \in Seq(Lines)
    BY DEF Conveyed, TypeOK
  <2>2. \A i \in DOMAIN batch : batch[i] \in Lines
    BY <2>1, LenProperties, ElementOfSeq
  <2> QED
    BY <2>2 DEF InBatch, ToSet
<1> QED
  BY <1>1, <1>2, <1>4, <1>5, <1>6, <1>7

\* The transaction: what is accepted is stored, the rest of the batch counted.
LEMMA FlushStep ==
  ASSUME Conveyed, Flush
  PROVE  Conveyed'
<1>1. /\ pc = "collect" /\ pc' = "route" /\ batch' = batch
      /\ stored' = stored \cup Accepted /\ counted' = counted \cup (InBatch \ Accepted)
      /\ UNCHANGED <<routed, reported>> /\ Still
  BY DEF Flush, Store, Still, arrivals, outcome, process, Conveyed, TypeOK
<1>2. Accepted \subseteq InBatch
  BY DEF Accepted
<1>3. InBatch' = InBatch /\ UNCHANGED <<unsent, held, queue, stop, late>>
  BY <1>1 DEF InBatch, Still
<1>4. /\ Queued' = Queued /\ Taken' = Taken /\ faults' \in 0 .. MaxFaults
      /\ batch' \in Seq(Lines) /\ Len(batch') <= BatchMax
      /\ ExportWhole' /\ InBatch \subseteq Lines
  BY <1>1, StillKeeps
<1> HIDE DEF Accepted
<1>5. InBatch \cap (stored \cup counted) = {}
  BY <1>1 DEF Conveyed, Hands
<1>6. TypeOK'
  BY <1>1, <1>2, <1>4 DEF Conveyed, TypeOK, Still
<1>7. Once'
  BY <1>1, <1>2, <1>3, <1>4 DEF Conveyed, Once
<1>8. Hands'
  BY <1>1, <1>3 DEF Hands
<1>9. Settled'
  BY <1>1, <1>2, <1>3, <1>4, <1>5 DEF Conveyed, Accounted, Settled
<1>10. RoutedIsStored'
  BY <1>1, <1>2, <1>3 DEF Conveyed, Accounted, RoutedIsStored
<1>11. Drained'
  BY <1>1 DEF Drained
<1> QED
  BY <1>4, <1>6, <1>7, <1>8, <1>9, <1>10, <1>11 DEF Conveyed, Accounted

\* The batch leaves the flusher's hands when the rules have seen it, or when the
\* log has said that it is lost.
LEMMA HandOverStep ==
  ASSUME Conveyed, Route \/ FlushFails \/ AnswerLost \/ Rollback \/ End
  PROVE  Conveyed'
<1>1. /\ UNCHANGED <<stored, counted>> /\ Still
      /\ \/ /\ pc = "route" /\ pc' = "collect" /\ batch' = <<>>
            /\ routed' = routed \cup (InBatch \cap stored) /\ reported' = reported
         \/ /\ pc \in {"collect", "route"} /\ pc' = "rollback" /\ batch' = batch
            /\ routed' = routed /\ reported' = reported \cup InBatch
         \/ /\ pc = "rollback" /\ pc' \in {"collect", "dead"} /\ batch' = <<>>
            /\ routed' = routed /\ reported' = reported
         \/ /\ pc = "collect" /\ pc' = "done" /\ batch' = batch /\ stop /\ queue = <<>>
            /\ routed' = routed /\ reported' = reported
  BY DEF Route, Routes, FlushFails, AnswerLost, Rollback, End, MayEnd, Still,
         arrivals, tables, outcome, process, Conveyed, TypeOK
<1>2. /\ Queued' = Queued /\ Taken' = Taken /\ faults' \in 0 .. MaxFaults
      /\ batch' \in Seq(Lines) /\ Len(batch') <= BatchMax
      /\ ExportWhole' /\ InBatch \subseteq Lines /\ InBatch' \in {InBatch, {}}
  BY <1>1, StillKeeps
<1>3. /\ batch' = batch => InBatch' = InBatch
      /\ batch' = <<>> => InBatch' = {}
  BY DEF InBatch, ToSet
<1>4. UNCHANGED <<unsent, held, queue, stop, late>>
  BY <1>1 DEF Still
<1>5. TypeOK'
  BY <1>1, <1>2 DEF Conveyed, TypeOK, Still
<1>6. Once'
  BY <1>1, <1>2, <1>4 DEF Conveyed, Once
<1>7. Hands'
  BY <1>1, <1>3 DEF Conveyed, Hands
<1>8. Settled'
  BY <1>1, <1>2, <1>3 DEF Conveyed, Accounted, Settled, Hands
<1>9. RoutedIsStored'
  BY <1>1, <1>3 DEF Conveyed, Accounted, RoutedIsStored, Hands
<1>10. Drained'
  <2>1. queue = <<>> => Queued = {}
    BY DEF Queued, ToSet
  <2> QED
    BY <1>1, <1>2, <1>4, <2>1 DEF Drained
<1> QED
  BY <1>2, <1>5, <1>6, <1>7, <1>8, <1>9, <1>10 DEF Conveyed, Accounted

-----------------------------------------------------------------------------
(* The theorems.                                                           *)

LEMMA ProcessStep ==
  ASSUME Conveyed,
         EditFilter \/ Signal \/ CloseListeners \/ Exit \/ Crash \/ UNCHANGED vars
  PROVE  Conveyed'
<1>0. /\ filter \in BOOLEAN /\ stop \in BOOLEAN /\ closed \in BOOLEAN
      /\ up \in {"running", "exited", "crashed"}
  BY DEF Conveyed, TypeOK
<1>1. /\ UNCHANGED <<unsent, held, answer, late, queue, batch, pc, open, stored, counted,
                     routed, reported>>
      /\ filter' \in BOOLEAN /\ stop' \in BOOLEAN /\ closed' \in BOOLEAN
      /\ up' \in {"running", "exited", "crashed"} /\ (stop => stop')
      /\ edits' = edits \/ (edits < MaxEdits /\ edits' = edits + 1)
      /\ faults' = faults \/ Fault
  BY <1>0
     DEF EditFilter, Signal, CloseListeners, Exit, Crash, vars, arrivals, flusher, tables,
         outcome, process
<1>2. edits' \in 0 .. MaxEdits /\ faults' \in 0 .. MaxFaults
  BY <1>1, IngressAssumption DEF Fault, Conveyed, TypeOK
<1>3. Queued' = Queued /\ InBatch' = InBatch /\ Taken' = Taken
  BY <1>1 DEF Queued, InBatch, Taken
<1>4. TypeOK'
  BY <1>1, <1>2 DEF Conveyed, TypeOK
<1>5. Once' /\ Hands' /\ ExportWhole' /\ Drained'
  BY <1>1, <1>3 DEF Conveyed, Once, Hands, ExportWhole, Drained
<1>6. Accounted'
  BY <1>1, <1>3 DEF Conveyed, Accounted, Settled, RoutedIsStored
<1> QED
  BY <1>4, <1>5, <1>6 DEF Conveyed

LEMMA ConveyedInit == Init => Conveyed
<1> SUFFICES ASSUME Init
             PROVE  Conveyed
  OBVIOUS
<1> USE DEF Init
<1>1. <<>> \in Seq(Lines) /\ Len(<<>>) = 0
  BY EmptySeq
<1>2. Queued = {} /\ InBatch = {} /\ IsInjective(queue)
  BY DEF Queued, InBatch, ToSet, IsInjective
<1>3. 0 <= QueueMax /\ 0 <= BatchMax /\ 0 \in 0 .. MaxEdits /\ 0 \in 0 .. MaxFaults
  BY IngressAssumption
<1>4. TypeOK
  BY <1>1, <1>3 DEF TypeOK
<1>5. Once /\ Hands /\ Drained
  BY <1>2 DEF Once, Hands, Drained
<1>6. Accounted
  BY <1>2 DEF Accounted, Settled, RoutedIsStored, Taken
<1>7. ExportWhole
  BY DEF ExportWhole, Lines
<1> QED
  BY <1>4, <1>5, <1>6, <1>7 DEF Conveyed

LEMMA ConveyedStep == Conveyed /\ [Next]_vars => Conveyed'
BY UdpStep, TcpReadsStep, TcpPutsStep, OtlpStep, RetryStep, TakeStep, FlushStep, HandOverStep,
   ProcessStep DEF Next, Flusher

LEMMA ConveyedAlways == Spec => []Conveyed
<1>1. Init => Conveyed
  BY ConveyedInit
<1>2. Conveyed /\ [Next]_vars => Conveyed'
  BY ConveyedStep
<1> QED
  BY <1>1, <1>2, PTL DEF Spec

\* Every variable keeps its type; the queue and the batch keep their bounds.
THEOREM TypeCorrect == Spec => []TypeOK
<1>1. Conveyed => TypeOK
  BY DEF Conveyed
<1> QED
  BY <1>1, ConveyedAlways, PTL

\* No line that was let in disappears without a trace, and no rule sees a line
\* that is not stored: between the listeners, flush and router.consider.
THEOREM LinesAccounted == Spec => []Accounted
<1>1. Conveyed => Accounted
  BY DEF Conveyed
<1> QED
  BY <1>1, ConveyedAlways, PTL

\* export_logs admits a request as a whole or not at all.
THEOREM ExportsWhole == Spec => []ExportWhole
<1>1. Conveyed => ExportWhole
  BY DEF Conveyed
<1> QED
  BY <1>1, ConveyedAlways, PTL

\* When the flusher has ended in order, only lines that came after the signal are
\* left in the queue.
THEOREM StopHolds == Spec => []StopDrains
<1>1. Conveyed => StopDrains
  BY DEF Conveyed, Drained, StopDrains
<1> QED
  BY <1>1, ConveyedAlways, PTL
=============================================================================
