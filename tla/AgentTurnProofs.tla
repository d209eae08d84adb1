-------------------------- MODULE AgentTurnProofs --------------------------
(***************************************************************************)
(* Proofs about AgentTurn, for any number of agents, turns, deltas and     *)
(* barge-ins.  One inductive invariant carries them: Typed, what the       *)
(* arbiter's fields say about who won which turn (Settled), that whoever   *)
(* is about to be spoken has won (Entitled), whose text it is (Owned),     *)
(* that a turn a barge-in has reset gets no new decision (Shut), and where *)
(* the pieces of a text are on their way through the buffer (Ordered).     *)
(***************************************************************************)
EXTENDS AgentTurn, FiniteSetTheorems, SequenceTheorems, TLAPS

USE DEF NoLocals

\* The handler has decided in favour of its agent and has not spoken yet.
Speaking == subPc \in {"losers", "speak", "flush", "speakRest"}

\* The types without the flag, which the arithmetic steps cannot digest.
Typed == ArbiterTypes /\ BufferTypes /\ SubTypes /\ SttTypes /\ AnswerTypes /\ HistoryTypes

-----------------------------------------------------------------------------
(* The sentence buffer *)

\* Positions in a text are finitely many.
LEMMA PositionsFinite ==
    ASSUME NEW n \in Nat, NEW S, S \subseteq 1..n
    PROVE  IsFiniteSet(S) /\ Cardinality(S) \in Nat
<1>1. IsFiniteSet(1..n)
    BY FS_Interval
<1>2. IsFiniteSet(S)
    BY <1>1, FS_Subset
<1>3. QED
    BY <1>2, FS_CardinalityType

\* The sentences a text completes are finitely many.
LEMMA CompleteIsNatural ==
    ASSUME NEW b \in Seq(Pieces)
    PROVE  Complete(b) \in Nat
<1> DEFINE S == {i \in DOMAIN b : b[i].ends}
<1>1. S \subseteq 1..Len(b) /\ Len(b) \in Nat
    OBVIOUS
<1> HIDE DEF S
<1>2. Cardinality(S) \in Nat
    BY <1>1, PositionsFinite
<1>3. QED
    BY <1>2 DEF Complete, S

\* The first sentences of a text take up a natural number of pieces.
LEMMA EndIsNatural ==
    ASSUME NEW b \in Seq(Pieces), NEW k \in Nat
    PROVE  EndOf(b, k) \in Nat
<1> DEFINE S == {i \in DOMAIN b : Cardinality({j \in 1..(i - 1) : b[j].ends}) < k}
<1>1. S \subseteq 1..Len(b) /\ Len(b) \in Nat
    OBVIOUS
<1> HIDE DEF S
<1>2. Cardinality(S) \in Nat
    BY <1>1, PositionsFinite
<1>3. QED
    BY <1>2 DEF EndOf, S

\* The first k sentences of a text lie within it.
LEMMA EndWithin ==
    ASSUME NEW b \in Seq(Pieces), NEW k \in Nat
    PROVE  EndOf(b, k) <= Len(b)
<1> DEFINE S == {i \in DOMAIN b : Cardinality({j \in 1..(i - 1) : b[j].ends}) < k}
<1>1. S \subseteq 1..Len(b) /\ Len(b) \in Nat
    OBVIOUS
<1> HIDE DEF S
<1>2. IsFiniteSet(1..Len(b)) /\ Cardinality(1..Len(b)) = Len(b)
    BY <1>1, FS_Interval
<1>3. Cardinality(S) <= Len(b)
    BY <1>1, <1>2, FS_Subset
<1> QED
    BY <1>3 DEF EndOf, S

\* They are the pieces with fewer than k ends before them, which are an initial
\* part of the text.
LEMMA EndSplits ==
    ASSUME NEW b \in Seq(Pieces), NEW k \in Nat, NEW i \in 1..Len(b)
    PROVE  i <= EndOf(b, k) <=> Cardinality({j \in 1..(i - 1) : b[j].ends}) < k
<1> DEFINE before(m) == {j \in 1..(m - 1) : b[j].ends}
           S == {m \in DOMAIN b : Cardinality(before(m)) < k}
<1>1. DOMAIN b = 1..Len(b) /\ Len(b) \in Nat
    OBVIOUS
<1>2. S \subseteq 1..Len(b)
    BY <1>1
<1>3. IsFiniteSet(S) /\ Cardinality(S) \in Nat
  <2> HIDE DEF S
  <2> QED
    BY <1>1, <1>2, PositionsFinite
<1>4. CASE i \in S
  <2>1. ASSUME NEW m \in 1..i PROVE m \in S
    <3>1. before(m) \subseteq before(i)
      <4>1. \A j \in 1..(m - 1) : j \in 1..(i - 1)
          OBVIOUS
      <4> QED
          BY <4>1
    <3>2. IsFiniteSet(before(i)) /\ Cardinality(before(i)) \in Nat
      <4>1. before(i) \subseteq 1..i
          OBVIOUS
      <4> HIDE DEF before
      <4> QED
          BY <4>1, PositionsFinite
    <3>3. Cardinality(before(m)) <= Cardinality(before(i)) /\ Cardinality(before(m)) \in Nat
      <4> HIDE DEF before
      <4> QED
        BY <3>1, <3>2, FS_Subset, FS_CardinalityType
    <3>4. m \in 1..Len(b) /\ Cardinality(before(i)) < k
        BY <1>1, <1>4
    <3>5. Cardinality(before(m)) < k
      <4> HIDE DEF before
      <4> QED
        BY <3>2, <3>3, <3>4
    <3> QED
        BY <1>1, <3>4, <3>5
  <2>2. 1..i \subseteq S
      BY <2>1
  <2>3. Cardinality(1..i) = i /\ IsFiniteSet(1..i)
      BY FS_Interval
  <2>4. i <= Cardinality(S)
    <3> HIDE DEF S
    <3> QED
      BY <1>3, <2>2, <2>3, FS_Subset
  <2> QED
      BY <1>4, <2>4 DEF EndOf
<1>5. CASE i \notin S
  <2>1. ASSUME NEW m \in S PROVE m \in 1..(i - 1)
    <3>1. m \in 1..Len(b) /\ Cardinality(before(m)) < k /\ ~(Cardinality(before(i)) < k)
        BY <1>1, <1>5
    <3>2. CASE m >= i
      <4>1. before(i) \subseteq before(m)
        <5>1. \A j \in 1..(i - 1) : j \in 1..(m - 1)
            BY <3>1, <3>2
        <5> QED
            BY <5>1
      <4>2. IsFiniteSet(before(m)) /\ Cardinality(before(m)) \in Nat
        <5>1. before(m) \subseteq 1..m /\ m \in Nat
            BY <3>1
        <5> HIDE DEF before
        <5> QED
            BY <5>1, PositionsFinite
      <4> HIDE DEF before
      <4>3. Cardinality(before(i)) <= Cardinality(before(m)) /\ Cardinality(before(i)) \in Nat
          BY <4>1, <4>2, FS_Subset, FS_CardinalityType
      <4> QED
          BY <3>1, <4>2, <4>3
    <3> QED
        BY <3>1, <3>2
  <2>2. S \subseteq 1..(i - 1) /\ i - 1 \in Nat
      BY <2>1
  <2>3. Cardinality(1..(i - 1)) = i - 1 /\ IsFiniteSet(1..(i - 1))
      BY <2>2, FS_Interval
  <2>4. Cardinality(S) <= i - 1
    <3> HIDE DEF S
    <3> QED
      BY <2>2, <2>3, FS_Subset
  <2>5. ~(i <= Cardinality(S))
    <3> HIDE DEF S
    <3> QED
      BY <1>3, <2>4
  <2> QED
      BY <1>1, <1>5, <2>5 DEF EndOf
<1> QED
    BY <1>4, <1>5

\* The ends before a position are finitely many.
LEMMA EndsBeforeFinite ==
    ASSUME NEW b, NEW i \in Nat
    PROVE  LET before == {j \in 1..(i - 1) : b[j].ends}
           IN  IsFiniteSet(before) /\ Cardinality(before) \in Nat
<1> DEFINE before == {j \in 1..(i - 1) : b[j].ends}
<1>1. before \subseteq 1..i
    OBVIOUS
<1> HIDE DEF before
<1>2. IsFiniteSet(before) /\ Cardinality(before) \in Nat
    BY <1>1, PositionsFinite
<1> QED
    BY <1>2 DEF before

\* The first k sentences do not end earlier when the text is longer and none of
\* them was split, ...
LEMMA EndGrows ==
    ASSUME NEW b \in Seq(Pieces), NEW c \in Seq(Pieces), NEW k \in Nat, Len(b) <= Len(c),
           \A i \in 1..EndOf(b, k) : c[i].ends => b[i].ends
    PROVE  EndOf(b, k) <= EndOf(c, k)
<1> DEFINE n == EndOf(b, k)
           before(d) == {j \in 1..(n - 1) : d[j].ends}
<1>1. n \in Nat /\ n <= Len(b) /\ Len(b) \in Nat /\ Len(c) \in Nat /\ EndOf(c, k) \in Nat
  <2>1. EndOf(b, k) \in Nat /\ EndOf(c, k) \in Nat /\ EndOf(b, k) <= Len(b)
      BY EndIsNatural, EndWithin, Zenon
  <2>2. Len(b) \in Nat /\ Len(c) \in Nat
      OBVIOUS
  <2> QED
      BY <2>1, <2>2
<1>2. CASE n = 0
    BY <1>1, <1>2
<1>3. CASE n # 0
  <2>1. n \in 1..Len(b) /\ n \in 1..Len(c) /\ n <= EndOf(b, k)
      BY <1>1, <1>3
  <2>2. Cardinality(before(b)) < k
      BY <2>1, EndSplits
  <2>3. before(c) \subseteq before(b)
    <3>1. \A j \in 1..(n - 1) : j \in 1..EndOf(b, k)
        BY <1>1
    <3> QED
        BY <3>1
  <2>4. IsFiniteSet(before(b)) /\ Cardinality(before(b)) \in Nat
      BY <1>1, EndsBeforeFinite
  <2>5. Cardinality(before(c)) < k
    <3> HIDE DEF before
    <3>1. Cardinality(before(c)) <= Cardinality(before(b)) /\ Cardinality(before(c)) \in Nat
        BY <2>3, <2>4, FS_Subset, FS_CardinalityType
    <3> QED
        BY <2>2, <2>4, <3>1
  <2> QED
      BY <2>1, <2>5, EndSplits
<1> QED
    BY <1>2, <1>3

\* ... more sentences do not end earlier, ...
LEMMA MoreEndLater ==
    ASSUME NEW b \in Seq(Pieces), NEW k \in Nat, NEW l \in Nat, k <= l
    PROVE  EndOf(b, k) <= EndOf(b, l)
<1> DEFINE n == EndOf(b, k)
           before == {j \in 1..(n - 1) : b[j].ends}
<1>1. n \in Nat /\ n <= Len(b) /\ Len(b) \in Nat /\ EndOf(b, l) \in Nat
    BY EndIsNatural, EndWithin
<1>2. CASE n = 0
    BY <1>1, <1>2
<1>3. CASE n # 0
  <2>1. n \in 1..Len(b) /\ n <= EndOf(b, k)
      BY <1>1, <1>3
  <2>2. Cardinality(before) < k
      BY <2>1, EndSplits
  <2>3. Cardinality(before) \in Nat
      BY <1>1, EndsBeforeFinite
  <2>4. Cardinality(before) < l
    <3> HIDE DEF before
    <3> QED
      BY <2>2, <2>3
  <2> QED
      BY <2>1, <2>4, EndSplits
<1> QED
    BY <1>2, <1>3

\* ... and every end of a sentence is within the complete ones.
LEMMA EndsAreComplete ==
    ASSUME NEW b \in Seq(Pieces), NEW k \in Nat, Complete(b) <= k,
           NEW i \in 1..Len(b), b[i].ends
    PROVE  i <= EndOf(b, k)
<1> DEFINE C == {j \in DOMAIN b : b[j].ends}
           before == {j \in 1..(i - 1) : b[j].ends}
<1>1. DOMAIN b = 1..Len(b) /\ Len(b) \in Nat /\ C \subseteq 1..Len(b)
    OBVIOUS
<1>2. before \subseteq C /\ i \in C /\ i \notin before
  <2>1. \A j \in 1..(i - 1) : j \in DOMAIN b /\ j # i
      BY <1>1
  <2> QED
      BY <1>1, <2>1
<1>3. Cardinality(C) <= k
    BY DEF Complete
<1> HIDE DEF C
<1>4. IsFiniteSet(C) /\ Cardinality(C) \in Nat
    BY <1>1, PositionsFinite
<1>5. Cardinality(before) < k
  <2> HIDE DEF before
  <2>1. /\ IsFiniteSet(before) /\ Cardinality(before) <= Cardinality(C)
        /\ (Cardinality(C) = Cardinality(before) => C = before)
      BY <1>2, <1>4, FS_Subset
  <2>2. Cardinality(before) \in Nat
      BY <2>1, FS_CardinalityType
  <2> QED
      BY <1>2, <1>3, <1>4, <2>1, <2>2
<1> QED
    BY <1>5, EndSplits

\* A part of a text.
LEMMA PartOfText ==
    ASSUME NEW b \in Seq(Pieces), NEW m \in Nat, NEW l \in Nat, l <= Len(b)
    PROVE  /\ SubSeq(b, m + 1, l) \in Seq(Pieces)
           /\ \A i \in 1..Len(SubSeq(b, m + 1, l)) :
                m + i \in 1..l /\ SubSeq(b, m + 1, l)[i] = b[m + i]
<1> DEFINE c == SubSeq(b, m + 1, l)
<1>1. m + 1 \in Int /\ l \in Int /\ \A i \in (m + 1)..l : b[i] \in Pieces
    OBVIOUS
<1>2. /\ c \in Seq(Pieces)
      /\ Len(c) = IF m + 1 <= l THEN l - (m + 1) + 1 ELSE 0
      /\ \A i \in 1..(l - (m + 1) + 1) : c[i] = b[(m + 1) + i - 1]
    BY <1>1, SubSeqProperties
<1> HIDE DEF c
<1>3. ASSUME NEW i \in 1..Len(c) PROVE m + i \in 1..l /\ c[i] = b[m + i]
  <2>1. i \in 1..(l - (m + 1) + 1) /\ (m + 1) + i - 1 = m + i /\ m + i \in 1..l
      BY <1>2
  <2> QED
      BY <1>2, <2>1
<1> QED
    BY <1>2, <1>3 DEF c

\* What is left behind k sentences.
LEMMA BehindPieces ==
    ASSUME NEW b \in Seq(Pieces), NEW k \in Nat
    PROVE  /\ Behind(b, k) \in Seq(Pieces)
           /\ \A i \in 1..Len(Behind(b, k)) :
                EndOf(b, k) + i \in 1..Len(b) /\ Behind(b, k)[i] = b[EndOf(b, k) + i]
<1>1. EndOf(b, k) \in Nat /\ Len(b) \in Nat /\ Len(b) <= Len(b)
  <2>1. EndOf(b, k) \in Nat
      BY EndIsNatural
  <2>2. Len(b) \in Nat
      OBVIOUS
  <2> QED
      BY <2>1, <2>2
<1> QED
    BY <1>1, PartOfText DEF Behind

\* What an Add hands out.
LEMMA NewPieces ==
    ASSUME NEW b \in Seq(Pieces), emitted \in Nat
    PROVE  /\ NewComplete(b) \in Seq(Pieces)
           /\ \A i \in 1..Len(NewComplete(b)) :
                /\ EndOf(b, emitted) + i \in 1..EndOf(b, Complete(b))
                /\ EndOf(b, emitted) + i \in 1..Len(b)
                /\ NewComplete(b)[i] = b[EndOf(b, emitted) + i]
<1>1. Complete(b) \in Nat
    BY CompleteIsNatural
<1>2. /\ EndOf(b, emitted) \in Nat /\ EndOf(b, Complete(b)) \in Nat
      /\ EndOf(b, Complete(b)) <= Len(b) /\ Len(b) \in Nat
    BY <1>1, EndIsNatural, EndWithin
<1>3. /\ NewComplete(b) \in Seq(Pieces)
      /\ \A i \in 1..Len(NewComplete(b)) :
           /\ EndOf(b, emitted) + i \in 1..EndOf(b, Complete(b))
           /\ NewComplete(b)[i] = b[EndOf(b, emitted) + i]
    BY <1>2, PartOfText DEF NewComplete
<1>4. \A j \in 1..EndOf(b, Complete(b)) : j \in 1..Len(b)
    BY <1>2
<1> QED
    BY <1>3, <1>4

\* The buffer with one more piece, segmented anew.
LEMMA AddedPieces ==
    ASSUME buffer \in Seq(Pieces), deltas \in Nat, deltas < MaxDeltas, NEW a \in Agents,
           NEW ends \in Segmentations
    PROVE  /\ Added(a, ends) \in Seq(Pieces) /\ Len(Added(a, ends)) = Len(buffer) + 1
           /\ \A i \in 1..Len(buffer) :
                /\ Added(a, ends)[i].no = buffer[i].no
                /\ Added(a, ends)[i].by = buffer[i].by
                /\ Added(a, ends)[i].finished = buffer[i].finished
           /\ LET p == Added(a, ends)[Len(buffer) + 1]
              IN  p.no = deltas + 1 /\ p.by = a /\ (p.finished => p.ends)
           /\ \A i \in 1..Len(buffer) :
                i <= EndOf(buffer, emitted) => (Added(a, ends)[i].ends => buffer[i].ends)
<1> DEFINE n == Len(buffer)
           c == Added(a, ends)
           p == [no |-> deltas + 1, by |-> a, finished |-> n + 1 \in ends, ends |-> n + 1 \in ends]
<1>1. n \in Nat /\ \A i \in 1..n : buffer[i] \in Pieces
    OBVIOUS
<1>2. \A q \in Pieces, e \in BOOLEAN :
        /\ [q EXCEPT !.ends = e] \in Pieces
        /\ [q EXCEPT !.ends = e].no = q.no /\ [q EXCEPT !.ends = e].by = q.by
        /\ [q EXCEPT !.ends = e].finished = q.finished /\ [q EXCEPT !.ends = e].ends = e
    BY DEF Pieces
<1>3. p \in Pieces /\ p.no = deltas + 1 /\ p.by = a /\ (p.finished => p.ends)
  <2>1. deltas + 1 \in 1..MaxDeltas /\ (n + 1 \in ends) \in BOOLEAN
      BY TurnAssumption
  <2> QED
      BY <2>1 DEF Pieces
<1>4. /\ DOMAIN c = 1..(n + 1) /\ c = [i \in 1..(n + 1) |-> c[i]]
      /\ \A i \in 1..n : c[i] = [buffer[i] EXCEPT !.ends = i \in ends]
      /\ c[n + 1] = p
  <2>1. /\ \A i \in 1..n : i \in 1..(n + 1) /\ i <= n
        /\ n + 1 \in 1..(n + 1) /\ ~(n + 1 <= n)
      BY <1>1
  <2> QED
      BY <2>1 DEF Added
<1>5. \A i \in 1..n : (i \in ends) \in BOOLEAN
    OBVIOUS
<1> HIDE DEF p, c
<1>6. ASSUME NEW i \in 1..n
      PROVE  /\ c[i] \in Pieces /\ c[i].no = buffer[i].no /\ c[i].by = buffer[i].by
             /\ c[i].finished = buffer[i].finished /\ c[i].ends = (i \in ends)
  <2>1. PICK e \in BOOLEAN : e = (i \in ends)
      BY <1>5
  <2>2. PICK q \in Pieces : q = buffer[i]
      BY <1>1
  <2>3. c[i] = [q EXCEPT !.ends = e]
      BY <1>4, <2>1, <2>2
  <2>4. c[i] \in Pieces
      BY <1>2, <2>3, Zenon
  <2>8. c[i].no = q.no /\ c[i].by = q.by
      BY <2>3 DEF Pieces
  <2>9. c[i].finished = q.finished
      BY <2>3 DEF Pieces
  <2>6. c[i].ends = e
      BY <1>2, <2>3, Zenon
  <2>7. c[i].ends = (i \in ends)
      BY <2>1, <2>6, Zenon
  <2> QED
      BY <2>2, <2>4, <2>7, <2>8, <2>9, Zenon
<1>7. c \in Seq(Pieces) /\ Len(c) = n + 1
  <2>1. \A i \in 1..(n + 1) : i \in 1..n \/ i = n + 1
      BY <1>1
  <2>2. \A i \in 1..(n + 1) : c[i] \in Pieces
      BY <1>3, <1>4, <1>6, <2>1
  <2>3. c \in [1..(n + 1) -> Pieces] /\ n + 1 \in Nat
      BY <1>1, <1>4, <2>2
  <2>4. c \in Seq(Pieces)
      BY <2>3, SeqDef
  <2> QED
      BY <2>3, <2>4, LenProperties
<1>8. \A i \in 1..n : i <= EndOf(buffer, emitted) => (c[i].ends => buffer[i].ends)
    BY <1>6 DEF Segmentations
<1> QED
    BY <1>3, <1>4, <1>6, <1>7, <1>8 DEF c

\* The handler holds a text that is still to be spoken, or dropped.
Pending == subPc \in {"decide", "losers", "speak", "speakRest"}

-----------------------------------------------------------------------------
(* Types *)

\* Whatever an agent's delta does to the buffer, buffer and locals keep their
\* types.
LEMMA DeltaTypes ==
    ASSUME Typed, NEW a \in Agents, NEW n \in Turns, ReceiveDelta(a, n)
    PROVE  BufferTypes' /\ SubTypes' /\ AnswerTypes'
<1> USE DEF Typed
<1>1. PICK ends \in Segmentations : buffer' = Added(a, ends)
    BY DEF ReceiveDelta
<1>2. deltas \in 0..MaxDeltas /\ deltas < MaxDeltas /\ deltas' = deltas + 1
    BY DEF ReceiveDelta, AnswerTypes
<1>4. buffer \in Seq(Pieces) /\ buffer' \in Seq(Pieces)
  <2>1. buffer \in Seq(Pieces) /\ deltas \in Nat
      BY <1>2 DEF BufferTypes
  <2> QED
      BY <1>1, <1>2, <2>1, AddedPieces
<1>5. Complete(buffer') \in Nat
    BY <1>4, CompleteIsNatural
<1>7. emitted \in Nat
    BY DEF BufferTypes
<1>8. emitted' \in Nat
    BY <1>5, <1>7 DEF ReceiveDelta, EmittedAfter
<1>9. NewComplete(buffer') \in Seq(Pieces)
    BY <1>4, <1>7, NewPieces
<1>10. BufferTypes'
    BY <1>4, <1>8 DEF BufferTypes
<1>11. SubTypes'
  <2>1. CASE UNCHANGED subVars
    BY <2>1 DEF SubTypes, ReceiveDelta, subVars, sttVars
  <2>2. CASE /\ subPc' = "decide"
             /\ sub' = [NoLocals EXCEPT !.agent = a, !.text = NewComplete(buffer')]
    <3>1. turn' = turn /\ turn \in Nat
        BY DEF ReceiveDelta, sttVars, SttTypes
    <3>2. sub' = [agent |-> a, text |-> NewComplete(buffer'), request |-> 0, round |-> 0]
        BY <2>2
    <3>3. QED
        BY <2>2, <3>1, <3>2, <1>9, TurnAssumption DEF SubTypes, SubPC
  <2>3. QED
    BY <2>1, <2>2 DEF ReceiveDelta
<1>12. AnswerTypes'
    BY <1>2, TurnAssumption DEF AnswerTypes, ReceiveDelta
<1>13. QED
    BY <1>10, <1>11, <1>12


\* Handing a text to speech keeps the types of the histories.
LEMMA HandOverTypes ==
    ASSUME Typed, HandOver, sub.agent \in Agents
    PROVE  /\ speakers' \in [Turns -> SUBSET Agents]
           /\ stragglers' \in [Turns -> Nat]
           /\ spoken' \in Seq(1..MaxDeltas)
<1>1. sub.text \in Seq(Pieces) /\ sub.round \in 0..turn
    BY DEF Typed, SubTypes
<1> DEFINE nos == [i \in DOMAIN sub.text |-> sub.text[i].no]
<1>2. nos \in [1..Len(sub.text) -> 1..MaxDeltas] /\ Len(sub.text) \in Nat
  <2>1. DOMAIN sub.text = 1..Len(sub.text) /\ Len(sub.text) \in Nat
    BY <1>1
  <2>2. \A i \in 1..Len(sub.text) : sub.text[i] \in Pieces
    BY <1>1
  <2>3. \A x \in Pieces : x.no \in 1..MaxDeltas
    BY DEF Pieces
  <2>4. \A i \in 1..Len(sub.text) : sub.text[i].no \in 1..MaxDeltas
    BY <2>2, <2>3
  <2>5. QED
    BY <2>1, <2>4
<1>3. spoken' = spoken \o nos
    BY DEF HandOver
<1> HIDE DEF nos
<1>4. nos \in Seq(1..MaxDeltas)
    BY <1>2, SeqDef
<1>5. spoken \in Seq(1..MaxDeltas) /\ stragglers \in [Turns -> Nat] /\ speakers \in [Turns -> SUBSET Agents]
    BY DEF Typed, HistoryTypes
<1>6. spoken' \in Seq(1..MaxDeltas)
    BY <1>3, <1>4, <1>5, ConcatProperties
<1>7. \/ stragglers' = [stragglers EXCEPT ![sub.round] = @ + 1]
      \/ stragglers' = stragglers
    BY DEF HandOver
<1>8. stragglers' \in [Turns -> Nat]
    BY <1>5, <1>7
<1>9. speakers' = [speakers EXCEPT ![sub.round] = @ \union {sub.agent} \union Finishers(sub.text)]
    BY DEF HandOver
<1>12. Finishers(sub.text) \subseteq Agents
  <2>1. \A x \in Pieces : x.by \in Agents
    BY DEF Pieces
  <2>2. \A i \in DOMAIN sub.text : sub.text[i] \in Pieces
    BY <1>1
  <2> QED
    BY <2>1, <2>2 DEF Finishers
<1>10. speakers' \in [Turns -> SUBSET Agents]
    BY <1>5, <1>9, <1>12
<1>11. QED
    BY <1>6, <1>8, <1>10

\* Emptying the buffer leaves an empty text that emitted nothing.
LEMMA ResetBufferTypes ==
    ASSUME ResetBuffer
    PROVE  BufferTypes'
<1>1. buffer' = <<>> /\ emitted' = 0
    BY DEF ResetBuffer
<1>2. buffer' \in Seq(Pieces)
    BY <1>1
<1>5. QED
    BY <1>1, <1>2 DEF BufferTypes

\* The locals of a handler at work name an agent.
Named == subPc # "idle" => sub.agent \in Agents

\* A decision of the arbiter keeps the types of its fields.
LEMMA DecideTypes ==
    ASSUME Typed, NEW a \in Agents, Decide(a)
    PROVE  /\ active' \in SUBSET Agents
           /\ winner' \in Agents \union {None}
           /\ won' \in [Turns -> SUBSET Agents]
<1>1. won \in [Turns -> SUBSET Agents] /\ winner \in Agents \union {None} /\ active \in SUBSET Agents
    BY DEF Typed, ArbiterTypes
<1>2. won' = won \/ won' = [won EXCEPT ![turn] = @ \union {a}]
    BY DEF Decide
<1>3. winner' = a \/ winner' = winner
    BY DEF Decide, Verdict
<1>4. active' = active
    BY DEF Decide
<1>5. QED
    BY <1>1, <1>2, <1>3, <1>4

\* Every step keeps the types.
LEMMA TypeStep ==
    ASSUME Typed, Named, [Next]_vars
    PROVE  Typed' /\ Named'
<1> USE DEF Typed, Named, SubPC, SttPC
<1>1. CASE UNCHANGED vars
    BY <1>1 DEF vars, arbiterVars, bufferVars, subVars, sttVars, agentVars, speechVars,
        ArbiterTypes, BufferTypes, SubTypes, SttTypes, AnswerTypes, HistoryTypes, Complete
<1>2. ASSUME NEW a \in Agents, NEW n \in Turns, ReceiveDelta(a, n) PROVE Typed' /\ Named'
  <2>1. BufferTypes' /\ SubTypes' /\ AnswerTypes'
    BY <1>2, DeltaTypes
  <2>2. ArbiterTypes' /\ SttTypes' /\ HistoryTypes'
    BY <1>2 DEF ReceiveDelta, arbiterVars, sttVars, speechVars, ArbiterTypes, SttTypes, HistoryTypes
  <2>3. Named'
    BY <1>2 DEF ReceiveDelta, subVars
  <2>4. QED
    BY <2>1, <2>2, <2>3
<1>3. ASSUME NEW a \in Agents, NEW n \in Turns, ReceiveDone(a, n) PROVE Typed' /\ Named'
  <2>1. ArbiterTypes' /\ BufferTypes' /\ SttTypes' /\ HistoryTypes'
    BY <1>3 DEF ReceiveDone, arbiterVars, bufferVars, sttVars, speechVars, ArbiterTypes,
        BufferTypes, SttTypes, HistoryTypes, Complete
  <2>2. AnswerTypes'
    BY <1>3 DEF ReceiveDone, AnswerTypes
  <2>3. SubTypes' /\ Named'
    <3>1. sub' = [agent |-> a, text |-> <<>>, request |-> 0, round |-> turn] /\ turn' = turn
        BY <1>3 DEF ReceiveDone, sttVars
    <3>2. subPc' \in {"doneDecide", "flush", "discard"}
        BY <1>3 DEF ReceiveDone
    <3>3. turn \in Nat /\ MaxTurns \in Nat
        BY TurnAssumption DEF SttTypes
    <3>4. QED
        BY <3>1, <3>2, <3>3 DEF SubTypes
  <2>4. QED
    BY <2>1, <2>2, <2>3
<1>4. ASSUME NEW a \in Agents, NEW n \in Turns, ReceiveReply(a, n) PROVE Typed' /\ Named'
  <2>1. BufferTypes' /\ SttTypes' /\ HistoryTypes'
    BY <1>4 DEF ReceiveReply, bufferVars, sttVars, speechVars, BufferTypes, SttTypes,
        HistoryTypes, Complete
  <2>2. AnswerTypes'
    BY <1>4 DEF ReceiveReply, AnswerTypes
  <2>3. SubTypes' /\ Named'
    <3>1. \/ sub' = [agent |-> a, text |-> <<>>, request |-> n, round |-> turn]
          \/ sub' = [agent |-> None, text |-> <<>>, request |-> 0, round |-> 0] /\ subPc' = "idle"
        BY <1>4 DEF ReceiveReply, Decided
    <3>2. subPc' \in {"idle", "losers", "speak"} /\ turn' = turn
        BY <1>4 DEF ReceiveReply, Decided, sttVars
    <3>3. turn \in Nat /\ MaxTurns \in Nat /\ n \in 0..MaxTurns
        BY TurnAssumption DEF SttTypes, Turns
    <3>4. CASE sub' = [agent |-> a, text |-> <<>>, request |-> n, round |-> turn]
        BY <3>2, <3>3, <3>4 DEF SubTypes
    <3>5. CASE sub' = [agent |-> None, text |-> <<>>, request |-> 0, round |-> 0] /\ subPc' = "idle"
        BY <3>2, <3>3, <3>5 DEF SubTypes
    <3>6. QED
        BY <3>1, <3>4, <3>5
  <2>4. ArbiterTypes'
    <3>1. Decide(a) /\ UNCHANGED sttVars
        BY <1>4 DEF ReceiveReply, Decided
    <3>2. QED
        BY <3>1, DecideTypes DEF ArbiterTypes, sttVars
  <2>5. QED
    BY <2>1, <2>2, <2>3, <2>4
<1>5. CASE DecideDelta
  <2>1. BufferTypes' /\ SttTypes' /\ HistoryTypes' /\ AnswerTypes'
    BY <1>5 DEF DecideDelta, bufferVars, sttVars, speechVars, agentVars, BufferTypes,
        SttTypes, HistoryTypes, AnswerTypes, Complete
  <2>2. SubTypes' /\ Named'
    <3>1. subPc' \in {"discard", "losers", "speak"} /\ sub' = [sub EXCEPT !.round = turn] /\ turn' = turn
        BY <1>5 DEF DecideDelta, Decided, sttVars
    <3>2. sub.agent \in Agents /\ turn \in Nat
        BY <1>5 DEF DecideDelta, SttTypes
    <3>3. QED
        BY <3>1, <3>2 DEF SubTypes
  <2>3. ArbiterTypes'
    <3>1. Decide(sub.agent) /\ UNCHANGED sttVars /\ sub.agent \in Agents
        BY <1>5 DEF DecideDelta, Decided
    <3>2. QED
        BY <3>1, DecideTypes DEF ArbiterTypes, sttVars
  <2>4. QED
    BY <2>1, <2>2, <2>3
<1>6. CASE DecideDone
  <2>1. BufferTypes' /\ SttTypes' /\ HistoryTypes' /\ AnswerTypes'
    BY <1>6 DEF DecideDone, bufferVars, sttVars, speechVars, agentVars, BufferTypes,
        SttTypes, HistoryTypes, AnswerTypes, Complete
  <2>2. SubTypes' /\ Named'
    <3>1. subPc' \in {"flush", "discard"} /\ sub' = [sub EXCEPT !.round = turn] /\ turn' = turn
        BY <1>6 DEF DecideDone, sttVars
    <3>2. sub.agent \in Agents /\ turn \in Nat
        BY <1>6 DEF DecideDone, SttTypes
    <3>3. QED
        BY <3>1, <3>2 DEF SubTypes
  <2>3. ArbiterTypes'
    <3>1. Decide(sub.agent) /\ UNCHANGED sttVars /\ sub.agent \in Agents
        BY <1>6 DEF DecideDone
    <3>2. QED
        BY <3>1, DecideTypes DEF ArbiterTypes, sttVars
  <2>4. QED
    BY <2>1, <2>2, <2>3
<1>7. CASE Discard \/ DoneReset
  <2>1. SttTypes' /\ HistoryTypes' /\ AnswerTypes' /\ ArbiterTypes'
    BY <1>7 DEF Discard, DoneReset, Reset, sttVars, speechVars, agentVars, arbiterVars,
        SttTypes, HistoryTypes, AnswerTypes, ArbiterTypes
  <2>2. SubTypes' /\ Named'
    <3>1. sub' = [agent |-> None, text |-> <<>>, request |-> 0, round |-> 0] /\ subPc' = "idle" /\ turn' = turn
        BY <1>7 DEF Discard, DoneReset, sttVars
    <3>2. turn \in Nat /\ MaxTurns \in Nat
        BY TurnAssumption DEF SttTypes
    <3>3. QED
        BY <3>1, <3>2 DEF SubTypes
  <2>3. BufferTypes'
    <3>1. CASE Discard
        BY <3>1, ResetBufferTypes DEF Discard
    <3>2. CASE DoneReset
        BY <3>2 DEF DoneReset, bufferVars, BufferTypes, Complete
    <3>3. QED
        BY <1>7, <3>1, <3>2
  <2>4. QED
    BY <2>1, <2>2, <2>3
<1>8. CASE CancelLosers
  <2>1. SttTypes' /\ BufferTypes' /\ AnswerTypes' /\ ArbiterTypes' /\ SubTypes' /\ Named'
    BY <1>8 DEF CancelLosers, sttVars, bufferVars, agentVars, arbiterVars, SttTypes,
        BufferTypes, AnswerTypes, ArbiterTypes, SubTypes, Complete
  <2>2. HistoryTypes'
    <3>1. Losers \in SUBSET Agents
        BY DEF Losers, ArbiterTypes
    <3>2. QED
        BY <1>8, <3>1 DEF CancelLosers, speechVars, HistoryTypes
  <2>3. QED
    BY <2>1, <2>2
<1>9. CASE Speak
  <2>1. sub.agent \in Agents /\ HandOver
    BY <1>9 DEF Speak
  <2>2. HistoryTypes'
    BY <1>9, <2>1, HandOverTypes DEF HistoryTypes, Speak
  <2>3. SttTypes' /\ BufferTypes' /\ ArbiterTypes'
    BY <1>9 DEF Speak, sttVars, bufferVars, arbiterVars, SttTypes, BufferTypes, ArbiterTypes, Complete
  <2>4. AnswerTypes'
    BY <1>9 DEF Speak, agentVars, AnswerTypes
  <2>5. SubTypes' /\ Named'
    <3>1. sub' = [agent |-> None, text |-> <<>>, request |-> 0, round |-> 0] /\ subPc' = "idle" /\ turn' = turn
        BY <1>9 DEF Speak, sttVars
    <3>2. turn \in Nat /\ MaxTurns \in Nat
        BY TurnAssumption DEF SttTypes
    <3>3. QED
        BY <3>1, <3>2 DEF SubTypes
  <2>6. QED
    BY <2>2, <2>3, <2>4, <2>5
<1>10. CASE Flush
  <2>1. SttTypes' /\ HistoryTypes' /\ AnswerTypes' /\ ArbiterTypes'
    BY <1>10 DEF Flush, sttVars, speechVars, agentVars, arbiterVars, SttTypes, HistoryTypes,
        AnswerTypes, ArbiterTypes
  <2>2. BufferTypes'
    BY <1>10, ResetBufferTypes DEF Flush
  <2>3. SubTypes' /\ Named'
    <3>1. Behind(buffer, emitted) \in Seq(Pieces)
      <4>1. buffer \in Seq(Pieces) /\ emitted \in Nat
        BY DEF BufferTypes
      <4>2. QED
        BY <4>1, BehindPieces
    <3>2. sub' = [sub EXCEPT !.text = Behind(buffer, emitted)] /\ turn' = turn
        BY <1>10 DEF Flush, sttVars
    <3>3. subPc' \in {"doneReset", "speakRest"} /\ sub.agent \in Agents
        BY <1>10 DEF Flush
    <3>4. QED
        BY <3>1, <3>2, <3>3 DEF SubTypes
  <2>4. QED
    BY <2>1, <2>2, <2>3
<1>11. CASE SpeakRest
  <2>1. sub.agent \in Agents /\ HandOver
    BY <1>11 DEF SpeakRest
  <2>2. HistoryTypes'
    BY <1>11, <2>1, HandOverTypes DEF HistoryTypes, SpeakRest
  <2>3. SttTypes' /\ BufferTypes' /\ ArbiterTypes' /\ AnswerTypes' /\ SubTypes' /\ Named'
    BY <1>11 DEF SpeakRest, sttVars, bufferVars, arbiterVars, agentVars, SttTypes,
        BufferTypes, ArbiterTypes, AnswerTypes, SubTypes, Complete
  <2>4. QED
    BY <2>2, <2>3
<1>12. CASE ReplyDone \/ ReplyError
  <2>1. SttTypes' /\ BufferTypes' /\ SubTypes' /\ HistoryTypes' /\ Named'
    BY <1>12 DEF ReplyDone, ReplyError, sttVars, bufferVars, subVars, speechVars, SttTypes,
        BufferTypes, SubTypes, HistoryTypes, Complete
  <2>2. AnswerTypes' /\ ArbiterTypes'
    BY <1>12 DEF ReplyDone, ReplyError, Reset, agentVars, arbiterVars, sttVars, AnswerTypes, ArbiterTypes
  <2>3. QED
    BY <2>1, <2>2
<1>13. CASE Transcript
  <2>1. turn' = turn + 1 /\ turn \in 0..MaxTurns /\ turn < MaxTurns
    BY <1>13 DEF Transcript, SttTypes
  <2>2. SttTypes'
    BY <1>13, <2>1, TurnAssumption DEF Transcript, SttTypes
  <2>3. ArbiterTypes'
    BY <1>13, <2>1 DEF Transcript, ArbiterTypes
  <2>4. SubTypes' /\ Named'
    BY <1>13, <2>1 DEF Transcript, SubTypes, subVars
  <2>5. BufferTypes' /\ AnswerTypes' /\ HistoryTypes'
    BY <1>13 DEF Transcript, bufferVars, agentVars, speechVars, BufferTypes, AnswerTypes, HistoryTypes, Complete
  <2>6. QED
    BY <2>2, <2>3, <2>4, <2>5
<1>14. CASE PublishToAgents
  <2>1. AnswerTypes'
    BY <1>14 DEF PublishToAgents, AnswerTypes
  <2>2. SttTypes' /\ ArbiterTypes' /\ BufferTypes' /\ SubTypes' /\ HistoryTypes' /\ Named'
    BY <1>14 DEF PublishToAgents, arbiterVars, bufferVars, subVars, speechVars, SttTypes,
        ArbiterTypes, BufferTypes, SubTypes, HistoryTypes, Complete
  <2>3. QED
    BY <2>1, <2>2
<1>15. CASE StopTTS
  <2>1. BufferTypes'
    BY <1>15, ResetBufferTypes DEF StopTTS
  <2>2. SttTypes'
    BY <1>15, TurnAssumption DEF StopTTS, SttTypes
  <2>3. ArbiterTypes' /\ SubTypes' /\ AnswerTypes' /\ HistoryTypes' /\ Named'
    BY <1>15 DEF StopTTS, arbiterVars, subVars, agentVars, speechVars, ArbiterTypes, SubTypes,
        AnswerTypes, HistoryTypes
  <2>4. QED
    BY <2>1, <2>2, <2>3
<1>16. CASE CancelActiveAgents
  <2>1. turn' = turn /\ turn \in 0..MaxTurns
    BY <1>16 DEF CancelActiveAgents, SttTypes
  <2>2. ArbiterTypes' /\ SttTypes'
    <3>1. interrupted' = interrupted \union {turn} /\ interrupted \in SUBSET (0..turn)
        BY <1>16 DEF CancelActiveAgents, ArbiterTypes
    <3>2. interrupted' \in SUBSET (0..turn')
        BY <2>1, <3>1
    <3>3. ArbiterTypes'
        BY <1>16, <3>2 DEF CancelActiveAgents, Reset, ArbiterTypes
    <3>4. SttTypes'
        BY <1>16 DEF CancelActiveAgents, SttTypes
    <3>5. QED
        BY <3>3, <3>4
  <2>3. BufferTypes' /\ SubTypes' /\ AnswerTypes' /\ HistoryTypes' /\ Named'
    BY <1>16 DEF CancelActiveAgents, bufferVars, subVars, agentVars, speechVars, BufferTypes, SubTypes,
        AnswerTypes, HistoryTypes, Complete
  <2>4. QED
    BY <2>2, <2>3
<1>17. QED
    BY <1>1, <1>2, <1>3, <1>4, <1>5, <1>6, <1>7, <1>8, <1>9, <1>10, <1>11, <1>12, <1>13,
       <1>14, <1>15, <1>16
    DEF Next, Message, Handler, ReadLoop

\* Types, and what they need of the locals, hold of the initial state.
LEMMA TypeInit == ASSUME Init PROVE Typed /\ Named
<1> USE TurnAssumption DEF Init
<1>1. buffer = <<>> /\ buffer \in Seq(Pieces)
    OBVIOUS
<1>2. Complete(buffer) \in Nat
    BY <1>1, CompleteIsNatural
<1>3. BufferTypes
    BY <1>1, <1>2 DEF BufferTypes
<1>4. ArbiterTypes /\ SttTypes /\ AnswerTypes /\ HistoryTypes
    BY DEF ArbiterTypes, SttTypes, SttPC, AnswerTypes, HistoryTypes
<1>5. SubTypes /\ Named
    BY DEF SubTypes, SubPC, Named
<1>6. QED
    BY <1>3, <1>4, <1>5 DEF Typed

\* Type correctness of the arbiter, the shared sentence buffer and the handlers,
\* for any bounds and however the text in the buffer is segmented anew.
THEOREM TypeCorrect == Spec => []TypeOK
<1> DEFINE Inv == started \in BOOLEAN /\ Typed /\ Named
<1>1. Init => Inv
    BY TypeInit DEF Init
<1>2. Inv /\ [Next]_vars => Inv'
  <2> SUFFICES ASSUME Inv, [Next]_vars PROVE Inv'
    OBVIOUS
  <2>1. Typed' /\ Named'
    BY TypeStep
  <2>2. started' \in BOOLEAN
    BY DEF Next, Message, Handler, ReadLoop, ReceiveDelta, ReceiveDone, ReceiveReply, Decided,
        Decide, DecideDelta, Discard, CancelLosers, Speak, DecideDone, Flush, SpeakRest, DoneReset,
        Reset, ReplyDone, ReplyError, Transcript, PublishToAgents, StopTTS, CancelActiveAgents,
        vars, arbiterVars
  <2>3. QED
    BY <2>1, <2>2
<1>3. Inv => TypeOK
    BY DEF TypeOK, Typed
<1>4. QED
    BY <1>1, <1>2, <1>3, PTL DEF Spec

-----------------------------------------------------------------------------
(* Who won which turn *)

\* A turn has at most one winner, the arbiter's winner is the one of the current
\* turn, and an open arbitration without a winner has had none.
Settled ==
    /\ \A r \in Turns : \A a, b \in won[r] : a = b
    /\ winner # None => turn \in Turns /\ winner \in won[turn]
    /\ started => turn \in Turns
    /\ started /\ winner = None => won[turn] = {}
    /\ \A r \in Turns : r > turn => won[r] = {}

\* Whoever is about to be spoken, or was, has won the turn it is spoken in.
Entitled ==
    /\ Speaking => sub.round \in Turns /\ sub.agent \in won[sub.round]
    /\ \A r \in Turns : speakers[r] \subseteq won[r]

\* The four things a step can do to the arbiter.
LEMMA ArbiterMoves ==
    ASSUME Named, [Next]_vars
    PROVE  \/ \E a \in Agents : Decide(a) /\ UNCHANGED sttVars
           \/ Reset /\ turn' = turn
           \/ Transcript
           \/ UNCHANGED <<active, winner, started, won, turn>>
<1> USE DEF arbiterVars, sttVars
<1>1. CASE UNCHANGED vars
    BY <1>1 DEF vars
<1>2. ASSUME NEW a \in Agents, NEW n \in Turns, Message(a, n)
      PROVE  \/ Decide(a) /\ UNCHANGED sttVars
             \/ UNCHANGED <<active, winner, started, won, turn>>
    BY <1>2 DEF Message, ReceiveDelta, ReceiveDone, ReceiveReply, Decided
<1>3. CASE DecideDelta \/ DecideDone
    BY <1>3 DEF DecideDelta, DecideDone, Decided, Named
<1>4. CASE Discard \/ CancelLosers \/ Speak \/ Flush \/ SpeakRest \/ ReplyError
           \/ PublishToAgents \/ StopTTS
    BY <1>4 DEF Discard, CancelLosers, Speak, Flush, SpeakRest, ReplyError, PublishToAgents, StopTTS
<1>5. CASE DoneReset \/ ReplyDone \/ CancelActiveAgents
    BY <1>5 DEF DoneReset, ReplyDone, CancelActiveAgents
<1>6. QED
    BY <1>1, <1>2, <1>3, <1>4, <1>5 DEF Next, Handler, ReadLoop

\* What a decision does to the history of winners.
LEMMA DecideWins ==
    ASSUME Typed, Settled, NEW a \in Agents, Decide(a)
    PROVE  \/ UNCHANGED <<active, winner, started, won>>
           \/ /\ started /\ winner = None /\ turn \in Turns /\ won[turn] = {}
              /\ winner' = a /\ started' /\ won' = [won EXCEPT ![turn] = {a}]
<1>1. CASE IsNew(a)
  <2>1. started /\ winner = None /\ turn \in Turns /\ won[turn] = {}
    BY <1>1 DEF IsNew, Settled
  <2>2. winner' = a /\ started' = started /\ won' = [won EXCEPT ![turn] = won[turn] \union {a}]
    BY <1>1 DEF Decide, Verdict
  <2>3. won[turn] \union {a} = {a}
    BY <2>1
  <2>4. QED
    BY <2>1, <2>2, <2>3
<1>2. CASE ~IsNew(a)
    BY <1>2 DEF Decide, Verdict
<1>3. QED
    BY <1>1, <1>2

\* Settled is kept, no winner is forgotten, and only a turn nobody had won gets
\* a winner.
LEMMA SettledStep ==
    ASSUME Typed, Named, Settled, [Next]_vars
    PROVE  /\ Settled'
           /\ \A r \in Turns : won[r] \subseteq won'[r]
           /\ \A r \in Turns : won[r] # {} => won'[r] = won[r]
<1>0. won \in [Turns -> SUBSET Agents] /\ turn \in Nat /\ winner \in Agents \union {None}
    BY DEF Typed, ArbiterTypes, SttTypes
<1>1. CASE UNCHANGED <<active, winner, started, won, turn>>
    BY <1>1 DEF Settled
<1>2. CASE Reset /\ turn' = turn
    BY <1>2 DEF Settled, Reset
<1>3. CASE Transcript
  <2>1. /\ turn' = turn + 1 /\ turn + 1 \in Turns /\ winner' = None /\ won' = won
    BY <1>0, <1>3, TurnAssumption DEF Transcript, Turns, Typed, SttTypes
  <2>2. won[turn + 1] = {}
    BY <1>0, <2>1 DEF Settled
  <2>3. \A r \in Turns : r > turn + 1 => won[r] = {}
    BY <1>0 DEF Settled, Turns
  <2>4. QED
    BY <1>0, <2>1, <2>2, <2>3 DEF Settled
<1>4. ASSUME NEW a \in Agents, Decide(a), UNCHANGED sttVars
      PROVE  /\ Settled'
             /\ \A r \in Turns : won[r] \subseteq won'[r]
             /\ \A r \in Turns : won[r] # {} => won'[r] = won[r]
  <2>1. turn' = turn
    BY <1>4 DEF sttVars
  <2>2. CASE UNCHANGED <<active, winner, started, won>>
    BY <2>1, <2>2 DEF Settled
  <2>3. CASE /\ started /\ winner = None /\ turn \in Turns /\ won[turn] = {}
             /\ winner' = a /\ started' /\ won' = [won EXCEPT ![turn] = {a}]
    <3>1. winner' # None
        BY <2>3, TurnAssumption
    <3>2. won'[turn] = {a} /\ \A r \in Turns : r # turn => won'[r] = won[r]
        BY <1>0, <2>3
    <3>3. \A r \in Turns : won[r] # {} => won'[r] = won[r]
        BY <2>3, <3>2
    <3>4. \A r \in Turns : \A x, y \in won'[r] : x = y
        BY <3>2 DEF Settled
    <3>5. \A r \in Turns : r > turn => won'[r] = {}
        BY <1>0, <3>2 DEF Settled, Turns
    <3>6. Settled'
        BY <2>1, <2>3, <3>1, <3>2, <3>4, <3>5 DEF Settled
    <3>7. QED
        BY <2>3, <3>2, <3>3, <3>6
  <2>4. QED
    BY <1>4, <2>2, <2>3, DecideWins
<1>5. QED
    BY <1>1, <1>2, <1>3, <1>4, ArbiterMoves

\* How the handler comes to a decision in favour of its agent: it stays with one
\* it had, or the arbiter names the agent as the winner of the current turn.
LEMMA SpeakingMoves ==
    ASSUME Typed, Named, Settled, [Next]_vars, Speaking'
    PROVE  \/ Speaking /\ sub'.agent = sub.agent /\ sub'.round = sub.round
           \/ /\ sub'.round = turn /\ turn' = turn /\ turn \in Turns
              /\ sub'.agent \in won'[turn]
              /\ winner # None \/ started
<1>0. won \in [Turns -> SUBSET Agents] /\ turn \in Nat
    BY DEF Typed, ArbiterTypes, SttTypes
<1>a. sub = [agent |-> sub.agent, text |-> sub.text, request |-> sub.request, round |-> sub.round]
    BY DEF Typed, SubTypes
<1>1. CASE subPc' = subPc /\ sub' = sub
    BY <1>1 DEF Speaking
<1>2. ASSUME NEW a \in Agents, Decide(a), Verdict(a) = a, turn' = turn,
             sub'.agent = a, sub'.round = turn
      PROVE  /\ sub'.round = turn /\ turn' = turn /\ turn \in Turns
             /\ sub'.agent \in won'[turn]
             /\ winner # None \/ started
  <2>1. CASE IsNew(a)
    <3>1. turn \in Turns /\ started
        BY <2>1 DEF IsNew, Settled
    <3>2. won' = [won EXCEPT ![turn] = won[turn] \union {a}]
        BY <1>2, <2>1 DEF Decide
    <3>3. QED
        BY <1>0, <1>2, <3>1, <3>2
  <2>2. CASE ~IsNew(a)
    <3>1. winner = a /\ won' = won
        BY <1>2, <2>2 DEF Verdict, Decide
    <3>2. QED
        BY <1>2, <3>1, TurnAssumption DEF Settled
  <2>3. QED
    BY <2>1, <2>2
<1>3. ASSUME NEW a \in Agents, NEW n \in Turns, ReceiveReply(a, n)
      PROVE  Decide(a) /\ Verdict(a) = a /\ turn' = turn /\ sub'.agent = a /\ sub'.round = turn
    BY <1>3 DEF ReceiveReply, Decided, Speaking, sttVars
<1>4. ASSUME NEW a \in Agents, NEW n \in Turns, ReceiveDelta(a, n)
      PROVE  subPc' = subPc /\ sub' = sub
    BY <1>4 DEF ReceiveDelta, Speaking, subVars
<1>5. ASSUME NEW a \in Agents, NEW n \in Turns, ReceiveDone(a, n)
      PROVE  /\ sub'.round = turn /\ turn' = turn /\ turn \in Turns
             /\ sub'.agent \in won'[turn]
             /\ winner # None \/ started
  <2>1. winner = a /\ sub'.agent = a /\ sub'.round = turn /\ turn' = turn /\ won' = won
    BY <1>5 DEF ReceiveDone, Speaking, sttVars, arbiterVars
  <2>2. QED
    BY <2>1, TurnAssumption DEF Settled
<1>6. CASE DecideDelta \/ DecideDone
  <2>1. /\ sub.agent \in Agents /\ Decide(sub.agent) /\ Verdict(sub.agent) = sub.agent
        /\ turn' = turn /\ sub' = [sub EXCEPT !.round = turn]
    BY <1>6 DEF DecideDelta, DecideDone, Decided, Speaking, sttVars, Named
  <2>2. sub'.agent = sub.agent /\ sub'.round = turn
    BY <1>a, <2>1
  <2>3. QED
    BY <1>2, <2>1, <2>2
<1>7. CASE CancelLosers
    BY <1>7 DEF CancelLosers, Speaking
<1>8. CASE Flush
  <2>1. Speaking /\ sub' = [sub EXCEPT !.text = Behind(buffer, emitted)]
    BY <1>8 DEF Flush, Speaking
  <2>2. sub'.agent = sub.agent /\ sub'.round = sub.round
    BY <1>a, <2>1
  <2>3. QED
    BY <2>1, <2>2
<1>9. CASE Discard \/ Speak \/ SpeakRest \/ DoneReset
    BY <1>9 DEF Discard, Speak, SpeakRest, DoneReset, Speaking
<1>10. CASE UNCHANGED vars
    BY <1>1, <1>10 DEF vars, subVars
<1>11. CASE ReplyDone \/ ReplyError \/ ReadLoop
    BY <1>1, <1>11 DEF ReplyDone, ReplyError, ReadLoop, Transcript, PublishToAgents, StopTTS,
        CancelActiveAgents, subVars
<1>12. QED
    BY <1>1, <1>2, <1>3, <1>4, <1>5, <1>6, <1>7, <1>8, <1>9, <1>10, <1>11
    DEF Next, Message, Handler

\* Only a handler that has decided in favour of its agent hands it to speech, and
\* it is then through with the decision.
LEMMA SpeechMoves ==
    ASSUME [Next]_vars
    PROVE  \/ UNCHANGED speechVars
           \/ /\ Speaking /\ Pending /\ HandOver /\ ~Speaking'
              /\ UNCHANGED <<turn, interrupted>>
<1>1. CASE UNCHANGED vars
    BY <1>1 DEF vars
<1>2. CASE \E a \in Agents, n \in Turns : Message(a, n)
    BY <1>2 DEF Message, ReceiveDelta, ReceiveDone, ReceiveReply
<1>3. CASE Speak \/ SpeakRest
    BY <1>3 DEF Speak, SpeakRest, Speaking, Pending, sttVars
<1>4. CASE DecideDelta \/ DecideDone \/ Discard \/ CancelLosers \/ Flush \/ DoneReset
    BY <1>4 DEF DecideDelta, DecideDone, Discard, CancelLosers, Flush, DoneReset
<1>5. CASE ReplyDone \/ ReplyError \/ ReadLoop
    BY <1>5 DEF ReplyDone, ReplyError, ReadLoop, Transcript, PublishToAgents, StopTTS, CancelActiveAgents
<1>6. QED
    BY <1>1, <1>2, <1>3, <1>4, <1>5 DEF Next, Handler

-----------------------------------------------------------------------------
(* Whose text it is *)

\* Behind what was handed out the buffer holds unfinished text only, ...
RestIsUnfinished ==
    \A j \in 1..Len(buffer) : j > EndOf(buffer, emitted) => ~buffer[j].finished

\* ... and what is finished in a text to be spoken is the handler's agent's.
TextIsOwn ==
    Pending => \A i \in 1..Len(sub.text) : sub.text[i].finished => sub.text[i].by = sub.agent

Owned == RestIsUnfinished /\ TextIsOwn

\* A delta: a piece that finishes a sentence is handed out at once.
LEMMA DeltaOwned ==
    ASSUME Typed, Owned, NEW a \in Agents, NEW n \in Turns, ReceiveDelta(a, n)
    PROVE  Owned'
<1>0. PICK ends \in Segmentations : buffer' = Added(a, ends)
    BY DEF ReceiveDelta
<1>1. /\ subPc = "idle" /\ emitted' = EmittedAfter(buffer') /\ emitted \in Nat
      /\ deltas \in Nat /\ deltas < MaxDeltas /\ buffer \in Seq(Pieces) /\ Len(buffer) \in Nat
    BY DEF ReceiveDelta, Typed, AnswerTypes, BufferTypes
<1> DEFINE m == Len(buffer) + 1
<1>2. /\ buffer' \in Seq(Pieces) /\ Len(buffer') = m
      /\ \A i \in 1..Len(buffer) : buffer'[i].finished = buffer[i].finished
      /\ buffer'[m].by = a /\ (buffer'[m].finished => buffer'[m].ends)
      /\ \A i \in 1..Len(buffer) :
           i <= EndOf(buffer, emitted) => (buffer'[i].ends => buffer[i].ends)
    BY <1>0, <1>1, AddedPieces
<1>3. m \in 1..m /\ Len(buffer) <= m /\ \A i \in 1..m : i \in 1..Len(buffer) \/ i = m
    BY <1>1
<1>4. /\ EndOf(buffer, emitted) \in Nat /\ EndOf(buffer', emitted) \in Nat
      /\ EndOf(buffer, emitted) <= EndOf(buffer', emitted)
  <2>1. EndOf(buffer, emitted) \in Nat /\ EndOf(buffer, emitted) <= Len(buffer)
      BY <1>1, EndIsNatural, EndWithin
  <2>2. \A i \in 1..EndOf(buffer, emitted) : buffer'[i].ends => buffer[i].ends
      BY <1>1, <1>2, <2>1
  <2> QED
      BY <1>1, <1>2, <1>3, <2>1, <2>2, EndIsNatural, EndGrows
<1>5. /\ Complete(buffer') \in Nat /\ emitted' \in Nat
      /\ emitted <= emitted' /\ Complete(buffer') <= emitted'
    BY <1>1, <1>2, CompleteIsNatural DEF EmittedAfter
<1>6. /\ EndOf(buffer', emitted') \in Nat
      /\ EndOf(buffer', emitted) <= EndOf(buffer', emitted')
    BY <1>1, <1>2, <1>5, EndIsNatural, MoreEndLater
<1>7. ASSUME NEW j \in 1..Len(buffer), j > EndOf(buffer', emitted) PROVE ~buffer'[j].finished
  <2>1. j > EndOf(buffer, emitted)
      BY <1>4, <1>7
  <2> QED
      BY <1>2, <2>1 DEF Owned, RestIsUnfinished
<1>8. ASSUME NEW j \in 1..Len(buffer'), j > EndOf(buffer', emitted') PROVE ~buffer'[j].finished
  <2>1. CASE j \in 1..Len(buffer)
    <3>1. j > EndOf(buffer', emitted)
        BY <1>4, <1>6, <1>8
    <3> QED
        BY <1>7, <2>1, <3>1
  <2>2. CASE j = m
    <3>1. ~buffer'[j].ends
      <4>1. buffer'[j].ends => j <= EndOf(buffer', emitted')
          BY <1>2, <1>5, EndsAreComplete
      <4> QED
          BY <1>6, <1>8, <4>1
    <3> QED
        BY <1>2, <2>2, <3>1
  <2> QED
      BY <1>2, <1>3, <2>1, <2>2
<1>9. TextIsOwn'
  <2>1. CASE subPc' = "idle"
      BY <2>1 DEF TextIsOwn, Pending
  <2>2. CASE sub' = [NoLocals EXCEPT !.agent = a, !.text = NewComplete(buffer')]
    <3>1. sub'.agent = a /\ sub'.text = NewComplete(buffer')
        BY <2>2
    <3>2. \A i \in 1..Len(sub'.text) :
            /\ EndOf(buffer', emitted) + i \in 1..Len(buffer')
            /\ sub'.text[i] = buffer'[EndOf(buffer', emitted) + i]
        BY <1>1, <1>2, <3>1, NewPieces
    <3>3. ASSUME NEW i \in 1..Len(sub'.text), sub'.text[i].finished PROVE sub'.text[i].by = a
      <4> DEFINE j == EndOf(buffer', emitted) + i
      <4>1. j \in 1..Len(buffer') /\ sub'.text[i] = buffer'[j] /\ j > EndOf(buffer', emitted)
          BY <1>4, <3>2
      <4> HIDE DEF j
      <4>2. j = m
          BY <1>2, <1>3, <1>7, <3>3, <4>1
      <4> QED
          BY <1>2, <4>1, <4>2
    <3> QED
        BY <3>1, <3>3 DEF TextIsOwn
  <2> QED
      BY <1>1, <2>1, <2>2 DEF ReceiveDelta, subVars
<1> QED
    BY <1>8, <1>9 DEF Owned, RestIsUnfinished

LEMMA OwnedStep == ASSUME Typed, Owned, [Next]_vars PROVE Owned'
<1>1. ASSUME NEW a \in Agents, NEW n \in Turns, ReceiveDelta(a, n) PROVE Owned'
    BY <1>1, DeltaOwned
<1>2. ASSUME UNCHANGED <<buffer, emitted>>, TextIsOwn' PROVE Owned'
    BY <1>2 DEF Owned, RestIsUnfinished
<1>3. ASSUME ResetBuffer, TextIsOwn' PROVE Owned'
  <2>1. \A j \in 1..Len(buffer') : FALSE
      BY <1>3 DEF ResetBuffer
  <2> QED
      BY <1>3, <2>1 DEF Owned, RestIsUnfinished
<1>4. ASSUME ~Pending' PROVE TextIsOwn'
    BY <1>4 DEF TextIsOwn
<1>5. ASSUME Pending' => Pending, sub'.text = sub.text, sub'.agent = sub.agent PROVE TextIsOwn'
    BY <1>5 DEF Owned, TextIsOwn
<1>6. ASSUME NEW a \in Agents, NEW n \in Turns, ReceiveDone(a, n) PROVE Owned'
  <2>1. UNCHANGED <<buffer, emitted>> /\ ~Pending'
      BY <1>6 DEF ReceiveDone, bufferVars, Pending
  <2> QED
      BY <1>2, <1>4, <2>1
<1>7. ASSUME NEW a \in Agents, NEW n \in Turns, ReceiveReply(a, n) PROVE Owned'
  <2>1. UNCHANGED <<buffer, emitted>> /\ sub'.text = <<>>
      BY <1>7 DEF ReceiveReply, bufferVars
  <2>2. \A i \in 1..Len(sub'.text) : FALSE
      BY <2>1
  <2> QED
      BY <1>2, <2>1, <2>2 DEF TextIsOwn
<1>8. CASE DecideDelta \/ DecideDone
  <2>1. UNCHANGED <<buffer, emitted>> /\ sub'.text = sub.text /\ sub'.agent = sub.agent
      BY <1>8 DEF DecideDelta, DecideDone, bufferVars, Typed, SubTypes
  <2>2. Pending' => Pending
      BY <1>8 DEF DecideDelta, DecideDone, Pending
  <2> QED
      BY <1>2, <1>5, <2>1, <2>2
<1>9. CASE Discard
    BY <1>3, <1>4, <1>9 DEF Discard, Pending
<1>10. CASE CancelLosers
  <2>1. UNCHANGED <<buffer, emitted, sub>> /\ Pending
      BY <1>10 DEF CancelLosers, bufferVars, Pending
  <2> QED
      BY <1>2, <1>5, <2>1
<1>11. CASE Speak \/ SpeakRest \/ DoneReset
  <2>1. UNCHANGED <<buffer, emitted>> /\ ~Pending'
      BY <1>11 DEF Speak, SpeakRest, DoneReset, bufferVars, Pending
  <2> QED
      BY <1>2, <1>4, <2>1
<1>12. CASE Flush
  <2>1. ResetBuffer /\ sub'.text = Behind(buffer, emitted)
      BY <1>12 DEF Flush, Typed, SubTypes
  <2>2. buffer \in Seq(Pieces) /\ emitted \in Nat
      BY DEF Typed, BufferTypes
  <2>3. EndOf(buffer, emitted) \in Nat
      BY <2>2, EndIsNatural
  <2>4. \A i \in 1..Len(sub'.text) :
          EndOf(buffer, emitted) + i \in 1..Len(buffer) /\ sub'.text[i] = buffer[EndOf(buffer, emitted) + i]
      BY <2>1, <2>2, BehindPieces
  <2>5. ASSUME NEW i \in 1..Len(sub'.text) PROVE ~sub'.text[i].finished
    <3>1. EndOf(buffer, emitted) + i > EndOf(buffer, emitted)
        BY <2>3
    <3> QED
        BY <2>4, <3>1 DEF Owned, RestIsUnfinished
  <2> QED
      BY <1>3, <2>1, <2>5 DEF TextIsOwn
<1>13. CASE StopTTS
  <2>1. ResetBuffer /\ UNCHANGED <<subPc, sub>>
      BY <1>13 DEF StopTTS, subVars
  <2> QED
      BY <1>3, <1>5, <2>1 DEF Pending
<1>14. CASE ReplyDone \/ ReplyError \/ Transcript \/ PublishToAgents \/ CancelActiveAgents \/ UNCHANGED vars
  <2>1. UNCHANGED <<buffer, emitted, subPc, sub>>
      BY <1>14 DEF ReplyDone, ReplyError, Transcript, PublishToAgents, CancelActiveAgents, vars,
         bufferVars, subVars
  <2> QED
      BY <1>2, <1>5, <2>1 DEF Pending
<1> QED
    BY <1>1, <1>6, <1>7, <1>8, <1>9, <1>10, <1>11, <1>12, <1>13, <1>14
       DEF Next, Message, Handler, ReadLoop

\* Entitled is kept.
LEMMA EntitledStep ==
    ASSUME Typed, Named, Settled, Owned, Entitled, [Next]_vars
    PROVE  Entitled'
<1>0. speakers \in [Turns -> SUBSET Agents]
    BY DEF Typed, HistoryTypes
<1>1. \A r \in Turns : won[r] \subseteq won'[r]
    BY SettledStep
<1>2. ASSUME Speaking' PROVE sub'.round \in Turns /\ sub'.agent \in won'[sub'.round]
    BY <1>1, <1>2, SpeakingMoves DEF Entitled
<1>3. \A r \in Turns : speakers'[r] \subseteq won'[r]
  <2>1. CASE UNCHANGED speechVars
    BY <1>1, <2>1 DEF speechVars, Entitled
  <2>2. CASE Speaking /\ Pending /\ HandOver
    <3>1. sub.round \in Turns /\ sub.agent \in won[sub.round]
        BY <2>2 DEF Entitled
    <3>4. Finishers(sub.text) \subseteq {sub.agent}
      <4>1. DOMAIN sub.text = 1..Len(sub.text)
          BY DEF Typed, SubTypes
      <4> QED
          BY <2>2, <4>1 DEF Finishers, Owned, TextIsOwn
    <3>2. speakers' = [speakers EXCEPT ![sub.round] = @ \union {sub.agent}]
        BY <2>2, <3>4 DEF HandOver
    <3>3. QED
        BY <1>0, <1>1, <3>1, <3>2 DEF Entitled
  <2>3. QED
    BY <2>1, <2>2, SpeechMoves
<1>4. QED
    BY <1>2, <1>3 DEF Entitled

Arbitrated == Typed /\ Named /\ Settled /\ Owned /\ Entitled

\* The arbitration invariant holds initially ...
LEMMA ArbitratedInit == ASSUME Init PROVE Arbitrated
<1>1. Owned
  <2>1. buffer = <<>> /\ subPc = "idle"
      BY DEF Init
  <2>2. \A i \in 1..Len(buffer) : FALSE
      BY <2>1
  <2> QED
      BY <2>1, <2>2 DEF Owned, RestIsUnfinished, TextIsOwn, Pending
<1> QED
    BY <1>1, TypeInit DEF Init, Arbitrated, Settled, Entitled, Speaking

\* ... and is kept by every step.
LEMMA ArbitratedStep == ASSUME Arbitrated, [Next]_vars PROVE Arbitrated'
    BY TypeStep, SettledStep, OwnedStep, EntitledStep DEF Arbitrated

\* Under one arbitration all speech is handed over on the messages of a single
\* agent, and all sentences in it that came finished are this agent's, for any
\* number of agents and turns, any segmentation, and wherever the resets of
\* barge-ins, finished answers and old complete responses fall between the
\* decisions.
THEOREM OneVoice == Spec => []OneVoicePerTurn
<1>1. Init => Arbitrated
    BY ArbitratedInit
<1>2. Arbitrated /\ [Next]_vars => Arbitrated'
    BY ArbitratedStep
<1>3. Arbitrated => OneVoicePerTurn
    BY DEF Arbitrated, Settled, Entitled, OneVoicePerTurn
<1>4. QED
    BY <1>1, <1>2, <1>3, PTL DEF Spec

-----------------------------------------------------------------------------
(* Losers *)

\* A turn nobody has won has no losers yet.
NoEarlyLosers == \A r \in Turns : won[r] = {} => cancels[r] = {}

\* The winner of a turn is never among the losers that are sent a cancellation,
\* although they are read after the decision in a critical section of its own.
THEOREM WinnerIsSafe == Spec => []WinnerIsNotCancelled
<1> DEFINE Inv == Arbitrated /\ NoEarlyLosers /\ WinnerIsNotCancelled
<1>1. Init => Inv
    BY ArbitratedInit DEF Init, NoEarlyLosers, WinnerIsNotCancelled
<1>2. Inv /\ [Next]_vars => Inv'
  <2> SUFFICES ASSUME Inv, [Next]_vars PROVE Inv'
    OBVIOUS
  <2>1. /\ \A r \in Turns : won[r] # {} => won'[r] = won[r]
        /\ \A r \in Turns : won[r] \subseteq won'[r]
    BY SettledStep DEF Arbitrated
  <2>2. Arbitrated'
    BY ArbitratedStep
  <2>3. CASE cancels' = cancels
    BY <2>1, <2>2, <2>3 DEF NoEarlyLosers, WinnerIsNotCancelled
  <2>4. CASE CancelLosers
    <3>1. cancels \in [Turns -> SUBSET Agents] /\ won' = won
        BY <2>4 DEF Arbitrated, Typed, HistoryTypes, CancelLosers, arbiterVars
    <3>2. cancels' = [cancels EXCEPT ![turn] = @ \union Losers]
        BY <2>4 DEF CancelLosers
    <3>3. \A r \in Turns : cancels'[r] # cancels[r] =>
              r = turn /\ winner # None /\ cancels'[r] = cancels[r] \union (active \ {winner})
        BY <3>1, <3>2 DEF Losers
    <3>4. winner # None => winner \in won[turn] /\ turn \in Turns
        BY DEF Arbitrated, Settled
    <3>5. \A r \in Turns : \A x, y \in won[r] : x = y
        BY DEF Arbitrated, Settled
    <3>6. QED
        BY <2>2, <3>1, <3>3, <3>4, <3>5 DEF NoEarlyLosers, WinnerIsNotCancelled
  <2>5. QED
    <3>1. cancels' = cancels \/ CancelLosers
        BY DEF Next, Message, Handler, ReadLoop, ReceiveDelta, ReceiveDone, ReceiveReply,
            DecideDelta, Discard, Speak, DecideDone, Flush, SpeakRest, DoneReset, ReplyDone,
            ReplyError, Transcript, PublishToAgents, StopTTS, CancelActiveAgents, vars
    <3>2. QED
        BY <2>3, <2>4, <3>1
<1>3. QED
    BY <1>1, <1>2, PTL DEF Spec

-----------------------------------------------------------------------------
(* Barge-ins *)

\* A turn a barge-in has reset is closed, and what is still spoken of it is the
\* one answer the handler had decided on.
Shut ==
    /\ turn \in interrupted => ~started /\ winner = None
    /\ \A r \in Turns : r \notin interrupted => stragglers[r] = 0
    /\ \A r \in Turns : stragglers[r] <= 1
    /\ \A r \in Turns : stragglers[r] = 1 => ~(Speaking /\ sub.round = r)

\* Shut is kept.
LEMMA ShutStep ==
    ASSUME Arbitrated, Shut, [Next]_vars
    PROVE  Shut'
<1>0. /\ stragglers \in [Turns -> Nat] /\ turn \in Nat
      /\ interrupted \in SUBSET (0..turn)
      /\ Typed /\ Named /\ Settled
    BY DEF Arbitrated, Typed, HistoryTypes, SttTypes, ArbiterTypes
<1>1. interrupted' = interrupted \/ CancelActiveAgents
    BY DEF Next, Message, Handler, ReadLoop, ReceiveDelta, ReceiveDone, ReceiveReply,
        DecideDelta, Discard, CancelLosers, Speak, DecideDone, Flush, SpeakRest, DoneReset,
        ReplyDone, ReplyError, Transcript, PublishToAgents, StopTTS, vars, sttVars
<1>2. turn' \in interrupted' => ~started' /\ winner' = None
  <2>1. CASE CancelActiveAgents
    BY <2>1 DEF CancelActiveAgents, Reset
  <2>2. CASE interrupted' = interrupted
    <3>1. ASSUME NEW a \in Agents, Decide(a), UNCHANGED sttVars
          PROVE  turn' \in interrupted' => ~started' /\ winner' = None
        BY <1>0, <2>2, <3>1, DecideWins DEF Shut, sttVars
    <3>2. CASE Reset
        BY <3>2 DEF Reset
    <3>3. CASE Transcript
      <4>1. turn' = turn + 1
        BY <3>3 DEF Transcript
      <4>2. turn' \notin interrupted'
        BY <1>0, <2>2, <4>1
      <4>3. QED
        BY <4>2
    <3>4. CASE UNCHANGED <<active, winner, started, won, turn>>
        BY <2>2, <3>4 DEF Shut
    <3>5. QED
        BY <1>0, <3>1, <3>2, <3>3, <3>4, ArbiterMoves
  <2>3. QED
    BY <1>1, <2>1, <2>2
<1>3. interrupted \subseteq interrupted'
    BY <1>1 DEF CancelActiveAgents
<1>4. CASE UNCHANGED speechVars
  <2>1. stragglers' = stragglers
    BY <1>4 DEF speechVars
  <2>2. ASSUME NEW r \in Turns, stragglers'[r] = 1, Speaking', sub'.round = r PROVE FALSE
    <3>1. stragglers[r] = 1 /\ r \in interrupted
        BY <2>1, <2>2 DEF Shut
    <3>2. CASE Speaking /\ sub'.round = sub.round
        BY <2>2, <3>1, <3>2 DEF Shut
    <3>3. CASE sub'.round = turn /\ (winner # None \/ started)
        BY <2>2, <3>1, <3>3 DEF Shut
    <3>4. QED
        BY <1>0, <2>2, <3>2, <3>3, SpeakingMoves
  <2>3. QED
    BY <1>2, <1>3, <2>1, <2>2 DEF Shut
<1>5. CASE Speaking /\ HandOver /\ ~Speaking' /\ UNCHANGED <<turn, interrupted>>
  <2>1. \/ sub.round \notin interrupted /\ stragglers' = stragglers
        \/ sub.round \in interrupted /\ stragglers' = [stragglers EXCEPT ![sub.round] = @ + 1]
    BY <1>5 DEF HandOver
  <2>2. sub.round \in Turns => stragglers[sub.round] = 0
    BY <1>0, <1>5 DEF Shut
  <2>3. \A r \in Turns : stragglers'[r] <= 1
    BY <1>0, <2>1, <2>2 DEF Shut
  <2>4. \A r \in Turns : r \notin interrupted' => stragglers'[r] = 0
    BY <1>0, <1>5, <2>1 DEF Shut
  <2>5. QED
    BY <1>2, <1>5, <2>3, <2>4 DEF Shut
<1>6. QED
    BY <1>4, <1>5, SpeechMoves

\* Once a barge-in has reset the arbiter, at most one more text of that turn is
\* spoken, for any number of agents whose messages are still on their way.
THEOREM BargeInCloses == Spec => []AtMostOneStraggler
<1> DEFINE Inv == Arbitrated /\ Shut
<1>1. Init => Inv
  <2> SUFFICES ASSUME Init PROVE Inv
    OBVIOUS
  <2>1. /\ interrupted = {} /\ stragglers = [r \in Turns |-> 0]
        /\ subPc = "idle"
    BY DEF Init
  <2>2. Shut
    BY <2>1 DEF Shut, Speaking
  <2>3. QED
    BY <2>2, ArbitratedInit
<1>2. Inv /\ [Next]_vars => Inv'
    BY ArbitratedStep, ShutStep
<1>3. Inv => AtMostOneStraggler
    BY DEF Shut, AtMostOneStraggler
<1>4. QED
    BY <1>1, <1>2, <1>3, PTL DEF Spec

-----------------------------------------------------------------------------
(* The order of what is spoken *)

\* The pieces of a text are numbered in the order in which they came.
InOrder(b) ==
    /\ \A i, j \in 1..Len(b) : i < j => b[i].no < b[j].no
    /\ \A i \in 1..Len(b) : b[i].no <= deltas

AboveSpoken(p) == \A i \in 1..Len(spoken) : spoken[i] < p.no
AboveText(p)   == \A i \in 1..Len(sub.text) : sub.text[i].no < p.no

SpokenInOrder ==
    /\ \A i, j \in 1..Len(spoken) : i < j => spoken[i] < spoken[j]
    /\ \A i \in 1..Len(spoken) : spoken[i] <= deltas

TextInOrder ==
    Pending => InOrder(sub.text) /\ \A i \in 1..Len(sub.text) : AboveSpoken(sub.text[i])

\* What the buffer has not handed out is later than everything that was spoken
\* and than the text in the handler's hands.
RestIsLater ==
    \A j \in 1..Len(buffer) : j > EndOf(buffer, emitted) =>
        AboveSpoken(buffer[j]) /\ (Pending => AboveText(buffer[j]))

Ordered == InOrder(buffer) /\ SpokenInOrder /\ TextInOrder /\ RestIsLater

LEMMA NumbersTyped ==
    ASSUME Typed
    PROVE  /\ buffer \in Seq(Pieces) /\ Len(buffer) \in Nat /\ emitted \in Nat
           /\ sub.text \in Seq(Pieces) /\ Len(sub.text) \in Nat
           /\ Len(spoken) \in Nat /\ deltas \in Nat
           /\ \A i \in 1..Len(buffer) : buffer[i] \in Pieces /\ buffer[i].no \in Nat
           /\ \A i \in 1..Len(sub.text) : sub.text[i] \in Pieces /\ sub.text[i].no \in Nat
           /\ \A i \in 1..Len(spoken) : spoken[i] \in Nat
<1>1. buffer \in Seq(Pieces) /\ sub.text \in Seq(Pieces) /\ spoken \in Seq(1..MaxDeltas)
    BY DEF Typed, BufferTypes, SubTypes, HistoryTypes
<1>2. \A p \in Pieces : p.no \in Nat
    BY DEF Pieces
<1>3. emitted \in Nat
    BY DEF Typed, BufferTypes
<1>4. deltas \in Nat
    BY DEF Typed, AnswerTypes
<1>5. \A i \in 1..Len(buffer) : buffer[i] \in Pieces
    BY <1>1
<1>6. \A i \in 1..Len(sub.text) : sub.text[i] \in Pieces
    BY <1>1
<1>7. \A i \in 1..Len(spoken) : spoken[i] \in Nat
  <2>1. \A i \in 1..Len(spoken) : spoken[i] \in 1..MaxDeltas
      BY <1>1, ElementOfSeq
  <2> QED
      BY <2>1
<1>8. Len(buffer) \in Nat /\ Len(sub.text) \in Nat /\ Len(spoken) \in Nat
    BY <1>1
<1> QED
    BY <1>1, <1>2, <1>3, <1>4, <1>5, <1>6, <1>7, <1>8

\* Steps that leave buffer and speech alone, and give the handler no text.
LEMMA QuietOrdered ==
    ASSUME Typed, Ordered, UNCHANGED <<buffer, emitted, deltas, spoken>>,
           \/ Pending' => Pending /\ sub'.text = sub.text
           \/ sub'.text = <<>>
    PROVE  Ordered'
<1>1. InOrder(buffer)' /\ SpokenInOrder'
    BY DEF Ordered, InOrder, SpokenInOrder
<1>2. CASE Pending' => Pending /\ sub'.text = sub.text
  <2>1. TextInOrder'
      BY <1>2 DEF Ordered, TextInOrder, InOrder, AboveSpoken
  <2>2. RestIsLater'
      BY <1>2 DEF Ordered, RestIsLater, AboveSpoken, AboveText
  <2> QED
      BY <1>1, <2>1, <2>2 DEF Ordered
<1>3. CASE sub'.text = <<>>
  <2>1. \A i \in 1..Len(sub'.text) : FALSE
      BY <1>3
  <2>2. TextInOrder'
      BY <2>1 DEF TextInOrder, InOrder
  <2>3. RestIsLater'
      BY <2>1 DEF Ordered, RestIsLater, AboveSpoken, AboveText
  <2> QED
      BY <1>1, <2>2, <2>3 DEF Ordered
<1> QED
    BY <1>2, <1>3

\* An empty buffer has nothing left to hand out.
LEMMA EmptyText == \A i \in 1..Len(<<>>) : FALSE
    OBVIOUS

LEMMA ResetOrdered ==
    ASSUME Typed, Ordered, ResetBuffer, UNCHANGED <<deltas, spoken>>,
           Pending' => Pending /\ sub'.text = sub.text
    PROVE  Ordered'
<1>1. buffer' = <<>> /\ emitted' = 0
    BY DEF ResetBuffer
<1>2. (InOrder(buffer) /\ RestIsLater)'
    BY <1>1, EmptyText DEF InOrder, RestIsLater
<1>3. SpokenInOrder' /\ TextInOrder'
    BY DEF Ordered, SpokenInOrder, TextInOrder, InOrder, AboveSpoken
<1> QED
    BY <1>2, <1>3 DEF Ordered

\* A delta: its piece is later than all others, and what completes a sentence
\* is what had not been handed out before.
LEMMA DeltaOrdered ==
    ASSUME Typed, Ordered, NEW a \in Agents, NEW n \in Turns, ReceiveDelta(a, n)
    PROVE  Ordered'
<1>0. PICK ends \in Segmentations : buffer' = Added(a, ends)
    BY DEF ReceiveDelta
<1>1. /\ subPc = "idle" /\ deltas' = deltas + 1 /\ spoken' = spoken
      /\ emitted' = EmittedAfter(buffer')
      /\ deltas \in 0..MaxDeltas /\ deltas < MaxDeltas
    BY DEF ReceiveDelta, speechVars, Typed, AnswerTypes
<1>3. /\ buffer \in Seq(Pieces) /\ Len(buffer) \in Nat /\ emitted \in Nat /\ Len(spoken) \in Nat
      /\ deltas \in Nat
      /\ \A i \in 1..Len(buffer) : buffer[i].no \in Nat
      /\ \A i \in 1..Len(spoken) : spoken[i] \in Nat
    BY NumbersTyped
<1>5. /\ buffer' \in Seq(Pieces) /\ Len(buffer') = Len(buffer) + 1
      /\ \A i \in 1..Len(buffer) : buffer'[i].no = buffer[i].no
      /\ buffer'[Len(buffer) + 1].no = deltas + 1
      /\ \A i \in 1..Len(buffer) :
           i <= EndOf(buffer, emitted) => (buffer'[i].ends => buffer[i].ends)
    BY <1>0, <1>1, <1>3, AddedPieces
<1>6. \A i \in 1..Len(buffer') : i \in 1..Len(buffer) \/ i = Len(buffer) + 1
    BY <1>3, <1>5
<1>7. InOrder(buffer)'
  <2>1. \A i \in 1..Len(buffer) : buffer[i].no <= deltas
      BY DEF Ordered, InOrder
  <2>2. \A i \in 1..Len(buffer') : buffer'[i].no <= deltas'
      BY <1>1, <1>3, <1>5, <1>6, <2>1
  <2>3. ASSUME NEW i \in 1..Len(buffer'), NEW j \in 1..Len(buffer'), i < j
        PROVE  buffer'[i].no < buffer'[j].no
    <3>1. i \in 1..Len(buffer)
        BY <1>3, <1>5, <2>3
    <3>2. CASE j \in 1..Len(buffer)
        BY <1>5, <2>3, <3>1, <3>2 DEF Ordered, InOrder
    <3>3. CASE j = Len(buffer) + 1
        BY <1>3, <1>5, <2>1, <3>1, <3>3
    <3> QED
        BY <1>6, <3>2, <3>3
  <2> QED
      BY <2>2, <2>3 DEF InOrder
<1>8. SpokenInOrder'
  <2>1. \A i \in 1..Len(spoken) : spoken[i] <= deltas + 1
      BY <1>3 DEF Ordered, SpokenInOrder
  <2> QED
      BY <1>1, <2>1 DEF Ordered, SpokenInOrder
<1>9. /\ EndOf(buffer, emitted) \in Nat /\ EndOf(buffer', emitted) \in Nat
      /\ EndOf(buffer, emitted) <= EndOf(buffer', emitted)
  <2>1. EndOf(buffer, emitted) \in Nat /\ EndOf(buffer, emitted) <= Len(buffer)
      BY <1>3, EndIsNatural, EndWithin
  <2>2. \A i \in 1..EndOf(buffer, emitted) : buffer'[i].ends => buffer[i].ends
      BY <1>3, <1>5, <2>1
  <2>3. Len(buffer) <= Len(buffer')
      BY <1>3, <1>5
  <2> QED
      BY <1>3, <1>5, <2>1, <2>2, <2>3, EndIsNatural, EndGrows
<1>10. ASSUME NEW j \in 1..Len(buffer'), j > EndOf(buffer', emitted) PROVE AboveSpoken(buffer[j])'
  <2>1. CASE j \in 1..Len(buffer)
    <3>1. j > EndOf(buffer, emitted)
        BY <1>9, <1>10, <2>1
    <3> QED
        BY <1>1, <1>5, <2>1, <3>1 DEF Ordered, RestIsLater, AboveSpoken
  <2>2. CASE j = Len(buffer) + 1
    <3>1. \A i \in 1..Len(spoken) : spoken[i] < deltas + 1
        BY <1>3 DEF Ordered, SpokenInOrder
    <3> QED
        BY <1>1, <1>5, <2>2, <3>1 DEF AboveSpoken
  <2> QED
      BY <1>6, <2>1, <2>2
<1>11. Complete(buffer') \in Nat /\ emitted' \in Nat /\ emitted <= emitted'
    BY <1>1, <1>3, <1>5, CompleteIsNatural DEF EmittedAfter
<1>12. /\ EndOf(buffer', emitted') \in Nat
       /\ EndOf(buffer', emitted) <= EndOf(buffer', emitted')
    BY <1>3, <1>5, <1>11, EndIsNatural, MoreEndLater
<1>15. ASSUME NEW j \in 1..Len(buffer'), j > EndOf(buffer', emitted')
       PROVE  AboveSpoken(buffer[j])'
  <2>1. j > EndOf(buffer', emitted)
      BY <1>9, <1>12, <1>15
  <2> QED
      BY <1>10, <2>1
<1>13. CASE Complete(buffer') > emitted
  <2>1. subPc' = "decide" /\ sub'.text = NewComplete(buffer') /\ emitted' = Complete(buffer')
      BY <1>1, <1>13 DEF ReceiveDelta, EmittedAfter
  <2>5. \A i \in 1..Len(sub'.text) :
             /\ EndOf(buffer', emitted) + i \in 1..EndOf(buffer', emitted')
             /\ EndOf(buffer', emitted) + i \in 1..Len(buffer')
             /\ sub'.text[i] = buffer'[EndOf(buffer', emitted) + i]
      BY <1>3, <1>5, <2>1, NewPieces
  <2>4. RestIsLater'
    <3>1. ASSUME NEW j \in 1..Len(buffer'), j > EndOf(buffer', emitted'),
                 NEW i \in 1..Len(sub'.text)
          PROVE  sub'.text[i].no < buffer'[j].no
      <4>1. EndOf(buffer', emitted) + i < j
          BY <1>9, <1>12, <2>5, <3>1
      <4> QED
          BY <1>7, <2>5, <4>1 DEF InOrder
    <3> QED
        BY <1>15, <3>1 DEF RestIsLater, AboveText
  <2>6. InOrder(sub.text)'
    <3>1. ASSUME NEW i \in 1..Len(sub'.text), NEW j \in 1..Len(sub'.text), i < j
          PROVE  EndOf(buffer', emitted) + i < EndOf(buffer', emitted) + j
        BY <1>9, <3>1
    <3> QED
        BY <1>7, <2>5, <3>1 DEF InOrder
  <2>7. ASSUME NEW i \in 1..Len(sub'.text) PROVE AboveSpoken(sub.text[i])'
    <3>1. EndOf(buffer', emitted) + i > EndOf(buffer', emitted)
        BY <1>9
    <3> QED
        BY <1>10, <2>5, <3>1 DEF AboveSpoken
  <2> QED
      BY <1>7, <1>8, <2>4, <2>6, <2>7 DEF Ordered, TextInOrder
<1>14. CASE ~(Complete(buffer') > emitted)
  <2>1. subPc' = "idle"
      BY <1>1, <1>14 DEF ReceiveDelta, subVars
  <2>2. ~Pending'
      BY <2>1 DEF Pending
  <2> QED
      BY <1>7, <1>8, <1>15, <2>2 DEF Ordered, TextInOrder, RestIsLater
<1> QED
    BY <1>13, <1>14

\* The rest of the buffer at the end of an answer.
LEMMA FlushOrdered == ASSUME Typed, Ordered, Flush PROVE Ordered'
<1>1. /\ buffer' = <<>> /\ emitted' = 0 /\ UNCHANGED <<deltas, spoken>>
      /\ sub'.text = Behind(buffer, emitted)
    BY DEF Flush, ResetBuffer, agentVars, speechVars, Typed, SubTypes
<1>2. (InOrder(buffer) /\ RestIsLater)'
    BY <1>1, EmptyText DEF InOrder, RestIsLater
<1>3. SpokenInOrder'
    BY <1>1 DEF Ordered, SpokenInOrder
<1>4. buffer \in Seq(Pieces) /\ emitted \in Nat
    BY NumbersTyped
<1>5. /\ EndOf(buffer, emitted) \in Nat
      /\ \A i \in 1..Len(sub'.text) :
           /\ EndOf(buffer, emitted) + i \in 1..Len(buffer)
           /\ sub'.text[i] = buffer[EndOf(buffer, emitted) + i]
  <2>1. EndOf(buffer, emitted) \in Nat
      BY <1>4, EndIsNatural
  <2>2. \A i \in 1..Len(Behind(buffer, emitted)) :
           /\ EndOf(buffer, emitted) + i \in 1..Len(buffer)
           /\ Behind(buffer, emitted)[i] = buffer[EndOf(buffer, emitted) + i]
      BY <1>4, BehindPieces
  <2> QED
      BY <1>1, <2>1, <2>2
<1>6. InOrder(sub.text)'
  <2>1. ASSUME NEW i \in 1..Len(sub'.text), NEW j \in 1..Len(sub'.text), i < j
        PROVE  EndOf(buffer, emitted) + i < EndOf(buffer, emitted) + j
      BY <1>5, <2>1
  <2> QED
      BY <1>1, <1>5, <2>1 DEF Ordered, InOrder
<1>7. ASSUME NEW i \in 1..Len(sub'.text) PROVE AboveSpoken(sub.text[i])'
  <2>1. EndOf(buffer, emitted) + i > EndOf(buffer, emitted)
      BY <1>5
  <2> QED
      BY <1>1, <1>5, <2>1 DEF Ordered, RestIsLater, AboveSpoken
<1> QED
    BY <1>2, <1>3, <1>6, <1>7 DEF Ordered, TextInOrder

\* What is handed to speech is later than all that was, and earlier than the
\* rest of the buffer.
LEMMA HandOverOrdered ==
    ASSUME Typed, Ordered, HandOver, Pending, ~Pending', UNCHANGED <<buffer, emitted, deltas>>
    PROVE  Ordered'
<1> DEFINE nos == [i \in DOMAIN sub.text |-> sub.text[i].no]
           m == Len(spoken)
<1>1. /\ sub.text \in Seq(Pieces) /\ Len(sub.text) \in Nat /\ m \in Nat
      /\ \A i \in 1..Len(sub.text) : sub.text[i] \in Pieces /\ sub.text[i].no \in Nat
      /\ \A i \in 1..m : spoken[i] \in Nat
      /\ spoken \in Seq(1..MaxDeltas)
    BY NumbersTyped DEF Typed, HistoryTypes
<1>2. nos \in Seq(1..MaxDeltas) /\ Len(nos) = Len(sub.text) /\ \A i \in 1..Len(sub.text) : nos[i] = sub.text[i].no
  <2>1. DOMAIN sub.text = 1..Len(sub.text)
      BY <1>1
  <2>2. \A x \in Pieces : x.no \in 1..MaxDeltas
      BY DEF Pieces
  <2>3. nos \in [1..Len(sub.text) -> 1..MaxDeltas] /\ Len(sub.text) \in Nat
      BY <1>1, <2>1, <2>2
  <2>4. \A i \in 1..Len(sub.text) : nos[i] = sub.text[i].no
      BY <2>1
  <2> HIDE DEF nos
  <2>5. nos \in Seq(1..MaxDeltas)
      BY <2>3, SeqDef
  <2>6. Len(nos) = Len(sub.text)
      BY <2>3, <2>5, LenProperties
  <2> QED
      BY <2>4, <2>5, <2>6
<1>3. spoken' = spoken \o nos
    BY DEF HandOver
<1> HIDE DEF nos
<1>4. /\ Len(spoken') = m + Len(sub.text)
      /\ \A i \in 1..m : spoken'[i] = spoken[i]
      /\ \A i \in 1..Len(sub.text) : spoken'[m + i] = sub.text[i].no
  <2>1. /\ Len(spoken \o nos) = Len(spoken) + Len(nos)
        /\ \A i \in 1..(Len(spoken) + Len(nos)) :
             (spoken \o nos)[i] = IF i <= Len(spoken) THEN spoken[i] ELSE nos[i - Len(spoken)]
      BY <1>1, <1>2, ConcatProperties
  <2>2. \A i \in 1..m : i \in 1..(m + Len(nos)) /\ i <= m
      BY <1>1, <1>2
  <2>3. \A i \in 1..Len(sub.text) : m + i \in 1..(m + Len(nos)) /\ ~(m + i <= m) /\ m + i - m = i
      BY <1>1, <1>2
  <2> QED
      BY <1>2, <1>3, <2>1, <2>2, <2>3
<1>5. ASSUME NEW i \in 1..Len(spoken')
      PROVE  i \in 1..m \/ \E k \in 1..Len(sub.text) : i = m + k
  <2>1. CASE i <= m
      BY <1>1, <2>1
  <2>2. CASE i > m
    <3>1. i - m \in 1..Len(sub.text) /\ i = m + (i - m)
        BY <1>1, <1>4, <2>2
    <3> QED
        BY <3>1
  <2> QED
      BY <1>1, <2>1, <2>2
<1>6. /\ \A i, j \in 1..m : i < j => spoken[i] < spoken[j]
      /\ \A i \in 1..m : spoken[i] <= deltas
      /\ \A i, j \in 1..Len(sub.text) : i < j => sub.text[i].no < sub.text[j].no
      /\ \A i \in 1..Len(sub.text) : sub.text[i].no <= deltas
      /\ \A i \in 1..m, j \in 1..Len(sub.text) : spoken[i] < sub.text[j].no
    BY DEF Ordered, SpokenInOrder, TextInOrder, InOrder, AboveSpoken
<1>7. SpokenInOrder'
  <2>1. ASSUME NEW i \in 1..Len(spoken') PROVE spoken'[i] <= deltas
      BY <1>4, <1>5, <1>6
  <2>2. ASSUME NEW i \in 1..Len(spoken'), NEW j \in 1..Len(spoken'), i < j
        PROVE  spoken'[i] < spoken'[j]
    <3>1. CASE i \in 1..m /\ j \in 1..m
        BY <1>4, <1>6, <2>2, <3>1
    <3>2. ASSUME i \in 1..m, NEW l \in 1..Len(sub.text), j = m + l PROVE spoken'[i] < spoken'[j]
        BY <1>4, <1>6, <3>2
    <3>3. ASSUME NEW k \in 1..Len(sub.text), i = m + k, NEW l \in 1..Len(sub.text), j = m + l
          PROVE  spoken'[i] < spoken'[j]
      <4>1. k < l
          BY <1>1, <2>2, <3>3
      <4> QED
          BY <1>4, <1>6, <3>3, <4>1
    <3>4. ASSUME NEW k \in 1..Len(sub.text), i = m + k, j \in 1..m PROVE FALSE
        BY <1>1, <2>2, <3>4
    <3> QED
        BY <1>5, <3>1, <3>2, <3>3, <3>4
  <2> QED
      BY <2>1, <2>2 DEF SpokenInOrder
<1>8. RestIsLater'
  <2> SUFFICES ASSUME NEW j \in 1..Len(buffer), j > EndOf(buffer, emitted),
                      NEW i \in 1..Len(spoken')
               PROVE  spoken'[i] < buffer[j].no
      BY DEF RestIsLater, AboveSpoken
  <2>1. AboveSpoken(buffer[j]) /\ AboveText(buffer[j])
      BY DEF Ordered, RestIsLater
  <2> QED
      BY <1>4, <1>5, <2>1 DEF AboveSpoken, AboveText
<1>9. TextInOrder' /\ InOrder(buffer)'
    BY DEF Ordered, TextInOrder, InOrder
<1> QED
    BY <1>7, <1>8, <1>9 DEF Ordered

LEMMA OrderedStep == ASSUME Typed, Ordered, [Next]_vars PROVE Ordered'
<1>1. ASSUME NEW a \in Agents, NEW n \in Turns, ReceiveDelta(a, n) PROVE Ordered'
    BY <1>1, DeltaOrdered
<1>2. ASSUME NEW a \in Agents, NEW n \in Turns, ReceiveDone(a, n) PROVE Ordered'
  <2>1. UNCHANGED <<buffer, emitted, deltas, spoken>> /\ ~Pending'
      BY <1>2 DEF ReceiveDone, bufferVars, speechVars, Pending
  <2> QED
      BY <2>1, QuietOrdered
<1>3. ASSUME NEW a \in Agents, NEW n \in Turns, ReceiveReply(a, n) PROVE Ordered'
  <2>1. UNCHANGED <<buffer, emitted, deltas, spoken>> /\ sub'.text = <<>>
      BY <1>3 DEF ReceiveReply, bufferVars, speechVars
  <2> QED
      BY <2>1, QuietOrdered
<1>4. CASE DecideDelta \/ DecideDone
  <2>1. UNCHANGED <<buffer, emitted, deltas, spoken>> /\ sub'.text = sub.text
      BY <1>4 DEF DecideDelta, DecideDone, bufferVars, agentVars, speechVars, Typed, SubTypes
  <2>2. Pending' => Pending
      BY <1>4 DEF DecideDelta, DecideDone, Pending
  <2> QED
      BY <2>1, <2>2, QuietOrdered
<1>5. CASE Discard
  <2>1. ResetBuffer /\ UNCHANGED <<deltas, spoken>> /\ ~Pending'
      BY <1>5 DEF Discard, agentVars, speechVars, Pending
  <2> QED
      BY <2>1, ResetOrdered
<1>6. CASE CancelLosers
  <2>1. UNCHANGED <<buffer, emitted, deltas, spoken, sub>> /\ Pending
      BY <1>6 DEF CancelLosers, bufferVars, agentVars, speechVars, Pending
  <2> QED
      BY <2>1, QuietOrdered
<1>7. CASE Speak \/ SpeakRest
  <2>1. HandOver /\ Pending /\ ~Pending' /\ UNCHANGED <<buffer, emitted, deltas>>
      BY <1>7 DEF Speak, SpeakRest, Pending, bufferVars, agentVars
  <2> QED
      BY <2>1, HandOverOrdered
<1>8. CASE Flush
    BY <1>8, FlushOrdered
<1>9. CASE DoneReset
  <2>1. UNCHANGED <<buffer, emitted, deltas, spoken>> /\ ~Pending'
      BY <1>9 DEF DoneReset, bufferVars, agentVars, speechVars, Pending
  <2> QED
      BY <2>1, QuietOrdered
<1>10. CASE StopTTS
  <2>1. ResetBuffer /\ UNCHANGED <<deltas, spoken, subPc, sub>>
      BY <1>10 DEF StopTTS, agentVars, speechVars, subVars
  <2> QED
      BY <2>1, ResetOrdered DEF Pending
<1>11. CASE ReplyDone \/ ReplyError \/ Transcript \/ PublishToAgents \/ CancelActiveAgents \/ UNCHANGED vars
  <2>1. UNCHANGED <<buffer, emitted, deltas, spoken, subPc, sub>>
      BY <1>11 DEF ReplyDone, ReplyError, Transcript, PublishToAgents, CancelActiveAgents, vars,
         bufferVars, subVars, agentVars, speechVars
  <2> QED
      BY <2>1, QuietOrdered DEF Pending
<1> QED
    BY <1>1, <1>2, <1>3, <1>4, <1>5, <1>6, <1>7, <1>8, <1>9, <1>10, <1>11
       DEF Next, Message, Handler, ReadLoop

\* Several agents write into one sentence buffer, and losers and barge-ins
\* reset it between an Add and the use of what it returned: still no piece is
\* spoken twice or before an earlier one, for any number of agents and deltas.
THEOREM NothingTwice == Spec => []SpokenOnceInOrder
<1> DEFINE Inv == Typed /\ Named /\ Ordered
<1>1. Init => Inv
  <2> SUFFICES ASSUME Init PROVE Inv
      OBVIOUS
  <2>1. buffer = <<>> /\ emitted = 0 /\ spoken = <<>> /\ subPc = "idle"
      BY DEF Init
  <2>2. Ordered
      BY <2>1, EmptyText DEF Ordered, InOrder, SpokenInOrder, TextInOrder, RestIsLater, Pending
  <2> QED
      BY <2>2, TypeInit
<1>2. Inv /\ [Next]_vars => Inv'
    BY TypeStep, OrderedStep
<1>3. Inv => SpokenOnceInOrder
  <2> SUFFICES ASSUME Inv PROVE SpokenOnceInOrder
      OBVIOUS
  <2>1. DOMAIN spoken = 1..Len(spoken)
      BY DEF Typed, HistoryTypes
  <2> QED
      BY <2>1 DEF SpokenOnceInOrder, Ordered, SpokenInOrder
<1> QED
    BY <1>1, <1>2, <1>3, PTL DEF Spec

=============================================================================
