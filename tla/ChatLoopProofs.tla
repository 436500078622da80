--------------------------- MODULE ChatLoopProofs ---------------------------
(***************************************************************************)
(* Proofs about ChatLoop, for every number of prompts, steers, runs, hook  *)
(* messages and faults and every limit: the queue keeps its order, every   *)
(* record is in one place, no prompt is left behind by a loop that closes  *)
(* its queue, and no checkpoint overlooks a steer.                         *)
(***************************************************************************)
EXTENDS ChatLoop, NaturalsInduction, WellFoundedInduction, SequenceTheorems,
        FiniteSetTheorems, TLAPS

-----------------------------------------------------------------------------
(* Induction for sets of numbers.                                          *)

LEMMA LeastOf ==
    ASSUME NEW S \in SUBSET Nat, S # {}
    PROVE  \E x \in S : \A y \in S : x <= y
<1> DEFINE Less == {p \in Nat \X Nat : p[1] < p[2]}
<1>1. OpToRel(<, Nat) = Less
  BY Zenon DEF OpToRel
<1>2. IsWellFoundedOn(Less, Nat)
  BY <1>1, NatLessThanWellFounded, Zenon
<1> HIDE DEF Less
<1>3. PICK x \in S : \A y \in S : ~ (<<y, x>> \in Less)
  BY <1>2, WFMin, Zenon
<1>4. ASSUME NEW y \in S PROVE x <= y
  <2>1. <<y, x>> \in Nat \X Nat /\ ~ (<<y, x>> \in Less)
    BY <1>3
  <2>2. ~ (y < x)
    BY <2>1, Zenon DEF Less
  <2> QED
    BY <2>2
<1> QED
  BY <1>4

\* A set that has 0, and the successor of every number it has, has them all.
LEMMA SetInduction ==
    ASSUME NEW S \in SUBSET Nat, 0 \in S, \A n \in S : n + 1 \in S
    PROVE  S = Nat
<1> SUFFICES ASSUME Nat \ S # {} PROVE FALSE
  OBVIOUS
<1>1. PICK x \in Nat \ S : \A y \in Nat \ S : x <= y
  BY LeastOf
<1>2. x - 1 \in Nat /\ x - 1 \notin Nat \ S
  BY <1>1
<1> QED
  BY <1>1, <1>2

-----------------------------------------------------------------------------
(* Sequences of records.  A prompt is a record of a queued prompt or of a  *)
(* steer.  A sequence is fine if it has no prompt twice, and its queued    *)
(* prompts in order.                                                       *)

Prompt == {r \in Record : r.kind \in {"queued", "steer"}}
PromptsOf(q) == {r \in ToSet(q) : r.kind \in {"queued", "steer"}}

Apart(a, b) ==
    /\ a.kind \in {"queued", "steer"} => a # b
    /\ a.kind = "queued" /\ b.kind = "queued" => a.n < b.n

Fine(q) == \A i, j \in DOMAIN q : i < j => Apart(q[i], q[j])
Before(P, Q) == \A a \in P, b \in Q : Apart(a, b)

LEMMA EmptyFact ==
    <<>> \in Seq(Record) /\ Len(<<>>) = 0 /\ ToSet(<<>>) = {} /\ PromptsOf(<<>>) = {}
      /\ Fine(<<>>)
  BY DEF ToSet, PromptsOf, Fine

LEMMA PromptsFact ==
    ASSUME NEW q \in Seq(Record)
    PROVE  ToSet(q) \subseteq Record /\ PromptsOf(q) \subseteq Prompt
<1>1. \A i \in DOMAIN q : q[i] \in Record
  OBVIOUS
<1> QED
  BY <1>1 DEF PromptsOf, Prompt, ToSet

\* Only prompts can be in each other's way.
LEMMA BeforePrompts ==
    ASSUME NEW p \in Seq(Record), NEW q \in Seq(Record)
    PROVE  Before(ToSet(p), ToSet(q)) <=> Before(PromptsOf(p), PromptsOf(q))
<1>1. ASSUME Before(PromptsOf(p), PromptsOf(q)), NEW a \in ToSet(p), NEW b \in ToSet(q)
      PROVE  Apart(a, b)
  <2>1. CASE a \notin PromptsOf(p)
    BY <2>1 DEF PromptsOf, Apart
  <2>2. CASE a \in PromptsOf(p) /\ b \notin PromptsOf(q)
    BY <2>2 DEF PromptsOf, Apart
  <2>3. CASE a \in PromptsOf(p) /\ b \in PromptsOf(q)
    BY <1>1, <2>3 DEF Before
  <2> QED
    BY <2>1, <2>2, <2>3
<1>2. PromptsOf(p) \subseteq ToSet(p) /\ PromptsOf(q) \subseteq ToSet(q)
  BY DEF PromptsOf
<1> QED
  BY <1>1, <1>2 DEF Before

LEMMA AppendFact ==
    ASSUME NEW q \in Seq(Record), NEW r \in Record
    PROVE  /\ Append(q, r) \in Seq(Record)
           /\ ToSet(Append(q, r)) = ToSet(q) \cup {r}
           /\ Fine(q) /\ Before(ToSet(q), {r}) => Fine(Append(q, r))
<1>1. /\ Append(q, r) \in Seq(Record) /\ Len(Append(q, r)) = Len(q) + 1
      /\ \A i \in 1 .. Len(q) : Append(q, r)[i] = q[i]
      /\ Append(q, r)[Len(q) + 1] = r
  BY AppendProperties
<1> DEFINE a == Append(q, r)
<1>2. DOMAIN a = 1 .. Len(q) + 1 /\ DOMAIN q = 1 .. Len(q) /\ Len(q) \in Nat
  BY <1>1
<1> HIDE DEF a
<1>3. ToSet(a) = ToSet(q) \cup {r}
  BY <1>1, <1>2 DEF ToSet, a
<1>4. ASSUME Fine(q), Before(ToSet(q), {r}), NEW i \in DOMAIN a, NEW j \in DOMAIN a, i < j
      PROVE  Apart(a[i], a[j])
  <2>1. i \in DOMAIN q /\ a[i] = q[i]
    BY <1>1, <1>2, <1>4 DEF a
  <2>2. CASE j \in DOMAIN q
    BY <1>1, <1>2, <1>4, <2>1, <2>2 DEF a, Fine
  <2>3. CASE j = Len(q) + 1
    BY <1>1, <1>4, <2>1, <2>3 DEF a, Before, ToSet
  <2> QED
    BY <1>2, <2>2, <2>3
<1> QED
  BY <1>1, <1>3, <1>4 DEF a, Fine

LEMMA ConcatFact ==
    ASSUME NEW p \in Seq(Record), NEW q \in Seq(Record)
    PROVE  /\ p \o q \in Seq(Record)
           /\ Len(p \o q) = Len(p) + Len(q)
           /\ ToSet(p \o q) = ToSet(p) \cup ToSet(q)
           /\ PromptsOf(p \o q) = PromptsOf(p) \cup PromptsOf(q)
           /\ Fine(p) /\ Fine(q) /\ Before(PromptsOf(p), PromptsOf(q)) => Fine(p \o q)
<1> DEFINE c == p \o q
<1>1. /\ c \in Seq(Record) /\ Len(c) = Len(p) + Len(q)
      /\ \A i \in 1 .. Len(p) : c[i] = p[i]
      /\ \A i \in 1 .. Len(q) : c[Len(p) + i] = q[i]
  BY ConcatProperties
<1>2. /\ DOMAIN c = 1 .. Len(p) + Len(q) /\ DOMAIN p = 1 .. Len(p)
      /\ DOMAIN q = 1 .. Len(q) /\ Len(p) \in Nat /\ Len(q) \in Nat
  BY <1>1
<1> HIDE DEF c
<1>3. ASSUME NEW i \in DOMAIN c
      PROVE  \/ i \in DOMAIN p /\ c[i] = p[i]
             \/ i - Len(p) \in DOMAIN q /\ c[i] = q[i - Len(p)]
  <2>1. CASE i <= Len(p)
    BY <1>1, <1>2, <2>1
  <2>2. CASE i > Len(p)
    <3>1. i - Len(p) \in DOMAIN q /\ Len(p) + (i - Len(p)) = i
      BY <1>2, <2>2
    <3> QED
      BY <1>1, <1>2, <3>1
  <2> QED
    BY <1>2, <2>1, <2>2
<1>4. ToSet(c) = ToSet(p) \cup ToSet(q)
  <2>1. ToSet(c) \subseteq ToSet(p) \cup ToSet(q)
    BY <1>3 DEF ToSet
  <2>2. ASSUME NEW i \in DOMAIN p PROVE p[i] \in ToSet(c)
    BY <1>1, <1>2, <2>2 DEF ToSet
  <2>3. ASSUME NEW i \in DOMAIN q PROVE q[i] \in ToSet(c)
    <3>1. Len(p) + i \in DOMAIN c /\ c[Len(p) + i] = q[i]
      BY <1>1, <1>2
    <3> QED
      BY <3>1 DEF ToSet
  <2> QED
    BY <2>1, <2>2, <2>3 DEF ToSet
<1>5. ASSUME Fine(p), Fine(q), Before(ToSet(p), ToSet(q)),
             NEW i \in DOMAIN c, NEW j \in DOMAIN c, i < j
      PROVE  Apart(c[i], c[j])
  <2>1. CASE j \in DOMAIN p
    <3>1. i \in DOMAIN p /\ c[i] = p[i] /\ c[j] = p[j]
      BY <1>1, <1>2, <1>5, <2>1
    <3> QED
      BY <1>5, <2>1, <3>1 DEF Fine
  <2>2. CASE i \in DOMAIN p /\ j \notin DOMAIN p
    <3>1. c[i] = p[i] /\ j - Len(p) \in DOMAIN q /\ c[j] = q[j - Len(p)]
      BY <1>1, <1>2, <1>3, <2>2
    <3>2. c[i] \in ToSet(p) /\ c[j] \in ToSet(q)
      BY <2>2, <3>1 DEF ToSet
    <3> QED
      BY <1>5, <3>2 DEF Before
  <2>3. CASE i \notin DOMAIN p
    <3>1. j \notin DOMAIN p
      BY <1>2, <1>5, <2>3
    <3>2. /\ i - Len(p) \in DOMAIN q /\ c[i] = q[i - Len(p)]
          /\ j - Len(p) \in DOMAIN q /\ c[j] = q[j - Len(p)]
      BY <1>3, <2>3, <3>1
    <3>3. i - Len(p) < j - Len(p)
      BY <1>2, <1>5
    <3> QED
      BY <1>5, <3>2, <3>3 DEF Fine
  <2> QED
    BY <2>1, <2>2, <2>3
<1>6. Fine(p) /\ Fine(q) /\ Before(PromptsOf(p), PromptsOf(q)) => Fine(c)
  BY <1>5, BeforePrompts DEF Fine
<1> QED
  BY <1>1, <1>4, <1>6 DEF c, PromptsOf

-----------------------------------------------------------------------------
(* Select.  Its recursive function is well defined, and adds one element   *)
(* after the other.                                                        *)

Chosen(q, S, h) ==
    h = [i \in 0..Len(q) |->
            IF i = 0 THEN <<>>
            ELSE IF q[i] \in S THEN Append(h[i - 1], q[i]) ELSE h[i - 1]]

\* The same for the first n elements.
ChosenUpTo(q, S, n, h) ==
    /\ h \in [0..n -> Seq(Record)]
    /\ h[0] = <<>>
    /\ \A i \in 1..n : h[i] = IF q[i] \in S THEN Append(h[i - 1], q[i]) ELSE h[i - 1]

LEMMA ChosenExists ==
    ASSUME NEW q \in Seq(Record), NEW S
    PROVE  \E h : ChosenUpTo(q, S, Len(q), h)
<1> DEFINE B == {n \in Nat : n <= Len(q) => \E h : ChosenUpTo(q, S, n, h)}
<1>1. 0 \in B
  <2> DEFINE h == [i \in 0..0 |-> <<>>]
  <2>1. <<>> \in Seq(Record) /\ 0 \in 0..0
    OBVIOUS
  <2>2. h \in [0..0 -> Seq(Record)] /\ h[0] = <<>>
    BY <2>1
  <2>3. \A i \in 1..0 : FALSE
    OBVIOUS
  <2> HIDE DEF h
  <2>4. ChosenUpTo(q, S, 0, h)
    BY <2>2, <2>3 DEF ChosenUpTo
  <2>5. \E g : ChosenUpTo(q, S, 0, g)
    BY <2>4, Zenon
  <2> QED
    BY <2>5
<1>2. ASSUME NEW n \in B PROVE n + 1 \in B
  <2> SUFFICES ASSUME n + 1 <= Len(q) PROVE \E h : ChosenUpTo(q, S, n + 1, h)
    OBVIOUS
  <2>1. n \in Nat /\ n <= Len(q) /\ n + 1 \in 1 .. Len(q)
    OBVIOUS
  <2>2. PICK g : ChosenUpTo(q, S, n, g)
    BY <2>1
  <2> DEFINE e == IF q[n + 1] \in S THEN Append(g[n], q[n + 1]) ELSE g[n]
             h == [i \in 0 .. n + 1 |-> IF i = n + 1 THEN e ELSE g[i]]
  <2>3. g[n] \in Seq(Record) /\ q[n + 1] \in Record
    BY <2>1, <2>2 DEF ChosenUpTo
  <2>4. e \in Seq(Record)
    BY <2>3, AppendProperties
  <2> HIDE DEF e
  <2>5. ASSUME NEW i \in 0 .. n + 1
        PROVE  (IF i = n + 1 THEN e ELSE g[i]) \in Seq(Record)
    BY <2>1, <2>2, <2>4 DEF ChosenUpTo
  <2>6. h \in [0 .. n + 1 -> Seq(Record)]
    BY <2>5
  <2>7. h[n + 1] = e /\ \A i \in 0 .. n : h[i] = g[i]
    BY <2>1
  <2> HIDE DEF h
  <2>8. h[0] = <<>>
    <3>1. 0 \in 0 .. n
      BY <2>1
    <3>2. h[0] = g[0]
      BY <2>7, <3>1
    <3> QED
      BY <2>2, <3>2 DEF ChosenUpTo
  <2>9. ASSUME NEW i \in 1 .. n + 1
        PROVE  h[i] = IF q[i] \in S THEN Append(h[i - 1], q[i]) ELSE h[i - 1]
    <3>1. CASE i = n + 1
      <4>1. h[i] = e /\ h[i - 1] = g[n]
        BY <2>1, <2>7, <3>1
      <4> QED
        BY <3>1, <4>1 DEF e
    <3>2. CASE i # n + 1
      <4>1. i \in 1 .. n /\ h[i] = g[i] /\ h[i - 1] = g[i - 1]
        BY <2>1, <2>7, <3>2
      <4> QED
        BY <2>2, <4>1 DEF ChosenUpTo
    <3> QED
      BY <3>1, <3>2
  <2>10. ChosenUpTo(q, S, n + 1, h)
    BY <2>6, <2>8, <2>9 DEF ChosenUpTo
  <2> QED
    BY <2>10, Zenon
<1>3. B \in SUBSET Nat
  OBVIOUS
<1> HIDE DEF B
<1>4. B = Nat
  BY <1>1, <1>2, <1>3, SetInduction
<1>5. Len(q) \in B /\ Len(q) <= Len(q)
  BY <1>4
<1> QED
  BY <1>5 DEF B

LEMMA SelectChosen ==
    ASSUME NEW q \in Seq(Record), NEW S
    PROVE  \E h : ChosenUpTo(q, S, Len(q), h) /\ Select(q, S) = h[Len(q)]
<1>0. 0 \in 0..Len(q)
  OBVIOUS
<1>1. PICK g : ChosenUpTo(q, S, Len(q), g)
  BY ChosenExists
<1>2. Chosen(q, S, g)
  <2> DEFINE f == [i \in 0..Len(q) |->
                     IF i = 0 THEN <<>>
                     ELSE IF q[i] \in S THEN Append(g[i - 1], q[i]) ELSE g[i - 1]]
  <2>1. ASSUME NEW i \in 0..Len(q) PROVE f[i] = g[i]
    <3>1. CASE i = 0
      BY <1>1, <3>1 DEF ChosenUpTo
    <3>2. CASE i # 0
      <4>1. i \in 1..Len(q)
        BY <3>2
      <4>2. f[i] = IF q[i] \in S THEN Append(g[i - 1], q[i]) ELSE g[i - 1]
        BY <3>2
      <4> HIDE DEF f
      <4> QED
        BY <1>1, <4>1, <4>2 DEF ChosenUpTo
    <3> QED
      BY <3>1, <3>2
  <2>2. DOMAIN f = 0..Len(q) /\ f = [i \in 0..Len(q) |-> f[i]]
    OBVIOUS
  <2>3. DOMAIN g = 0..Len(q) /\ g = [i \in 0..Len(q) |-> g[i]]
    BY <1>1 DEF ChosenUpTo
  <2> HIDE DEF f
  <2>4. g = f
    BY <2>1, <2>2, <2>3
  <2> QED
    BY <2>4 DEF f, Chosen
<1> DEFINE h == CHOOSE h : Chosen(q, S, h)
<1>3. Select(q, S) = h[Len(q)]
  BY DEF Select, Chosen
<1>4. Chosen(q, S, h)
  BY <1>2
<1> HIDE DEF h
<1>5. h \in [0..Len(q) -> Seq(Record)]
  <2> DEFINE B == {n \in Nat : n <= Len(q) => h[n] \in Seq(Record)}
  <2>1. h[0] = <<>>
    BY <1>4, <1>0, Zenon DEF Chosen
  <2>2. 0 \in B
    BY <2>1, EmptyFact
  <2>3. ASSUME NEW n \in B PROVE n + 1 \in B
    <3> SUFFICES ASSUME n + 1 <= Len(q) PROVE h[n + 1] \in Seq(Record)
      OBVIOUS
    <3>1. n + 1 \in 0..Len(q) /\ n + 1 # 0 /\ q[n + 1] \in Record /\ (n + 1) - 1 = n
      OBVIOUS
    <3>2. h[n] \in Seq(Record)
      BY <3>1
    <3>3. h[n + 1] = IF q[n + 1] \in S THEN Append(h[(n + 1) - 1], q[n + 1])
                                        ELSE h[(n + 1) - 1]
      BY <1>4, <3>1, Zenon DEF Chosen
    <3>4. h[n + 1] = IF q[n + 1] \in S THEN Append(h[n], q[n + 1]) ELSE h[n]
      BY <3>1, <3>3
    <3> QED
      BY <3>1, <3>2, <3>4, AppendProperties
  <2>4. B \in SUBSET Nat
    OBVIOUS
  <2> HIDE DEF B
  <2>5. B = Nat
    BY <2>2, <2>3, <2>4, SetInduction
  <2>6. \A i \in 0..Len(q) : h[i] \in Seq(Record)
    BY <2>5 DEF B
  <2>7. h = [i \in 0..Len(q) |-> h[i]]
    BY <1>4, Zenon DEF Chosen
  <2> QED
    BY <2>6, <2>7
<1>6. h[0] = <<>>
  BY <1>4, <1>0, Zenon DEF Chosen
<1>7. ASSUME NEW i \in 1..Len(q)
      PROVE  h[i] = IF q[i] \in S THEN Append(h[i - 1], q[i]) ELSE h[i - 1]
  <2>1. i \in 0..Len(q) /\ i # 0
    OBVIOUS
  <2> QED
    BY <1>4, <2>1, Zenon DEF Chosen
<1>8. ChosenUpTo(q, S, Len(q), h)
  BY <1>5, <1>6, <1>7 DEF ChosenUpTo
<1> QED
  BY <1>3, <1>8

\* Select keeps what is in S, and the order.
LEMMA SelectFact ==
    ASSUME NEW q \in Seq(Record), NEW S
    PROVE  /\ Select(q, S) \in Seq(Record)
           /\ ToSet(Select(q, S)) = ToSet(q) \cap S
           /\ Fine(q) => Fine(Select(q, S))
<1>1. PICK h : ChosenUpTo(q, S, Len(q), h) /\ Select(q, S) = h[Len(q)]
  BY SelectChosen
<1> DEFINE Seen(n) == {q[j] : j \in 1..n}
           B == {n \in Nat : n <= Len(q) =>
                   /\ h[n] \in Seq(Record)
                   /\ ToSet(h[n]) = Seen(n) \cap S
                   /\ Fine(q) => Fine(h[n])}
<1>2. 0 \in B
  <2>1. h[0] = <<>>
    BY <1>1 DEF ChosenUpTo
  <2>2. Seen(0) = {}
    OBVIOUS
  <2> QED
    BY <2>1, <2>2, EmptyFact
<1>3. ASSUME NEW n \in B PROVE n + 1 \in B
  <2> SUFFICES ASSUME n + 1 <= Len(q)
               PROVE  /\ h[n + 1] \in Seq(Record)
                      /\ ToSet(h[n + 1]) = Seen(n + 1) \cap S
                      /\ Fine(q) => Fine(h[n + 1])
    OBVIOUS
  <2>1. /\ h[n] \in Seq(Record) /\ ToSet(h[n]) = Seen(n) \cap S
        /\ Fine(q) => Fine(h[n])
    OBVIOUS
  <2>2. n + 1 \in 1..Len(q) /\ q[n + 1] \in Record /\ (n + 1) - 1 = n
    OBVIOUS
  <2>3. h[n + 1] = IF q[n + 1] \in S THEN Append(h[n], q[n + 1]) ELSE h[n]
    BY <1>1, <2>2 DEF ChosenUpTo
  <2>4. Seen(n + 1) = Seen(n) \cup {q[n + 1]}
    <3>1. 1 .. n + 1 = 1 .. n \cup {n + 1}
      OBVIOUS
    <3> QED
      BY <3>1
  <2>5. ASSUME Fine(q) PROVE Before(Seen(n), {q[n + 1]})
    <3>1. ASSUME NEW j \in 1..n PROVE Apart(q[j], q[n + 1])
      BY <2>2, <2>5 DEF Fine
    <3> QED
      BY <3>1 DEF Before
  <2> HIDE DEF Seen, B
  <2>6. Fine(q) => Before(ToSet(h[n]), {q[n + 1]})
    BY <2>1, <2>5 DEF Before
  <2>7. CASE q[n + 1] \in S
    <3> DEFINE a == Append(h[n], q[n + 1])
    <3>1. /\ a \in Seq(Record) /\ ToSet(a) = ToSet(h[n]) \cup {q[n + 1]}
          /\ Fine(q) => Fine(a)
      BY <2>1, <2>2, <2>6, AppendFact
    <3>2. h[n + 1] = a
      BY <2>3, <2>7
    <3> HIDE DEF a
    <3>3. (Seen(n) \cap S) \cup {q[n + 1]} = Seen(n + 1) \cap S
      BY <2>4, <2>7
    <3> QED
      BY <2>1, <3>1, <3>2, <3>3
  <2>8. CASE q[n + 1] \notin S
    BY <2>1, <2>3, <2>4, <2>8
  <2> QED
    BY <2>7, <2>8
<1>4. B \in SUBSET Nat
  OBVIOUS
<1> HIDE DEF B
<1>5. B = Nat
  BY <1>2, <1>3, <1>4, SetInduction
<1>6. /\ h[Len(q)] \in Seq(Record)
      /\ ToSet(h[Len(q)]) = Seen(Len(q)) \cap S
      /\ Fine(q) => Fine(h[Len(q)])
  <2>1. Len(q) \in B /\ Len(q) <= Len(q)
    BY <1>5
  <2> QED
    BY <2>1 DEF B
<1>7. Seen(Len(q)) = ToSet(q)
  BY DEF ToSet
<1> QED
  BY <1>1, <1>6, <1>7

-----------------------------------------------------------------------------
(* The operators of the queue.                                             *)

LEMMA OfFact ==
    ASSUME NEW q \in Seq(Record), NEW kind \in {"queued", "steer"}
    PROVE  /\ Of(q, kind) \in Seq(Record)
           /\ ToSet(Of(q, kind)) = {r \in PromptsOf(q) : r.kind = kind}
           /\ PromptsOf(Of(q, kind)) = ToSet(Of(q, kind))
           /\ Fine(q) => Fine(Of(q, kind))
<1> DEFINE S == {r \in ToSet(q) : r.kind = kind}
<1>1. /\ Of(q, kind) \in Seq(Record)
      /\ ToSet(Of(q, kind)) = ToSet(q) \cap S
      /\ Fine(q) => Fine(Of(q, kind))
  BY SelectFact DEF Of
<1> QED
  BY <1>1 DEF PromptsOf

\* The first n elements, all before the others.
LEMMA FirstFact ==
    ASSUME NEW q \in Seq(Record), NEW n \in Nat
    PROVE  /\ FirstOf(q, n) \in Seq(Record)
           /\ Len(FirstOf(q, n)) <= n
           /\ ToSet(FirstOf(q, n)) \subseteq ToSet(q)
           /\ Fine(q) => /\ Fine(FirstOf(q, n))
                         /\ Before(ToSet(FirstOf(q, n)), ToSet(q) \ ToSet(FirstOf(q, n)))
           /\ n > 0 /\ FirstOf(q, n) = <<>> => q = <<>>
<1> DEFINE k == IF n < Len(q) THEN n ELSE Len(q)
           p == SubSeq(q, 1, k)
<1>1. k \in 0..Len(q) /\ k <= n /\ Len(q) \in Nat /\ (n > 0 /\ k = 0 => Len(q) = 0)
  OBVIOUS
<1> HIDE DEF k
<1>2. /\ p \in Seq(Record) /\ Len(p) = k
      /\ \A i \in 1..k : p[i] = q[i]
  <2>1. 1 \in Int /\ k \in Int /\ \A i \in 1..k : q[i] \in Record
    BY <1>1
  <2>2. /\ p \in Seq(Record) /\ Len(p) = IF 1 <= k THEN k - 1 + 1 ELSE 0
        /\ \A i \in 1 .. k - 1 + 1 : p[i] = q[1 + i - 1]
    BY <2>1, SubSeqProperties
  <2> QED
    BY <1>1, <2>2
<1>3. FirstOf(q, n) = p
  BY DEF FirstOf, k
<1> HIDE DEF p
<1>4. DOMAIN p = 1..k /\ DOMAIN q = 1..Len(q)
  BY <1>2
<1>5. ToSet(p) \subseteq ToSet(q)
  BY <1>1, <1>2, <1>4 DEF ToSet
<1>6. ASSUME Fine(q) PROVE Fine(p)
  BY <1>1, <1>2, <1>4, <1>6 DEF Fine
<1>7. ASSUME Fine(q), NEW a \in ToSet(p), NEW b \in ToSet(q) \ ToSet(p)
      PROVE  Apart(a, b)
  <2>1. PICK i \in 1..k : a = q[i]
    BY <1>2, <1>4 DEF ToSet
  <2>2. PICK j \in 1..Len(q) : b = q[j]
    BY <1>4 DEF ToSet
  <2>3. j \notin 1..k
    BY <1>2, <1>4, <2>2 DEF ToSet
  <2>4. i \in DOMAIN q /\ j \in DOMAIN q /\ i < j
    BY <1>1, <1>4, <2>3
  <2> QED
    BY <1>7, <2>1, <2>2, <2>4 DEF Fine
<1>8. ASSUME n > 0, p = <<>> PROVE q = <<>>
  <2>1. Len(p) = 0
    BY <1>8
  <2> QED
    BY <1>1, <1>2, <1>8, <2>1
<1> QED
  BY <1>1, <1>2, <1>3, <1>5, <1>6, <1>7, <1>8 DEF Before

\* What a drain leaves: the lines that get an end are no prompts.
LEMMA RestFact ==
    ASSUME NEW q \in Seq(Record), NEW t
    PROVE  /\ Rest(q, t) \in Seq(Record)
           /\ PromptsOf(Rest(q, t)) = PromptsOf(q) \ ToSet(t)
           /\ Fine(q) => Fine(Rest(q, t))
<1> DEFINE left == Select(q, ToSet(q) \ ToSet(t))
           m == [i \in DOMAIN left |-> IF left[i] = Torn THEN Malformed ELSE left[i]]
<1>1. /\ left \in Seq(Record)
      /\ ToSet(left) = ToSet(q) \cap (ToSet(q) \ ToSet(t))
      /\ Fine(q) => Fine(left)
  BY SelectFact
<1> HIDE DEF left
<1>2. DOMAIN left = 1..Len(left) /\ Len(left) \in Nat /\ \A i \in DOMAIN left : left[i] \in Record
  BY <1>1
<1>3. Malformed \in Record /\ Torn.kind = "torn" /\ Malformed.kind = "malformed"
  BY DEF Malformed, Record, Torn
<1>4. ASSUME NEW i \in DOMAIN left PROVE m[i] \in Record
  BY <1>2, <1>3
<1>5. m \in Seq(Record)
  <2>1. m = [i \in 1..Len(left) |-> m[i]] /\ DOMAIN m = DOMAIN left
    BY <1>2
  <2> HIDE DEF m
  <2>2. [i \in 1..Len(left) |-> m[i]] \in Seq(Record)
    BY <1>2, <1>4
  <2> QED
    BY <2>1, <2>2
<1>6. ASSUME NEW i \in DOMAIN left
      PROVE  \/ m[i] = left[i]
             \/ m[i].kind = "malformed" /\ left[i].kind = "torn"
  BY <1>3
<1>7. DOMAIN m = DOMAIN left
  OBVIOUS
<1> HIDE DEF m
<1>8. PromptsOf(m) = PromptsOf(left)
  BY <1>6, <1>7 DEF PromptsOf, ToSet
<1>9. PromptsOf(left) = PromptsOf(q) \ ToSet(t)
  BY <1>1 DEF PromptsOf
<1>10. ASSUME Fine(q), NEW i \in DOMAIN m, NEW j \in DOMAIN m, i < j
       PROVE  Apart(m[i], m[j])
  <2>1. Apart(left[i], left[j])
    BY <1>1, <1>7, <1>10 DEF Fine
  <2> QED
    BY <1>6, <1>7, <2>1 DEF Apart
<1>11. Rest(q, t) = m
  BY DEF Rest, m, left
<1> QED
  BY <1>5, <1>8, <1>9, <1>10, <1>11 DEF Fine

LEMMA HeadTailFact ==
    ASSUME NEW q \in Seq(Record), q # <<>>
    PROVE  /\ <<Head(q)>> \in Seq(Record) /\ Tail(q) \in Seq(Record)
           /\ Len(Tail(q)) = Len(q) - 1
           /\ PromptsOf(q) = PromptsOf(<<Head(q)>>) \cup PromptsOf(Tail(q))
           /\ Fine(<<Head(q)>>)
           /\ Fine(q) => /\ Fine(Tail(q))
                         /\ Before(PromptsOf(<<Head(q)>>), PromptsOf(Tail(q)))
<1> DEFINE h == <<Head(q)>>
           t == Tail(q)
<1>1. /\ Head(q) = q[1] /\ Head(q) \in Record /\ t \in Seq(Record) /\ Len(t) = Len(q) - 1
      /\ \A i \in 1..Len(t) : t[i] = q[i + 1]
      /\ Len(q) \in Nat \ {0}
  BY HeadTailProperties
<1>2. h \in Seq(Record) /\ DOMAIN h = 1..1 /\ h[1] = q[1] /\ Len(h) = 1
  BY <1>1
<1> HIDE DEF h, t
<1>3. DOMAIN q = 1..Len(q) /\ DOMAIN t = 1 .. Len(q) - 1
  BY <1>1
<1>4. ASSUME NEW i \in DOMAIN q
      PROVE  i = 1 \/ (i - 1 \in DOMAIN t /\ t[i - 1] = q[i])
  <2>1. CASE i # 1
    <3>1. i - 1 \in 1 .. Len(t) /\ (i - 1) + 1 = i
      BY <1>1, <1>3, <2>1
    <3>2. t[i - 1] = q[(i - 1) + 1]
      BY <1>1, <3>1
    <3> QED
      BY <1>1, <1>3, <3>1, <3>2
  <2> QED
    BY <2>1
<1>5. ASSUME NEW i \in DOMAIN t
      PROVE  i + 1 \in DOMAIN q /\ t[i] = q[i + 1]
  BY <1>1, <1>3
<1>6. ToSet(q) = ToSet(h) \cup ToSet(t)
  <2>1. 1 \in DOMAIN q /\ 1 \in DOMAIN h /\ \A i \in DOMAIN h : h[i] = q[1]
    BY <1>1, <1>2, <1>3
  <2>2. ToSet(q) \subseteq ToSet(h) \cup ToSet(t)
    BY <1>2, <1>4, <2>1 DEF ToSet
  <2>3. ToSet(h) \cup ToSet(t) \subseteq ToSet(q)
    BY <1>5, <2>1 DEF ToSet
  <2> QED
    BY <2>2, <2>3
<1>7. Fine(h)
  BY <1>2 DEF Fine
<1>8. ASSUME Fine(q) PROVE Fine(t)
  <2>1. ASSUME NEW i \in DOMAIN t, NEW j \in DOMAIN t, i < j PROVE Apart(t[i], t[j])
    <3>1. i + 1 < j + 1
      BY <1>3, <2>1
    <3> QED
      BY <1>5, <1>8, <3>1 DEF Fine
  <2> QED
    BY <2>1 DEF Fine
<1>9. ASSUME Fine(q), NEW a \in ToSet(h), NEW b \in ToSet(t) PROVE Apart(a, b)
  <2>1. a = q[1]
    BY <1>2 DEF ToSet
  <2>2. PICK j \in DOMAIN t : b = t[j]
    BY DEF ToSet
  <2>3. 1 \in DOMAIN q /\ j + 1 \in DOMAIN q /\ 1 < j + 1 /\ b = q[j + 1]
    BY <1>1, <1>3, <1>5, <2>2
  <2> QED
    BY <1>9, <2>1, <2>3 DEF Fine
<1> QED
  BY <1>1, <1>2, <1>6, <1>7, <1>8, <1>9 DEF h, t, PromptsOf, Before

LEMMA OneRecord ==
    ASSUME NEW r \in Record
    PROVE  /\ <<r>> \in Seq(Record) /\ Len(<<r>>) = 1 /\ Fine(<<r>>)
           /\ ToSet(<<r>>) = {r}
           /\ PromptsOf(<<r>>) = IF r.kind \in {"queued", "steer"} THEN {r} ELSE {}
<1>1. <<r>> \in Seq(Record) /\ Len(<<r>>) = 1 /\ DOMAIN <<r>> = {1} /\ <<r>>[1] = r
  OBVIOUS
<1>2. ToSet(<<r>>) = {r}
  BY <1>1 DEF ToSet
<1>3. Fine(<<r>>)
  BY <1>1 DEF Fine
<1> QED
  BY <1>1, <1>2, <1>3 DEF PromptsOf

\* Front keeps the prompts but the last element.
LEMMA FrontFact ==
    ASSUME NEW q \in Seq(Record), q # <<>>, Last(q) = Torn
    PROVE  /\ Front(q) \in Seq(Record)
           /\ PromptsOf(Front(q)) = PromptsOf(q)
           /\ Fine(q) => Fine(Front(q))
<1> DEFINE f == Front(q)
           n == Len(q) - 1
<1>1. Len(q) \in Nat \ {0} /\ n \in Nat /\ DOMAIN q = 1 .. Len(q)
  <2>1. Len(q) # 0
    BY EmptySeq
  <2> QED
    BY <2>1
<1>2. f \in Seq(Record) /\ Len(f) = n /\ \A i \in 1..n : f[i] = q[i]
  <2>1. 1 \in Int /\ n \in Int /\ \A i \in 1..n : q[i] \in Record
    BY <1>1
  <2>2. /\ SubSeq(q, 1, n) \in Seq(Record)
        /\ Len(SubSeq(q, 1, n)) = IF 1 <= n THEN n - 1 + 1 ELSE 0
        /\ \A i \in 1 .. n - 1 + 1 : SubSeq(q, 1, n)[i] = q[1 + i - 1]
    BY <2>1, SubSeqProperties
  <2>3. f = SubSeq(q, 1, n)
    BY DEF Front
  <2> HIDE DEF f, n
  <2> QED
    BY <1>1, <2>2, <2>3
<1>3. q[Len(q)].kind = "torn"
  BY DEF Last, Torn
<1> HIDE DEF f
<1>4. DOMAIN f = 1..n
  BY <1>2
<1>5. PromptsOf(f) = PromptsOf(q)
  <2>1. ASSUME NEW i \in DOMAIN q, q[i].kind \in {"queued", "steer"}
        PROVE  i \in DOMAIN f /\ f[i] = q[i]
    BY <1>1, <1>2, <1>3, <1>4, <2>1
  <2>2. \A i \in DOMAIN f : i \in DOMAIN q /\ f[i] = q[i]
    BY <1>1, <1>2, <1>4
  <2> QED
    BY <2>1, <2>2 DEF PromptsOf, ToSet
<1>6. ASSUME Fine(q) PROVE Fine(f)
  BY <1>1, <1>2, <1>4, <1>6 DEF Fine
<1> QED
  BY <1>2, <1>5, <1>6 DEF f

\* queue_prompt: the record is the file's last one, or swallowed by a torn line.
LEMMA AppendedFact ==
    ASSUME NEW q \in Seq(Record), NEW r \in Prompt
    PROVE  /\ Appended(q, r) \in Seq(Record)
           /\ Swallowed(q, r) \in SUBSET {r}
           /\ PromptsOf(Appended(q, r)) = PromptsOf(q) \cup ({r} \ Swallowed(q, r))
           /\ Fine(q) /\ Before(PromptsOf(q), {r}) => Fine(Appended(q, r))
<1>0. r \in Record /\ r.kind \in {"queued", "steer"}
  BY DEF Prompt
<1>1. CASE q # <<>> /\ Last(q) = Torn
  <2>1. Appended(q, r) = Append(Front(q), Malformed) /\ Swallowed(q, r) = {r}
    BY <1>1 DEF Appended, Swallowed
  <2>2. Malformed \in Record /\ Malformed.kind = "malformed"
    BY DEF Malformed, Record
  <2>3. /\ Front(q) \in Seq(Record) /\ PromptsOf(Front(q)) = PromptsOf(q)
        /\ Fine(q) => Fine(Front(q))
    BY <1>1, FrontFact
  <2>4. Before(ToSet(Front(q)), {Malformed})
    BY <2>2 DEF Before, Apart
  <2>5. /\ Append(Front(q), Malformed) \in Seq(Record)
        /\ ToSet(Append(Front(q), Malformed)) = ToSet(Front(q)) \cup {Malformed}
        /\ Fine(Front(q)) => Fine(Append(Front(q), Malformed))
    BY <2>2, <2>3, <2>4, AppendFact
  <2>6. PromptsOf(Append(Front(q), Malformed)) = PromptsOf(Front(q))
    BY <2>2, <2>5 DEF PromptsOf
  <2> QED
    BY <2>1, <2>3, <2>5, <2>6
<1>2. CASE ~ (q # <<>> /\ Last(q) = Torn)
  <2>1. Appended(q, r) = Append(q, r) /\ Swallowed(q, r) = {}
    BY <1>2 DEF Appended, Swallowed
  <2>2. ASSUME Before(PromptsOf(q), {r}) PROVE Before(ToSet(q), {r})
    BY <1>0, <2>2 DEF Before, PromptsOf, Apart
  <2>3. /\ Append(q, r) \in Seq(Record) /\ ToSet(Append(q, r)) = ToSet(q) \cup {r}
        /\ Fine(q) /\ Before(ToSet(q), {r}) => Fine(Append(q, r))
    BY <1>0, AppendFact
  <2> QED
    BY <1>0, <2>1, <2>2, <2>3 DEF PromptsOf
<1> QED
  BY <1>1, <1>2

LEMMA OwnFact ==
    ASSUME NEW n \in Nat
    PROVE  /\ [i \in 1..n |-> Own] \in Seq(Record)
           /\ Len([i \in 1..n |-> Own]) = n
           /\ PromptsOf([i \in 1..n |-> Own]) = {}
           /\ Fine([i \in 1..n |-> Own])
<1> DEFINE q == [i \in 1..n |-> Own]
<1>1. Own \in Record /\ Own.kind = "own"
  BY DEF Own, Record
<1>2. q \in Seq(Record) /\ Len(q) = n /\ DOMAIN q = 1..n /\ \A i \in 1..n : q[i] = Own
  BY <1>1
<1> HIDE DEF q
<1>3. PromptsOf(q) = {} /\ Fine(q)
  BY <1>1, <1>2 DEF PromptsOf, ToSet, Fine, Apart
<1> QED
  BY <1>2, <1>3 DEF q

LEMMA RecordedFact ==
    ASSUME NEW q \in Seq(Record)
    PROVE  /\ Recorded(q) \in Seq(Record)
           /\ PromptsOf(Recorded(q)) = PromptsOf(q)
           /\ Fine(q) => Fine(Recorded(q))
<1>1. /\ Recorded(q) \in Seq(Record)
      /\ ToSet(Recorded(q)) = ToSet(q) \cap (ToSet(q) \ {Own})
      /\ Fine(q) => Fine(Recorded(q))
  BY SelectFact DEF Recorded
<1>2. Own.kind = "own"
  BY DEF Own
<1> QED
  BY <1>1, <1>2 DEF PromptsOf

LEMMA SuffixLength ==
    ASSUME NEW l \in Nat, NEW k \in Nat, k <= l
    PROVE  /\ l - (k + 1) + 1 = l - k
           /\ (IF k + 1 <= l THEN l - (k + 1) + 1 ELSE 0) = l - k
  OBVIOUS

\* The two parts of a sequence: no prompt is in both.
LEMMA PartsFact ==
    ASSUME NEW q \in Seq(Record), NEW k \in 0..Len(q)
    PROVE  /\ SubSeq(q, 1, k) \in Seq(Record) /\ SubSeq(q, k + 1, Len(q)) \in Seq(Record)
           /\ PromptsOf(q) = PromptsOf(SubSeq(q, 1, k))
                               \cup PromptsOf(SubSeq(q, k + 1, Len(q)))
           /\ Fine(q) => /\ Fine(SubSeq(q, 1, k))
                         /\ PromptsOf(SubSeq(q, 1, k))
                              \cap PromptsOf(SubSeq(q, k + 1, Len(q))) = {}
<1> DEFINE p == SubSeq(q, 1, k)
           s == SubSeq(q, k + 1, Len(q))
<1>1. k \in Nat /\ Len(q) \in Nat /\ k <= Len(q) /\ DOMAIN q = 1..Len(q)
  OBVIOUS
<1>2. p \in Seq(Record) /\ Len(p) = k /\ DOMAIN p = 1..k /\ \A i \in 1..k : p[i] = q[i]
  <2>1. 1 \in Int /\ k \in Int /\ \A i \in 1..k : q[i] \in Record
    BY <1>1
  <2>2. /\ p \in Seq(Record) /\ Len(p) = IF 1 <= k THEN k - 1 + 1 ELSE 0
        /\ \A i \in 1 .. k - 1 + 1 : p[i] = q[1 + i - 1]
    BY <2>1, SubSeqProperties
  <2> HIDE DEF p
  <2> QED
    BY <1>1, <2>2
<1>3. /\ s \in Seq(Record) /\ Len(s) = Len(q) - k /\ DOMAIN s = 1 .. Len(q) - k
      /\ \A i \in 1 .. Len(q) - k : s[i] = q[k + i]
  <2>1. k + 1 \in Int /\ Len(q) \in Int /\ \A i \in k + 1 .. Len(q) : q[i] \in Record
    BY <1>1
  <2>2. /\ s \in Seq(Record)
        /\ Len(s) = IF k + 1 <= Len(q) THEN Len(q) - (k + 1) + 1 ELSE 0
        /\ \A i \in 1 .. Len(q) - (k + 1) + 1 : s[i] = q[k + 1 + i - 1]
    BY <2>1, SubSeqProperties
  <2> HIDE DEF p, s
  <2>6. Len(s) = IF k + 1 <= Len(q) THEN Len(q) - (k + 1) + 1 ELSE 0
    BY <2>2
  <2>3. Len(s) = Len(q) - k /\ Len(q) - (k + 1) + 1 = Len(q) - k
    BY <1>1, <2>6, SuffixLength
  <2>4. ASSUME NEW i \in 1 .. Len(q) - k PROVE s[i] = q[k + i]
    <3>1. k + 1 + i - 1 = k + i
      BY <1>1
    <3>2. s[i] = q[k + 1 + i - 1]
      BY <2>2, <2>3
    <3> QED
      BY <3>1, <3>2
  <2>5. DOMAIN s = 1 .. Len(s)
    BY <2>2
  <2> QED
    BY <2>2, <2>3, <2>4, <2>5
<1> HIDE DEF p, s
<1>4. ASSUME NEW i \in DOMAIN q
      PROVE  \/ i \in DOMAIN p /\ q[i] = p[i]
             \/ i - k \in DOMAIN s /\ q[i] = s[i - k]
  <2>1. CASE i <= k
    BY <1>1, <1>2, <2>1
  <2>2. CASE i > k
    <3>1. i - k \in 1 .. Len(q) - k /\ k + (i - k) = i
      BY <1>1, <2>2
    <3> QED
      BY <1>3, <3>1
  <2> QED
    BY <1>1, <2>1, <2>2
<1>5. \A i \in DOMAIN p : i \in DOMAIN q /\ p[i] = q[i]
  BY <1>1, <1>2
<1>6. \A i \in DOMAIN s : k + i \in DOMAIN q /\ s[i] = q[k + i] /\ k < k + i
  BY <1>1, <1>3
<1>7. ToSet(q) = ToSet(p) \cup ToSet(s)
  <2>1. ToSet(q) \subseteq ToSet(p) \cup ToSet(s)
    BY <1>4 DEF ToSet
  <2>2. ToSet(p) \subseteq ToSet(q) /\ ToSet(s) \subseteq ToSet(q)
    BY <1>5, <1>6 DEF ToSet
  <2> QED
    BY <2>1, <2>2
<1>8. ASSUME Fine(q) PROVE Fine(p)
  BY <1>5, <1>8 DEF Fine
<1>9. ASSUME Fine(q), NEW r \in PromptsOf(p), r \in PromptsOf(s)
      PROVE  FALSE
  <2>1. PICK i \in DOMAIN p : r = p[i]
    BY DEF PromptsOf, ToSet
  <2>2. PICK j \in DOMAIN s : r = s[j]
    BY <1>9 DEF PromptsOf, ToSet
  <2>3. r = q[i] /\ r = q[k + j] /\ i \in DOMAIN q /\ k + j \in DOMAIN q /\ i < k + j
    <3>1. i <= k /\ i \in Nat /\ k + j \in Nat
      BY <1>1, <1>2, <1>3
    <3>2. r = q[i] /\ i \in DOMAIN q
      BY <1>5, <2>1
    <3>3. r = q[k + j] /\ k + j \in DOMAIN q /\ k < k + j
      BY <1>6, <2>2
    <3> QED
      BY <1>1, <3>1, <3>2, <3>3
  <2> QED
    BY <1>9, <2>3 DEF Fine, Apart, PromptsOf
<1> QED
  BY <1>2, <1>3, <1>7, <1>8, <1>9 DEF p, s, PromptsOf

-----------------------------------------------------------------------------
(* What is taken from the file, and what is left.                          *)

\* t is a part of q that comes before the rest.
Cut(t, q) ==
    /\ t \in Seq(Record)
    /\ Fine(t)
    /\ PromptsOf(t) = ToSet(t)
    /\ PromptsOf(t) \subseteq PromptsOf(q)
    /\ Before(PromptsOf(t), PromptsOf(q) \ PromptsOf(t))

LEMMA CutRest ==
    ASSUME NEW q \in Seq(Record), Fine(q), NEW t, Cut(t, q)
    PROVE  /\ Rest(q, t) \in Seq(Record) /\ Fine(Rest(q, t))
           /\ PromptsOf(Rest(q, t)) = PromptsOf(q) \ PromptsOf(t)
           /\ Before(PromptsOf(t), PromptsOf(Rest(q, t)))
  BY RestFact DEF Cut

LEMMA CutEmpty ==
    ASSUME NEW t, Cut(t, <<>>)
    PROVE  PromptsOf(t) = {}
  BY EmptyFact DEF Cut

LEMMA CutOf ==
    ASSUME NEW q \in Seq(Record), Fine(q)
    PROVE  Cut(Of(q, "steer"), q)
<1> DEFINE t == Of(q, "steer")
<1>1. /\ t \in Seq(Record) /\ ToSet(t) = {r \in PromptsOf(q) : r.kind = "steer"}
      /\ PromptsOf(t) = ToSet(t) /\ Fine(t)
  BY OfFact
<1> HIDE DEF t
<1>2. Before(PromptsOf(t), PromptsOf(q) \ PromptsOf(t))
  BY <1>1 DEF Before, Apart
<1>3. Cut(t, q)
  BY <1>1, <1>2 DEF Cut
<1> QED
  BY <1>3 DEF t

LEMMA CutFirst ==
    ASSUME NEW q \in Seq(Record), Fine(q), NEW kind \in {"queued", "steer"}, NEW n \in Nat
    PROVE  /\ Cut(FirstOf(Of(q, kind), n), q)
           /\ Len(FirstOf(Of(q, kind), n)) \in 0..n
           /\ \A r \in PromptsOf(FirstOf(Of(q, kind), n)) : r.kind = kind
           /\ n > 0 /\ FirstOf(Of(q, kind), n) = <<>> =>
                 \A r \in PromptsOf(q) : r.kind # kind
<1> DEFINE o == Of(q, kind)
           t == FirstOf(o, n)
<1>1. /\ o \in Seq(Record) /\ ToSet(o) = {r \in PromptsOf(q) : r.kind = kind}
      /\ PromptsOf(o) = ToSet(o) /\ Fine(o)
  BY OfFact
<1> HIDE DEF o
<1>2. /\ t \in Seq(Record) /\ Len(t) <= n /\ ToSet(t) \subseteq ToSet(o)
      /\ Fine(t) /\ Before(ToSet(t), ToSet(o) \ ToSet(t))
      /\ n > 0 /\ t = <<>> => o = <<>>
  BY <1>1, FirstFact
<1> HIDE DEF t
<1>3. PromptsOf(t) = ToSet(t)
  BY <1>1, <1>2 DEF PromptsOf
<1>4. ASSUME NEW a \in PromptsOf(t), NEW b \in PromptsOf(q) \ PromptsOf(t)
      PROVE  Apart(a, b)
  <2>1. CASE b.kind = kind
    BY <1>1, <1>2, <1>3, <2>1 DEF Before
  <2>2. CASE b.kind # kind
    BY <1>1, <1>2, <1>3, <2>2 DEF Apart
  <2> QED
    BY <2>1, <2>2
<1>5. Cut(t, q)
  BY <1>1, <1>2, <1>3, <1>4 DEF Cut, Before
<1>6. ASSUME o = <<>> PROVE \A r \in PromptsOf(q) : r.kind # kind
  BY <1>1, <1>6, EmptyFact
<1>7. Len(t) \in 0..n
  BY <1>2
<1> QED
  BY <1>1, <1>2, <1>3, <1>5, <1>6, <1>7 DEF t, o

LEMMA BeforeUnion ==
    ASSUME NEW P, NEW Q, NEW R
    PROVE  /\ Before(P \cup Q, R) <=> Before(P, R) /\ Before(Q, R)
           /\ Before(R, P \cup Q) <=> Before(R, P) /\ Before(R, Q)
  BY DEF Before

LEMMA BeforeSubset ==
    ASSUME NEW P, NEW Q, NEW R, NEW S, Before(P, Q), R \subseteq P, S \subseteq Q
    PROVE  Before(R, S)
  BY DEF Before

LEMMA BeforeEmpty ==
    ASSUME NEW P
    PROVE  Before(P, {}) /\ Before({}, P)
  BY DEF Before

\* Prompts that are before others are none of them.
LEMMA BeforeDisjoint ==
    ASSUME NEW p \in Seq(Record), NEW q \in Seq(Record),
           Before(PromptsOf(p), PromptsOf(q))
    PROVE  PromptsOf(p) \cap PromptsOf(q) = {}
  BY DEF Before, Apart, PromptsOf
-----------------------------------------------------------------------------
(* The inductive invariant.                                                *)

\* Where the loop has records in its hands, and where it has prompts of its own.  A
\* run that ends has neither, so that nothing is lost when the next one begins.
HoldingInv ==
    /\ loop.pc \notin {"popped", "steered", "waited"} => hand = <<>>
    /\ loop.pc = "waited" => Len(hand) <= MaxQueue
    /\ loop.pc \in {"off", "input", "waiting", "waited", "leaving", "closing",
                    "stranding"} => prompts = <<>>
    /\ loop.pc \in {"step", "steered", "working"} /\ ~loop.chained => prompts = <<>>

\* The number of a steer is new when it is written.
Numbered == {s \in Steer : steer[s].n > 0}
SteerInv ==
    /\ \A s \in Steer : steer[s].pc \in {"none", "checked"} => steer[s].n = 0
    /\ \A s \in Steer : steer[s].n <= Cardinality(Numbered)
    /\ waited = {}

\* No prompt is twice in the conversation, in a hand, in the loop's queue or in the
\* file, and the queued ones come in this order.
LineInv ==
    /\ Fine(log) /\ Fine(hand) /\ Fine(prompts) /\ Fine(file)
    /\ Before(PromptsOf(log), PromptsOf(hand))
    /\ Before(PromptsOf(log), PromptsOf(prompts))
    /\ Before(PromptsOf(log), PromptsOf(file))
    /\ Before(PromptsOf(hand), PromptsOf(prompts))
    /\ Before(PromptsOf(hand), PromptsOf(file))
    /\ Before(PromptsOf(prompts), PromptsOf(file))

Present == PromptsOf(log) \cup PromptsOf(hand) \cup PromptsOf(prompts) \cup PromptsOf(file)

\* What was written is there, or was lost, or was thrown away.
PlaceInv ==
    /\ Present \cup (lost \cap Prompt) \cup (stranded \cap Prompt) = Written
    /\ Present \cap (lost \cup stranded) = {}
    /\ lost \cap stranded \cap Prompt = {}

\* The file has nothing of the time before a loop ran out of prompts.
SettledInv ==
    /\ touchedAt <= arrivals /\ settled <= arrivals
    /\ \A r \in PromptsOf(file) : r.kind = "queued" => r.n > settled

ChatInv == ChatTypeOK /\ HoldingInv /\ SteerInv /\ LineInv /\ PlaceInv /\ SettledInv

LEMMA ConstantTypes ==
    /\ MaxQueue \in Nat \ {0} /\ MaxSteps \in Nat \ {0} /\ MaxPrompts \in Nat
    /\ MaxRuns \in Nat /\ MaxHooks \in Nat /\ MaxFaults \in Nat
    /\ IsFiniteSet(Steer) /\ Cardinality(Steer) \in Nat
<1>1. /\ MaxQueue \in Nat \ {0} /\ MaxSteps \in Nat \ {0} /\ MaxPrompts \in Nat
      /\ MaxRuns \in Nat /\ MaxHooks \in Nat /\ MaxFaults \in Nat
      /\ IsFiniteSet(Steer)
  BY ChatAssumption
<1> QED
  BY <1>1, FS_CardinalityType

LEMMA StateTypes ==
    ASSUME ChatTypeOK
    PROVE  /\ file \in Seq(Record) /\ prompts \in Seq(Record) /\ hand \in Seq(Record)
           /\ log \in Seq(Record)
           /\ MaxQueue \in Nat \ {0} /\ Len(prompts) \in 0..MaxQueue
           /\ Room \in Nat /\ Room = MaxQueue - Len(prompts)
<1>1. /\ file \in Seq(Record) /\ prompts \in Seq(Record) /\ hand \in Seq(Record)
      /\ log \in Seq(Record) /\ Len(prompts) <= MaxQueue
  BY DEF ChatTypeOK
<1>2. Len(prompts) \in Nat /\ MaxQueue \in Nat \ {0}
  BY <1>1, ConstantTypes, LenProperties
<1>3. Room \in Nat /\ Room = MaxQueue - Len(prompts)
  BY <1>1, <1>2 DEF Room
<1> QED
  BY <1>1, <1>2, <1>3

\* _drain_external_prompt_queue.
LEMMA DrainFact ==
    ASSUME ChatTypeOK, LineInv
    PROVE  /\ Cut(Taken, file)
           /\ Room > 0 /\ Taken = <<>> => \A r \in PromptsOf(file) : r.kind # "queued"
           /\ Kept \in Seq(Record) /\ Fine(Kept)
           /\ PromptsOf(Kept) = PromptsOf(file) \ PromptsOf(Taken)
           /\ Drained \in Seq(Record) /\ Fine(Drained) /\ Len(Drained) <= MaxQueue
           /\ PromptsOf(Drained) = PromptsOf(prompts) \cup PromptsOf(Taken)
           /\ Drained = <<>> => prompts = <<>> /\ Taken = <<>>
<1>0. /\ file \in Seq(Record) /\ prompts \in Seq(Record) /\ Room \in Nat
      /\ MaxQueue \in Nat /\ Len(prompts) \in 0..MaxQueue /\ Room = MaxQueue - Len(prompts)
  BY StateTypes
<1>1. Fine(file) /\ Fine(prompts) /\ Before(PromptsOf(prompts), PromptsOf(file))
  BY DEF LineInv
<1>2. /\ Cut(Taken, file) /\ Len(Taken) \in 0..Room
      /\ Room > 0 /\ Taken = <<>> => \A r \in PromptsOf(file) : r.kind # "queued"
  BY <1>0, <1>1, CutFirst DEF Taken
<1>3. /\ Kept \in Seq(Record) /\ Fine(Kept)
      /\ PromptsOf(Kept) = PromptsOf(file) \ PromptsOf(Taken)
  <2>1. CASE Room = 0
    <3>1. Len(Taken) = 0 /\ Taken \in Seq(Record)
      BY <1>2, <2>1 DEF Cut
    <3>2. Taken = <<>>
      BY <3>1, EmptySeq
    <3>3. PromptsOf(Taken) = {}
      BY <3>2, EmptyFact
    <3> QED
      BY <1>0, <1>1, <2>1, <3>3 DEF Kept
  <2>2. CASE Room # 0
    BY <1>0, <1>1, <1>2, <2>2, CutRest DEF Kept
  <2> QED
    BY <2>1, <2>2
<1>4. Before(PromptsOf(prompts), PromptsOf(Taken))
  BY <1>1, <1>2, BeforeSubset DEF Cut
<1>5. /\ Drained \in Seq(Record) /\ Fine(Drained)
      /\ Len(Drained) = Len(prompts) + Len(Taken)
      /\ PromptsOf(Drained) = PromptsOf(prompts) \cup PromptsOf(Taken)
  BY <1>0, <1>1, <1>2, <1>4, ConcatFact DEF Drained, Cut
<1>6. Len(Drained) <= MaxQueue
  BY <1>0, <1>2, <1>5
<1>7. ASSUME Drained = <<>> PROVE prompts = <<>> /\ Taken = <<>>
  <2>1. Len(Drained) = 0 /\ Taken \in Seq(Record)
    BY <1>2, <1>7 DEF Cut
  <2>2. Len(prompts) \in Nat /\ Len(Taken) \in Nat /\ 0 = Len(prompts) + Len(Taken)
    BY <1>0, <1>2, <1>5, <2>1, LenProperties
  <2>3. Len(prompts) = 0 /\ Len(Taken) = 0
    BY <2>2
  <2> QED
    BY <1>0, <2>1, <2>3, EmptySeq
<1> QED
  BY <1>2, <1>3, <1>5, <1>6, <1>7

\* _background_wait_input.
LEMMA WaitFact ==
    ASSUME ChatTypeOK, LineInv
    PROVE  Cut(WaitTaken, file) /\ Len(WaitTaken) <= MaxQueue
<1> DEFINE a == FirstOf(Of(file, "queued"), MaxQueue)
           b == FirstOf(Of(file, "steer"), MaxQueue - Len(a))
<1>0. file \in Seq(Record) /\ MaxQueue \in Nat
  BY StateTypes
<1>1. Fine(file)
  BY DEF LineInv
<1>2. Cut(a, file) /\ Len(a) \in 0..MaxQueue /\ \A r \in PromptsOf(a) : r.kind = "queued"
  BY <1>0, <1>1, CutFirst
<1>3. MaxQueue - Len(a) \in Nat
  BY <1>0, <1>2
<1> HIDE DEF a
<1>4. /\ Cut(b, file) /\ Len(b) \in 0 .. MaxQueue - Len(a)
      /\ \A r \in PromptsOf(b) : r.kind = "steer"
  BY <1>0, <1>1, <1>3, CutFirst
<1> HIDE DEF b
<1>5. WaitTaken = a \o b
  BY DEF WaitTaken, a, b
<1>6. Before(PromptsOf(a), PromptsOf(b))
  BY <1>2, <1>4 DEF Before, Apart
<1>7. /\ a \o b \in Seq(Record) /\ Fine(a \o b) /\ Len(a \o b) = Len(a) + Len(b)
      /\ ToSet(a \o b) = ToSet(a) \cup ToSet(b)
      /\ PromptsOf(a \o b) = PromptsOf(a) \cup PromptsOf(b)
  BY <1>2, <1>4, <1>6, ConcatFact DEF Cut
<1>8. Before(PromptsOf(a \o b), PromptsOf(file) \ PromptsOf(a \o b))
  <2>1. /\ Before(PromptsOf(a), PromptsOf(file) \ PromptsOf(a))
        /\ Before(PromptsOf(b), PromptsOf(file) \ PromptsOf(b))
    BY <1>2, <1>4 DEF Cut
  <2>2. /\ Before(PromptsOf(a), PromptsOf(file) \ PromptsOf(a \o b))
        /\ Before(PromptsOf(b), PromptsOf(file) \ PromptsOf(a \o b))
    BY <1>7, <2>1 DEF Before
  <2> QED
    BY <1>7, <2>2, BeforeUnion
<1>9. Cut(a \o b, file)
  BY <1>2, <1>4, <1>7, <1>8 DEF Cut
<1>10. Len(a \o b) <= MaxQueue
  BY <1>0, <1>2, <1>4, <1>7
<1> QED
  BY <1>5, <1>9, <1>10

\* The STEP_PRE hook and the end of a subagent look only if the file has a line.
LEMMA SteersFact ==
    ASSUME ChatTypeOK, LineInv, NEW t, t = Of(file, "steer"),
           NEW left, left = IF file = <<>> THEN file ELSE Rest(file, t)
    PROVE  /\ Cut(t, file)
           /\ left \in Seq(Record) /\ Fine(left)
           /\ PromptsOf(left) = PromptsOf(file) \ PromptsOf(t)
           /\ Steers(left) = {}
<1>0. file \in Seq(Record) /\ Fine(file)
  BY StateTypes DEF LineInv
<1>1. Cut(t, file) /\ PromptsOf(t) = {r \in PromptsOf(file) : r.kind = "steer"}
  BY <1>0, CutOf, OfFact
<1>2. /\ left \in Seq(Record) /\ Fine(left)
      /\ PromptsOf(left) = PromptsOf(file) \ PromptsOf(t)
  <2>1. CASE file = <<>>
    BY <1>0, <1>1, <2>1, CutEmpty
  <2>2. CASE file # <<>>
    BY <1>0, <1>1, <2>2, CutRest
  <2> QED
    BY <2>1, <2>2
<1>3. ToSet(Of(left, "steer")) = {}
  BY <1>1, <1>2, OfFact
<1> QED
  BY <1>1, <1>2, <1>3 DEF Steers

-----------------------------------------------------------------------------
(* The records of a step: what stays in line, and what has left it.        *)

LEMMA ToSetPrompts ==
    ASSUME NEW q \in Seq(Record)
    PROVE  ToSet(q) \cap Prompt = PromptsOf(q)
  BY PromptsFact DEF PromptsOf, Prompt

LEMMA WrittenStays ==
    ASSUME arrivals' = arrivals, \A s \in Steer : steer'[s].n = steer[s].n
    PROVE  Written' = Written /\ Numbered' = Numbered
<1>1. Numbered' = Numbered
  BY DEF Numbered
<1>2. Written = {Queued(n) : n \in 1..arrivals} \cup {SteerRecord(steer[s].n) : s \in Numbered}
  BY DEF Written, Numbered
<1>3. Written' = {Queued(n) : n \in 1..arrivals}
                   \cup {SteerRecord(steer'[s].n) : s \in Numbered'}
  BY DEF Written, Numbered
<1>4. \A s \in Numbered : SteerRecord(steer'[s].n) = SteerRecord(steer[s].n)
  BY DEF Numbered
<1> QED
  BY <1>1, <1>2, <1>3, <1>4

LEMMA PresentTypes ==
    ASSUME ChatTypeOK
    PROVE  Present \subseteq Prompt
  BY StateTypes, PromptsFact DEF Present

\* The records of X are lost in the step, those of Y thrown away, and no other goes.
LEMMA PlaceStep ==
    ASSUME ChatTypeOK, PlaceInv, Written' = Written,
           NEW X \in SUBSET Present, NEW Y \in SUBSET Present, X \cap Y = {},
           Present' = Present \ (X \cup Y),
           lost' \cap Prompt = (lost \cap Prompt) \cup X,
           stranded' \cap Prompt = (stranded \cap Prompt) \cup Y
    PROVE  PlaceInv'
<1> DEFINE A == lost \cap Prompt
           B == stranded \cap Prompt
           P == Present
<1>1. P \subseteq Prompt
  BY PresentTypes
<1>2. P \cup A \cup B = Written /\ P \cap (A \cup B) = {} /\ A \cap B = {}
  BY <1>1 DEF PlaceInv
<1>3. /\ Present' = P \ (X \cup Y) /\ lost' \cap Prompt = A \cup X
      /\ stranded' \cap Prompt = B \cup Y
      /\ X \subseteq P /\ Y \subseteq P /\ X \cap Y = {}
  OBVIOUS
<1> HIDE DEF A, B, P
<1>4. /\ Present' \cup (lost' \cap Prompt) \cup (stranded' \cap Prompt) = Written'
      /\ Present' \cap ((lost' \cap Prompt) \cup (stranded' \cap Prompt)) = {}
      /\ (lost' \cap Prompt) \cap (stranded' \cap Prompt) = {}
  BY <1>2, <1>3
<1>5. Present' \subseteq Prompt
  BY <1>1, <1>3
<1>6. Present' \cap (lost' \cup stranded') = {} /\ lost' \cap stranded' \cap Prompt = {}
  BY <1>4, <1>5
<1> QED
  BY <1>4, <1>6 DEF PlaceInv

\* A step that leaves every record where it is.
LEMMA QuietStep ==
    ASSUME ChatTypeOK, LineInv, PlaceInv,
           UNCHANGED <<file, prompts, hand, log, lost, stranded>>,
           arrivals' = arrivals, \A s \in Steer : steer'[s].n = steer[s].n
    PROVE  LineInv' /\ PlaceInv'
<1>1. LineInv'
  BY DEF LineInv
<1>2. Present' = Present \ ({} \cup {})
  BY DEF Present
<1>3. Written' = Written
  BY WrittenStays
<1>4. /\ lost' \cap Prompt = (lost \cap Prompt) \cup {}
      /\ stranded' \cap Prompt = (stranded \cap Prompt) \cup {}
      /\ {} \in SUBSET Present /\ {} \cap {} = {}
  OBVIOUS
<1>5. PlaceInv'
  BY <1>2, <1>3, <1>4, PlaceStep
<1> QED
  BY <1>1, <1>5

LEMMA DrainLine ==
    ASSUME ChatTypeOK, LineInv
    PROVE  /\ Before(PromptsOf(log), PromptsOf(Drained))
           /\ Before(PromptsOf(log), PromptsOf(Kept))
           /\ Before(PromptsOf(hand), PromptsOf(Drained))
           /\ Before(PromptsOf(hand), PromptsOf(Kept))
           /\ Before(PromptsOf(Drained), PromptsOf(Kept))
           /\ PromptsOf(Drained) \cup PromptsOf(Kept) = PromptsOf(prompts) \cup PromptsOf(file)
<1> DEFINE L == PromptsOf(log)
           H == PromptsOf(hand)
           P == PromptsOf(prompts)
           F == PromptsOf(file)
           T == PromptsOf(Taken)
           D == PromptsOf(Drained)
           K == PromptsOf(Kept)
<1>1. T \subseteq F /\ Before(T, F \ T) /\ K = F \ T /\ D = P \cup T
  BY DrainFact DEF Cut
<1>2. Before(L, P) /\ Before(L, F) /\ Before(H, P) /\ Before(H, F) /\ Before(P, F)
  BY DEF LineInv
<1> HIDE DEF L, H, P, F, T, D, K
<1>3. Before(L, D) /\ Before(L, K) /\ Before(H, D) /\ Before(H, K)
  BY <1>1, <1>2 DEF Before
<1>4. Before(D, K) /\ D \cup K = P \cup F
  BY <1>1, <1>2 DEF Before
<1> QED
  BY <1>3, <1>4 DEF L, H, P, F, D, K

LEMMA SpawnRecords ==
    ASSUME ChatInv, NEW i \in BOOLEAN, NEW given \in 0..1, Spawn(i, given)
    PROVE  LineInv' /\ PlaceInv'
<1>0. ChatTypeOK /\ LineInv /\ PlaceInv /\ prompts = <<>>
  BY DEF ChatInv, HoldingInv, Spawn
<1>a. /\ prompts' = [j \in 1..given |-> Own] /\ given \in Nat
      /\ UNCHANGED <<file, hand, log, lost, stranded, steer, arrivals>>
  BY DEF Spawn, historyVars
<1>1. /\ PromptsOf(prompts') = {} /\ Fine(prompts') /\ PromptsOf(prompts) = {}
      /\ UNCHANGED <<file, hand, log, lost, stranded, steer, arrivals>>
  BY <1>0, <1>a, OwnFact, EmptyFact
<1>2. LineInv'
  BY <1>0, <1>1, BeforeEmpty DEF LineInv
<1>3. Present' = Present \ ({} \cup {})
  BY <1>1 DEF Present
<1>4. /\ lost' \cap Prompt = (lost \cap Prompt) \cup {}
      /\ stranded' \cap Prompt = (stranded \cap Prompt) \cup {}
      /\ {} \in SUBSET Present /\ {} \cap {} = {}
  BY <1>1
<1>5. Written' = Written
  BY <1>1, WrittenStays
<1>6. PlaceInv'
  BY <1>0, <1>3, <1>4, <1>5, PlaceStep
<1> QED
  BY <1>2, <1>6

\* Nothing leaves the line, whatever moves in it.
LEMMA NothingGone ==
    ASSUME ChatTypeOK, PlaceInv, Present' = Present,
           UNCHANGED <<lost, stranded, steer, arrivals>>
    PROVE  PlaceInv'
<1>1. Present' = Present \ ({} \cup {}) /\ {} \in SUBSET Present /\ {} \cap {} = {}
  OBVIOUS
<1>2. /\ lost' \cap Prompt = (lost \cap Prompt) \cup {}
      /\ stranded' \cap Prompt = (stranded \cap Prompt) \cup {}
  OBVIOUS
<1>3. Written' = Written
  BY WrittenStays
<1> QED
  BY <1>1, <1>2, <1>3, PlaceStep

LEMMA TopRecords ==
    ASSUME ChatInv, Top
    PROVE  LineInv' /\ PlaceInv'
<1>0. ChatTypeOK /\ LineInv /\ PlaceInv /\ hand = <<>>
  BY DEF ChatInv, HoldingInv, Top
<1>1. UNCHANGED <<log, lost, stranded, steer, arrivals>> /\ file' = Kept
  BY DEF Top, historyVars
<1> DEFINE L == PromptsOf(log)
           D == PromptsOf(Drained)
           K == PromptsOf(Kept)
           H == PromptsOf(hand')
           P == PromptsOf(prompts')
<1>2. /\ Fine(log) /\ Before(L, D) /\ Before(L, K) /\ Before(D, K)
      /\ Fine(Kept) /\ Drained \in Seq(Record) /\ Fine(Drained)
      /\ Present = L \cup D \cup K
  BY <1>0, DrainLine, DrainFact, EmptyFact DEF LineInv, Present
<1>3. Fine(hand') /\ Fine(prompts') /\ D = H \cup P /\ Before(H, P)
  <2>1. CASE Drained # <<>>
    <3>1. hand' = <<Head(Drained)>> /\ prompts' = Tail(Drained)
      BY <2>1 DEF Top
    <3> QED
      BY <1>2, <2>1, <3>1, HeadTailFact
  <2>2. CASE Drained = <<>>
    <3>1. hand' = <<>> /\ prompts' = <<>>
      BY <1>0, <2>2, DrainFact DEF Top
    <3> QED
      BY <2>2, <3>1, EmptyFact, BeforeEmpty
  <2> QED
    BY <2>1, <2>2
<1> HIDE DEF L, D, K, H, P
<1>4. /\ Before(L, H) /\ Before(L, P) /\ Before(H, K) /\ Before(P, K)
      /\ L \cup H \cup P \cup K = L \cup D \cup K
  BY <1>2, <1>3 DEF Before
<1>5. LineInv'
  BY <1>1, <1>2, <1>3, <1>4 DEF LineInv, L, H, P, K
<1>6. Present' = Present
  BY <1>1, <1>2, <1>4 DEF Present, L, H, P, K
<1>7. PlaceInv'
  BY <1>0, <1>1, <1>6, NothingGone
<1> QED
  BY <1>5, <1>7

LEMMA HandToLog ==
    ASSUME LineInv, UNCHANGED <<file, prompts>>, hand' = <<>>, Fine(log'),
           PromptsOf(log') = PromptsOf(log) \cup PromptsOf(hand)
    PROVE  LineInv' /\ Present' = Present
<1>1. PromptsOf(hand') = {} /\ Fine(hand')
  BY EmptyFact
<1>2. /\ Before(PromptsOf(log'), PromptsOf(hand'))
      /\ Before(PromptsOf(hand'), PromptsOf(prompts'))
      /\ Before(PromptsOf(hand'), PromptsOf(file'))
  BY <1>1, BeforeEmpty
<1>3. /\ Before(PromptsOf(log), PromptsOf(prompts)) /\ Before(PromptsOf(log), PromptsOf(file))
      /\ Before(PromptsOf(hand), PromptsOf(prompts)) /\ Before(PromptsOf(hand), PromptsOf(file))
  BY DEF LineInv
<1>4. /\ Before(PromptsOf(log'), PromptsOf(prompts'))
      /\ Before(PromptsOf(log'), PromptsOf(file'))
  BY <1>3 DEF Before
<1>5. LineInv'
  BY <1>1, <1>2, <1>4 DEF LineInv
<1>6. Present' = Present
  BY <1>1 DEF Present
<1> QED
  BY <1>5, <1>6

LEMMA AppendPromptRecords ==
    ASSUME ChatInv, NEW c \in BOOLEAN, AppendPrompt(c)
    PROVE  LineInv' /\ PlaceInv'
<1>0. ChatTypeOK /\ LineInv /\ PlaceInv
  BY DEF ChatInv
<1>1. /\ UNCHANGED <<file, prompts, lost, stranded, steer, arrivals>>
      /\ hand' = <<>> /\ log' = log \o Recorded(hand)
  BY DEF AppendPrompt, historyVars
<1> DEFINE r == Recorded(hand)
<1>2. r \in Seq(Record) /\ PromptsOf(r) = PromptsOf(hand) /\ Fine(r)
  BY <1>0, StateTypes, RecordedFact DEF LineInv
<1> HIDE DEF r
<1>3. PromptsOf(log') = PromptsOf(log) \cup PromptsOf(hand) /\ Fine(log')
  BY <1>0, <1>1, <1>2, StateTypes, ConcatFact DEF LineInv, r
<1> QED
  BY <1>0, <1>1, <1>3, HandToLog, NothingGone

LEMMA AppendSteersRecords ==
    ASSUME ChatInv, AppendSteers
    PROVE  LineInv' /\ PlaceInv'
<1>0. ChatTypeOK /\ LineInv /\ PlaceInv
  BY DEF ChatInv
<1>1. /\ UNCHANGED <<file, prompts, lost, stranded, steer, arrivals>>
      /\ hand' = <<>> /\ log' = log \o hand
  BY DEF AppendSteers, historyVars
<1>2. PromptsOf(log') = PromptsOf(log) \cup PromptsOf(hand) /\ Fine(log')
  BY <1>0, <1>1, StateTypes, ConcatFact DEF LineInv
<1> QED
  BY <1>0, <1>1, <1>2, HandToLog, NothingGone

LEMMA LineDisjoint ==
    ASSUME ChatTypeOK, LineInv
    PROVE  /\ PromptsOf(log) \cap PromptsOf(hand) = {}
           /\ PromptsOf(log) \cap PromptsOf(prompts) = {}
           /\ PromptsOf(log) \cap PromptsOf(file) = {}
           /\ PromptsOf(hand) \cap PromptsOf(prompts) = {}
           /\ PromptsOf(hand) \cap PromptsOf(file) = {}
           /\ PromptsOf(prompts) \cap PromptsOf(file) = {}
  BY StateTypes, BeforeDisjoint DEF LineInv

\* What the loop has may go, and a part of the file.
LEMMA LessInLine ==
    ASSUME LineInv, log' = log, hand' \in {hand, <<>>}, prompts' \in {prompts, <<>>},
           Fine(file'), PromptsOf(file') \subseteq PromptsOf(file)
    PROVE  LineInv'
<1>1. /\ PromptsOf(hand') \subseteq PromptsOf(hand) /\ Fine(hand')
      /\ PromptsOf(prompts') \subseteq PromptsOf(prompts) /\ Fine(prompts')
  BY EmptyFact DEF LineInv
<1> QED
  BY <1>1 DEF LineInv, Before

LEMMA Losses ==
    ASSUME NEW q \in Seq(Record), NEW l, NEW m, m = l \cup ToSet(q)
    PROVE  m \cap Prompt = (l \cap Prompt) \cup PromptsOf(q)
  BY ToSetPrompts

LEMMA StepInterruptedRecords ==
    ASSUME ChatInv, StepInterrupted
    PROVE  LineInv' /\ PlaceInv'
<1>0. ChatTypeOK /\ LineInv /\ PlaceInv /\ hand \in Seq(Record)
  BY StateTypes DEF ChatInv
<1>1. /\ UNCHANGED <<file, prompts, log, stranded, steer, arrivals>>
      /\ hand' = <<>> /\ lost' = lost \cup ToSet(hand)
  BY DEF StepInterrupted
<1>2. LineInv'
  BY <1>0, <1>1, LessInLine DEF LineInv
<1>3. PromptsOf(hand') = {}
  BY <1>1, EmptyFact
<1>4. Present' = Present \ (PromptsOf(hand) \cup {})
  BY <1>0, <1>1, <1>3, LineDisjoint DEF Present
<1>5. /\ PromptsOf(hand) \in SUBSET Present /\ {} \in SUBSET Present
      /\ PromptsOf(hand) \cap {} = {}
      /\ stranded' \cap Prompt = (stranded \cap Prompt) \cup {}
      /\ lost' \cap Prompt = (lost \cap Prompt) \cup PromptsOf(hand)
  BY <1>0, <1>1, Losses DEF Present
<1>6. Written' = Written
  BY <1>1, WrittenStays
<1>7. PlaceInv'
  BY <1>0, <1>4, <1>5, <1>6, PlaceStep
<1> QED
  BY <1>2, <1>7

LEMMA StepFailsRecords ==
    ASSUME ChatInv, NEW p \in BOOLEAN, StepFails(p)
    PROVE  LineInv' /\ PlaceInv'
<1>0. ChatTypeOK /\ LineInv /\ PlaceInv /\ prompts \in Seq(Record)
  BY StateTypes DEF ChatInv
<1>1. /\ UNCHANGED <<file, hand, log, stranded, steer, arrivals>>
      /\ prompts' = <<>> /\ lost' = lost \cup ToSet(Recorded(prompts))
  BY DEF StepFails
<1>2. LineInv'
  BY <1>0, <1>1, LessInLine DEF LineInv
<1>3. PromptsOf(prompts') = {}
  BY <1>1, EmptyFact
<1>4. Present' = Present \ (PromptsOf(prompts) \cup {})
  BY <1>0, <1>1, <1>3, LineDisjoint DEF Present
<1>5. Recorded(prompts) \in Seq(Record) /\ PromptsOf(Recorded(prompts)) = PromptsOf(prompts)
  BY <1>0, RecordedFact
<1>6. /\ PromptsOf(prompts) \in SUBSET Present /\ {} \in SUBSET Present
      /\ PromptsOf(prompts) \cap {} = {}
      /\ stranded' \cap Prompt = (stranded \cap Prompt) \cup {}
      /\ lost' \cap Prompt = (lost \cap Prompt) \cup PromptsOf(prompts)
  BY <1>1, <1>5, Losses DEF Present
<1>7. Written' = Written
  BY <1>1, WrittenStays
<1>8. PlaceInv'
  BY <1>0, <1>4, <1>6, <1>7, PlaceStep
<1> QED
  BY <1>2, <1>8

\* What the loop has is lost, with a part of the file.
LEMMA LoopLoses ==
    ASSUME ChatTypeOK, LineInv, PlaceInv,
           log' = log, stranded' = stranded, arrivals' = arrivals,
           \A s \in Steer : steer'[s].n = steer[s].n,
           hand' = <<>>, prompts' = <<>>, Fine(file'),
           NEW X \in SUBSET PromptsOf(file), PromptsOf(file') = PromptsOf(file) \ X,
           lost' \cap Prompt = (lost \cap Prompt)
                                 \cup (PromptsOf(hand) \cup PromptsOf(prompts) \cup X)
    PROVE  LineInv' /\ PlaceInv'
<1> DEFINE Y == PromptsOf(hand) \cup PromptsOf(prompts) \cup X
<1>1. LineInv'
  BY LessInLine
<1>2. PromptsOf(hand') = {} /\ PromptsOf(prompts') = {}
  BY EmptyFact
<1>3. Present' = Present \ (Y \cup {})
  BY <1>2, LineDisjoint DEF Present
<1>4. /\ Y \in SUBSET Present /\ {} \in SUBSET Present /\ Y \cap {} = {}
      /\ stranded' \cap Prompt = (stranded \cap Prompt) \cup {}
      /\ lost' \cap Prompt = (lost \cap Prompt) \cup Y
  BY DEF Present
<1>5. Written' = Written
  BY WrittenStays
<1> HIDE DEF Y
<1>6. PlaceInv'
  BY <1>3, <1>4, <1>5, PlaceStep
<1> QED
  BY <1>1, <1>6

LEMMA LoopInterruptedRecords ==
    ASSUME ChatInv, LoopInterrupted
    PROVE  LineInv' /\ PlaceInv'
<1>0. /\ ChatTypeOK /\ LineInv /\ PlaceInv /\ hand \in Seq(Record) /\ prompts \in Seq(Record)
      /\ Fine(file)
  BY StateTypes DEF ChatInv, LineInv
<1>1. /\ UNCHANGED <<file, log, stranded, steer, arrivals>>
      /\ hand' = <<>> /\ prompts' = <<>> /\ lost' = lost \cup ToSet(Recorded(hand \o prompts))
  BY DEF LoopInterrupted
<1> DEFINE r == Recorded(hand \o prompts)
<1>2. r \in Seq(Record) /\ PromptsOf(r) = PromptsOf(hand) \cup PromptsOf(prompts)
  BY <1>0, ConcatFact, RecordedFact
<1>3. lost' \cap Prompt = (lost \cap Prompt) \cup PromptsOf(r)
  BY <1>1, <1>2, Losses
<1> HIDE DEF r
<1>4. lost' \cap Prompt = (lost \cap Prompt)
                            \cup (PromptsOf(hand) \cup PromptsOf(prompts) \cup {})
  BY <1>2, <1>3
<1>5. /\ {} \in SUBSET PromptsOf(file) /\ PromptsOf(file') = PromptsOf(file) \ {}
      /\ Fine(file')
  BY <1>0, <1>1
<1> QED
  BY <1>0, <1>1, <1>4, <1>5, LoopLoses

LEMMA DiesFact ==
    ASSUME ChatTypeOK, NEW l \in BOOLEAN, Dies(l)
    PROVE  /\ UNCHANGED <<log, arrivals, stranded>> /\ hand' = <<>> /\ prompts' = <<>>
           /\ \A s \in Steer : steer'[s].n = steer[s].n
<1>1. \A s \in Steer : steer[s] \in SteerCall
  BY DEF ChatTypeOK
<1>2. \A s \in Steer : [steer[s] EXCEPT !.pc = "dead"].n = steer[s].n
  BY <1>1 DEF SteerCall
<1>3. \A s \in Steer : steer'[s].n = steer[s].n
  BY <1>2 DEF Dies
<1> QED
  BY <1>3 DEF Dies

LEMMA CrashRecords ==
    ASSUME ChatInv, NEW l \in BOOLEAN, Crash(l)
    PROVE  LineInv' /\ PlaceInv'
<1>0. /\ ChatTypeOK /\ LineInv /\ PlaceInv /\ hand \in Seq(Record) /\ prompts \in Seq(Record)
      /\ Fine(file)
  BY StateTypes DEF ChatInv, LineInv
<1>1. /\ UNCHANGED <<file, log, stranded, arrivals>>
      /\ hand' = <<>> /\ prompts' = <<>> /\ lost' = lost \cup ToSet(Recorded(hand \o prompts))
      /\ \A s \in Steer : steer'[s].n = steer[s].n
  BY <1>0, DiesFact DEF Crash
<1> DEFINE r == Recorded(hand \o prompts)
<1>2. r \in Seq(Record) /\ PromptsOf(r) = PromptsOf(hand) \cup PromptsOf(prompts)
  BY <1>0, ConcatFact, RecordedFact
<1>3. lost' \cap Prompt = (lost \cap Prompt) \cup PromptsOf(r)
  BY <1>1, <1>2, Losses
<1> HIDE DEF r
<1>4. lost' \cap Prompt = (lost \cap Prompt)
                            \cup (PromptsOf(hand) \cup PromptsOf(prompts) \cup {})
  BY <1>2, <1>3
<1>5. /\ {} \in SUBSET PromptsOf(file) /\ PromptsOf(file') = PromptsOf(file) \ {}
      /\ Fine(file')
  BY <1>0, <1>1
<1> QED
  BY <1>0, <1>1, <1>4, <1>5, LoopLoses

\* What the file has when a rewrite breaks off.
LEMMA BrokenFile ==
    ASSUME NEW q \in Seq(Record), Fine(q), NEW k \in 0..Len(q), NEW t \in {<<>>, <<Torn>>}
    PROVE  /\ SubSeq(q, 1, k) \o t \in Seq(Record)
           /\ Fine(SubSeq(q, 1, k) \o t)
           /\ SubSeq(q, k + 1, Len(q)) \in Seq(Record)
           /\ PromptsOf(q) = PromptsOf(SubSeq(q, 1, k) \o t)
                               \cup PromptsOf(SubSeq(q, k + 1, Len(q)))
           /\ PromptsOf(SubSeq(q, 1, k) \o t) \cap PromptsOf(SubSeq(q, k + 1, Len(q))) = {}
<1> DEFINE p == SubSeq(q, 1, k)
           s == SubSeq(q, k + 1, Len(q))
<1>1. /\ p \in Seq(Record) /\ s \in Seq(Record) /\ Fine(p)
      /\ PromptsOf(q) = PromptsOf(p) \cup PromptsOf(s)
      /\ PromptsOf(p) \cap PromptsOf(s) = {}
  BY PartsFact
<1> HIDE DEF p, s
<1>2. Torn \in Record /\ Torn.kind = "torn"
  BY DEF Torn, Record
<1>3. PromptsOf(<<Torn>>) = {} /\ <<Torn>> \in Seq(Record) /\ Fine(<<Torn>>)
  BY <1>2, OneRecord
<1>4. t \in Seq(Record) /\ Fine(t) /\ PromptsOf(t) = {}
  BY <1>3, EmptyFact
<1>5. Before(PromptsOf(p), PromptsOf(t))
  BY <1>4, BeforeEmpty
<1>6. /\ p \o t \in Seq(Record) /\ Fine(p \o t)
      /\ PromptsOf(p \o t) = PromptsOf(p) \cup PromptsOf(t)
  BY <1>1, <1>4, <1>5, ConcatFact
<1>7. PromptsOf(p \o t) = PromptsOf(p)
  BY <1>4, <1>6
<1> QED
  BY <1>1, <1>6, <1>7 DEF p, s

LEMMA CrashInRewriteRecords ==
    ASSUME ChatInv, NEW l \in BOOLEAN, NEW k \in 0..MaxPrompts, NEW part \in BOOLEAN,
           CrashInRewrite(l, k, part)
    PROVE  /\ LineInv' /\ PlaceInv'
           /\ file' \in Seq(Record) /\ PromptsOf(file') \subseteq PromptsOf(file)
           /\ lost' \in SUBSET Record
<1>0. /\ ChatTypeOK /\ LineInv /\ PlaceInv /\ hand \in Seq(Record) /\ prompts \in Seq(Record)
      /\ file \in Seq(Record) /\ Fine(file)
  BY StateTypes DEF ChatInv, LineInv
<1> DEFINE taken == CASE loop.pc \in {"top", "final"} -> Taken
                      [] loop.pc = "step" -> Of(file, "steer")
                      [] loop.pc = "waiting" -> WaitTaken
                      [] OTHER -> <<>>
           rest == Rest(file, taken)
           s == SubSeq(rest, k + 1, Len(rest))
           r == Recorded(hand \o prompts \o taken)
<1>1. /\ loop.pc \in {"top", "final", "step", "waiting"} /\ Dies(l)
      /\ k < Len(rest)
      /\ file' = SubSeq(rest, 1, k) \o (IF part THEN <<Torn>> ELSE <<>>)
      /\ lost' = lost \cup ToSet(r) \cup (ToSet(s) \ {Malformed})
  BY DEF CrashInRewrite
<1>2. Cut(taken, file)
  <2>1. CASE loop.pc \in {"top", "final"}
    <3>1. taken = Taken
      BY <2>1
    <3> QED
      BY <1>0, <3>1, DrainFact
  <2>2. CASE loop.pc = "step"
    <3>1. taken = Of(file, "steer")
      BY <2>2
    <3> QED
      BY <1>0, <3>1, CutOf
  <2>3. CASE loop.pc = "waiting"
    <3>1. taken = WaitTaken
      BY <2>3
    <3> QED
      BY <1>0, <3>1, WaitFact
  <2> QED
    BY <1>1, <2>1, <2>2, <2>3
<1> HIDE DEF taken
<1>3. /\ rest \in Seq(Record) /\ Fine(rest)
      /\ PromptsOf(rest) = PromptsOf(file) \ PromptsOf(taken)
      /\ taken \in Seq(Record) /\ PromptsOf(taken) \subseteq PromptsOf(file)
  BY <1>0, <1>2, CutRest DEF Cut
<1> HIDE DEF rest
<1>4. k \in 0..Len(rest)
  BY <1>1, <1>3, ConstantTypes
<1>5. /\ file' \in Seq(Record) /\ Fine(file') /\ s \in Seq(Record)
      /\ PromptsOf(rest) = PromptsOf(file') \cup PromptsOf(s)
      /\ PromptsOf(file') \cap PromptsOf(s) = {}
  <2> DEFINE t == IF part THEN <<Torn>> ELSE <<>>
  <2>1. t \in {<<>>, <<Torn>>} /\ file' = SubSeq(rest, 1, k) \o t
    BY <1>1
  <2> HIDE DEF t
  <2> QED
    BY <1>3, <1>4, <2>1, BrokenFile
<1>6. /\ r \in Seq(Record)
      /\ PromptsOf(r) = PromptsOf(hand) \cup PromptsOf(prompts) \cup PromptsOf(taken)
  <2>1. /\ hand \o prompts \in Seq(Record)
        /\ PromptsOf(hand \o prompts) = PromptsOf(hand) \cup PromptsOf(prompts)
    BY <1>0, ConcatFact
  <2> DEFINE hp == hand \o prompts
  <2> HIDE DEF hp
  <2>2. /\ hp \o taken \in Seq(Record)
        /\ PromptsOf(hp \o taken) = PromptsOf(hp) \cup PromptsOf(taken)
    BY <1>3, <2>1, ConcatFact DEF hp
  <2>3. r = Recorded(hp \o taken)
    BY DEF hp
  <2> QED
    BY <2>1, <2>2, <2>3, RecordedFact DEF hp
<1> HIDE DEF s, r
<1>7. (ToSet(s) \ {Malformed}) \cap Prompt = PromptsOf(s) /\ ToSet(r) \cap Prompt = PromptsOf(r)
  <2>1. Malformed \notin Prompt
    BY DEF Malformed, Prompt
  <2> QED
    BY <1>5, <1>6, <2>1, ToSetPrompts
<1> DEFINE X == PromptsOf(taken) \cup PromptsOf(s)
<1>8. X \in SUBSET PromptsOf(file) /\ PromptsOf(file') = PromptsOf(file) \ X
  BY <1>3, <1>5
<1>9. lost' \cap Prompt = (lost \cap Prompt)
                            \cup (PromptsOf(hand) \cup PromptsOf(prompts) \cup X)
  BY <1>1, <1>6, <1>7
<1> HIDE DEF X
<1>10. /\ UNCHANGED <<log, arrivals, stranded>> /\ hand' = <<>> /\ prompts' = <<>>
       /\ \A t \in Steer : steer'[t].n = steer[t].n
  BY <1>0, <1>1, DiesFact
<1>11. lost' \in SUBSET Record
  <2>1. lost \subseteq Record /\ ToSet(r) \subseteq Record /\ ToSet(s) \subseteq Record
    BY <1>0, <1>5, <1>6, PromptsFact DEF ChatTypeOK
  <2> QED
    BY <1>1, <2>1
<1>12. LineInv' /\ PlaceInv'
  BY <1>0, <1>5, <1>8, <1>9, <1>10, LoopLoses
<1> QED
  BY <1>5, <1>8, <1>11, <1>12

\* Records move from the file to the empty hand.
LEMMA FileToHand ==
    ASSUME ChatTypeOK, LineInv, PlaceInv, hand = <<>>,
           UNCHANGED <<prompts, log, lost, stranded, steer, arrivals>>,
           NEW t, Cut(t, file), hand' = t,
           Before(PromptsOf(t), PromptsOf(prompts)),
           Fine(file'), PromptsOf(file') = PromptsOf(file) \ PromptsOf(t)
    PROVE  LineInv' /\ PlaceInv'
<1>1. /\ Fine(t) /\ PromptsOf(t) \subseteq PromptsOf(file)
      /\ Before(PromptsOf(t), PromptsOf(file'))
  BY DEF Cut
<1>2. /\ Before(PromptsOf(log), PromptsOf(t)) /\ Before(PromptsOf(log), PromptsOf(file'))
      /\ Before(PromptsOf(prompts), PromptsOf(file'))
  BY <1>1 DEF LineInv, Before
<1>3. LineInv'
  BY <1>1, <1>2 DEF LineInv
<1>4. Present' = Present
  BY <1>1, EmptyFact DEF Present
<1> QED
  BY <1>3, <1>4, NothingGone

LEMMA StepPreRecords ==
    ASSUME ChatInv, StepPre
    PROVE  LineInv' /\ PlaceInv'
<1>0. ChatTypeOK /\ LineInv /\ PlaceInv /\ hand = <<>> /\ file \in Seq(Record)
  BY StateTypes DEF ChatInv, HoldingInv, StepPre
<1> DEFINE t == Of(file, "steer")
<1>1. /\ UNCHANGED <<prompts, log, lost, stranded, steer, arrivals>>
      /\ hand' = t /\ file' = IF file = <<>> THEN file ELSE Rest(file, t)
  BY DEF StepPre
<1>2. PromptsOf(t) = {r \in PromptsOf(file) : r.kind = "steer"}
  BY <1>0, OfFact
<1>3. t = Of(file, "steer")
  OBVIOUS
<1> HIDE DEF t
<1>4. /\ Cut(t, file) /\ Fine(file')
      /\ PromptsOf(file') = PromptsOf(file) \ PromptsOf(t)
  BY <1>0, <1>1, <1>3, SteersFact
<1>5. Before(PromptsOf(prompts), PromptsOf(file))
  BY <1>0 DEF LineInv
<1>6. Before(PromptsOf(t), PromptsOf(prompts))
  BY <1>2, <1>5 DEF Before, Apart
<1> QED
  BY <1>0, <1>1, <1>4, <1>6, FileToHand

LEMMA WaitTakesRecords ==
    ASSUME ChatInv, WaitTakes
    PROVE  LineInv' /\ PlaceInv'
<1>0. /\ ChatTypeOK /\ LineInv /\ PlaceInv /\ hand = <<>> /\ prompts = <<>>
      /\ file \in Seq(Record) /\ Fine(file)
  BY StateTypes DEF ChatInv, HoldingInv, LineInv, WaitTakes
<1>1. /\ UNCHANGED <<prompts, log, lost, stranded, steer, arrivals>>
      /\ hand' = WaitTaken /\ file' = Rest(file, WaitTaken)
  BY DEF WaitTakes, historyVars
<1>2. Cut(WaitTaken, file)
  BY <1>0, WaitFact
<1>3. Fine(file') /\ PromptsOf(file') = PromptsOf(file) \ PromptsOf(WaitTaken)
  BY <1>0, <1>1, <1>2, CutRest
<1>4. Before(PromptsOf(WaitTaken), PromptsOf(prompts))
  BY <1>0, EmptyFact, BeforeEmpty
<1> QED
  BY <1>0, <1>1, <1>2, <1>3, <1>4, FileToHand

LEMMA WaitYieldsRecords ==
    ASSUME ChatInv, WaitYields
    PROVE  LineInv' /\ PlaceInv'
<1>0. /\ ChatTypeOK /\ LineInv /\ PlaceInv /\ prompts = <<>>
      /\ hand \in Seq(Record) /\ Fine(hand) /\ prompts \in Seq(Record)
  BY StateTypes DEF ChatInv, HoldingInv, LineInv, WaitYields
<1>1. /\ UNCHANGED <<file, log, lost, stranded, steer, arrivals>>
      /\ prompts' = prompts \o hand /\ hand' = <<>>
  BY DEF WaitYields, historyVars
<1>2. PromptsOf(prompts) = {} /\ PromptsOf(hand') = {} /\ Fine(prompts) /\ Fine(hand')
  BY <1>0, <1>1, EmptyFact
<1>3. Before(PromptsOf(prompts), PromptsOf(hand))
  BY <1>2, BeforeEmpty
<1>a. /\ PromptsOf(prompts \o hand) = PromptsOf(prompts) \cup PromptsOf(hand)
      /\ Fine(prompts \o hand)
  BY <1>0, <1>2, <1>3, ConcatFact
<1>4. PromptsOf(prompts') = PromptsOf(hand) /\ Fine(prompts')
  BY <1>1, <1>2, <1>a
<1>5. /\ Before(PromptsOf(log'), PromptsOf(hand'))
      /\ Before(PromptsOf(hand'), PromptsOf(prompts'))
      /\ Before(PromptsOf(hand'), PromptsOf(file'))
  BY <1>2, BeforeEmpty
<1>6. LineInv'
  BY <1>0, <1>1, <1>2, <1>4, <1>5 DEF LineInv
<1>7. Present' = Present
  BY <1>1, <1>2, <1>4 DEF Present
<1> QED
  BY <1>0, <1>1, <1>6, <1>7, NothingGone

LEMMA HookMessagesRecords ==
    ASSUME ChatInv, NEW n \in 0..MaxHooks, HookMessages(n)
    PROVE  LineInv' /\ PlaceInv'
<1>0. ChatTypeOK /\ LineInv /\ PlaceInv /\ prompts \in Seq(Record) /\ Room \in Nat
  BY StateTypes DEF ChatInv
<1> DEFINE m == IF n < Room THEN n ELSE Room
           own == [i \in 1..m |-> Own]
<1>1. /\ UNCHANGED <<file, hand, log, lost, stranded, steer, arrivals>>
      /\ prompts' = prompts \o own
  BY DEF HookMessages, historyVars
<1>2. m \in Nat
  BY <1>0, ConstantTypes
<1> HIDE DEF m
<1>3. own \in Seq(Record) /\ PromptsOf(own) = {} /\ Fine(own)
  BY <1>2, OwnFact
<1> HIDE DEF own
<1>4. Before(PromptsOf(prompts), PromptsOf(own)) /\ Fine(prompts)
  BY <1>0, <1>3, BeforeEmpty DEF LineInv
<1>a. /\ PromptsOf(prompts \o own) = PromptsOf(prompts) \cup PromptsOf(own)
      /\ Fine(prompts \o own)
  BY <1>0, <1>3, <1>4, ConcatFact
<1>5. PromptsOf(prompts') = PromptsOf(prompts) /\ Fine(prompts')
  BY <1>1, <1>3, <1>a
<1>6. LineInv'
  BY <1>0, <1>1, <1>5 DEF LineInv
<1>7. Present' = Present
  BY <1>1, <1>5 DEF Present
<1> QED
  BY <1>0, <1>1, <1>6, <1>7, NothingGone

LEMMA FinalDrainRecords ==
    ASSUME ChatInv, FinalDrain
    PROVE  LineInv' /\ PlaceInv'
<1>0. ChatTypeOK /\ LineInv /\ PlaceInv /\ hand = <<>>
  BY DEF ChatInv, HoldingInv, FinalDrain
<1>1. /\ UNCHANGED <<hand, log, lost, stranded, steer, arrivals>>
      /\ file' = Kept /\ prompts' = Drained
  BY DEF FinalDrain
<1>2. LineInv'
  BY <1>0, <1>1, DrainLine, DrainFact DEF LineInv
<1>3. Present' = Present
  BY <1>0, <1>1, DrainLine DEF Present
<1> QED
  BY <1>0, <1>1, <1>2, <1>3, NothingGone

LEMMA StrandRecords ==
    ASSUME ChatInv, Strand
    PROVE  LineInv' /\ PlaceInv'
<1>0. ChatTypeOK /\ LineInv /\ PlaceInv /\ file \in Seq(Record)
  BY StateTypes DEF ChatInv
<1> DEFINE t == Of(file, "steer")
<1>1. /\ UNCHANGED <<prompts, hand, log, lost, steer, arrivals>>
      /\ stranded' = stranded \cup ToSet(t)
      /\ file' = IF file = <<>> THEN file ELSE Rest(file, t)
  BY DEF Strand
<1>2. t = Of(file, "steer")
  OBVIOUS
<1> HIDE DEF t
<1>3. /\ Cut(t, file) /\ Fine(file')
      /\ PromptsOf(file') = PromptsOf(file) \ PromptsOf(t)
  BY <1>0, <1>1, <1>2, SteersFact
<1>4. t \in Seq(Record) /\ PromptsOf(t) \subseteq PromptsOf(file)
  BY <1>3 DEF Cut
<1>5. LineInv'
  <2>1. PromptsOf(file') \subseteq PromptsOf(file)
    BY <1>3
  <2> QED
    BY <1>0, <1>1, <1>3, <2>1, LessInLine
<1>6. Present' = Present \ ({} \cup PromptsOf(t))
  BY <1>0, <1>1, <1>3, <1>4, LineDisjoint DEF Present
<1>7. /\ {} \in SUBSET Present /\ PromptsOf(t) \in SUBSET Present /\ {} \cap PromptsOf(t) = {}
      /\ lost' \cap Prompt = (lost \cap Prompt) \cup {}
      /\ stranded' \cap Prompt = (stranded \cap Prompt) \cup PromptsOf(t)
  BY <1>1, <1>4, Losses DEF Present
<1>8. Written' = Written
  BY <1>1, WrittenStays
<1>9. PlaceInv'
  BY <1>0, <1>6, <1>7, <1>8, PlaceStep
<1> QED
  BY <1>5, <1>9

-----------------------------------------------------------------------------
(* The writers.  A new record is behind all that there are.                *)

LEMMA NewInLine ==
    ASSUME ChatTypeOK, LineInv, PlaceInv, NEW r \in Prompt,
           \A a \in Present : Apart(a, r),
           r \notin Written, Written' = Written \cup {r},
           UNCHANGED <<prompts, hand, log, stranded>>,
           file' = Appended(file, r), lost' = lost \cup Swallowed(file, r)
    PROVE  LineInv' /\ PlaceInv'
<1> DEFINE F == PromptsOf(file)
           G == PromptsOf(file')
           S == Swallowed(file, r)
           E == PromptsOf(log) \cup PromptsOf(hand) \cup PromptsOf(prompts)
<1>1. file \in Seq(Record) /\ Fine(file)
  BY StateTypes DEF LineInv
<1>2. Before(PromptsOf(file), {r})
  BY DEF Present, Before
<1>3. Fine(file') /\ G = F \cup ({r} \ S) /\ S \in SUBSET {r}
  BY <1>1, <1>2, AppendedFact
<1>4. Present = E \cup F /\ Present' = E \cup G /\ Before(E \cup F, {r})
  BY DEF Present, Before
<1>5. /\ Before(PromptsOf(log), PromptsOf(file')) /\ Before(PromptsOf(hand), PromptsOf(file'))
      /\ Before(PromptsOf(prompts), PromptsOf(file'))
  <2>1. G \subseteq F \cup {r}
    BY <1>3
  <2>2. /\ Before(PromptsOf(log), {r}) /\ Before(PromptsOf(hand), {r})
        /\ Before(PromptsOf(prompts), {r})
    BY DEF Present, Before
  <2>3. /\ Before(PromptsOf(log), F) /\ Before(PromptsOf(hand), F)
        /\ Before(PromptsOf(prompts), F)
    BY DEF LineInv
  <2> HIDE DEF F
  <2> QED
    BY <2>1, <2>2, <2>3 DEF Before
<1>6. LineInv'
  BY <1>3, <1>5 DEF LineInv
<1> DEFINE P == Present
           A == lost \cap Prompt
           B == stranded \cap Prompt
           W == Written
<1>7. P \cup A \cup B = W /\ P \cap (A \cup B) = {} /\ A \cap B = {} /\ r \notin W
  BY PresentTypes DEF PlaceInv
<1>8. /\ Present' = P \cup ({r} \ S) /\ Written' = W \cup {r}
      /\ lost' \cap Prompt = A \cup S /\ stranded' \cap Prompt = B
  BY <1>3, <1>4
<1> HIDE DEF F, G, S, E, P, A, B, W
<1>9. /\ Present' \cup (lost' \cap Prompt) \cup (stranded' \cap Prompt) = Written'
      /\ Present' \cap ((lost' \cap Prompt) \cup (stranded' \cap Prompt)) = {}
      /\ (lost' \cap Prompt) \cap (stranded' \cap Prompt) = {}
  BY <1>3, <1>7, <1>8
<1>10. Present' \subseteq Prompt
  BY <1>8, PresentTypes DEF P
<1>11. Present' \cap (lost' \cup stranded') = {} /\ lost' \cap stranded' \cap Prompt = {}
  BY <1>9, <1>10
<1>12. PlaceInv'
  BY <1>9, <1>11 DEF PlaceInv
<1> QED
  BY <1>6, <1>12

LEMMA QueuedFact ==
    ASSUME NEW n \in Nat
    PROVE  /\ Queued(n) \in Prompt /\ Queued(n).kind = "queued" /\ Queued(n).n = n
           /\ SteerRecord(n) \in Prompt /\ SteerRecord(n).kind = "steer"
           /\ SteerRecord(n).n = n
  BY DEF Queued, SteerRecord, Prompt, Record

\* What was written, by kind.
LEMMA WrittenFact ==
    ASSUME ChatTypeOK
    PROVE  /\ Written \subseteq Prompt
           /\ \A r \in Written : r.kind = "queued" => r.n \in 1..arrivals
           /\ \A r \in Written : r.kind = "steer" => \E s \in Numbered : r.n = steer[s].n
<1>1. \A n \in 1..arrivals : n \in Nat
  BY ConstantTypes DEF ChatTypeOK
<1>2. \A s \in Numbered : s \in Steer /\ steer[s].n \in Nat
  <2>1. \A s \in Numbered : s \in Steer /\ steer[s].n \in 0..Cardinality(Steer)
    BY DEF ChatTypeOK, SteerCall, Numbered
  <2>2. \A m : m \in 0..Cardinality(Steer) => m \in Nat
    BY ConstantTypes
  <2> QED
    BY <2>1, <2>2
<1>3. Written = {Queued(n) : n \in 1..arrivals} \cup {SteerRecord(steer[s].n) : s \in Numbered}
  BY DEF Written, Numbered
<1>4. ASSUME NEW r \in Written
      PROVE  /\ r \in Prompt
             /\ r.kind = "queued" => r.n \in 1..arrivals
             /\ r.kind = "steer" => \E s \in Numbered : r.n = steer[s].n
  <2>1. CASE \E n \in 1..arrivals : r = Queued(n)
    <3>1. PICK n \in 1..arrivals : r = Queued(n)
      BY <2>1
    <3> QED
      BY <1>1, <3>1, QueuedFact
  <2>2. CASE \E s \in Numbered : r = SteerRecord(steer[s].n)
    <3>1. PICK s \in Numbered : r = SteerRecord(steer[s].n)
      BY <2>2
    <3> QED
      BY <1>2, <3>1, QueuedFact
  <2> QED
    BY <1>3, <1>4, <2>1, <2>2
<1> QED
  BY <1>4

LEMMA QueuePromptRecords ==
    ASSUME ChatInv, QueuePrompt
    PROVE  LineInv' /\ PlaceInv'
<1>0. ChatTypeOK /\ LineInv /\ PlaceInv
  BY DEF ChatInv
<1> DEFINE n == arrivals + 1
           r == Queued(n)
<1>1. /\ UNCHANGED <<prompts, hand, log, stranded, steer>>
      /\ file' = Appended(file, r) /\ lost' = lost \cup Swallowed(file, r)
      /\ arrivals' = n
  BY DEF QueuePrompt
<1>2. arrivals \in Nat /\ n \in Nat
  BY <1>0, ConstantTypes DEF ChatTypeOK
<1>3. r \in Prompt /\ r.kind = "queued" /\ r.n = n
  BY <1>2, QueuedFact
<1>4. Present \subseteq Written
  BY <1>0 DEF PlaceInv
<1>5. \A a \in Written : a.kind = "queued" => a.n < n
  <2>1. \A m \in 1..arrivals : m < n
    BY <1>2
  <2> HIDE DEF n
  <2> QED
    BY <1>0, <2>1, WrittenFact
<1>6. Written' = Written \cup {r}
  <2>1. 1..n = (1..arrivals) \cup {n}
    BY <1>2
  <2>2. Written' = {Queued(m) : m \in 1..n}
                     \cup {SteerRecord(steer[s].n) : s \in {t \in Steer : steer[t].n > 0}}
    BY <1>1 DEF Written
  <2> HIDE DEF n
  <2>3. {Queued(m) : m \in 1..n} = {Queued(m) : m \in 1..arrivals} \cup {Queued(n)}
    BY <2>1
  <2> QED
    BY <2>2, <2>3 DEF Written
<1> HIDE DEF r
<1>7. r \notin Written
  BY <1>2, <1>3, <1>5
<1>8. \A a \in Present : Apart(a, r)
  <2>1. \A a \in Present : a # r
    BY <1>4, <1>7
  <2>2. \A a \in Present : a.kind = "queued" => a.n < n
    BY <1>4, <1>5
  <2> QED
    BY <1>3, <2>1, <2>2 DEF Apart
<1> QED
  BY <1>0, <1>1, <1>3, <1>6, <1>7, <1>8, NewInLine

LEMMA SteerWritesRecords ==
    ASSUME ChatInv, NEW s \in Steer, SteerWrites(s)
    PROVE  /\ LineInv' /\ PlaceInv'
           /\ Numbered' = Numbered \cup {s} /\ s \notin Numbered
           /\ steer' = [steer EXCEPT ![s].pc = "written", ![s].n = 1 + Cardinality(Numbered)]
<1>0. ChatTypeOK /\ LineInv /\ PlaceInv /\ SteerInv
  BY DEF ChatInv
<1> DEFINE n == 1 + Cardinality(Numbered)
           r == SteerRecord(n)
<1>1. /\ UNCHANGED <<prompts, hand, log, stranded, arrivals>>
      /\ file' = Appended(file, r) /\ lost' = lost \cup Swallowed(file, r)
      /\ steer[s].pc = "checked"
      /\ steer' = [steer EXCEPT ![s].pc = "written", ![s].n = n]
  BY DEF SteerWrites, Numbered
<1>2. Cardinality(Numbered) \in Nat /\ n \in Nat \ {0}
  <2>1. Numbered \subseteq Steer
    BY DEF Numbered
  <2>2. IsFiniteSet(Numbered)
    BY <2>1, FS_Subset, ConstantTypes
  <2>3. Cardinality(Numbered) \in Nat
    BY <2>2, FS_CardinalityType
  <2> QED
    BY <2>3
<1>3. s \notin Numbered
  BY <1>0, <1>1 DEF SteerInv, Numbered
<1>4. /\ \A t \in Steer \ {s} : steer'[t].n = steer[t].n
      /\ steer'[s].n = n
  BY <1>0, <1>1 DEF ChatTypeOK, SteerCall
<1>5. Numbered' = Numbered \cup {s}
  <2> HIDE DEF n
  <2> QED
    BY <1>2, <1>4 DEF Numbered
<1>6. r \in Prompt /\ r.kind = "steer" /\ r.n = n
  BY <1>2, QueuedFact
<1>7. \A a \in Written : a.kind = "steer" => a.n < n
  <2>1. \A t \in Numbered : steer[t].n \in Nat /\ steer[t].n < n
    <3>1. \A t \in Numbered : steer[t].n \in 0..Cardinality(Steer) /\ steer[t].n <= Cardinality(Numbered)
      BY <1>0 DEF ChatTypeOK, SteerCall, SteerInv, Numbered
    <3>2. \A m : m \in 0..Cardinality(Steer) => m \in Nat
      BY ConstantTypes
    <3> QED
      BY <1>2, <3>1, <3>2
  <2> HIDE DEF n
  <2> QED
    BY <1>0, <2>1, WrittenFact
<1> HIDE DEF n
<1>8. Written' = Written \cup {r}
  <2>1. Written = {Queued(m) : m \in 1..arrivals} \cup {SteerRecord(steer[t].n) : t \in Numbered}
    BY DEF Written, Numbered
  <2>2. Written' = {Queued(m) : m \in 1..arrivals'}
                     \cup {SteerRecord(steer'[t].n) : t \in Numbered'}
    BY DEF Written, Numbered
  <2>3. {SteerRecord(steer'[t].n) : t \in Numbered'}
          = {SteerRecord(steer[t].n) : t \in Numbered} \cup {r}
    <3>1. \A t \in Numbered : SteerRecord(steer'[t].n) = SteerRecord(steer[t].n)
      BY <1>3, <1>4 DEF Numbered
    <3>2. SteerRecord(steer'[s].n) = r
      BY <1>4
    <3> HIDE DEF r
    <3> QED
      BY <1>5, <3>1, <3>2
  <2> HIDE DEF r
  <2> QED
    BY <1>1, <2>1, <2>2, <2>3
<1> HIDE DEF r
<1>9. r \notin Written
  BY <1>2, <1>6, <1>7
<1>10. \A a \in Present : Apart(a, r)
  BY <1>0, <1>6, <1>9 DEF PlaceInv, Apart
<1>11. LineInv' /\ PlaceInv'
  BY <1>0, <1>1, <1>6, <1>8, <1>9, <1>10, NewInLine
<1> QED
  BY <1>1, <1>3, <1>5, <1>11 DEF n

-----------------------------------------------------------------------------
(* Every step keeps the invariant.                                         *)

\* The questions of subagent_steer change what a call knows, not its number.
LEMMA SteerAsks ==
    ASSUME ChatTypeOK, NEW s \in Steer, NEW result \in BOOLEAN,
           SteerChecks(s, result) \/ SteerRechecks(s, result)
    PROVE  /\ UNCHANGED <<file, prompts, hand, log, loop, sentinel, closed, arrivals, run,
                          hooks, faults, lost, stranded, waited, touchedAt, settled>>
           /\ steer' \in [Steer -> SteerCall]
           /\ \A t \in Steer : /\ steer'[t].n = steer[t].n
                               /\ steer'[t].pc \in {"none", "checked"}
                                    => steer[t].pc \in {"none", "checked"}
<1>1. UNCHANGED <<file, prompts, hand, log, loop, sentinel, closed, arrivals, run,
                  hooks, faults, lost, stranded, waited, touchedAt, settled>>
  BY DEF SteerChecks, SteerRechecks, historyVars
<1>2. steer \in [Steer -> SteerCall] /\ run \in 0..MaxRuns
  BY DEF ChatTypeOK
<1>3. CASE SteerChecks(s, result)
  <2> DEFINE p == IF Closed(run) \/ loop.pc = "off" \/ result THEN "refused" ELSE "checked"
  <2>1. /\ steer[s].pc = "none" /\ steer' = [steer EXCEPT ![s].run = run, ![s].pc = p]
        /\ p \in {"refused", "checked"}
    BY <1>3 DEF SteerChecks
  <2> HIDE DEF p
  <2> QED
    BY <1>1, <1>2, <2>1 DEF SteerCall
<1>4. CASE SteerRechecks(s, result)
  <2> DEFINE p == IF Closed(steer[s].run) \/ loop.pc = "off" \/ result
                  THEN "rejected" ELSE "accepted"
  <2>1. steer' = [steer EXCEPT ![s].pc = p] /\ p \in {"rejected", "accepted"}
    BY <1>4 DEF SteerRechecks
  <2> HIDE DEF p
  <2> QED
    BY <1>1, <1>2, <2>1 DEF SteerCall
<1> QED
  BY <1>3, <1>4

LEMMA LineStep ==
    ASSUME ChatInv, [Next]_vars
    PROVE  LineInv' /\ PlaceInv'
<1>0. ChatTypeOK /\ LineInv /\ PlaceInv
  BY DEF ChatInv
<1> USE DEF historyVars
<1>1. ASSUME UNCHANGED <<file, prompts, hand, log, lost, stranded, steer, arrivals>>
      PROVE  LineInv' /\ PlaceInv'
  BY <1>0, <1>1, QuietStep
<1>2. ASSUME NEW i \in BOOLEAN, NEW given \in 0..1, Spawn(i, given)
      PROVE  LineInv' /\ PlaceInv'
  BY <1>2, SpawnRecords
<1>3. CASE Enter
  BY <1>1, <1>3 DEF Enter
<1>4. CASE Top
  BY <1>4, TopRecords
<1>5. ASSUME NEW command \in BOOLEAN, AppendPrompt(command) PROVE LineInv' /\ PlaceInv'
  BY <1>5, AppendPromptRecords
<1>6. ASSUME NEW what \in {"exit", "command", "prompt"}, UserInput(what)
      PROVE  LineInv' /\ PlaceInv'
  BY <1>1, <1>6 DEF UserInput
<1>7. CASE StepPre
  BY <1>7, StepPreRecords
<1>8. CASE AppendSteers
  BY <1>8, AppendSteersRecords
<1>9. ASSUME NEW runnable \in BOOLEAN, StepEnds(runnable) PROVE LineInv' /\ PlaceInv'
  BY <1>1, <1>9 DEF StepEnds
<1>10. CASE Complete
  BY <1>1, <1>10 DEF Complete
<1>11. CASE StepInterrupted
  BY <1>11, StepInterruptedRecords
<1>12. ASSUME NEW provider \in BOOLEAN, StepFails(provider) PROVE LineInv' /\ PlaceInv'
  BY <1>12, StepFailsRecords
<1>13. ASSUME NEW n \in 0..MaxHooks, HookMessages(n) PROVE LineInv' /\ PlaceInv'
  BY <1>13, HookMessagesRecords
<1>14. CASE HookCompletes
  BY <1>1, <1>14 DEF HookCompletes
<1>15. CASE Wait
  BY <1>1, <1>15 DEF Wait
<1>16. CASE WaitTakes
  BY <1>16, WaitTakesRecords
<1>17. CASE WaitYields
  BY <1>17, WaitYieldsRecords
<1>18. CASE LoopInterrupted
  BY <1>18, LoopInterruptedRecords
<1>19. CASE CloseQueue
  BY <1>1, <1>19 DEF CloseQueue
<1>20. CASE FinalDrain
  BY <1>20, FinalDrainRecords
<1>21. CASE Reopen
  BY <1>1, <1>21 DEF Reopen
<1>22. CASE Leave
  BY <1>1, <1>22 DEF Leave
<1>23. CASE CloseEvent
  BY <1>1, <1>23 DEF CloseEvent
<1>24. CASE Strand
  BY <1>24, StrandRecords
<1>25. ASSUME NEW l \in BOOLEAN, Crash(l) PROVE LineInv' /\ PlaceInv'
  BY <1>25, CrashRecords
<1>26. ASSUME NEW l \in BOOLEAN, NEW part \in BOOLEAN, NEW k \in 0..MaxPrompts,
              CrashInRewrite(l, k, part)
       PROVE  LineInv' /\ PlaceInv'
  BY <1>26, CrashInRewriteRecords
<1>27. CASE QueuePrompt
  BY <1>27, QueuePromptRecords
<1>28. ASSUME NEW s \in Steer, SteerWrites(s) PROVE LineInv' /\ PlaceInv'
  BY <1>28, SteerWritesRecords
<1>29. ASSUME NEW s \in Steer, NEW result \in BOOLEAN,
              SteerChecks(s, result) \/ SteerRechecks(s, result)
       PROVE  LineInv' /\ PlaceInv'
  BY <1>0, <1>29, SteerAsks, QuietStep
<1>30. CASE UNCHANGED vars
  BY <1>1, <1>30 DEF vars
<1> QED
  BY <1>2, <1>3, <1>4, <1>5, <1>6, <1>7, <1>8, <1>9, <1>10, <1>11, <1>12, <1>13, <1>14, <1>15,
     <1>16, <1>17, <1>18, <1>19, <1>20, <1>21, <1>22, <1>23, <1>24, <1>25, <1>26, <1>27, <1>28,
     <1>29, <1>30 DEF Next

\* Where the loop goes.
LEMMA LoopStep ==
    ASSUME ChatTypeOK, [Next]_vars
    PROVE  loop' \in Loop
<1>0. loop \in Loop /\ MaxSteps \in Nat \ {0}
  BY ConstantTypes DEF ChatTypeOK
<1>1. NoLoop \in Loop
  BY <1>0 DEF NoLoop, Loop, Pc
<1>2. ASSUME NEW pc \in Pc, Goto(pc) PROVE loop' \in Loop
  BY <1>0, <1>2 DEF Goto, Loop
<1>a. ASSUME NEW c \in BOOLEAN,
             loop' = [loop EXCEPT !.pc = "step", !.chained = c, !.steps = 0,
                                  !.interruptible = TRUE]
      PROVE  loop' \in Loop
  <2>1. loop' = [pc |-> "step", interactive |-> loop.interactive, chained |-> c,
                 steps |-> 0, interruptible |-> TRUE]
    BY <1>0, <1>a DEF Loop
  <2>2. "step" \in Pc /\ loop.interactive \in BOOLEAN /\ 0 \in 0..MaxSteps
    BY <1>0 DEF Pc, Loop
  <2> QED
    BY <2>1, <2>2 DEF Loop
<1>3. ASSUME NEW i \in BOOLEAN, NEW given \in 0..1, Spawn(i, given) PROVE loop' \in Loop
  <2>1. loop' = [pc |-> "starting", interactive |-> i, chained |-> FALSE, steps |-> 0,
                 interruptible |-> TRUE]
    BY <1>3 DEF Spawn, NoLoop
  <2>2. "starting" \in Pc /\ i \in BOOLEAN /\ 0 \in 0..MaxSteps
    BY <1>0 DEF Pc
  <2> QED
    BY <2>1, <2>2 DEF Loop
<1>4. CASE Top
  <2>1. \E pc \in {"popped", "input", "exhausted"} : Goto(pc)
    BY <1>4 DEF Top
  <2> QED
    BY <1>2, <2>1 DEF Pc
<1>5. ASSUME NEW command \in BOOLEAN, AppendPrompt(command) PROVE loop' \in Loop
  <2>1. CASE loop' = [loop EXCEPT !.pc = "top"]
    BY <1>0, <2>1 DEF Loop, Pc
  <2>2. CASE loop' = [loop EXCEPT !.pc = "step", !.chained = TRUE, !.steps = 0,
                                  !.interruptible = TRUE]
    BY <1>a, <2>2
  <2> QED
    BY <1>5, <2>1, <2>2 DEF AppendPrompt
<1>6. ASSUME NEW what \in {"exit", "command", "prompt"}, UserInput(what) PROVE loop' \in Loop
  <2>1. CASE what = "exit"
    BY <1>0, <1>6, <2>1 DEF UserInput, Loop, Pc
  <2>2. CASE what = "command"
    BY <1>0, <1>6, <2>2 DEF UserInput, Loop, Pc
  <2>3. CASE what = "prompt"
    <3>1. loop' = [loop EXCEPT !.pc = "step", !.chained = FALSE, !.steps = 0,
                               !.interruptible = TRUE]
      BY <1>6, <2>3 DEF UserInput
    <3> QED
      BY <1>a, <3>1
  <2> QED
    BY <1>6, <2>1, <2>2, <2>3
<1>7. ASSUME NEW runnable \in BOOLEAN, StepEnds(runnable) PROVE loop' \in Loop
  <2>1. CASE loop.steps + 1 < MaxSteps
    <3>1. loop.steps + 1 \in 0..MaxSteps
      BY <1>0, <2>1 DEF Loop
    <3> QED
      BY <1>0, <1>7, <3>1 DEF StepEnds, Loop, Pc
  <2>2. CASE ~ (loop.steps + 1 < MaxSteps)
    BY <1>0, <1>7, <2>2 DEF StepEnds, Loop, Pc
  <2> QED
    BY <2>1, <2>2
<1>8. CASE Complete
  BY <1>0, <1>8 DEF Complete, Loop, Pc
<1>9. CASE StepInterrupted
  BY <1>0, <1>9 DEF StepInterrupted, Loop, Pc
<1>10. ASSUME NEW provider \in BOOLEAN, StepFails(provider) PROVE loop' \in Loop
  BY <1>0, <1>10 DEF StepFails, Loop, Pc
<1>11. ASSUME NEW n \in 0..MaxHooks, HookMessages(n) PROVE loop' \in Loop
  BY <1>0, <1>11 DEF HookMessages, Loop, Pc
<1>12. CASE HookCompletes
  BY <1>0, <1>12 DEF HookCompletes, Loop, Pc
<1>13. CASE Wait
  BY <1>0, <1>13 DEF Wait, Loop, Pc
<1>14. CASE WaitTakes
  <2>1. \E pc \in {"waiting", "waited"} : Goto(pc)
    BY <1>14 DEF WaitTakes
  <2> QED
    BY <1>2, <2>1 DEF Pc
<1>15. CASE WaitYields
  BY <1>0, <1>15 DEF WaitYields, Loop, Pc
<1>16. CASE LoopInterrupted
  BY <1>0, <1>16 DEF LoopInterrupted, Loop, Pc
<1>17. CASE FinalDrain
  <2>1. \E pc \in {"leaving", "reopen"} : Goto(pc)
    BY <1>17 DEF FinalDrain
  <2> QED
    BY <1>2, <2>1 DEF Pc
<1>18. CASE Leave
  <2>1. \E pc \in {"off", "closing"} : Goto(pc)
    BY <1>18 DEF Leave
  <2> QED
    BY <1>2, <2>1 DEF Pc
<1>19. ASSUME NEW l \in BOOLEAN, Dies(l) PROVE loop' \in Loop
  <2>1. [NoLoop EXCEPT !.pc = "closing"] \in Loop
    BY <1>1 DEF Loop, Pc
  <2>2. loop' = [NoLoop EXCEPT !.pc = "closing"] \/ loop' = NoLoop
    BY <1>19 DEF Dies
  <2> QED
    BY <1>1, <2>1, <2>2
<1>20. CASE Enter
  BY <1>2, <1>20 DEF Enter, Pc
<1>21. CASE StepPre
  BY <1>2, <1>21 DEF StepPre, Pc
<1>22. CASE AppendSteers
  BY <1>2, <1>22 DEF AppendSteers, Pc
<1>23. CASE CloseQueue
  BY <1>2, <1>23 DEF CloseQueue, Pc
<1>24. CASE Reopen
  BY <1>2, <1>24 DEF Reopen, Pc
<1>25. CASE CloseEvent
  BY <1>2, <1>25 DEF CloseEvent, Pc
<1>26. CASE Strand
  BY <1>1, <1>26 DEF Strand
<1>27. CASE QueuePrompt
  BY <1>0, <1>27 DEF QueuePrompt
<1>28. ASSUME NEW s \in Steer, SteerWrites(s) PROVE loop' \in Loop
  BY <1>0, <1>28 DEF SteerWrites
<1>29. ASSUME NEW s \in Steer, NEW result \in BOOLEAN,
              SteerChecks(s, result) \/ SteerRechecks(s, result)
       PROVE  loop' \in Loop
  BY <1>0, <1>29, SteerAsks
<1>30. CASE UNCHANGED vars
  BY <1>0, <1>30 DEF vars
<1>31. ASSUME NEW l \in BOOLEAN, Crash(l) PROVE loop' \in Loop
  BY <1>19, <1>31 DEF Crash
<1>32. ASSUME NEW l \in BOOLEAN, NEW part \in BOOLEAN, NEW k \in 0..MaxPrompts,
              CrashInRewrite(l, k, part)
       PROVE  loop' \in Loop
  BY <1>19, <1>32 DEF CrashInRewrite
<1> QED
  BY <1>3, <1>4, <1>5, <1>6, <1>7, <1>8, <1>9, <1>10, <1>11, <1>12, <1>13, <1>14, <1>15,
     <1>16, <1>17, <1>18, <1>20, <1>21, <1>22, <1>23, <1>24, <1>25, <1>26, <1>27,
     <1>28, <1>29, <1>30, <1>31, <1>32 DEF Next

LEMMA HoldingStep ==
    ASSUME ChatInv, [Next]_vars
    PROVE  HoldingInv'
<1>a. ChatTypeOK /\ HoldingInv /\ LineInv /\ loop \in Loop
  BY DEF ChatInv, ChatTypeOK
<1>0. ChatTypeOK /\ HoldingInv /\ LineInv /\ loop \in Loop /\ Len(<<>>) <= MaxQueue
  BY <1>a, ConstantTypes, EmptyFact
<1> USE DEF HoldingInv
<1>1. ASSUME NEW i \in BOOLEAN, NEW given \in 0..1, Spawn(i, given) PROVE HoldingInv'
  BY <1>0, <1>1 DEF Spawn, NoLoop
<1>2. CASE Enter
  BY <1>0, <1>2 DEF Enter, Goto, Loop
<1>3. CASE Top
  <2>1. CASE Drained # <<>>
    BY <1>0, <1>3, <2>1 DEF Top, Goto, Loop
  <2>2. CASE Drained = <<>>
    <3>1. prompts = <<>>
      BY <1>0, <2>2, DrainFact
    <3>2. hand' = <<>> /\ prompts' = <<>>
      BY <1>0, <1>3, <2>2, <3>1 DEF Top
    <3> QED
      BY <1>0, <3>2
  <2> QED
    BY <2>1, <2>2
<1>4. ASSUME NEW command \in BOOLEAN, AppendPrompt(command) PROVE HoldingInv'
  BY <1>0, <1>4 DEF AppendPrompt, Loop
<1>5. ASSUME NEW what \in {"exit", "command", "prompt"}, UserInput(what) PROVE HoldingInv'
  BY <1>0, <1>5 DEF UserInput, Loop
<1>6. CASE StepPre
  BY <1>0, <1>6 DEF StepPre, Goto, Loop
<1>7. CASE AppendSteers
  BY <1>0, <1>7 DEF AppendSteers, Goto, Loop
<1>8. ASSUME NEW runnable \in BOOLEAN, StepEnds(runnable) PROVE HoldingInv'
  BY <1>0, <1>8 DEF StepEnds, Loop
<1>9. CASE Complete
  BY <1>0, <1>9 DEF Complete, Loop
<1>10. CASE StepInterrupted
  BY <1>0, <1>10 DEF StepInterrupted, Loop
<1>11. ASSUME NEW provider \in BOOLEAN, StepFails(provider) PROVE HoldingInv'
  BY <1>0, <1>11 DEF StepFails, Loop
<1>12. ASSUME NEW n \in 0..MaxHooks, HookMessages(n) PROVE HoldingInv'
  BY <1>0, <1>12 DEF HookMessages, Loop
<1>13. CASE HookCompletes
  BY <1>0, <1>13 DEF HookCompletes, Loop
<1>14. CASE Wait
  BY <1>0, <1>14 DEF Wait, Loop
<1>15. CASE WaitTakes
  <2>1. Len(hand') <= MaxQueue
    BY <1>0, <1>15, WaitFact DEF WaitTakes
  <2> QED
    BY <1>0, <1>15, <2>1 DEF WaitTakes, Goto, Loop
<1>16. CASE WaitYields
  BY <1>0, <1>16 DEF WaitYields, Loop
<1>17. CASE LoopInterrupted
  BY <1>0, <1>17 DEF LoopInterrupted, Loop
<1>18. CASE CloseQueue
  BY <1>0, <1>18 DEF CloseQueue, Goto, Loop
<1>19. CASE FinalDrain
  BY <1>0, <1>19 DEF FinalDrain, Goto, Loop
<1>20. CASE Reopen
  BY <1>0, <1>20 DEF Reopen, Goto, Loop
<1>21. CASE Leave
  BY <1>0, <1>21 DEF Leave, Goto, Loop
<1>22. CASE CloseEvent
  BY <1>0, <1>22 DEF CloseEvent, Goto, Loop
<1>23. CASE Strand
  BY <1>0, <1>23 DEF Strand, NoLoop
<1>24. ASSUME NEW l \in BOOLEAN, Dies(l) PROVE HoldingInv'
  BY <1>0, <1>24 DEF Dies, NoLoop
<1>25. ASSUME NEW l \in BOOLEAN, Crash(l) PROVE HoldingInv'
  BY <1>24, <1>25 DEF Crash
<1>26. ASSUME NEW l \in BOOLEAN, NEW part \in BOOLEAN, NEW k \in 0..MaxPrompts,
              CrashInRewrite(l, k, part)
       PROVE  HoldingInv'
  BY <1>24, <1>26 DEF CrashInRewrite
<1>27. CASE QueuePrompt
  BY <1>0, <1>27 DEF QueuePrompt
<1>28. ASSUME NEW s \in Steer, SteerWrites(s) PROVE HoldingInv'
  BY <1>0, <1>28 DEF SteerWrites
<1>29. ASSUME NEW s \in Steer, NEW result \in BOOLEAN,
              SteerChecks(s, result) \/ SteerRechecks(s, result)
       PROVE  HoldingInv'
  BY <1>0, <1>29, SteerAsks
<1>30. CASE UNCHANGED vars
  BY <1>0, <1>30 DEF vars
<1> QED
  BY <1>1, <1>2, <1>3, <1>4, <1>5, <1>6, <1>7, <1>8, <1>9, <1>10, <1>11, <1>12, <1>13, <1>14,
     <1>15, <1>16, <1>17, <1>18, <1>19, <1>20, <1>21, <1>22, <1>23, <1>25, <1>26, <1>27,
     <1>28, <1>29, <1>30 DEF Next

\* Sequences stay sequences of records, the loop's queue within its limit; what comes
\* into the file is a steer or a new prompt.
RecordTypes ==
    /\ {file, prompts, hand, log} \subseteq Seq(Record)
    /\ Len(prompts) <= MaxQueue
    /\ {lost, stranded} \subseteq SUBSET Record

FileGrows == \A r \in PromptsOf(file') : r \in PromptsOf(file) \/ r.kind = "steer"

LEMMA RecordTypesStep ==
    ASSUME ChatInv, [Next]_vars
    PROVE  RecordTypes' /\ (FileGrows \/ QueuePrompt)
<1>0. /\ ChatTypeOK /\ LineInv
      /\ file \in Seq(Record) /\ prompts \in Seq(Record) /\ hand \in Seq(Record)
      /\ log \in Seq(Record) /\ lost \in SUBSET Record /\ stranded \in SUBSET Record
      /\ MaxQueue \in Nat \ {0} /\ Len(prompts) \in 0..MaxQueue
  BY StateTypes DEF ChatInv, ChatTypeOK
<1>a. Len(<<>>) <= MaxQueue /\ <<>> \in Seq(Record)
  BY <1>0
<1> USE DEF RecordTypes, historyVars
<1>1. ASSUME UNCHANGED <<file, prompts, hand, log, lost, stranded>>
      PROVE  RecordTypes' /\ FileGrows
  BY <1>0, <1>1 DEF FileGrows
<1>2. ASSUME NEW i \in BOOLEAN, NEW given \in 0..1, Spawn(i, given)
      PROVE  RecordTypes' /\ FileGrows
  <2>1. given \in Nat /\ given <= MaxQueue
    BY <1>0
  <2>2. prompts' \in Seq(Record) /\ Len(prompts') <= MaxQueue
    BY <1>2, <2>1, OwnFact DEF Spawn
  <2> QED
    BY <1>0, <1>2, <2>2 DEF Spawn, FileGrows
<1>3. CASE Top
  <2>1. /\ file' = Kept /\ Kept \in Seq(Record) /\ PromptsOf(Kept) \subseteq PromptsOf(file)
        /\ UNCHANGED <<log, lost, stranded>>
    BY <1>0, <1>3, DrainFact DEF Top
  <2>2. hand' \in Seq(Record) /\ prompts' \in Seq(Record) /\ Len(prompts') <= MaxQueue
    <3>1. CASE Drained # <<>>
      <4>1. Drained \in Seq(Record) /\ Len(Drained) <= MaxQueue
        BY <1>0, DrainFact
      <4>2. /\ <<Head(Drained)>> \in Seq(Record) /\ Tail(Drained) \in Seq(Record)
            /\ Len(Tail(Drained)) = Len(Drained) - 1
        BY <3>1, <4>1, HeadTailFact
      <4>3. Len(Drained) \in Nat
        BY <4>1
      <4>4. Len(Tail(Drained)) <= MaxQueue
        BY <1>0, <4>1, <4>2, <4>3
      <4>5. hand' = <<Head(Drained)>> /\ prompts' = Tail(Drained)
        BY <1>3, <3>1 DEF Top
      <4> QED
        BY <4>2, <4>4, <4>5
    <3>2. CASE Drained = <<>>
      BY <1>0, <1>3, <3>2 DEF Top
    <3> QED
      BY <3>1, <3>2
  <2> QED
    BY <1>0, <2>1, <2>2 DEF FileGrows
<1>4. ASSUME NEW command \in BOOLEAN, AppendPrompt(command) PROVE RecordTypes' /\ FileGrows
  <2>1. log' \in Seq(Record)
    BY <1>0, <1>4, RecordedFact, ConcatFact DEF AppendPrompt
  <2> QED
    BY <1>0, <1>a, <1>4, <2>1 DEF AppendPrompt, FileGrows
<1>5. CASE StepPre
  <2> DEFINE t == Of(file, "steer")
  <2>1. t \in Seq(Record)
    BY <1>0, OfFact
  <2>2. hand' = t /\ file' = IF file = <<>> THEN file ELSE Rest(file, t)
    BY <1>5 DEF StepPre
  <2>3. file' \in Seq(Record) /\ PromptsOf(file') \subseteq PromptsOf(file)
    BY <1>0, <2>2, SteersFact
  <2> QED
    BY <1>0, <1>5, <2>1, <2>2, <2>3 DEF StepPre, FileGrows
<1>6. CASE AppendSteers
  <2>1. log' \in Seq(Record)
    BY <1>0, <1>6, ConcatFact DEF AppendSteers
  <2> QED
    BY <1>0, <1>a, <1>6, <2>1 DEF AppendSteers, FileGrows
<1>7. CASE StepInterrupted
  <2>1. lost' \in SUBSET Record
    BY <1>0, <1>7, PromptsFact DEF StepInterrupted
  <2> QED
    BY <1>0, <1>a, <1>7, <2>1 DEF StepInterrupted, FileGrows
<1>8. ASSUME NEW provider \in BOOLEAN, StepFails(provider) PROVE RecordTypes' /\ FileGrows
  <2>1. lost' \in SUBSET Record
    BY <1>0, <1>8, RecordedFact, PromptsFact DEF StepFails
  <2> QED
    BY <1>0, <1>a, <1>8, <2>1 DEF StepFails, FileGrows
<1>9. ASSUME NEW n \in 0..MaxHooks, HookMessages(n) PROVE RecordTypes' /\ FileGrows
  <2> DEFINE m == IF n < Room THEN n ELSE Room
             own == [i \in 1..m |-> Own]
  <2>1. Room \in Nat /\ Room = MaxQueue - Len(prompts)
    BY <1>0, StateTypes
  <2>2. m \in Nat /\ Len(prompts) + m <= MaxQueue
    BY <1>0, <2>1, ConstantTypes
  <2> HIDE DEF m
  <2>3. own \in Seq(Record) /\ Len(own) = m /\ prompts' = prompts \o own
    BY <1>9, <2>2, OwnFact DEF HookMessages, m
  <2> HIDE DEF own
  <2>4. prompts' \in Seq(Record) /\ Len(prompts') <= MaxQueue
    BY <1>0, <2>2, <2>3, ConcatFact
  <2> QED
    BY <1>0, <1>9, <2>4 DEF HookMessages, FileGrows
<1>10. CASE WaitTakes
  <2>1. WaitTaken \in Seq(Record) /\ Cut(WaitTaken, file)
    BY <1>0, WaitFact DEF Cut
  <2>2. /\ Rest(file, WaitTaken) \in Seq(Record)
        /\ PromptsOf(Rest(file, WaitTaken)) \subseteq PromptsOf(file)
    BY <1>0, RestFact
  <2> QED
    BY <1>0, <1>10, <2>1, <2>2 DEF WaitTakes, FileGrows
<1>11. CASE WaitYields
  <2>1. prompts = <<>> /\ Len(hand) <= MaxQueue
    BY <1>11 DEF ChatInv, HoldingInv, WaitYields
  <2>2. /\ prompts' = prompts \o hand /\ prompts \o hand \in Seq(Record)
        /\ Len(prompts \o hand) = Len(prompts) + Len(hand)
    BY <1>0, <1>11, ConcatFact DEF WaitYields
  <2>3. Len(prompts) = 0 /\ Len(hand) \in Nat
    BY <1>0, <2>1
  <2>4. prompts' \in Seq(Record) /\ Len(prompts') <= MaxQueue
    BY <2>1, <2>2, <2>3
  <2> QED
    BY <1>0, <1>a, <1>11, <2>4 DEF WaitYields, FileGrows
<1>12. ASSUME lost' = lost \cup ToSet(Recorded(hand \o prompts)),
              hand' = <<>>, prompts' = <<>>, UNCHANGED <<file, log, stranded>>
       PROVE  RecordTypes' /\ FileGrows
  <2>1. Recorded(hand \o prompts) \in Seq(Record)
    BY <1>0, ConcatFact, RecordedFact
  <2>2. lost' \in SUBSET Record
    BY <1>0, <1>12, <2>1, PromptsFact
  <2> QED
    BY <1>0, <1>a, <1>12, <2>2 DEF FileGrows
<1>13. CASE FinalDrain
  <2>1. /\ Drained \in Seq(Record) /\ Len(Drained) <= MaxQueue /\ Kept \in Seq(Record)
        /\ PromptsOf(Kept) \subseteq PromptsOf(file)
    BY <1>0, DrainFact
  <2> QED
    BY <1>0, <1>13, <2>1 DEF FinalDrain, FileGrows
<1>14. CASE Strand
  <2> DEFINE t == Of(file, "steer")
  <2>1. t \in Seq(Record) /\ ToSet(t) \subseteq Record
    BY <1>0, OfFact, PromptsFact
  <2>2. file' = IF file = <<>> THEN file ELSE Rest(file, t)
    BY <1>14 DEF Strand
  <2>3. file' \in Seq(Record) /\ PromptsOf(file') \subseteq PromptsOf(file)
    BY <1>0, <2>2, SteersFact
  <2>4. stranded' \in SUBSET Record
    BY <1>0, <1>14, <2>1 DEF Strand
  <2> QED
    BY <1>0, <1>14, <2>3, <2>4 DEF Strand, FileGrows
<1>15. ASSUME NEW l \in BOOLEAN, NEW part \in BOOLEAN, NEW k \in 0..MaxPrompts,
              CrashInRewrite(l, k, part)
       PROVE  RecordTypes' /\ FileGrows
  <2>1. /\ file' \in Seq(Record) /\ PromptsOf(file') \subseteq PromptsOf(file)
        /\ lost' \in SUBSET Record
    BY <1>15, CrashInRewriteRecords
  <2>2. UNCHANGED <<log, stranded>> /\ hand' = <<>> /\ prompts' = <<>>
    BY <1>15 DEF CrashInRewrite, Dies
  <2> QED
    BY <1>0, <1>a, <2>1, <2>2 DEF FileGrows
<1>16. ASSUME NEW r \in Prompt, file' = Appended(file, r), lost' = lost \cup Swallowed(file, r),
              UNCHANGED <<prompts, hand, log, stranded>>
       PROVE  RecordTypes' /\ \A a \in PromptsOf(file') : a \in PromptsOf(file) \/ a = r
  <2>1. /\ Appended(file, r) \in Seq(Record) /\ Swallowed(file, r) \in SUBSET {r}
        /\ PromptsOf(Appended(file, r)) = PromptsOf(file) \cup ({r} \ Swallowed(file, r))
    BY <1>0, AppendedFact
  <2>2. r \in Record
    BY DEF Prompt
  <2> QED
    BY <1>0, <1>16, <2>1, <2>2
<1>17. CASE QueuePrompt
  <2>1. arrivals + 1 \in Nat
    BY <1>0, ConstantTypes DEF ChatTypeOK
  <2>2. Queued(arrivals + 1) \in Prompt
    BY <2>1, QueuedFact
  <2> QED
    BY <1>16, <1>17, <2>2 DEF QueuePrompt
<1>18. ASSUME NEW s \in Steer, SteerWrites(s) PROVE RecordTypes' /\ FileGrows
  <2> DEFINE n == 1 + Cardinality({t \in Steer : steer[t].n > 0})
  <2>1. n \in Nat
    <3>1. IsFiniteSet({t \in Steer : steer[t].n > 0})
      BY FS_Subset, ConstantTypes
    <3> QED
      BY <3>1, FS_CardinalityType
  <2>2. /\ file' = Appended(file, SteerRecord(n))
        /\ lost' = lost \cup Swallowed(file, SteerRecord(n))
        /\ UNCHANGED <<prompts, hand, log, stranded>>
    BY <1>18 DEF SteerWrites
  <2> HIDE DEF n
  <2>3. SteerRecord(n) \in Prompt /\ SteerRecord(n).kind = "steer"
    BY <2>1, QueuedFact
  <2> QED
    BY <1>16, <2>2, <2>3 DEF FileGrows
<1>19. ASSUME NEW s \in Steer, NEW result \in BOOLEAN,
              SteerChecks(s, result) \/ SteerRechecks(s, result)
       PROVE  RecordTypes' /\ FileGrows
  BY <1>0, <1>1, <1>19, SteerAsks
<1>20. CASE LoopInterrupted
  BY <1>12, <1>20 DEF LoopInterrupted
<1>21. ASSUME NEW l \in BOOLEAN, Crash(l) PROVE RecordTypes' /\ FileGrows
  BY <1>12, <1>21 DEF Crash, Dies
<1>22. CASE Enter
  BY <1>1, <1>22 DEF Enter
<1>23. ASSUME NEW what \in {"exit", "command", "prompt"}, UserInput(what)
       PROVE  RecordTypes' /\ FileGrows
  BY <1>1, <1>23 DEF UserInput
<1>24. ASSUME NEW runnable \in BOOLEAN, StepEnds(runnable) PROVE RecordTypes' /\ FileGrows
  BY <1>1, <1>24 DEF StepEnds
<1>25. CASE Complete
  BY <1>1, <1>25 DEF Complete
<1>26. CASE HookCompletes
  BY <1>1, <1>26 DEF HookCompletes
<1>27. CASE Wait
  BY <1>1, <1>27 DEF Wait
<1>28. CASE CloseQueue
  BY <1>1, <1>28 DEF CloseQueue
<1>29. CASE Reopen
  BY <1>1, <1>29 DEF Reopen
<1>30. CASE Leave
  BY <1>1, <1>30 DEF Leave
<1>31. CASE CloseEvent
  BY <1>1, <1>31 DEF CloseEvent
<1>32. CASE UNCHANGED vars
  BY <1>1, <1>32 DEF vars
<1> HIDE DEF RecordTypes, historyVars
<1> QED
  BY <1>2, <1>3, <1>4, <1>5, <1>6, <1>7, <1>8, <1>9, <1>10, <1>11, <1>13, <1>14, <1>15,
     <1>17, <1>18, <1>19, <1>20, <1>21, <1>22, <1>23, <1>24, <1>25, <1>26, <1>27, <1>28,
     <1>29, <1>30, <1>31, <1>32 DEF Next

\* The calls of subagent_steer, and what they know.
LEMMA SteerStep ==
    ASSUME ChatInv, [Next]_vars
    PROVE  steer' \in [Steer -> SteerCall] /\ SteerInv'
<1>0. ChatTypeOK /\ SteerInv /\ steer \in [Steer -> SteerCall]
  BY DEF ChatInv, ChatTypeOK
<1> USE DEF historyVars
<1>1. ASSUME steer' \in [Steer -> SteerCall], waited' = {},
             \A s \in Steer : /\ steer'[s].n = steer[s].n
                              /\ steer'[s].pc \in {"none", "checked"}
                                   => steer[s].pc \in {"none", "checked"}
      PROVE  steer' \in [Steer -> SteerCall] /\ SteerInv'
  <2>1. Numbered' = Numbered
    BY <1>1 DEF Numbered
  <2> QED
    BY <1>0, <1>1, <2>1 DEF SteerInv
<1>2. ASSUME UNCHANGED <<steer, waited>> PROVE steer' \in [Steer -> SteerCall] /\ SteerInv'
  BY <1>0, <1>1, <1>2 DEF SteerInv
<1>3. ASSUME NEW l \in BOOLEAN, Dies(l) PROVE steer' \in [Steer -> SteerCall] /\ SteerInv'
  <2>1. waited' = {}
    BY <1>0, <1>3 DEF Dies, SteerInv
  <2>2. CASE steer' = steer
    BY <1>2, <1>3, <2>2 DEF Dies
  <2>3. CASE steer' = [s \in Steer |-> IF steer[s].pc \in {"checked", "written"}
                                       THEN [steer[s] EXCEPT !.pc = "dead"] ELSE steer[s]]
    <3>1. ASSUME NEW s \in Steer
          PROVE  /\ steer'[s] \in SteerCall /\ steer'[s].n = steer[s].n
                 /\ steer'[s].pc \in {"none", "checked"} => steer[s].pc \in {"none", "checked"}
      <4>1. steer[s] \in SteerCall
        BY <1>0
      <4>2. [steer[s] EXCEPT !.pc = "dead"] \in SteerCall
            /\ [steer[s] EXCEPT !.pc = "dead"].n = steer[s].n
            /\ [steer[s] EXCEPT !.pc = "dead"].pc = "dead"
        BY <4>1 DEF SteerCall
      <4>3. steer'[s] = IF steer[s].pc \in {"checked", "written"}
                        THEN [steer[s] EXCEPT !.pc = "dead"] ELSE steer[s]
        BY <2>3
      <4> QED
        BY <4>1, <4>2, <4>3
    <3>2. steer' \in [Steer -> SteerCall]
      BY <2>3, <3>1
    <3> QED
      BY <1>1, <2>1, <3>1, <3>2
  <2> QED
    BY <1>3, <2>2, <2>3 DEF Dies
<1>4. ASSUME NEW i \in BOOLEAN, NEW given \in 0..1, Spawn(i, given)
      PROVE  steer' \in [Steer -> SteerCall] /\ SteerInv'
  BY <1>2, <1>4 DEF Spawn
<1>5. CASE Enter
  BY <1>2, <1>5 DEF Enter
<1>6. CASE Top
  BY <1>2, <1>6 DEF Top
<1>7. ASSUME NEW command \in BOOLEAN, AppendPrompt(command)
      PROVE  steer' \in [Steer -> SteerCall] /\ SteerInv'
  BY <1>2, <1>7 DEF AppendPrompt
<1>8. ASSUME NEW what \in {"exit", "command", "prompt"}, UserInput(what)
      PROVE  steer' \in [Steer -> SteerCall] /\ SteerInv'
  BY <1>2, <1>8 DEF UserInput
<1>9. CASE StepPre
  <2> DEFINE t == Of(file, "steer")
  <2>1. file' = IF file = <<>> THEN file ELSE Rest(file, t)
    BY <1>9 DEF StepPre
  <2>2. LineInv
    BY DEF ChatInv
  <2>3. Steers(file') = {}
    BY <1>0, <2>1, <2>2, SteersFact
  <2>4. waited' = {} /\ waited = {}
    BY <1>0, <1>9, <2>3 DEF StepPre, SteerInv
  <2> QED
    BY <1>2, <1>9, <2>4 DEF StepPre
<1>10. CASE AppendSteers
  BY <1>2, <1>10 DEF AppendSteers
<1>11. ASSUME NEW runnable \in BOOLEAN, StepEnds(runnable)
       PROVE  steer' \in [Steer -> SteerCall] /\ SteerInv'
  BY <1>2, <1>11 DEF StepEnds
<1>12. CASE Complete
  BY <1>2, <1>12 DEF Complete
<1>13. CASE StepInterrupted
  BY <1>2, <1>13 DEF StepInterrupted
<1>14. ASSUME NEW provider \in BOOLEAN, StepFails(provider)
       PROVE  steer' \in [Steer -> SteerCall] /\ SteerInv'
  BY <1>2, <1>14 DEF StepFails
<1>15. ASSUME NEW n \in 0..MaxHooks, HookMessages(n)
       PROVE  steer' \in [Steer -> SteerCall] /\ SteerInv'
  BY <1>2, <1>15 DEF HookMessages
<1>16. CASE HookCompletes
  BY <1>2, <1>16 DEF HookCompletes
<1>17. CASE Wait
  BY <1>2, <1>17 DEF Wait
<1>18. CASE WaitTakes
  BY <1>2, <1>18 DEF WaitTakes
<1>19. CASE WaitYields
  BY <1>2, <1>19 DEF WaitYields
<1>20. CASE LoopInterrupted
  BY <1>2, <1>20 DEF LoopInterrupted
<1>21. CASE CloseQueue
  BY <1>2, <1>21 DEF CloseQueue
<1>22. CASE FinalDrain
  BY <1>2, <1>22 DEF FinalDrain
<1>23. CASE Reopen
  BY <1>2, <1>23 DEF Reopen
<1>24. CASE Leave
  BY <1>2, <1>24 DEF Leave
<1>25. CASE CloseEvent
  BY <1>2, <1>25 DEF CloseEvent
<1>26. CASE Strand
  BY <1>2, <1>26 DEF Strand
<1>27. ASSUME NEW l \in BOOLEAN, Crash(l) PROVE steer' \in [Steer -> SteerCall] /\ SteerInv'
  BY <1>3, <1>27 DEF Crash
<1>28. ASSUME NEW l \in BOOLEAN, NEW part \in BOOLEAN, NEW k \in 0..MaxPrompts,
              CrashInRewrite(l, k, part)
       PROVE  steer' \in [Steer -> SteerCall] /\ SteerInv'
  BY <1>3, <1>28 DEF CrashInRewrite
<1>29. CASE QueuePrompt
  BY <1>2, <1>29 DEF QueuePrompt
<1>30. ASSUME NEW s \in Steer, SteerWrites(s)
       PROVE  steer' \in [Steer -> SteerCall] /\ SteerInv'
  <2> DEFINE n == 1 + Cardinality(Numbered)
  <2>1. /\ Numbered' = Numbered \cup {s} /\ s \notin Numbered
        /\ steer' = [steer EXCEPT ![s].pc = "written", ![s].n = n]
    BY <1>30, SteerWritesRecords
  <2>2. waited' = {}
    BY <1>0, <1>30 DEF SteerWrites, SteerInv
  <2>3. Numbered \subseteq Steer /\ IsFiniteSet(Numbered) /\ Numbered \cup {s} \subseteq Steer
    BY FS_Subset, ConstantTypes DEF Numbered
  <2>4. /\ Cardinality(Numbered) \in Nat /\ Cardinality(Numbered \cup {s}) = n
        /\ Cardinality(Numbered \cup {s}) <= Cardinality(Steer)
        /\ Cardinality(Steer) \in Nat
    BY <2>1, <2>3, FS_CardinalityType, FS_AddElement, FS_Subset, ConstantTypes
  <2>5. n \in 0..Cardinality(Steer) /\ Cardinality(Numbered) <= n
    BY <2>4
  <2>6. Cardinality(Numbered') = n
    BY <2>1, <2>4
  <2> HIDE DEF n
  <2>7. /\ steer' \in [Steer -> SteerCall]
        /\ steer'[s].pc = "written" /\ steer'[s].n = n
        /\ \A t \in Steer \ {s} : steer'[t] = steer[t]
    BY <1>0, <2>1, <2>5 DEF SteerCall
  <2>8. \A t \in Steer : steer'[t].n <= n
    <3>1. \A t \in Steer \ {s} : steer'[t].n \in 0..Cardinality(Steer)
                                 /\ steer'[t].n <= Cardinality(Numbered)
      BY <1>0, <2>7 DEF SteerInv, SteerCall
    <3>2. \A t \in Steer \ {s} : steer'[t].n <= n
      BY <2>4, <2>5, <3>1
    <3>3. n <= n
      BY <2>4, <2>5
    <3> QED
      BY <2>7, <3>2, <3>3
  <2>9. \A t \in Steer : steer'[t].pc \in {"none", "checked"} => steer'[t].n = 0
    BY <1>0, <2>7 DEF SteerInv
  <2> QED
    BY <2>2, <2>6, <2>7, <2>8, <2>9 DEF SteerInv
<1>31. ASSUME NEW s \in Steer, NEW result \in BOOLEAN,
              SteerChecks(s, result) \/ SteerRechecks(s, result)
       PROVE  steer' \in [Steer -> SteerCall] /\ SteerInv'
  BY <1>0, <1>1, <1>31, SteerAsks DEF SteerInv
<1>32. CASE UNCHANGED vars
  BY <1>2, <1>32 DEF vars
<1> QED
  BY <1>4, <1>5, <1>6, <1>7, <1>8, <1>9, <1>10, <1>11, <1>12, <1>13, <1>14, <1>15, <1>16,
     <1>17, <1>18, <1>19, <1>20, <1>21, <1>22, <1>23, <1>24, <1>25, <1>26, <1>27, <1>28, <1>29,
     <1>30, <1>31, <1>32 DEF Next

\* The last look at the file finds everything: there is room for one prompt at least.
LEMMA SettledStep ==
    ASSUME ChatInv, [Next]_vars
    PROVE  SettledInv'
<1>0. /\ ChatTypeOK /\ LineInv /\ SettledInv /\ PlaceInv
      /\ arrivals \in Nat /\ touchedAt \in Nat /\ settled \in Nat
  <2>1. /\ ChatTypeOK /\ LineInv /\ SettledInv /\ PlaceInv
    BY DEF ChatInv
  <2>2. /\ arrivals \in 0..MaxPrompts /\ touchedAt \in 0..MaxPrompts
        /\ settled \in 0..MaxPrompts /\ MaxPrompts \in Nat
    BY <2>1, ConstantTypes DEF ChatTypeOK
  <2> QED
    BY <2>1, <2>2
<1>1. CASE QueuePrompt
  <2>1. \A r \in PromptsOf(file) : r.kind = "queued" => r.n > settled
    BY <1>0 DEF SettledInv
  <2>2. /\ UNCHANGED <<touchedAt, settled>> /\ arrivals' = arrivals + 1
        /\ file' = Appended(file, Queued(arrivals + 1))
    BY <1>1 DEF QueuePrompt
  <2>3. /\ Queued(arrivals + 1) \in Prompt /\ Queued(arrivals + 1).n = arrivals + 1
    <3>1. arrivals + 1 \in Nat
      BY <1>0
    <3> QED
      BY <3>1, QueuedFact
  <2>4. \A r \in PromptsOf(file') : r \in PromptsOf(file) \/ r = Queued(arrivals + 1)
    <3> DEFINE q == Queued(arrivals + 1)
    <3>1. file \in Seq(Record) /\ q \in Prompt /\ file' = Appended(file, q)
      BY <1>0, <2>2, <2>3, StateTypes
    <3> HIDE DEF q
    <3>2. PromptsOf(Appended(file, q)) = PromptsOf(file) \cup ({q} \ Swallowed(file, q))
      BY <3>1, AppendedFact
    <3>3. \A r \in PromptsOf(file') : r \in PromptsOf(file) \/ r = q
      BY <3>1, <3>2
    <3> QED
      BY <3>3 DEF q
  <2>5. settled < arrivals + 1 /\ touchedAt <= arrivals + 1 /\ settled <= arrivals + 1
    BY <1>0 DEF SettledInv
  <2>6. \A r \in PromptsOf(file') : r.kind = "queued" => r.n > settled
    BY <2>1, <2>3, <2>4, <2>5
  <2> QED
    BY <2>2, <2>5, <2>6 DEF SettledInv
<1>2. CASE CloseQueue
  BY <1>0, <1>2 DEF CloseQueue, SettledInv
<1>3. CASE FinalDrain
  <2>1. UNCHANGED <<arrivals, touchedAt>> /\ file' = Kept /\ prompts' = Drained
        /\ settled' = IF Drained = <<>> THEN touchedAt ELSE settled
    BY <1>3 DEF FinalDrain
  <2>2. PromptsOf(file') \subseteq PromptsOf(file)
    BY <1>0, <2>1, DrainFact
  <2>3. CASE Drained = <<>>
    <3>1. prompts = <<>> /\ Taken = <<>>
      BY <1>0, <2>3, DrainFact
    <3>2. Room > 0
      BY <1>0, <3>1, StateTypes
    <3>3. \A r \in PromptsOf(file) : r.kind # "queued"
      BY <1>0, <3>1, <3>2, DrainFact
    <3> QED
      BY <1>0, <2>1, <2>2, <2>3, <3>3 DEF SettledInv
  <2>4. CASE Drained # <<>>
    BY <1>0, <2>1, <2>2, <2>4 DEF SettledInv
  <2> QED
    BY <2>3, <2>4
<1>4. ASSUME UNCHANGED <<arrivals, touchedAt, settled>>, FileGrows PROVE SettledInv'
  BY <1>0, <1>4 DEF SettledInv, FileGrows
<1>5. QueuePrompt \/ CloseQueue \/ FinalDrain \/ UNCHANGED <<arrivals, touchedAt, settled>>
  BY DEF Next, vars, historyVars, Spawn, Enter, Top, AppendPrompt, UserInput, StepPre,
     AppendSteers, StepEnds, Complete, StepInterrupted, StepFails, HookMessages,
     HookCompletes, Wait, WaitTakes, WaitYields, LoopInterrupted, Reopen, Leave, CloseEvent,
     Strand, Crash, CrashInRewrite, Dies, SteerWrites, SteerChecks, SteerRechecks
<1>6. FileGrows \/ QueuePrompt
  BY RecordTypesStep
<1> QED
  BY <1>1, <1>2, <1>3, <1>4, <1>5, <1>6

\* The counters, and the marks that a closed queue leaves.
LEMMA CountersStep ==
    ASSUME ChatTypeOK, [Next]_vars
    PROVE  /\ sentinel' \in 0..MaxRuns /\ closed' \in BOOLEAN /\ arrivals' \in 0..MaxPrompts
           /\ run' \in 0..MaxRuns /\ hooks' \in 0..MaxHooks /\ faults' \in 0..MaxFaults
           /\ {touchedAt', settled'} \subseteq 0..MaxPrompts
<1>0. /\ sentinel \in 0..MaxRuns /\ closed \in BOOLEAN /\ arrivals \in 0..MaxPrompts
      /\ run \in 0..MaxRuns /\ hooks \in 0..MaxHooks /\ faults \in 0..MaxFaults
      /\ touchedAt \in 0..MaxPrompts /\ settled \in 0..MaxPrompts
      /\ MaxRuns \in Nat /\ MaxPrompts \in Nat /\ MaxHooks \in Nat /\ MaxFaults \in Nat
  BY ConstantTypes DEF ChatTypeOK
<1> USE DEF Next, vars, historyVars, Spawn, Enter, Top, AppendPrompt, UserInput, StepPre,
        AppendSteers, StepEnds, Complete, StepInterrupted, StepFails, HookMessages,
        HookCompletes, Wait, WaitTakes, WaitYields, LoopInterrupted, CloseQueue, FinalDrain,
        Reopen, Leave, CloseEvent, Strand, Crash, CrashInRewrite, Dies, Fault, QueuePrompt,
        SteerWrites, SteerChecks, SteerRechecks
<1>1. sentinel' \in {sentinel, 0, run}
  OBVIOUS
<1>2. closed' \in {closed, TRUE, FALSE}
  OBVIOUS
<1>3. arrivals' = arrivals \/ (arrivals < MaxPrompts /\ arrivals' = arrivals + 1)
  OBVIOUS
<1>4. run' = run \/ (run < MaxRuns /\ run' = run + 1)
  OBVIOUS
<1>5. hooks' = hooks \/ (\E n \in 0..MaxHooks : n <= hooks /\ hooks' = hooks - n)
  OBVIOUS
<1>6. faults' = faults \/ (faults > 0 /\ faults' = faults - 1)
  OBVIOUS
<1>7. touchedAt' \in {touchedAt, arrivals} /\ settled' \in {settled, touchedAt}
  OBVIOUS
<1> HIDE DEF Next, vars, historyVars, Spawn, Enter, Top, AppendPrompt, UserInput, StepPre,
        AppendSteers, StepEnds, Complete, StepInterrupted, StepFails, HookMessages,
        HookCompletes, Wait, WaitTakes, WaitYields, LoopInterrupted, CloseQueue, FinalDrain,
        Reopen, Leave, CloseEvent, Strand, Crash, CrashInRewrite, Dies, Fault, QueuePrompt,
        SteerWrites, SteerChecks, SteerRechecks
<1>8. sentinel' \in 0..MaxRuns
  BY <1>0, <1>1
<1>a. closed' \in BOOLEAN
  <2>1. CASE closed' = closed
    BY <1>0, <2>1
  <2>2. CASE closed' \in {TRUE, FALSE}
    BY <2>2
  <2> QED
    BY <1>2, <2>1, <2>2
<1>9. arrivals' \in 0..MaxPrompts /\ run' \in 0..MaxRuns
  BY <1>0, <1>3, <1>4
<1>10. hooks' \in 0..MaxHooks /\ faults' \in 0..MaxFaults
  BY <1>0, <1>5, <1>6
<1>11. {touchedAt', settled'} \subseteq 0..MaxPrompts
  BY <1>0, <1>7
<1> QED
  BY <1>8, <1>a, <1>9, <1>10, <1>11

LEMMA ChatInvInit ==
    ASSUME Init
    PROVE  ChatInv
<1>0. /\ MaxQueue \in Nat \ {0} /\ MaxSteps \in Nat \ {0} /\ MaxPrompts \in Nat
      /\ MaxRuns \in Nat /\ MaxHooks \in Nat /\ MaxFaults \in Nat
      /\ Cardinality(Steer) \in Nat
  BY ConstantTypes, FS_CardinalityType
<1>1. ChatTypeOK
  <2>1. NoLoop \in Loop
    BY <1>0 DEF NoLoop, Loop, Pc
  <2>2. [pc |-> "none", run |-> 0, n |-> 0] \in SteerCall
    BY <1>0 DEF SteerCall
  <2>3. steer \in [Steer -> SteerCall]
    BY <2>2 DEF Init
  <2> QED
    BY <1>0, <2>1, <2>3 DEF Init, ChatTypeOK
<1>2. HoldingInv
  BY <1>0 DEF Init, HoldingInv, NoLoop
<1>3. Numbered = {}
  BY DEF Numbered, Init
<1>4. SteerInv
  BY <1>0, <1>3, FS_EmptySet DEF Init, SteerInv
<1>5. LineInv
  BY EmptyFact, BeforeEmpty DEF Init, LineInv
<1>6. Written = {}
  <2>1. 1..arrivals = {}
    BY DEF Init
  <2> QED
    BY <1>3, <2>1 DEF Written, Numbered
<1>7. PlaceInv
  BY <1>6, EmptyFact DEF Init, PlaceInv, Present
<1>8. SettledInv
  BY EmptyFact DEF Init, SettledInv
<1> QED
  BY <1>1, <1>2, <1>4, <1>5, <1>7, <1>8 DEF ChatInv

LEMMA ChatInvStep ==
    ASSUME ChatInv, [Next]_vars
    PROVE  ChatInv'
<1>1. ChatTypeOK
  BY DEF ChatInv
<1>2. /\ LineInv' /\ PlaceInv' /\ HoldingInv' /\ SteerInv' /\ SettledInv'
      /\ steer' \in [Steer -> SteerCall]
  BY LineStep, HoldingStep, SteerStep, SettledStep
<1>3. loop' \in Loop
  BY <1>1, LoopStep
<1>4. RecordTypes'
  BY RecordTypesStep
<1>5. waited' \subseteq 1..Cardinality(Steer)
  BY <1>2 DEF SteerInv
<1>6. /\ sentinel' \in 0..MaxRuns /\ closed' \in BOOLEAN /\ arrivals' \in 0..MaxPrompts
      /\ run' \in 0..MaxRuns /\ hooks' \in 0..MaxHooks /\ faults' \in 0..MaxFaults
      /\ {touchedAt', settled'} \subseteq 0..MaxPrompts
  BY <1>1, CountersStep
<1>7. ChatTypeOK'
  BY <1>2, <1>3, <1>4, <1>5, <1>6 DEF ChatTypeOK, RecordTypes
<1> QED
  BY <1>2, <1>7 DEF ChatInv

\* All the records, in line: none is there twice.
LEMMA EverywhereFact ==
    ASSUME ChatInv
    PROVE  Everywhere \in Seq(Record) /\ Fine(Everywhere) /\ PromptsOf(Everywhere) = Present
<1>0. ChatTypeOK /\ LineInv
  BY DEF ChatInv
<1>1. log \in Seq(Record) /\ hand \in Seq(Record) /\ prompts \in Seq(Record) /\ file \in Seq(Record)
  BY <1>0, StateTypes
<1> DEFINE a == log \o hand
           b == a \o prompts
<1>2. a \in Seq(Record) /\ PromptsOf(a) = PromptsOf(log) \cup PromptsOf(hand) /\ Fine(a)
  BY <1>0, <1>1, ConcatFact DEF LineInv
<1> HIDE DEF a
<1>3. Before(PromptsOf(a), PromptsOf(prompts)) /\ Before(PromptsOf(a), PromptsOf(file))
  BY <1>0, <1>2 DEF LineInv, Before
<1>4. Fine(prompts) /\ Fine(file) /\ Before(PromptsOf(prompts), PromptsOf(file))
  BY <1>0 DEF LineInv
<1>5. b \in Seq(Record) /\ PromptsOf(b) = PromptsOf(a) \cup PromptsOf(prompts) /\ Fine(b)
  BY <1>1, <1>2, <1>3, <1>4, ConcatFact
<1> HIDE DEF b
<1>6. Before(PromptsOf(b), PromptsOf(file))
  BY <1>3, <1>4, <1>5 DEF Before
<1>7. /\ b \o file \in Seq(Record) /\ PromptsOf(b \o file) = PromptsOf(b) \cup PromptsOf(file)
      /\ Fine(b \o file)
  BY <1>1, <1>4, <1>5, <1>6, ConcatFact
<1>8. Everywhere = b \o file
  BY DEF Everywhere, a, b
<1> QED
  BY <1>2, <1>5, <1>7, <1>8 DEF Present

-----------------------------------------------------------------------------
(* The theorems.                                                           *)

THEOREM ChatInvariant == Spec => []ChatInv
<1>1. Init => ChatInv
  BY ChatInvInit
<1>2. ChatInv /\ [Next]_vars => ChatInv'
  BY ChatInvStep
<1> QED
  BY <1>1, <1>2, PTL DEF Spec

\* Every variable keeps its type.  The loop's own queue never has more prompts than
\* MAX_PROMPT_QUEUE_SIZE, whatever a drain and the LOOP_CONTINUE hooks add to it.
THEOREM ChatTypeCorrect == Spec => []ChatTypeOK
<1>1. ChatInv => ChatTypeOK
  BY DEF ChatInv
<1> QED
  BY <1>1, ChatInvariant, PTL

\* Queued prompts reach the conversation in the order they were queued: none
\* overtakes another on the way through the file, the loop's queue and its hands.
THEOREM OrderOfPrompts == Spec => []PromptsInOrder
<1>1. ASSUME ChatInv PROVE PromptsInOrder
  <2> DEFINE q == Of(Everywhere, "queued")
  <2>1. Everywhere \in Seq(Record) /\ Fine(Everywhere)
    BY <1>1, EverywhereFact
  <2>2. q \in Seq(Record) /\ Fine(q) /\ \A r \in ToSet(q) : r.kind = "queued"
    BY <2>1, OfFact
  <2> HIDE DEF q
  <2>3. ASSUME NEW i \in DOMAIN q, NEW j \in DOMAIN q, i < j PROVE q[i].n < q[j].n
    <3>1. Apart(q[i], q[j])
      BY <2>2, <2>3 DEF Fine
    <3>2. q[i].kind = "queued" /\ q[j].kind = "queued"
      BY <2>2 DEF ToSet
    <3> QED
      BY <3>1, <3>2 DEF Apart
  <2> QED
    BY <2>3 DEF PromptsInOrder, q
<1> QED
  BY <1>1, ChatInvariant, PTL

\* Every prompt and every steer that was written is in one place, and once: in the file,
\* in the loop's hands, in the conversation, or among those that a fault or the end of
\* the run took.
THEOREM OnePlaceForRecords == Spec => []RecordInOnePlace
<1>1. ASSUME ChatInv PROVE RecordInOnePlace
  <2> DEFINE e == Everywhere
  <2>1. e \in Seq(Record) /\ Fine(e) /\ PromptsOf(e) = Present
    BY <1>1, EverywhereFact
  <2>2. /\ Present \cup (lost \cap Prompt) \cup (stranded \cap Prompt) = Written
        /\ Present \cap (lost \cup stranded) = {} /\ lost \cap stranded \cap Prompt = {}
    BY <1>1 DEF ChatInv, PlaceInv
  <2> HIDE DEF e
  <2>3. ASSUME NEW r \in Written
        PROVE  Cardinality({i \in DOMAIN e : e[i] = r})
                 + (IF r \in lost THEN 1 ELSE 0) + (IF r \in stranded THEN 1 ELSE 0) = 1
    <3> DEFINE D == {i \in DOMAIN e : e[i] = r}
    <3>0. r \in Prompt /\ r.kind \in {"queued", "steer"}
      BY <1>1, WrittenFact DEF ChatInv, Prompt
    <3>1. CASE r \in Present
      <4>1. r \notin lost /\ r \notin stranded
        BY <2>2, <3>1
      <4>2. PICK i \in DOMAIN e : e[i] = r
        BY <2>1, <3>1 DEF PromptsOf, ToSet
      <4>3. D = {i}
        <5>1. ASSUME NEW j \in DOMAIN e, e[j] = r, j # i PROVE FALSE
          <6>1. i < j \/ j < i
            BY <2>1, <5>1
          <6> QED
            BY <2>1, <3>0, <4>2, <5>1, <6>1 DEF Fine, Apart
        <5> QED
          BY <4>2, <5>1
      <4>4. Cardinality(D) = 1
        BY <4>3, FS_Singleton
      <4> HIDE DEF D
      <4> QED
        BY <4>1, <4>4 DEF D
    <3>2. CASE r \notin Present
      <4>1. (r \in lost /\ r \notin stranded) \/ (r \notin lost /\ r \in stranded)
        BY <2>2, <3>0, <3>2
      <4>2. D = {}
        BY <2>1, <3>0, <3>2 DEF PromptsOf, ToSet
      <4>3. Cardinality(D) = 0
        BY <4>2, FS_EmptySet
      <4> HIDE DEF D
      <4>4. Cardinality(D) + (IF r \in lost THEN 1 ELSE 0) + (IF r \in stranded THEN 1 ELSE 0) = 1
        BY <4>1, <4>3
      <4> QED
        BY <4>4 DEF D
    <3> QED
      BY <3>1, <3>2
  <2> QED
    BY <2>3 DEF RecordInOnePlace, e
<1> QED
  BY <1>1, ChatInvariant, PTL

\* A loop that ran out of prompts, or was told that the session is complete, left none
\* in the file that was queued before it touched the sentinel.
THEOREM NoPromptLeftBehind == Spec => []NothingLeftBehind
<1>1. ASSUME ChatInv PROVE NothingLeftBehind
  <2>1. file \in Seq(Record)
    BY <1>1, StateTypes DEF ChatInv
  <2>2. ToSet(Of(file, "queued")) = {r \in PromptsOf(file) : r.kind = "queued"}
    BY <2>1, OfFact
  <2>3. \A r \in PromptsOf(file) : r.kind = "queued" => r.n > settled
    BY <1>1 DEF ChatInv, SettledInv
  <2> QED
    BY <2>2, <2>3 DEF NothingLeftBehind
<1> QED
  BY <1>1, ChatInvariant, PTL

\* No steer is overlooked: the STEP_PRE hook leaves none in the file, so that one which
\* is still there, or is thrown away with the run, came after the last look.
THEOREM NoSteerOverlooked == Spec => []SteerMissedNoCheckpoint
<1>1. ChatInv => SteerMissedNoCheckpoint
  BY DEF ChatInv, SteerInv, SteerMissedNoCheckpoint
<1> QED
  BY <1>1, ChatInvariant, PTL

=============================================================================
