-------------------------- MODULE SectionPartsProofs --------------------------
(***************************************************************************)
(* Lemmas about SectionParts: what a converter that knows only a position  *)
(* meets in a section of variable length. Structures that lie one behind   *)
(* the other have different positions, so that reading at one finds the    *)
(* structure that starts there; behind m error information structures or   *)
(* contexts the position is that of the next; and what Put() writes lies   *)
(* where it was read as long as kinds and sizes are the same. What is laid *)
(* behind a header is such a section.                                      *)
(***************************************************************************)
EXTENDS SectionParts, FiniteSetTheorems, SequenceTheorems, WellFoundedInduction, TLAPS
----------------------------------------------------------------------------
(* A set of natural numbers has a least one: the intervals up to its       *)
(* members are finite, and strict inclusion of finite sets is              *)
(* well-founded.                                                           *)
LEMMA LeastNumber ==
  ASSUME NEW T, T \subseteq Nat, T # {}
  PROVE  \E x \in T : \A y \in T : x <= y
<1> DEFINE U == {0..x : x \in T}
<1>1. IsWellFoundedOn(StrictSubsetOrdering(Nat), FiniteSubsetsOf(Nat))
  BY FS_StrictSubsetOrderingWellFounded
<1>2. \A x \in T : 0..x \in FiniteSubsetsOf(Nat)
  <2> TAKE x \in T
  <2>1. IsFiniteSet(0..x)
    BY FS_Interval
  <2> QED
    BY <2>1 DEF FiniteSubsetsOf
<1>3. U \subseteq FiniteSubsetsOf(Nat) /\ U # {}
  BY <1>2
<1> HIDE DEF U
<1>4. PICK u \in U : \A v \in U : <<v, u>> \notin StrictSubsetOrdering(Nat)
  BY <1>1, <1>3, WFMin
<1>5. PICK x \in T : u = 0..x
  BY DEF U
<1>6. ASSUME NEW y \in T PROVE x <= y
  <2>1. <<0..y, u>> \notin StrictSubsetOrdering(Nat)
    BY <1>4 DEF U
  <2>2. CASE y < x
    <3>1. 0..y \subseteq 0..x /\ 0..y \in SUBSET Nat /\ 0..x \in SUBSET Nat
      BY <2>2
    <3>2. x \in 0..x /\ x \notin 0..y
      BY <2>2
    <3> QED
      BY <3>1, <3>2, <2>1, <1>5 DEF StrictSubsetOrdering
  <2> QED
    BY <2>2
<1> QED
  BY <1>6

(* Induction, for the sets of numbers the other lemmas need.               *)
LEMMA NumbersInduction ==
  ASSUME NEW S, 0 \in S, \A k \in Nat : k \in S => k + 1 \in S
  PROVE  Nat \subseteq S
<1> SUFFICES ASSUME Nat \ S # {} PROVE FALSE
  OBVIOUS
<1>1. PICK x \in Nat \ S : \A y \in Nat \ S : x <= y
  BY LeastNumber
<1>2. x # 0 /\ x - 1 \in Nat /\ x - 1 \in S
  BY <1>1
<1> QED
  BY <1>1, <1>2

(* The sum of the first sizes is defined for every number of them.         *)
LEMMA EndsExist ==
  ASSUME NEW structures, NEW N \in Nat,
         \A k \in 1..N : structures[k].size \in Nat
  PROVE  \E e \in [0..N -> Nat] :
           e = [k \in 0..N |-> IF k = 0 THEN 0 ELSE e[k - 1] + structures[k].size]
<1> DEFINE Is(e, m) ==
             e = [k \in 0..m |-> IF k = 0 THEN 0 ELSE e[k - 1] + structures[k].size]
           S == {m \in Nat : m <= N => \E e \in [0..m -> Nat] : Is(e, m)}
<1>1. 0 \in S
  <2> DEFINE e == [k \in 0..0 |-> 0]
  <2>1. e \in [0..0 -> Nat] /\ Is(e, 0)
    OBVIOUS
  <2> QED
    BY <2>1
<1>2. ASSUME NEW m \in Nat, m \in S PROVE m + 1 \in S
  <2> SUFFICES ASSUME m + 1 <= N PROVE \E e \in [0..m + 1 -> Nat] : Is(e, m + 1)
    OBVIOUS
  <2>1. PICK e \in [0..m -> Nat] : Is(e, m)
    BY <1>2
  <2> HIDE DEF S
  <2> DEFINE f == [k \in 0..m + 1 |-> IF k = m + 1 THEN e[m] + structures[m + 1].size
                                                    ELSE e[k]]
  <2>2. m + 1 \in 1..N /\ structures[m + 1].size \in Nat /\ e[m] \in Nat
    OBVIOUS
  <2>3. f \in [0..m + 1 -> Nat]
    BY <2>2
  <2>4. ASSUME NEW k \in 0..m + 1
        PROVE  f[k] = IF k = 0 THEN 0 ELSE f[k - 1] + structures[k].size
    <3>1. CASE k = m + 1
      BY <3>1
    <3>2. CASE k \in 0..m
      <4>1. e[k] = IF k = 0 THEN 0 ELSE e[k - 1] + structures[k].size
        BY <2>1, <3>2
      <4> QED
        BY <3>2, <4>1
    <3> QED
      BY <3>1, <3>2
  <2>5. Is(f, m + 1)
    BY <2>4
  <2> QED
    BY <2>3, <2>5
<1>3. N \in S
  <2> HIDE DEF S
  <2> QED
    BY <1>1, <1>2, NumbersInduction
<1> QED
  BY <1>3

(* Ends() is that sum: where each structure ends, counted from the first.  *)
LEMMA EndsDef ==
  ASSUME NEW structures, Len(structures) \in Nat,
         \A k \in 1..Len(structures) : structures[k].size \in Nat
  PROVE  /\ Ends(structures) \in [0..Len(structures) -> Nat]
         /\ Ends(structures)[0] = 0
         /\ \A k \in 1..Len(structures) :
              Ends(structures)[k] = Ends(structures)[k - 1] + structures[k].size
<1> DEFINE N == Len(structures)
           Is(e) == e = [k \in 0..N |-> IF k = 0 THEN 0 ELSE e[k - 1] + structures[k].size]
<1>1. PICK e \in [0..N -> Nat] : Is(e)
  BY EndsExist
<1>2. Ends(structures) = CHOOSE f : Is(f)
  BY DEF Ends
<1>3. Is(Ends(structures))
  BY <1>1, <1>2
<1> HIDE DEF Is
<1> DEFINE f == Ends(structures)
<1>4. \A k \in 0..N : f[k] = IF k = 0 THEN 0 ELSE f[k - 1] + structures[k].size
  <2> HIDE DEF f
  <2>1. Is(f)
    BY <1>3 DEF f
  <2> QED
    BY <2>1 DEF Is
<1>5. DOMAIN f = 0..N
  BY <1>3 DEF Is
<1>6. f = [k \in 0..N |-> f[k]]
  BY <1>3 DEF Is
<1> DEFINE S == {m \in Nat : m <= N => f[m] \in Nat}
<1> HIDE DEF f
<1>7. 0 \in S
  BY <1>4
<1>8. ASSUME NEW m \in Nat, m \in S PROVE m + 1 \in S
  BY <1>4, <1>8
<1>9. Nat \subseteq S
  <2> HIDE DEF S
  <2> QED
    BY <1>7, <1>8, NumbersInduction
<1>10. f \in [0..N -> Nat]
  BY <1>6, <1>9
<1> QED
  BY <1>4, <1>10 DEF f
----------------------------------------------------------------------------
(* Where a structure starts, or the end.                                   *)
StartAt(parts, k) == IF k <= Len(parts) THEN parts[k].start ELSE End(parts)

(* Contiguous structures start one behind the other.                       *)
LEMMA StartsOrdered ==
  ASSUME NEW parts, Len(parts) \in Nat \ {0}, Contiguous(parts),
         \A k \in 1..Len(parts) : parts[k].size \in Nat
  PROVE  /\ \A k \in 1..Len(parts) : parts[k].start \in Nat
         /\ \A k \in 1..Len(parts) : StartAt(parts, k + 1) = parts[k].start + parts[k].size
         /\ \A j, k \in 1..Len(parts) :
              j < k => parts[j].start + parts[j].size <= parts[k].start
         /\ End(parts) = parts[Len(parts)].start + parts[Len(parts)].size
<1> DEFINE N == Len(parts)
<1>1. parts # <<>>
  OBVIOUS
<1>2. End(parts) = parts[N].start + parts[N].size
  BY <1>1 DEF End
<1>3. \A k \in 1..N : StartAt(parts, k + 1) = parts[k].start + parts[k].size
  BY <1>2 DEF StartAt, Contiguous
<1>4. /\ parts[1].start = 0
      /\ \A k \in 2..N : parts[k].start = parts[k - 1].start + parts[k - 1].size
  BY DEF Contiguous
<1> DEFINE S == {m \in Nat : \A k \in 1..N : k <= m =>
                   /\ parts[k].start \in Nat
                   /\ \A j \in 1..N : j < k => parts[j].start + parts[j].size <= parts[k].start}
<1>5. 0 \in S
  OBVIOUS
<1>6. ASSUME NEW m \in Nat, m \in S PROVE m + 1 \in S
  <2>1. ASSUME NEW k \in 1..N, k <= m + 1
        PROVE  /\ parts[k].start \in Nat
               /\ \A j \in 1..N : j < k => parts[j].start + parts[j].size <= parts[k].start
    <3>1. CASE k <= m
      BY <3>1, <1>6
    <3>2. CASE k = m + 1 /\ k = 1
      BY <3>2, <1>4
    <3>3. CASE k = m + 1 /\ k # 1
      <4>1. k - 1 \in 1..N /\ k - 1 <= m /\ parts[k - 1].start \in Nat
        BY <3>3, <1>6
      <4>2. parts[k].start = parts[k - 1].start + parts[k - 1].size
        BY <3>3, <1>4
      <4>3. ASSUME NEW j \in 1..N, j < k
            PROVE  parts[j].start + parts[j].size <= parts[k].start
        <5>1. CASE j = k - 1
          BY <5>1, <4>1, <4>2
        <5>2. CASE j < k - 1
          <6>1. parts[j].start + parts[j].size <= parts[k - 1].start
            BY <5>2, <4>1, <1>6
          <6>2. parts[j].start \in Nat
            <7>1. j <= m
              BY <5>2, <3>3
            <7> QED
              BY <7>1, <1>6
          <6> QED
            BY <6>1, <6>2, <4>1, <4>2, SMTT(40)
        <5> QED
          BY <5>1, <5>2, <4>3
      <4> QED
        BY <4>1, <4>2, <4>3
    <3> QED
      BY <3>1, <3>2, <3>3, <2>1
  <2> QED
    BY <2>1
<1>7. N \in S
  <2> HIDE DEF S
  <2> QED
    BY <1>5, <1>6, NumbersInduction
<1> QED
  BY <1>2, <1>3, <1>7

(* A structure read where it starts is that structure.                     *)
Readable(parts) ==
  /\ Len(parts) \in Nat \ {0} /\ Contiguous(parts)
  /\ \A k \in 1..Len(parts) : parts[k].size \in Nat
  /\ \A k \in 1..Len(parts) : parts[k].kind \in {"info", "context"} => parts[k].size > 0

LEMMA ReadWhereItStarts ==
  ASSUME NEW parts, Readable(parts), NEW k \in 1..Len(parts),
         parts[k].kind \in {"info", "context"}, NEW residues
  PROVE  ReadAt(parts, parts[k].kind, parts[k].start, residues) = {parts[k].body}
<1> DEFINE there == {j \in 1..Len(parts) :
                      parts[j].kind = parts[k].kind /\ parts[j].start = parts[k].start}
<1>1. ASSUME NEW j \in there PROVE j = k
  <2>1. /\ parts[j].start \in Nat /\ parts[k].start \in Nat
        /\ j < k => parts[j].start + parts[j].size <= parts[k].start
        /\ k < j => parts[k].start + parts[k].size <= parts[j].start
    BY StartsOrdered DEF Readable
  <2>2. parts[j].size > 0 /\ parts[k].size > 0 /\ parts[j].size \in Nat /\ parts[k].size \in Nat
    BY DEF Readable
  <2>3. parts[j].start = parts[k].start /\ j \in Nat /\ k \in Nat
    OBVIOUS
  <2> HIDE DEF there
  <2> QED
    BY <2>1, <2>2, <2>3
<1>2. there = {k}
  BY <1>1
<1> QED
  BY <1>2 DEF ReadAt

(* The structures of a processor's section.                                *)
LEMMA ProcessorSectionShape ==
  ASSUME NEW parts, NEW headerSize \in Nat \ {0}, NEW infoSize \in Nat \ {0},
         NEW contextSize \in Nat \ {0},
         IsProcessorSection(parts, headerSize, infoSize, contextSize),
         \A k \in 2..Len(parts) : parts[k].kind = "context" => parts[k].body.size \in Nat
  PROVE  /\ Len(parts) \in Nat \ {0} /\ Contiguous(parts)
         /\ \A k \in 1..Len(parts) :
              /\ parts[k].size \in Nat
              /\ parts[k].kind = "info" => parts[k].size = infoSize /\ k > 1
              /\ parts[k].kind = "context" =>
                   /\ parts[k].size = contextSize /\ k > 1
                   /\ k + 1 \in 1..Len(parts) /\ parts[k + 1].kind = "registers"
                   /\ parts[k + 1].size = parts[k].body.size
                   /\ parts[k + 1].body = [of |-> "section"]
              /\ parts[k].kind = "vendor" => parts[k].size > 0 /\ k = Len(parts)
         /\ parts[1].start = 0
<1>1. Len(parts) \in Nat \ {0} /\ Contiguous(parts) /\ parts[1].start = 0
  <2>1. Len(parts) \in Nat \ {0} /\ Contiguous(parts)
    BY DEF IsProcessorSection
  <2>2. 1 \in 1..Len(parts)
    BY <2>1
  <2> QED
    BY <2>1, <2>2 DEF Contiguous
<1>2. parts[1].kind = "header" /\ parts[1].size = headerSize
  BY DEF IsProcessorSection
<1>3. \A k \in 2..Len(parts) :
       \/ parts[k].kind = "info" /\ parts[k].size = infoSize
       \/ /\ parts[k].kind = "context" /\ parts[k].size = contextSize
          /\ k < Len(parts) /\ parts[k + 1].kind = "registers"
       \/ /\ parts[k].kind = "registers" /\ parts[k].body = [of |-> "section"]
          /\ parts[k - 1].kind = "context" /\ parts[k].size = parts[k - 1].body.size
       \/ parts[k].kind = "vendor" /\ k = Len(parts) /\ parts[k].size \in Nat \ {0}
  BY DEF IsProcessorSection
<1>4. ASSUME NEW k \in 2..Len(parts), parts[k].kind = "context"
      PROVE  /\ parts[k].size = contextSize /\ k + 1 \in 2..Len(parts)
             /\ parts[k + 1].kind = "registers"
             /\ parts[k + 1].size = parts[k].body.size
             /\ parts[k + 1].body = [of |-> "section"]
  <2>1. /\ parts[k].size = contextSize /\ k + 1 \in 2..Len(parts)
        /\ parts[k + 1].kind = "registers" /\ (k + 1) - 1 = k
    BY <1>3, <1>4, <1>1
  <2> QED
    BY <2>1, <1>3
<1>5. ASSUME NEW k \in 2..Len(parts), parts[k].kind = "registers"
      PROVE  parts[k].size \in Nat
  <2>1. parts[k - 1].kind = "context" /\ parts[k].size = parts[k - 1].body.size
    BY <1>3, <1>5
  <2>2. k - 1 \in 2..Len(parts)
    BY <2>1, <1>2
  <2> QED
    BY <2>1, <2>2
<1>6. \A k \in 1..Len(parts) : k = 1 \/ k \in 2..Len(parts)
  BY <1>1
<1>7. \A k \in 2..Len(parts) : parts[k].size \in Nat
  BY <1>3, <1>5
<1> QED
  BY <1>1, <1>2, <1>3, <1>4, <1>6, <1>7

(* A function on 1..m is a sequence.                                       *)
LEMMA FunctionIsSequence ==
  ASSUME NEW B, NEW m \in Nat, NEW f \in [1..m -> B]
  PROVE  f \in Seq(B) /\ Len(f) = m
OBVIOUS

(* What stands behind a header: i structures, c contexts with their        *)
(* registers, and v times the vendor specific bytes.                       *)
StandsBehind(b, infos, contexts, infoSize, contextSize, vendor, i, c, v) ==
  /\ Len(b) = i + 2 * c + v
  /\ \A k \in 1..i : b[k] = [kind |-> "info", size |-> infoSize, body |-> infos[k]]
  /\ \A k \in 1..c :
       /\ b[i + 2 * k - 1] = [kind |-> "context", size |-> contextSize, body |-> contexts[k]]
       /\ b[i + 2 * k] = [kind |-> "registers", size |-> contexts[k].size,
                          body |-> [of |-> "section"]]
  /\ v = 1 => b[i + 2 * c + 1] = [kind |-> "vendor", size |-> vendor,
                                  body |-> [of |-> "section"]]

(* The same structures, each with where it starts.                         *)
LaidFrom(parts, structures) ==
  /\ Len(parts) = Len(structures)
  /\ \A k \in 1..Len(structures) :
       /\ parts[k].kind = structures[k].kind
       /\ parts[k].size = structures[k].size
       /\ parts[k].body = structures[k].body
  /\ parts = [k \in 1..Len(parts) |->
               [kind |-> parts[k].kind, start |-> parts[k].start,
                size |-> parts[k].size, body |-> parts[k].body]]
  /\ Contiguous(parts)
  /\ parts # <<>> => End(parts) = Ends(structures)[Len(structures)]

(* What follows the header, structure by structure.                        *)
LEMMA BehindStands ==
  ASSUME NEW infos, NEW contexts, NEW infoSize \in Nat, NEW contextSize \in Nat,
         NEW vendor \in Nat, NEW I, NEW C, infos \in Seq(I), contexts \in Seq(C),
         NEW v, v = IF vendor = 0 THEN 0 ELSE 1
  PROVE  LET b == Behind(infos, contexts, infoSize, contextSize, vendor)
         IN  /\ \E B : b \in Seq(B)
             /\ StandsBehind(b, infos, contexts, infoSize, contextSize, vendor,
                             Len(infos), Len(contexts), v)
<1> DEFINE i == Len(infos)
           c == Len(contexts)
           front == [k \in 1..i |-> [kind |-> "info", size |-> infoSize, body |-> infos[k]]]
           part(k) == LET context == contexts[(k + 1) \div 2] IN
                        IF k % 2 = 1
                          THEN [kind |-> "context", size |-> contextSize, body |-> context]
                          ELSE [kind |-> "registers", size |-> context.size,
                                body |-> [of |-> "section"]]
           middle == [k \in 1..2 * c |-> part(k)]
           back == IF vendor = 0 THEN <<>>
                   ELSE <<[kind |-> "vendor", size |-> vendor, body |-> [of |-> "section"]]>>
           B == {front[k] : k \in 1..i} \union {middle[k] : k \in 1..2 * c}
                  \union {[kind |-> "vendor", size |-> vendor, body |-> [of |-> "section"]]}
<1>1. i \in Nat /\ c \in Nat
  OBVIOUS
<1>2. front \in Seq(B) /\ Len(front) = i
  <2>1. front \in [1..i -> B]
    OBVIOUS
  <2> HIDE DEF front, B
  <2> QED
    BY <1>1, <2>1, FunctionIsSequence
<1>3. middle \in Seq(B) /\ Len(middle) = 2 * c
  <2>1. middle \in [1..2 * c -> B]
    <3>1. \A k \in 1..2 * c : middle[k] \in B
      <4> HIDE DEF middle, front, B
      <4>1. \A k \in 1..2 * c : middle[k] \in {middle[j] : j \in 1..2 * c}
        OBVIOUS
      <4> QED
        BY <4>1, Zenon DEF B
    <3>2. middle = [k \in 1..2 * c |-> middle[k]]
      OBVIOUS
    <3> HIDE DEF middle, B
    <3> QED
      BY <3>1, <3>2
  <2>2. 2 * c \in Nat
    BY <1>1
  <2> HIDE DEF middle, B
  <2> QED
    BY <2>1, <2>2, FunctionIsSequence
<1>4. back \in Seq(B) /\ Len(back) = IF vendor = 0 THEN 0 ELSE 1
  <2> DEFINE last == [kind |-> "vendor", size |-> vendor, body |-> [of |-> "section"]]
  <2>1. last \in B
    OBVIOUS
  <2> HIDE DEF front, middle, B, last
  <2>2. <<last>> \in Seq(B) /\ Len(<<last>>) = 1 /\ <<>> \in Seq(B) /\ Len(<<>>) = 0
    BY <2>1
  <2> QED
    BY <2>2 DEF last
<1>5. Behind(infos, contexts, infoSize, contextSize, vendor) = front \o middle \o back
  BY DEF Behind
<1>6. \A k \in 1..i : front[k] = [kind |-> "info", size |-> infoSize, body |-> infos[k]]
  OBVIOUS
<1>7. ASSUME NEW k \in 1..c
      PROVE  /\ middle[2 * k - 1] = [kind |-> "context", size |-> contextSize,
                                     body |-> contexts[k]]
             /\ middle[2 * k] = [kind |-> "registers", size |-> contexts[k].size,
                                 body |-> [of |-> "section"]]
  <2>1. /\ 2 * k - 1 \in 1..2 * c /\ 2 * k \in 1..2 * c
        /\ (2 * k - 1) % 2 = 1 /\ (2 * k) % 2 = 0
        /\ ((2 * k - 1) + 1) \div 2 = k /\ (2 * k + 1) \div 2 = k
    BY <1>1
  <2> HIDE DEF part
  <2>2. middle[2 * k - 1] = part(2 * k - 1) /\ middle[2 * k] = part(2 * k)
    BY <2>1
  <2> HIDE DEF middle
  <2>3. ASSUME NEW x, x % 2 = 1, (x + 1) \div 2 = k
        PROVE  part(x) = [kind |-> "context", size |-> contextSize, body |-> contexts[k]]
    BY <2>3 DEF part
  <2>4. ASSUME NEW x, x % 2 = 0, (x + 1) \div 2 = k
        PROVE  part(x) = [kind |-> "registers", size |-> contexts[k].size,
                          body |-> [of |-> "section"]]
    BY <2>4 DEF part
  <2> QED
    BY <2>1, <2>2, <2>3, <2>4
<1>8. vendor # 0 => back[1] = [kind |-> "vendor", size |-> vendor, body |-> [of |-> "section"]]
  OBVIOUS
<1> HIDE DEF front, middle, back, B
<1>9. /\ front \o middle \in Seq(B) /\ Len(front \o middle) = i + 2 * c
      /\ \A k \in 1..i : (front \o middle)[k] = front[k]
      /\ \A k \in 1..2 * c : (front \o middle)[i + k] = middle[k]
  <2>1. /\ front \o middle \in Seq(B)
        /\ Len(front \o middle) = Len(front) + Len(middle)
        /\ \A k \in 1..Len(front) + Len(middle) :
             (front \o middle)[k] = IF k <= Len(front) THEN front[k] ELSE middle[k - Len(front)]
    BY <1>2, <1>3, ConcatProperties
  <2> DEFINE x == front \o middle
  <2> HIDE DEF x
  <2>2. /\ x \in Seq(B) /\ Len(x) = i + 2 * c
        /\ \A k \in 1..i + 2 * c : x[k] = IF k <= i THEN front[k] ELSE middle[k - i]
    BY <2>1, <1>2, <1>3 DEF x
  <2> DEFINE d == 2 * c
  <2>3. d \in Nat
    BY <1>1
  <2> HIDE DEF d
  <2>4. \A k \in 1..i : x[k] = front[k]
    BY <2>2, <2>3, <1>1 DEF d
  <2>5. ASSUME NEW k \in 1..d PROVE x[i + k] = middle[k]
    <3>1. i + k \in 1..i + d /\ ~(i + k <= i) /\ (i + k) - i = k
      BY <2>3, <1>1
    <3> QED
      BY <3>1, <2>2 DEF d
  <2> QED
    BY <2>2, <2>4, <2>5 DEF d, x
<1> DEFINE fm == front \o middle
           b == fm \o back
<1> HIDE DEF fm
<1>10. fm \in Seq(B) /\ Len(fm) = i + 2 * c
  BY <1>9 DEF fm
<1>11. /\ b \in Seq(B) /\ Len(b) = i + 2 * c + Len(back)
       /\ \A k \in 1..i + 2 * c : b[k] = fm[k]
       /\ \A k \in 1..Len(back) : b[i + 2 * c + k] = back[k]
  <2>1. /\ b \in Seq(B) /\ Len(b) = Len(fm) + Len(back)
        /\ \A k \in 1..Len(fm) + Len(back) :
             b[k] = IF k <= Len(fm) THEN fm[k] ELSE back[k - Len(fm)]
    BY <1>4, <1>10, ConcatProperties
  <2> HIDE DEF b
  <2> DEFINE d == i + 2 * c
  <2>2. d \in Nat /\ Len(back) \in Nat
    BY <1>1, <1>4
  <2>3. Len(fm) = d
    BY <1>10
  <2> HIDE DEF d
  <2>4. \A k \in 1..d : b[k] = fm[k]
    BY <2>1, <2>2, <2>3
  <2>5. \A k \in 1..Len(back) : b[d + k] = back[k]
    BY <2>1, <2>2, <2>3
  <2> QED
    BY <2>1, <2>3, <2>4, <2>5 DEF d
<1> HIDE DEF b
<1>12. \A k \in 1..i : b[k] = front[k]
  <2>1. \A k \in 1..i : k \in 1..i + 2 * c
    BY <1>1
  <2> QED
    BY <2>1, <1>9, <1>11 DEF fm
<1>13. \A k \in 1..2 * c : b[i + k] = middle[k]
  <2>1. \A k \in 1..2 * c : i + k \in 1..i + 2 * c
    BY <1>1
  <2> QED
    BY <2>1, <1>9, <1>11 DEF fm
<1>14. ASSUME NEW k \in 1..c
       PROVE  b[i + 2 * k - 1] = middle[2 * k - 1] /\ b[i + 2 * k] = middle[2 * k]
  <2>1. 2 * k - 1 \in 1..2 * c /\ 2 * k \in 1..2 * c /\ i + (2 * k - 1) = i + 2 * k - 1
    BY <1>1
  <2> QED
    BY <2>1, <1>13
<1>15. v = 1 => b[i + 2 * c + 1] = [kind |-> "vendor", size |-> vendor,
                                    body |-> [of |-> "section"]]
  BY <1>4, <1>8, <1>11
<1>16. Len(b) = i + 2 * c + v /\ b \in Seq(B)
  BY <1>4, <1>11
<1>17. \A k \in 1..i : b[k] = [kind |-> "info", size |-> infoSize, body |-> infos[k]]
  BY <1>6, <1>12
<1>18. \A k \in 1..c :
         /\ b[i + 2 * k - 1] = [kind |-> "context", size |-> contextSize,
                                body |-> contexts[k]]
         /\ b[i + 2 * k] = [kind |-> "registers", size |-> contexts[k].size,
                            body |-> [of |-> "section"]]
  BY <1>7, <1>14
<1>19. b = Behind(infos, contexts, infoSize, contextSize, vendor)
  BY <1>5 DEF b, fm
<1>20. StandsBehind(b, infos, contexts, infoSize, contextSize, vendor, i, c, v)
  BY <1>15, <1>16, <1>17, <1>18 DEF StandsBehind
<1> QED
  BY <1>16, <1>19, <1>20

(* Structures laid one after another.                                      *)
LEMMA LaidShape ==
  ASSUME NEW structures, NEW S, structures \in Seq(S),
         \A k \in 1..Len(structures) : structures[k].size \in Nat
  PROVE  LaidFrom(Laid(structures), structures)
<1> DEFINE N == Len(structures)
           end == Ends(structures)
           parts == Laid(structures)
           part(k) == [kind |-> structures[k].kind, start |-> end[k - 1],
                       size |-> structures[k].size, body |-> structures[k].body]
<1>1. N \in Nat
  OBVIOUS
<1>2. /\ end \in [0..N -> Nat] /\ end[0] = 0
      /\ \A k \in 1..N : end[k] = end[k - 1] + structures[k].size
  BY <1>1, EndsDef
<1>3. parts = [k \in 1..N |-> part(k)]
  BY DEF Laid
<1> HIDE DEF end, parts
<1>4. Len(parts) = N /\ \A k \in 1..N : parts[k] = part(k)
  BY <1>1, <1>3
<1>5. parts = [k \in 1..Len(parts) |->
                [kind |-> parts[k].kind, start |-> parts[k].start,
                 size |-> parts[k].size, body |-> parts[k].body]]
  <2>1. \A k \in 1..N : part(k) = [kind |-> parts[k].kind, start |-> parts[k].start,
                                   size |-> parts[k].size, body |-> parts[k].body]
    BY <1>4
  <2> HIDE DEF part
  <2> QED
    BY <1>3, <1>4, <2>1
<1>6. ASSUME NEW k \in 1..N
      PROVE  parts[k].start = IF k = 1 THEN 0 ELSE parts[k - 1].start + parts[k - 1].size
  <2>1. CASE k = 1
    <3>1. 1 \in 1..N /\ parts[1] = part(1) /\ 1 - 1 = 0
      BY <2>1, <1>4
    <3>2. parts[1].start = end[1 - 1]
      BY <3>1
    <3> QED
      BY <2>1, <3>1, <3>2, <1>2
  <2>2. CASE k # 1
    <3>1. k - 1 \in 1..N /\ (k - 1) - 1 = k - 2
      BY <2>2, <1>1
    <3>2. parts[k].start = end[k - 1] /\ parts[k - 1].start = end[(k - 1) - 1]
          /\ parts[k - 1].size = structures[k - 1].size
      <4>1. parts[k] = part(k) /\ parts[k - 1] = part(k - 1)
        BY <3>1, <1>4
      <4> QED
        BY <4>1
    <3>3. end[k - 1] = end[(k - 1) - 1] + structures[k - 1].size
      BY <3>1, <1>2
    <3> QED
      BY <2>2, <3>2, <3>3
  <2> QED
    BY <2>1, <2>2
<1>7. Contiguous(parts)
  BY <1>4, <1>6 DEF Contiguous
<1>8. ASSUME parts # <<>> PROVE End(parts) = end[N]
  <2>1. N \in 1..N
    <3>1. N # 0
      BY <1>3, <1>8
    <3> QED
      BY <3>1, <1>1
  <2>2. parts[N] = part(N) /\ end[N] = end[N - 1] + structures[N].size
    BY <2>1, <1>2, <1>4
  <2>3. parts[N].start + parts[N].size = end[N]
    BY <2>2
  <2> QED
    BY <2>3, <1>4, <1>8 DEF End
<1>9. ASSUME NEW k \in 1..N
      PROVE  /\ parts[k].kind = structures[k].kind
             /\ parts[k].size = structures[k].size
             /\ parts[k].body = structures[k].body
  <2>1. parts[k] = part(k)
    BY <1>4
  <2> QED
    BY <2>1
<1>10. LaidFrom(parts, structures)
  <2> HIDE DEF part
  <2> QED
    BY <1>4, <1>5, <1>7, <1>8, <1>9 DEF LaidFrom, end
<1> QED
  BY <1>10 DEF parts

(* A structure in front moves the others.                                  *)
LEMMA EndsBehind ==
  ASSUME NEW S, NEW structures \in Seq(S), NEW first \in S, first.size \in Nat,
         \A k \in 1..Len(structures) : structures[k].size \in Nat
  PROVE  LET all == <<first>> \o structures
         IN  Ends(all)[Len(all)] = first.size + Ends(structures)[Len(structures)]
<1> DEFINE N == Len(structures)
           all == <<first>> \o structures
           e == Ends(structures)
           f == Ends(all)
<1>1. /\ N \in Nat /\ all \in Seq(S) /\ Len(all) = N + 1
      /\ all[1] = first /\ \A k \in 1..N : all[k + 1] = structures[k]
  <2>1. <<first>> \in Seq(S) /\ Len(<<first>>) = 1 /\ <<first>>[1] = first
    OBVIOUS
  <2>2. /\ all \in Seq(S) /\ Len(all) = 1 + N
        /\ \A k \in 1..1 + N : all[k] = IF k <= 1 THEN <<first>>[k] ELSE structures[k - 1]
    BY <2>1, ConcatProperties
  <2> HIDE DEF all
  <2>3. N \in Nat
    OBVIOUS
  <2> QED
    BY <2>1, <2>2, <2>3
<1> HIDE DEF all
<1>2. ASSUME NEW k \in 1..N + 1 PROVE all[k].size \in Nat
  <2>1. CASE k = 1
    BY <2>1, <1>1
  <2>2. CASE k # 1
    <3>1. k - 1 \in 1..N /\ all[(k - 1) + 1] = structures[k - 1]
      BY <2>2, <1>1
    <3> QED
      BY <3>1
  <2> QED
    BY <2>1, <2>2
<1>3. /\ e \in [0..N -> Nat] /\ e[0] = 0
      /\ \A k \in 1..N : e[k] = e[k - 1] + structures[k].size
  BY <1>1, EndsDef
<1>4. /\ f \in [0..N + 1 -> Nat] /\ f[0] = 0
      /\ \A k \in 1..N + 1 : f[k] = f[k - 1] + all[k].size
  BY <1>1, <1>2, EndsDef
<1> HIDE DEF e, f
<1> DEFINE T == {m \in Nat : m <= N => f[m + 1] = first.size + e[m]}
<1>5. 0 \in T
  BY <1>1, <1>3, <1>4
<1>6. ASSUME NEW m \in Nat, m \in T PROVE m + 1 \in T
  <2> SUFFICES ASSUME m + 1 <= N PROVE f[m + 2] = first.size + e[m + 1]
    OBVIOUS
  <2>1. f[m + 1] = first.size + e[m] /\ e[m] \in Nat
    <3>1. m \in 0..N
      BY <1>1
    <3> QED
      BY <3>1, <1>6, <1>3
  <2>2. m + 1 \in 1..N /\ m + 2 \in 1..N + 1
    BY <1>1
  <2>3. f[m + 2] = f[m + 1] + all[m + 2].size
    BY <2>2, <1>4
  <2>4. all[m + 2] = structures[m + 1]
    BY <2>2, <1>1
  <2>5. e[m + 1] = e[m] + structures[m + 1].size
    BY <2>2, <1>3
  <2> QED
    BY <2>1, <2>2, <2>3, <2>4, <2>5
<1>7. N \in T
  <2> HIDE DEF T
  <2> QED
    BY <1>1, <1>5, <1>6, NumbersInduction
<1> QED
  BY <1>1, <1>7 DEF all, e, f

(* A section drawn at random: its structures are those that were drawn.    *)
DrawnSection(parts, infos, contexts, headerSize, infoSize, contextSize, vendor,
             header, rest, i, c, v) ==
  /\ IsProcessorSection(parts, headerSize, infoSize, contextSize)
  /\ parts[1].body = header
  /\ End(parts) = headerSize + rest /\ rest \in Nat
  /\ Len(parts) = 1 + i + 2 * c + v
  /\ \A k \in 1..i : parts[1 + k].kind = "info" /\ parts[1 + k].body = infos[k]
  /\ \A k \in 1..c : parts[i + 2 * k].kind = "context" /\ parts[i + 2 * k].body = contexts[k]
  /\ \A k \in 1..c : parts[i + 2 * k + 1].kind = "registers"
  /\ v = 1 => parts[Len(parts)].kind = "vendor"
  /\ \A k \in 2..Len(parts) :
       /\ parts[k].kind = "info" => \E j \in 1..i : parts[k].body = infos[j]
       /\ parts[k].kind = "context" => \E j \in 1..c : parts[k].body = contexts[j]
       /\ parts[k].kind = "vendor" => vendor # 0

(* The fields of a structure.                                              *)
LEMMA StructureFields ==
  ASSUME NEW kind, NEW size, NEW body,
         NEW x, x = [kind |-> kind, size |-> size, body |-> body]
  PROVE  x.kind = kind /\ x.size = size /\ x.body = body
OBVIOUS

(* A header and such structures, laid one after another, are a section.    *)
LEMMA LaidBehindHeader ==
  ASSUME NEW infos, NEW contexts, NEW headerSize \in Nat \ {0}, NEW infoSize \in Nat \ {0},
         NEW contextSize \in Nat \ {0}, NEW vendor \in Nat,
         NEW i \in Nat, NEW c \in Nat, NEW v \in 0..1, NEW N \in Nat, N = i + 2 * c + v,
         v = 1 <=> vendor # 0, \A k \in 1..c : contexts[k].size \in Nat,
         NEW first, first.kind = "header", first.size = headerSize,
         NEW b, NEW B, b \in Seq(B),
         StandsBehind(b, infos, contexts, infoSize, contextSize, vendor, i, c, v),
         NEW all, all = <<first>> \o b, NEW parts, parts = Laid(all)
  PROVE  DrawnSection(parts, infos, contexts, headerSize, infoSize, contextSize, vendor,
                      first.body, Ends(b)[N], i, c, v)
<1> DEFINE Is(x, kind, size, body) == x.kind = kind /\ x.size = size /\ x.body = body
<1>0. /\ Len(b) = N
      /\ \A k \in 1..i : Is(b[k], "info", infoSize, infos[k])
      /\ \A k \in 1..c : /\ Is(b[i + 2 * k - 1], "context", contextSize, contexts[k])
                         /\ Is(b[i + 2 * k], "registers", contexts[k].size, [of |-> "section"])
      /\ v = 1 => Is(b[i + 2 * c + 1], "vendor", vendor, [of |-> "section"])
  <2>1. ASSUME NEW x, NEW kind, NEW size, NEW body,
               x = [kind |-> kind, size |-> size, body |-> body]
        PROVE  Is(x, kind, size, body)
    BY <2>1, StructureFields
  <2> HIDE DEF Is
  <2>2. Len(b) = N
    BY DEF StandsBehind
  <2>3. \A k \in 1..i : Is(b[k], "info", infoSize, infos[k])
    BY <2>1, Zenon DEF StandsBehind
  <2>4. \A k \in 1..c : /\ Is(b[i + 2 * k - 1], "context", contextSize, contexts[k])
                        /\ Is(b[i + 2 * k], "registers", contexts[k].size, [of |-> "section"])
    BY <2>1, Zenon DEF StandsBehind
  <2>5. v = 1 => Is(b[i + 2 * c + 1], "vendor", vendor, [of |-> "section"])
    BY <2>1, Zenon DEF StandsBehind
  <2> QED
    BY <2>2, <2>3, <2>4, <2>5
<1> HIDE DEF Is
<1>1. b \in Seq(B \union {first}) /\ first \in B \union {first}
  OBVIOUS
<1>2. /\ all \in Seq(B \union {first}) /\ Len(all) = N + 1
      /\ all[1] = first /\ \A k \in 1..N : all[k + 1] = b[k]
  <2>1. <<first>> \in Seq(B \union {first}) /\ Len(<<first>>) = 1 /\ <<first>>[1] = first
    OBVIOUS
  <2>2. /\ <<first>> \o b \in Seq(B \union {first})
        /\ Len(<<first>> \o b) = Len(<<first>>) + Len(b)
        /\ \A k \in 1..Len(<<first>>) + Len(b) :
             (<<first>> \o b)[k] = IF k <= Len(<<first>>) THEN <<first>>[k]
                                   ELSE b[k - Len(<<first>>)]
    BY <1>1, <2>1, ConcatProperties
  <2>3. Len(all) = 1 + N /\ \A k \in 1..1 + N : all[k] = IF k <= 1 THEN first ELSE b[k - 1]
    BY <1>0, <2>1, <2>2
  <2>4. ASSUME NEW k \in 1..N PROVE all[k + 1] = b[k]
    <3>1. k + 1 \in 1..1 + N /\ ~(k + 1 <= 1) /\ (k + 1) - 1 = k
      OBVIOUS
    <3> QED
      BY <3>1, <2>3
  <2>5. 1 \in 1..1 + N /\ 1 <= 1
    OBVIOUS
  <2>6. all[1] = first
    BY <2>3, <2>5
  <2>7. all \in Seq(B \union {first}) /\ Len(all) = N + 1
    BY <2>2, <2>3
  <2> QED
    BY <2>4, <2>6, <2>7
<1>3. ASSUME NEW k \in 1..N
      PROVE  \/ k \in 1..i
             \/ \E j \in 1..c : k = i + 2 * j - 1 \/ k = i + 2 * j
             \/ v = 1 /\ k = i + 2 * c + 1
  <2>1. CASE k > i /\ k <= i + 2 * c
    <3> DEFINE j == (k - i + 1) \div 2
    <3>1. j \in 1..c /\ (k = i + 2 * j - 1 \/ k = i + 2 * j)
      BY <2>1
    <3> HIDE DEF j
    <3> QED
      BY <3>1
  <2>2. CASE ~(k > i /\ k <= i + 2 * c)
    BY <2>2
  <2> QED
    BY <2>1, <2>2
<1>4. \A k \in 1..N : b[k].size \in Nat
  <2> TAKE k \in 1..N
  <2>1. CASE k \in 1..i
    BY <1>0, <2>1 DEF Is
  <2>2. ASSUME NEW j \in 1..c, k = i + 2 * j - 1 PROVE b[k].size \in Nat
    BY <1>0, <2>2 DEF Is
  <2>3. ASSUME NEW j \in 1..c, k = i + 2 * j PROVE b[k].size \in Nat
    BY <1>0, <2>3 DEF Is
  <2>4. CASE v = 1 /\ k = i + 2 * c + 1
    BY <1>0, <2>4 DEF Is
  <2> QED
    BY <1>3, <2>1, <2>2, <2>3, <2>4
<1>5. ASSUME NEW k \in 1..Len(all) PROVE all[k].size \in Nat
  <2>1. CASE k = 1
    BY <2>1, <1>2
  <2>2. CASE k # 1
    <3>1. k - 1 \in 1..N /\ (k - 1) + 1 = k
      BY <2>2, <1>2
    <3>2. all[k] = b[k - 1]
      BY <3>1, <1>2
    <3> QED
      BY <3>1, <3>2, <1>4
  <2> QED
    BY <2>1, <2>2
<1>6. LaidFrom(parts, all)
  BY <1>2, <1>5, LaidShape
<1>7. ASSUME NEW k \in 1..N + 1, NEW kind, NEW size, NEW body, Is(all[k], kind, size, body)
      PROVE  Is(parts[k], kind, size, body)
  BY <1>2, <1>6, <1>7 DEF Is, LaidFrom
<1>8. Len(parts) = N + 1 /\ 1 \in 1..N + 1 /\ parts # <<>> /\ Len(parts) \in Nat \ {0}
  <2>1. Len(parts) = Len(all)
    BY <1>6 DEF LaidFrom
  <2> QED
    BY <1>2, <2>1
<1>9. End(parts) = headerSize + Ends(b)[N]
  <2>1. \A k \in 1..Len(b) : b[k].size \in Nat
    BY <1>0, <1>4
  <2>2. Ends(<<first>> \o b)[Len(<<first>> \o b)] = first.size + Ends(b)[Len(b)]
    BY <1>1, <2>1, EndsBehind
  <2> QED
    BY <1>0, <2>2, <1>6, <1>8 DEF LaidFrom
<1>19. Ends(b)[N] \in Nat
  <2>1. Len(b) \in Nat /\ \A k \in 1..Len(b) : b[k].size \in Nat
    BY <1>0, <1>4
  <2>2. Ends(b) \in [0..Len(b) -> Nat]
    BY <2>1, EndsDef
  <2> QED
    BY <2>2, <1>0
<1>10. Is(parts[1], "header", headerSize, first.body)
  <2>1. Is(all[1], "header", headerSize, first.body)
    BY <1>2 DEF Is
  <2> QED
    BY <2>1, <1>7, <1>8
<1>11. ASSUME NEW k \in 1..N, NEW kind, NEW size, NEW body, Is(b[k], kind, size, body)
       PROVE  Is(parts[k + 1], kind, size, body)
  <2>1. k + 1 \in 1..N + 1 /\ all[k + 1] = b[k]
    BY <1>2
  <2> QED
    BY <2>1, <1>7, <1>11
<1>12. ASSUME NEW k \in 1..i PROVE Is(parts[1 + k], "info", infoSize, infos[k])
  <2>1. k \in 1..N /\ 1 + k = k + 1
    OBVIOUS
  <2> QED
    BY <2>1, <1>0, <1>11
<1>13. ASSUME NEW k \in 1..c PROVE Is(parts[i + 2 * k], "context", contextSize, contexts[k])
  <2>1. i + 2 * k - 1 \in 1..N /\ (i + 2 * k - 1) + 1 = i + 2 * k
    OBVIOUS
  <2> QED
    BY <2>1, <1>0, <1>11
<1>14. ASSUME NEW k \in 1..c
       PROVE  Is(parts[i + 2 * k + 1], "registers", contexts[k].size, [of |-> "section"])
  <2>1. i + 2 * k \in 1..N
    OBVIOUS
  <2> QED
    BY <2>1, <1>0, <1>11
<1>15. v = 1 => Is(parts[N + 1], "vendor", vendor, [of |-> "section"])
  <2>1. v = 1 => N \in 1..N /\ N = i + 2 * c + 1
    OBVIOUS
  <2> QED
    BY <2>1, <1>0, <1>11
<1>16. ASSUME NEW k \in 2..N + 1
       PROVE  \/ \E j \in 1..i : k = 1 + j
              \/ \E j \in 1..c : k = i + 2 * j
              \/ \E j \in 1..c : k = i + 2 * j + 1
              \/ v = 1 /\ k = N + 1
  <2>1. k - 1 \in 1..N
    OBVIOUS
  <2>2. CASE k - 1 \in 1..i
    <3>1. k = 1 + (k - 1)
      OBVIOUS
    <3> QED
      BY <2>2, <3>1
  <2>3. ASSUME NEW j \in 1..c, k - 1 = i + 2 * j - 1 \/ k - 1 = i + 2 * j
        PROVE  k = i + 2 * j \/ k = i + 2 * j + 1
    BY <2>3
  <2>4. v = 1 /\ k - 1 = i + 2 * c + 1 => k = N + 1
    OBVIOUS
  <2> QED
    BY <1>3, <2>1, <2>2, <2>3, <2>4
<1>17. ASSUME NEW k \in 2..N + 1
       PROVE  /\ \/ parts[k].kind = "info" /\ parts[k].size = infoSize
                 \/ /\ parts[k].kind = "context" /\ parts[k].size = contextSize
                    /\ k < Len(parts) /\ parts[k + 1].kind = "registers"
                 \/ /\ parts[k].kind = "registers" /\ parts[k].body = [of |-> "section"]
                    /\ parts[k - 1].kind = "context" /\ parts[k].size = parts[k - 1].body.size
                 \/ parts[k].kind = "vendor" /\ k = Len(parts) /\ parts[k].size \in Nat \ {0}
              /\ parts[k].kind = "info" => \E j \in 1..i : parts[k].body = infos[j]
              /\ parts[k].kind = "context" => \E j \in 1..c : parts[k].body = contexts[j]
              /\ parts[k].kind = "vendor" => vendor # 0
  <2>1. CASE \E j \in 1..i : k = 1 + j
    BY <2>1, <1>12, ZenonT(60) DEF Is
  <2>2. CASE \E j \in 1..c : k = i + 2 * j
    <3>1. PICK j \in 1..c : k = i + 2 * j
      BY <2>2
    <3>2. k < Len(parts)
      BY <3>1, <1>8
    <3> QED
      BY <3>1, <3>2, <1>13, <1>14 DEF Is
  <2>3. CASE \E j \in 1..c : k = i + 2 * j + 1
    <3>1. PICK j \in 1..c : k = i + 2 * j + 1
      BY <2>3
    <3>2. k - 1 = i + 2 * j
      BY <3>1
    <3>3. Is(parts[k], "registers", contexts[j].size, [of |-> "section"])
      BY <3>1, <1>14
    <3>4. Is(parts[k - 1], "context", contextSize, contexts[j])
      BY <3>2, <1>13
    <3> QED
      BY <3>3, <3>4 DEF Is
  <2>4. CASE v = 1 /\ k = N + 1
    BY <2>4, <1>8, <1>15 DEF Is
  <2> QED
    BY <1>16, <2>1, <2>2, <2>3, <2>4
<1>18. IsProcessorSection(parts, headerSize, infoSize, contextSize)
  <2>1. /\ parts[1].kind = "header" /\ parts[1].size = headerSize
        /\ 2..Len(parts) = 2..N + 1
    BY <1>8, <1>10 DEF Is
  <2> QED
    BY <2>1, <1>6, <1>8, <1>17 DEF IsProcessorSection, LaidFrom
<1> QED
  <2>1. parts[1].body = first.body
    BY <1>10 DEF Is
  <2>2. \A k \in 1..i : parts[1 + k].kind = "info" /\ parts[1 + k].body = infos[k]
    BY <1>12 DEF Is
  <2>3. \A k \in 1..c : parts[i + 2 * k].kind = "context" /\ parts[i + 2 * k].body = contexts[k]
    BY <1>13 DEF Is
  <2>4. \A k \in 1..c : parts[i + 2 * k + 1].kind = "registers"
    BY <1>14 DEF Is
  <2>5. v = 1 => parts[N + 1].kind = "vendor"
    BY <1>15 DEF Is
  <2>6. \A k \in 2..Len(parts) :
          /\ parts[k].kind = "info" => \E j \in 1..i : parts[k].body = infos[j]
          /\ parts[k].kind = "context" => \E j \in 1..c : parts[k].body = contexts[j]
          /\ parts[k].kind = "vendor" => vendor # 0
    <3>1. 2..Len(parts) = 2..N + 1
      BY <1>8
    <3> QED
      BY <3>1, <1>17
  <2>7. Len(parts) = 1 + i + 2 * c + v
    BY <1>8
  <2> QED
    BY <1>8, <1>9, <1>18, <1>19, <2>1, <2>2, <2>3, <2>4, <2>5, <2>6, <2>7 DEF DrawnSection

(* A header and what is drawn, laid one after another, are a section.      *)
LEMMA DrawnSectionShape ==
  ASSUME NEW infos, NEW contexts, NEW headerSize \in Nat \ {0}, NEW infoSize \in Nat \ {0},
         NEW contextSize \in Nat \ {0}, NEW vendor \in Nat, NEW I, NEW C,
         infos \in Seq(I), contexts \in Seq(C), \A x \in C : x.size \in Nat,
         NEW first, first.kind = "header", first.size = headerSize,
         NEW b, b = Behind(infos, contexts, infoSize, contextSize, vendor),
         NEW v, v = IF vendor = 0 THEN 0 ELSE 1
  PROVE  DrawnSection(Laid(<<first>> \o b), infos, contexts, headerSize, infoSize, contextSize,
                      vendor, first.body, Ends(b)[Len(b)], Len(infos), Len(contexts), v)
<1>1. PICK i \in Nat, c \in Nat : i = Len(infos) /\ c = Len(contexts)
  OBVIOUS
<1>2. (v = 1 <=> vendor # 0) /\ v \in 0..1 /\ \A k \in 1..c : contexts[k].size \in Nat
  BY <1>1
<1>3. PICK N \in Nat : N = i + 2 * c + v
  BY <1>2
<1>4. /\ \E B : b \in Seq(B)
      /\ StandsBehind(b, infos, contexts, infoSize, contextSize, vendor, i, c, v)
  BY <1>1, BehindStands
<1>5. PICK B : b \in Seq(B)
  BY <1>4
<1>6. PICK all, parts : all = <<first>> \o b /\ parts = Laid(all)
  OBVIOUS
<1>7. DrawnSection(parts, infos, contexts, headerSize, infoSize, contextSize, vendor,
                   first.body, Ends(b)[N], i, c, v)
  BY <1>2, <1>3, <1>4, <1>5, <1>6, LaidBehindHeader
<1>8. Len(b) = N
  BY <1>3, <1>4 DEF StandsBehind
<1> QED
  BY <1>1, <1>6, <1>7, <1>8
----------------------------------------------------------------------------
(* A processor's section whose header counts what follows it.              *)
SectionCounts(parts, headerSize, infoSize, contextSize, i, c) ==
  /\ headerSize \in Nat \ {0} /\ infoSize \in Nat \ {0} /\ contextSize \in Nat \ {0}
  /\ IsProcessorSection(parts, headerSize, infoSize, contextSize)
  /\ \A k \in 2..Len(parts) : parts[k].kind = "context" => parts[k].body.size \in Nat
  /\ Counted(parts)
  /\ i \in Nat /\ c \in Nat
  /\ i = parts[1].body.infoNum /\ c = parts[1].body.contextNum

(* The structures of such a section.                                       *)
StandAt(parts, headerSize, infoSize, contextSize, i, c) ==
  /\ 1 + i + 2 * c <= Len(parts) /\ Len(parts) \in Nat \ {0}
  /\ parts[1].kind = "header" /\ parts[1].size = headerSize /\ parts[1].start = 0
  /\ \A k \in 1..i : parts[1 + k].kind = "info" /\ parts[1 + k].size = infoSize
  /\ \A k \in 1..c :
       /\ parts[i + 2 * k].kind = "context" /\ parts[i + 2 * k].size = contextSize
       /\ parts[i + 2 * k].body.size \in Nat
       /\ parts[i + 2 * k + 1].kind = "registers"
       /\ parts[i + 2 * k + 1].size = parts[i + 2 * k].body.size
       /\ parts[i + 2 * k + 1].body = [of |-> "section"]

(* The structures of a section with these counts stand where they say.     *)
LEMMA CountsShape ==
  ASSUME NEW parts, NEW headerSize, NEW infoSize, NEW contextSize,
         NEW i \in Nat, NEW c \in Nat,
         SectionCounts(parts, headerSize, infoSize, contextSize, i, c)
  PROVE  StandAt(parts, headerSize, infoSize, contextSize, i, c)
<1>1. /\ headerSize \in Nat \ {0} /\ infoSize \in Nat \ {0} /\ contextSize \in Nat \ {0}
      /\ IsProcessorSection(parts, headerSize, infoSize, contextSize)
      /\ \A k \in 2..Len(parts) : parts[k].kind = "context" => parts[k].body.size \in Nat
      /\ i \in Nat /\ c \in Nat
  BY DEF SectionCounts
<1>2. /\ 1 + i + 2 * c <= Len(parts)
      /\ \A k \in 1..i : parts[1 + k].kind = "info"
      /\ \A k \in 1..c : /\ parts[i + 2 * k].kind = "context"
                         /\ parts[i + 2 * k + 1].kind = "registers"
  BY DEF SectionCounts, Counted
<1>3. /\ Len(parts) \in Nat \ {0} /\ parts[1].start = 0
      /\ \A k \in 1..Len(parts) :
           /\ parts[k].kind = "info" => parts[k].size = infoSize
           /\ parts[k].kind = "context" =>
                /\ parts[k].size = contextSize
                /\ parts[k + 1].size = parts[k].body.size
                /\ parts[k + 1].body = [of |-> "section"]
  <2>1. /\ Len(parts) \in Nat \ {0} /\ Contiguous(parts)
        /\ \A k \in 1..Len(parts) :
             /\ parts[k].size \in Nat
             /\ parts[k].kind = "info" => parts[k].size = infoSize /\ k > 1
             /\ parts[k].kind = "context" =>
                  /\ parts[k].size = contextSize /\ k > 1
                  /\ k + 1 \in 1..Len(parts) /\ parts[k + 1].kind = "registers"
                  /\ parts[k + 1].size = parts[k].body.size
                  /\ parts[k + 1].body = [of |-> "section"]
             /\ parts[k].kind = "vendor" => parts[k].size > 0 /\ k = Len(parts)
        /\ parts[1].start = 0
    BY <1>1, ProcessorSectionShape
  <2> QED
    BY <2>1
<1>4. parts[1].kind = "header" /\ parts[1].size = headerSize
  BY <1>1 DEF IsProcessorSection
<1>5. ASSUME NEW k \in 1..i PROVE parts[1 + k].size = infoSize
  <2>1. 1 + k \in 1..Len(parts)
    BY <1>1, <1>2, <1>3
  <2> QED
    BY <2>1, <1>2, <1>3
<1>6. ASSUME NEW k \in 1..c
      PROVE  /\ parts[i + 2 * k].size = contextSize
             /\ parts[i + 2 * k].body.size \in Nat
             /\ parts[i + 2 * k + 1].size = parts[i + 2 * k].body.size
             /\ parts[i + 2 * k + 1].body = [of |-> "section"]
  <2>1. i + 2 * k \in 1..Len(parts) /\ i + 2 * k \in 2..Len(parts)
    BY <1>1, <1>2, <1>3
  <2> QED
    BY <2>1, <1>1, <1>2, <1>3
<1> QED
  BY <1>2, <1>3, <1>4, <1>5, <1>6 DEF StandAt

(* What a converter that knows only its position meets there.              *)
LEMMA Placed ==
  ASSUME NEW parts, NEW headerSize, NEW infoSize, NEW contextSize,
         NEW i \in Nat, NEW c \in Nat,
         SectionCounts(parts, headerSize, infoSize, contextSize, i, c),
         NEW k \in 1..Len(parts)
  PROVE  /\ parts[k].start \in Nat /\ parts[k].size \in Nat
         /\ StartAt(parts, k) = parts[k].start
         /\ StartAt(parts, k + 1) = parts[k].start + parts[k].size
         /\ parts[k].kind \in {"info", "context"} =>
              \A residues :
                ReadAt(parts, parts[k].kind, StartAt(parts, k), residues) = {parts[k].body}
<1>1. /\ headerSize \in Nat \ {0} /\ infoSize \in Nat \ {0} /\ contextSize \in Nat \ {0}
      /\ IsProcessorSection(parts, headerSize, infoSize, contextSize)
      /\ \A j \in 2..Len(parts) : parts[j].kind = "context" => parts[j].body.size \in Nat
  BY DEF SectionCounts
<1>2. /\ Len(parts) \in Nat \ {0} /\ Contiguous(parts)
      /\ \A j \in 1..Len(parts) :
           /\ parts[j].size \in Nat
           /\ parts[j].kind = "info" => parts[j].size = infoSize
           /\ parts[j].kind = "context" => parts[j].size = contextSize
  BY <1>1, ProcessorSectionShape
<1>3. /\ parts[k].start \in Nat
      /\ StartAt(parts, k + 1) = parts[k].start + parts[k].size
  BY <1>2, StartsOrdered
<1>4. StartAt(parts, k) = parts[k].start
  BY DEF StartAt
<1>5. parts[k].kind \in {"info", "context"} =>
        \A residues : ReadAt(parts, parts[k].kind, parts[k].start, residues) = {parts[k].body}
  <2>1. \A j \in 1..Len(parts) : parts[j].kind \in {"info", "context"} => parts[j].size > 0
    BY <1>1, <1>2
  <2>2. Readable(parts)
    BY <1>2, <2>1 DEF Readable
  <2> QED
    BY <2>2, ReadWhereItStarts
<1> QED
  BY <1>2, <1>3, <1>4, <1>5

InfoMet(parts, infoSize, i, m) ==
  /\ \A residues :
       ReadAt(parts, "info", StartAt(parts, 2 + m), residues) = {InfoAt(parts, m + 1).body}
  /\ StartAt(parts, 2 + m) + infoSize = StartAt(parts, 2 + (m + 1))
  /\ m + 1 \in 1..i /\ 2 + m \in 2..Len(parts)
  /\ InfoAt(parts, m + 1) = parts[2 + m]
  /\ parts[2 + m].kind = "info" /\ parts[2 + m].size = infoSize

(* Behind m error information structures stands the next, and the position *)
(* is at it.                                                               *)
LEMMA InfoWalk ==
  ASSUME NEW parts, NEW headerSize, NEW infoSize, NEW contextSize,
         NEW i \in Nat, NEW c \in Nat,
         SectionCounts(parts, headerSize, infoSize, contextSize, i, c),
         NEW m \in Nat, m < i
  PROVE  InfoMet(parts, infoSize, i, m)
<1>1. i \in Nat /\ c \in Nat
  BY DEF SectionCounts
<1>2. /\ 1 + i + 2 * c <= Len(parts) /\ Len(parts) \in Nat \ {0}
      /\ \A k \in 1..i : parts[1 + k].kind = "info" /\ parts[1 + k].size = infoSize
  <2>1. StandAt(parts, headerSize, infoSize, contextSize, i, c)
    BY CountsShape
  <2> QED
    BY <2>1 DEF StandAt
<1>3. /\ m + 1 \in 1..i /\ 1 + (m + 1) = 2 + m /\ 2 + m \in 2..Len(parts)
      /\ 2 + m \in 1..Len(parts) /\ (2 + m) + 1 = 2 + (m + 1)
  BY <1>1, <1>2
<1>4. parts[2 + m].kind = "info" /\ parts[2 + m].size = infoSize
  BY <1>2, <1>3
<1>5. /\ StartAt(parts, 2 + m) = parts[2 + m].start
      /\ StartAt(parts, (2 + m) + 1) = parts[2 + m].start + parts[2 + m].size
      /\ parts[2 + m].kind \in {"info", "context"} =>
           \A residues : ReadAt(parts, parts[2 + m].kind, StartAt(parts, 2 + m), residues)
                           = {parts[2 + m].body}
  BY <1>3, Placed
<1> QED
  BY <1>3, <1>4, <1>5 DEF InfoAt, InfoMet

ContextMet(parts, contextSize, i, c, m) ==
  LET context == ContextAt(parts, m + 1) IN
    /\ \A residues :
         ReadAt(parts, "context", StartAt(parts, 2 + i + 2 * m), residues) = {context.body}
    /\ StartAt(parts, 2 + i + 2 * m) + contextSize + context.body.size
         = StartAt(parts, 2 + i + 2 * (m + 1))
    /\ m + 1 \in 1..c /\ 2 + i + 2 * m \in 2..Len(parts) /\ 3 + i + 2 * m \in 2..Len(parts)
    /\ context = parts[2 + i + 2 * m]
    /\ context.kind = "context" /\ context.size = contextSize
    /\ context.body.size \in Nat
    /\ parts[3 + i + 2 * m].kind = "registers"
    /\ parts[3 + i + 2 * m].size = context.body.size
    /\ parts[3 + i + 2 * m].body = [of |-> "section"]

(* The indices of the next context and its registers.                      *)
LEMMA ContextIndex ==
  ASSUME NEW i \in Nat, NEW c \in Nat, NEW m \in Nat, m < c,
         NEW n \in Nat \ {0}, 1 + i + 2 * c <= n
  PROVE  2 + i + 2 * m \in 2..n /\ 3 + i + 2 * m \in 2..n
OBVIOUS

(* Behind m contexts stands the next with its registers.                   *)
LEMMA ContextWalk ==
  ASSUME NEW parts, NEW headerSize, NEW infoSize, NEW contextSize,
         NEW i \in Nat, NEW c \in Nat,
         SectionCounts(parts, headerSize, infoSize, contextSize, i, c),
         NEW m \in Nat, m < c
  PROVE  ContextMet(parts, contextSize, i, c, m)
<1>1. i \in Nat /\ c \in Nat /\ i = parts[1].body.infoNum /\ contextSize \in Nat
  BY DEF SectionCounts
<1>2. /\ 1 + i + 2 * c <= Len(parts) /\ Len(parts) \in Nat \ {0}
      /\ \A k \in 1..c :
              /\ parts[i + 2 * k].kind = "context" /\ parts[i + 2 * k].size = contextSize
              /\ parts[i + 2 * k].body.size \in Nat
              /\ parts[i + 2 * k + 1].kind = "registers"
              /\ parts[i + 2 * k + 1].size = parts[i + 2 * k].body.size
              /\ parts[i + 2 * k + 1].body = [of |-> "section"]
  <2>1. StandAt(parts, headerSize, infoSize, contextSize, i, c)
    BY CountsShape
  <2> QED
    BY <2>1 DEF StandAt
<1>3. PICK x \in 2..Len(parts) : x = 2 + i + 2 * m /\ x \in 1..Len(parts)
  <2>1. 1 + i + 2 * c <= Len(parts) /\ Len(parts) \in Nat \ {0}
    BY <1>2
  <2>2. 2 + i + 2 * m \in 2..Len(parts)
    BY <2>1, ContextIndex
  <2> QED
    BY <2>2
<1>4. /\ m + 1 \in 1..c /\ i + 2 * (m + 1) = x /\ i + 2 * (m + 1) + 1 = x + 1
      /\ x + 1 = 3 + i + 2 * m /\ x + 1 \in 2..Len(parts) /\ x + 1 \in 1..Len(parts)
      /\ (x + 1) + 1 = 2 + i + 2 * (m + 1)
  <2>1. 1 + i + 2 * c <= Len(parts) /\ Len(parts) \in Nat \ {0}
    BY <1>2
  <2>2. x = 2 + i + 2 * m
    BY <1>3
  <2> QED
    BY <2>1, <2>2
<1>5. /\ parts[x].kind = "context" /\ parts[x].size = contextSize /\ parts[x].body.size \in Nat
      /\ parts[x + 1].kind = "registers" /\ parts[x + 1].size = parts[x].body.size
      /\ parts[x + 1].body = [of |-> "section"]
  BY <1>2, <1>4
<1>6. /\ StartAt(parts, x) = parts[x].start /\ parts[x].start \in Nat
      /\ StartAt(parts, x + 1) = parts[x].start + parts[x].size
      /\ parts[x].kind \in {"info", "context"} =>
           \A residues : ReadAt(parts, parts[x].kind, StartAt(parts, x), residues)
                           = {parts[x].body}
  BY <1>3, Placed
<1>7. /\ StartAt(parts, x + 1) = parts[x + 1].start
      /\ StartAt(parts, (x + 1) + 1) = parts[x + 1].start + parts[x + 1].size
  BY <1>4, Placed
<1>8. ContextAt(parts, m + 1) = parts[x]
  BY <1>1, <1>4 DEF ContextAt
<1>9. StartAt(parts, x) + contextSize + parts[x].body.size = StartAt(parts, (x + 1) + 1)
  BY <1>1, <1>5, <1>6, <1>7
<1> QED
  BY <1>3, <1>4, <1>5, <1>6, <1>8, <1>9 DEF ContextMet

(* The walk ends at the end, or at the vendor specific bytes.              *)
WalkEnds(parts, rest) ==
  LET last == parts[Len(parts)] IN
    \/ /\ last.kind # "vendor" /\ Len(parts) = rest - 1
       /\ StartAt(parts, rest) = End(parts) /\ End(parts) \in Nat
    \/ /\ last.kind = "vendor" /\ Len(parts) = rest
       /\ StartAt(parts, rest) \in Nat /\ last.size \in Nat \ {0}
       /\ End(parts) = StartAt(parts, rest) + last.size

(* Behind all of them the walk is at the end, or at the vendor's bytes.    *)
LEMMA WalkEnd ==
  ASSUME NEW parts, NEW headerSize, NEW infoSize, NEW contextSize,
         NEW i \in Nat, NEW c \in Nat,
         SectionCounts(parts, headerSize, infoSize, contextSize, i, c),
         NEW rest, rest = 2 + i + 2 * c
  PROVE  StartAt(parts, 2) = headerSize /\ WalkEnds(parts, rest)
<1>1. i \in Nat /\ c \in Nat
  BY DEF SectionCounts
<1>2. /\ headerSize \in Nat \ {0} /\ infoSize \in Nat \ {0} /\ contextSize \in Nat \ {0}
      /\ IsProcessorSection(parts, headerSize, infoSize, contextSize)
      /\ \A j \in 2..Len(parts) : parts[j].kind = "context" => parts[j].body.size \in Nat
  BY DEF SectionCounts
<1>3. /\ Len(parts) \in Nat \ {0}
      /\ \A k \in 1..Len(parts) : parts[k].kind = "vendor" => parts[k].size > 0 /\ k = Len(parts)
  BY <1>2, ProcessorSectionShape
<1>4. /\ 1 + i + 2 * c <= Len(parts)
      /\ \A k \in rest..Len(parts) : parts[k].kind = "vendor"
  <2>1. 1 + i + 2 * c <= Len(parts) /\ \A k \in (1 + i + 2 * c) + 1..Len(parts) : parts[k].kind = "vendor"
    BY DEF SectionCounts, Counted
  <2>2. (1 + i + 2 * c) + 1 = rest
    BY <1>1
  <2> QED
    BY <2>1, <2>2
<1>5. /\ parts[1].kind = "header" /\ parts[1].size = headerSize /\ parts[1].start = 0
      /\ \A k \in 1..i : parts[1 + k].kind = "info"
      /\ \A k \in 1..c : parts[i + 2 * k + 1].kind = "registers"
  <2>1. StandAt(parts, headerSize, infoSize, contextSize, i, c)
    BY CountsShape
  <2> QED
    BY <2>1 DEF StandAt
<1>6. StartAt(parts, 2) = headerSize
  <2>1. 1 \in 1..Len(parts) /\ 1 + 1 = 2
    BY <1>3
  <2>2. StartAt(parts, 1 + 1) = parts[1].start + parts[1].size
    BY <2>1, Placed
  <2> QED
    BY <2>1, <2>2, <1>2, <1>5
<1>7. CASE Len(parts) = 1 + i + 2 * c
  <2>1. parts[Len(parts)].kind # "vendor"
    <3>1. CASE c # 0
      <4>1. c \in 1..c /\ i + 2 * c + 1 = Len(parts)
        BY <1>1, <1>7, <3>1
      <4> QED
        BY <4>1, <1>5
    <3>2. CASE c = 0 /\ i # 0
      <4>1. i \in 1..i /\ 1 + i = Len(parts)
        BY <1>1, <1>7, <3>2
      <4> QED
        BY <4>1, <1>5
    <3>3. CASE c = 0 /\ i = 0
      <4>1. Len(parts) = 1
        BY <1>7, <3>3
      <4> QED
        BY <4>1, <1>5
    <3> QED
      BY <3>1, <3>2, <3>3
  <2>2. ~(rest <= Len(parts)) /\ Len(parts) = rest - 1
    BY <1>1, <1>7
  <2>3. End(parts) \in Nat
    <3>1. Len(parts) \in 1..Len(parts) /\ parts # <<>>
      BY <1>3
    <3>2. parts[Len(parts)].start \in Nat /\ parts[Len(parts)].size \in Nat
      BY <3>1, Placed
    <3> QED
      BY <3>1, <3>2, SMTT(40) DEF End
  <2> QED
    BY <2>1, <2>2, <2>3, <1>6 DEF StartAt, WalkEnds
<1>8. CASE Len(parts) # 1 + i + 2 * c
  <2>1. rest \in rest..Len(parts) /\ rest \in 1..Len(parts)
    BY <1>1, <1>3, <1>4, <1>8
  <2>2. parts[rest].kind = "vendor" /\ rest = Len(parts) /\ parts[rest].size > 0
    BY <2>1, <1>3, <1>4
  <2>3. /\ parts[rest].start \in Nat /\ parts[rest].size \in Nat
        /\ StartAt(parts, rest) = parts[rest].start
    BY <2>1, Placed
  <2>4. End(parts) = parts[rest].start + parts[rest].size
    <3>1. parts # <<>>
      BY <1>3
    <3> QED
      BY <2>2, <3>1 DEF End
  <2> QED
    BY <1>6, <2>2, <2>3, <2>4 DEF WalkEnds
<1> QED
  BY <1>7, <1>8
----------------------------------------------------------------------------
(* What Put() leaves, and what it adds.                                    *)
LEMMA PutShape ==
  ASSUME NEW out, NEW S, out \in Seq(S), NEW kind, NEW size, NEW body,
         NEW more, more = Put(out, kind, size, body)
  PROVE  /\ Len(out) \in Nat /\ Len(more) = Len(out) + 1 /\ more # <<>>
         /\ \A k \in 1..Len(out) : more[k] = out[k]
         /\ more[Len(out) + 1] = [kind |-> kind, start |-> End(out), size |-> size,
                                  body |-> body]
         /\ \E T : more \in Seq(T)
         /\ End(more) = End(out) + size
<1> DEFINE part == [kind |-> kind, start |-> End(out), size |-> size, body |-> body]
<1>1. more = Append(out, part)
  BY DEF Put
<1>2. part.start = End(out) /\ part.size = size
  OBVIOUS
<1> HIDE DEF part
<1>3. out \in Seq(S \union {part}) /\ part \in S \union {part}
  OBVIOUS
<1>4. /\ Len(out) \in Nat /\ Len(more) = Len(out) + 1
      /\ \A k \in 1..Len(out) : more[k] = out[k]
      /\ more[Len(out) + 1] = part
      /\ more \in Seq(S \union {part})
  BY <1>1, <1>3, AppendProperties
<1>5. more # <<>>
  BY <1>4
<1> QED
  BY <1>2, <1>4, <1>5 DEF End, part

(* Put() moves the end by the size.                                        *)
LEMMA EndPut ==
  ASSUME NEW out, \E S : out \in Seq(S), NEW kind, NEW size, NEW body
  PROVE  End(Put(out, kind, size, body)) = End(out) + size
<1>1. PICK S : out \in Seq(S)
  OBVIOUS
<1> DEFINE record == [kind |-> kind, start |-> End(out), size |-> size, body |-> body]
<1>0. record.start = End(out) /\ record.size = size
  OBVIOUS
<1> HIDE DEF record
<1>2. PICK part : part = record /\ part.start = End(out) /\ part.size = size
  BY <1>0
<1>3. Put(out, kind, size, body) = Append(out, part)
  BY <1>2 DEF Put, record
<1>4. part.start = End(out) /\ part.size = size
  BY <1>2
<1> HIDE <1>2
<1>5. PICK more : more = Append(out, part)
  OBVIOUS
<1>6. Len(more) = Len(out) + 1 /\ more[Len(out) + 1] = part /\ more # <<>>
  <2>1. out \in Seq(S \union {part}) /\ part \in S \union {part}
    BY <1>1
  <2> QED
    BY <2>1, <1>5, AppendProperties
<1>7. End(more) = End(out) + size
  BY <1>4, <1>6 DEF End
<1> QED
  BY <1>3, <1>5, <1>7

(* The first structure put.                                                *)
LEMMA PutFirst ==
  ASSUME NEW kind, NEW size, NEW body
  PROVE  /\ Len(Put(<<>>, kind, size, body)) = 1
         /\ Put(<<>>, kind, size, body)[1]
              = [kind |-> kind, start |-> 0, size |-> size, body |-> body]
         /\ \E T : Put(<<>>, kind, size, body) \in Seq(T)
<1>1. PICK part : part = [kind |-> kind, start |-> 0, size |-> size, body |-> body]
  OBVIOUS
<1>2. Put(<<>>, kind, size, body) = Append(<<>>, part)
  BY <1>1 DEF Put, End
<1>3. Append(<<>>, part) = <<part>> /\ <<part>> \in Seq({part}) /\ Len(<<part>>) = 1
      /\ <<part>>[1] = part
  OBVIOUS
<1> QED
  BY <1>1, <1>2, <1>3

(* The structures written so far are the first ones of the section: the    *)
(* same ones, or others in the same places.                                *)
Beginning(out, parts) ==
  /\ Len(out) <= Len(parts)
  /\ \A k \in 1..Len(out) : out[k] = parts[k]

InPlace(out, parts) ==
  /\ Len(out) <= Len(parts)
  /\ \A k \in 1..Len(out) : /\ out[k].kind = parts[k].kind
                            /\ out[k].start = parts[k].start
                            /\ out[k].size = parts[k].size

(* What was put in place so far ends where the next structure starts.      *)
LEMMA EndInPlace ==
  ASSUME NEW out, NEW S, out \in Seq(S), NEW parts, Contiguous(parts),
         InPlace(out, parts), NEW k, k = Len(out) + 1, k \in 1..Len(parts)
  PROVE  End(out) = parts[k].start
<1>1. CASE out = <<>>
  <2>1. k = 1
    BY <1>1
  <2> QED
    BY <1>1, <2>1 DEF End, Contiguous
<1>2. CASE out # <<>>
  <2>1. Len(out) \in 1..Len(out) /\ k # 1 /\ k - 1 = Len(out)
    BY <1>2
  <2>2. parts[k].start = parts[k - 1].start + parts[k - 1].size
    BY <2>1 DEF Contiguous
  <2>3. /\ out[Len(out)].start = parts[k - 1].start
        /\ out[Len(out)].size = parts[k - 1].size
    BY <2>1 DEF InPlace
  <2> QED
    BY <1>2, <2>2, <2>3 DEF End
<1> QED
  BY <1>1, <1>2

(* The next structure put, of the same kind and size, is in place.         *)
LEMMA PutInPlace ==
  ASSUME NEW out, NEW S, out \in Seq(S), NEW parts, Contiguous(parts), InPlace(out, parts),
         NEW k, k = Len(out) + 1, k \in 1..Len(parts), NEW body
  PROVE  InPlace(Put(out, parts[k].kind, parts[k].size, body), parts)
<1>1. PICK more : more = Put(out, parts[k].kind, parts[k].size, body)
  OBVIOUS
<1>2. /\ Len(out) \in Nat /\ Len(more) = Len(out) + 1
      /\ \A j \in 1..Len(out) : more[j] = out[j]
      /\ more[Len(out) + 1] = [kind |-> parts[k].kind, start |-> End(out),
                               size |-> parts[k].size, body |-> body]
  BY <1>1, PutShape
<1>3. End(out) = parts[k].start
  BY EndInPlace
<1>4. /\ more[k].kind = parts[k].kind /\ more[k].start = parts[k].start
      /\ more[k].size = parts[k].size
  BY <1>2, <1>3
<1>5. ASSUME NEW j \in 1..Len(more)
      PROVE  /\ more[j].kind = parts[j].kind /\ more[j].start = parts[j].start
             /\ more[j].size = parts[j].size
  <2>1. j = k \/ j \in 1..Len(out)
    BY <1>2
  <2> QED
    BY <2>1, <1>2, <1>4 DEF InPlace
<1> QED
  BY <1>1, <1>2, <1>5 DEF InPlace

(* The next structure put, the same one, continues the beginning.          *)
LEMMA PutBeginning ==
  ASSUME NEW out, NEW S, out \in Seq(S), NEW parts, Contiguous(parts), Beginning(out, parts),
         NEW k, k = Len(out) + 1, k \in 1..Len(parts),
         parts[k] = [kind |-> parts[k].kind, start |-> parts[k].start,
                     size |-> parts[k].size, body |-> parts[k].body]
  PROVE  Beginning(Put(out, parts[k].kind, parts[k].size, parts[k].body), parts)
<1>1. PICK more : more = Put(out, parts[k].kind, parts[k].size, parts[k].body)
  OBVIOUS
<1>2. /\ Len(out) \in Nat /\ Len(more) = Len(out) + 1
      /\ \A j \in 1..Len(out) : more[j] = out[j]
      /\ more[Len(out) + 1] = [kind |-> parts[k].kind, start |-> End(out),
                               size |-> parts[k].size, body |-> parts[k].body]
  BY <1>1, PutShape
<1>3. End(out) = parts[k].start
  <2>1. InPlace(out, parts)
    BY DEF Beginning, InPlace
  <2> QED
    BY <2>1, EndInPlace
<1>4. more[k] = parts[k]
  BY <1>2, <1>3
<1>5. ASSUME NEW j \in 1..Len(more) PROVE more[j] = parts[j]
  <2>1. j = k \/ j \in 1..Len(out)
    BY <1>2
  <2> QED
    BY <2>1, <1>2, <1>4 DEF Beginning
<1> QED
  BY <1>1, <1>2, <1>5 DEF Beginning

(* Setting the body of the first structure.                                *)
LEMMA PutFirstExcept ==
  ASSUME NEW name, NEW size, NEW body, NEW x
  PROVE  /\ [Put(<<>>, name, size, body) EXCEPT ![1].body = x] = Put(<<>>, name, size, x)
         /\ Put(<<>>, name, size, body)[1].body = body
<1> DEFINE a == [kind |-> name, start |-> 0, size |-> size, body |-> body]
           b == [kind |-> name, start |-> 0, size |-> size, body |-> x]
<1>1. Put(<<>>, name, size, body) = <<a>> /\ Put(<<>>, name, size, x) = <<b>>
  BY DEF Put, End
<1>2. [a EXCEPT !.body = x] = b /\ a.body = body
  OBVIOUS
<1> HIDE DEF a, b
<1>3. [<<a>> EXCEPT ![1].body = x] = <<b>>
  BY <1>2
<1>4. <<a>>[1] = a
  OBVIOUS
<1> QED
  BY <1>1, <1>2, <1>3, <1>4

(* The first structure by itself.                                          *)
LEMMA PutFirstIs ==
  ASSUME NEW name, NEW size, NEW body
  PROVE  \E first : /\ Put(<<>>, name, size, body) = <<first>> /\ first.kind = name
                    /\ first.size = size /\ first.body = body
<1> DEFINE a == [kind |-> name, start |-> 0, size |-> size, body |-> body]
<1>1. Put(<<>>, name, size, body) = <<a>>
  BY DEF Put, End
<1>2. a.kind = name /\ a.size = size /\ a.body = body
  OBVIOUS
<1> HIDE DEF a
<1> QED
  BY <1>1, <1>2

(* A list and what Append() makes of it.                                   *)
Longer(more, list, x) ==
  /\ \E S : more \in Seq(S)
  /\ Len(list) \in Nat /\ Len(more) = Len(list) + 1
  /\ \A k \in 1..Len(list) : more[k] = list[k]
  /\ more[Len(list) + 1] = x

LEMMA AppendLonger ==
  ASSUME NEW list, NEW x, \E S : list \in Seq(S)
  PROVE  Longer(Append(list, x), list, x)
<1>1. PICK S : list \in Seq(S)
  OBVIOUS
<1>2. list \in Seq(S \union {x}) /\ x \in S \union {x}
  BY <1>1
<1> QED
  BY <1>2, AppendProperties DEF Longer
=============================================================================
