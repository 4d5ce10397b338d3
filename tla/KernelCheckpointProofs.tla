------------------------ MODULE KernelCheckpointProofs ------------------------
(***************************************************************************)
(* For any program of compiled functions, any number of warps and lanes    *)
(* and any depth of calls: the jump tables are what the tool takes them to *)
(* be, and each restorable warp comes back where and as it was saved.      *)
(*                                                                         *)
(* The instructions of a table lie where a formula says (Place), so its    *)
(* properties need no induction over its words.  A restore is followed     *)
(* from one single step to the next: GpuInv says at which instruction the  *)
(* warp is, and with what on its stack, whenever the tool acts.            *)
(***************************************************************************)
EXTENDS KernelCheckpoint, FiniteSetTheorems, SequenceTheorems, WellFoundedInduction, TLAPS

-----------------------------------------------------------------------------
(***************************************************************************)
(* Sets of addresses.                                                      *)
(***************************************************************************)
\* A set of naturals that is not empty has a least element.
LEMMA LeastNatural ==
    ASSUME NEW S, S \subseteq Nat, S # {}
    PROVE  \E m \in S : \A n \in S : m <= n
<1>1. \E m \in S : \A n \in S : ~(<<n, m>> \in OpToRel(<, Nat))
  BY WFMin, NatLessThanWellFounded, Zenon
<1>2. PICK m \in S : \A n \in S : ~(<<n, m>> \in OpToRel(<, Nat))  BY <1>1
<1>3. ASSUME NEW n \in S  PROVE m <= n
  <2>1. m \in Nat /\ n \in Nat  OBVIOUS
  <2>2. n < m => <<n, m>> \in OpToRel(<, Nat)
    BY <2>1, Zenon DEF OpToRel
  <2>3. ~(n < m)  BY <1>2, <2>2, Zenon
  <2>. QED  BY <2>1, <2>3
<1>. QED  BY <1>3

\* Induction over the naturals, stated with the set of those of which a fact holds.
LEMMA AllNaturals ==
    ASSUME NEW S, 0 \in S, \A n \in Nat : n \in S => n + 1 \in S
    PROVE  Nat \subseteq S
<1>. SUFFICES ASSUME Nat \ S # {}  PROVE FALSE  OBVIOUS
<1>1. PICK m \in Nat \ S : \A n \in Nat \ S : m <= n  BY LeastNatural
<1>2. m # 0 /\ m - 1 \in Nat  BY <1>1
<1>3. m - 1 \in S  BY <1>1, <1>2
<1>. QED  BY <1>2, <1>3

LEMMA MinIsLeast ==
    ASSUME NEW S, S \subseteq Nat, S # {}
    PROVE  Min(S) \in S /\ \A n \in S : Min(S) <= n
<1>1. \E m \in S : \A n \in S : m <= n  BY LeastNatural
<1>. QED  BY <1>1 DEF Min

LEMMA MaxIsGreatest ==
    ASSUME NEW S, S \subseteq Nat, S # {}, NEW b \in Nat, \A n \in S : n <= b
    PROVE  Max(S) \in S /\ \A n \in S : n <= Max(S)
<1>. DEFINE B == {m \in Nat : \A n \in S : n <= m}
<1>1. b \in B  OBVIOUS
<1>2. PICK m \in B : \A n \in B : m <= n
  <2>. HIDE DEF B
  <2>1. B \subseteq Nat  BY DEF B
  <2>. QED  BY LeastNatural, <1>1, <2>1
<1>3. m \in S
  <2>. SUFFICES ASSUME m \notin S  PROVE FALSE  OBVIOUS
  <2>1. \A n \in S : n <= m /\ n # m  BY <1>2
  <2>2. PICK s \in S : TRUE  OBVIOUS
  <2>3. m - 1 \in Nat /\ \A n \in S : n <= m - 1  BY <2>1, <2>2, <1>2
  <2>. QED  BY <1>2, <2>3
<1>4. \E x \in S : \A n \in S : n <= x  BY <1>2, <1>3
<1>. QED  BY <1>4 DEF Max

\* A number of 1 to the cardinality for each element of a set of naturals.
LEMMA NthOfRank ==
    ASSUME NEW S, S \subseteq Nat, IsFiniteSet(S), NEW a \in S
    PROVE  \E i \in 1 .. Cardinality(S) : Nth(S, i) = a
<1>. DEFINE Below(x) == {b \in S : b < x}
<1>1. ASSUME NEW x \in S  PROVE IsFiniteSet(Below(x)) /\ Cardinality(Below(x)) \in Nat
  <2>1. Below(x) \in SUBSET S  OBVIOUS
  <2>. HIDE DEF Below
  <2>2. IsFiniteSet(Below(x))  BY <2>1, FS_Subset
  <2>. QED  BY <2>2, FS_CardinalityType
<1>2. ASSUME NEW x \in S, NEW y \in S, x < y
      PROVE  Cardinality(Below(x)) < Cardinality(Below(y))
  <2>0. \A b \in S : b < x => b < y  BY <1>2
  <2>1. Below(x) \in SUBSET Below(y)  BY <2>0, Zenon
  <2>2. x \in Below(y) /\ x \notin Below(x)  BY <1>2
  <2>. HIDE DEF Below
  <2>3. Cardinality(Below(x)) <= Cardinality(Below(y))
    BY <2>1, <1>1, FS_Subset
  <2>4. Cardinality(Below(y)) # Cardinality(Below(x))
    BY <2>1, <2>2, <1>1, FS_Subset
  <2>. QED  BY <2>3, <2>4, <1>1
<1>3. Cardinality(Below(a)) < Cardinality(S)
  <2>1. Below(a) \in SUBSET S /\ a \notin Below(a)  OBVIOUS
  <2>. HIDE DEF Below
  <2>2. Cardinality(Below(a)) <= Cardinality(S) /\ Cardinality(Below(a)) # Cardinality(S)
    BY <2>1, FS_Subset
  <2>3. Cardinality(S) \in Nat  BY FS_CardinalityType
  <2>. QED  BY <2>2, <2>3, <1>1
<1>4. PICK i : i = Cardinality(Below(a)) + 1  OBVIOUS
<1>5. i \in 1 .. Cardinality(S)
  <2>1. Cardinality(S) \in Nat  BY FS_CardinalityType
  <2>. QED  BY <2>1, <1>1, <1>3, <1>4
<1>6. ASSUME NEW x \in S, Cardinality(Below(x)) = i - 1  PROVE x = a
  <2>. HIDE DEF Below
  <2>1. Cardinality(Below(x)) = Cardinality(Below(a))  BY <1>1, <1>4, <1>6
  <2>2. x \in Nat /\ a \in Nat  OBVIOUS
  <2>. QED  BY <2>1, <2>2, <1>1, <1>2
<1>7. Cardinality(Below(a)) = i - 1  BY <1>1, <1>4
<1>8. Nth(S, i) = CHOOSE x \in S : Cardinality(Below(x)) = i - 1  BY DEF Nth
<1>9. Nth(S, i) = a
  <2>. HIDE DEF Below
  <2>. QED  BY <1>6, <1>7, <1>8
<1>. QED  BY <1>5, <1>9

-----------------------------------------------------------------------------
(***************************************************************************)
(* Functions.                                                              *)
(***************************************************************************)
\* The addresses of a function are naturals, and finitely many.
LEMMA CodeAddresses ==
    ASSUME NEW code, IsFunction(code)
    PROVE  /\ DOMAIN code \subseteq Nat
           /\ \E b \in Nat : \A a \in DOMAIN code : a <= b
           /\ \A op : /\ At(code, op) \subseteq DOMAIN code
                      /\ IsFiniteSet(At(code, op)) /\ Cardinality(At(code, op)) \in Nat
<1>1. IsFiniteSet(DOMAIN code) /\ DOMAIN code = 0 .. Cardinality(DOMAIN code) - 1
  BY DEF IsFunction
<1>2. Cardinality(DOMAIN code) \in Nat  BY <1>1, FS_CardinalityType
<1>3. PICK n : n = Cardinality(DOMAIN code)  OBVIOUS
<1>4. DOMAIN code = 0 .. n - 1 /\ n \in Nat  BY <1>1, <1>2, <1>3
<1>5. \A a \in DOMAIN code : a \in Nat /\ a <= n  BY <1>4
<1>6. ASSUME NEW op
      PROVE  /\ At(code, op) \in SUBSET DOMAIN code
             /\ IsFiniteSet(At(code, op)) /\ Cardinality(At(code, op)) \in Nat
  <2>1. At(code, op) \in SUBSET DOMAIN code  BY DEF At
  <2>. QED  BY <1>1, <2>1, FS_Subset, FS_CardinalityType
<1>. QED  BY <1>4, <1>5, <1>6

LEMMA CodeWords ==
    ASSUME NEW code, IsFunction(code), NEW a \in DOMAIN code
    PROVE  /\ code[a].op \in Ops /\ code[a].to \in Nat
           /\ IsControl(a) => code[a] = Control
           /\ ~IsControl(a) => code[a].op # "control"
BY DEF IsFunction

\* Where the breakpoints begin is no control word.
LEMMA TableBegins ==
    ASSUME NEW code, IsFunction(code), HasRoom(code)
    PROVE  /\ FirstBpt(code) \in DOMAIN code /\ FirstBpt(code) \in Nat \ {0}
           /\ code[FirstBpt(code)].op = "bpt" /\ At(code, "bpt") # {}
           /\ FirstBpt(code) % 4 \in 1 .. 3
<1>1. DOMAIN code \subseteq Nat /\ At(code, "bpt") \subseteq DOMAIN code  BY CodeAddresses
<1>2. At(code, "bpt") # {}
  <2>. SUFFICES ASSUME At(code, "bpt") = {}  PROVE FALSE  OBVIOUS
  <2>1. FirstBpt(code) = 0  BY DEF FirstBpt
  <2>2. Room(code) = 0  BY <2>1 DEF Room
  <2>. QED  BY <2>2 DEF HasRoom
<1>3. FirstBpt(code) = Min(At(code, "bpt"))  BY <1>2 DEF FirstBpt
<1>4. FirstBpt(code) \in At(code, "bpt")  BY <1>1, <1>2, <1>3, MinIsLeast
<1>5. FirstBpt(code) \in DOMAIN code /\ code[FirstBpt(code)].op = "bpt"  BY <1>4 DEF At
<1>6. ~IsControl(FirstBpt(code))
  <2>1. Control.op # "bpt"  BY DEF Control, Instr
  <2>. QED  BY <1>5, <2>1, CodeWords
<1>7. FirstBpt(code) \in Nat  BY <1>1, <1>5
<1>8. FirstBpt(code) # 0 /\ FirstBpt(code) % 4 \in 1 .. 3
  <2>1. PICK f \in Nat : f = FirstBpt(code)  BY <1>7
  <2>2. f % 4 # 0  BY <1>6, <2>1 DEF IsControl
  <2>. QED  BY <2>1, <2>2
<1>. QED  BY <1>2, <1>5, <1>7, <1>8

-----------------------------------------------------------------------------
(***************************************************************************)
(* The words of a table.                                                   *)
(***************************************************************************)
\* How many of the first i words are instructions, if the table begins at r.
LEMMA PlacedCount ==
    ASSUME NEW r \in 1 .. 3
    PROVE  \A i \in Nat : Cardinality({j \in 0 .. i - 1 : ~(j % 4 = 4 - r)})
                              = i - ((i + r - 1) \div 4)
<1>. DEFINE Words(i) == {j \in 0 .. i - 1 : ~(j % 4 = 4 - r)}
            Good == {i \in Nat : /\ IsFiniteSet(Words(i))
                                 /\ Cardinality(Words(i)) = i - ((i + r - 1) \div 4)}
<1>1. 0 \in Good
  <2>1. Words(0) = {}  OBVIOUS
  <2>2. IsFiniteSet(Words(0)) /\ Cardinality(Words(0)) = 0
    <3>. HIDE DEF Words
    <3>. QED  BY <2>1, FS_EmptySet
  <2>3. (0 + r - 1) \div 4 = 0  OBVIOUS
  <2>. HIDE DEF Words
  <2>. QED  BY <2>2, <2>3
<1>2. ASSUME NEW n \in Nat, n \in Good  PROVE n + 1 \in Good
  <2>1. CASE n % 4 = 4 - r
    <3>1. Words(n + 1) = Words(n)  BY <2>1
    <3>2. (n + 1 + r - 1) \div 4 = ((n + r - 1) \div 4) + 1  BY <2>1
    <3>. HIDE DEF Words
    <3>. QED  BY <3>1, <3>2, <1>2
  <2>2. CASE n % 4 # 4 - r
    <3>1. Words(n + 1) = Words(n) \cup {n} /\ n \notin Words(n)  BY <2>2
    <3>2. (n + 1 + r - 1) \div 4 = (n + r - 1) \div 4  BY <2>2
    <3>3. IsFiniteSet(Words(n)) /\ Cardinality(Words(n)) = n - ((n + r - 1) \div 4)  BY <1>2
    <3>. HIDE DEF Words
    <3>4. /\ IsFiniteSet(Words(n) \cup {n})
          /\ Cardinality(Words(n) \cup {n}) = Cardinality(Words(n)) + 1
      BY <3>1, <3>3, FS_AddElement
    <3>5. (n + r - 1) \div 4 \in Int  OBVIOUS
    <3>. QED  BY <3>1, <3>2, <3>3, <3>4, <3>5
  <2>. QED  BY <2>1, <2>2
<1>3. Nat \subseteq Good
  <2>. HIDE DEF Good
  <2>. QED  BY <1>1, <1>2, AllNaturals
<1>. QED  BY <1>3

\* Word of instruction k of a table, from 0, if the table begins at r.
WordOf(r, k) == k - 1 + ((k + r - 2) \div 3)

LEMMA WordArithmetic ==
    ASSUME NEW r \in 1 .. 3, NEW k \in Nat \ {0}
    PROVE  /\ WordOf(r, k) \in Nat /\ WordOf(r, k) >= k - 1
           /\ 3 * WordOf(r, k) <= 4 * (k - 1) + r - 1
           /\ WordOf(r, k) % 4 # 4 - r
           /\ WordOf(r, k) + 1 - ((WordOf(r, k) + r) \div 4) = k
           /\ WordOf(r, k + 1) = IF (WordOf(r, k) + 1) % 4 = 4 - r
                                 THEN WordOf(r, k) + 2 ELSE WordOf(r, k) + 1
<1>1. PICK q \in Nat, t \in 0 .. 2 : k + r - 2 = 3 * q + t
  <2>1. PICK n \in Nat : n = k + r - 2  OBVIOUS
  <2>2. n = 3 * (n \div 3) + (n % 3) /\ n \div 3 \in Nat /\ n % 3 \in 0 .. 2  BY <2>1
  <2>. QED  BY <2>1, <2>2
<1>2. WordOf(r, k) = k - 1 + q  BY <1>1 DEF WordOf
<1>3. k = 3 * q + t + 2 - r  BY <1>1
<1>4. WordOf(r, k) = 4 * q + t + 1 - r  BY <1>2, <1>3
<1>5. WordOf(r, k + 1) = 4 * q + t + 2 - r + IF t = 2 THEN 1 ELSE 0
  <2>1. k + 1 + r - 2 = 3 * q + (t + 1)  BY <1>1
  <2>2. (k + 1 + r - 2) \div 3 = q + IF t = 2 THEN 1 ELSE 0  BY <2>1
  <2>. QED  BY <2>2, <1>3 DEF WordOf
<1>6. WordOf(r, k) \in Nat /\ WordOf(r, k) >= k - 1  BY <1>2
<1>7. 3 * WordOf(r, k) <= 4 * (k - 1) + r - 1  BY <1>3, <1>4
<1>8. PICK w \in Nat : w = WordOf(r, k)  BY <1>6
<1>9. w = 4 * q + t + 1 - r  BY <1>4, <1>8
<1>10. w % 4 # 4 - r  BY <1>9
<1>11. (w + r) \div 4 = q  BY <1>9
<1>12. ((w + 1) % 4 = 4 - r) <=> (t = 2)  BY <1>9
<1>. QED  BY <1>3, <1>5, <1>6, <1>7, <1>8, <1>9, <1>10, <1>11, <1>12

\* Every word that is no control word is that of one instruction.
LEMMA InstructionOfWord ==
    ASSUME NEW r \in 1 .. 3, NEW w \in Nat, w % 4 # 4 - r
    PROVE  /\ w + 1 - ((w + r) \div 4) \in Nat \ {0}
           /\ WordOf(r, w + 1 - ((w + r) \div 4)) = w
<1>1. PICK q \in Nat, t \in 0 .. 3 : w + r = 4 * q + t
  <2>1. PICK n \in Nat : n = w + r  OBVIOUS
  <2>2. n = 4 * (n \div 4) + (n % 4) /\ n \div 4 \in Nat /\ n % 4 \in 0 .. 3  BY <2>1
  <2>. QED  BY <2>1, <2>2
<1>2. (w + r) \div 4 = q  BY <1>1
<1>3. t # 0
  <2>. SUFFICES ASSUME t = 0  PROVE FALSE  OBVIOUS
  <2>1. w = 4 * q - r  BY <1>1
  <2>. QED  BY <2>1
<1>4. PICK k : k = w + 1 - q  OBVIOUS
<1>5. k \in Nat \ {0}  BY <1>1, <1>3, <1>4
<1>6. k + r - 2 = 3 * q + (t - 1)  BY <1>1, <1>4
<1>7. (k + r - 2) \div 3 = q  BY <1>3, <1>6
<1>8. WordOf(r, k) = w  BY <1>4, <1>7 DEF WordOf
<1>. QED  BY <1>2, <1>4, <1>5, <1>8

\* A later instruction comes later.
LEMMA WordsAscend ==
    ASSUME NEW r \in 1 .. 3, NEW k \in Nat \ {0}, NEW n \in Nat \ {0}, k < n
    PROVE  WordOf(r, k) < WordOf(r, n)
<1>1. PICK v \in Nat : v = WordOf(r, k)  BY WordArithmetic
<1>2. PICK w \in Nat : w = WordOf(r, n)  BY WordArithmetic
<1>3. v + 1 - ((v + r) \div 4) = k  BY <1>1, WordArithmetic
<1>4. w + 1 - ((w + r) \div 4) = n  BY <1>2, WordArithmetic
<1>5. v < w  BY <1>3, <1>4
<1>. QED  BY <1>1, <1>2, <1>5

\* A function on 1 .. n is a sequence.
LEMMA FunctionIsSequence ==
    ASSUME NEW n \in Nat, NEW S, NEW f \in [1 .. n -> S]
    PROVE  f \in Seq(S) /\ Len(f) = n /\ DOMAIN f = 1 .. n
OBVIOUS

\* p of length m, and q of length n behind it.
Joined(S, p, q, m, n) ==
    /\ p \o q \in Seq(S) /\ Len(p \o q) = m + n
    /\ \A k \in 1 .. m + n : (p \o q)[k] = IF k <= m THEN p[k] ELSE q[k - m]

LEMMA TwoParts ==
    ASSUME NEW S, NEW p \in Seq(S), NEW q \in Seq(S), NEW m \in Nat, NEW n \in Nat,
           Len(p) = m, Len(q) = n
    PROVE  Joined(S, p, q, m, n)
BY ConcatProperties DEF Joined

LEMMA DestinationsListed ==
    ASSUME NEW code, IsFunction(code), NEW op
    PROVE  /\ Len(Destinations(code, op)) = Cardinality(At(code, op))
           /\ DOMAIN Destinations(code, op) = 1 .. Cardinality(At(code, op))
           /\ \A a \in At(code, op) : \E i \in 1 .. Cardinality(At(code, op)) :
                 Destinations(code, op)[i] = code[a].to
<1>1. PICK n : n = Cardinality(At(code, op))  OBVIOUS
<1>2. n \in Nat /\ IsFiniteSet(At(code, op)) /\ At(code, op) \subseteq Nat
  BY <1>1, CodeAddresses
<1>. DEFINE To(i) == code[Nth(At(code, op), i)].to
<1>3. Destinations(code, op) = [i \in 1 .. n |-> To(i)]  BY <1>1 DEF Destinations
<1>4. Destinations(code, op) \in [1 .. n -> {To(i) : i \in 1 .. n}]
  <2>. HIDE DEF To
  <2>. QED  BY <1>3
<1>5. Len(Destinations(code, op)) = n /\ DOMAIN Destinations(code, op) = 1 .. n
  BY <1>2, <1>4, FunctionIsSequence
<1>6. ASSUME NEW a \in At(code, op)
      PROVE  \E i \in 1 .. n : Destinations(code, op)[i] = code[a].to
  <2>1. PICK i \in 1 .. n : Nth(At(code, op), i) = a  BY <1>1, <1>2, NthOfRank
  <2>. QED  BY <1>3, <2>1
<1>. QED  BY <1>1, <1>5, <1>6

\* The instructions of a table of s regions, that end at D, and c calls, that return to C.
InstructionAt(code, k) ==
    LET s == Cardinality(At(code, "ssy"))
        c == Cardinality(At(code, "cal"))
    IN  IF k = 1 THEN Branch
        ELSE IF k <= 2 * s + 1
        THEN IF k % 2 = 0 THEN Instr("ssy", Destinations(code, "ssy")[k \div 2]) ELSE Branch
        ELSE IF k <= 2 * s + 2 * c + 1
        THEN IF k % 2 = 0 THEN Instr("pret", Destinations(code, "cal")[(k - 2 * s) \div 2])
                          ELSE Instr("jmx", 0)
        ELSE IF k = 2 * s + 2 * c + 2 THEN Instr("exit", 0)
        ELSE IF k = 2 * s + 2 * c + 3 THEN Instr("sync", 0) ELSE Branch

PairsAre(S, n, d, op, jump) ==
    /\ Pairs(d, op, jump) \in Seq(S) /\ Len(Pairs(d, op, jump)) = 2 * n
    /\ \A k \in 1 .. 2 * n : Pairs(d, op, jump)[k] =
          IF k % 2 = 1 THEN Instr(op, d[(k + 1) \div 2]) ELSE jump

LEMMA PairsListed ==
    ASSUME NEW n \in Nat, NEW d, Len(d) = n, NEW op, NEW jump,
           NEW S, jump \in S, \A i \in 1 .. n : Instr(op, d[i]) \in S
    PROVE  PairsAre(S, n, d, op, jump)
<1>. DEFINE P(k) == IF k % 2 = 1 THEN Instr(op, d[(k + 1) \div 2]) ELSE jump
<1>1. Pairs(d, op, jump) = [k \in 1 .. 2 * n |-> P(k)]  BY DEF Pairs
<1>2. ASSUME NEW k \in 1 .. 2 * n  PROVE P(k) \in S
  <2>1. CASE k % 2 = 1
    <3>1. (k + 1) \div 2 \in 1 .. n  BY <2>1
    <3>. QED  BY <2>1, <3>1
  <2>2. CASE k % 2 # 1  BY <2>2
  <2>. QED  BY <2>1, <2>2
<1>3. Pairs(d, op, jump) \in [1 .. 2 * n -> S]
  <2>. HIDE DEF P
  <2>. QED  BY <1>1, <1>2
<1>4. Pairs(d, op, jump) \in Seq(S) /\ Len(Pairs(d, op, jump)) = 2 * n
  <2>. HIDE DEF P
  <2>1. 2 * n \in Nat  OBVIOUS
  <2>. QED  BY <1>3, <2>1, FunctionIsSequence
<1>. QED  BY <1>1, <1>4 DEF PairsAre

LEMMA InstructionsListed ==
    ASSUME NEW code, IsFunction(code)
    PROVE  /\ Needed(code) \in Nat /\ Needed(code) >= 3
           /\ Len(Instructions(code)) = Needed(code) + 1
           /\ \A k \in 1 .. Needed(code) + 1 : Instructions(code)[k] = InstructionAt(code, k)
<1>1. PICK s : s = Cardinality(At(code, "ssy"))  OBVIOUS
<1>2. PICK c : c = Cardinality(At(code, "cal"))  OBVIOUS
<1>3. s \in Nat /\ c \in Nat  BY <1>1, <1>2, CodeAddresses
<1>4. PICK D : D = Destinations(code, "ssy")  OBVIOUS
<1>5. PICK C : C = Destinations(code, "cal")  OBVIOUS
<1>6. Len(D) = s /\ Len(C) = c  BY <1>1, <1>2, <1>4, <1>5, DestinationsListed
<1>7. PICK X : X = Instr("jmx", 0)  OBVIOUS
<1>8. PICK E : E = <<Instr("exit", 0), Instr("sync", 0), Branch>>  OBVIOUS
<1>9. PICK P : P = Pairs(D, "ssy", Branch)  OBVIOUS
<1>10. PICK Q : Q = Pairs(C, "pret", X)  OBVIOUS
<1>11. PICK S : S = {Branch, X, Instr("exit", 0), Instr("sync", 0)}
                    \cup {Instr("ssy", D[i]) : i \in 1 .. s}
                    \cup {Instr("pret", C[i]) : i \in 1 .. c}
  OBVIOUS
<1>12. Instructions(code) = ((<<Branch>> \o P) \o Q) \o E
  BY <1>4, <1>5, <1>7, <1>8, <1>9, <1>10 DEF Instructions
<1>13. P \in Seq(S) /\ Len(P) = 2 * s
       /\ \A k \in 1 .. 2 * s : P[k] = IF k % 2 = 1 THEN Instr("ssy", D[(k + 1) \div 2]) ELSE Branch
  <2>1. Branch \in S  BY <1>11
  <2>2. ASSUME NEW i \in 1 .. s  PROVE Instr("ssy", D[i]) \in S  BY <1>11
  <2>3. s \in Nat /\ Len(D) = s  BY <1>3, <1>6
  <2>4. PairsAre(S, s, D, "ssy", Branch)  BY <2>1, <2>2, <2>3, PairsListed
  <2>. QED  BY <2>4, <1>9 DEF PairsAre
<1>14. Q \in Seq(S) /\ Len(Q) = 2 * c
       /\ \A k \in 1 .. 2 * c : Q[k] = IF k % 2 = 1 THEN Instr("pret", C[(k + 1) \div 2]) ELSE X
  <2>1. X \in S  BY <1>11
  <2>2. ASSUME NEW i \in 1 .. c  PROVE Instr("pret", C[i]) \in S  BY <1>11
  <2>3. c \in Nat /\ Len(C) = c  BY <1>3, <1>6
  <2>4. PairsAre(S, c, C, "pret", X)  BY <2>1, <2>2, <2>3, PairsListed
  <2>. QED  BY <2>4, <1>10 DEF PairsAre
<1>15. E \in Seq(S) /\ Len(E) = 3
       /\ E[1] = Instr("exit", 0) /\ E[2] = Instr("sync", 0) /\ E[3] = Branch
  BY <1>8, <1>11
<1>16. <<Branch>> \in Seq(S) /\ Len(<<Branch>>) = 1 /\ <<Branch>>[1] = Branch  BY <1>11
<1>17. PICK A : A = <<Branch>> \o P  OBVIOUS
<1>m. PICK m \in Nat : m = 2 * s + 1  BY <1>3
<1>n. PICK n \in Nat : n = m + 2 * c  BY <1>3, <1>m
<1>18. A \in Seq(S) /\ Len(A) = m
       /\ \A k \in 1 .. m : A[k] = IF k <= 1 THEN Branch ELSE P[k - 1]
  <2>1. 2 * s \in Nat /\ m = 1 + 2 * s  BY <1>3, <1>m
  <2>2. Joined(S, <<Branch>>, P, 1, 2 * s)  BY <2>1, <1>13, <1>16, TwoParts
  <2>. QED  BY <2>1, <2>2, <1>3, <1>16, <1>17 DEF Joined
<1>19. PICK B : B = A \o Q  OBVIOUS
<1>20. B \in Seq(S) /\ Len(B) = n
       /\ \A k \in 1 .. n : B[k] = IF k <= m THEN A[k] ELSE Q[k - m]
  <2>1. PICK d \in Nat : d = 2 * c  BY <1>3
  <2>2. n = m + d  BY <2>1, <1>n
  <2>3. Len(Q) = d  BY <2>1, <1>14
  <2>4. Joined(S, A, Q, m, d)  BY <2>1, <2>3, <1>14, <1>18, TwoParts
  <2>. QED  BY <2>2, <2>4, <1>19 DEF Joined
<1>21. PICK I : I = B \o E  OBVIOUS
<1>22. I \in Seq(S) /\ Len(I) = n + 3
       /\ \A k \in 1 .. n + 3 : I[k] = IF k <= n THEN B[k] ELSE E[k - n]
  <2>1. PICK d \in Nat : d = 3  OBVIOUS
  <2>3. Len(E) = d /\ E \in Seq(S)  BY <2>1, <1>15
  <2>4. Joined(S, B, E, n, d)  BY <2>1, <2>3, <1>20, TwoParts
  <2>. QED  BY <2>1, <2>4, <1>21 DEF Joined
<1>23. Needed(code) = n + 2 /\ n \in Nat /\ n >= 1 /\ n + 3 = 2 * s + 2 * c + 4
  BY <1>1, <1>2, <1>3, <1>m, <1>n DEF Needed
<1>24. I = Instructions(code)  BY <1>12, <1>17, <1>19, <1>21
<1>25. ASSUME NEW k \in 1 .. n + 3  PROVE I[k] = InstructionAt(code, k)
  <2>1. CASE k = 1
    <3>1. 1 \in 1 .. m /\ 1 \in 1 .. n /\ 1 <= m /\ 1 <= n  BY <1>3, <1>m, <1>n
    <3>2. I[k] = Branch  BY <3>1, <2>1, <1>18, <1>20, <1>22
    <3>. QED  BY <3>2, <2>1 DEF InstructionAt
  <2>2. CASE k # 1 /\ k <= 2 * s + 1
    <3>0. k \in Nat /\ k >= 1  BY <1>3
    <3>1. k - 1 \in 1 .. 2 * s /\ k - 1 + 1 = k  BY <2>2, <1>3, <3>0
    <3>2. (k - 1) % 2 = 1 <=> k % 2 = 0  BY <3>0
    <3>a. k \in 1 .. n + 3 /\ k \in 1 .. n /\ k \in 1 .. m /\ k <= n /\ k <= m /\ ~(k <= 1)
      BY <1>3, <1>m, <1>n, <2>2, <3>0
    <3>3. I[k] = P[k - 1]  BY <3>a, <1>18, <1>20, <1>22
    <3>4. I[k] = IF k % 2 = 0 THEN Instr("ssy", D[k \div 2]) ELSE Branch
      BY <3>1, <3>2, <3>3, <1>13
    <3>. QED  BY <1>1, <1>2, <1>4, <2>2, <3>4 DEF InstructionAt
  <2>3. CASE k > 2 * s + 1 /\ k <= 2 * s + 2 * c + 1
    <3>1. k - 2 * s - 1 \in 1 .. 2 * c /\ (k - 2 * s - 1) + 1 = k - 2 * s  BY <2>3, <1>3, <1>m, <1>n
    <3>2. (k - 2 * s - 1) % 2 = 1 <=> k % 2 = 0  BY <2>3, <1>3, <1>m, <1>n
    <3>3. I[k] = Q[k - 2 * s - 1]  BY <1>3, <1>m, <1>n, <1>20, <1>22, <2>3
    <3>4. I[k] = IF k % 2 = 0 THEN Instr("pret", C[(k - 2 * s) \div 2]) ELSE X
      BY <3>1, <3>2, <3>3, <1>14
    <3>5. k # 1 /\ ~(k <= 2 * s + 1)  BY <1>3, <1>m, <1>n, <2>3
    <3>. QED  BY <1>1, <1>2, <1>5, <1>7, <2>3, <3>4, <3>5 DEF InstructionAt
  <2>4. CASE k > 2 * s + 2 * c + 1
    <3>1. I[k] = E[k - n]  BY <1>3, <1>m, <1>n, <1>22, <2>4
    <3>2. k # 1 /\ ~(k <= 2 * s + 1) /\ ~(k <= 2 * s + 2 * c + 1)  BY <1>3, <1>m, <1>n, <2>4
    <3>3. k = 2 * s + 2 * c + 2 \/ k = 2 * s + 2 * c + 3 \/ k = 2 * s + 2 * c + 4  BY <1>3, <1>m, <1>n, <2>4
    <3>4. I[k] = IF k = 2 * s + 2 * c + 2 THEN Instr("exit", 0)
                 ELSE IF k = 2 * s + 2 * c + 3 THEN Instr("sync", 0) ELSE Branch
      <4>1. CASE k = 2 * s + 2 * c + 2
        <5>1. k - n = 1  BY <4>1, <1>3, <1>m, <1>n
        <5>. QED  BY <4>1, <5>1, <3>1, <1>15
      <4>2. CASE k = 2 * s + 2 * c + 3
        <5>1. k - n = 2 /\ k # 2 * s + 2 * c + 2  BY <4>2, <1>3, <1>m, <1>n
        <5>. QED  BY <4>2, <5>1, <3>1, <1>15
      <4>3. CASE k = 2 * s + 2 * c + 4
        <5>1. k - n = 3 /\ k # 2 * s + 2 * c + 2 /\ k # 2 * s + 2 * c + 3
          BY <4>3, <1>3, <1>m, <1>n
        <5>. QED  BY <5>1, <3>1, <1>15
      <4>. QED  BY <3>3, <4>1, <4>2, <4>3
    <3>. QED  BY <1>1, <1>2, <3>2, <3>4 DEF InstructionAt
  <2>. QED  BY <1>3, <1>m, <1>n, <2>1, <2>2, <2>3, <2>4
<1>26. Needed(code) + 1 = n + 3  BY <1>23
<1>27. Len(I) = n + 3  BY <1>22
<1>28. Needed(code) \in Nat /\ Needed(code) >= 3  BY <1>23
<1>29. Len(Instructions(code)) = Needed(code) + 1  BY <1>24, <1>26, <1>27
<1>30. \A k \in 1 .. Needed(code) + 1 : Instructions(code)[k] = InstructionAt(code, k)
  BY <1>24, <1>25, <1>26
<1>. QED  BY <1>28, <1>29, <1>30

LEMMA TableShape ==
    ASSUME NEW code, IsFunction(code), HasRoom(code),
           NEW r, r = FirstBpt(code) % 4, NEW n, n = Needed(code) + 1
    PROVE  /\ r \in 1 .. 3 /\ n \in Nat \ {0} /\ n >= 4
           /\ Len(Table(code)) = WordOf(r, n) + 1
           /\ DOMAIN Table(code) = 1 .. WordOf(r, n) + 1
           /\ \A i \in 1 .. WordOf(r, n) + 1 : Table(code)[i] =
                 IF (i - 1) % 4 = 4 - r THEN Control
                 ELSE Instructions(code)[i - ((i + r - 1) \div 4)]
<1>1. r \in 1 .. 3  BY TableBegins
<1>2. n \in Nat \ {0} /\ n >= 4 /\ Len(Instructions(code)) = n  BY InstructionsListed
<1>3. ASSUME NEW j \in Nat  PROVE IsSteered(code, j) <=> j % 4 = 4 - r
  BY <1>1 DEF IsSteered
<1>4. ASSUME NEW i \in Nat  PROVE Placed(code, i) = i - ((i + r - 1) \div 4)
  <2>1. Placed(code, i) = Cardinality({j \in 0 .. i - 1 : ~(j % 4 = 4 - r)})
    <3>1. {j \in 0 .. i - 1 : ~IsSteered(code, j)} = {j \in 0 .. i - 1 : ~(j % 4 = 4 - r)}
      <4>1. \A j \in 0 .. i - 1 : j \in Nat  OBVIOUS
      <4>. QED  BY <4>1, <1>3
    <3>. QED  BY <3>1 DEF Placed
  <2>. QED  BY <2>1, <1>1, PlacedCount
<1>5. PICK w \in Nat : w = WordOf(r, n)  BY <1>1, <1>2, WordArithmetic
<1>6. 3 * w <= 4 * (n - 1) + r - 1 /\ w % 4 # 4 - r /\ w + 1 - ((w + r) \div 4) = n
  BY <1>1, <1>2, <1>5, WordArithmetic
<1>. DEFINE EndsThere(m) == ~IsSteered(code, m - 1) /\ Placed(code, m) = n
            length == CHOOSE m \in 1 .. 2 * n : EndsThere(m)
            IsWord(i) == IF IsSteered(code, i - 1) THEN Control
                                                 ELSE Instructions(code)[Placed(code, i)]
<1>7. w + 1 \in 1 .. 2 * n /\ EndsThere(w + 1)
  <2>1. w + 1 \in 1 .. 2 * n
    <3>1. 3 * w <= 4 * (n - 1) + r - 1  BY <1>6
    <3>. QED  BY <3>1, <1>1, <1>2
  <2>2. ~IsSteered(code, w)  BY <1>3, <1>6
  <2>3. w + 1 + r - 1 = w + r  BY <1>1
  <2>4. Placed(code, w + 1) = n  BY <2>3, <1>4, <1>6
  <2>5. w + 1 - 1 = w  OBVIOUS
  <2>. QED  BY <2>1, <2>2, <2>4, <2>5
<1>8. ASSUME NEW m \in 1 .. 2 * n, EndsThere(m)  PROVE m = w + 1
  <2>1. PICK v \in Nat : m = v + 1  BY <1>2
  <2>2. m - 1 = v /\ m + r - 1 = v + r  BY <2>1, <1>1
  <2>3. v % 4 # 4 - r  BY <1>3, <1>8, <2>2
  <2>4. v + 1 - ((v + r) \div 4) = n
    <3>1. m \in Nat  BY <1>2
    <3>. QED  BY <3>1, <1>4, <1>8, <2>1, <2>2
  <2>5. WordOf(r, n) = v  BY <2>3, <2>4, <1>1, InstructionOfWord
  <2>. QED  BY <2>1, <2>5, <1>5
<1>9. length = w + 1
  <2>. HIDE DEF EndsThere
  <2>. QED  BY <1>7, <1>8
<1>10. Table(code) = [i \in 1 .. length |-> IsWord(i)]
  BY <1>2 DEF Table
<1>11. Table(code) \in [1 .. w + 1 -> {IsWord(i) : i \in 1 .. w + 1}]
  <2>. HIDE DEF IsWord, length
  <2>. QED  BY <1>9, <1>10
<1>12. Len(Table(code)) = w + 1 /\ DOMAIN Table(code) = 1 .. w + 1
  <2>. HIDE DEF IsWord
  <2>1. w + 1 \in Nat  OBVIOUS
  <2>. QED  BY <2>1, <1>11, FunctionIsSequence
<1>13. ASSUME NEW i \in 1 .. w + 1
       PROVE  Table(code)[i] = IF (i - 1) % 4 = 4 - r THEN Control
                               ELSE Instructions(code)[i - ((i + r - 1) \div 4)]
  <2>1. Table(code)[i] = IsWord(i)
    <3>. HIDE DEF IsWord, length
    <3>. QED  BY <1>9, <1>10
  <2>2. i \in Nat /\ i - 1 \in Nat  OBVIOUS
  <2>3. IsSteered(code, i - 1) <=> (i - 1) % 4 = 4 - r  BY <2>2, <1>3
  <2>4. Placed(code, i) = i - ((i + r - 1) \div 4)  BY <2>2, <1>4
  <2>. QED  BY <2>1, <2>3, <2>4
<1>. QED  BY <1>1, <1>2, <1>5, <1>12, <1>13

\* The address of instruction k of a table.
Place(code, k) == FirstBpt(code) + WordOf(FirstBpt(code) % 4, k)

\* A table from its first to its last address.
TableLies(code) ==
    /\ Needed(code) \in Nat /\ Needed(code) >= 3 /\ FirstBpt(code) \in Nat \ {0}
    /\ Len(Table(code)) \in Nat /\ DOMAIN Table(code) = 1 .. Len(Table(code))
    /\ Place(code, 1) = FirstBpt(code)
    /\ Place(code, Needed(code) + 1) = FirstBpt(code) + Len(Table(code)) - 1
    /\ 3 * Len(Table(code)) <= 4 * Needed(code) + 5
    /\ \A k \in 1 .. Needed(code) + 1 :
          /\ Place(code, k) \in Nat /\ ~IsControl(Place(code, k))
          /\ Place(code, k) >= FirstBpt(code)
          /\ Place(code, k) <= FirstBpt(code) + Len(Table(code)) - 1
          /\ Table(code)[Place(code, k) - FirstBpt(code) + 1] = InstructionAt(code, k)
          /\ Skip(Place(code, k) + 1) = Place(code, k + 1)
    /\ \A i \in 1 .. Len(Table(code)) :
          /\ IsControl(Address(code, i)) => Table(code)[i] = Control
          /\ ~IsControl(Address(code, i)) =>
                \E k \in 1 .. Needed(code) + 1 : Place(code, k) = Address(code, i)

LEMMA TablePlaces ==
    ASSUME NEW code, IsFunction(code), HasRoom(code)
    PROVE  TableLies(code)
<1>1. PICK f \in Nat \ {0} : f = FirstBpt(code)  BY TableBegins
<1>2. PICK r : r = FirstBpt(code) % 4  OBVIOUS
<1>3. PICK n : n = Needed(code) + 1  OBVIOUS
<1>4. r \in 1 .. 3 /\ n \in Nat \ {0} /\ n >= 4  BY <1>2, <1>3, TableShape
<1>5. PICK w \in Nat : w = WordOf(r, n)  BY <1>4, WordArithmetic
<1>6. Len(Table(code)) = w + 1 /\ DOMAIN Table(code) = 1 .. w + 1
  BY <1>2, <1>3, <1>5, TableShape
<1>7. ASSUME NEW i \in 1 .. w + 1
      PROVE  Table(code)[i] = IF (i - 1) % 4 = 4 - r THEN Control
                              ELSE Instructions(code)[i - ((i + r - 1) \div 4)]
  <2>1. \A j \in 1 .. WordOf(r, n) + 1 :
           Table(code)[j] = IF (j - 1) % 4 = 4 - r THEN Control
                            ELSE Instructions(code)[j - ((j + r - 1) \div 4)]
    <3>1. PICK r0, n0 : r0 = FirstBpt(code) % 4 /\ n0 = Needed(code) + 1  OBVIOUS
    <3>2. \A j \in 1 .. WordOf(r0, n0) + 1 :
             Table(code)[j] = IF (j - 1) % 4 = 4 - r0 THEN Control
                              ELSE Instructions(code)[j - ((j + r0 - 1) \div 4)]
      BY <3>1, TableShape, SMTT(30)
    <3>3. r0 = r /\ n0 = n  BY <3>1, <1>2, <1>3
    <3>. QED  BY <3>2, <3>3, Zenon
  <2>2. i \in 1 .. WordOf(r, n) + 1  BY <1>5
  <2>. QED  BY <2>1, <2>2, Zenon
<1>8. ASSUME NEW k \in Nat  PROVE Place(code, k) = f + WordOf(r, k)  BY <1>1, <1>2 DEF Place
<1>9. PICK q \in Nat : f = 4 * q + r
  <2>1. f = 4 * (f \div 4) + (f % 4) /\ f \div 4 \in Nat  OBVIOUS
  <2>. QED  BY <2>1, <1>1, <1>2
<1>10. ASSUME NEW v \in Nat  PROVE IsControl(f + v) <=> v % 4 = 4 - r
  <2>1. PICK t : t = f + v  OBVIOUS
  <2>2. t = 4 * q + (r + v)  BY <2>1, <1>9, <1>4
  <2>3. t % 4 = 0 <=> v % 4 = 4 - r  BY <2>2, <1>4
  <2>. QED  BY <2>1, <2>3 DEF IsControl
<1>11. ASSUME NEW k \in 1 .. n
       PROVE  /\ Place(code, k) \in Nat /\ ~IsControl(Place(code, k))
              /\ Place(code, k) >= f /\ Place(code, k) <= f + w
              /\ Table(code)[Place(code, k) - f + 1] = InstructionAt(code, k)
              /\ Skip(Place(code, k) + 1) = Place(code, k + 1)
  <2>1. k \in Nat \ {0} /\ k + 1 \in Nat  BY <1>4
  <2>2. PICK v \in Nat : v = WordOf(r, k)  BY <2>1, <1>4, WordArithmetic
  <2>3. v % 4 # 4 - r /\ v + 1 - ((v + r) \div 4) = k  BY <2>1, <2>2, <1>4, WordArithmetic
  <2>4. Place(code, k) = f + v  BY <2>1, <2>2, <1>8
  <2>5. v <= w
    <3>1. CASE k = n  BY <3>1, <2>2, <1>5
    <3>2. CASE k < n
      <4>1. WordOf(r, k) < WordOf(r, n)  BY <3>2, <2>1, <1>4, WordsAscend
      <4>. QED  BY <4>1, <2>2, <1>5
    <3>. QED  BY <3>1, <3>2, <1>4
  <2>6. ~IsControl(Place(code, k))  BY <2>3, <2>4, <1>10
  <2>7. Table(code)[v + 1] = Instructions(code)[k]
    <3>1. PICK i \in Nat : i = v + 1  OBVIOUS
    <3>2. i \in 1 .. w + 1 /\ i - 1 = v /\ i + r - 1 = v + r  BY <3>1, <2>5, <1>4
    <3>a. (i + r - 1) \div 4 = (v + r) \div 4  BY <3>2, <1>4
    <3>3. i - ((i + r - 1) \div 4) = k  BY <3>1, <3>a, <2>3, <1>4
    <3>4. (i - 1) % 4 # 4 - r  BY <3>2, <2>3
    <3>. QED  BY <3>1, <3>2, <3>3, <3>4, <1>7
  <2>8. Instructions(code)[k] = InstructionAt(code, k)  BY <1>3, InstructionsListed
  <2>9. Place(code, k) - f + 1 = v + 1  BY <2>4
  <2>10. Skip(f + v + 1) = Place(code, k + 1)
    <3>1. IsControl(f + (v + 1)) <=> (v + 1) % 4 = 4 - r  BY <1>10
    <3>2. WordOf(r, k + 1) = IF (v + 1) % 4 = 4 - r THEN v + 2 ELSE v + 1
      BY <2>1, <2>2, <1>4, WordArithmetic
    <3>3. Place(code, k + 1) = f + WordOf(r, k + 1)  BY <2>1, <1>8
    <3>4. f + (v + 1) = f + v + 1 /\ f + v + 1 + 1 = f + (v + 2)  OBVIOUS
    <3>5. CASE (v + 1) % 4 = 4 - r
      <4>1. IsControl(f + v + 1)  BY <3>1, <3>4, <3>5
      <4>2. Skip(f + v + 1) = f + v + 1 + 1  BY <4>1 DEF Skip
      <4>. QED  BY <4>2, <3>2, <3>3, <3>4, <3>5
    <3>6. CASE (v + 1) % 4 # 4 - r
      <4>1. ~IsControl(f + v + 1)  BY <3>1, <3>4, <3>6
      <4>2. Skip(f + v + 1) = f + v + 1  BY <4>1 DEF Skip
      <4>. QED  BY <4>2, <3>2, <3>3, <3>4, <3>6
    <3>. QED  BY <3>5, <3>6
  <2>. QED  BY <2>4, <2>5, <2>6, <2>7, <2>8, <2>9, <2>10
<1>12. ASSUME NEW i \in 1 .. w + 1
       PROVE  /\ IsControl(Address(code, i)) => Table(code)[i] = Control
              /\ ~IsControl(Address(code, i)) => \E k \in 1 .. n : Place(code, k) = Address(code, i)
  <2>1. PICK v \in Nat : i = v + 1  OBVIOUS
  <2>2. Address(code, i) = f + v  BY <2>1, <1>1 DEF Address
  <2>3. v <= w /\ i - 1 = v /\ i + r - 1 = v + r  BY <2>1, <1>4
  <2>4. IsControl(Address(code, i)) => Table(code)[i] = Control
    BY <2>2, <2>3, <1>7, <1>10
  <2>5. ASSUME ~IsControl(Address(code, i))
        PROVE  \E k \in 1 .. n : Place(code, k) = Address(code, i)
    <3>1. v % 4 # 4 - r  BY <2>2, <2>5, <1>10
    <3>2. PICK k : k = v + 1 - ((v + r) \div 4)  OBVIOUS
    <3>3. k \in Nat \ {0} /\ WordOf(r, k) = v  BY <3>1, <3>2, <1>4, InstructionOfWord
    <3>4. k <= n
      <4>. SUFFICES ASSUME n < k  PROVE FALSE  BY <3>3, <1>4
      <4>1. WordOf(r, n) < WordOf(r, k)  BY <3>3, <1>4, WordsAscend
      <4>. QED  BY <4>1, <3>3, <1>5, <2>3
    <3>5. Place(code, k) = f + v  BY <3>3, <1>8
    <3>. QED  BY <3>3, <3>4, <3>5, <2>2, <1>4
  <2>. QED  BY <2>4, <2>5
<1>13. Place(code, 1) = f
  <2>1. (1 + r - 2) \div 3 = 0  BY <1>4
  <2>2. WordOf(r, 1) = 0  BY <2>1 DEF WordOf
  <2>. QED  BY <2>2, <1>8
<1>14. Place(code, n) = f + (w + 1) - 1  BY <1>4, <1>5, <1>8
<1>15. 3 * (w + 1) <= 4 * Needed(code) + 5
  <2>1. 3 * w <= 4 * (n - 1) + r - 1  BY <1>4, <1>5, WordArithmetic
  <2>2. n = Needed(code) + 1 /\ Needed(code) \in Nat  BY <1>3, InstructionsListed
  <2>. QED  BY <2>1, <2>2, <1>4
<1>16. Needed(code) \in Nat /\ Needed(code) >= 3  BY InstructionsListed
<1>17. f + w = f + (w + 1) - 1  OBVIOUS
<1>. QED  BY <1>1, <1>3, <1>6, <1>11, <1>12, <1>13, <1>14, <1>15, <1>16, <1>17 DEF TableLies

-----------------------------------------------------------------------------
(***************************************************************************)
(* TablesFit.                                                              *)
(***************************************************************************)
LEMMA TableInstructionsAreNoControl ==
    ASSUME NEW code, NEW k  PROVE InstructionAt(code, k) # Control
BY DEF InstructionAt, Instr, Control, Branch

LEMMA ControlIsInPlace ==
    ASSUME NEW code, IsFunction(code), HasRoom(code)
    PROVE  ControlInPlace(code)
<1>1. TableLies(code)  BY TablePlaces
<1>2. ASSUME NEW i \in DOMAIN Table(code)
      PROVE  (Table(code)[i] = Control) <=> IsControl(Address(code, i))
  <2>1. i \in 1 .. Len(Table(code))  BY <1>1 DEF TableLies
  <2>2. IsControl(Address(code, i)) => Table(code)[i] = Control
    BY <1>1, <2>1 DEF TableLies
  <2>3. ASSUME ~IsControl(Address(code, i))  PROVE Table(code)[i] # Control
    <3>1. PICK k \in 1 .. Needed(code) + 1 : Place(code, k) = Address(code, i)
      BY <1>1, <2>1, <2>3 DEF TableLies
    <3>2. Table(code)[Place(code, k) - FirstBpt(code) + 1] = InstructionAt(code, k)
      BY <1>1 DEF TableLies
    <3>3. Place(code, k) - FirstBpt(code) + 1 = i
      <4>1. FirstBpt(code) \in Nat /\ i \in Int  BY <1>1, <2>1 DEF TableLies
      <4>. QED  BY <4>1, <3>1 DEF Address
    <3>. QED  BY <3>2, <3>3, TableInstructionsAreNoControl
  <2>. QED  BY <2>2, <2>3
<1>. QED  BY <1>2 DEF ControlInPlace

LEMMA TableFitsBuffer ==
    ASSUME NEW code, IsFunction(code), HasRoom(code)
    PROVE  FitsBuffer(code)
<1>1. PICK n \in Nat : n = Needed(code)  BY TablePlaces DEF TableLies
<1>2. PICK l \in Nat : l = Len(Table(code))  BY TablePlaces DEF TableLies
<1>3. 3 * l <= 4 * n + 5  BY <1>1, <1>2, TablePlaces DEF TableLies
<1>4. l <= n + (n \div 3) + 2  BY <1>3
<1>. QED  BY <1>1, <1>2, <1>4 DEF FitsBuffer, BufferSize

\* No address that is no control word lies in the table and is no breakpoint, if
\* there is more room than is asked for.
LEMMA TableStaysInRoom ==
    ASSUME NEW code, IsFunction(code), HasRoom(code), Room(code) > Needed(code),
           NEW a \in DOMAIN code, ~IsControl(a),
           FirstBpt(code) <= a, a <= FirstBpt(code) + Len(Table(code)) - 1
    PROVE  code[a].op = "bpt"
<1>. DEFINE f == FirstBpt(code)
            l == Len(Table(code))
            n == Needed(code)
            Ending == {b \in DOMAIN code : b > f /\ ~IsControl(b) /\ code[b].op # "bpt"}
            Words(m) == {b \in f .. m : ~IsControl(b)}
<1>1. TableLies(code)  BY TablePlaces
<1>2. f \in Nat \ {0} /\ code[f].op = "bpt" /\ At(code, "bpt") # {}  BY TableBegins
<1>3. n \in Nat /\ l \in Nat  BY <1>1 DEF TableLies
<1>4. DOMAIN code \subseteq Nat  BY CodeAddresses
<1>5. Ending \subseteq Nat /\ Ending # {}
  <2>1. \E b \in DOMAIN code : b > f /\ ~IsControl(b) /\ code[b].op # "bpt"
    BY <1>2 DEF IsFunction
  <2>. QED  BY <2>1, <1>4
<1>6. PICK e \in Nat : e = Min(Ending)
  <2>. HIDE DEF Ending
  <2>. QED  BY <1>5, MinIsLeast
<1>7. e \in Ending /\ \A b \in Ending : e <= b
  <2>. HIDE DEF Ending
  <2>. QED  BY <1>5, <1>6, MinIsLeast
<1>8. Room(code) = Cardinality(Words(e - 1))
  <2>1. f # 0  BY <1>2
  <2>. QED  BY <2>1, <1>6 DEF Room
<1>. SUFFICES ASSUME code[a].op # "bpt"  PROVE FALSE  OBVIOUS
<1>9. a \in Ending  BY <1>2, <1>4
<1>10. e <= f + l - 1  BY <1>3, <1>2, <1>4, <1>7, <1>9
\* So the table holds a word more than the room: as many as its instructions.
<1>11. IsFiniteSet(Words(e - 1)) /\ Words(e - 1) \cup {e} \in SUBSET Words(f + l - 1)
       /\ e \notin Words(e - 1) /\ IsFiniteSet(Words(f + l - 1))
  <2>a. f \in Int /\ f + l - 1 \in Int  BY <1>2, <1>3
  <2>b. \A b \in f .. e - 1 : b \in f .. f + l - 1  BY <1>2, <1>3, <1>6, <1>10
  <2>1. f .. e - 1 \in SUBSET (f .. f + l - 1) /\ IsFiniteSet(f .. f + l - 1)
    <3>. HIDE DEF f, l
    <3>. QED  BY <2>a, <2>b, FS_Interval
  <2>2. Words(e - 1) \in SUBSET Words(f + l - 1) /\ Words(f + l - 1) \in SUBSET (f .. f + l - 1)
    BY <2>1
  <2>3. e \in Words(f + l - 1) /\ e \notin Words(e - 1)
    BY <1>2, <1>3, <1>6, <1>7, <1>10
  <2>. HIDE DEF Words
  <2>4. IsFiniteSet(Words(f + l - 1))  BY <2>1, <2>2, FS_Subset
  <2>5. IsFiniteSet(Words(e - 1))  BY <2>2, <2>4, FS_Subset
  <2>. QED  BY <2>2, <2>3, <2>4, <2>5
<1>12. Cardinality(Words(f + l - 1)) >= Room(code) + 1
  <2>. HIDE DEF Words, f, l
  <2>1. Cardinality(Words(e - 1) \cup {e}) = Cardinality(Words(e - 1)) + 1
    BY <1>11, FS_AddElement
  <2>2. Cardinality(Words(e - 1) \cup {e}) <= Cardinality(Words(f + l - 1))
    BY <1>11, FS_Subset
  <2>3. Cardinality(Words(e - 1)) \in Nat /\ Cardinality(Words(f + l - 1)) \in Nat
    BY <1>11, FS_CardinalityType
  <2>. QED  BY <2>1, <2>2, <2>3, <1>8
<1>13. Cardinality(Words(f + l - 1)) <= n + 1
  <2>. DEFINE At1 == [k \in 1 .. n + 1 |-> Place(code, k)]
  <2>1. At1 \in [1 .. n + 1 -> Words(f + l - 1)]
    BY <1>1, <1>2, <1>3 DEF TableLies
  <2>2. ASSUME NEW b \in Words(f + l - 1)  PROVE \E k \in 1 .. n + 1 : At1[k] = b
    <3>1. PICK i : i = b - f + 1  OBVIOUS
    <3>2. i \in 1 .. l /\ Address(code, i) = b  BY <3>1, <1>2, <1>3 DEF Address
    <3>3. ~IsControl(b)  OBVIOUS
    <3>. QED  BY <3>2, <3>3, <1>1 DEF TableLies
  <2>. HIDE DEF At1, Words, f, l, n
  <2>3. At1 \in Surjection(1 .. n + 1, Words(f + l - 1))
    BY <2>1, <2>2 DEF Surjection
  <2>4. IsFiniteSet(1 .. n + 1) /\ Cardinality(1 .. n + 1) = n + 1
    BY <1>3, FS_Interval
  <2>. QED  BY <2>3, <2>4, FS_Surjection
<1>14. Room(code) \in Nat
  <2>. HIDE DEF Words
  <2>. QED  BY <1>8, <1>11, FS_CardinalityType
<1>15. Cardinality(Words(f + l - 1)) \in Nat
  <2>. HIDE DEF Words, f, l
  <2>. QED  BY <1>11, FS_CardinalityType
<1>. QED  BY <1>3, <1>12, <1>13, <1>14, <1>15

LEMMA BreakpointsReplaced ==
    ASSUME NEW code, IsFunction(code), HasRoom(code)
    PROVE  ReplacesBreakpoints(code)
<1>1. PICK p : p = Patched(code)  OBVIOUS
<1>2. TableLies(code)  BY TablePlaces
<1>. SUFFICES ASSUME Room(code) > Needed(code), NEW a \in DOMAIN code, p[a] # code[a]
              PROVE  code[a].op = "bpt"
  BY <1>1 DEF ReplacesBreakpoints
<1>3. PICK f \in Nat : f = FirstBpt(code)  BY <1>2 DEF TableLies
<1>4. PICK l \in Nat : l = Len(Table(code))  BY <1>2 DEF TableLies
<1>5. a \in Nat  BY CodeAddresses
<1>6. p[a] = IF a \in f .. f + l - 1 THEN Table(code)[a - f + 1] ELSE code[a]
  BY <1>1, <1>3, <1>4 DEF Patched
<1>7. f <= a /\ a <= f + l - 1 /\ p[a] = Table(code)[a - f + 1]  BY <1>3, <1>4, <1>5, <1>6
<1>8. ~IsControl(a)
  <2>. SUFFICES ASSUME IsControl(a)  PROVE FALSE  OBVIOUS
  <2>1. code[a] = Control  BY CodeWords
  <2>2. a - f + 1 \in 1 .. l /\ Address(code, a - f + 1) = a
    BY <1>3, <1>4, <1>5, <1>7 DEF Address
  <2>3. Table(code)[a - f + 1] = Control  BY <2>2, <1>2, <1>4 DEF TableLies
  <2>. QED  BY <2>1, <2>3, <1>7
<1>. QED  BY <1>3, <1>4, <1>7, <1>8, TableStaysInRoom

-----------------------------------------------------------------------------
(***************************************************************************)
(* Where the entries of a table are.                                       *)
(***************************************************************************)
LEMMA InstrFields ==
    ASSUME NEW op, NEW to
    PROVE  /\ Instr(op, to).op = op /\ Instr(op, to).to = to
           /\ Instr(op, to) = Instr(Instr(op, to).op, Instr(op, to).to)
BY DEF Instr

LEMMA BranchFields == Branch.op = "brx" /\ Branch = Instr(Branch.op, Branch.to)
BY DEF Branch, Instr

LEMMA InstructionKinds ==
    ASSUME NEW code, IsFunction(code), NEW k \in 1 .. Needed(code) + 1
    PROVE  /\ InstructionAt(code, k) = Instr(InstructionAt(code, k).op, InstructionAt(code, k).to)
           /\ InstructionAt(code, 1) = Branch /\ InstructionAt(code, Needed(code) + 1) = Branch
           /\ InstructionAt(code, k).op = "exit" <=> k = Needed(code) - 1
           /\ InstructionAt(code, k).op = "sync" <=> k = Needed(code)
           /\ InstructionAt(code, k).op = "ssy" =>
                 k < Needed(code) /\ InstructionAt(code, k + 1) = Branch
           /\ InstructionAt(code, k).op = "pret" =>
                 k < Needed(code) /\ InstructionAt(code, k + 1) = Instr("jmx", 0)
<1>1. PICK s \in Nat : s = Cardinality(At(code, "ssy"))  BY CodeAddresses
<1>2. PICK c \in Nat : c = Cardinality(At(code, "cal"))  BY CodeAddresses
<1>3. PICK n : n = Needed(code)  OBVIOUS
<1>4. n = 2 * s + 2 * c + 3  BY <1>1, <1>2, <1>3 DEF Needed
<1>. DEFINE I(j) == IF j = 1 THEN Branch
        ELSE IF j <= 2 * s + 1
        THEN IF j % 2 = 0 THEN Instr("ssy", Destinations(code, "ssy")[j \div 2]) ELSE Branch
        ELSE IF j <= 2 * s + 2 * c + 1
        THEN IF j % 2 = 0 THEN Instr("pret", Destinations(code, "cal")[(j - 2 * s) \div 2])
                          ELSE Instr("jmx", 0)
        ELSE IF j = 2 * s + 2 * c + 2 THEN Instr("exit", 0)
        ELSE IF j = 2 * s + 2 * c + 3 THEN Instr("sync", 0) ELSE Branch
<1>5. \A j : InstructionAt(code, j) = I(j)  BY <1>1, <1>2 DEF InstructionAt
<1>6. k \in Nat \ {0} /\ k <= n + 1  BY <1>3, <1>4
<1>. SUFFICES /\ I(k) = Instr(I(k).op, I(k).to)
              /\ I(1) = Branch /\ I(n + 1) = Branch
              /\ I(k).op = "exit" <=> k = n - 1
              /\ I(k).op = "sync" <=> k = n
              /\ I(k).op = "ssy" => k < n /\ I(k + 1) = Branch
              /\ I(k).op = "pret" => k < n /\ I(k + 1) = Instr("jmx", 0)
  <2>. HIDE DEF I
  <2>. QED  BY <1>3, <1>5
<1>7. I(1) = Branch /\ I(n + 1) = Branch  BY <1>4
<1>. DEFINE Kind == /\ I(k) = Instr(I(k).op, I(k).to)
                    /\ I(k).op = "exit" <=> k = n - 1
                    /\ I(k).op = "sync" <=> k = n
                    /\ I(k).op = "ssy" => k < n /\ I(k + 1) = Branch
                    /\ I(k).op = "pret" => k < n /\ I(k + 1) = Instr("jmx", 0)
<1>. SUFFICES Kind
  <2>. HIDE DEF I
  <2>. QED  BY <1>7
<1>8. CASE k = 1
  <2>1. I(k) = Branch /\ k # n - 1 /\ k # n  BY <1>4, <1>7, <1>8
  <2>. HIDE DEF I
  <2>. QED  BY <2>1, BranchFields
<1>9. CASE k # 1 /\ k <= 2 * s + 1 /\ k % 2 = 0
  <2>1. (k + 1) % 2 # 0 /\ k + 1 <= 2 * s + 1 /\ k + 1 # 1  BY <1>6, <1>9
  <2>2. I(k + 1) = Branch  BY <2>1
  <2>3. I(k) = Instr("ssy", Destinations(code, "ssy")[k \div 2])  BY <1>9
  <2>4. k < n - 1  BY <1>4, <1>6, <1>9
  <2>5. k # n - 1 /\ k # n /\ k < n  BY <2>4, <1>4, <1>6
  <2>. HIDE DEF I
  <2>. QED  BY <2>2, <2>3, <2>5, InstrFields
<1>10. CASE k # 1 /\ k <= 2 * s + 1 /\ k % 2 # 0
  <2>1. I(k) = Branch  BY <1>10
  <2>2. k < n - 1  BY <1>4, <1>6, <1>10
  <2>5. k # n - 1 /\ k # n /\ k < n  BY <2>2, <1>4, <1>6
  <2>. HIDE DEF I
  <2>. QED  BY <2>1, <2>5, BranchFields
<1>11. CASE k > 2 * s + 1 /\ k <= 2 * s + 2 * c + 1 /\ k % 2 = 0
  <2>1. (k + 1) % 2 # 0 /\ k + 1 <= 2 * s + 2 * c + 1 /\ k + 1 # 1 /\ k # 1
        /\ ~(k + 1 <= 2 * s + 1) /\ ~(k <= 2 * s + 1)
    BY <1>6, <1>11
  <2>2. I(k + 1) = Instr("jmx", 0)  BY <2>1
  <2>3. I(k) = Instr("pret", Destinations(code, "cal")[(k - 2 * s) \div 2])  BY <1>11, <2>1
  <2>4. k < n - 1  BY <1>4, <1>6, <1>11
  <2>5. k # n - 1 /\ k # n /\ k < n  BY <2>4, <1>4, <1>6
  <2>. HIDE DEF I
  <2>. QED  BY <2>2, <2>3, <2>5, InstrFields
<1>12. CASE k > 2 * s + 1 /\ k <= 2 * s + 2 * c + 1 /\ k % 2 # 0
  <2>1. k # 1 /\ ~(k <= 2 * s + 1)  BY <1>6, <1>12
  <2>2. I(k) = Instr("jmx", 0)  BY <1>12, <2>1
  <2>3. k < n - 1  BY <1>4, <1>6, <1>12
  <2>5. k # n - 1 /\ k # n /\ k < n  BY <2>3, <1>4, <1>6
  <2>. HIDE DEF I
  <2>. QED  BY <2>2, <2>5, InstrFields
<1>13. CASE k > 2 * s + 2 * c + 1
  <2>1. k # 1 /\ ~(k <= 2 * s + 1) /\ ~(k <= 2 * s + 2 * c + 1)
        /\ (k = n - 1 \/ k = n \/ k = n + 1)
    BY <1>4, <1>6, <1>13
  <2>2. I(k) = IF k = n - 1 THEN Instr("exit", 0) ELSE IF k = n THEN Instr("sync", 0) ELSE Branch
    BY <1>4, <1>6, <2>1
  <2>3. n - 1 # n /\ n + 1 # n /\ n + 1 # n - 1  BY <1>4
  <2>. HIDE DEF I
  <2>4. CASE k = n - 1  BY <2>2, <2>3, <2>4, InstrFields
  <2>5. CASE k = n  BY <2>2, <2>3, <2>5, InstrFields
  <2>6. CASE k = n + 1  BY <2>2, <2>3, <2>6, BranchFields
  <2>. QED  BY <2>1, <2>4, <2>5, <2>6
<1>. HIDE DEF Kind
<1>. QED  BY <1>6, <1>8, <1>9, <1>10, <1>11, <1>12, <1>13

\* Every region and every call has an entry.
LEMMA EntriesExist ==
    ASSUME NEW code, IsFunction(code)
    PROVE  /\ \A a \in At(code, "ssy") : \E k \in 1 .. Needed(code) + 1 :
                 InstructionAt(code, k) = Instr("ssy", code[a].to)
           /\ \A a \in At(code, "cal") : \E k \in 1 .. Needed(code) + 1 :
                 InstructionAt(code, k) = Instr("pret", code[a].to)
<1>1. PICK s \in Nat : s = Cardinality(At(code, "ssy"))  BY CodeAddresses
<1>2. PICK c \in Nat : c = Cardinality(At(code, "cal"))  BY CodeAddresses
<1>3. PICK n : n = Needed(code)  OBVIOUS
<1>4. n = 2 * s + 2 * c + 3  BY <1>1, <1>2, <1>3 DEF Needed
<1>5. ASSUME NEW a \in At(code, "ssy")
      PROVE  \E k \in 1 .. Needed(code) + 1 : InstructionAt(code, k) = Instr("ssy", code[a].to)
  <2>1. PICK i \in 1 .. s : Destinations(code, "ssy")[i] = code[a].to
    BY <1>1, DestinationsListed
  <2>2. PICK k \in Nat : k = 2 * i  OBVIOUS
  <2>3. k # 1 /\ k <= 2 * s + 1 /\ k % 2 = 0 /\ k \div 2 = i /\ k \in 1 .. n + 1
    BY <2>2, <1>4
  <2>4. InstructionAt(code, k) = Instr("ssy", Destinations(code, "ssy")[k \div 2])
    BY <2>3, <1>1 DEF InstructionAt
  <2>. QED  BY <2>1, <2>3, <2>4, <1>3
<1>6. ASSUME NEW a \in At(code, "cal")
      PROVE  \E k \in 1 .. Needed(code) + 1 : InstructionAt(code, k) = Instr("pret", code[a].to)
  <2>1. PICK i \in 1 .. c : Destinations(code, "cal")[i] = code[a].to
    BY <1>2, DestinationsListed
  <2>2. PICK k \in Nat : k = 2 * s + 2 * i  OBVIOUS
  <2>3. k # 1 /\ ~(k <= 2 * s + 1) /\ k <= 2 * s + 2 * c + 1 /\ k % 2 = 0
        /\ (k - 2 * s) \div 2 = i /\ k \in 1 .. n + 1
    BY <2>2, <1>4
  <2>4. InstructionAt(code, k) = Instr("pret", Destinations(code, "cal")[(k - 2 * s) \div 2])
    BY <2>3, <1>1, <1>2 DEF InstructionAt
  <2>. QED  BY <2>1, <2>3, <2>4, <1>3
<1>. QED  BY <1>5, <1>6

\* The patched function holds the table's instructions at their places, and is
\* unchanged before them.
LEMMA PatchedPlaces ==
    ASSUME NEW code, IsFunction(code), HasRoom(code)
    PROVE  /\ \A k \in 1 .. Needed(code) + 1 :
                 /\ Place(code, k) \in DOMAIN Patched(code)
                 /\ Patched(code)[Place(code, k)] = InstructionAt(code, k)
           /\ \A a \in DOMAIN code : a < FirstBpt(code) =>
                 a \in DOMAIN Patched(code) /\ Patched(code)[a] = code[a]
           /\ \A a \in DOMAIN Patched(code) : a < FirstBpt(code) => a \in DOMAIN code
<1>1. TableLies(code)  BY TablePlaces
<1>2. PICK f \in Nat : f = FirstBpt(code)  BY <1>1 DEF TableLies
<1>3. PICK l \in Nat : l = Len(Table(code))  BY <1>1 DEF TableLies
<1>4. Patched(code) = [a \in DOMAIN code \cup f .. f + l - 1 |->
                          IF a \in f .. f + l - 1 THEN Table(code)[a - f + 1] ELSE code[a]]
  BY <1>2, <1>3 DEF Patched
<1>5. ASSUME NEW k \in 1 .. Needed(code) + 1
      PROVE  Place(code, k) \in f .. f + l - 1
             /\ Table(code)[Place(code, k) - f + 1] = InstructionAt(code, k)
  BY <1>1, <1>2, <1>3 DEF TableLies
<1>6. DOMAIN code \subseteq Nat  BY CodeAddresses
<1>. QED  BY <1>2, <1>4, <1>5, <1>6

LEMMA IndexPlaces ==
    ASSUME NEW code, IsFunction(code), HasRoom(code)
    PROVE  /\ Index(code).exit_address = Place(code, Needed(code) - 1)
           /\ Index(code).sync_address = Place(code, Needed(code))
           /\ Index(code).start_address = StartAddress(code)
           /\ Index(code).words = Table(code)
           /\ Index(code).has_ssy = (At(code, "ssy") # {})
<1>1. TableLies(code)  BY TablePlaces
<1>2. PICK n \in Nat : n = Needed(code) /\ n >= 3  BY <1>1 DEF TableLies
<1>. DEFINE words == Table(code)
            Where0(op) == Address(code, CHOOSE i \in DOMAIN words : words[i].op = op)
<1>3. Index(code) = [words |-> words, start_address |-> StartAddress(code),
                     exit_address |-> Where0("exit"), sync_address |-> Where0("sync"),
                     has_ssy |-> At(code, "ssy") # {}]
  BY DEF Index
<1>4. ASSUME NEW op, NEW k \in 1 .. n + 1, op # "control",
             \A j \in 1 .. n + 1 : InstructionAt(code, j).op = op <=> j = k
      PROVE  Where0(op) = Place(code, k)
  <2>1. PICK f \in Nat : f = FirstBpt(code)  BY <1>1 DEF TableLies
  <2>2. PICK i : i = Place(code, k) - f + 1  OBVIOUS
  <2>p. Place(code, k) \in Nat /\ Place(code, k) >= f /\ Place(code, k) <= f + Len(words) - 1
    BY <2>1, <1>1, <1>2 DEF TableLies
  <2>l. Len(words) \in Nat /\ DOMAIN words = 1 .. Len(words)  BY <1>1 DEF TableLies
  <2>i. i \in DOMAIN words
    <3>. HIDE DEF words
    <3>. QED  BY <2>1, <2>2, <2>p, <2>l
  <2>j. words[i] = InstructionAt(code, k)  BY <2>1, <2>2, <1>1, <1>2 DEF TableLies
  <2>a. Address(code, i) = Place(code, k)  BY <2>1, <2>2, <2>p DEF Address
  <2>3. i \in DOMAIN words /\ words[i] = InstructionAt(code, k) /\ Address(code, i) = Place(code, k)
    BY <2>i, <2>j, <2>a
  <2>4. words[i].op = op  BY <2>3, <1>4
  <2>5. ASSUME NEW j \in DOMAIN words, words[j].op = op  PROVE j = i
    <3>1. j \in 1 .. Len(words)  BY <1>1 DEF TableLies
    <3>2. ~IsControl(Address(code, j))
      <4>. SUFFICES ASSUME IsControl(Address(code, j))  PROVE FALSE  OBVIOUS
      <4>1. words[j] = Control  BY <3>1, <1>1 DEF TableLies
      <4>2. words[j].op = "control"  BY <4>1, InstrFields DEF Control
      <4>. QED  BY <4>2, <2>5, <1>4
    <3>3. PICK m \in 1 .. n + 1 : Place(code, m) = Address(code, j)
      BY <3>1, <3>2, <1>1, <1>2 DEF TableLies
    <3>4. Place(code, m) - f + 1 = j
      <4>1. f \in Nat /\ j \in Int  BY <2>1, <3>1, <1>1 DEF TableLies
      <4>. QED  BY <4>1, <3>3, <2>1 DEF Address
    <3>5. words[j] = InstructionAt(code, m)  BY <3>4, <2>1, <1>1, <1>2 DEF TableLies
    <3>6. m = k  BY <3>5, <2>5, <1>4
    <3>. QED  BY <3>4, <3>6, <2>2
  <2>6. (CHOOSE j \in DOMAIN words : words[j].op = op) = i
    <3>. HIDE DEF words
    <3>. QED  BY <2>3, <2>4, <2>5
  <2>. HIDE DEF words
  <2>. QED  BY <2>3, <2>6
<1>5. Where0("exit") = Place(code, n - 1)
  <2>. HIDE DEF Where0
  <2>1. n - 1 \in 1 .. n + 1 /\ "exit" # "control"  BY <1>2
  <2>2. \A j \in 1 .. n + 1 : InstructionAt(code, j).op = "exit" <=> j = n - 1
    BY <1>2, InstructionKinds
  <2>. QED  BY <2>1, <2>2, <1>4
<1>6. Where0("sync") = Place(code, n)
  <2>. HIDE DEF Where0
  <2>1. n \in 1 .. n + 1 /\ "sync" # "control"  BY <1>2
  <2>2. \A j \in 1 .. n + 1 : InstructionAt(code, j).op = "sync" <=> j = n
    BY <1>2, InstructionKinds
  <2>. QED  BY <2>1, <2>2, <1>4
<1>. HIDE DEF Where0
<1>. QED  BY <1>2, <1>3, <1>5, <1>6

\* The address that is looked up is that of an entry.
LEMMA EntryPlace ==
    ASSUME NEW code, IsFunction(code), HasRoom(code), NEW op \in {"ssy", "pret"}, NEW to,
           \E k \in 1 .. Needed(code) + 1 : InstructionAt(code, k) = Instr(op, to)
    PROVE  \E k \in 1 .. Needed(code) :
              /\ EntryAddress(code, Index(code), op, to) = Place(code, k)
              /\ InstructionAt(code, k) = Instr(op, to)
              /\ InstructionAt(code, k + 1) = IF op = "ssy" THEN Branch ELSE Instr("jmx", 0)
<1>1. TableLies(code)  BY TablePlaces
<1>2. PICK f \in Nat : f = FirstBpt(code)  BY <1>1 DEF TableLies
<1>3. PICK n \in Nat : n = Needed(code)  BY <1>1 DEF TableLies
<1>. DEFINE words == Table(code)
            entries == {i \in DOMAIN words : words[i].op = op /\ words[i].to = to}
<1>4. Index(code).words = words  BY IndexPlaces
<1>5. PICK k0 \in 1 .. n + 1 : InstructionAt(code, k0) = Instr(op, to)  BY <1>3
<1>6. entries # {} /\ entries \subseteq Nat
  <2>1. PICK i : i = Place(code, k0) - f + 1  OBVIOUS
  <2>p. Place(code, k0) \in Nat /\ Place(code, k0) >= f /\ Place(code, k0) <= f + Len(words) - 1
    BY <1>1, <1>2, <1>3 DEF TableLies
  <2>l. Len(words) \in Nat /\ DOMAIN words = 1 .. Len(words)  BY <1>1 DEF TableLies
  <2>i. i \in DOMAIN words
    <3>. HIDE DEF words
    <3>. QED  BY <2>1, <1>2, <2>p, <2>l
  <2>j. words[i] = InstructionAt(code, k0)  BY <2>1, <1>2, <1>3, <1>1 DEF TableLies
  <2>2. i \in DOMAIN words /\ words[i] = Instr(op, to)
    BY <2>i, <2>j, <1>5
  <2>3. i \in entries
    <3>. HIDE DEF words
    <3>. QED  BY <2>2, InstrFields
  <2>4. DOMAIN words \subseteq Nat  BY <1>1 DEF TableLies
  <2>. QED  BY <2>3, <2>4
<1>7. PICK i : i = Min(entries)  OBVIOUS
<1>8. i \in entries
  <2>. HIDE DEF entries
  <2>. QED  BY <1>6, <1>7, MinIsLeast
<1>9. EntryAddress(code, Index(code), op, to) = Address(code, i)
  <2>1. entries = {j \in DOMAIN Index(code).words :
                      Index(code).words[j].op = op /\ Index(code).words[j].to = to}
    BY <1>4
  <2>. HIDE DEF entries
  <2>. QED  BY <2>1, <1>6, <1>7 DEF EntryAddress
<1>10. i \in 1 .. Len(words) /\ words[i].op = op /\ words[i].to = to
  BY <1>8, <1>1 DEF TableLies
<1>11. ~IsControl(Address(code, i))
  <2>. SUFFICES ASSUME IsControl(Address(code, i))  PROVE FALSE  OBVIOUS
  <2>1. words[i] = Control  BY <1>10, <1>1 DEF TableLies
  <2>2. words[i].op = "control"  BY <2>1, InstrFields DEF Control
  <2>3. op # "control"  OBVIOUS
  <2>. HIDE DEF words
  <2>. QED  BY <2>2, <2>3, <1>10
<1>12. PICK k \in 1 .. n + 1 : Place(code, k) = Address(code, i)
  BY <1>1, <1>3, <1>10, <1>11 DEF TableLies
<1>13. Place(code, k) - f + 1 = i  BY <1>10, <1>12, <1>2, <1>1 DEF Address, TableLies
<1>14. words[i] = InstructionAt(code, k)  BY <1>13, <1>1, <1>2, <1>3 DEF TableLies
<1>. HIDE DEF words
<1>15. InstructionAt(code, k) = Instr(op, to)
  <2>1. InstructionAt(code, k) = Instr(InstructionAt(code, k).op, InstructionAt(code, k).to)
    BY <1>3, InstructionKinds
  <2>. QED  BY <2>1, <1>10, <1>14
<1>16. InstructionAt(code, k).op = op  BY <1>10, <1>14
<1>17. k < n /\ InstructionAt(code, k + 1) = IF op = "ssy" THEN Branch ELSE Instr("jmx", 0)
  <2>1. CASE op = "ssy"  BY <2>1, <1>3, <1>16, InstructionKinds
  <2>2. CASE op = "pret"
    <3>1. k < n /\ InstructionAt(code, k + 1) = Instr("jmx", 0)
      BY <2>2, <1>3, <1>16, InstructionKinds
    <3>. QED  BY <2>2, <3>1
  <2>. QED  BY <2>1, <2>2
<1>18. k \in 1 .. n  BY <1>17
<1>. QED  BY <1>3, <1>9, <1>12, <1>15, <1>17, <1>18

(* Every region and every call of a function that gets a table has its     *)
(* entry there: RRTO_elf_get_jmptable_addr finds the instruction that      *)
(* pushes that destination, behind which the hardware comes to a branch.   *)
THEOREM DestinationsHaveEntries ==
    ASSUME NEW code, IsFunction(code), HasRoom(code),
           NEW op \in {"ssy", "cal"}, NEW a \in At(code, op),
           NEW push, push = IF op = "ssy" THEN "ssy" ELSE "pret",
           NEW entry, entry = EntryAddress(code, Index(code), push, code[a].to)
    PROVE  /\ {entry, Skip(entry + 1)} \subseteq DOMAIN Patched(code)
           /\ Patched(code)[entry] = Instr(push, code[a].to)
           /\ Patched(code)[Skip(entry + 1)] = IF op = "ssy" THEN Branch ELSE Instr("jmx", 0)
<1>1. \E k \in 1 .. Needed(code) + 1 : InstructionAt(code, k) = Instr(push, code[a].to)
  BY EntriesExist
<1>2. PICK k \in 1 .. Needed(code) :
         /\ entry = Place(code, k)
         /\ InstructionAt(code, k) = Instr(push, code[a].to)
         /\ InstructionAt(code, k + 1) = IF push = "ssy" THEN Branch ELSE Instr("jmx", 0)
  <2>1. push \in {"ssy", "pret"}  OBVIOUS
  <2>. QED  BY <1>1, <2>1, EntryPlace
<1>3. TableLies(code)  BY TablePlaces
<1>4. k \in 1 .. Needed(code) + 1 /\ k + 1 \in 1 .. Needed(code) + 1
  BY <1>3 DEF TableLies
<1>5. Skip(entry + 1) = Place(code, k + 1)  BY <1>2, <1>3, <1>4 DEF TableLies
<1>6. push = "ssy" <=> op = "ssy"  OBVIOUS
<1>. QED  BY <1>2, <1>4, <1>5, <1>6, PatchedPlaces

-----------------------------------------------------------------------------
(***************************************************************************)
(* Every table fits.                                                       *)
(***************************************************************************)
LEMMA ProgramStays == Spec => [](program \in DOMAIN Programs)
<1>1. Init => program \in DOMAIN Programs  BY DEF Init
<1>2. [Next]_kvars => program' = program
  BY DEF Next, kvars, CheckpointWarp, CheckpointFails, StartRestore, RestoreFails, EnterTable,
         RestoreSsy, RestoreSubcall, EnterCalled, SetLanesAside, RestorePc, Crash, Ends
<1>3. program \in DOMAIN Programs /\ [Next]_kvars => (program \in DOMAIN Programs)'
  BY <1>2
<1>. QED  BY <1>1, <1>3, PTL DEF Spec

\* What the program keeps of a function is what its code says.
LEMMA OfProgram ==
    ASSUME program \in DOMAIN Programs, NEW fn \in DOMAIN Programs[program]
    PROVE  /\ HasTable(fn) = HasRoom(Code(fn))
           /\ JmpTbl(fn) = IF HasRoom(Code(fn)) THEN Index(Code(fn)) ELSE <<>>
           /\ NewBinary[program][fn] = Patched(Code(fn))
           /\ IsFunction(Code(fn))
<1>1. HasTable(fn) = HasRoom(Code(fn))  BY DEF HasTable, FunInfo, OfEach, Code
<1>2. JmpTbl(fn) = IF HasRoom(Code(fn)) THEN Index(Code(fn)) ELSE <<>>
  BY DEF JmpTbl, JumpTables, OfEach, Code
<1>3. NewBinary[program][fn] = Patched(Code(fn))  BY DEF NewBinary, OfEach, Code
<1>4. IsFunction(Code(fn))  BY CodeAssumption DEF Code
<1>. QED  BY <1>1, <1>2, <1>3, <1>4

\* A table has control words where the hardware skips words, fits into its buffer,
\* and replaces breakpoints only.
THEOREM TablesAlwaysFit == Spec => []TablesFit
<1>1. program \in DOMAIN Programs => TablesFit
  <2>. SUFFICES ASSUME program \in DOMAIN Programs, NEW fn \in DOMAIN Programs[program],
                       HasTable(fn)
                PROVE  TableFits[program][fn]
    BY DEF TablesFit
  <2>1. IsFunction(Code(fn)) /\ HasRoom(Code(fn))  BY OfProgram
  <2>2. ControlInPlace(Code(fn))  BY <2>1, ControlIsInPlace
  <2>3. FitsBuffer(Code(fn))  BY <2>1, TableFitsBuffer
  <2>4. ReplacesBreakpoints(Code(fn))  BY <2>1, BreakpointsReplaced
  <2>5. TableFits[program][fn]
           = (ControlInPlace(Code(fn)) /\ FitsBuffer(Code(fn)) /\ ReplacesBreakpoints(Code(fn)))
    BY DEF TableFits, OfEach, Code
  <2>. QED  BY <2>2, <2>3, <2>4, <2>5
<1>. QED  BY <1>1, ProgramStays, PTL

-----------------------------------------------------------------------------
(***************************************************************************)
(* Where warps may be.                                                     *)
(***************************************************************************)
\* A frame at a return address, as all are but the innermost.
Returns(frame) ==
    \E a \in At(Code(frame.fn), "cal") : frame.pc = a + 1
Frames == [fn : DOMAIN Programs[program], pc : Nat \ {0}]
\* A call stack; its outermost function is the kernel.
CallChain(stack) ==
    /\ stack \in Seq(Frames) /\ Len(stack) \in Nat \ {0}
    /\ stack[Len(stack)].fn = Kernel
    /\ \A j \in 2 .. Len(stack) : Returns(stack[j])
\* Where a warp may be, before and after it has been run on.
Position(pos) ==
    /\ pos \in [stack : Seq(Frames), active : SUBSET Lane, level : Nat, rest : Nat]
    /\ CallChain(pos.stack)
    /\ pos.level <= Len(pos.stack)
    /\ ~IsControl(pos.stack[1].pc)
    /\ IF pos.level = 0 THEN pos.active = Lane ELSE ~IsControl(pos.rest)

\* What is saved of a warp is its position; no function has no table but the two
\* innermost.
Saved(w) ==
    /\ warps[w] # Finished
    /\ files[w] = [stack |-> CallStack(warps[w]), active |-> warps[w].active]
    /\ NoRoom(files[w].stack) \subseteq {1, 2}
SaveInv ==
    /\ program \in DOMAIN Programs
    /\ DOMAIN warps = Warp /\ DOMAIN files = Warp
    /\ \A w \in Warp : warps[w] = Finished \/ Position(warps[w])
    /\ \A w \in Warp : files[w] = NoFile \/ Saved(w)

\* While a warp is restored its level is that of a function it was saved in, and the
\* index is that function, unless it has no table.
Restoring == {"ssy", "call", "jump", "lanes", "pc"}
LevelInv ==
    LET frame == files[next].stack[level] IN
    /\ next \in Warp /\ files[next] # NoFile
    /\ level \in 1 .. Len(files[next].stack)
    /\ status \in {"call", "jump"} => level > 1 /\ index # NoTable
    /\ status \in {"lanes", "pc"} => level = 1
    /\ IF index = NoTable THEN ~HasTable(frame.fn) ELSE index = frame.fn /\ HasTable(index)
    /\ status = "ssy" /\ index = NoTable => level > 1
WalkInv ==
    /\ next \in 0 .. Warps[program]
    /\ status \in Restoring \cup {"enter"} => HasTable(Kernel)
    /\ status \in Restoring => LevelInv
    /\ status = "crashed" => ~Restorable(warps[next])

\* The regions of a function end at addresses.
LEMMA RegionEnds ==
    ASSUME NEW code, IsFunction(code), NEW op, NEW pc
    PROVE  Region(code, op, pc) \in Nat
<1>. DEFINE before == {a \in At(code, op) : a <= pc}
<1>1. CASE before = {}  BY <1>1 DEF Region
<1>2. CASE before # {}
  <2>1. before \subseteq DOMAIN code  BY CodeAddresses
  <2>2. PICK b \in Nat : \A a \in DOMAIN code : a <= b  BY CodeAddresses
  <2>3. Region(code, op, pc) = code[Max(before)].to  BY <1>2 DEF Region
  <2>4. before \subseteq Nat /\ \A a \in before : a <= b
    <3>. HIDE DEF before
    <3>. QED  BY <2>1, <2>2, CodeAddresses
  <2>5. Max(before) \in before
    <3>. HIDE DEF before
    <3>. QED  BY <1>2, <2>4, MaxIsGreatest
  <2>6. Max(before) \in DOMAIN code
    <3>. HIDE DEF before
    <3>. QED  BY <2>1, <2>5
  <2>. QED  BY <2>3, <2>6, CodeWords
<1>. QED  BY <1>1, <1>2

\* The addresses of instructions.
Places == {a \in Nat : ~IsControl(a)}

LEMMA SkipIsPlace == ASSUME NEW a \in Nat  PROVE Skip(a) \in Places
BY DEF Skip, Places, IsControl

LEMMA PlaceIsPositive == ASSUME NEW a \in Nat, ~IsControl(a)  PROVE a \in Nat \ {0}
BY DEF IsControl

\* What is left of a call stack when the functions inside of level i return, or are
\* returned from.
LEMMA FrameOn ==
    ASSUME NEW stack, CallChain(stack), NEW i \in 1 .. Len(stack), NEW pc \in Nat \ {0}
    PROVE  LET new == <<Frame(stack[i].fn, pc)>> \o SubSeq(stack, i + 1, Len(stack))
           IN  /\ CallChain(new) /\ Len(new) = Len(stack) - i + 1
               /\ new[1] = Frame(stack[i].fn, pc)
               /\ \A j \in 2 .. Len(new) : new[j] = stack[i + j - 1]
<1>. DEFINE one == <<Frame(stack[i].fn, pc)>>
            rest == SubSeq(stack, i + 1, Len(stack))
            new == one \o rest
<1>1. PICK l \in Nat \ {0} : l = Len(stack)  BY DEF CallChain
<1>2. stack \in Seq(Frames)  BY DEF CallChain
<1>3. i \in 1 .. l  BY <1>1
<1>4. rest \in Seq(Frames) /\ Len(rest) = l - i
      /\ \A j \in 1 .. l - i : rest[j] = stack[i + j]
  BY <1>1, <1>2, <1>3
<1>5. Frame(stack[i].fn, pc) \in Frames
  <2>1. stack[i] \in Frames  BY <1>1, <1>2, <1>3
  <2>2. stack[i].fn \in DOMAIN Programs[program]  BY <2>1 DEF Frames
  <2>. QED  BY <2>2 DEF Frames, Frame
<1>6. one \in Seq(Frames) /\ Len(one) = 1 /\ one[1] = Frame(stack[i].fn, pc)  BY <1>5
<1>7. new \in Seq(Frames) /\ Len(new) = l - i + 1 /\ new[1] = Frame(stack[i].fn, pc)
      /\ \A j \in 2 .. l - i + 1 : new[j] = rest[j - 1]
  <2>. HIDE DEF one, rest
  <2>1. l - i \in Nat  BY <1>3
  <2>2. Joined(Frames, one, rest, 1, l - i)  BY <2>1, <1>4, <1>6, TwoParts
  <2>3. new \in Seq(Frames) /\ Len(new) = 1 + (l - i)
        /\ \A j \in 1 .. 1 + (l - i) : new[j] = IF j <= 1 THEN one[j] ELSE rest[j - 1]
    BY <2>2 DEF Joined
  <2>. HIDE DEF new
  <2>4. new[1] = one[1]  BY <2>1, <2>3
  <2>5. ASSUME NEW j \in 2 .. l - i + 1  PROVE new[j] = rest[j - 1]  BY <2>1, <2>3
  <2>. QED  BY <2>1, <2>3, <2>4, <2>5, <1>6
<1>. HIDE DEF one, rest, new
<1>8. \A j \in 2 .. l - i + 1 : new[j] = stack[i + j - 1]
  <2>. TAKE j \in 2 .. l - i + 1
  <2>1. j - 1 \in 1 .. l - i /\ i + (j - 1) = i + j - 1  BY <1>3
  <2>. QED  BY <2>1, <1>4, <1>7
<1>9. new[Len(new)].fn = Kernel
  <2>1. CASE i = l  BY <2>1, <1>1, <1>7 DEF CallChain, Frame
  <2>2. CASE i # l
    <3>1. l - i + 1 \in 2 .. l - i + 1 /\ i + (l - i + 1) - 1 = l  BY <1>3, <2>2
    <3>. QED  BY <3>1, <1>1, <1>7, <1>8 DEF CallChain
  <2>. QED  BY <2>1, <2>2
<1>10. \A j \in 2 .. Len(new) : Returns(new[j])
  <2>. SUFFICES ASSUME NEW j \in 2 .. l - i + 1  PROVE Returns(new[j])  BY <1>7
  <2>1. i + j - 1 \in 2 .. l  BY <1>3
  <2>. QED  BY <2>1, <1>1, <1>8 DEF CallChain
<1>11. CallChain(new)  BY <1>1, <1>3, <1>7, <1>9, <1>10 DEF CallChain
<1>. QED  BY <1>1, <1>7, <1>8, <1>11 DEF new, one, rest

\* Stacks with the same functions from the d-th on, counted from the outermost.
SameAbove(s, t, d) ==
    /\ d <= Len(s) /\ d <= Len(t)
    /\ \A j \in 0 .. d - 1 : s[Len(s) - j] = t[Len(t) - j]

LEMMA FrameOnAbove ==
    ASSUME NEW stack, CallChain(stack), NEW i \in 1 .. Len(stack), NEW pc \in Nat \ {0}
    PROVE  SameAbove(<<Frame(stack[i].fn, pc)>> \o SubSeq(stack, i + 1, Len(stack)), stack,
                     Len(stack) - i)
<1>1. PICK new : new = <<Frame(stack[i].fn, pc)>> \o SubSeq(stack, i + 1, Len(stack))
  OBVIOUS
<1>2. PICK l \in Nat \ {0} : l = Len(stack)  BY DEF CallChain
<1>3. Len(new) = l - i + 1  BY <1>1, <1>2, FrameOn
<1>4. \A j \in 2 .. Len(new) : new[j] = stack[i + j - 1]  BY <1>1, FrameOn
<1>5. i \in 1 .. l  BY <1>2
<1>6. ASSUME NEW j \in 0 .. l - i - 1  PROVE new[l - i + 1 - j] = stack[l - j]
  <2>1. l - i + 1 - j \in 2 .. Len(new) /\ i + (l - i + 1 - j) - 1 = l - j  BY <1>3, <1>5
  <2>. QED  BY <2>1, <1>4
<1>7. l - i <= Len(new) /\ l - i <= l  BY <1>3, <1>5
<1>8. SameAbove(new, stack, l - i)  BY <1>2, <1>3, <1>6, <1>7 DEF SameAbove
<1>. QED  BY <1>1, <1>2, <1>8

\* The call stack of lane 0 has the frames of the warp's but the innermost.
LEMMA LaneStack ==
    ASSUME NEW pos, Position(pos)
    PROVE  /\ CallChain(CallStack(pos))
           /\ SameAbove(CallStack(pos), pos.stack, Len(CallStack(pos)) - 1)
           /\ Len(CallStack(pos)) <= Len(pos.stack)
           /\ \A j \in 1 .. Len(CallStack(pos)) :
                 CallStack(pos)[j].fn = pos.stack[Len(pos.stack) - Len(CallStack(pos)) + j].fn
           /\ 0 \in pos.active => CallStack(pos) = pos.stack
<1>1. PICK l \in Nat \ {0} : l = Len(pos.stack)  BY DEF Position, CallChain
<1>2. CallChain(pos.stack)  BY DEF Position
<1>3. CASE 0 \in pos.active
  <2>1. CallStack(pos) = pos.stack  BY <1>3 DEF CallStack
  <2>2. \A j \in 1 .. l : l - l + j = j  BY <1>1
  <2>. QED  BY <2>1, <2>2, <1>1, <1>2 DEF SameAbove
<1>4. CASE 0 \notin pos.active
  <2>1. pos.level \in 1 .. l /\ pos.rest \in Nat \ {0}
    BY <1>1, <1>4, KernelAssumption, PlaceIsPositive DEF Position
  <2>2. PICK i \in 1 .. Len(pos.stack) : i = pos.level  BY <1>1, <2>1
  <2>3. PICK new : new = <<Frame(pos.stack[i].fn, pos.rest)>>
                           \o SubSeq(pos.stack, i + 1, Len(pos.stack))
    OBVIOUS
  <2>4. CallStack(pos) = new  BY <1>4, <2>2, <2>3 DEF CallStack
  <2>5. CallChain(new) /\ Len(new) = Len(pos.stack) - i + 1  BY <1>2, <2>1, <2>3, FrameOn
  <2>6. SameAbove(new, pos.stack, Len(pos.stack) - i)  BY <1>2, <2>1, <2>3, FrameOnAbove
  <2>7. Len(new) - 1 = Len(pos.stack) - i /\ Len(new) <= Len(pos.stack)  BY <1>1, <2>5
  <2>8. ASSUME NEW j \in 1 .. l - i + 1
        PROVE  new[j].fn = pos.stack[l - (l - i + 1) + j].fn
    <3>1. i \in Nat /\ l - (l - i + 1) + j = i + j - 1  BY <1>1
    <3>2. CASE j = 1
      <4>1. new[1].fn = pos.stack[i].fn /\ i + j - 1 = i
        BY <1>1, <1>2, <2>1, <2>3, <3>1, <3>2, FrameOn DEF Frame
      <4>. QED  BY <3>1, <3>2, <4>1
    <3>3. CASE j # 1
      <4>1. j \in 2 .. Len(new)  BY <1>1, <2>5, <3>3
      <4>2. new[j] = pos.stack[i + j - 1]  BY <4>1, <1>2, <2>1, <2>3, FrameOn
      <4>. QED  BY <3>1, <4>2
    <3>. QED  BY <3>2, <3>3
  <2>. QED  BY <1>1, <1>4, <2>4, <2>5, <2>6, <2>7, <2>8
<1>. QED  BY <1>3, <1>4

\* Where a region that is open begins and ends.
LEMMA OpenRegion ==
    ASSUME NEW code, IsFunction(code), NEW op, NEW pc, Open(code, pc, op) # {}
    PROVE  /\ Max(Open(code, pc, op)) \in Open(code, pc, op)
           /\ \A a \in Open(code, pc, op) : a <= Max(Open(code, pc, op))
           /\ Open(code, pc, op) \subseteq DOMAIN code
<1>1. Open(code, pc, op) \subseteq At(code, op)  BY DEF Open
<1>2. At(code, op) \subseteq DOMAIN code /\ DOMAIN code \subseteq Nat  BY CodeAddresses
<1>3. Open(code, pc, op) \subseteq DOMAIN code  BY <1>1, <1>2
<1>4. PICK b \in Nat : \A a \in DOMAIN code : a <= b  BY CodeAddresses
<1>5. Open(code, pc, op) \subseteq Nat /\ \A a \in Open(code, pc, op) : a <= b
  BY <1>2, <1>3, <1>4
<1>. QED  BY <1>3, <1>5, MaxIsGreatest

LEMMA InitialCalls ==
    ASSUME program \in DOMAIN Programs, NEW calls \in Calls(Programs[program])
    PROVE  /\ calls \in Seq(Frames)
           /\ \A i \in 1 .. Len(calls) : Returns(calls[i])
           /\ Called(Programs[program], calls) \in DOMAIN Programs[program]
<1>. DEFINE p == Programs[program]
            frames == UNION {CallsOf(p, fn) : fn \in DOMAIN p}
<1>1. PICK n \in 0 .. MaxDepth : calls \in [1 .. n -> frames]
  BY DEF Calls
<1>2. n \in Nat  BY KernelAssumption
<1>4. \A f \in frames : f \in Frames /\ Returns(f)
  <2>. SUFFICES ASSUME NEW fn \in DOMAIN p, NEW a \in At(p[fn], "cal")
                PROVE  Frame(fn, a + 1) \in Frames /\ Returns(Frame(fn, a + 1))
    BY DEF CallsOf
  <2>1. a + 1 \in Nat \ {0}
    <3>1. a \in Nat  BY CodeAddresses, CodeAssumption
    <3>. QED  BY <3>1
  <2>2. Frame(fn, a + 1) \in Frames  BY <2>1 DEF Frame, Frames
  <2>3. Returns(Frame(fn, a + 1))  BY DEF Frame, Returns, Code
  <2>. QED  BY <2>2, <2>3
<1>5. calls \in [1 .. n -> Frames] /\ \A i \in 1 .. n : Returns(calls[i])
  <2>. HIDE DEF frames
  <2>. QED  BY <1>1, <1>4
<1>6. calls \in Seq(Frames) /\ Len(calls) = n  BY <1>2, <1>5, FunctionIsSequence
<1>7. Called(p, calls) \in DOMAIN p
  <2>1. CASE calls = <<>>  BY <2>1, KernelAssumption DEF Called
  <2>2. CASE calls # <<>>
    <3>1. n # 0  BY <2>2, <1>6
    <3>2. 1 \in 1 .. n /\ Head(calls) = calls[1]  BY <3>1, <1>2, <1>6
    <3>3. PICK fn \in DOMAIN p : \E a \in At(p[fn], "cal") : calls[1] = Frame(fn, a + 1)
      <4>1. calls[1] \in frames
        <5>. HIDE DEF frames
        <5>. QED  BY <3>2, <1>1
      <4>. QED  BY <4>1 DEF CallsOf
    <3>4. PICK a \in At(p[fn], "cal") : calls[1] = Frame(fn, a + 1)  BY <3>3
    <3>5. a \in Nat /\ p[fn][a].fn \in DOMAIN p  BY CodeAddresses, CodeAssumption
    <3>6. calls[1].fn = fn /\ calls[1].pc - 1 = a  BY <3>4, <3>5 DEF Frame
    <3>. QED  BY <2>2, <3>2, <3>5, <3>6 DEF Called
  <2>. QED  BY <2>1, <2>2
<1>. QED  BY <1>5, <1>6, <1>7

LEMMA InitialChain ==
    ASSUME program \in DOMAIN Programs, NEW calls \in Calls(Programs[program]), NEW pc \in Nat \ {0}
    PROVE  CallChain(<<Frame(Called(Programs[program], calls), pc)>> \o calls)
<1>. DEFINE p == Programs[program]
            one == <<Frame(Called(p, calls), pc)>>
            stack == one \o calls
<1>1. PICK n \in Nat : n = Len(calls)  BY InitialCalls
<1>2. n \in Nat  OBVIOUS
<1>3. \A i \in DOMAIN calls : calls[i].fn = Called(p, SubSeq(calls, i + 1, Len(calls)))
  BY DEF Calls
<1>5. \A i \in 1 .. n : Returns(calls[i])  BY <1>1, InitialCalls
<1>6. calls \in Seq(Frames) /\ Len(calls) = n  BY <1>1, InitialCalls
<1>7. Called(p, calls) \in DOMAIN p  BY InitialCalls
<1>8. Frame(Called(p, calls), pc) \in Frames  BY <1>7 DEF Frame, Frames
<1>9. one \in Seq(Frames) /\ Len(one) = 1 /\ one[1] = Frame(Called(p, calls), pc)  BY <1>8
<1>10. stack \in Seq(Frames) /\ Len(stack) = 1 + n
       /\ \A j \in 1 .. 1 + n : stack[j] = IF j <= 1 THEN one[j] ELSE calls[j - 1]
  <2>. HIDE DEF one
  <2>1. Joined(Frames, one, calls, 1, n)  BY <1>2, <1>6, <1>9, TwoParts
  <2>. QED  BY <2>1 DEF Joined
<1>11. \A j \in 2 .. 1 + n : Returns(stack[j])
  <2>. HIDE DEF stack
  <2>1. \A j \in 2 .. 1 + n : j - 1 \in 1 .. n /\ stack[j] = calls[j - 1]  BY <1>2, <1>10
  <2>. QED  BY <2>1, <1>5
<1>12. stack[1 + n].fn = Kernel
  <2>1. CASE n = 0
    <3>1. calls = <<>>  BY <2>1, <1>6
    <3>. HIDE DEF stack, one
    <3>2. stack[1] = one[1]  BY <2>1, <1>10
    <3>. QED  BY <2>1, <3>1, <3>2, <1>9 DEF Called, Frame
  <2>2. CASE n # 0
    <3>1. n \in DOMAIN calls  BY <2>2, <1>2, <1>6
    <3>2. SubSeq(calls, n + 1, Len(calls)) = <<>>  BY <1>2, <1>6
    <3>3. calls[n].fn = Kernel  BY <3>1, <3>2, <1>3 DEF Called
    <3>4. 1 + n \in 1 .. 1 + n /\ ~(1 + n <= 1) /\ (1 + n) - 1 = n  BY <2>2, <1>2
    <3>. HIDE DEF stack
    <3>. QED  BY <3>3, <3>4, <1>10
  <2>. QED  BY <2>1, <2>2
<1>13. 1 + n \in Nat \ {0}  BY <1>2
<1>. HIDE DEF stack
<1>14. CallChain(stack)  BY <1>10, <1>11, <1>12, <1>13 DEF CallChain
<1>. QED  BY <1>14 DEF stack

\* The regions of the functions on a stack end at addresses.
LEMMA RestsArePlaces ==
    ASSUME program \in DOMAIN Programs, NEW stack, CallChain(stack), NEW i \in 1 .. Len(stack),
           Open(Programs[program][stack[i].fn], Where(stack, i), "ssy") # {}
    PROVE  Rests(Programs[program], stack, i) \subseteq Places
<1>. DEFINE code == Programs[program][stack[i].fn]
<1>1. stack[i] \in Frames  BY DEF CallChain
<1>2. IsFunction(code)  BY <1>1, CodeAssumption DEF Frames
<1>3. RegionStart(Programs[program], stack, i) \in DOMAIN code
  BY <1>2, OpenRegion DEF RegionStart
<1>4. RegionEnd(Programs[program], stack, i) \in Places
  BY <1>2, <1>3, CodeWords, SkipIsPlace DEF RegionEnd
<1>5. \A a \in Stops(code) : a \in DOMAIN code /\ ~IsControl(a)  BY DEF Stops
<1>6. DOMAIN code \subseteq Nat  BY <1>2, CodeAddresses
<1>. QED  BY <1>4, <1>5, <1>6 DEF Rests, Places

LEMMA InitialPosition ==
    ASSUME program \in DOMAIN Programs, NEW pos \in Positions(Programs[program])
    PROVE  Position(pos)
<1>. DEFINE p == Programs[program]
            stacks == UNION {{<<Frame(Called(p, calls), pc)>> \o calls :
                                 pc \in Stops(p[Called(p, calls)])} : calls \in Calls(p)}
<1>1. PICK stack \in stacks : pos \in {Converged(stack)} \cup Diverged(p, stack)
  BY DEF Positions
<1>2. PICK calls \in Calls(p) : \E pc \in Stops(p[Called(p, calls)]) :
         stack = <<Frame(Called(p, calls), pc)>> \o calls
  OBVIOUS
<1>3. PICK pc \in Stops(p[Called(p, calls)]) : stack = <<Frame(Called(p, calls), pc)>> \o calls
  BY <1>2
<1>4. pc \in Nat \ {0} /\ ~IsControl(pc)
  <2>1. IsFunction(p[Called(p, calls)])  BY InitialCalls, CodeAssumption
  <2>2. pc \in Nat /\ ~IsControl(pc)  BY <2>1, CodeAddresses DEF Stops
  <2>. QED  BY <2>2, PlaceIsPositive
<1>5. CallChain(stack)  BY <1>3, <1>4, InitialChain
<1>a. ~IsControl(stack[1].pc)
  <2>1. calls \in Seq(Frames)  BY InitialCalls
  <2>2. stack[1] = Frame(Called(p, calls), pc)  BY <1>3, <2>1
  <2>. QED  BY <2>2, <1>4 DEF Frame
<1>6. CASE pos = Converged(stack)
  <2>1. stack \in Seq(Frames) /\ Len(stack) \in Nat  BY <1>5 DEF CallChain
  <2>. QED  BY <2>1, <1>5, <1>6, <1>a DEF Position, Converged
<1>7. CASE pos \in Diverged(p, stack)
  <2>1. PICK i \in DOMAIN stack :
           /\ Open(p[stack[i].fn], Where(stack, i), "ssy") # {}
           /\ pos \in [stack : {stack}, active : SUBSET Lane \ {{}, Lane}, level : {i},
                       rest : Rests(p, stack, i)]
    BY <1>7 DEF Diverged
  <2>2. stack \in Seq(Frames) /\ Len(stack) \in Nat  BY <1>5 DEF CallChain
  <2>3. i \in 1 .. Len(stack)  BY <2>1, <2>2
  <2>4. Rests(p, stack, i) \subseteq Places  BY <2>1, <2>3, <1>5, RestsArePlaces
  <2>5. pos \in [stack : Seq(Frames), active : SUBSET Lane, level : Nat, rest : Nat]
        /\ pos.stack = stack /\ pos.level = i /\ ~IsControl(pos.rest)
    BY <2>1, <2>2, <2>3, <2>4 DEF Places
  <2>6. i <= Len(stack) /\ i # 0  BY <2>2, <2>3
  <2>. QED  BY <2>5, <2>6, <1>5, <1>a DEF Position
<1>. QED  BY <1>1, <1>6, <1>7

-----------------------------------------------------------------------------
(***************************************************************************)
(* How a warp is run on.                                                   *)
(***************************************************************************)
LEMMA RunsOn ==
    ASSUME NEW pos, Position(pos), NEW depth \in 1 .. Len(pos.stack), NEW pc \in Places
    PROVE  /\ Position(RunTo(pos, depth, pc))
           /\ Len(RunTo(pos, depth, pc).stack) = depth
           /\ RunTo(pos, depth, pc).stack[1] = Frame(pos.stack[Len(pos.stack) - depth + 1].fn, pc)
           /\ SameAbove(RunTo(pos, depth, pc).stack, pos.stack, depth - 1)
<1>1. PICK l \in Nat \ {0} : l = Len(pos.stack)  BY DEF Position, CallChain
<1>2. CallChain(pos.stack)  BY DEF Position
<1>a. Len(pos.stack) - depth + 1 \in 1 .. Len(pos.stack)
  <2>1. depth \in 1 .. l  BY <1>1
  <2>2. l - depth + 1 \in 1 .. l  BY <2>1
  <2>. QED  BY <2>2, <1>1
<1>3. PICK i \in 1 .. Len(pos.stack) : i = Len(pos.stack) - depth + 1  BY <1>a
<1>4. PICK new : new = <<Frame(pos.stack[i].fn, pc)>> \o SubSeq(pos.stack, i + 1, Len(pos.stack))
  OBVIOUS
<1>p. pc \in Nat \ {0} /\ ~IsControl(pc)  BY PlaceIsPositive DEF Places
<1>5. /\ CallChain(new) /\ Len(new) = Len(pos.stack) - i + 1
      /\ new[1] = Frame(pos.stack[i].fn, pc) /\ ~IsControl(new[1].pc)
  BY <1>2, <1>4, <1>p, FrameOn DEF Frame
<1>6. SameAbove(new, pos.stack, Len(pos.stack) - i)  BY <1>2, <1>4, <1>p, FrameOnAbove
<1>7. Len(new) = depth /\ Len(pos.stack) - i = depth - 1  BY <1>1, <1>3, <1>5
<1>8. PICK q : q = RunTo(pos, depth, pc)  OBVIOUS
<1>9. \/ q = Converged(new)
      \/ pos.level >= i /\ q = [pos EXCEPT !.stack = new, !.level = pos.level - i + 1]
  <2>. DEFINE apart == \/ pos.level > i
                       \/ pos.level = i /\ pc < RegionEnd(Programs[program], pos.stack, i)
  <2>1. q = IF apart THEN [pos EXCEPT !.stack = new, !.level = pos.level - i + 1]
                     ELSE Converged(new)
    <3>1. pos \in [stack : Seq(Frames), active : SUBSET Lane, level : Nat, rest : Nat]
      BY DEF Position
    <3>2. [pos EXCEPT !.stack = new, !.level = @ - i + 1]
             = [pos EXCEPT !.stack = new, !.level = pos.level - i + 1]
      BY <3>1
    <3>3. q = IF apart THEN [pos EXCEPT !.stack = new, !.level = @ - i + 1] ELSE Converged(new)
BY <1>3, <1>4, <1>8, Zenon DEF RunTo
    <3>. QED  BY <3>2, <3>3
  <2>2. apart => pos.level >= i  BY <1>1 DEF Position
  <2>. HIDE DEF apart
  <2>. QED  BY <2>1, <2>2
<1>10. new \in Seq(Frames) /\ Len(new) \in Nat \ {0}  BY <1>5 DEF CallChain
<1>11. CASE q = Converged(new)
  <2>1. q.stack = new /\ Position(q)
    BY <1>5, <1>10, <1>11 DEF Position, Converged
  <2>. QED  BY <2>1, <1>3, <1>5, <1>6, <1>7, <1>8
<1>12. CASE pos.level >= i /\ q = [pos EXCEPT !.stack = new, !.level = pos.level - i + 1]
  <2>1. pos \in [stack : Seq(Frames), active : SUBSET Lane, level : Nat, rest : Nat]
        /\ pos.level <= l
    BY <1>1 DEF Position
  <2>2. pos.level - i + 1 \in Nat \ {0} /\ pos.level - i + 1 <= Len(new)
    BY <2>1, <1>1, <1>3, <1>7, <1>12
  <2>3. q.stack = new /\ q.level = pos.level - i + 1
        /\ q \in [stack : Seq(Frames), active : SUBSET Lane, level : Nat, rest : Nat]
    BY <2>1, <2>2, <1>10, <1>12
  <2>4. ~IsControl(q.rest)
    <3>1. pos.level # 0  BY <2>1, <1>1, <1>3, <1>12
    <3>2. q.rest = pos.rest  BY <2>1, <1>12
    <3>. QED  BY <3>1, <3>2 DEF Position
  <2>5. Position(q)  BY <2>2, <2>3, <2>4, <1>5 DEF Position
  <2>. QED  BY <2>3, <2>5, <1>3, <1>5, <1>6, <1>7, <1>8
<1>. QED  BY <1>9, <1>11, <1>12

\* The outermost function without a table.
LEMMA OutermostIs ==
    ASSUME NEW stack, CallChain(stack), NoRoom(stack) # {}
    PROVE  /\ Outermost(stack) \in NoRoom(stack) /\ Outermost(stack) \in 1 .. Len(stack)
           /\ \A i \in NoRoom(stack) : i <= Outermost(stack)
<1>1. Len(stack) \in Nat /\ DOMAIN stack = 1 .. Len(stack)  BY DEF CallChain
<1>2. NoRoom(stack) \subseteq 1 .. Len(stack)  BY <1>1 DEF NoRoom
<1>. QED  BY <1>1, <1>2, MaxIsGreatest DEF Outermost

\* At most three stops, all of them addresses.
LEMMA StopsAre ==
    ASSUME program \in DOMAIN Programs, NEW stack, CallChain(stack)
    PROVE  /\ RunsTo(stack) \in Seq(Places) /\ Len(RunsTo(stack)) \in 0 .. 3
           /\ RunsTo(stack) = <<>> => NoRoom(stack) = {} \/ Outermost(stack) <= 2
           /\ RunsTo(stack) # <<>> => NoRoom(stack) # {}
<1>1. CASE NoRoom(stack) = {}  BY <1>1 DEF RunsTo
<1>2. CASE NoRoom(stack) # {}
  <2>1. PICK i \in 1 .. Len(stack) : i = Outermost(stack)  BY <1>2, OutermostIs
  <2>2. stack[i] \in Frames  BY DEF CallChain
  <2>3. PICK f : f = stack[i]  OBVIOUS
  <2>4. IsFunction(Code(f.fn)) /\ f.pc \in Nat
    BY <2>2, <2>3, CodeAssumption DEF Frames, Code
  <2>. DEFINE to(op) == Region(Code(f.fn), op, f.pc)
              ahead(op) == IF to(op) > f.pc THEN <<Skip(to(op))>> ELSE <<>>
              up == IF StepsUp(i) THEN <<Skip(f.pc + 1)>> ELSE <<>>
  <2>5. \A op : Skip(to(op)) \in Places  BY <2>4, RegionEnds, SkipIsPlace
  <2>6. \A op : ahead(op) \in Seq(Places) /\ Len(ahead(op)) \in 0 .. 1
    <3>. HIDE DEF to
    <3>. QED  BY <2>5
  <2>7. up \in Seq(Places) /\ Len(up) \in 0 .. 1 /\ (up = <<>> => ~StepsUp(i))
    <3>1. f.pc + 1 \in Nat  BY <2>4
    <3>2. Skip(f.pc + 1) \in Places  BY <3>1, SkipIsPlace
    <3>. QED  BY <3>2
  <2>8. RunsTo(stack) = up \o (ahead("ssy") \o ahead("pbk"))
    BY <1>2, <2>1, <2>3 DEF RunsTo, JoinsAt
  <2>. HIDE DEF ahead, up
  <2>9. PICK a \in 0 .. 1, b \in 0 .. 1, c \in 0 .. 1 :
           a = Len(up) /\ b = Len(ahead("ssy")) /\ c = Len(ahead("pbk"))
    BY <2>6, <2>7
  <2>10. PICK joins : joins = ahead("ssy") \o ahead("pbk")  OBVIOUS
  <2>11. joins \in Seq(Places) /\ Len(joins) = b + c
    BY <2>6, <2>9, <2>10, ConcatProperties
  <2>12. PICK all : all = up \o joins  OBVIOUS
  <2>13. all \in Seq(Places) /\ Len(all) = a + (b + c)
    <3>1. all \in Seq(Places) /\ Len(all) = Len(up) + Len(joins)
      BY <2>7, <2>11, <2>12, ConcatProperties
    <3>. QED  BY <3>1, <2>9, <2>11
  <2>14. all = <<>> => ~StepsUp(i)
    <3>. SUFFICES ASSUME all = <<>>  PROVE ~StepsUp(i)  OBVIOUS
    <3>1. a = 0  BY <2>13
    <3>2. up = <<>>  BY <3>1, <2>7, <2>9
    <3>. QED  BY <3>2, <2>7
  <2>15. ~StepsUp(i) => i <= 2
    <3>1. i \in Nat  BY <2>1 DEF CallChain
    <3>. QED  BY <3>1 DEF StepsUp
  <2>16. RunsTo(stack) = all  BY <2>8, <2>10, <2>12
  <2>17. RunsTo(stack) \in Seq(Places) /\ Len(RunsTo(stack)) \in 0 .. 3
    <3>1. RunsTo(stack) \in Seq(Places)  BY <2>13, <2>16, Zenon
    <3>2. Len(RunsTo(stack)) = a + (b + c)  BY <2>13, <2>16, Zenon
    <3>3. a + (b + c) \in 0 .. 3  OBVIOUS
    <3>. QED  BY <3>1, <3>2, <3>3, Zenon
  <2>18. RunsTo(stack) = <<>> => Outermost(stack) <= 2  BY <2>1, <2>14, <2>15, <2>16
  <2>. QED  BY <1>2, <2>17, <2>18
<1>. QED  BY <1>1, <1>2

LEMMA SameAboveJoins ==
    ASSUME NEW s, NEW t, NEW u, NEW d, NEW e, SameAbove(s, t, d), SameAbove(u, t, e),
           d \in Int, e \in Int, d <= e, Len(u) \in Nat
    PROVE  SameAbove(s, u, d)
BY DEF SameAbove

LEMMA SameAboveFollows ==
    ASSUME NEW s, NEW t, NEW u, NEW d \in Int, SameAbove(s, t, d), SameAbove(t, u, d)
    PROVE  SameAbove(s, u, d)
BY DEF SameAbove

LEMMA SavedPosition ==
    ASSUME program \in DOMAIN Programs, NEW pos, Position(pos),
           NEW pcs, pcs = RunsTo(CallStack(pos))
    PROVE  /\ Position(Checkpointable(pos, pcs))
           /\ pcs = <<>> => Checkpointable(pos, pcs) = pos
           /\ pcs # <<>> =>
                 /\ SameAbove(Checkpointable(pos, pcs).stack, CallStack(pos),
                              Len(CallStack(pos)) - Outermost(CallStack(pos)))
                 /\ Checkpointable(pos, pcs).stack[1]
                       = Frame(CallStack(pos)[Outermost(CallStack(pos))].fn, pcs[Len(pcs)])
<1>. DEFINE stack == CallStack(pos)
            depth == Len(stack) - Outermost(stack) + 1
            Runs(f) == [n \in 0 .. Len(pcs) |-> IF n = 0 THEN pos
                                                ELSE RunTo(f[n - 1], depth, pcs[n])]
            r1 == RunTo(pos, depth, pcs[1])
            r2 == RunTo(r1, depth, pcs[2])
            r3 == RunTo(r2, depth, pcs[3])
            r == [n \in 0 .. Len(pcs) |-> IF n = 0 THEN pos ELSE IF n = 1 THEN r1
                                          ELSE IF n = 2 THEN r2 ELSE r3]
            new == Checkpointable(pos, pcs)
<1>1. new = (CHOOSE f : f = Runs(f))[Len(pcs)]  BY DEF Checkpointable
<1>2. CallChain(stack)  BY LaneStack
<1>3. pcs \in Seq(Places) /\ Len(pcs) \in 0 .. 3  BY <1>2, StopsAre
<1>4. PICK m \in 0 .. 3 : m = Len(pcs)  BY <1>3
<1>5. r = Runs(r)
  <2>. HIDE DEF r1, r2, r3, depth
  <2>1. ASSUME NEW n \in 0 .. m
        PROVE  r[n] = IF n = 0 THEN pos ELSE RunTo(r[n - 1], depth, pcs[n])
    <3>1. CASE n = 0  BY <3>1, <1>4
    <3>2. CASE n = 1
      <4>1. r[0] = pos /\ r[1] = r1  BY <3>2, <1>4
      <4>. QED  BY <3>2, <4>1 DEF r1
    <3>3. CASE n = 2
      <4>1. r[1] = r1 /\ r[2] = r2  BY <3>3, <1>4
      <4>. QED  BY <3>3, <4>1 DEF r2
    <3>4. CASE n = 3
      <4>1. r[2] = r2 /\ r[3] = r3  BY <3>4, <1>4
      <4>. QED  BY <3>4, <4>1 DEF r3
    <3>. QED  BY <3>1, <3>2, <3>3, <3>4
  <2>. QED  BY <2>1, <1>4
<1>6. PICK f : f = (CHOOSE g : g = Runs(g))  OBVIOUS
<1>7. f = Runs(f)
  <2>. HIDE DEF r, Runs
  <2>. QED  BY <1>5, <1>6
<1>. HIDE DEF r
<1>8. f[0] = pos /\ (m > 0 => f[1] = r1) /\ (m > 1 => f[2] = r2) /\ (m > 2 => f[3] = r3)
  <2>1. \A n \in 0 .. m : f[n] = IF n = 0 THEN pos ELSE RunTo(f[n - 1], depth, pcs[n])
    <3>. HIDE DEF depth
    <3>. QED  BY <1>4, <1>7
  <2>. HIDE DEF depth, r1, r2, r3
  <2>2. f[0] = pos  BY <2>1
  <2>3. m > 0 => f[1] = r1  BY <2>1, <2>2 DEF r1
  <2>4. m > 1 => f[2] = r2  BY <2>1, <2>3 DEF r2
  <2>5. m > 2 => f[3] = r3  BY <2>1, <2>4 DEF r3
  <2>. QED  BY <2>2, <2>3, <2>4, <2>5
<1>9. new = f[m]
  <2>. HIDE DEF Runs, new
  <2>. QED  BY <1>1, <1>4, <1>6
<1>. HIDE DEF Runs, new
<1>10. CASE m = 0
  <2>0. pcs = <<>>  BY <1>3, <1>4, <1>10, EmptySeq
  <2>1. new = pos /\ pcs = <<>>  BY <2>0, <1>8, <1>9, <1>10
  <2>. QED  BY <2>1 DEF new
<1>11. CASE m # 0
  <2>1. pcs # <<>>  BY <1>4, <1>11
  <2>2. Outermost(stack) \in 1 .. Len(stack)  BY <2>1, <1>2, StopsAre, OutermostIs
  <2>3. PICK l \in Nat \ {0} : l = Len(stack)  BY <1>2 DEF CallChain
  <2>4. PICK d \in 1 .. l : d = depth /\ Len(stack) - Outermost(stack) = d - 1
    <3>. HIDE DEF stack
    <3>1. PICK i \in 1 .. l : i = Outermost(stack)  BY <2>2, <2>3
    <3>2. l - i + 1 \in 1 .. l /\ l - i = (l - i + 1) - 1  OBVIOUS
    <3>. QED  BY <2>3, <3>1, <3>2
  <2>. HIDE DEF depth, stack
  <2>. DEFINE fn == pos.stack[Len(pos.stack) - d + 1].fn
              Good(q) == /\ Position(q) /\ Len(q.stack) = d /\ q.stack[1].fn = fn
                         /\ SameAbove(q.stack, pos.stack, d - 1)
  <2>5. Len(stack) <= Len(pos.stack) /\ Len(pos.stack) \in Nat
    BY LaneStack DEF stack, Position, CallChain
  <2>6. \A k \in 1 .. m : pcs[k] \in Places  BY <1>3, <1>4
  <2>7. Good(r1)
    <3>1. d \in 1 .. Len(pos.stack) /\ pcs[1] \in Places  BY <2>3, <2>5, <2>6, <1>11
    <3>2. r1 = RunTo(pos, d, pcs[1])  BY <2>4
    <3>3. r1.stack[1] = Frame(fn, pcs[1])  BY <3>1, <3>2, RunsOn
    <3>4. r1.stack[1].fn = fn  BY <3>3 DEF Frame
    <3>5. Position(r1) /\ Len(r1.stack) = d /\ SameAbove(r1.stack, pos.stack, d - 1)
      BY <3>1, <3>2, RunsOn
    <3>. HIDE DEF fn, r1
    <3>. QED  BY <3>4, <3>5
  <2>8. ASSUME NEW q, Good(q), NEW k \in 1 .. m
        PROVE  Good(RunTo(q, d, pcs[k])) /\ RunTo(q, d, pcs[k]).stack[1] = Frame(fn, pcs[k])
    <3>1. d \in 1 .. Len(q.stack) /\ pcs[k] \in Places  BY <2>6, <2>8
    <3>2. Position(q)  BY <2>8
    <3>3. PICK s : s = RunTo(q, d, pcs[k])  OBVIOUS
    <3>4. Position(s) /\ Len(s.stack) = d /\ SameAbove(s.stack, q.stack, d - 1)
      BY <3>1, <3>2, <3>3, RunsOn
    <3>a. s.stack[1] = Frame(fn, pcs[k])
      <4>1. Len(q.stack) - d + 1 = 1 /\ q.stack[1].fn = fn  BY <2>8
      <4>. QED  BY <4>1, <3>1, <3>2, <3>3, RunsOn
    <3>5. SameAbove(q.stack, pos.stack, d - 1) /\ d - 1 \in Int  BY <2>8
    <3>6. SameAbove(s.stack, pos.stack, d - 1)  BY <3>4, <3>5, SameAboveFollows
    <3>b. s.stack[1].fn = fn  BY <3>a DEF Frame
    <3>. QED  BY <3>3, <3>4, <3>6, <3>a, <3>b
  <2>a. r1.stack[1] = Frame(fn, pcs[1])
    <3>1. d \in 1 .. Len(pos.stack) /\ pcs[1] \in Places  BY <2>3, <2>5, <2>6, <1>11
    <3>2. r1 = RunTo(pos, d, pcs[1])  BY <2>4
    <3>. QED  BY <3>1, <3>2, RunsOn
  <2>9. m > 1 => Good(r2) /\ r2.stack[1] = Frame(fn, pcs[2])
    <3>1. r2 = RunTo(r1, d, pcs[2])  BY <2>4
    <3>. SUFFICES ASSUME m > 1  PROVE Good(r2) /\ r2.stack[1] = Frame(fn, pcs[2])  OBVIOUS
    <3>2. 2 \in 1 .. m  BY <2>1
    <3>. HIDE DEF Good, fn, r1, r2
    <3>. QED  BY <2>7, <2>8, <3>1, <3>2
  <2>10. m > 2 => Good(r3) /\ r3.stack[1] = Frame(fn, pcs[3])
    <3>1. r3 = RunTo(r2, d, pcs[3])  BY <2>4
    <3>. SUFFICES ASSUME m > 2  PROVE Good(r3) /\ r3.stack[1] = Frame(fn, pcs[3])  OBVIOUS
    <3>2. 3 \in 1 .. m /\ m > 1  BY <2>1
    <3>. HIDE DEF Good, fn, r2, r3
    <3>. QED  BY <2>8, <2>9, <3>1, <3>2
  <2>11. Good(new) /\ new.stack[1] = Frame(fn, pcs[m])
    <3>. HIDE DEF Good, fn, r1, r2, r3
    <3>. QED  BY <1>8, <1>9, <1>11, <2>7, <2>a, <2>9, <2>10
  <2>12. SameAbove(stack, pos.stack, l - 1)  BY <2>3, LaneStack DEF stack
  <2>13. SameAbove(new.stack, stack, d - 1)
    <3>1. d - 1 <= l - 1 /\ d - 1 \in Int /\ l - 1 \in Int  BY <2>3
    <3>2. SameAbove(new.stack, pos.stack, d - 1)  BY <2>11
    <3>. QED  BY <2>3, <2>12, <3>1, <3>2, SameAboveJoins
  <2>14. Position(new)  BY <2>11
  <2>15. fn = stack[Outermost(stack)].fn
    <3>1. l - d + 1 \in 1 .. l /\ Outermost(stack) = l - d + 1
      <4>1. PICK i \in 1 .. l : i = Outermost(stack)  BY <2>2, <2>3
      <4>. QED  BY <4>1, <2>3, <2>4
    <3>2. stack[l - d + 1].fn = pos.stack[Len(pos.stack) - l + (l - d + 1)].fn
      <4>1. \A j \in 1 .. Len(stack) :
               stack[j].fn = pos.stack[Len(pos.stack) - Len(stack) + j].fn
        BY LaneStack DEF stack
      <4>2. PICK j \in 1 .. l : j = l - d + 1  BY <3>1
      <4>3. j \in 1 .. Len(stack)  BY <4>2, <2>3
      <4>4. stack[j].fn = pos.stack[Len(pos.stack) - Len(stack) + j].fn  BY <4>1, <4>3
      <4>. QED  BY <4>2, <4>4, <2>3, Zenon
    <3>3. Len(pos.stack) - l + (l - d + 1) = Len(pos.stack) - d + 1
      <4>1. PICK n \in Nat : n = Len(pos.stack)  BY <2>5
      <4>2. n - l + (l - d + 1) = n - d + 1  OBVIOUS
      <4>. QED  BY <4>1, <4>2
    <3>. QED  BY <3>1, <3>2, <3>3
  <2>. HIDE DEF fn
  <2>16. new.stack[1] = Frame(stack[Outermost(stack)].fn, pcs[Len(pcs)])
    BY <2>11, <2>15, <1>4
  <2>. QED  BY <2>1, <2>4, <2>13, <2>14, <2>16 DEF stack, new
<1>. QED  BY <1>10, <1>11

\* When a warp is saved only the two innermost functions may be without a table.
LEMMA SavedRooms ==
    ASSUME program \in DOMAIN Programs, NEW pos, Position(pos),
           NEW pcs, pcs = RunsTo(CallStack(pos)), ~Missed(pos, pcs)
    PROVE  NoRoom(CallStack(Checkpointable(pos, pcs))) \subseteq {1, 2}
<1>1. PICK stack : stack = CallStack(pos)  OBVIOUS
<1>2. PICK new : new = Checkpointable(pos, pcs)  OBVIOUS
<1>3. CallChain(stack)  BY <1>1, LaneStack
<1>4. PICK l \in Nat \ {0} : l = Len(stack)  BY <1>3 DEF CallChain
<1>5. CASE pcs = <<>>
  <2>1. new = pos  BY <1>2, <1>5, SavedPosition
  <2>2. NoRoom(stack) = {} \/ Outermost(stack) <= 2  BY <1>1, <1>3, <1>5, StopsAre
  <2>3. CASE NoRoom(stack) = {}  BY <2>1, <2>3, <1>1, <1>2
  <2>4. CASE NoRoom(stack) # {} /\ Outermost(stack) <= 2
    <3>1. DOMAIN stack = 1 .. l  BY <1>3, <1>4 DEF CallChain
    <3>2. \A i \in NoRoom(stack) : i \in 1 .. l /\ i <= Outermost(stack)
      BY <2>4, <3>1, <1>3, OutermostIs DEF NoRoom
    <3>3. Outermost(stack) \in 1 .. l  BY <2>4, <1>3, <1>4, OutermostIs
    <3>4. \A i \in NoRoom(stack) : i \in {1, 2}  BY <2>4, <3>2, <3>3
    <3>. QED  BY <3>4, <2>1, <1>1, <1>2
  <2>. QED  BY <2>2, <2>3, <2>4
<1>6. CASE pcs # <<>>
  <2>1. NoRoom(stack) # {}  BY <1>1, <1>3, <1>6, StopsAre
  <2>2. PICK i \in 1 .. l : i = Outermost(stack)  BY <2>1, <1>3, <1>4, OutermostIs
  <2>3. \A k \in NoRoom(stack) : k <= i  BY <2>1, <2>2, <1>3, OutermostIs
  <2>4. Position(new) /\ SameAbove(new.stack, stack, l - i)
    BY <2>2, <1>1, <1>2, <1>4, <1>6, SavedPosition
  <2>5. PICK s : s = CallStack(new)  OBVIOUS
  <2>6. Len(s) = l - i + 1  BY <2>2, <2>5, <1>1, <1>2, <1>4, <1>6 DEF Missed
  <2>7. CallChain(s) /\ SameAbove(s, new.stack, l - i)
    <3>1. Len(s) - 1 = l - i  BY <2>6, <2>2
    <3>. QED  BY <3>1, <2>4, <2>5, LaneStack
  <2>8. SameAbove(s, stack, l - i)
    <3>1. l - i \in Int  OBVIOUS
    <3>. QED  BY <3>1, <2>4, <2>7, SameAboveFollows
  <2>9. ASSUME NEW k \in NoRoom(s), k # 1  PROVE FALSE
    <3>1. DOMAIN s = 1 .. l - i + 1  BY <2>6, <2>7 DEF CallChain
    <3>2. k \in 2 .. l - i + 1 /\ ~HasTable(s[k].fn)  BY <2>9, <3>1, <2>2 DEF NoRoom
    <3>3. PICK j \in 0 .. l - i - 1 : j = l - i + 1 - k  BY <3>2, <2>2
    <3>4. s[l - i + 1 - j] = stack[l - j]  BY <2>6, <2>8, <1>4 DEF SameAbove
    <3>5. l - i + 1 - j = k  BY <3>2, <3>3, <2>2
    <3>6. l - j \in 1 .. l /\ l - j > i  BY <3>3, <2>2
    <3>7. DOMAIN stack = 1 .. l  BY <1>3, <1>4 DEF CallChain
    <3>8. l - j \in NoRoom(stack)  BY <3>2, <3>4, <3>5, <3>6, <3>7 DEF NoRoom
    <3>. QED  BY <3>6, <3>8, <2>3, <2>2
  <2>. QED  BY <2>5, <2>9, <1>2
<1>. QED  BY <1>5, <1>6

-----------------------------------------------------------------------------
(***************************************************************************)
(* What is saved.                                                          *)
(***************************************************************************)
LEMMA SameProgram ==
    ASSUME program' = program
    PROVE  /\ Warp' = Warp
           /\ \A fn : HasTable(fn)' = HasTable(fn)
           /\ \A pos : Position(pos)' <=> Position(pos)
           /\ \A stack : NoRoom(stack)' = NoRoom(stack)
<1>1. Warp' = Warp  BY DEF Warp
<1>2. \A fn : HasTable(fn)' = HasTable(fn)  BY DEF HasTable
<1>3. \A stack : NoRoom(stack)' = NoRoom(stack)  BY DEF NoRoom, HasTable
<1>4. \A pos : Position(pos)' <=> Position(pos)
  BY DEF Position, CallChain, Returns, Frames, Code
<1>. QED  BY <1>1, <1>2, <1>3, <1>4

LEMMA SameRestorable ==
    ASSUME program' = program, warps' = warps, next' = next
    PROVE  Restorable(warps[next])' <=> Restorable(warps[next])
<1>. DEFINE pos == warps[next]
<1>1. pos' = pos  OBVIOUS
<1>2. \A fn : HasTable(fn)' = HasTable(fn) /\ Code(fn)' = Code(fn) /\ JmpTbl(fn)' = JmpTbl(fn)
  BY DEF HasTable, Code, JmpTbl
<1>. HIDE DEF pos
<1>3. TablesAbove(pos.stack)' <=> TablesAbove(pos.stack)
  BY <1>1, <1>2 DEF TablesAbove, NoRoom
<1>4. LanesWait(pos)' <=> LanesWait(pos)  BY <1>1, <1>2 DEF LanesWait
<1>5. Reckoned(pos)' <=> Reckoned(pos)  BY <1>1, <1>2 DEF Reckoned
<1>6. (\A i \in DOMAIN pos.stack : OneRegion(pos.stack, i))'
         <=> \A i \in DOMAIN pos.stack : OneRegion(pos.stack, i)
  <2>1. ASSUME NEW i  PROVE OneRegion(pos.stack, i)' <=> OneRegion(pos.stack, i)
    <3>1. Code(pos.stack[i].fn)' = Code(pos.stack[i].fn)  BY <1>1, <1>2
    <3>2. Where(pos.stack, i)' = Where(pos.stack, i)  BY <1>1 DEF Where
    <3>3. pos.stack[i]' = pos.stack[i]  BY <1>1
    <3>4. RegionThere(pos.stack[i])' = RegionThere(pos.stack[i])
      BY <1>1 DEF RegionThere, PatchedCode
    <3>. QED  BY <3>1, <3>2, <3>3, <3>4, Zenon DEF OneRegion
  <2>. QED  BY <2>1, <1>1
<1>7. Restorable(pos)' <=> Restorable(pos)
  BY <1>1, <1>3, <1>4, <1>5, <1>6 DEF Restorable
<1>. QED  BY <1>7 DEF pos

LEMMA ProgramKept == [Next]_kvars => program' = program
BY DEF Next, kvars, CheckpointWarp, CheckpointFails, StartRestore, RestoreFails, EnterTable,
       RestoreSsy, RestoreSubcall, EnterCalled, SetLanesAside, RestorePc, Crash, Ends

LEMMA OnlyCheckpointSaves ==
    [Next]_kvars => CheckpointWarp \/ UNCHANGED <<warps, files>>
BY DEF Next, kvars, CheckpointFails, StartRestore, RestoreFails, EnterTable,
       RestoreSsy, RestoreSubcall, EnterCalled, SetLanesAside, RestorePc, Crash, Ends

LEMMA SaveInvInit == Init => SaveInv
<1>. SUFFICES ASSUME Init  PROVE SaveInv  OBVIOUS
<1>1. program \in DOMAIN Programs  BY DEF Init
<1>2. warps \in [Warp -> Positions(Programs[program]) \cup {Finished}]
      /\ files = [w \in Warp |-> NoFile]
  BY DEF Init
<1>3. \A w \in Warp : warps[w] = Finished \/ Position(warps[w])
  BY <1>1, <1>2, InitialPosition
<1>. QED  BY <1>1, <1>2, <1>3 DEF SaveInv

\* A position in a function is none of a warp that has finished.
LEMMA PositionIsNone ==
    ASSUME NEW pos, Position(pos)
    PROVE  pos # Finished /\ [stack |-> CallStack(pos), active |-> pos.active] # NoFile
<1>1. Len(pos.stack) # 0 /\ Len(CallStack(pos)) # 0  BY LaneStack DEF Position, CallChain
<1>2. pos.stack # <<>> /\ CallStack(pos) # <<>>  BY <1>1
<1>. QED  BY <1>2 DEF Finished, NoFile

LEMMA SaveInvStep == SaveInv /\ [Next]_kvars => SaveInv'
<1>. SUFFICES ASSUME SaveInv, [Next]_kvars  PROVE SaveInv'  OBVIOUS
<1>1. program' = program  BY ProgramKept
<1>2. CASE UNCHANGED <<warps, files>>
  <2>1. \A w : Saved(w)' <=> Saved(w)  BY <1>1, <1>2, SameProgram DEF Saved
  <2>. QED  BY <1>1, <1>2, <2>1, SameProgram DEF SaveInv
<1>3. CASE CheckpointWarp
  <2>1. next \in 0 .. Warps[program] - 1 \/ next \notin Warp  BY DEF Warp
  <2>2. PICK pos : pos = warps[next]  OBVIOUS
  <2>3. CASE pos = Finished
    <3>1. UNCHANGED <<warps, files>>  BY <1>3, <2>2, <2>3 DEF CheckpointWarp
    <3>. QED  BY <3>1, <1>2
  <2>4. CASE pos # Finished
    <3>1. PICK pcs : /\ pcs = RunsTo(CallStack(pos)) /\ ~Missed(pos, pcs)
                     /\ warps' = [warps EXCEPT ![next] = Checkpointable(pos, pcs)]
      BY <1>3, <2>2, <2>4 DEF CheckpointWarp
    <3>2. files' = [files EXCEPT ![next] = [stack |-> CallStack(warps'[next]),
                                            active |-> warps'[next].active]]
      BY <1>3, <2>2, <2>4 DEF CheckpointWarp
    <3>3. DOMAIN warps' = Warp /\ DOMAIN files' = Warp  BY <3>1, <3>2 DEF SaveInv
    <3>4. ASSUME NEW w \in Warp
          PROVE  /\ warps'[w] = Finished \/ Position(warps'[w])
                 /\ files'[w] = NoFile \/ Saved(w)'
      <4>1. CASE w # next
        <5>1. warps'[w] = warps[w] /\ files'[w] = files[w]  BY <4>1, <3>1, <3>2 DEF SaveInv
        <5>2. Saved(w)' <=> Saved(w)  BY <1>1, <5>1, SameProgram DEF Saved
        <5>. QED  BY <5>1, <5>2 DEF SaveInv
      <4>2. CASE w = next
        <5>1. Position(pos)  BY <2>2, <2>4, <4>2 DEF SaveInv
        <5>2. PICK new : new = Checkpointable(pos, pcs)  OBVIOUS
        <5>3. program \in DOMAIN Programs  BY DEF SaveInv
        <5>4. Position(new)  BY <5>1, <5>2, <5>3, <3>1, SavedPosition
        <5>5. NoRoom(CallStack(new)) \subseteq {1, 2}  BY <5>1, <5>2, <5>3, <3>1, SavedRooms
        <5>6. warps'[w] = new  BY <3>1, <5>2, <4>2 DEF SaveInv
        <5>7. files'[w] = [stack |-> CallStack(new), active |-> new.active]
          BY <3>2, <5>6, <4>2 DEF SaveInv
        <5>8. NoRoom(files[w].stack)' = NoRoom(CallStack(new))
          <6>1. files'[w].stack = CallStack(new)  BY <5>7
          <6>. QED  BY <6>1, <1>1 DEF NoRoom, HasTable
        <5>9. Saved(w)'  BY <5>4, <5>5, <5>6, <5>7, <5>8, PositionIsNone DEF Saved
        <5>. QED  BY <5>4, <5>6, <5>9
      <4>. QED  BY <4>1, <4>2
    <3>5. program' \in DOMAIN Programs  BY <1>1 DEF SaveInv
    <3>. QED  BY <3>3, <3>4, <3>5, <1>1, SameProgram DEF SaveInv
  <2>. QED  BY <2>3, <2>4
<1>. QED  BY <1>2, <1>3, OnlyCheckpointSaves

-----------------------------------------------------------------------------
(***************************************************************************)
(* How a restore walks.                                                    *)
(***************************************************************************)
LEMMA WalkInvInit == Init => WalkInv
<1>. SUFFICES ASSUME Init  PROVE WalkInv  OBVIOUS
<1>1. Warps[program] \in Nat  BY KernelAssumption DEF Init
<1>2. status = "checkpoint" /\ next = 0  BY DEF Init
<1>. QED  BY <1>1, <1>2 DEF WalkInv, Restoring

\* What a warp is saved with, if lane 0 is active, and what it is restored to.
LEMMA SavedStack ==
    ASSUME SaveInv, NEW w \in Warp, files[w] # NoFile
    PROVE  /\ Position(warps[w]) /\ CallChain(files[w].stack)
           /\ files[w].active = warps[w].active
           /\ 0 \in warps[w].active => files[w].stack = warps[w].stack
<1>1. Saved(w)  BY DEF SaveInv
<1>2. Position(warps[w])  BY <1>1 DEF SaveInv, Saved
<1>3. files[w] = [stack |-> CallStack(warps[w]), active |-> warps[w].active]
  BY <1>1 DEF Saved
<1>. QED  BY <1>2, <1>3, LaneStack

LEMMA WalkInvStep == SaveInv /\ WalkInv /\ [Next]_kvars => WalkInv'
<1>. SUFFICES ASSUME SaveInv, WalkInv, [Next]_kvars  PROVE WalkInv'  OBVIOUS
<1>1. program' = program /\ Warp' = Warp  BY ProgramKept, SameProgram
<1>2. PICK n \in Nat : n = Warps[program]  BY KernelAssumption DEF SaveInv
<1>3. Warp = 0 .. n - 1 /\ next \in 0 .. n  BY <1>2 DEF Warp, WalkInv
<1>4. \A fn : HasTable(fn)' = HasTable(fn)  BY <1>1, SameProgram
<1>5. CASE UNCHANGED kvars
  <2>1. Restorable(warps[next])' <=> Restorable(warps[next])
    BY <1>1, <1>5, SameRestorable DEF kvars
  <2>2. LevelInv' <=> LevelInv  BY <1>1, <1>4, <1>5 DEF kvars, LevelInv
  <2>. QED  BY <1>1, <1>4, <1>5, <2>1, <2>2 DEF kvars, WalkInv
<1>6. CASE CheckpointWarp
  <2>1. next' \in 0 .. n  BY <1>3, <1>2, <1>6 DEF CheckpointWarp
  <2>2. status' = "checkpoint"  BY <1>6 DEF CheckpointWarp
  <2>. QED  BY <1>1, <1>2, <2>1, <2>2 DEF WalkInv, Restoring
<1>7. CASE CheckpointFails \/ RestoreFails
  <2>1. next' = next /\ status' \in {"failed", "waiting"}
    BY <1>7 DEF CheckpointFails, RestoreFails, Ends
  <2>. QED  BY <1>1, <1>2, <1>3, <2>1 DEF WalkInv, Restoring
<1>8. CASE StartRestore
  <2>1. next' = 0 /\ status' = "enter" /\ HasTable(Kernel)  BY <1>8 DEF StartRestore
  <2>. QED  BY <1>1, <1>2, <1>4, <2>1 DEF WalkInv, Restoring
<1>9. CASE EnterTable
  <2>1. next \in Warp /\ HasTable(Kernel)  BY <1>2, <1>3, <1>9 DEF EnterTable, WalkInv
  <2>2. CASE status' = "enter" /\ next' = next + 1
    BY <2>1, <2>2, <1>1, <1>2, <1>3, <1>4 DEF WalkInv, Restoring
  <2>3. CASE /\ files[next] # NoFile /\ level' = TopLevel(files[next].stack)
             /\ index' = Kernel /\ status' = "ssy" /\ next' = next
    <3>1. CallChain(files[next].stack)  BY <2>1, <2>3, SavedStack
    <3>2. files' = files  BY <1>9 DEF EnterTable
    <3>3. level' = Len(files[next].stack) /\ files[next].stack[level'].fn = Kernel
          /\ level' \in 1 .. Len(files[next].stack)
      BY <3>1, <2>3 DEF TopLevel, CallChain
    <3>4. Kernel # NoTable  BY KernelAssumption, CodeAssumption DEF SaveInv
    <3>5. LevelInv'  BY <3>2, <3>3, <3>4, <2>1, <2>3, <1>1, <1>4 DEF LevelInv
    <3>. QED  BY <3>5, <2>1, <2>3, <1>1, <1>2, <1>3, <1>4 DEF WalkInv, Restoring
  <2>. QED  BY <2>2, <2>3, <1>9 DEF EnterTable
<1>10. CASE RestoreSsy
  <2>1. LevelInv /\ HasTable(Kernel) /\ index # NoTable
    BY <1>10 DEF RestoreSsy, WalkInv, Restoring
  <2>2. status' = IF level > 1 THEN "call" ELSE "lanes"  BY <1>10 DEF RestoreSsy
  <2>3. UNCHANGED <<files, next, level, index>>  BY <1>10 DEF RestoreSsy
  <2>4. level \in Nat \ {0}  BY <2>1 DEF LevelInv
  <2>5. LevelInv'  BY <2>1, <2>2, <2>3, <2>4, <1>1, <1>4 DEF LevelInv
  <2>. QED  BY <2>1, <2>2, <2>3, <2>5, <1>1, <1>3, <1>2, <1>4 DEF WalkInv, Restoring
<1>11. CASE RestoreSubcall
  <2>1. LevelInv /\ HasTable(Kernel) /\ level > 1 /\ index # NoTable
    BY <1>11 DEF RestoreSubcall, WalkInv, Restoring, LevelInv
  <2>2. status' = "jump" /\ UNCHANGED <<files, next, level, index>>
    BY <1>11 DEF RestoreSubcall
  <2>3. LevelInv'  BY <2>1, <2>2, <1>1, <1>4 DEF LevelInv
  <2>. QED  BY <2>1, <2>2, <2>3, <1>1, <1>2, <1>3, <1>4 DEF WalkInv, Restoring
<1>12. CASE EnterCalled
  <2>1. LevelInv /\ HasTable(Kernel) /\ level > 1
    BY <1>12 DEF EnterCalled, WalkInv, Restoring, LevelInv
  <2>. DEFINE called == files[next].stack[level - 1]
  <2>2. UNCHANGED <<files, next>> /\ level' = level - 1  BY <1>12 DEF EnterCalled
  <2>3. index' = IF HasTable(called.fn) THEN called.fn ELSE NoTable
    BY <1>12 DEF EnterCalled
  <2>4. status' \in {"lanes", "ssy"} /\ (status' = "lanes" => level' = 1)
        /\ (status' = "ssy" /\ ~HasTable(called.fn) => level' # 1)
    <3>1. PICK to : /\ to = IF HasTable(called.fn) THEN JmpTbl(called.fn).start_address + 1
                                                   ELSE called.pc
                    /\ status' = IF Arrived(called, to) THEN "lanes" ELSE "ssy"
      BY <1>12 DEF EnterCalled
    <3>. QED  BY <3>1, <2>2 DEF Arrived
  <2>5. level - 1 \in 1 .. Len(files[next].stack) /\ level - 1 # 1 => level - 1 > 1
    BY <2>1 DEF LevelInv
  <2>6. called.fn # NoTable
    <3>1. CallChain(files[next].stack)  BY <2>1, SavedStack DEF LevelInv
    <3>2. called \in Frames  BY <3>1, <2>5, <2>1 DEF CallChain, LevelInv
    <3>. QED  BY <3>2, CodeAssumption DEF Frames, SaveInv
  <2>7. LevelInv'
    <3>. HIDE DEF called
    <3>1. files'[next'].stack[level'] = called  BY <2>2 DEF called
    <3>2. level' \in 1 .. Len(files'[next'].stack)  BY <2>1, <2>2, <2>5 DEF LevelInv
    <3>3. next' \in Warp' /\ files'[next'] # NoFile  BY <2>1, <2>2, <1>1 DEF LevelInv
    <3>4. status' = "ssy" /\ index' = NoTable => level' > 1
      BY <2>2, <2>3, <2>4, <2>5, <2>6, <2>1 DEF LevelInv
    <3>5. IF index' = NoTable THEN ~HasTable(called.fn)
                              ELSE index' = called.fn /\ HasTable(called.fn)
      BY <2>3, <2>6
    <3>. QED  BY <3>1, <3>2, <3>3, <3>4, <3>5, <2>4, <1>4 DEF LevelInv
  <2>. HIDE DEF called
  <2>8. next' \in 0 .. n /\ HasTable(Kernel)'  BY <2>1, <2>2, <1>3, <1>4
  <2>. QED  BY <2>4, <2>7, <2>8, <1>1, <1>2 DEF WalkInv, Restoring
<1>13. CASE SetLanesAside
  <2>1. LevelInv /\ HasTable(Kernel) /\ level = 1
    BY <1>13 DEF SetLanesAside, WalkInv, Restoring, LevelInv
  <2>2. status' = "pc" /\ UNCHANGED <<files, next, level, index>>
    BY <1>13 DEF SetLanesAside
  <2>3. LevelInv'  BY <2>1, <2>2, <1>1, <1>4 DEF LevelInv
  <2>. QED  BY <2>1, <2>2, <2>3, <1>1, <1>2, <1>3, <1>4 DEF WalkInv, Restoring
<1>14. CASE RestorePc
  <2>1. LevelInv /\ HasTable(Kernel)  BY <1>14 DEF RestorePc, WalkInv, Restoring
  <2>2. status' = "enter" /\ next' = next + 1  BY <1>14 DEF RestorePc
  <2>3. next \in 0 .. n - 1  BY <2>1, <1>3 DEF LevelInv
  <2>. QED  BY <2>1, <2>2, <2>3, <1>1, <1>2, <1>4 DEF WalkInv, Restoring
<1>15. CASE Crash
  <2>1. LevelInv /\ index = NoTable
    BY <1>15 DEF Crash, WalkInv, Restoring
  <2>2. status' = "crashed" /\ UNCHANGED <<program, warps, files, next>>
    BY <1>15 DEF Crash, Ends
  <2>3. CallChain(files[next].stack) /\ files[next].active = warps[next].active
        /\ (0 \in warps[next].active => files[next].stack = warps[next].stack)
    BY <2>1, SavedStack DEF LevelInv
  <2>4. level \in NoRoom(files[next].stack)
    <3>1. DOMAIN files[next].stack = 1 .. Len(files[next].stack)  BY <2>3 DEF CallChain
    <3>. QED  BY <3>1, <2>1 DEF LevelInv, NoRoom
  <2>5. ~Restorable(warps[next])
    <3>. SUFFICES ASSUME Restorable(warps[next])  PROVE FALSE  OBVIOUS
    <3>1. files[next].stack = warps[next].stack  BY <2>3 DEF Restorable
    <3>2. NoRoom(warps[next].stack) \subseteq {1}  BY DEF Restorable, TablesAbove
    <3>3. level = 1  BY <2>4, <3>1, <3>2
    <3>4. status = "lanes" /\ files[next].active # Lane
      BY <1>15, <2>1, <3>3 DEF Crash, LevelInv
    <3>5. Position(warps[next])  BY <2>1, SavedStack DEF LevelInv
    <3>6. warps[next].level # 0  BY <2>3, <3>4, <3>5 DEF Position
    <3>7. HasTable(warps[next].stack[1].fn)  BY <3>6 DEF Restorable, LanesWait
    <3>. QED  BY <3>3, <3>7, <2>4, <3>1 DEF NoRoom
  <2>6. (~Restorable(warps[next]))'
    BY <2>2, <2>5, SameRestorable
  <2>. QED  BY <2>2, <2>6, <1>1, <1>2, <1>3 DEF WalkInv, Restoring
<1>. QED  BY <1>5, <1>6, <1>7, <1>8, <1>9, <1>10, <1>11, <1>12, <1>13, <1>14, <1>15 DEF Next

LEMMA Invariants == Spec => [](SaveInv /\ WalkInv)
<1>1. Init => SaveInv /\ WalkInv  BY SaveInvInit, WalkInvInit
<1>2. SaveInv /\ WalkInv /\ [Next]_kvars => (SaveInv /\ WalkInv)'
  BY SaveInvStep, WalkInvStep
<1>. QED  BY <1>1, <1>2, PTL DEF Spec

\* No restore uses a table that is not there, but of a warp that is not restorable, and
\* only the two innermost functions a warp is saved in may be without one.
THEOREM NoTableIsEverMissed == Spec => []NoTableIsMissed
<1>1. SaveInv /\ WalkInv => NoTableIsMissed
  BY DEF SaveInv, WalkInv, Saved, NoTableIsMissed
<1>. QED  BY <1>1, Invariants, PTL

-----------------------------------------------------------------------------
(***************************************************************************)
(* Synchronization points and return addresses.                            *)
(***************************************************************************)
\* The tokens from a level on are those of the level and those from the next one on.
LEMMA TokensUnfold ==
    ASSUME NEW stack, Len(stack) \in Nat, NEW T,
           \A i \in 1 .. Len(stack) : Tokens(stack, i) \in Seq(T)
    PROVE  /\ TokensFrom(stack)[Len(stack) + 1] = <<>>
           /\ \A i \in 1 .. Len(stack) + 1 : TokensFrom(stack)[i] \in Seq(T)
           /\ \A i \in 1 .. Len(stack) :
                 TokensFrom(stack)[i] = Tokens(stack, i) \o TokensFrom(stack)[i + 1]
<1>1. PICK l \in Nat : l = Len(stack)  OBVIOUS
<1>. DEFINE At1(f, i) == IF i > l THEN <<>> ELSE Tokens(stack, i) \o f[i + 1]
            From(f) == [i \in 1 .. l + 1 |-> At1(f, i)]
            Good == {n \in Nat : n > l \/ \E f : \A i \in l + 1 - n .. l + 1 :
                                                   f[i] \in Seq(T) /\ f[i] = At1(f, i)}
<1>2. 0 \in Good
  <2>1. PICK f : f = [i \in {l + 1} |-> <<>>]  OBVIOUS
  <2>2. f[l + 1] = <<>> /\ <<>> \in Seq(T)  BY <2>1
  <2>3. f[l + 1] \in Seq(T) /\ f[l + 1] = At1(f, l + 1)
    <3>1. At1(f, l + 1) = <<>>  OBVIOUS
    <3>. HIDE DEF At1
    <3>. QED  BY <2>2, <3>1, Zenon
  <2>4. \A i \in l + 1 - 0 .. l + 1 : i = l + 1  OBVIOUS
  <2>. HIDE DEF At1
  <2>5. \A i \in l + 1 - 0 .. l + 1 : f[i] \in Seq(T) /\ f[i] = At1(f, i)  BY <2>3, <2>4
  <2>. QED  BY <2>5
<1>3. ASSUME NEW n \in Nat, n \in Good  PROVE n + 1 \in Good
  <2>. SUFFICES ASSUME ~(n + 1 > l)
                PROVE  \E f : \A i \in l + 1 - (n + 1) .. l + 1 :
                                 f[i] \in Seq(T) /\ f[i] = At1(f, i)
    OBVIOUS
  <2>1. PICK g : \A i \in l + 1 - n .. l + 1 : g[i] \in Seq(T) /\ g[i] = At1(g, i)
    <3>1. ~(n > l)  OBVIOUS
    <3>. HIDE DEF At1
    <3>. QED  BY <1>3, <3>1
  <2>2. PICK j \in 1 .. l : j = l - n  OBVIOUS
  <2>3. PICK t : t = Tokens(stack, j) \o g[j + 1]  OBVIOUS
  <2>4. t \in Seq(T)
    <3>1. g[j + 1] \in Seq(T)  BY <2>1, <2>2
    <3>2. Tokens(stack, j) \in Seq(T)  BY <1>1
    <3>. QED  BY <2>3, <3>1, <3>2, ConcatProperties
  <2>5. PICK f : f = [i \in j .. l + 1 |-> IF i = j THEN t ELSE g[i]]  OBVIOUS
  <2>6. ASSUME NEW i \in j .. l + 1  PROVE f[i] \in Seq(T) /\ f[i] = At1(f, i)
    <3>1. CASE i = j
      <4>1. f[i] = t /\ f[i + 1] = g[j + 1]  BY <2>5, <3>1
      <4>. QED  BY <4>1, <2>3, <2>4, <3>1
    <3>2. CASE i # j
      <4>1. f[i] = g[i] /\ i \in l + 1 - n .. l + 1  BY <2>2, <2>5, <3>2
      <4>2. i <= l => f[i + 1] = g[i + 1]  BY <2>5, <3>2
      <4>3. g[i] \in Seq(T) /\ g[i] = At1(g, i)  BY <2>1, <4>1
      <4>4. At1(f, i) = At1(g, i)  BY <4>2
      <4>. QED  BY <4>1, <4>3, <4>4
    <3>. QED  BY <3>1, <3>2
  <2>7. l + 1 - (n + 1) .. l + 1 = j .. l + 1  BY <2>2
  <2>. HIDE DEF At1
  <2>. QED  BY <2>6, <2>7
<1>4. l \in Good
  <2>. HIDE DEF Good
  <2>. QED  BY <1>2, <1>3, AllNaturals
<1>5. PICK g : \A i \in 1 .. l + 1 : g[i] \in Seq(T) /\ g[i] = At1(g, i)
  <2>1. l + 1 - l .. l + 1 = 1 .. l + 1 /\ ~(l > l)  OBVIOUS
  <2>. HIDE DEF At1
  <2>. QED  BY <1>4, <2>1
<1>6. PICK h : h = [i \in 1 .. l + 1 |-> g[i]]  OBVIOUS
<1>7. h = From(h)
  <2>1. ASSUME NEW i \in 1 .. l + 1  PROVE h[i] = At1(h, i)
    <3>1. h[i] = g[i] /\ (i <= l => h[i + 1] = g[i + 1])  BY <1>6
    <3>2. At1(h, i) = At1(g, i)  BY <3>1
    <3>. QED  BY <1>5, <3>1, <3>2
  <2>. HIDE DEF At1
  <2>. QED  BY <2>1, <1>6
<1>8. TokensFrom(stack) = CHOOSE f : f = From(f)  BY <1>1 DEF TokensFrom
<1>9. PICK from : from = TokensFrom(stack)  OBVIOUS
<1>10. from = From(from)
  <2>. HIDE DEF From
  <2>. QED  BY <1>7, <1>8, <1>9
<1>11. \A i \in 1 .. l + 1 : from[i] = At1(from, i)
  <2>. HIDE DEF At1
  <2>. QED  BY <1>10
<1>12. from[l + 1] = <<>>  BY <1>11
<1>13. \A i \in 1 .. l : from[i] = Tokens(stack, i) \o from[i + 1]
  <2>. TAKE i \in 1 .. l
  <2>1. i \in 1 .. l + 1 /\ ~(i > l)  OBVIOUS
  <2>2. from[i] = At1(from, i)
    <3>. HIDE DEF At1
    <3>. QED  BY <1>11, <2>1
  <2>. QED  BY <2>1, <2>2
<1>. HIDE DEF At1, From, Good
<1>. DEFINE Typed == {n \in Nat : n > l \/ from[l + 1 - n] \in Seq(T)}
<1>14. 0 \in Typed
  <2>1. l + 1 - 0 = l + 1  OBVIOUS
  <2>2. <<>> \in Seq(T)  OBVIOUS
  <2>3. from[l + 1 - 0] \in Seq(T)  BY <1>12, <2>1, <2>2, Zenon
  <2>. QED  BY <2>3
<1>15. ASSUME NEW n \in Nat, n \in Typed  PROVE n + 1 \in Typed
  <2>. SUFFICES ASSUME ~(n + 1 > l)  PROVE from[l + 1 - (n + 1)] \in Seq(T)  OBVIOUS
  <2>1. PICK j \in 1 .. l : j = l - n  OBVIOUS
  <2>2. from[j + 1] \in Seq(T)
    <3>1. j + 1 = l + 1 - n  BY <2>1
    <3>. QED  BY <3>1, <1>15
  <2>3. Tokens(stack, j) \in Seq(T)  BY <1>1
  <2>4. from[j] \in Seq(T)  BY <2>2, <2>3, <1>13, ConcatProperties
  <2>5. l + 1 - (n + 1) = j  BY <2>1
  <2>. QED  BY <2>4, <2>5
<1>16. Nat \subseteq Typed
  <2>. HIDE DEF Typed
  <2>. QED  BY <1>14, <1>15, AllNaturals
<1>17. ASSUME NEW i \in 1 .. l + 1  PROVE from[i] \in Seq(T)
  <2>1. PICK n \in Nat : n = l + 1 - i  OBVIOUS
  <2>2. ~(n > l) /\ l + 1 - n = i  BY <2>1
  <2>. QED  BY <2>2, <1>16
<1>. QED  BY <1>1, <1>9, <1>12, <1>13, <1>17
\* What a restorable warp has at a level of its stack: the region it is in, and the
\* address it is to return to.
Token == [kind : {"ssy", "pret"}, fn : DOMAIN Programs[program], to : Nat]
Opened(stack, i) ==
    LET code == Code(stack[i].fn)
    IN  IF Open(code, Where(stack, i), "ssy") = {} THEN <<>>
        ELSE <<[kind |-> "ssy", fn |-> stack[i].fn, to |-> Region(code, "ssy", stack[i].pc)]>>
Returning(stack, i) ==
    IF i < Len(stack) THEN <<[kind |-> "pret", fn |-> stack[i + 1].fn, to |-> stack[i + 1].pc]>>
                      ELSE <<>>

LEMMA LevelTokens ==
    ASSUME program \in DOMAIN Programs, NEW stack, CallChain(stack),
           NEW i \in 1 .. Len(stack), OneRegion(stack, i)
    PROVE  /\ Tokens(stack, i) = Opened(stack, i) \o Returning(stack, i)
           /\ Opened(stack, i) \in Seq(Token) /\ Returning(stack, i) \in Seq(Token)
<1>1. PICK l \in Nat \ {0} : l = Len(stack)  BY DEF CallChain
<1>2. PICK fn : fn = stack[i].fn  OBVIOUS
<1>3. PICK code : code = Code(fn)  OBVIOUS
<1>4. PICK here : here = Where(stack, i)  OBVIOUS
<1>5. stack \in Seq(Frames)  BY DEF CallChain
<1>6. stack[i] \in Frames  BY <1>5
<1>7. fn \in DOMAIN Programs[program] /\ IsFunction(code)
  BY <1>2, <1>3, <1>6, OfProgram DEF Frames
<1>8. PICK to : to = Region(code, "ssy", stack[i].pc)  OBVIOUS
<1>9. to \in Nat  BY <1>7, <1>8, RegionEnds
<1>10. Returning(stack, i) \in Seq(Token)
  <2>1. CASE i < Len(stack)
    <3>1. i + 1 \in 1 .. Len(stack)  BY <1>1, <2>1
    <3>2. stack[i + 1] \in Frames  BY <1>5, <3>1
    <3>3. [kind |-> "pret", fn |-> stack[i + 1].fn, to |-> stack[i + 1].pc] \in Token
      BY <3>2 DEF Frames, Token
    <3>. QED  BY <2>1, <3>3 DEF Returning
  <2>2. CASE ~(i < Len(stack))  BY <2>2 DEF Returning
  <2>. QED  BY <2>1, <2>2
<1>11. PICK open : open = Open(code, here, "ssy")  OBVIOUS
<1>12. Open(code, here, "pbk") = {} /\ (\A a, b \in open : a = b)
       /\ {code[a].to : a \in open} = IF to > here THEN {to} ELSE {}
  <2>1. code = Code(stack[i].fn)  BY <1>2, <1>3
  <2>2. /\ Open(code, here, "pbk") = {}
        /\ \A a, b \in Open(code, here, "ssy") : a = b
        /\ {code[a].to : a \in Open(code, here, "ssy")} = IF to > here THEN {to} ELSE {}
    BY <2>1, <1>4, <1>8, Zenon DEF OneRegion
  <2>. QED  BY <2>2, <1>11, Zenon
<1>13. \A a \in open : code[a].op = "ssy" /\ code[a].to = to
  <2>. TAKE a \in open
  <2>1. code[a].op = "ssy"  BY <1>11 DEF Open, At
  <2>2. code[a].to \in IF to > here THEN {to} ELSE {}  BY <1>12
  <2>. QED  BY <2>1, <2>2
<1>. DEFINE n == Cardinality(open)
            at == [j \in 1 .. n |-> Nth(open, n + 1 - j)]
            tokens == [j \in DOMAIN at |-> [kind |-> code[at[j]].op, fn |-> fn,
                                           to |-> code[at[j]].to]]
<1>14. Tokens(stack, i) = tokens \o Returning(stack, i)
  <2>1. open \cup {} = open  OBVIOUS
  <2>. QED  BY <2>1, <1>2, <1>3, <1>4, <1>11, <1>12 DEF Tokens, Returning
<1>15. Opened(stack, i)
          = IF open = {} THEN <<>> ELSE <<[kind |-> "ssy", fn |-> fn, to |-> to]>>
  BY <1>2, <1>3, <1>4, <1>8, <1>11 DEF Opened
<1>16. CASE open = {}
  <2>1. n = 0  BY <1>16, FS_EmptySet
  <2>2. tokens = <<>>
    <3>. HIDE DEF n
    <3>. QED  BY <2>1
  <2>. HIDE DEF tokens
  <2>. QED  BY <2>2, <1>10, <1>14, <1>15, <1>16
<1>17. CASE open # {}
  <2>1. PICK a \in open : TRUE  BY <1>17
  <2>2. open = {a}  BY <2>1, <1>12
  <2>3. n = 1  BY <2>2, FS_Singleton
  <2>4. a \in Nat /\ IsFiniteSet(open)
    <3>1. open \subseteq DOMAIN code  BY <1>7, <1>11, CodeAddresses DEF Open
    <3>2. DOMAIN code \subseteq Nat  BY <1>7, CodeAddresses
    <3>. QED  BY <2>1, <2>2, <3>1, <3>2, FS_Singleton
  <2>5. Nth(open, 1) = a
    <3>1. \E j \in 1 .. n : Nth(open, j) = a
      <4>1. open \subseteq Nat  BY <2>2, <2>4
      <4>. QED  BY <4>1, <2>1, <2>4, NthOfRank
    <3>. HIDE DEF n
    <3>. QED  BY <3>1, <2>3
  <2>6. PICK token : token = [kind |-> "ssy", fn |-> fn, to |-> to]  OBVIOUS
  <2>7. code[a].op = "ssy" /\ code[a].to = to  BY <1>13, <2>1
  <2>8. tokens = <<token>>
    <3>. HIDE DEF n
    <3>1. DOMAIN at = {1} /\ at[1] = a  BY <2>3, <2>5
    <3>. HIDE DEF at
    <3>2. tokens = [j \in {1} |-> token]  BY <3>1, <2>6, <2>7
    <3>. HIDE DEF tokens
    <3>. QED  BY <3>2
  <2>. HIDE DEF tokens
  <2>9. token \in Token  BY <1>7, <1>9, <2>6 DEF Token
  <2>. QED  BY <2>6, <2>8, <2>9, <1>10, <1>14, <1>15, <1>17
<1>. QED  BY <1>16, <1>17

\* What a warp has when it has come to level i, whose region is not yet open.
Entered(stack, i) == Returning(stack, i) \o TokensFrom(stack)[i + 1]

LEMMA TokensOfStack ==
    ASSUME program \in DOMAIN Programs, NEW stack, CallChain(stack),
           \A i \in 1 .. Len(stack) : OneRegion(stack, i)
    PROVE  /\ Entered(stack, Len(stack)) = <<>>
           /\ \A i \in 1 .. Len(stack) :
                 /\ Entered(stack, i) \in Seq(Token) /\ TokensFrom(stack)[i] \in Seq(Token)
                 /\ TokensFrom(stack)[i] = Opened(stack, i) \o Entered(stack, i)
<1>1. PICK l \in Nat \ {0} : l = Len(stack)  BY DEF CallChain
<1>2. ASSUME NEW i \in 1 .. l
      PROVE  /\ Tokens(stack, i) = Opened(stack, i) \o Returning(stack, i)
             /\ Opened(stack, i) \in Seq(Token) /\ Returning(stack, i) \in Seq(Token)
  BY <1>1, LevelTokens
<1>3. \A i \in 1 .. l : Tokens(stack, i) \in Seq(Token)  BY <1>2, ConcatProperties
<1>4. PICK from : from = TokensFrom(stack)  OBVIOUS
<1>5. /\ from[l + 1] = <<>> /\ \A i \in 1 .. l + 1 : from[i] \in Seq(Token)
      /\ \A i \in 1 .. l : from[i] = Tokens(stack, i) \o from[i + 1]
  <2>1. l \in Nat  OBVIOUS
  <2>. QED  BY <2>1, <1>1, <1>3, <1>4, TokensUnfold
<1>6. Entered(stack, l) = <<>>
  <2>1. Returning(stack, l) = <<>>  BY <1>1 DEF Returning
  <2>2. Entered(stack, l) = <<>> \o <<>>  BY <2>1, <1>4, <1>5 DEF Entered
  <2>. QED  BY <2>2
<1>7. ASSUME NEW i \in 1 .. l
      PROVE  /\ Entered(stack, i) \in Seq(Token) /\ from[i] \in Seq(Token)
             /\ from[i] = Opened(stack, i) \o Entered(stack, i)
  <2>1. i + 1 \in 1 .. l + 1 /\ i \in 1 .. l + 1  OBVIOUS
  <2>2. from[i + 1] \in Seq(Token) /\ from[i] \in Seq(Token)  BY <2>1, <1>5
  <2>3. Entered(stack, i) = Returning(stack, i) \o from[i + 1]  BY <1>4 DEF Entered
  <2>4. Entered(stack, i) \in Seq(Token)  BY <2>2, <2>3, <1>2, ConcatProperties
  <2>5. from[i] = (Opened(stack, i) \o Returning(stack, i)) \o from[i + 1]  BY <1>2, <1>5
  <2>6. from[i] = Opened(stack, i) \o (Returning(stack, i) \o from[i + 1])
    <3>1. PICK a \in Seq(Token), b \in Seq(Token), c \in Seq(Token) :
             a = Opened(stack, i) /\ b = Returning(stack, i) /\ c = from[i + 1]
      BY <2>2, <1>2
    <3>2. (a \o b) \o c = a \o (b \o c)  BY ConcatAssociative
    <3>. QED  BY <2>5, <3>1, <3>2
  <2>. QED  BY <2>2, <2>3, <2>4, <2>6
<1>. QED  BY <1>1, <1>4, <1>6, <1>7

-----------------------------------------------------------------------------
(***************************************************************************)
(* Single steps.                                                           *)
(***************************************************************************)
AWarp(fn, pc, tokens, active) == [fn |-> fn, pc |-> pc, tokens |-> tokens, active |-> active]

LEMMA Executes ==
    ASSUME NEW fn, NEW pc, NEW tokens, NEW active, NEW word, NEW offset, NEW aside
    PROVE  Execute(AWarp(fn, pc, tokens, active), word, offset, aside)
              = AWarp(fn, Skip(pc + 1 + IF word.op = "brx" THEN offset ELSE 0),
                      IF word.op \notin {"ssy", "pret"} THEN tokens
                      ELSE <<[kind |-> word.op, fn |-> fn, to |-> word.to]>> \o tokens,
                      IF word.op = "sync" THEN active \ aside ELSE active)
<1>1. PICK w : w = AWarp(fn, pc, tokens, active)  OBVIOUS
<1>2. w.fn = fn /\ w.pc = pc /\ w.tokens = tokens /\ w.active = active  BY <1>1 DEF AWarp
<1>3. PICK t : t = IF word.op \notin {"ssy", "pret"} THEN tokens
                   ELSE <<[kind |-> word.op, fn |-> fn, to |-> word.to]>> \o tokens
  OBVIOUS
<1>4. PICK a : a = IF word.op = "sync" THEN active \ aside ELSE active  OBVIOUS
<1>5. PICK p : p = Skip(pc + 1 + IF word.op = "brx" THEN offset ELSE 0)  OBVIOUS
<1>6. Execute(w, word, offset, aside) = [w EXCEPT !.tokens = t, !.active = a, !.pc = p]
  <2>1. t = IF word.op \notin {"ssy", "pret"} THEN w.tokens
            ELSE <<[kind |-> word.op, fn |-> w.fn, to |-> word.to]>> \o w.tokens
    BY <1>2, <1>3
  <2>2. a = IF word.op = "sync" THEN w.active \ aside ELSE w.active  BY <1>2, <1>4
  <2>3. p = Skip(w.pc + 1 + IF word.op = "brx" THEN offset ELSE 0)  BY <1>2, <1>5
  <2>4. Execute(w, word, offset, aside)
           = [w EXCEPT !.tokens = IF word.op \notin {"ssy", "pret"} THEN w.tokens
                                  ELSE <<[kind |-> word.op, fn |-> w.fn, to |-> word.to]>>
                                       \o w.tokens,
                       !.active = IF word.op = "sync" THEN w.active \ aside ELSE w.active,
                       !.pc = Skip(w.pc + 1 + IF word.op = "brx" THEN offset ELSE 0)]
    BY <1>1 DEF Execute, AWarp
  <2>. QED  BY <2>1, <2>2, <2>3, <2>4, Zenon
<1>7. [w EXCEPT !.tokens = t, !.active = a, !.pc = p] = AWarp(fn, p, t, a)
  <2>1. PICK v : v = [w EXCEPT !.tokens = t]  OBVIOUS
  <2>2. v = AWarp(fn, pc, t, active)  BY <1>1, <2>1 DEF AWarp
  <2>3. PICK u : u = [v EXCEPT !.active = a]  OBVIOUS
  <2>4. u = AWarp(fn, pc, t, a)  BY <2>2, <2>3 DEF AWarp
  <2>5. [u EXCEPT !.pc = p] = AWarp(fn, p, t, a)  BY <2>4 DEF AWarp
  <2>6. [[[w EXCEPT !.tokens = t] EXCEPT !.active = a] EXCEPT !.pc = p]
           = [w EXCEPT !.tokens = t, !.active = a, !.pc = p]
    OBVIOUS
  <2>. QED  BY <2>1, <2>3, <2>5, <2>6
<1>. QED  BY <1>1, <1>3, <1>4, <1>5, <1>6, <1>7

\* The words of a table are where the warp steps.
LEMMA WordThere ==
    ASSUME program \in DOMAIN Programs, NEW fn \in DOMAIN Programs[program], HasTable(fn),
           NEW k \in 1 .. Needed(Code(fn)) + 1, NEW tokens, NEW active
    PROVE  /\ Place(Code(fn), k) \in Nat /\ ~IsControl(Place(Code(fn), k))
           /\ Skip(Place(Code(fn), k) + 1) = Place(Code(fn), k + 1)
           /\ Word(AWarp(fn, Place(Code(fn), k), tokens, active)) = InstructionAt(Code(fn), k)
<1>1. PICK code : code = Code(fn)  OBVIOUS
<1>2. IsFunction(code) /\ HasRoom(code) /\ NewBinary[program][fn] = Patched(code)
  BY <1>1, OfProgram
<1>3. TableLies(code)  BY <1>2, TablePlaces
<1>4. Place(code, k) \in DOMAIN Patched(code)
      /\ Patched(code)[Place(code, k)] = InstructionAt(code, k)
  BY <1>1, <1>2, PatchedPlaces
<1>5. Word(AWarp(fn, Place(code, k), tokens, active)) = InstructionAt(code, k)
  BY <1>2, <1>4 DEF Word, PatchedCode, AWarp
<1>6. Place(code, k) \in Nat /\ ~IsControl(Place(code, k))
      /\ Skip(Place(code, k) + 1) = Place(code, k + 1)
  BY <1>1, <1>3 DEF TableLies
<1>. QED  BY <1>1, <1>5, <1>6

\* A warp is at an instruction of a table.
AtInstruction(fn, address, instr) ==
    \E k \in 1 .. Needed(Code(fn)) + 1 :
        Place(Code(fn), k) = address /\ InstructionAt(Code(fn), k) = instr

LEMMA SkipsNothing == ASSUME NEW a, ~IsControl(a)  PROVE Skip(a) = a
BY DEF Skip

\* From a branch a warp can be sent anywhere.
LEMMA Sent ==
    ASSUME program \in DOMAIN Programs, NEW fn \in DOMAIN Programs[program], HasTable(fn),
           NEW pc, AtInstruction(fn, pc, Branch), NEW tokens, NEW active,
           NEW to \in Nat, ~IsControl(to)
    PROVE  BranchBy(AWarp(fn, pc, tokens, active), to - pc - 1) = AWarp(fn, to, tokens, active)
<1>1. PICK k \in 1 .. Needed(Code(fn)) + 1 :
         Place(Code(fn), k) = pc /\ InstructionAt(Code(fn), k) = Branch
  BY DEF AtInstruction
<1>2. PICK warp : warp = AWarp(fn, pc, tokens, active)  OBVIOUS
<1>3. Word(warp) = Branch /\ pc \in Nat  BY <1>1, <1>2, WordThere
<1>4. Branch.op = "brx"  BY BranchFields
<1>5. BranchBy(warp, to - pc - 1)
         = AWarp(fn, Skip(pc + 1 + (to - pc - 1)), tokens, active)
  <2>1. BranchBy(warp, to - pc - 1) = Execute(warp, Branch, to - pc - 1, {})
    BY <1>3 DEF BranchBy
  <2>2. Branch.op \notin {"ssy", "pret", "sync"}  BY <1>4
  <2>3. Execute(warp, Branch, to - pc - 1, {})
           = AWarp(fn, Skip(pc + 1 + IF Branch.op = "brx" THEN to - pc - 1 ELSE 0),
                   IF Branch.op \notin {"ssy", "pret"} THEN tokens
                   ELSE <<[kind |-> Branch.op, fn |-> fn, to |-> Branch.to]>> \o tokens,
                   IF Branch.op = "sync" THEN active \ {} ELSE active)
    BY <1>2, Executes
  <2>. QED  BY <2>1, <2>2, <2>3, <1>4
<1>6. pc + 1 + (to - pc - 1) = to  BY <1>3
<1>. QED  BY <1>2, <1>5, <1>6, SkipsNothing

\* A warp that has passed instruction k of a table.
Passed(fn, k, tokens, active, aside) ==
    LET word == InstructionAt(Code(fn), k)
    IN  AWarp(fn, Place(Code(fn), k + 1),
              IF word.op \notin {"ssy", "pret"} THEN tokens
              ELSE <<[kind |-> word.op, fn |-> fn, to |-> word.to]>> \o tokens,
              IF word.op = "sync" THEN active \ aside ELSE active)

\* A step over an instruction of a table that is no branch.
LEMMA Stepped ==
    ASSUME program \in DOMAIN Programs, NEW fn \in DOMAIN Programs[program], HasTable(fn),
           NEW k \in 1 .. Needed(Code(fn)), NEW tokens, NEW active, NEW aside,
           InstructionAt(Code(fn), k).op # "brx"
    PROVE  Step(AWarp(fn, Place(Code(fn), k), tokens, active), aside)
              = Passed(fn, k, tokens, active, aside)
<1>w. PICK word : word = InstructionAt(Code(fn), k)  OBVIOUS
<1>1. PICK pc : pc = Place(Code(fn), k)  OBVIOUS
<1>2. PICK warp : warp = AWarp(fn, pc, tokens, active)  OBVIOUS
<1>3. k \in 1 .. Needed(Code(fn)) + 1
  <2>1. TableLies(Code(fn))  BY OfProgram, TablePlaces
  <2>. QED  BY <2>1 DEF TableLies
<1>4. pc \in Nat /\ Skip(pc + 1) = Place(Code(fn), k + 1) /\ Word(warp) = word
  BY <1>1, <1>2, <1>3, <1>w, WordThere
<1>5. PICK zero : zero = 0  OBVIOUS
<1>6. Step(warp, aside) = Execute(warp, word, zero, aside)  BY <1>4, <1>5, <1>w DEF Step
<1>7. Execute(warp, word, zero, aside)
         = AWarp(fn, Skip(pc + 1 + IF word.op = "brx" THEN zero ELSE 0),
                 IF word.op \notin {"ssy", "pret"} THEN tokens
                 ELSE <<[kind |-> word.op, fn |-> fn, to |-> word.to]>> \o tokens,
                 IF word.op = "sync" THEN active \ aside ELSE active)
  BY <1>2, Executes
<1>8. pc + 1 + (IF word.op = "brx" THEN zero ELSE 0) = pc + 1  BY <1>4, <1>w
<1>. QED  BY <1>1, <1>2, <1>4, <1>6, <1>7, <1>8, <1>w DEF Passed

\* A table is entered from the word before it.
LEMMA Started ==
    ASSUME program \in DOMAIN Programs, NEW fn \in DOMAIN Programs[program], HasTable(fn)
    PROVE  /\ JmpTbl(fn).start_address \in Int
           /\ Skip(JmpTbl(fn).start_address + 1) = Place(Code(fn), 1)
           /\ ~IsControl(JmpTbl(fn).start_address + 1)
                 => JmpTbl(fn).start_address + 1 = Place(Code(fn), 1)
           /\ AtInstruction(fn, Place(Code(fn), 1), Branch)
           /\ Place(Code(fn), 1) = FirstBpt(Code(fn))
           /\ \A tokens, active :
                 Step(AWarp(fn, JmpTbl(fn).start_address, tokens, active), {})
                    = AWarp(fn, Place(Code(fn), 1), tokens, active)
<1>1. PICK code : code = Code(fn)  OBVIOUS
<1>2. IsFunction(code) /\ HasRoom(code) /\ NewBinary[program][fn] = Patched(code)
      /\ JmpTbl(fn) = Index(code)
  BY <1>1, OfProgram
<1>3. TableLies(code)  BY <1>2, TablePlaces
<1>4. PICK f \in Nat \ {0} : f = FirstBpt(code)  BY <1>3 DEF TableLies
<1>5. f % 4 \in 1 .. 3  BY <1>2, <1>4, TableBegins
<1>6. PICK start : start = JmpTbl(fn).start_address  OBVIOUS
<1>7. start = StartAddress(code)  BY <1>2, <1>6, IndexPlaces
<1>8. start = IF IsControl(f - 1) THEN f - 2 ELSE f - 1  BY <1>4, <1>7 DEF StartAddress
<1>9. start \in Int /\ start < f /\ Skip(start + 1) = f
      /\ (~IsControl(start + 1) => start + 1 = f)
  BY <1>5, <1>8 DEF Skip, IsControl
<1>10. Place(code, 1) = f /\ 1 \in 1 .. Needed(code) + 1  BY <1>3, <1>4 DEF TableLies
<1>11. AtInstruction(fn, Place(code, 1), Branch)
  <2>1. InstructionAt(code, 1) = Branch  BY DEF InstructionAt
  <2>. QED  BY <2>1, <1>1, <1>10 DEF AtInstruction
<1>12. ASSUME NEW tokens, NEW active
       PROVE  Step(AWarp(fn, start, tokens, active), {}) = AWarp(fn, f, tokens, active)
  <2>1. PICK warp : warp = AWarp(fn, start, tokens, active)  OBVIOUS
  <2>2. PICK word : word = Word(warp)  OBVIOUS
  <2>3. word = IF start \in DOMAIN Patched(code) THEN Patched(code)[start]
               ELSE Instr("other", 0)
    BY <2>1, <2>2, <1>2 DEF Word, PatchedCode, AWarp
  <2>4. word.op \notin {"ssy", "pret", "brx", "sync"}
    <3>1. CASE start \in DOMAIN Patched(code)
      <4>1. start \in DOMAIN code /\ word = code[start]
        BY <3>1, <2>3, <1>2, <1>4, <1>9, PatchedPlaces
      <4>2. word.op \in Ops  BY <4>1, <1>2, CodeWords
      <4>3. At(code, "bpt") # {}  BY <1>2, TableBegins
      <4>4. start \notin At(code, "ssy")  BY <4>3, <1>2, <1>7 DEF IsFunction
      <4>5. word.op # "ssy"  BY <4>1, <4>4 DEF At
      <4>. QED  BY <4>2, <4>5 DEF Ops
    <3>2. CASE start \notin DOMAIN Patched(code)
      <4>1. word.op = "other"  BY <3>2, <2>3, InstrFields
      <4>. QED  BY <4>1
    <3>. QED  BY <3>1, <3>2
  <2>5. Step(warp, {}) = Execute(warp, word, 0, {})  BY <2>2 DEF Step
  <2>z. PICK zero : zero = 0  OBVIOUS
  <2>6. Execute(warp, word, zero, {})
           = AWarp(fn, Skip(start + 1 + IF word.op = "brx" THEN zero ELSE 0),
                   IF word.op \notin {"ssy", "pret"} THEN tokens
                   ELSE <<[kind |-> word.op, fn |-> fn, to |-> word.to]>> \o tokens,
                   IF word.op = "sync" THEN active \ {} ELSE active)
    BY <2>1, Executes
  <2>7. start + 1 + (IF word.op = "brx" THEN zero ELSE 0) = start + 1  BY <2>4, <1>9
  <2>. QED  BY <2>1, <2>4, <2>5, <2>6, <2>7, <2>z, <1>9
<1>. QED  BY <1>1, <1>4, <1>6, <1>9, <1>10, <1>11, <1>12

-----------------------------------------------------------------------------
(***************************************************************************)
(* Where the innermost function of a saved warp is.                        *)
(***************************************************************************)
\* The region opened last before an address.
LEMMA LastOpened ==
    ASSUME NEW code, IsFunction(code), NEW op, NEW pc \in Nat
    PROVE  \/ Region(code, op, pc) = 0 /\ \A a \in At(code, op) : a > pc
           \/ \E x \in At(code, op) : /\ x <= pc /\ Region(code, op, pc) = code[x].to
                                      /\ \A a \in At(code, op) : a <= pc => a <= x
<1>. DEFINE before == {a \in At(code, op) : a <= pc}
<1>0. At(code, op) \subseteq Nat  BY CodeAddresses
<1>1. CASE before = {}
  <2>1. Region(code, op, pc) = 0  BY <1>1 DEF Region
  <2>2. \A a \in At(code, op) : a > pc  BY <1>0, <1>1
  <2>. QED  BY <2>1, <2>2
<1>2. CASE before # {}
  <2>1. before \subseteq Nat /\ \A a \in before : a <= pc  BY <1>0
  <2>2. PICK x : x = Max(before)  OBVIOUS
  <2>3. x \in before /\ \A a \in before : a <= x
    <3>. HIDE DEF before
    <3>. QED  BY <1>2, <2>1, <2>2, MaxIsGreatest
  <2>4. Region(code, op, pc) = code[x].to  BY <1>2, <2>2 DEF Region
  <2>. QED  BY <2>3, <2>4
<1>. QED  BY <1>1, <1>2

\* Where a warp is run to in the outermost function without a table.
LEMMA RunsBehind ==
    ASSUME program \in DOMAIN Programs, NEW stack, CallChain(stack), NoRoom(stack) # {},
           NEW f, f = stack[Outermost(stack)], NEW code, code = Code(f.fn),
           NEW pcs, pcs = RunsTo(stack)
    PROVE  /\ \A op \in {"ssy", "pbk"} : Region(code, op, f.pc) > f.pc =>
                 \E n \in DOMAIN pcs : pcs[n] = Skip(Region(code, op, f.pc))
           /\ \A n \in DOMAIN pcs :
                 \/ pcs[n] = Skip(f.pc + 1)
                 \/ \E op \in {"ssy", "pbk"} : /\ Region(code, op, f.pc) > f.pc
                                               /\ pcs[n] = Skip(Region(code, op, f.pc))
<1>1. PICK i \in 1 .. Len(stack) : i = Outermost(stack)  BY OutermostIs
<1>2. stack[i] \in Frames  BY DEF CallChain
<1>4. IsFunction(code) /\ f.pc \in Nat
  BY <1>1, <1>2, CodeAssumption DEF Frames, Code
<1>. DEFINE to(op) == Region(code, op, f.pc)
            ahead(op) == IF to(op) > f.pc THEN <<Skip(to(op))>> ELSE <<>>
            up == IF StepsUp(i) THEN <<Skip(f.pc + 1)>> ELSE <<>>
<1>5. \A op : Skip(to(op)) \in Places  BY <1>4, RegionEnds, SkipIsPlace
<1>6. \A op : /\ ahead(op) \in Seq(Places) /\ Len(ahead(op)) \in 0 .. 1
              /\ (Len(ahead(op)) = 1 => ahead(op)[1] = Skip(to(op)) /\ to(op) > f.pc)
              /\ (to(op) > f.pc => Len(ahead(op)) = 1)
  <2>. HIDE DEF to
  <2>. QED  BY <1>5
<1>7. up \in Seq(Places) /\ Len(up) \in 0 .. 1 /\ (Len(up) = 1 => up[1] = Skip(f.pc + 1))
  <2>1. f.pc + 1 \in Nat  BY <1>4
  <2>2. Skip(f.pc + 1) \in Places  BY <2>1, SkipIsPlace
  <2>. QED  BY <2>2
<1>8. pcs = up \o (ahead("ssy") \o ahead("pbk"))
  BY <1>1 DEF RunsTo, JoinsAt
<1>. HIDE DEF ahead, up, to
<1>9. PICK a \in 0 .. 1, b \in 0 .. 1, c \in 0 .. 1 :
         a = Len(up) /\ b = Len(ahead("ssy")) /\ c = Len(ahead("pbk"))
  BY <1>6, <1>7
<1>10. PICK joins : joins = ahead("ssy") \o ahead("pbk")  OBVIOUS
<1>11. Joined(Places, ahead("ssy"), ahead("pbk"), b, c)  BY <1>6, <1>9, TwoParts
<1>12. joins \in Seq(Places) /\ Len(joins) = b + c
       /\ \A k \in 1 .. b + c : joins[k] = IF k <= b THEN ahead("ssy")[k] ELSE ahead("pbk")[k - b]
  BY <1>10, <1>11 DEF Joined
<1>13. b + c \in Nat  OBVIOUS
<1>14. Joined(Places, up, joins, a, b + c)  BY <1>7, <1>9, <1>12, <1>13, TwoParts
<1>15. pcs \in Seq(Places) /\ Len(pcs) = a + (b + c)
       /\ \A k \in 1 .. a + (b + c) : pcs[k] = IF k <= a THEN up[k] ELSE joins[k - a]
  BY <1>8, <1>10, <1>14 DEF Joined
<1>16. DOMAIN pcs = 1 .. a + (b + c)  BY <1>15
<1>17. ASSUME to("ssy") > f.pc  PROVE \E n \in DOMAIN pcs : pcs[n] = Skip(to("ssy"))
  <2>1. b = 1 /\ ahead("ssy")[1] = Skip(to("ssy"))  BY <1>6, <1>9, <1>17
  <2>2. a + 1 \in 1 .. a + (b + c) /\ ~(a + 1 <= a) /\ a + 1 - a = 1 /\ 1 \in 1 .. b + c /\ 1 <= b
    BY <2>1
  <2>3. pcs[a + 1] = joins[1]  BY <2>2, <1>15
  <2>4. joins[1] = ahead("ssy")[1]  BY <2>2, <1>12
  <2>. QED  BY <2>1, <2>2, <2>3, <2>4, <1>16
<1>18. ASSUME to("pbk") > f.pc  PROVE \E n \in DOMAIN pcs : pcs[n] = Skip(to("pbk"))
  <2>1. c = 1 /\ ahead("pbk")[1] = Skip(to("pbk"))  BY <1>6, <1>9, <1>18
  <2>2. PICK k \in Nat : k = b + 1  OBVIOUS
  <2>3. k \in 1 .. b + c /\ ~(k <= b) /\ k - b = 1
        /\ a + k \in 1 .. a + (b + c) /\ ~(a + k <= a) /\ a + k - a = k
    BY <2>1, <2>2
  <2>4. pcs[a + k] = joins[k]  BY <2>3, <1>15
  <2>5. joins[k] = ahead("pbk")[1]  BY <2>3, <1>12
  <2>. QED  BY <2>1, <2>3, <2>4, <2>5, <1>16
<1>19. ASSUME NEW n \in DOMAIN pcs
       PROVE  \/ pcs[n] = Skip(f.pc + 1)
              \/ \E op \in {"ssy", "pbk"} : to(op) > f.pc /\ pcs[n] = Skip(to(op))
  <2>1. n \in 1 .. a + (b + c)  BY <1>16
  <2>2. CASE n <= a
    <3>1. n = 1 /\ a = 1  BY <2>1, <2>2
    <3>2. pcs[n] = up[1]  BY <2>1, <2>2, <3>1, <1>15
    <3>. QED  BY <3>1, <3>2, <1>7, <1>9
  <2>3. CASE ~(n <= a)
    <3>1. PICK k \in 1 .. b + c : k = n - a  BY <2>1, <2>3
    <3>2. pcs[n] = joins[k]  BY <2>1, <2>3, <3>1, <1>15
    <3>3. CASE k <= b
      <4>1. k = 1 /\ b = 1  BY <3>1, <3>3
      <4>2. joins[k] = ahead("ssy")[1]  BY <3>3, <4>1, <1>12
      <4>. QED  BY <3>2, <4>1, <4>2, <1>6, <1>9
    <3>4. CASE ~(k <= b)
      <4>1. k - b = 1 /\ c = 1  BY <3>1, <3>4
      <4>2. joins[k] = ahead("pbk")[1]  BY <3>4, <4>1, <1>12
      <4>. QED  BY <3>2, <4>1, <4>2, <1>6, <1>9
    <3>. QED  BY <3>3, <3>4
  <2>. QED  BY <2>2, <2>3
<1>20. ASSUME NEW op \in {"ssy", "pbk"}, to(op) > f.pc
       PROVE  \E n \in DOMAIN pcs : pcs[n] = Skip(to(op))
  <2>1. CASE op = "ssy"  BY <2>1, <1>17, <1>20
  <2>2. CASE op = "pbk"  BY <2>2, <1>18, <1>20
  <2>. QED  BY <2>1, <2>2
<1>. QED  BY <1>19, <1>20 DEF to

LEMMA SkipBounds ==
    ASSUME NEW a \in Nat
    PROVE  /\ Skip(a) \in Nat /\ a <= Skip(a) /\ Skip(a) <= a + 1
           /\ \A x \in Nat : ~IsControl(x) /\ x < Skip(a) => x < a
BY DEF Skip

\* A warp that is run on to the end of what is open is in no region.
LEMMA NothingOpen ==
    ASSUME NEW code, IsFunction(code), NEW pc \in Nat, NEW to \in Nat,
           \/ to = Skip(pc + 1)
           \/ \E op \in {"ssy", "pbk"} : /\ Region(code, op, pc) > pc
                                         /\ to = Skip(Region(code, op, pc)),
           Region(code, "ssy", pc) > pc => Region(code, "ssy", pc) <= to,
           NEW x \in Open(code, to, "ssy"), Region(code, "ssy", to) = code[x].to,
           to \notin At(code, "ssy"), \A a, b \in Open(code, to, "ssy") : a = b
    PROVE  FALSE
<1>1. x \in At(code, "ssy") /\ x < to /\ to < code[x].to  BY DEF Open
<1>2. At(code, "ssy") \subseteq DOMAIN code /\ DOMAIN code \subseteq Nat  BY CodeAddresses
<1>3. x \in Nat /\ x \in DOMAIN code /\ code[x].to \in Nat  BY <1>1, <1>2, CodeWords
<1>4. ~IsControl(x)
  <2>1. code[x].op = "ssy"  BY <1>1 DEF At
  <2>2. Control.op # "ssy"  BY InstrFields DEF Control
  <2>. QED  BY <2>1, <2>2, <1>3, CodeWords
<1>5. \A a \in At(code, "ssy") : a <= to => a <= x
  <2>1. PICK m \in At(code, "ssy") : /\ m <= to /\ code[x].to = code[m].to
                                    /\ \A a \in At(code, "ssy") : a <= to => a <= m
    BY <1>1, <1>3, LastOpened
  <2>2. m \in Nat /\ m # to  BY <2>1, <1>2
  <2>3. m \in Open(code, to, "ssy")  BY <2>1, <2>2, <1>1 DEF Open
  <2>4. m = x  BY <2>3
  <2>. QED  BY <2>1, <2>4
<1>6. to > pc
  <2>1. ASSUME NEW op, Region(code, op, pc) > pc
        PROVE  Skip(Region(code, op, pc)) > pc
    BY <2>1, RegionEnds, SkipBounds
  <2>2. Skip(pc + 1) > pc
    <3>1. pc + 1 \in Nat  OBVIOUS
    <3>. QED  BY <3>1, SkipBounds
  <2>. QED  BY <2>1, <2>2
<1>7. CASE x <= pc
  <2>1. \A a \in At(code, "ssy") : a <= pc => a <= x  BY <1>2, <1>5, <1>6
  <2>2. PICK m \in At(code, "ssy") : /\ m <= pc /\ Region(code, "ssy", pc) = code[m].to
                                    /\ \A a \in At(code, "ssy") : a <= pc => a <= m
    BY <1>1, <1>3, <1>7, LastOpened
  <2>3. m <= x /\ x <= m  BY <2>1, <2>2, <1>1, <1>7
  <2>4. m \in Nat  BY <2>2, <1>2
  <2>5. m = x  BY <2>3, <2>4, <1>3
  <2>6. Region(code, "ssy", pc) = code[x].to /\ code[x].to > pc
    BY <2>2, <2>5, <1>1, <1>3, <1>6
  <2>. QED  BY <2>6, <1>1, <1>3
<1>8. CASE ~(x <= pc)
  <2>1. CASE to = Skip(pc + 1)
    <3>1. pc + 1 \in Nat  OBVIOUS
    <3>2. x < pc + 1  BY <3>1, <2>1, <1>1, <1>3, <1>4, SkipBounds
    <3>. QED  BY <3>2, <1>3, <1>8
  <2>2. CASE \E op \in {"ssy", "pbk"} : /\ Region(code, op, pc) > pc
                                       /\ to = Skip(Region(code, op, pc))
    <3>1. PICK op \in {"ssy", "pbk"} : /\ Region(code, op, pc) > pc
                                       /\ to = Skip(Region(code, op, pc))
      BY <2>2
    <3>2. PICK r \in Nat : r = Region(code, op, pc)  BY RegionEnds
    <3>3. PICK b \in At(code, op) : b <= pc /\ r = code[b].to
      BY <3>1, <3>2, LastOpened
    <3>4. x < r /\ r <= to  BY <3>1, <3>2, <1>1, <1>3, <1>4, SkipBounds
    <3>5. b \in Regions(code) /\ x \in Regions(code)  BY <3>1, <3>3, <1>1 DEF Regions
    <3>6. b \in Nat /\ b < x
      <4>1. b \in Nat  BY <3>3, CodeAddresses
      <4>. QED  BY <4>1, <3>3, <1>3, <1>8
    <3>7. code[x].to <= r  BY <3>3, <3>4, <3>5, <3>6 DEF IsFunction
    <3>. QED  BY <3>4, <3>7, <1>1, <1>3
  <2>. QED  BY <2>1, <2>2
<1>. QED  BY <1>7, <1>8

\* A warp that is not saved yet is where it may have been stopped.
Stopped(pos) == pos.stack[1].pc \in Stops(Code(pos.stack[1].fn))
\* A warp is saved where it was stopped, or in no region of a function without a table.
Settled(pos) ==
    0 \in pos.active /\ TablesAbove(pos.stack) =>
        IF HasTable(pos.stack[1].fn) THEN Stopped(pos)
        ELSE OneRegion(pos.stack, 1) =>
                Open(Code(pos.stack[1].fn), pos.stack[1].pc, "ssy") = {}

LEMMA SettledWhenSaved ==
    ASSUME program \in DOMAIN Programs, NEW pos, Position(pos), Stopped(pos),
           NEW pcs, pcs = RunsTo(CallStack(pos)), ~Waits(pcs)
    PROVE  Settled(Checkpointable(pos, pcs))
<1>1. PICK stack : stack = CallStack(pos)  OBVIOUS
<1>2. CallChain(stack)  BY <1>1, LaneStack
<1>3. PICK new : new = Checkpointable(pos, pcs)  OBVIOUS
<1>4. Position(new)  BY <1>3, SavedPosition
<1>5. PICK fn : fn = new.stack[1].fn  OBVIOUS
<1>6. PICK code : code = Code(fn)  OBVIOUS
<1>7. PICK to : to = new.stack[1].pc  OBVIOUS
<1>8. 1 \in 1 .. Len(new.stack) /\ new.stack \in Seq(Frames)  BY <1>4 DEF Position, CallChain
<1>9. new.stack[1] \in Frames  BY <1>8
<1>10. IsFunction(code) /\ to \in Nat /\ fn \in DOMAIN Programs[program]
  BY <1>9, <1>5, <1>6, <1>7, OfProgram DEF Frames
<1>11. ASSUME OneRegion(new.stack, 1)
       PROVE  /\ \A a, b \in Open(code, to, "ssy") : a = b
              /\ \A x \in Open(code, to, "ssy") : Region(code, "ssy", to) = code[x].to
              /\ to \notin At(code, "ssy")
              /\ Open(code, to, "ssy") # {} => Region(code, "ssy", to) > to
  <2>1. Where(new.stack, 1) = to  BY <1>7 DEF Where
  <2>2. code = Code(new.stack[1].fn)  BY <1>5, <1>6
  <2>3. {code[a].to : a \in Open(code, to, "ssy")}
           = IF Region(code, "ssy", to) > to THEN {Region(code, "ssy", to)} ELSE {}
    BY <2>1, <2>2, <1>7, <1>11, Zenon DEF OneRegion
  <2>4. code[to].op # "ssy"  BY <2>2, <1>7, <1>11 DEF OneRegion
  <2>5. \A a, b \in Open(code, to, "ssy") : a = b
    BY <2>1, <2>2, <1>7, <1>11, Zenon DEF OneRegion
  <2>6. ASSUME NEW x \in Open(code, to, "ssy")
        PROVE  Region(code, "ssy", to) = code[x].to /\ Region(code, "ssy", to) > to
    BY <2>3
  <2>. QED  BY <2>4, <2>5, <2>6 DEF At
<1>12. CASE pcs = <<>>
  <2>1. new = pos  BY <1>3, <1>12, SavedPosition
  <2>2. ASSUME 0 \in new.active, TablesAbove(new.stack), ~HasTable(fn), OneRegion(new.stack, 1)
        PROVE  Open(code, to, "ssy") = {}
    <3>1. stack = new.stack  BY <2>1, <2>2, <1>1, LaneStack
    <3>2. 1 \in NoRoom(stack) /\ NoRoom(stack) \subseteq {1}
      BY <3>1, <2>2, <1>5, <1>8 DEF NoRoom, TablesAbove
    <3>3. Outermost(stack) = 1  BY <3>2, <1>2, OutermostIs
    <3>4. ~(Region(code, "ssy", to) > to)
      <4>. SUFFICES ASSUME Region(code, "ssy", to) > to  PROVE FALSE  OBVIOUS
      <4>1. PICK f : f = stack[Outermost(stack)]  OBVIOUS
      <4>2. code = Code(f.fn) /\ f.pc = to  BY <4>1, <3>1, <3>3, <1>5, <1>6, <1>7
      <4>3. NoRoom(stack) # {}  BY <3>2
      <4>4. \E n \in DOMAIN pcs : pcs[n] = Skip(Region(code, "ssy", f.pc))
        BY <4>1, <4>2, <4>3, <1>1, <1>2, RunsBehind
      <4>. QED  BY <4>4, <1>12
    <3>. QED  BY <3>4, <1>11, <2>2
  <2>. QED  BY <2>1, <2>2, <1>3, <1>5, <1>6, <1>7 DEF Settled
<1>13. CASE pcs # <<>>
  <2>1. NoRoom(stack) # {}  BY <1>1, <1>2, <1>13, StopsAre
  <2>2. PICK f : f = stack[Outermost(stack)]  OBVIOUS
  <2>3. new.stack[1] = Frame(f.fn, pcs[Len(pcs)])  BY <2>2, <1>1, <1>3, <1>13, SavedPosition
  <2>4. fn = f.fn /\ to = pcs[Len(pcs)]  BY <2>3, <1>5, <1>7 DEF Frame
  <2>5. ~HasTable(fn)
    <3>1. Outermost(stack) \in NoRoom(stack)  BY <2>1, <1>2, OutermostIs
    <3>. QED  BY <3>1, <2>2, <2>4 DEF NoRoom
  <2>6. pcs \in Seq(Places) /\ Len(pcs) \in 0 .. 3  BY <1>1, <1>2, StopsAre
  <2>7. PICK m \in 1 .. 3 : m = Len(pcs)
    <3>1. Len(pcs) # 0  BY <2>6, <1>13, EmptySeq
    <3>. QED  BY <3>1, <2>6
  <2>8. DOMAIN pcs = 1 .. m /\ \A n \in 1 .. m : pcs[n] \in Nat  BY <2>6, <2>7 DEF Places
  <2>9. \A n \in 1 .. m : pcs[n] <= to
    <3>. TAKE n \in 1 .. m
    <3>1. CASE n = m  BY <3>1, <2>4, <2>7, <2>8
    <3>2. CASE n # m
      <4>1. n < m /\ n \in DOMAIN pcs /\ m \in DOMAIN pcs  BY <3>2, <2>8
      <4>2. ~(pcs[n] > pcs[m])  BY <4>1 DEF Waits
      <4>. QED  BY <4>2, <2>4, <2>7, <2>8
    <3>. QED  BY <3>1, <3>2
  <2>10. code = Code(f.fn)  BY <2>4, <1>6
  <2>11. f.pc \in Nat
    <3>1. Outermost(stack) \in 1 .. Len(stack)  BY <2>1, <1>2, OutermostIs
    <3>2. f \in Frames  BY <3>1, <2>2, <1>2 DEF CallChain
    <3>. QED  BY <3>2 DEF Frames
  <2>12. \/ to = Skip(f.pc + 1)
         \/ \E op \in {"ssy", "pbk"} : /\ Region(code, op, f.pc) > f.pc
                                       /\ to = Skip(Region(code, op, f.pc))
    <3>1. m \in DOMAIN pcs  BY <2>8
    <3>. QED  BY <3>1, <2>1, <2>2, <2>4, <2>7, <2>10, <1>1, <1>2, RunsBehind
  <2>13. Region(code, "ssy", f.pc) > f.pc => Region(code, "ssy", f.pc) <= to
    <3>. SUFFICES ASSUME Region(code, "ssy", f.pc) > f.pc
                  PROVE  Region(code, "ssy", f.pc) <= to
      OBVIOUS
    <3>1. PICK r \in Nat : r = Region(code, "ssy", f.pc)  BY <1>10, RegionEnds
    <3>2. \E n \in DOMAIN pcs : pcs[n] = Skip(r)
      BY <3>1, <2>1, <2>2, <2>10, <1>1, <1>2, RunsBehind
    <3>3. Skip(r) <= to  BY <3>2, <2>8, <2>9
    <3>4. Skip(r) \in Nat /\ r <= Skip(r)  BY SkipBounds
    <3>. QED  BY <3>1, <3>3, <3>4, <1>10
  <2>14. ASSUME OneRegion(new.stack, 1)  PROVE Open(code, to, "ssy") = {}
    <3>. SUFFICES ASSUME NEW x \in Open(code, to, "ssy")  PROVE FALSE  OBVIOUS
    <3>1. /\ \A a, b \in Open(code, to, "ssy") : a = b
          /\ Region(code, "ssy", to) = code[x].to
          /\ to \notin At(code, "ssy")
      BY <2>14, <1>11
    <3>. QED  BY <3>1, <2>11, <2>12, <2>13, <1>10, NothingOpen
  <2>. QED  BY <2>5, <2>14, <1>3, <1>5, <1>6, <1>7 DEF Settled
<1>. QED  BY <1>12, <1>13

SettledInv ==
    /\ status = "checkpoint" =>
          \A w \in Warp : w >= next => warps[w] = Finished \/ Stopped(warps[w])
    /\ \A w \in Warp : files[w] = NoFile \/ Settled(warps[w])

LEMMA InitialStop ==
    ASSUME program \in DOMAIN Programs, NEW pos \in Positions(Programs[program])
    PROVE  Stopped(pos)
<1>. DEFINE p == Programs[program]
            stacks == UNION {{<<Frame(Called(p, calls), pc)>> \o calls :
                                 pc \in Stops(p[Called(p, calls)])} : calls \in Calls(p)}
<1>1. PICK stack \in stacks : pos \in {Converged(stack)} \cup Diverged(p, stack)
  BY DEF Positions
<1>2. PICK calls \in Calls(p) : \E pc \in Stops(p[Called(p, calls)]) :
         stack = <<Frame(Called(p, calls), pc)>> \o calls
  OBVIOUS
<1>3. PICK pc \in Stops(p[Called(p, calls)]) : stack = <<Frame(Called(p, calls), pc)>> \o calls
  BY <1>2
<1>4. pos.stack = stack
  <2>1. CASE pos = Converged(stack)  BY <2>1 DEF Converged
  <2>2. CASE pos \in Diverged(p, stack)  BY <2>2 DEF Diverged
  <2>. QED  BY <2>1, <2>2, <1>1
<1>5. stack[1] = Frame(Called(p, calls), pc)
  <2>1. calls \in Seq(Frames)  BY InitialCalls
  <2>. QED  BY <2>1, <1>3
<1>. QED  BY <1>3, <1>4, <1>5 DEF Stopped, Frame, Code

LEMMA SettledInvInit == Init => SettledInv
<1>. SUFFICES ASSUME Init  PROVE SettledInv  OBVIOUS
<1>1. program \in DOMAIN Programs /\ files = [w \in Warp |-> NoFile]
      /\ warps \in [Warp -> Positions(Programs[program]) \cup {Finished}]
  BY DEF Init
<1>. QED  BY <1>1, InitialStop DEF SettledInv

LEMMA SameSettled ==
    ASSUME program' = program, NEW pos
    PROVE  (Stopped(pos)' <=> Stopped(pos)) /\ (Settled(pos)' <=> Settled(pos))
<1>1. \A fn : HasTable(fn)' = HasTable(fn) /\ Code(fn)' = Code(fn)
  BY DEF HasTable, Code
<1>2. Stopped(pos)' <=> Stopped(pos)  BY <1>1 DEF Stopped
<1>3. TablesAbove(pos.stack)' <=> TablesAbove(pos.stack)  BY <1>1 DEF TablesAbove, NoRoom
<1>4. OneRegion(pos.stack, 1)' <=> OneRegion(pos.stack, 1)
  <2>1. Where(pos.stack, 1)' = Where(pos.stack, 1)  BY DEF Where
  <2>2. RegionThere(pos.stack[1])' = RegionThere(pos.stack[1])  BY DEF RegionThere, PatchedCode
  <2>. QED  BY <2>1, <2>2, <1>1, Zenon DEF OneRegion
<1>5. Settled(pos)' <=> Settled(pos)  BY <1>1, <1>2, <1>3, <1>4 DEF Settled
<1>. QED  BY <1>2, <1>5

LEMMA SettledInvStep == SaveInv /\ WalkInv /\ SettledInv /\ [Next]_kvars => SettledInv'
<1>. SUFFICES ASSUME SaveInv, WalkInv, SettledInv, [Next]_kvars  PROVE SettledInv'  OBVIOUS
<1>1. program' = program /\ Warp' = Warp  BY ProgramKept, SameProgram
<1>2. ASSUME NEW w
      PROVE  /\ Stopped(warps[w])' <=> Stopped(warps'[w])
             /\ Settled(warps[w])' <=> Settled(warps'[w])
  <2>1. PICK q : q = warps'[w]  OBVIOUS
  <2>2. (Stopped(q)' <=> Stopped(q)) /\ (Settled(q)' <=> Settled(q))  BY <1>1, SameSettled
  <2>3. (Stopped(warps[w])' <=> Stopped(q)') /\ (Settled(warps[w])' <=> Settled(q)')
    BY <2>1 DEF Stopped, Settled
  <2>. QED  BY <2>1, <2>2, <2>3
<1>3. CASE CheckpointWarp
  <2>1. status = "checkpoint" /\ status' = "checkpoint" /\ next' = next + 1
        /\ next < Warps[program] /\ next \in 0 .. Warps[program]
    BY <1>3 DEF CheckpointWarp, WalkInv
  <2>2. Warps[program] \in Nat  BY KernelAssumption DEF SaveInv
  <2>3. next \in Warp /\ Warp \subseteq Int  BY <2>1, <2>2 DEF Warp
  <2>4. PICK pos : pos = warps[next]  OBVIOUS
  <2>5. CASE pos = Finished
    <3>1. warps' = warps /\ files' = files  BY <1>3, <2>4, <2>5 DEF CheckpointWarp
    <3>2. \A w \in Warp : w >= next + 1 => w >= next  BY <2>1, <2>3
    <3>. QED  BY <3>1, <3>2, <1>1, <1>2, <2>1 DEF SettledInv
  <2>6. CASE pos # Finished
    <3>1. PICK pcs : /\ pcs = RunsTo(CallStack(pos)) /\ ~Waits(pcs)
                     /\ warps' = [warps EXCEPT ![next] = Checkpointable(pos, pcs)]
      BY <1>3, <2>4, <2>6 DEF CheckpointWarp
    <3>2. \E file : files' = [files EXCEPT ![next] = file]
      BY <1>3, <2>4, <2>6 DEF CheckpointWarp
    <3>3. Position(pos) /\ Stopped(pos) /\ program \in DOMAIN Programs
      BY <2>1, <2>3, <2>4, <2>6 DEF SaveInv, SettledInv
    <3>4. PICK new : new = Checkpointable(pos, pcs)  OBVIOUS
    <3>5. Settled(new)  BY <3>1, <3>3, <3>4, SettledWhenSaved
    <3>6. warps'[next] = new /\ \A w \in Warp : w # next =>
             warps'[w] = warps[w] /\ files'[w] = files[w]
      BY <3>1, <3>2, <3>4, <2>3 DEF SaveInv
    <3>7. \A w \in Warp : files'[w] = NoFile \/ Settled(warps'[w])
      BY <3>5, <3>6 DEF SettledInv
    <3>8. \A w \in Warp : w >= next + 1 => warps'[w] = Finished \/ Stopped(warps'[w])
      <4>. SUFFICES ASSUME NEW w \in Warp, w >= next + 1
                    PROVE  warps'[w] = Finished \/ Stopped(warps'[w])
        OBVIOUS
      <4>1. w >= next /\ w # next  BY <2>3
      <4>. QED  BY <4>1, <3>6, <2>1 DEF SettledInv
    <3>. QED  BY <3>7, <3>8, <1>1, <1>2, <2>1 DEF SettledInv
  <2>. QED  BY <2>5, <2>6
<1>. DEFINE Later == status' # "checkpoint" \/ (next' = next /\ status' = status)
<1>4. CASE UNCHANGED <<warps, files>> /\ Later  BY <1>1, <1>2, <1>4 DEF SettledInv
<1>5. ~CheckpointWarp => UNCHANGED <<warps, files>> /\ Later
  BY DEF Next, kvars, CheckpointFails, StartRestore, RestoreFails, EnterTable,
         RestoreSsy, RestoreSubcall, EnterCalled, SetLanesAside, RestorePc, Crash, Ends
<1>. QED  BY <1>3, <1>4, <1>5

-----------------------------------------------------------------------------
(***************************************************************************)
(* A restore, step by step.                                                *)
(***************************************************************************)
\* The tool finds the region of a level that is to be opened.
LEMMA RegionFound ==
    ASSUME program \in DOMAIN Programs, NEW stack, CallChain(stack), NEW i \in 1 .. Len(stack),
           OneRegion(stack, i), NEW code, code = Code(stack[i].fn),
           i = 1 => stack[1].pc \in Stops(code)
    PROVE  /\ Open(code, Where(stack, i), "ssy") # {}
                 <=> InRegion(stack[i]) /\ At(code, "ssy") # {}
           /\ Open(code, Where(stack, i), "ssy") # {} =>
                 \E a \in At(code, "ssy") : code[a].to = Region(code, "ssy", stack[i].pc)
<1>1. PICK l \in Nat \ {0} : l = Len(stack)  BY DEF CallChain
<1>2. stack[i] \in Frames  BY DEF CallChain
<1>3. PICK pc \in Nat \ {0} : pc = stack[i].pc  BY <1>2 DEF Frames
<1>4. IsFunction(code)  BY <1>2, OfProgram DEF Frames
<1>5. PICK to \in Nat : to = Region(code, "ssy", pc)  BY <1>4, RegionEnds
<1>6. PICK here \in Int : here = Where(stack, i)  BY <1>3 DEF Where
<1>7. {code[a].to : a \in Open(code, here, "ssy")} = IF to > here THEN {to} ELSE {}
  BY <1>3, <1>5, <1>6, Zenon DEF OneRegion
<1>8. Open(code, here, "ssy") # {} <=> to > here
  <2>1. CASE to > here  BY <2>1, <1>7
  <2>2. CASE ~(to > here)  BY <2>2, <1>7
  <2>. QED  BY <2>1, <2>2
<1>9. ASSUME NEW a \in Open(code, here, "ssy")
      PROVE  a \in At(code, "ssy") /\ code[a].to = to
  <2>1. code[a].to \in IF to > here THEN {to} ELSE {}  BY <1>7
  <2>. QED  BY <2>1 DEF Open
<1>10. InRegion(stack[i]) <=> to >= IF IsControl(to) THEN pc - 1 ELSE pc
  <2>1. RegionThere(stack[i]) = to  BY <1>3, <1>5, Zenon DEF OneRegion
  <2>. QED  BY <2>1, <1>3 DEF InRegion
<1>11. InRegion(stack[i]) /\ At(code, "ssy") # {} => to > here
  <2>. SUFFICES ASSUME InRegion(stack[i]), At(code, "ssy") # {}, ~(to > here)  PROVE FALSE
    OBVIOUS
  <2>1. to >= IF IsControl(to) THEN pc - 1 ELSE pc  BY <1>10
  <2>2. CASE i # 1
    <3>1. here = pc - 1  BY <2>2, <1>3, <1>6 DEF Where
    <3>2. IsControl(pc - 1)
      <4>1. to <= pc - 1  BY <3>1
      <4>2. to = pc - 1 /\ IsControl(to)  BY <4>1, <2>1
      <4>. QED  BY <4>2
    <3>3. Returns(stack[i])  BY <2>2, <1>1 DEF CallChain
    <3>4. PICK a \in At(code, "cal") : pc = a + 1  BY <3>3, <1>3 DEF Returns
    <3>5. a \in DOMAIN code /\ a \in Nat /\ code[a].op = "cal"
      BY <3>4, <1>4, CodeAddresses DEF At
    <3>6. pc - 1 = a  BY <3>4, <3>5
    <3>7. code[a] = Control  BY <3>2, <3>5, <3>6, <1>4, CodeWords
    <3>. QED  BY <3>5, <3>7, InstrFields DEF Control
  <2>3. CASE i = 1
    <3>1. here = pc /\ stack[1].pc = pc  BY <2>3, <1>3, <1>6 DEF Where
    <3>2. pc \in DOMAIN code /\ ~IsControl(pc)
          /\ \A b \in Regions(code) : pc # Skip(code[b].to)
      BY <3>1, <2>3 DEF Stops
    <3>3. to = pc \/ (to = pc - 1 /\ IsControl(to))  BY <3>1, <2>1
    <3>4. Skip(to) = pc  BY <3>2, <3>3 DEF Skip
    <3>5. CASE to = 0
      <4>1. pc = 1  BY <3>5, <3>3
      <4>. QED  BY <4>1, <2>3, <3>1 DEF OneRegion
    <3>6. CASE to # 0
      <4>1. PICK x \in At(code, "ssy") : to = code[x].to  BY <3>6, <1>4, <1>5, LastOpened
      <4>2. x \in Regions(code)  BY <4>1 DEF Regions
      <4>. QED  BY <4>1, <4>2, <3>2, <3>4
    <3>. QED  BY <3>5, <3>6
  <2>. QED  BY <2>2, <2>3
<1>12. to > here => InRegion(stack[i])
  <2>1. here = pc \/ here = pc - 1  BY <1>3, <1>6 DEF Where
  <2>. QED  BY <2>1, <1>10
<1>13. Open(code, here, "ssy") # {} => At(code, "ssy") # {}  BY <1>9
<1>14. Open(code, here, "ssy") # {} => \E a \in At(code, "ssy") : code[a].to = to  BY <1>9
<1>. QED  BY <1>3, <1>5, <1>6, <1>8, <1>11, <1>12, <1>13, <1>14

\* Only the warp the tool is at moves.
Moves(warp) ==
    /\ DOMAIN gpu' = Warp /\ gpu'[next] = warp
    /\ \A w \in Warp : w # next => gpu'[w] = gpu[w]

\* From a branch the tool takes the warp to an entry, and one step on.
LEMMA Taken ==
    ASSUME program \in DOMAIN Programs, DOMAIN gpu = Warp, next \in Warp,
           NEW fn \in DOMAIN Programs[program], HasTable(fn),
           AtInstruction(fn, cur_address, Branch), NEW tokens, NEW active,
           gpu[next] = AWarp(fn, cur_address, tokens, active),
           NEW k \in 1 .. Needed(Code(fn)), InstructionAt(Code(fn), k).op # "brx",
           NEW aside, NEW entry, entry = Place(Code(fn), k), Take(entry, aside)
    PROVE  Moves(Passed(fn, k, tokens, active, aside))
<1>2. k \in 1 .. Needed(Code(fn)) + 1
  <2>1. TableLies(Code(fn))  BY OfProgram, TablePlaces
  <2>. QED  BY <2>1 DEF TableLies
<1>3. entry \in Nat /\ ~IsControl(entry)  BY <1>2, WordThere
<1>4. BranchBy(gpu[next], entry - cur_address - 1) = AWarp(fn, entry, tokens, active)
  BY <1>3, Sent
<1>5. gpu' = [gpu EXCEPT ![next] = Step(AWarp(fn, entry, tokens, active), aside)]
  BY <1>4 DEF Take, Set
<1>6. Step(AWarp(fn, entry, tokens, active), aside) = Passed(fn, k, tokens, active, aside)
  BY Stepped
<1>. QED  BY <1>5, <1>6 DEF Moves

\* What the tool knows of a warp it restores.
LEMMA Walking ==
    ASSUME SaveInv, WalkInv, SettledInv, status \in Restoring, Restorable(warps[next]),
           NEW stack, stack = warps[next].stack
    PROVE  /\ files[next].stack = stack /\ files[next].active = warps[next].active
           /\ files[next] # NoFile /\ next \in Warp
           /\ Position(warps[next]) /\ CallChain(stack) /\ level \in 1 .. Len(stack)
           /\ \A i \in 1 .. Len(stack) :
                 /\ OneRegion(stack, i) /\ stack[i] \in Frames
                 /\ stack[i].fn # NoTable
                 /\ i # 1 => HasTable(stack[i].fn) /\ Returns(stack[i])
           /\ IF HasTable(stack[level].fn) THEN index = stack[level].fn
                                           ELSE index = NoTable /\ level = 1
           /\ IF HasTable(stack[1].fn) THEN Stopped(warps[next])
              ELSE Open(Code(stack[1].fn), stack[1].pc, "ssy") = {}
<1>1. LevelInv  BY DEF WalkInv
<1>2. next \in Warp /\ files[next] # NoFile  BY <1>1 DEF LevelInv
<1>3. Position(warps[next]) /\ files[next].active = warps[next].active
      /\ files[next].stack = stack
  BY <1>2, SavedStack DEF Restorable
<1>4. CallChain(stack)  BY <1>3 DEF Position
<1>5. PICK l \in Nat \ {0} : l = Len(stack)  BY <1>4 DEF CallChain
<1>6. DOMAIN stack = 1 .. l /\ stack \in Seq(Frames)  BY <1>4, <1>5 DEF CallChain
<1>7. ASSUME NEW i \in 1 .. l
      PROVE  /\ OneRegion(stack, i) /\ stack[i] \in Frames /\ stack[i].fn # NoTable
             /\ i # 1 => HasTable(stack[i].fn) /\ Returns(stack[i])
  <2>1. OneRegion(stack, i)  BY <1>6 DEF Restorable
  <2>2. stack[i] \in Frames  BY <1>5, <1>6
  <2>3. stack[i].fn # NoTable  BY <2>2, CodeAssumption DEF Frames, SaveInv
  <2>4. i # 1 => HasTable(stack[i].fn)
    BY <1>6 DEF Restorable, TablesAbove, NoRoom
  <2>5. i # 1 => Returns(stack[i])  BY <1>4, <1>5 DEF CallChain
  <2>. QED  BY <2>1, <2>2, <2>3, <2>4, <2>5
<1>8. level \in 1 .. l  BY <1>1, <1>3, <1>5 DEF LevelInv
<1>9. IF HasTable(stack[level].fn) THEN index = stack[level].fn
                                   ELSE index = NoTable /\ level = 1
  BY <1>1, <1>3, <1>7, <1>8 DEF LevelInv
<1>10. IF HasTable(stack[1].fn) THEN Stopped(warps[next])
       ELSE Open(Code(stack[1].fn), stack[1].pc, "ssy") = {}
  <2>1. Settled(warps[next])  BY <1>2 DEF SettledInv
  <2>2. 1 \in 1 .. l  OBVIOUS
  <2>3. OneRegion(stack, 1)  BY <2>2, <1>7
  <2>. QED  BY <2>1, <2>3 DEF Settled, Restorable
<1>. QED  BY <1>2, <1>3, <1>4, <1>5, <1>7, <1>8, <1>9, <1>10

\* Where a warp is while it is restored, and what it has.
WalkedTo(stack, active) ==
    LET fn == stack[level].fn IN
    IF status = "jump"
    THEN /\ gpu[next] = AWarp(fn, gpu[next].pc, Entered(stack, level - 1), Lane)
         /\ AtInstruction(fn, gpu[next].pc, Instr("jmx", 0))
    ELSE /\ gpu[next] = AWarp(fn, cur_address,
                              IF status = "ssy" THEN Entered(stack, level)
                                                ELSE TokensFrom(stack)[level],
                              IF status = "pc" THEN active ELSE Lane)
         /\ IF index = NoTable THEN cur_address = stack[level].pc
                               ELSE AtInstruction(index, cur_address, Branch)

\* The region of the level is opened.
LEMMA SsyWalks ==
    ASSUME SaveInv, WalkInv, SettledInv, RestoreSsy, Restorable(warps[next]),
           NEW stack, stack = warps[next].stack, DOMAIN gpu = Warp,
           WalkedTo(stack, warps[next].active)
    PROVE  /\ Moves(AWarp(stack[level].fn, cur_address', TokensFrom(stack)[level], Lane))
           /\ AtInstruction(index, cur_address', Branch)
<1>1. status = "ssy" /\ index # NoTable /\ status \in Restoring
  BY DEF RestoreSsy, Restoring
<1>p. program \in DOMAIN Programs  BY DEF SaveInv
<1>2. /\ files[next].stack = stack /\ next \in Warp
      /\ CallChain(stack) /\ level \in 1 .. Len(stack)
      /\ \A i \in 1 .. Len(stack) : OneRegion(stack, i) /\ stack[i] \in Frames
      /\ HasTable(index) /\ index = stack[level].fn
      /\ (level = 1 => Stopped(warps[next]))
  BY <1>1, Walking
<1>3. PICK fn \in DOMAIN Programs[program] : fn = stack[level].fn  BY <1>2 DEF Frames
<1>4. PICK code : code = Code(fn)  OBVIOUS
<1>5. IsFunction(code) /\ HasRoom(code) /\ JmpTbl(fn) = Index(code)
  BY <1>2, <1>3, <1>4, <1>p, OfProgram
<1>6. PICK frame : frame = stack[level]  OBVIOUS
<1>7. PICK to : to = Region(code, "ssy", frame.pc)  OBVIOUS
<1>8. PICK tokens : tokens = Entered(stack, level)  OBVIOUS
<1>9. /\ gpu[next] = AWarp(fn, cur_address, tokens, Lane)
      /\ AtInstruction(fn, cur_address, Branch)
  BY <1>1, <1>2, <1>3, <1>8 DEF WalkedTo
<1>10. tokens \in Seq(Token) /\ TokensFrom(stack)[level] = Opened(stack, level) \o tokens
  BY <1>p, <1>2, <1>8, TokensOfStack
<1>11. PICK open : open = Open(code, Where(stack, level), "ssy")  OBVIOUS
<1>12. /\ open # {} <=> InRegion(frame) /\ At(code, "ssy") # {}
       /\ open # {} => \E a \in At(code, "ssy") : code[a].to = to
  <2>1. level = 1 => stack[1].pc \in Stops(code)  BY <1>2, <1>3, <1>4 DEF Stopped
  <2>. QED  BY <2>1, <1>p, <1>2, <1>3, <1>4, <1>6, <1>7, <1>11, RegionFound
<1>13. Opened(stack, level)
          = IF open = {} THEN <<>> ELSE <<[kind |-> "ssy", fn |-> fn, to |-> to]>>
  BY <1>3, <1>4, <1>6, <1>7, <1>11 DEF Opened
<1>14. PICK entry : entry = EntryAddress(code, Index(code), "ssy", to)  OBVIOUS
<1>15. JmpTbl(index).has_ssy <=> At(code, "ssy") # {}  BY <1>2, <1>3, <1>5, IndexPlaces
<1>16. IF JmpTbl(index).has_ssy /\ InRegion(frame)
       THEN Take(entry, {}) /\ cur_address' = Behind(entry)
       ELSE UNCHANGED <<gpu, cur_address>>
  <2>1. RegionThere(frame) = to
    BY <1>2, <1>3, <1>4, <1>6, <1>7, Zenon DEF OneRegion
  <2>. QED  BY <2>1, <1>2, <1>3, <1>4, <1>5, <1>6, <1>14 DEF RestoreSsy
<1>17. CASE open # {}
  <2>1. Take(entry, {}) /\ cur_address' = Skip(entry + 1)
    BY <1>12, <1>15, <1>16, <1>17 DEF Behind
  <2>2. \E k \in 1 .. Needed(code) + 1 : InstructionAt(code, k) = Instr("ssy", to)
    BY <1>5, <1>12, <1>17, EntriesExist
  <2>3. PICK k \in 1 .. Needed(code) :
           /\ entry = Place(code, k) /\ InstructionAt(code, k) = Instr("ssy", to)
           /\ InstructionAt(code, k + 1) = Branch
    BY <2>2, <1>5, <1>14, EntryPlace
  <2>4. TableLies(code)  BY <1>5, TablePlaces
  <2>5. k \in 1 .. Needed(code) + 1 /\ k + 1 \in 1 .. Needed(code) + 1
    BY <2>4 DEF TableLies
  <2>6. Skip(entry + 1) = Place(code, k + 1)  BY <2>3, <2>4, <2>5 DEF TableLies
  <2>7. Instr("ssy", to).op = "ssy" /\ Instr("ssy", to).to = to  BY InstrFields
  <2>8. Moves(Passed(fn, k, tokens, Lane, {}))
    BY <2>1, <2>3, <2>7, <1>p, <1>2, <1>3, <1>4, <1>9, Taken
  <2>10. Passed(fn, k, tokens, Lane, {})
            = AWarp(fn, Place(code, k + 1),
                    <<[kind |-> "ssy", fn |-> fn, to |-> to]>> \o tokens, Lane)
    BY <2>3, <2>7, <1>4 DEF Passed
  <2>11. TokensFrom(stack)[level] = <<[kind |-> "ssy", fn |-> fn, to |-> to]>> \o tokens
    BY <1>10, <1>13, <1>17
  <2>12. cur_address' = Place(code, k + 1)  BY <2>1, <2>6
  <2>13. AtInstruction(fn, cur_address', Branch)
    BY <2>3, <2>5, <2>12, <1>4 DEF AtInstruction
  <2>. QED  BY <2>8, <2>10, <2>11, <2>12, <2>13, <1>2, <1>3
<1>18. CASE open = {}
  <2>1. gpu' = gpu /\ cur_address' = cur_address  BY <1>12, <1>15, <1>16, <1>18
  <2>2. TokensFrom(stack)[level] = tokens  BY <1>10, <1>13, <1>18, ConcatEmptySeq
  <2>3. Moves(AWarp(fn, cur_address, tokens, Lane))  BY <2>1, <1>9 DEF Moves
  <2>. QED  BY <2>1, <2>2, <2>3, <1>2, <1>3, <1>9
<1>. QED  BY <1>17, <1>18

\* The address is pushed that the level is to be returned to.
LEMMA CallWalks ==
    ASSUME SaveInv, WalkInv, SettledInv, RestoreSubcall, Restorable(warps[next]),
           NEW stack, stack = warps[next].stack, DOMAIN gpu = Warp,
           WalkedTo(stack, warps[next].active)
    PROVE  \E pc : /\ Moves(AWarp(stack[level].fn, pc, Entered(stack, level - 1), Lane))
                   /\ AtInstruction(stack[level].fn, pc, Instr("jmx", 0))
<1>1. status = "call" /\ status \in Restoring  BY DEF RestoreSubcall, Restoring
<1>2. level > 1 /\ index # NoTable  BY <1>1 DEF WalkInv, LevelInv
<1>p. program \in DOMAIN Programs  BY DEF SaveInv
<1>3. /\ files[next].stack = stack /\ next \in Warp
      /\ CallChain(stack) /\ level \in 1 .. Len(stack)
      /\ \A i \in 1 .. Len(stack) : OneRegion(stack, i) /\ stack[i] \in Frames
      /\ HasTable(index) /\ index = stack[level].fn
      /\ level # 1 => Returns(stack[level])
  BY <1>1, <1>2, Walking
<1>4. PICK l \in Nat \ {0} : l = Len(stack)  BY <1>3 DEF CallChain
<1>5. PICK i \in 1 .. l : i = level  BY <1>3, <1>4
<1>6. PICK fn \in DOMAIN Programs[program] : fn = stack[i].fn  BY <1>3, <1>4, <1>5 DEF Frames
<1>7. PICK code : code = Code(fn)  OBVIOUS
<1>8. IsFunction(code) /\ HasRoom(code) /\ JmpTbl(fn) = Index(code) /\ HasTable(fn)
  BY <1>3, <1>5, <1>6, <1>7, <1>p, OfProgram
<1>9. PICK to : to = stack[i].pc  OBVIOUS
<1>10. \E a \in At(code, "cal") : code[a].to = to
  <2>1. Returns(stack[i])  BY <1>2, <1>3, <1>5
  <2>2. PICK a \in At(code, "cal") : to = a + 1  BY <2>1, <1>6, <1>7, <1>9 DEF Returns
  <2>3. code[a].to = a + 1  BY <1>8 DEF IsFunction
  <2>. QED  BY <2>2, <2>3
<1>11. PICK tokens : tokens = TokensFrom(stack)[i]  OBVIOUS
<1>12. gpu[next] = AWarp(fn, cur_address, tokens, Lane) /\ AtInstruction(fn, cur_address, Branch)
  BY <1>1, <1>2, <1>3, <1>5, <1>6, <1>11 DEF WalkedTo
<1>13. PICK entry : entry = EntryAddress(code, Index(code), "pret", to)  OBVIOUS
<1>14. Take(entry, {})
  BY <1>3, <1>5, <1>6, <1>7, <1>8, <1>9, <1>13 DEF RestoreSubcall
<1>15. \E k \in 1 .. Needed(code) + 1 : InstructionAt(code, k) = Instr("pret", to)
  BY <1>8, <1>10, EntriesExist
<1>16. PICK k \in 1 .. Needed(code) :
          /\ entry = Place(code, k) /\ InstructionAt(code, k) = Instr("pret", to)
          /\ InstructionAt(code, k + 1) = Instr("jmx", 0)
  BY <1>8, <1>13, <1>15, EntryPlace
<1>17. InstructionAt(code, k).op = "pret" /\ InstructionAt(code, k).to = to
  BY <1>16, InstrFields
<1>18. Moves(Passed(fn, k, tokens, Lane, {}))
  BY <1>14, <1>16, <1>17, <1>p, <1>3, <1>7, <1>8, <1>12, Taken
<1>19. Passed(fn, k, tokens, Lane, {})
          = AWarp(fn, Place(code, k + 1),
                  <<[kind |-> "pret", fn |-> fn, to |-> to]>> \o tokens, Lane)
  BY <1>7, <1>17 DEF Passed
<1>20. Entered(stack, i - 1) = <<[kind |-> "pret", fn |-> fn, to |-> to]>> \o tokens
  <2>1. PICK j : j = i - 1  OBVIOUS
  <2>2. j + 1 = i /\ j < l  BY <2>1
  <2>3. Entered(stack, j) = Returning(stack, j) \o tokens  BY <2>2, <1>11 DEF Entered
  <2>4. Returning(stack, j) = <<[kind |-> "pret", fn |-> fn, to |-> to]>>
    BY <2>2, <1>4, <1>6, <1>9 DEF Returning
  <2>. QED  BY <2>1, <2>3, <2>4
<1>21. AtInstruction(fn, Place(code, k + 1), Instr("jmx", 0))
  <2>1. TableLies(code)  BY <1>8, TablePlaces
  <2>2. k + 1 \in 1 .. Needed(code) + 1  BY <2>1 DEF TableLies
  <2>. QED  BY <2>2, <1>7, <1>16 DEF AtInstruction
<1>. QED  BY <1>5, <1>6, <1>18, <1>19, <1>20, <1>21

\* The called function is entered: its table, or where the warp was stopped.
LEMMA JumpWalks ==
    ASSUME SaveInv, WalkInv, SettledInv, EnterCalled, Restorable(warps[next]),
           NEW stack, stack = warps[next].stack, DOMAIN gpu = Warp,
           WalkedTo(stack, warps[next].active)
    PROVE  /\ level' \in 1 .. Len(stack) /\ status' \in {"ssy", "lanes"}
           /\ Moves(AWarp(stack[level'].fn, cur_address',
                          IF status' = "ssy" THEN Entered(stack, level')
                                             ELSE TokensFrom(stack)[level'], Lane))
           /\ IF index' = NoTable THEN cur_address' = stack[level'].pc
                                  ELSE AtInstruction(index', cur_address', Branch)
<1>1. status = "jump" /\ status \in Restoring  BY DEF EnterCalled, Restoring
<1>2. level > 1 /\ index # NoTable  BY <1>1 DEF WalkInv, LevelInv
<1>p. program \in DOMAIN Programs  BY DEF SaveInv
<1>3. /\ files[next].stack = stack /\ next \in Warp
      /\ Position(warps[next]) /\ CallChain(stack) /\ level \in 1 .. Len(stack)
      /\ \A i \in 1 .. Len(stack) :
            /\ OneRegion(stack, i) /\ stack[i] \in Frames /\ stack[i].fn # NoTable
            /\ i # 1 => HasTable(stack[i].fn)
      /\ HasTable(index) /\ index = stack[level].fn
      /\ IF HasTable(stack[1].fn) THEN Stopped(warps[next])
         ELSE Open(Code(stack[1].fn), stack[1].pc, "ssy") = {}
  BY <1>1, <1>2, Walking
<1>4. PICK l \in Nat \ {0} : l = Len(stack)  BY <1>3 DEF CallChain
<1>5. PICK i \in 1 .. l : i = level  BY <1>3, <1>4
<1>6. PICK j \in 1 .. l : j = i - 1 /\ j \in 1 .. l - 1  BY <1>2, <1>5
<1>7. PICK called : called = stack[j]  OBVIOUS
<1>8. PICK fn \in DOMAIN Programs[program] : fn = called.fn /\ fn # NoTable
  BY <1>3, <1>4, <1>6, <1>7 DEF Frames
<1>9. PICK to : to = IF HasTable(fn) THEN JmpTbl(fn).start_address + 1 ELSE called.pc
  OBVIOUS
<1>10. /\ Set(JumpTo(gpu[next], Frame(fn, to))) /\ cur_address' = to
       /\ index' = IF HasTable(fn) THEN fn ELSE NoTable
       /\ status' = (IF Arrived(called, to) THEN "lanes" ELSE "ssy")
       /\ level' = j
  BY <1>3, <1>5, <1>6, <1>7, <1>8, <1>9 DEF EnterCalled
<1>11. PICK tokens : tokens = Entered(stack, j)  OBVIOUS
<1>12. PICK pc : pc = gpu[next].pc  OBVIOUS
<1>13. gpu[next] = AWarp(index, pc, tokens, Lane) /\ AtInstruction(index, pc, Instr("jmx", 0))
  BY <1>1, <1>3, <1>5, <1>6, <1>11, <1>12 DEF WalkedTo
<1>14. Word(gpu[next]).op = "jmx"
  <2>1. PICK k \in 1 .. Needed(Code(index)) + 1 :
           Place(Code(index), k) = pc /\ InstructionAt(Code(index), k) = Instr("jmx", 0)
    BY <1>13 DEF AtInstruction
  <2>2. index \in DOMAIN Programs[program]  BY <1>3 DEF Frames
  <2>3. Word(gpu[next]) = Instr("jmx", 0)  BY <2>1, <2>2, <1>p, <1>3, <1>13, WordThere
  <2>. QED  BY <2>3, InstrFields
<1>15. JumpTo(gpu[next], Frame(fn, to)) = AWarp(fn, Skip(to), tokens, Lane)
  <2>1. PICK warp : warp = gpu[next]  OBVIOUS
  <2>2. JumpTo(warp, Frame(fn, to)) = [warp EXCEPT !.fn = fn, !.pc = Skip(to)]
    BY <2>1, <1>14 DEF JumpTo, Frame
  <2>3. PICK v : v = [warp EXCEPT !.fn = fn]  OBVIOUS
  <2>4. v = AWarp(fn, pc, tokens, Lane)  BY <2>1, <2>3, <1>13 DEF AWarp
  <2>5. [v EXCEPT !.pc = Skip(to)] = AWarp(fn, Skip(to), tokens, Lane)  BY <2>4 DEF AWarp
  <2>6. [warp EXCEPT !.fn = fn, !.pc = Skip(to)] = [v EXCEPT !.pc = Skip(to)]  BY <2>3
  <2>. QED  BY <2>1, <2>2, <2>5, <2>6
<1>16. Moves(AWarp(fn, Skip(to), tokens, Lane))  BY <1>3, <1>10, <1>15 DEF Set, Moves
<1>17. CASE HasTable(fn)
  <2>1. ~IsControl(to)
    <3>1. Reckoned(warps[next])  BY DEF Restorable
    <3>2. j \in 1 .. Len(stack) - 1  BY <1>4, <1>6
    <3>. QED  BY <3>1, <3>2, <1>7, <1>8, <1>9, <1>17 DEF Reckoned
  <2>2. Skip(to) = to  BY <2>1, SkipsNothing
  <2>3. to = Place(Code(fn), 1) /\ AtInstruction(fn, to, Branch) /\ to = FirstBpt(Code(fn))
    BY <2>1, <1>p, <1>9, <1>17, Started
  <2>4. ~Arrived(called, to)
    <3>. SUFFICES ASSUME j = 1, to = called.pc  PROVE FALSE
      BY <1>5, <1>6 DEF Arrived
    <3>1. to \in Stops(Code(fn))  BY <1>3, <1>7, <1>8, <1>17 DEF Stopped
    <3>2. Code(fn)[to].op # "bpt"  BY <3>1 DEF Stops
    <3>3. IsFunction(Code(fn)) /\ HasRoom(Code(fn))  BY <1>p, <1>17, OfProgram
    <3>. QED  BY <2>3, <3>2, <3>3, TableBegins
  <2>5. status' = "ssy" /\ index' = fn  BY <2>4, <1>10, <1>17
  <2>. QED  BY <2>2, <2>3, <2>5, <1>4, <1>7, <1>8, <1>10, <1>11, <1>16
<1>18. CASE ~HasTable(fn)
  <2>1. j = 1  BY <1>3, <1>4, <1>7, <1>8, <1>18
  <2>2. to = called.pc /\ to = stack[1].pc  BY <2>1, <1>7, <1>9, <1>18
  <2>3. Arrived(called, to)  BY <2>1, <2>2, <1>5, <1>6 DEF Arrived
  <2>4. Skip(to) = to
    <3>1. ~IsControl(to)  BY <2>2, <1>3 DEF Position
    <3>. QED  BY <3>1, SkipsNothing
  <2>5. TokensFrom(stack)[1] = tokens
    <3>1. TokensFrom(stack)[1] = Opened(stack, 1) \o tokens /\ tokens \in Seq(Token)
      BY <2>1, <1>p, <1>3, <1>4, <1>6, <1>11, TokensOfStack
    <3>2. Opened(stack, 1) = <<>>
      <4>1. Where(stack, 1) = stack[1].pc  BY DEF Where
      <4>2. Open(Code(stack[1].fn), Where(stack, 1), "ssy") = {}
        BY <4>1, <2>1, <1>3, <1>7, <1>8, <1>18
      <4>. QED  BY <4>2 DEF Opened
    <3>. QED  BY <3>1, <3>2, ConcatEmptySeq
  <2>6. status' = "lanes" /\ index' = NoTable  BY <2>3, <1>10, <1>18
  <2>. QED  BY <2>1, <2>2, <2>4, <2>5, <2>6, <1>4, <1>7, <1>8, <1>10, <1>16
<1>. QED  BY <1>17, <1>18

\* The lanes are set aside that were not active.
LEMMA LanesWalks ==
    ASSUME SaveInv, WalkInv, SettledInv, SetLanesAside, Restorable(warps[next]),
           NEW stack, stack = warps[next].stack, DOMAIN gpu = Warp,
           NEW active, active = warps[next].active, WalkedTo(stack, active)
    PROVE  /\ Moves(AWarp(stack[1].fn, cur_address', TokensFrom(stack)[1], active))
           /\ IF index = NoTable THEN cur_address' = stack[1].pc
                                 ELSE AtInstruction(index, cur_address', Branch)
<1>1. status = "lanes" /\ status \in Restoring  BY DEF SetLanesAside, Restoring
<1>2. level = 1  BY <1>1 DEF WalkInv, LevelInv
<1>p. program \in DOMAIN Programs  BY DEF SaveInv
<1>3. /\ files[next].stack = stack /\ files[next].active = active /\ next \in Warp
      /\ Position(warps[next]) /\ CallChain(stack) /\ 1 \in 1 .. Len(stack)
      /\ stack[1] \in Frames /\ stack[1].fn # NoTable
      /\ IF HasTable(stack[1].fn) THEN index = stack[1].fn ELSE index = NoTable
  BY <1>1, <1>2, Walking
<1>4. PICK fn \in DOMAIN Programs[program] : fn = stack[1].fn  BY <1>3 DEF Frames
<1>5. PICK tokens : tokens = TokensFrom(stack)[1]  OBVIOUS
<1>6. /\ gpu[next] = AWarp(fn, cur_address, tokens, Lane)
      /\ IF index = NoTable THEN cur_address = stack[1].pc
                            ELSE AtInstruction(index, cur_address, Branch)
  BY <1>1, <1>2, <1>4, <1>5 DEF WalkedTo
<1>7. CASE active = Lane
  <2>1. gpu' = gpu /\ cur_address' = cur_address  BY <1>3, <1>7 DEF SetLanesAside
  <2>2. Moves(AWarp(fn, cur_address, tokens, active))  BY <2>1, <1>6, <1>7 DEF Moves
  <2>. QED  BY <2>1, <2>2, <1>4, <1>5, <1>6
<1>8. CASE active # Lane
  <2>1. PICK sync : sync = JmpTbl(index).sync_address  OBVIOUS
  <2>2. index # NoTable /\ Take(sync, Lane \ active) /\ cur_address' = sync + 1
    BY <2>1, <1>3, <1>8 DEF SetLanesAside
  <2>3. PICK code : code = Code(fn)  OBVIOUS
  <2>4. index = fn /\ HasTable(fn)  BY <2>2, <1>3, <1>4
  <2>5. IsFunction(code) /\ HasRoom(code) /\ JmpTbl(fn) = Index(code)
    BY <2>3, <2>4, <1>p, OfProgram
  <2>6. TableLies(code)  BY <2>5, TablePlaces
  <2>7. PICK k \in Nat : k = Needed(code)  BY <2>6 DEF TableLies
  <2>8. k \in 1 .. Needed(code) /\ k \in 1 .. Needed(code) + 1 /\ k + 1 \in 1 .. Needed(code) + 1
    <3>1. k >= 3  BY <2>6, <2>7 DEF TableLies
    <3>. QED  BY <3>1, <2>7
  <2>9. sync = Place(code, k)  BY <2>1, <2>4, <2>5, <2>7, IndexPlaces
  <2>10. InstructionAt(code, k).op = "sync" /\ InstructionAt(code, k + 1) = Branch
    BY <2>5, <2>7, <2>8, InstructionKinds
  <2>11. Moves(Passed(fn, k, tokens, Lane, Lane \ active))
    BY <2>2, <2>3, <2>4, <2>8, <2>9, <2>10, <1>p, <1>3, <1>6, Taken
  <2>12. Lane \ (Lane \ active) = active
    <3>1. active \subseteq Lane  BY <1>3 DEF Position
    <3>. QED  BY <3>1
  <2>13. Passed(fn, k, tokens, Lane, Lane \ active)
            = AWarp(fn, Place(code, k + 1), tokens, active)
    BY <2>3, <2>10, <2>12 DEF Passed
  <2>14. cur_address' = Place(code, k + 1)
    <3>1. ~IsControl(sync + 1)
      <4>1. warps[next].level # 0  BY <1>3, <1>8 DEF Position
      <4>2. Reckoned(warps[next])  BY DEF Restorable
      <4>. QED  BY <4>1, <4>2, <2>1, <2>4, <1>4 DEF Reckoned
    <3>2. Skip(sync + 1) = Place(code, k + 1)  BY <2>6, <2>8, <2>9 DEF TableLies
    <3>. QED  BY <3>1, <3>2, <2>2, SkipsNothing
  <2>15. AtInstruction(fn, cur_address', Branch)
    BY <2>3, <2>8, <2>10, <2>14 DEF AtInstruction
  <2>. QED  BY <2>2, <2>4, <2>11, <2>13, <2>14, <2>15, <1>4, <1>5
<1>. QED  BY <1>7, <1>8

\* The warp goes to where it was stopped.
LEMMA PcWalks ==
    ASSUME SaveInv, WalkInv, SettledInv, RestorePc, Restorable(warps[next]),
           DOMAIN gpu = Warp, WalkedTo(warps[next].stack, warps[next].active)
    PROVE  Moves(AsSaved(warps[next]))
<1>1. status = "pc" /\ status \in Restoring  BY DEF RestorePc, Restoring
<1>2. level = 1  BY <1>1 DEF WalkInv, LevelInv
<1>p. program \in DOMAIN Programs  BY DEF SaveInv
<1>3. PICK stack : stack = warps[next].stack  OBVIOUS
<1>4. PICK active : active = warps[next].active  OBVIOUS
<1>5. /\ files[next].stack = stack /\ next \in Warp
      /\ Position(warps[next]) /\ CallChain(stack) /\ 1 \in 1 .. Len(stack)
      /\ stack[1] \in Frames /\ stack[1].fn # NoTable
      /\ IF HasTable(stack[1].fn) THEN index = stack[1].fn ELSE index = NoTable
  BY <1>1, <1>2, <1>3, Walking
<1>6. PICK fn \in DOMAIN Programs[program] : fn = stack[1].fn  BY <1>5 DEF Frames
<1>7. PICK pc \in Nat : pc = stack[1].pc  BY <1>5 DEF Frames
<1>8. PICK tokens : tokens = TokensFrom(stack)[1]  OBVIOUS
<1>9. /\ gpu[next] = AWarp(fn, cur_address, tokens, active)
      /\ IF index = NoTable THEN cur_address = pc ELSE AtInstruction(index, cur_address, Branch)
  BY <1>1, <1>2, <1>3, <1>4, <1>6, <1>7, <1>8 DEF WalkedTo
<1>10. AsSaved(warps[next]) = AWarp(fn, pc, tokens, active)
  <2>1. Head(stack) = stack[1]  BY <1>5 DEF CallChain
  <2>. QED  BY <2>1, <1>3, <1>4, <1>6, <1>7, <1>8 DEF AsSaved, AWarp
<1>11. CASE cur_address = pc
  <2>1. gpu' = gpu  BY <1>5, <1>7, <1>11 DEF RestorePc
  <2>. QED  BY <2>1, <1>9, <1>10, <1>11 DEF Moves
<1>12. CASE cur_address # pc
  <2>1. Set(BranchBy(gpu[next], pc - cur_address - 1))  BY <1>5, <1>7, <1>12 DEF RestorePc
  <2>2. HasTable(fn) /\ AtInstruction(fn, cur_address, Branch)  BY <1>5, <1>6, <1>9, <1>12
  <2>3. ~IsControl(pc)  BY <1>3, <1>5, <1>7 DEF Position
  <2>4. BranchBy(gpu[next], pc - cur_address - 1) = AWarp(fn, pc, tokens, active)
    BY <2>2, <2>3, <1>p, <1>9, Sent
  <2>. QED  BY <2>1, <2>4, <1>5, <1>10 DEF Set, Moves
<1>. QED  BY <1>11, <1>12

\* A warp enters the kernel's table, or is sent from there to its EXIT.
LEMMA EntryWalks ==
    ASSUME SaveInv, WalkInv, EnterTable, DOMAIN gpu = Warp,
           gpu[next] = AWarp(Kernel, JmpTbl(Kernel).start_address, <<>>, Lane)
    PROVE  /\ next \in Warp
           /\ files[next] # NoFile =>
                 /\ Moves(AWarp(Kernel, cur_address', <<>>, Lane))
                 /\ AtInstruction(Kernel, cur_address', Branch)
           /\ files[next] = NoFile =>
                 \E pc : /\ Moves(AWarp(Kernel, pc, <<>>, Lane))
                         /\ AtInstruction(Kernel, pc, Instr("exit", 0))
<1>p. program \in DOMAIN Programs  BY DEF SaveInv
<1>1. status = "enter" /\ HasTable(Kernel)  BY DEF EnterTable, WalkInv
<1>2. next \in Warp
  <2>1. Warps[program] \in Nat  BY <1>p, KernelAssumption
  <2>2. next \in 0 .. Warps[program] /\ next < Warps[program]  BY DEF WalkInv, EnterTable
  <2>. QED  BY <2>1, <2>2 DEF Warp
<1>3. PICK fn \in DOMAIN Programs[program] : fn = Kernel  BY <1>p, KernelAssumption
<1>4. PICK code : code = Code(fn)  OBVIOUS
<1>5. IsFunction(code) /\ HasRoom(code) /\ JmpTbl(fn) = Index(code) /\ HasTable(fn)
  BY <1>p, <1>1, <1>3, <1>4, OfProgram
<1>6. PICK start : start = JmpTbl(fn).start_address  OBVIOUS
<1>7. PICK first : first = Place(code, 1)  OBVIOUS
<1>8. /\ Skip(start + 1) = first /\ AtInstruction(fn, first, Branch)
      /\ Step(AWarp(fn, start, <<>>, Lane), {}) = AWarp(fn, first, <<>>, Lane)
  BY <1>p, <1>4, <1>5, <1>6, <1>7, Started
<1>9. Step(gpu[next], {}) = AWarp(fn, first, <<>>, Lane) /\ Entry = first
  BY <1>3, <1>6, <1>8 DEF Entry
<1>10. ASSUME files[next] # NoFile
       PROVE  Moves(AWarp(fn, first, <<>>, Lane)) /\ cur_address' = first
  BY <1>2, <1>9, <1>10 DEF EnterTable, Set, Moves
<1>11. ASSUME files[next] = NoFile
       PROVE  \E pc : /\ Moves(AWarp(fn, pc, <<>>, Lane))
                      /\ AtInstruction(fn, pc, Instr("exit", 0))
  <2>1. TableLies(code)  BY <1>5, TablePlaces
  <2>2. PICK k \in Nat : k = Needed(code) - 1 /\ k \in 1 .. Needed(code) + 1
    BY <2>1 DEF TableLies
  <2>3. PICK pc : pc = Place(code, k)  OBVIOUS
  <2>4. JmpTbl(fn).exit_address = pc  BY <2>2, <2>3, <1>5, IndexPlaces
  <2>5. pc \in Nat /\ ~IsControl(pc)  BY <2>1, <2>2, <2>3 DEF TableLies
  <2>6. Set(BranchBy(AWarp(fn, first, <<>>, Lane), pc - first - 1))
    BY <2>4, <1>3, <1>9, <1>11 DEF EnterTable, ExitFrom
  <2>7. BranchBy(AWarp(fn, first, <<>>, Lane), pc - first - 1) = AWarp(fn, pc, <<>>, Lane)
    BY <2>5, <1>p, <1>5, <1>8, Sent
  <2>8. Moves(AWarp(fn, pc, <<>>, Lane))  BY <2>6, <2>7, <1>2 DEF Set, Moves
  <2>9. InstructionAt(code, k) = Instr("exit", 0)
    <3>1. k = 2 * Cardinality(At(code, "ssy")) + 2 * Cardinality(At(code, "cal")) + 2
      <4>1. Cardinality(At(code, "ssy")) \in Nat /\ Cardinality(At(code, "cal")) \in Nat
        BY <1>5, CodeAddresses
      <4>. QED  BY <4>1, <2>2 DEF Needed
    <3>2. Cardinality(At(code, "ssy")) \in Nat /\ Cardinality(At(code, "cal")) \in Nat
      BY <1>5, CodeAddresses
    <3>. QED  BY <3>1, <3>2 DEF InstructionAt
  <2>10. AtInstruction(fn, pc, Instr("exit", 0))
    BY <2>2, <2>3, <2>9, <1>4 DEF AtInstruction
  <2>. QED  BY <2>8, <2>10
<1>. QED  BY <1>2, <1>3, <1>8, <1>10, <1>11

-----------------------------------------------------------------------------
(***************************************************************************)
(* The warps of the new kernel.                                            *)
(***************************************************************************)
Launched(pc) == AWarp(Kernel, pc, <<>>, Lane)

\* A warp that is restored is where and as it was.
AsItWas(w, warp) ==
    /\ files[w] # NoFile /\ Restorable(warps[w]) => warp = AsSaved(warps[w])
    /\ warps[w] = Finished =>
          Word(warp).op = "exit" /\ warp.tokens = <<>> /\ warp.active = Lane

\* The warps that have not entered the kernel's table.
Ahead(w) == w > next \/ (status = "enter" /\ w = next)

GpuInv ==
    /\ DOMAIN gpu = Warp
    /\ status = "checkpoint" => \A w \in Warp : gpu[w] = Launched(0)
    /\ status \in Restoring \cup {"enter"} =>
          /\ \A w \in Warp : Ahead(w) => gpu[w] = Launched(JmpTbl(Kernel).start_address)
          /\ \A w \in Warp : w < next => AsItWas(w, gpu[w])
    /\ status \in Restoring /\ Restorable(warps[next]) =>
          WalkedTo(warps[next].stack, warps[next].active)

LEMMA GpuInvInit == Init => GpuInv
<1>. SUFFICES ASSUME Init  PROVE GpuInv  OBVIOUS
<1>1. status = "checkpoint" /\ gpu = [w \in Warp |-> Launched(0)]
  BY DEF Init, Launched, AWarp
<1>. QED  BY <1>1 DEF GpuInv, Restoring

\* What a program says does not change.
LEMMA SameWalk ==
    ASSUME program' = program
    PROVE  /\ \A fn : JmpTbl(fn)' = JmpTbl(fn)
           /\ \A stack : TokensFrom(stack)' = TokensFrom(stack)
           /\ \A stack, i : Entered(stack, i)' = Entered(stack, i)
           /\ \A fn, address, instr :
                 AtInstruction(fn, address, instr)' <=> AtInstruction(fn, address, instr)
           /\ \A warp : Word(warp)' = Word(warp)
<1>1. \A fn : JmpTbl(fn)' = JmpTbl(fn)  BY DEF JmpTbl
<1>2. ASSUME NEW stack  PROVE TokensFrom(stack)' = TokensFrom(stack)
  BY SMT DEF TokensFrom, Tokens, Code, Where, Open
<1>3. ASSUME NEW stack, NEW i  PROVE Entered(stack, i)' = Entered(stack, i)
  <2>1. TokensFrom(stack)' = TokensFrom(stack)  BY <1>2
  <2>2. Returning(stack, i)' = Returning(stack, i)  BY DEF Returning
  <2>. QED  BY <2>1, <2>2 DEF Entered
<1>4. \A fn, address, instr :
         AtInstruction(fn, address, instr)' <=> AtInstruction(fn, address, instr)
  BY DEF AtInstruction, Code
<1>5. \A warp : Word(warp)' = Word(warp)  BY DEF Word, PatchedCode
<1>. QED  BY <1>1, <1>2, <1>3, <1>4, <1>5

LEMMA SamePosition ==
    ASSUME program' = program, NEW pos
    PROVE  (Restorable(pos)' <=> Restorable(pos)) /\ AsSaved(pos)' = AsSaved(pos)
<1>1. \A fn : HasTable(fn)' = HasTable(fn) /\ Code(fn)' = Code(fn) /\ JmpTbl(fn)' = JmpTbl(fn)
  BY DEF HasTable, Code, JmpTbl
<1>2. TablesAbove(pos.stack)' <=> TablesAbove(pos.stack)  BY <1>1 DEF TablesAbove, NoRoom
<1>3. LanesWait(pos)' <=> LanesWait(pos)  BY <1>1 DEF LanesWait
<1>4. Reckoned(pos)' <=> Reckoned(pos)  BY <1>1 DEF Reckoned
<1>5. ASSUME NEW i  PROVE OneRegion(pos.stack, i)' <=> OneRegion(pos.stack, i)
  <2>1. Where(pos.stack, i)' = Where(pos.stack, i)  BY DEF Where
  <2>2. RegionThere(pos.stack[i])' = RegionThere(pos.stack[i])  BY DEF RegionThere, PatchedCode
  <2>. QED  BY <2>1, <2>2, <1>1, Zenon DEF OneRegion
<1>6. Restorable(pos)' <=> Restorable(pos)  BY <1>2, <1>3, <1>4, <1>5 DEF Restorable
<1>7. AsSaved(pos)' = AsSaved(pos)
  <2>1. PICK stack : stack = pos.stack  OBVIOUS
  <2>2. TokensFrom(stack)' = TokensFrom(stack)  BY SameWalk
  <2>3. TokensFrom(pos.stack)' = TokensFrom(pos.stack)  BY <2>1, <2>2
  <2>. QED  BY <2>3 DEF AsSaved
<1>. QED  BY <1>6, <1>7

LEMMA SameWarps ==
    ASSUME program' = program, warps' = warps, files' = files, NEW w
    PROVE  /\ Restorable(warps[w])' <=> Restorable(warps[w])
           /\ \A warp : AsItWas(w, warp)' <=> AsItWas(w, warp)
<1>1. PICK q : q = warps[w] /\ q = warps'[w]  OBVIOUS
<1>2. (Restorable(q)' <=> Restorable(q)) /\ AsSaved(q)' = AsSaved(q)  BY SamePosition
<1>3. (Restorable(warps[w])' <=> Restorable(q)') /\ AsSaved(warps[w])' = AsSaved(q)'
  BY <1>1
<1>4. \A warp : Word(warp)' = Word(warp)  BY SameWalk
<1>. QED  BY <1>1, <1>2, <1>3, <1>4 DEF AsItWas

LEMMA WalkedOn ==
    ASSUME program' = program, NEW stack, NEW active
    PROVE  WalkedTo(stack, active)' <=>
               IF status' = "jump"
               THEN /\ gpu'[next'] = AWarp(stack[level'].fn, gpu'[next'].pc,
                                           Entered(stack, level' - 1), Lane)
                    /\ AtInstruction(stack[level'].fn, gpu'[next'].pc, Instr("jmx", 0))
               ELSE /\ gpu'[next'] = AWarp(stack[level'].fn, cur_address',
                                           IF status' = "ssy" THEN Entered(stack, level')
                                           ELSE TokensFrom(stack)[level'],
                                           IF status' = "pc" THEN active ELSE Lane)
                    /\ IF index' = NoTable THEN cur_address' = stack[level'].pc
                       ELSE AtInstruction(index', cur_address', Branch)
<1>1. TokensFrom(stack)' = TokensFrom(stack)  BY SameWalk
<1>2. /\ Entered(stack, level)' = Entered(stack, level')
      /\ Entered(stack, level - 1)' = Entered(stack, level' - 1)
  <2>1. PICK i, j : i = level' /\ j = level' - 1  OBVIOUS
  <2>2. Entered(stack, i)' = Entered(stack, i) /\ Entered(stack, j)' = Entered(stack, j)
    BY SameWalk
  <2>3. Entered(stack, level)' = Entered(stack, i)' /\ Entered(stack, level - 1)' = Entered(stack, j)'
    BY <2>1
  <2>. QED  BY <2>1, <2>2, <2>3
<1>3. /\ AtInstruction(index, cur_address, Branch)' <=> AtInstruction(index', cur_address', Branch)
      /\ AtInstruction(stack[level].fn, gpu[next].pc, Instr("jmx", 0))'
            <=> AtInstruction(stack[level'].fn, gpu'[next'].pc, Instr("jmx", 0))
  BY DEF AtInstruction, Code
<1>. QED  BY <1>1, <1>2, <1>3 DEF WalkedTo

\* What a step of a restore has to keep.
LEMMA GpuSteps ==
    ASSUME SaveInv, WalkInv, GpuInv, program' = program, warps' = warps, files' = files,
           status \in Restoring \cup {"enter"}, next \in Warp,
           \/ status' \in Restoring /\ next' = next
           \/ status' = "enter" /\ next' = next + 1 /\ AsItWas(next, gpu'[next]),
           DOMAIN gpu' = Warp, \A w \in Warp : w # next => gpu'[w] = gpu[w],
           \A stack, active :
               /\ status' \in Restoring /\ Restorable(warps[next])
               /\ stack = warps[next].stack /\ active = warps[next].active
               => WalkedTo(stack, active)'
    PROVE  GpuInv'
<1>1. Warp' = Warp /\ JmpTbl(Kernel)' = JmpTbl(Kernel)  BY SameProgram, SameWalk
<1>2. Warp \subseteq Int  BY DEF Warp
<1>3. status' # "checkpoint"  BY DEF Restoring
<1>4. ASSUME NEW w \in Warp, Ahead(w)'
      PROVE  gpu'[w] = Launched(JmpTbl(Kernel).start_address)
  <2>1. w > next
    <3>1. "enter" \notin Restoring  BY DEF Restoring
    <3>2. w > next' \/ (status' = "enter" /\ w = next')  BY <1>4 DEF Ahead
    <3>. QED  BY <3>1, <3>2, <1>2
  <2>2. w # next /\ Ahead(w)  BY <2>1, <1>2 DEF Ahead
  <2>. QED  BY <2>2 DEF GpuInv
<1>5. ASSUME NEW w \in Warp, w < next'  PROVE AsItWas(w, gpu'[w])
  <2>1. CASE w < next
    <3>1. w # next  BY <2>1, <1>2
    <3>. QED  BY <2>1, <3>1 DEF GpuInv
  <2>2. CASE ~(w < next)
    <3>1. w = next /\ next' # next  BY <2>2, <1>2, <1>5
    <3>. QED  BY <3>1
  <2>. QED  BY <2>1, <2>2
<1>6. ASSUME NEW w \in Warp, w < next'  PROVE AsItWas(w, gpu[w])'
  <2>1. PICK warp : warp = gpu'[w]  OBVIOUS
  <2>2. AsItWas(w, warp)' <=> AsItWas(w, warp)  BY SameWarps
  <2>3. AsItWas(w, warp)'  BY <2>1, <2>2, <1>5, <1>6
  <2>. QED  BY <2>1, <2>3
<1>7. ASSUME status' \in Restoring, Restorable(warps[next])'
      PROVE  WalkedTo(warps[next].stack, warps[next].active)'
  <2>1. next' = next  BY <1>7 DEF Restoring
  <2>2. PICK stack, active : stack = warps[next].stack /\ active = warps[next].active  OBVIOUS
  <2>3. Restorable(warps[next])  BY <2>1, <1>7, SameRestorable
  <2>4. WalkedTo(stack, active)'  BY <2>2, <2>3, <1>7
  <2>5. stack = warps'[next'].stack /\ active = warps'[next'].active  BY <2>1, <2>2
  <2>. QED  BY <2>4, <2>5
<1>8. Launched(JmpTbl(Kernel).start_address)' = Launched(JmpTbl(Kernel).start_address)
  BY <1>1 DEF Launched
<1>. QED  BY <1>1, <1>3, <1>4, <1>6, <1>7, <1>8 DEF GpuInv

\* Only the warp the tool is at changes.
LEMMA OthersStay ==
    ASSUME DOMAIN gpu = Warp,
           EnterTable \/ RestoreSsy \/ RestoreSubcall \/ EnterCalled \/ SetLanesAside \/ RestorePc
    PROVE  /\ DOMAIN gpu' = Warp /\ \A w \in Warp : w # next => gpu'[w] = gpu[w]
           /\ program' = program /\ warps' = warps /\ files' = files
           /\ status \in Restoring \cup {"enter"}
<1>1. CASE UNCHANGED gpu
  BY <1>1 DEF EnterTable, RestoreSsy, RestoreSubcall, EnterCalled, SetLanesAside, RestorePc,
              Restoring
<1>2. CASE \E warp : Set(warp)
  BY <1>2 DEF EnterTable, RestoreSsy, RestoreSubcall, EnterCalled, SetLanesAside, RestorePc,
              Restoring, Set
<1>3. UNCHANGED gpu \/ \E warp : Set(warp)
  BY DEF EnterTable, RestoreSsy, RestoreSubcall, EnterCalled, SetLanesAside, RestorePc, Take
<1>. QED  BY <1>1, <1>2, <1>3

LEMMA NextIsWarp ==
    ASSUME SaveInv, WalkInv,
           status \in Restoring \/ next < Warps[program]
    PROVE  next \in Warp
<1>1. Warps[program] \in Nat  BY KernelAssumption DEF SaveInv
<1>2. next \in 0 .. Warps[program]  BY DEF WalkInv
<1>3. CASE status \in Restoring  BY <1>3 DEF WalkInv, LevelInv
<1>4. CASE next < Warps[program]  BY <1>1, <1>2, <1>4 DEF Warp
<1>. QED  BY <1>3, <1>4

\* A warp with no file is at the kernel's EXIT, inside nothing.
LEMMA EntersAsItWas ==
    ASSUME SaveInv, next \in Warp, files[next] = NoFile, NEW pc, NEW warp,
           warp = AWarp(Kernel, pc, <<>>, Lane), HasTable(Kernel),
           AtInstruction(Kernel, pc, Instr("exit", 0))
    PROVE  AsItWas(next, warp)
<1>1. program \in DOMAIN Programs /\ Kernel \in DOMAIN Programs[program]
  BY KernelAssumption DEF SaveInv
<1>2. PICK k \in 1 .. Needed(Code(Kernel)) + 1 :
         Place(Code(Kernel), k) = pc /\ InstructionAt(Code(Kernel), k) = Instr("exit", 0)
  BY DEF AtInstruction
<1>3. Word(warp) = Instr("exit", 0)  BY <1>1, <1>2, WordThere
<1>4. Word(warp).op = "exit"  BY <1>3, InstrFields
<1>. QED  BY <1>4 DEF AsItWas, AWarp

\* A warp that has been saved is not one that has finished.
LEMMA SavedAsItWas ==
    ASSUME SaveInv, next \in Warp, files[next] # NoFile, NEW warp,
           Restorable(warps[next]) => warp = AsSaved(warps[next])
    PROVE  AsItWas(next, warp)
<1>1. warps[next] # Finished  BY SavedStack, PositionIsNone
<1>. QED  BY <1>1 DEF AsItWas

LEMMA GpuInvStep == SaveInv /\ WalkInv /\ SettledInv /\ GpuInv /\ [Next]_kvars => GpuInv'
<1>. SUFFICES ASSUME SaveInv, WalkInv, SettledInv, GpuInv, [Next]_kvars  PROVE GpuInv'
  OBVIOUS
<1>1. program' = program  BY ProgramKept
<1>2. Warp' = Warp /\ JmpTbl(Kernel)' = JmpTbl(Kernel)  BY <1>1, SameProgram, SameWalk
<1>d. DOMAIN gpu = Warp  BY DEF GpuInv
<1>3. CASE UNCHANGED kvars
  <2>1. warps' = warps /\ files' = files /\ next' = next /\ status' = status /\ gpu' = gpu
        /\ level' = level /\ index' = index /\ cur_address' = cur_address
    BY <1>3 DEF kvars
  <2>2. ASSUME status \in Restoring, Restorable(warps[next])'
        PROVE  WalkedTo(warps[next].stack, warps[next].active)'
    <3>1. Restorable(warps[next])  BY <2>1, <2>2, <1>1, SameRestorable
    <3>2. PICK stack, active : stack = warps[next].stack /\ active = warps[next].active
      OBVIOUS
    <3>3. WalkedTo(stack, active)  BY <3>1, <3>2, <2>2 DEF GpuInv
    <3>4. WalkedTo(stack, active)'  BY <3>3, <2>1, <1>1, WalkedOn DEF WalkedTo
    <3>. QED  BY <3>2, <3>4, <2>1
  <2>3. \A w : AsItWas(w, gpu[w])' <=> AsItWas(w, gpu[w])
    <3>1. ASSUME NEW w  PROVE AsItWas(w, gpu[w])' <=> AsItWas(w, gpu[w])
      <4>1. PICK warp : warp = gpu[w] /\ warp = gpu'[w]  BY <2>1
      <4>2. AsItWas(w, warp)' <=> AsItWas(w, warp)  BY <2>1, <1>1, SameWarps
      <4>. QED  BY <4>1, <4>2
    <3>. QED  BY <3>1
  <2>4. \A w : Ahead(w)' <=> Ahead(w)  BY <2>1 DEF Ahead
  <2>. QED  BY <2>1, <2>2, <2>3, <2>4, <1>2 DEF GpuInv, Launched
<1>4. CASE CheckpointWarp
  <2>1. gpu' = gpu /\ status = "checkpoint" /\ status' = "checkpoint"
    BY <1>4 DEF CheckpointWarp
  <2>. QED  BY <2>1, <1>2 DEF GpuInv, Restoring, Launched
<1>5. CASE CheckpointFails \/ RestoreFails \/ Crash
  <2>1. gpu' = gpu /\ status' \in {"failed", "waiting", "crashed"}
    BY <1>5 DEF CheckpointFails, RestoreFails, Crash, Ends
  <2>. QED  BY <2>1, <1>2, <1>d DEF GpuInv, Restoring
<1>6. CASE StartRestore
  <2>1. PICK start : start = JmpTbl(Kernel).start_address  OBVIOUS
  <2>2. /\ status = "checkpoint" /\ status' = "enter" /\ next' = 0
        /\ gpu' = [w \in Warp |-> [gpu[w] EXCEPT !.pc = start]]
    BY <2>1, <1>6 DEF StartRestore
  <2>3. \A w \in Warp : gpu[w] = Launched(0)  BY <2>2 DEF GpuInv
  <2>4. [Launched(0) EXCEPT !.pc = start] = Launched(start)  BY DEF Launched, AWarp
  <2>5. \A w \in Warp : gpu'[w] = Launched(start)  BY <2>2, <2>3, <2>4
  <2>6. DOMAIN gpu' = Warp  BY <2>2
  <2>7. \A w \in Warp : ~(w < 0)  BY DEF Warp
  <2>8. Launched(JmpTbl(Kernel).start_address)' = Launched(start)  BY <2>1, <1>2 DEF Launched
  <2>. QED  BY <2>2, <2>5, <2>6, <2>7, <2>8, <1>2 DEF GpuInv, Restoring
<1>7. CASE EnterTable
  <2>1. status = "enter" /\ next \in Warp /\ HasTable(Kernel)
    BY <1>7, NextIsWarp DEF EnterTable, WalkInv
  <2>2. gpu[next] = AWarp(Kernel, JmpTbl(Kernel).start_address, <<>>, Lane)
    BY <2>1 DEF GpuInv, Ahead, Launched
  <2>3. DOMAIN gpu' = Warp /\ (\A w \in Warp : w # next => gpu'[w] = gpu[w])
        /\ warps' = warps /\ files' = files
    BY <1>7, <1>d, OthersStay
  <2>4. CASE files[next] = NoFile
    <3>1. status' = "enter" /\ next' = next + 1  BY <2>1, <2>4, <1>7 DEF EnterTable
    <3>2. PICK pc : /\ Moves(AWarp(Kernel, pc, <<>>, Lane))
                    /\ AtInstruction(Kernel, pc, Instr("exit", 0))
      BY <2>2, <2>4, <1>7, <1>d, EntryWalks
    <3>3. AsItWas(next, gpu'[next])
      <4>1. gpu'[next] = AWarp(Kernel, pc, <<>>, Lane)  BY <3>2 DEF Moves
      <4>. QED  BY <4>1, <3>2, <2>1, <2>4, EntersAsItWas
    <3>4. status' \notin Restoring  BY <3>1 DEF Restoring
    <3>. QED  BY <3>1, <3>3, <3>4, <2>1, <2>3, <1>1, GpuSteps
  <2>5. CASE files[next] # NoFile
    <3>1. status' = "ssy" /\ next' = next /\ index' = Kernel
          /\ level' = Len(files[next].stack)
      BY <2>5, <1>7 DEF EnterTable, TopLevel
    <3>2. Moves(AWarp(Kernel, cur_address', <<>>, Lane))
          /\ AtInstruction(Kernel, cur_address', Branch)
      BY <2>2, <2>5, <1>7, <1>d, EntryWalks
    <3>3. ASSUME NEW stack, NEW active, Restorable(warps[next]), stack = warps[next].stack
          PROVE  WalkedTo(stack, active)'
      <4>1. CallChain(stack) /\ files[next].stack = stack
        BY <3>3, <2>1, <2>5, SavedStack DEF Position, Restorable
      <4>2. \A i \in 1 .. Len(stack) : OneRegion(stack, i)
        <5>1. DOMAIN stack = 1 .. Len(stack)  BY <4>1 DEF CallChain
        <5>. QED  BY <5>1, <3>3 DEF Restorable
      <4>3. Entered(stack, Len(stack)) = <<>>  BY <4>1, <4>2, TokensOfStack DEF SaveInv
      <4>4. stack[Len(stack)].fn = Kernel  BY <4>1 DEF CallChain
      <4>5. Kernel # NoTable  BY KernelAssumption, CodeAssumption DEF SaveInv
      <4>6. level' = Len(stack) /\ gpu'[next'] = AWarp(Kernel, cur_address', <<>>, Lane)
        BY <3>1, <3>2, <4>1 DEF Moves
      <4>. QED  BY <3>1, <3>2, <4>3, <4>4, <4>5, <4>6, <1>1, WalkedOn
    <3>4. status' \in Restoring  BY <3>1 DEF Restoring
    <3>. QED  BY <3>1, <3>3, <3>4, <2>1, <2>3, <1>1, GpuSteps
  <2>. QED  BY <2>4, <2>5
<1>8. CASE RestoreSsy \/ RestoreSubcall \/ EnterCalled \/ SetLanesAside
  <2>1. status \in Restoring /\ status' \in Restoring /\ next' = next
    BY <1>8 DEF RestoreSsy, RestoreSubcall, EnterCalled, SetLanesAside, Restoring
  <2>2. DOMAIN gpu' = Warp /\ (\A w \in Warp : w # next => gpu'[w] = gpu[w])
        /\ warps' = warps /\ files' = files /\ next \in Warp
    BY <2>1, <1>8, <1>d, OthersStay, NextIsWarp
  <2>3. ASSUME NEW stack, NEW active, Restorable(warps[next]),
               stack = warps[next].stack, active = warps[next].active
        PROVE  WalkedTo(stack, active)'
    <3>1. WalkedTo(stack, active)  BY <2>1, <2>3 DEF GpuInv
    <3>2. CASE RestoreSsy
      <4>1. /\ Moves(AWarp(stack[level].fn, cur_address', TokensFrom(stack)[level], Lane))
            /\ AtInstruction(index, cur_address', Branch)
        BY <2>3, <3>1, <3>2, <1>d, SsyWalks
      <4>2. level' = level /\ index' = index /\ status' \in {"call", "lanes"} /\ index # NoTable
        BY <3>2 DEF RestoreSsy
      <4>. QED  BY <4>1, <4>2, <2>1, <1>1, WalkedOn DEF Moves
    <3>3. CASE RestoreSubcall
      <4>1. PICK pc : /\ Moves(AWarp(stack[level].fn, pc, Entered(stack, level - 1), Lane))
                      /\ AtInstruction(stack[level].fn, pc, Instr("jmx", 0))
        BY <2>3, <3>1, <3>3, <1>d, CallWalks
      <4>2. level' = level /\ status' = "jump"  BY <3>3 DEF RestoreSubcall
      <4>3. gpu'[next'] = AWarp(stack[level'].fn, pc, Entered(stack, level' - 1), Lane)
            /\ gpu'[next'].pc = pc
        BY <4>1, <4>2, <2>1 DEF Moves, AWarp
      <4>. QED  BY <4>1, <4>2, <4>3, <1>1, WalkedOn
    <3>4. CASE EnterCalled
      <4>1. /\ status' \in {"ssy", "lanes"}
            /\ Moves(AWarp(stack[level'].fn, cur_address',
                           IF status' = "ssy" THEN Entered(stack, level')
                                              ELSE TokensFrom(stack)[level'], Lane))
            /\ IF index' = NoTable THEN cur_address' = stack[level'].pc
                                   ELSE AtInstruction(index', cur_address', Branch)
        BY <2>3, <3>1, <3>4, <1>d, JumpWalks
      <4>2. gpu'[next'] = AWarp(stack[level'].fn, cur_address',
                                IF status' = "ssy" THEN Entered(stack, level')
                                                   ELSE TokensFrom(stack)[level'], Lane)
        BY <4>1, <2>1 DEF Moves
      <4>. QED  BY <4>1, <4>2, <1>1, WalkedOn
    <3>5. CASE SetLanesAside
      <4>1. /\ Moves(AWarp(stack[1].fn, cur_address', TokensFrom(stack)[1], active))
            /\ IF index = NoTable THEN cur_address' = stack[1].pc
                                  ELSE AtInstruction(index, cur_address', Branch)
        BY <2>3, <3>1, <3>5, <1>d, LanesWalks
      <4>2. status' = "pc" /\ index' = index /\ level' = 1
        BY <3>5 DEF SetLanesAside, WalkInv, LevelInv, Restoring
      <4>. QED  BY <4>1, <4>2, <2>1, <1>1, WalkedOn DEF Moves
    <3>. QED  BY <3>2, <3>3, <3>4, <3>5, <1>8
  <2>. QED  BY <2>1, <2>2, <2>3, <1>1, GpuSteps
<1>9. CASE RestorePc
  <2>1. status \in Restoring /\ status' = "enter" /\ next' = next + 1
    BY <1>9 DEF RestorePc, Restoring
  <2>2. DOMAIN gpu' = Warp /\ (\A w \in Warp : w # next => gpu'[w] = gpu[w])
        /\ warps' = warps /\ files' = files /\ next \in Warp
    BY <2>1, <1>9, <1>d, OthersStay, NextIsWarp
  <2>3. ASSUME Restorable(warps[next])  PROVE gpu'[next] = AsSaved(warps[next])
    <3>1. WalkedTo(warps[next].stack, warps[next].active)  BY <2>1, <2>3 DEF GpuInv
    <3>2. Moves(AsSaved(warps[next]))  BY <2>3, <3>1, <1>9, <1>d, PcWalks
    <3>. QED  BY <3>2 DEF Moves
  <2>4. files[next] # NoFile  BY <2>1 DEF WalkInv, LevelInv
  <2>5. AsItWas(next, gpu'[next])  BY <2>2, <2>3, <2>4, SavedAsItWas
  <2>6. status' \notin Restoring  BY <2>1 DEF Restoring
  <2>. QED  BY <2>1, <2>2, <2>5, <2>6, <1>1, GpuSteps
<1>. QED  BY <1>3, <1>4, <1>5, <1>6, <1>7, <1>8, <1>9 DEF Next

LEMMA WalkInvariants == Spec => [](SaveInv /\ WalkInv /\ SettledInv /\ GpuInv)
<1>1. Init => SaveInv /\ WalkInv /\ SettledInv /\ GpuInv
  BY SaveInvInit, WalkInvInit, SettledInvInit, GpuInvInit
<1>2. SaveInv /\ WalkInv /\ SettledInv /\ GpuInv /\ [Next]_kvars
         => (SaveInv /\ WalkInv /\ SettledInv /\ GpuInv)'
  BY SaveInvStep, WalkInvStep, SettledInvStep, GpuInvStep
<1>. QED  BY <1>1, <1>2, PTL DEF Spec

(* Every warp that is restored has the regions, return addresses, lanes    *)
(* and program counter it was saved with, for any program, any stacks and  *)
(* any lanes: RRTO_cr_rst_ssy, _subcall, _set_lanes and _pc take it there  *)
(* whatever the tables of the functions on its stack look like.            *)
THEOREM RestoresWhereSaved == Spec => []RestoredWhereSaved
<1>1. GpuInv => RestoredWhereSaved
  BY DEF GpuInv, RestoredWhereSaved, Restored, AsItWas, Restoring
<1>. QED  BY <1>1, WalkInvariants, PTL

(* Whenever the tool is about to send a warp on, the warp is at the branch *)
(* where cur_address says it is: single steps are counted, never checked.  *)
THEOREM AlwaysKnowsWhereItIs == Spec => []KnowsWhereItIs
<1>1. SaveInv /\ WalkInv /\ SettledInv /\ GpuInv => KnowsWhereItIs
  <2>. SUFFICES ASSUME SaveInv, WalkInv, SettledInv, GpuInv, index # NoTable,
                       status \in {"ssy", "call", "lanes", "pc"}, Restorable(warps[next])
                PROVE  gpu[next].pc = cur_address /\ Word(gpu[next]).op = "brx"
    BY DEF KnowsWhereItIs
  <2>1. status \in Restoring /\ status # "jump"  BY DEF Restoring
  <2>2. PICK stack : stack = warps[next].stack  OBVIOUS
  <2>3. PICK active : active = warps[next].active  OBVIOUS
  <2>4. WalkedTo(stack, active)  BY <2>1, <2>2, <2>3 DEF GpuInv
  <2>5. level \in 1 .. Len(stack) /\ index = stack[level].fn
        /\ HasTable(index) /\ stack[level] \in Frames
    BY <2>1, <2>2, Walking
  <2>6. \E tokens, lanes : gpu[next] = AWarp(index, cur_address, tokens, lanes)
    BY <2>1, <2>4, <2>5 DEF WalkedTo
  <2>7. PICK tokens, lanes : gpu[next] = AWarp(index, cur_address, tokens, lanes)
    BY <2>6
  <2>8. AtInstruction(index, cur_address, Branch)  BY <2>1, <2>4 DEF WalkedTo
  <2>9. PICK k \in 1 .. Needed(Code(index)) + 1 :
           Place(Code(index), k) = cur_address /\ InstructionAt(Code(index), k) = Branch
    BY <2>8 DEF AtInstruction
  <2>10. program \in DOMAIN Programs /\ index \in DOMAIN Programs[program]
    BY <2>5 DEF SaveInv, Frames
  <2>11. Word(gpu[next]) = Branch  BY <2>5, <2>7, <2>9, <2>10, WordThere
  <2>. QED  BY <2>7, <2>11, BranchFields DEF AWarp
<1>. QED  BY <1>1, WalkInvariants, PTL
=============================================================================
