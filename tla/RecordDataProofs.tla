--------------------------- MODULE RecordDataProofs ---------------------------
(***************************************************************************)
(* Theorems about RecordData, for schemas of any number of attributes and  *)
(* any lengths, any ints, strings, floats and bools, and conditions of any *)
(* size: the types are right, attributes are kept, and conditions mean     *)
(* what they say.                                                          *)
(***************************************************************************)
EXTENDS RecordData, FiniteSetTheorems, WellFoundedInduction, TLAPS

-----------------------------------------------------------------------------
(* Numbers and sequences.                                                    *)

(* A set of naturals that is not empty has a least member. *)
LEMMA LeastExists ==
  ASSUME NEW S \in SUBSET Nat, S # {}
  PROVE  \E m \in S : \A n \in S : m <= n
<1> DEFINE R == {ss \in Nat \X Nat : ss[1] < ss[2]}
<1>1. IsWellFoundedOn(OpToRel(<, Nat), Nat)
  BY NatLessThanWellFounded
<1>2. IsWellFoundedOn(R, Nat)
  BY <1>1 DEF OpToRel
<1> HIDE DEF R
<1>3. PICK m \in S : \A n \in S : ~(<<n, m>> \in R)
  BY <1>2, WFMin
<1>4. ASSUME NEW n \in S PROVE m <= n
  <2>1. n \in Nat /\ m \in Nat
    OBVIOUS
  <2>2. n < m => <<n, m>> \in R
    BY <2>1 DEF R
  <2> QED
    BY <1>3, <2>1, <2>2
<1> QED
  BY <1>4

(* The least and the greatest member of a set. *)
LEMMA LeastIs ==
  ASSUME NEW S \in SUBSET Int, NEW m \in S, \A n \in S : m <= n
  PROVE  Min(S) = m
<1>1. \A x \in S : (\A y \in S : x <= y) => x = m
  OBVIOUS
<1>2. \A y \in S : m <= y
  OBVIOUS
<1> QED
  BY <1>1, <1>2 DEF Min

LEMMA GreatestIs ==
  ASSUME NEW S \in SUBSET Int, NEW m \in S, \A n \in S : n <= m
  PROVE  Max(S) = m
<1>1. \A x \in S : (\A y \in S : x >= y) => x = m
  OBVIOUS
<1>2. \A y \in S : m >= y
  OBVIOUS
<1> QED
  BY <1>1, <1>2 DEF Max

(* Sets of the first numbers have a greatest member. *)
LEMMA MaxIs ==
  ASSUME NEW n \in Nat, NEW S \in SUBSET (1 .. n), S # {}
  PROVE  Max(S) \in S
<1> DEFINE U == {u \in Nat : \A x \in S : x <= u}
<1>1. PICK u \in U : \A v \in U : u <= v
  <2>1. U \in SUBSET Nat /\ n \in U
    OBVIOUS
  <2> HIDE DEF U
  <2> QED
    BY <2>1, LeastExists
<1>2. u \in S
  <2> SUFFICES ASSUME u \notin S PROVE FALSE
    OBVIOUS
  <2>1. PICK x \in S : TRUE
    OBVIOUS
  <2>2. u \in Nat /\ x \in Nat /\ 1 <= x /\ x <= u
    BY <1>1
  <2>3. u - 1 \in U
    BY <2>2
  <2>4. u <= u - 1
    BY <1>1, <2>3
  <2> QED
    BY <2>2, <2>4
<1>3. S \in SUBSET Int /\ \A x \in S : x <= u
  BY <1>1
<1> QED
  BY <1>2, <1>3, GreatestIs

(* The first numbers, from the greatest down. *)
LEMMA FirstNumbers ==
  ASSUME NEW n \in Nat, NEW k \in 1 .. n
  PROVE  /\ 1 .. k \in SUBSET (1 .. n) /\ 1 .. k # {} /\ k \in 0 .. n /\ k - 1 \in 0 .. n
         /\ Max(1 .. k) = k /\ (1 .. k) \ {k} = 1 .. k - 1
<1>1. 1 .. k \in SUBSET Int /\ k \in 1 .. k /\ \A x \in 1 .. k : x <= k
  OBVIOUS
<1>2. Max(1 .. k) = k
  BY <1>1, GreatestIs
<1> QED
  BY <1>2

(* A set of numbers with 0 and the successors of its members is all of them. *)
LEMMA AllNumbers ==
  ASSUME NEW S \in SUBSET Nat, 0 \in S, \A n \in S : n + 1 \in S
  PROVE  S = Nat
<1> SUFFICES ASSUME Nat \ S # {} PROVE FALSE
  OBVIOUS
<1>1. PICK m \in Nat \ S : \A n \in Nat \ S : m <= n
  BY LeastExists
<1>2. m - 1 \in Nat /\ m # 0
  BY <1>1
<1>3. m - 1 \in S
  BY <1>1, <1>2
<1>4. (m - 1) + 1 \in S /\ (m - 1) + 1 = m
  BY <1>2, <1>3
<1> QED
  BY <1>1, <1>4

(* A function on 1 .. n is a sequence, whatever its values. *)
LEMMA FunctionIsSequence ==
  ASSUME NEW n \in Nat, NEW f, f = [i \in 1 .. n |-> f[i]]
  PROVE  /\ f \in Seq({f[i] : i \in 1 .. n})
         /\ Len(f) = n
         /\ f = <<>> <=> n = 0
         /\ \A x : Append(f, x) = [i \in 1 .. n + 1 |-> IF i <= n THEN f[i] ELSE x]
<1>1. f \in Seq({f[i] : i \in 1 .. n}) /\ Len(f) = n
  OBVIOUS
<1>2. f = <<>> <=> n = 0
  BY <1>1
<1>3. ASSUME NEW x PROVE Append(f, x) = [i \in 1 .. n + 1 |-> IF i <= n THEN f[i] ELSE x]
  <2> DEFINE S == {f[i] : i \in 1 .. n} \cup {x}
  <2>1. f \in Seq(S) /\ x \in S
    BY <1>1
  <2> HIDE DEF S
  <2> QED
    BY <2>1, <1>1
<1> QED
  BY <1>1, <1>2, <1>3

-----------------------------------------------------------------------------
(* Bytes.                                                                    *)

(* A function to bytes. *)
LEMMA BytesAre ==
  ASSUME NEW n \in Nat, NEW f, f = [i \in 1 .. n |-> f[i]], \A i \in 1 .. n : f[i] \in Byte
  PROVE  f \in [1 .. n -> Byte]
OBVIOUS

(* Four bytes hold an int. *)
LEMMA IntIsBytes ==
  ASSUME NEW n, IsInt(n)
  PROVE  IntBytes(n) \in [1 .. intTypeSize -> Byte] /\ IntOf(IntBytes(n)) = n
<1> DEFINE q == n \div 256
           r == n \div 65536
           t == n \div 16777216
<1>1. n \in Int /\ -2147483648 <= n /\ n <= 2147483647
  BY SMT DEF IsInt
<1>2. q \in Int /\ n = 256 * q + (n % 256) /\ n % 256 \in Byte
  BY <1>1, SMT DEF Byte
<1>3. r \in Int /\ q = 256 * r + (q % 256) /\ q % 256 \in Byte
  BY <1>1, SMT DEF Byte
<1>4. t \in Int /\ r = 256 * t + (r % 256) /\ r % 256 \in Byte
  BY <1>1, SMT DEF Byte
<1>5. -128 <= t /\ t <= 127
  BY <1>1, SMT
<1>6. t % 256 = (IF t < 0 THEN t + 256 ELSE t) /\ t % 256 \in Byte
  BY <1>4, <1>5, SMT DEF Byte
<1>7. /\ IntBytes(n)[1] = n % 256 /\ IntBytes(n)[2] = q % 256
      /\ IntBytes(n)[3] = r % 256 /\ IntBytes(n)[4] = t % 256
      /\ IntBytes(n) \in [1 .. intTypeSize -> Byte]
  <2>1. Weights[1] = 1 /\ Weights[2] = 256 /\ Weights[3] = 65536 /\ Weights[4] = 16777216
    BY SMT DEF Weights
  <2>2. n \div 1 = n
    BY <1>1, SMT
  <2>3. \A i \in 1 .. intTypeSize : i = 1 \/ i = 2 \/ i = 3 \/ i = 4
    BY DEF intTypeSize
  <2>4. /\ IntBytes(n)[1] = n % 256 /\ IntBytes(n)[2] = q % 256
        /\ IntBytes(n)[3] = r % 256 /\ IntBytes(n)[4] = t % 256
    BY <2>1, <2>2, SMT DEF IntBytes, intTypeSize
  <2>5. \A i \in 1 .. intTypeSize : IntBytes(n)[i] \in Byte
    BY <1>2, <1>3, <1>4, <1>6, <2>3, <2>4, SMT
  <2>6. IntBytes(n) = [i \in 1 .. intTypeSize |-> IntBytes(n)[i]]
    BY SMT DEF IntBytes
  <2>7. intTypeSize \in Nat
    BY DEF intTypeSize
  <2> HIDE DEF q, r, t
  <2>8. IntBytes(n) \in [1 .. intTypeSize -> Byte]
    BY <2>5, <2>6, <2>7, BytesAre
  <2> QED
    BY <2>4, <2>8
<1> HIDE DEF q, r, t
<1>8. IntOf(IntBytes(n)) = n
  <2>1. ASSUME NEW b1 \in Int, NEW b2 \in Int, NEW b3 \in Int, NEW b4 \in Int,
               n = 256 * q + b1, q = 256 * r + b2, r = 256 * t + b3, -128 <= t, t <= 127,
               b4 = IF t < 0 THEN t + 256 ELSE t
        PROVE  b1 + 256 * b2 + 65536 * b3 + 16777216 * (IF b4 < 128 THEN b4 ELSE b4 - 256) = n
    BY <1>1, <1>2, <1>3, <1>4, <2>1, SMT
  <2>2. n % 256 \in Int /\ q % 256 \in Int /\ r % 256 \in Int /\ t % 256 \in Int
    BY <1>2, <1>3, <1>4, <1>6, SMT DEF Byte
  <2>3. IntOf(IntBytes(n)) =
           (n % 256) + 256 * (q % 256) + 65536 * (r % 256)
               + 16777216 * (IF t % 256 < 128 THEN t % 256 ELSE (t % 256) - 256)
    BY <1>7, SMT DEF IntOf
  <2> QED
    BY <1>2, <1>3, <1>4, <1>5, <1>6, <2>1, <2>2, <2>3, SMT
<1> QED
  BY <1>7, <1>8

(* A string, cut at the length of its attribute, ends at the first zero. *)
LEMMA StringIsBytes ==
  ASSUME NEW s \in Seq(Byte \ {0}), NEW length \in Nat
  PROVE  /\ StringBytes(s, length) \in [1 .. length -> Byte]
         /\ StringOf(StringBytes(s, length)) = SubSeq(s, 1, Min({Len(s), length}))
<1> DEFINE bytes == StringBytes(s, length)
           zeros == {i \in 1 .. Len(bytes) : bytes[i] = 0}
           lengths == {Len(s), length}
<1>1. Len(s) \in Nat /\ \A i \in 1 .. Len(s) : s[i] \in Byte /\ s[i] # 0
  OBVIOUS
<1>2. /\ bytes = [i \in 1 .. length |-> bytes[i]]
      /\ \A i \in 1 .. length : bytes[i] = IF i <= Len(s) THEN s[i] ELSE 0
  BY DEF StringBytes
<1> HIDE DEF bytes
<1>3. \A i \in 1 .. length : bytes[i] \in Byte /\ (bytes[i] = 0 <=> i > Len(s))
  <2> SUFFICES ASSUME NEW i \in 1 .. length
               PROVE  bytes[i] \in Byte /\ (bytes[i] = 0 <=> i > Len(s))
    OBVIOUS
  <2>1. CASE i <= Len(s)
    BY <1>1, <1>2, <2>1
  <2>2. CASE ~(i <= Len(s))
    BY <1>1, <1>2, <2>2 DEF Byte
  <2> QED
    BY <2>1, <2>2
<1>4. bytes \in [1 .. length -> Byte]
  BY <1>2, <1>3, BytesAre
<1>5. Len(bytes) = length
  BY <1>4
<1>6. StringOf(bytes) = IF (IF zeros # {} THEN Min(zeros) ELSE 0) = 0 THEN bytes
                        ELSE SubSeq(bytes, 1, (IF zeros # {} THEN Min(zeros) ELSE 0) - 1)
  BY Zenon DEF StringOf, SelectInSeq
<1>7. ASSUME Len(s) < length PROVE StringOf(bytes) = SubSeq(s, 1, Min(lengths))
  <2>1. Len(s) + 1 \in zeros /\ zeros \in SUBSET Int /\ \A i \in zeros : Len(s) + 1 <= i
    BY <1>1, <1>3, <1>5, <1>7
  <2> HIDE DEF zeros
  <2>2. Min(zeros) = Len(s) + 1
    BY <2>1, LeastIs
  <2>3. StringOf(bytes) = SubSeq(bytes, 1, Len(s))
    BY <1>1, <1>6, <2>1, <2>2
  <2>4. Min(lengths) = Len(s)
    <3>1. lengths \in SUBSET Int /\ Len(s) \in lengths /\ \A n \in lengths : Len(s) <= n
      BY <1>1, <1>7
    <3> HIDE DEF lengths
    <3> QED
      BY <3>1, LeastIs
  <2>5. SubSeq(bytes, 1, Len(s)) = SubSeq(s, 1, Len(s))
    <3>1. SubSeq(bytes, 1, Len(s)) = [i \in 1 .. Len(s) |-> bytes[i]]
      BY <1>1, <1>4, <1>5, <1>7
    <3>2. SubSeq(s, 1, Len(s)) = [i \in 1 .. Len(s) |-> s[i]]
      BY <1>1
    <3>3. \A i \in 1 .. Len(s) : bytes[i] = s[i]
      BY <1>1, <1>2, <1>7
    <3> QED
      BY <3>1, <3>2, <3>3
  <2> QED
    BY <2>3, <2>4, <2>5
<1>8. ASSUME Len(s) >= length PROVE StringOf(bytes) = SubSeq(s, 1, Min(lengths))
  <2>1. zeros = {}
    BY <1>1, <1>3, <1>5, <1>8
  <2>2. StringOf(bytes) = bytes
    BY <1>6, <2>1
  <2>3. Min(lengths) = length
    <3>1. lengths \in SUBSET Int /\ length \in lengths /\ \A n \in lengths : length <= n
      BY <1>1, <1>8
    <3> HIDE DEF lengths
    <3> QED
      BY <3>1, LeastIs
  <2>4. SubSeq(s, 1, length) = [i \in 1 .. length |-> s[i]]
    BY <1>1, <1>8
  <2>5. bytes = [i \in 1 .. length |-> s[i]]
    BY <1>1, <1>2, <1>8
  <2> QED
    BY <2>2, <2>3, <2>4, <2>5
<1>9. StringOf(bytes) = SubSeq(s, 1, Min(lengths))
  <2>1. Len(s) < length \/ Len(s) >= length
    BY <1>1
  <2> QED
    BY <1>7, <1>8, <2>1, Zenon
<1> QED
  BY <1>4, <1>9 DEF bytes

-----------------------------------------------------------------------------
(* The rounds of a fold, one after the other.                                *)

(* The widths of attributes and their sums, as operators on the lengths that the
   client declared. *)
Width(lengths, types, a) ==
    CASE types[a] = "DT_STRING" -> lengths[a]
      [] types[a] = "DT_INT"    -> intTypeSize
      [] types[a] = "DT_FLOAT"  -> FLOAT_SIZE
      [] types[a] = "DT_BOOL"   -> BOOL_SIZE

Widths(lengths, types, n) ==
    FoldLeft(LAMBDA sum, i : sum + Width(lengths, types, i - 1), 0, [i \in 1 .. n |-> i])

(* They are what the record manager computes under the schema of the client. *)
LEMMA WidthsAre ==
  \A types, n : /\ WidthOf(types, n) = Width(declared.lengths, types, n)
                /\ WidthsBefore(types, n) = Widths(declared.lengths, types, n)
BY DEF WidthsBefore, WidthOf, Widths, Width

(* The sum of the first widths. *)
LEMMA WidthRounds ==
  ASSUME NEW lengths, NEW types, NEW n \in Nat
  PROVE  \E at : /\ at[0] = 0
                 /\ \A k \in 1 .. n : at[k] = at[k - 1] + Width(lengths, types, k - 1)
                 /\ Widths(lengths, types, n) = at[n]
<1> DEFINE seq == [i \in 1 .. n |-> i]
           Rounds(iter, m) ==
               iter = [s \in SUBSET (1 .. m) |->
                          IF s = {} THEN 0 ELSE iter[s \ {Max(s)}] + Width(lengths, types, Max(s) - 1)]
           S == {m \in Nat : \E iter : Rounds(iter, m)}
<1>0. n \in Nat /\ DOMAIN seq = 1 .. n
  OBVIOUS
<1>1. 0 \in S
  <2>1. SUBSET (1 .. 0) = {{}}
    OBVIOUS
  <2>2. Rounds([s \in SUBSET (1 .. 0) |-> 0], 0)
    BY <2>1
  <2> QED
    BY <2>2
<1>2. ASSUME NEW m \in S PROVE m + 1 \in S
  <2>1. PICK iter : Rounds(iter, m)
    BY <1>2
  <2>a. m \in Nat /\ m + 1 \in Nat
    BY <1>2
  <2> DEFINE new == [s \in SUBSET (1 .. m + 1) |->
                        IF m + 1 \in s THEN iter[s \ {m + 1}] + Width(lengths, types, (m + 1) - 1) ELSE iter[s]]
  <2>2. ASSUME NEW s \in SUBSET (1 .. m + 1)
        PROVE  new[s] = IF s = {} THEN 0 ELSE new[s \ {Max(s)}] + Width(lengths, types, Max(s) - 1)
    <3>1. CASE s = {}
      BY <2>1, <3>1
    <3>2. CASE m + 1 \in s
      <4>1. Max(s) = m + 1
        <5>1. s \in SUBSET Int /\ \A x \in s : x <= m + 1
          BY <2>a
        <5> QED
          BY <3>2, <5>1, GreatestIs
      <4>2. s \ {m + 1} \in SUBSET (1 .. m) /\ s \ {m + 1} \in SUBSET (1 .. m + 1)
        BY <2>a
      <4>3. new[s \ {m + 1}] = iter[s \ {m + 1}]
        BY <4>2
      <4> QED
        BY <3>2, <4>1, <4>3
    <3>3. CASE s # {} /\ m + 1 \notin s
      <4>1. s \in SUBSET (1 .. m)
        BY <2>a, <3>3
      <4>2. s \ {Max(s)} \in SUBSET (1 .. m) /\ s \ {Max(s)} \in SUBSET (1 .. m + 1)
            /\ m + 1 \notin s \ {Max(s)}
        BY <3>3, <4>1
      <4>3. new[s \ {Max(s)}] = iter[s \ {Max(s)}]
        BY <4>2
      <4>4. new[s] = iter[s]
        BY <3>3
      <4>5. iter[s] = iter[s \ {Max(s)}] + Width(lengths, types, Max(s) - 1)
        BY <2>1, <3>3, <4>1
      <4> QED
        BY <3>3, <4>3, <4>4, <4>5
    <3> QED
      BY <3>1, <3>2, <3>3
  <2>3. Rounds(new, m + 1)
    BY <2>2
  <2> QED
    BY <2>3, <2>a
<1>3. n \in S
  <2>1. S \in SUBSET Nat
    OBVIOUS
  <2> HIDE DEF S
  <2> QED
    BY <1>0, <1>1, <1>2, <2>1, AllNumbers
<1> DEFINE FoldsBy(f) == f = [s \in SUBSET (DOMAIN seq) |->
                                 IF s = {} THEN 0 ELSE f[s \ {Max(s)}] + Width(lengths, types, seq[Max(s)] - 1)]
           iter == CHOOSE f : FoldsBy(f)
           at == [k \in 0 .. n |-> iter[1 .. k]]
<1>4. Rounds(iter, n)
  <2>1. ASSUME NEW s \in SUBSET (1 .. n), s # {} PROVE Max(s) \in 1 .. n
    BY <1>0, <2>1, MaxIs
  <2>3. ASSUME NEW f
        PROVE  [s \in SUBSET (DOMAIN seq) |->
                   IF s = {} THEN 0 ELSE f[s \ {Max(s)}] + Width(lengths, types, seq[Max(s)] - 1)] =
               [s \in SUBSET (1 .. n) |->
                   IF s = {} THEN 0 ELSE f[s \ {Max(s)}] + Width(lengths, types, Max(s) - 1)]
    BY <1>0, <2>1
  <2> HIDE DEF seq
  <2>4. \A f : FoldsBy(f) <=> Rounds(f, n)
    BY <2>3
  <2>5. \E f : FoldsBy(f)
    <3>1. \E f : Rounds(f, n)
      BY <1>3
    <3> HIDE DEF FoldsBy, Rounds
    <3> QED
      BY <3>1, <2>4
  <2>6. FoldsBy(iter)
    <3> HIDE DEF FoldsBy
    <3> QED
      BY <2>5
  <2> QED
    BY <2>4, <2>6
<1>5. Widths(lengths, types, n) = iter[1 .. n]
  <2>1. Widths(lengths, types, n) = iter[DOMAIN seq]
    BY Zenon DEF FoldLeft, MapThenFoldSet, Widths, seq
  <2> QED
    BY <1>0, <2>1
<1> HIDE DEF iter, seq
<1>6. at[0] = 0
  <2>1. 1 .. 0 = {} /\ {} \in SUBSET (1 .. n) /\ 0 \in 0 .. n
    BY <1>0
  <2>2. iter[{}] = 0
    BY <1>4, <2>1
  <2> QED
    BY <2>1, <2>2
<1>7. ASSUME NEW k \in 1 .. n PROVE at[k] = at[k - 1] + Width(lengths, types, k - 1)
  <2>1. 1 .. k \in SUBSET (1 .. n) /\ 1 .. k # {} /\ k \in 0 .. n /\ k - 1 \in 0 .. n
    BY <1>0, FirstNumbers
  <2>2. Max(1 .. k) = k /\ (1 .. k) \ {k} = 1 .. k - 1
    BY <1>0, FirstNumbers
  <2>4. iter[1 .. k] = iter[(1 .. k) \ {Max(1 .. k)}] + Width(lengths, types, Max(1 .. k) - 1)
    BY <1>4, <2>1
  <2> QED
    BY <2>1, <2>2, <2>4
<1>8. Widths(lengths, types, n) = at[n]
  <2>1. at[n] = iter[1 .. n]
    BY <1>0
  <2> QED
    BY <1>5, <2>1, Zenon
<1> HIDE DEF at
<1> QED
  BY <1>6, <1>7, <1>8

(* The evaluation of a condition. *)
LEMMA EvaluationRounds ==
  ASSUME NEW start, NEW e \in Conditions
  PROVE  \E at : /\ at[0] = start
                 /\ \A k \in 1 .. Len(e) : at[k] = Reached(at[k - 1], e[k])
                 /\ FoldLeft(Reached, start, e) = at[Len(e)]
<1> DEFINE seq == e
           Rounds(iter, m) ==
               iter = [s \in SUBSET (1 .. m) |->
                          IF s = {} THEN start ELSE Reached(iter[s \ {Max(s)}], e[Max(s)])]
           S == {m \in Nat : \E iter : Rounds(iter, m)}
<1>0. Len(e) \in Nat /\ DOMAIN seq = 1 .. Len(e)
  BY ConditionsAssumption
<1>1. 0 \in S
  <2>1. SUBSET (1 .. 0) = {{}}
    OBVIOUS
  <2>2. Rounds([s \in SUBSET (1 .. 0) |-> start], 0)
    BY <2>1
  <2> QED
    BY <2>2
<1>2. ASSUME NEW m \in S PROVE m + 1 \in S
  <2>1. PICK iter : Rounds(iter, m)
    BY <1>2
  <2>a. m \in Nat /\ m + 1 \in Nat
    BY <1>2
  <2> DEFINE new == [s \in SUBSET (1 .. m + 1) |->
                        IF m + 1 \in s THEN Reached(iter[s \ {m + 1}], e[(m + 1)]) ELSE iter[s]]
  <2>2. ASSUME NEW s \in SUBSET (1 .. m + 1)
        PROVE  new[s] = IF s = {} THEN start ELSE Reached(new[s \ {Max(s)}], e[Max(s)])
    <3>1. CASE s = {}
      BY <2>1, <3>1
    <3>2. CASE m + 1 \in s
      <4>1. Max(s) = m + 1
        <5>1. s \in SUBSET Int /\ \A x \in s : x <= m + 1
          BY <2>a
        <5> QED
          BY <3>2, <5>1, GreatestIs
      <4>2. s \ {m + 1} \in SUBSET (1 .. m) /\ s \ {m + 1} \in SUBSET (1 .. m + 1)
        BY <2>a
      <4>3. new[s \ {m + 1}] = iter[s \ {m + 1}]
        BY <4>2
      <4> QED
        BY <3>2, <4>1, <4>3
    <3>3. CASE s # {} /\ m + 1 \notin s
      <4>1. s \in SUBSET (1 .. m)
        BY <2>a, <3>3
      <4>2. s \ {Max(s)} \in SUBSET (1 .. m) /\ s \ {Max(s)} \in SUBSET (1 .. m + 1)
            /\ m + 1 \notin s \ {Max(s)}
        BY <3>3, <4>1
      <4>3. new[s \ {Max(s)}] = iter[s \ {Max(s)}]
        BY <4>2
      <4>4. new[s] = iter[s]
        BY <3>3
      <4>5. iter[s] = Reached(iter[s \ {Max(s)}], e[Max(s)])
        BY <2>1, <3>3, <4>1
      <4> QED
        BY <3>3, <4>3, <4>4, <4>5
    <3> QED
      BY <3>1, <3>2, <3>3
  <2>3. Rounds(new, m + 1)
    BY <2>2
  <2> QED
    BY <2>3, <2>a
<1>3. Len(e) \in S
  <2>1. S \in SUBSET Nat
    OBVIOUS
  <2> HIDE DEF S
  <2> QED
    BY <1>0, <1>1, <1>2, <2>1, AllNumbers
<1> DEFINE FoldsBy(f) == f = [s \in SUBSET (DOMAIN seq) |->
                                 IF s = {} THEN start ELSE Reached(f[s \ {Max(s)}], seq[Max(s)])]
           iter == CHOOSE f : FoldsBy(f)
           at == [k \in 0 .. Len(e) |-> iter[1 .. k]]
<1>4. Rounds(iter, Len(e))
  <2>1. ASSUME NEW s \in SUBSET (1 .. Len(e)), s # {} PROVE Max(s) \in 1 .. Len(e)
    BY <1>0, <2>1, MaxIs
  <2>3. ASSUME NEW f
        PROVE  [s \in SUBSET (DOMAIN seq) |->
                   IF s = {} THEN start ELSE Reached(f[s \ {Max(s)}], seq[Max(s)])] =
               [s \in SUBSET (1 .. Len(e)) |->
                   IF s = {} THEN start ELSE Reached(f[s \ {Max(s)}], e[Max(s)])]
    BY <1>0, <2>1
  <2> HIDE DEF seq
  <2>4. \A f : FoldsBy(f) <=> Rounds(f, Len(e))
    BY <2>3
  <2>5. \E f : FoldsBy(f)
    <3>1. \E f : Rounds(f, Len(e))
      BY <1>3
    <3> HIDE DEF FoldsBy, Rounds
    <3> QED
      BY <3>1, <2>4
  <2>6. FoldsBy(iter)
    <3> HIDE DEF FoldsBy
    <3> QED
      BY <2>5
  <2> QED
    BY <2>4, <2>6
<1>5. FoldLeft(Reached, start, e) = iter[1 .. Len(e)]
  <2>1. FoldLeft(Reached, start, e) = iter[DOMAIN seq]
    BY Zenon DEF FoldLeft, MapThenFoldSet, seq
  <2> QED
    BY <1>0, <2>1
<1> HIDE DEF iter, seq
<1>6. at[0] = start
  <2>1. 1 .. 0 = {} /\ {} \in SUBSET (1 .. Len(e)) /\ 0 \in 0 .. Len(e)
    BY <1>0
  <2>2. iter[{}] = start
    BY <1>4, <2>1
  <2> QED
    BY <2>1, <2>2
<1>7. ASSUME NEW k \in 1 .. Len(e) PROVE at[k] = Reached(at[k - 1], e[k])
  <2>1. 1 .. k \in SUBSET (1 .. Len(e)) /\ 1 .. k # {} /\ k \in 0 .. Len(e) /\ k - 1 \in 0 .. Len(e)
    BY <1>0, FirstNumbers
  <2>2. Max(1 .. k) = k /\ (1 .. k) \ {k} = 1 .. k - 1
    BY <1>0, FirstNumbers
  <2>4. iter[1 .. k] = Reached(iter[(1 .. k) \ {Max(1 .. k)}], e[Max(1 .. k)])
    BY <1>4, <2>1
  <2> QED
    BY <2>1, <2>2, <2>4
<1>8. FoldLeft(Reached, start, e) = at[Len(e)]
  <2>1. at[Len(e)] = iter[1 .. Len(e)]
    BY <1>0
  <2> QED
    BY <1>5, <2>1, Zenon
<1> HIDE DEF at
<1> QED
  BY <1>6, <1>7, <1>8

(* The meaning of the nodes of a condition. *)
LEMMA MeaningRounds ==
  ASSUME NEW e \in Conditions
  PROVE  \E at : /\ at[0] = <<>>
                 /\ \A k \in 1 .. Len(e) : at[k] = Append(at[k - 1], MeaningOf(e[k], at[k - 1]))
                 /\ Meanings(e) = at[Len(e)]
<1> DEFINE seq == e
           Rounds(iter, m) ==
               iter = [s \in SUBSET (1 .. m) |->
                          IF s = {} THEN <<>> ELSE Append(iter[s \ {Max(s)}], MeaningOf(e[Max(s)], iter[s \ {Max(s)}]))]
           S == {m \in Nat : \E iter : Rounds(iter, m)}
<1>0. Len(e) \in Nat /\ DOMAIN seq = 1 .. Len(e)
  BY ConditionsAssumption
<1>1. 0 \in S
  <2>1. SUBSET (1 .. 0) = {{}}
    OBVIOUS
  <2>2. Rounds([s \in SUBSET (1 .. 0) |-> <<>>], 0)
    BY <2>1
  <2> QED
    BY <2>2
<1>2. ASSUME NEW m \in S PROVE m + 1 \in S
  <2>1. PICK iter : Rounds(iter, m)
    BY <1>2
  <2>a. m \in Nat /\ m + 1 \in Nat
    BY <1>2
  <2> DEFINE new == [s \in SUBSET (1 .. m + 1) |->
                        IF m + 1 \in s THEN Append(iter[s \ {m + 1}], MeaningOf(e[(m + 1)], iter[s \ {m + 1}])) ELSE iter[s]]
  <2>2. ASSUME NEW s \in SUBSET (1 .. m + 1)
        PROVE  new[s] = IF s = {} THEN <<>> ELSE Append(new[s \ {Max(s)}], MeaningOf(e[Max(s)], new[s \ {Max(s)}]))
    <3>1. CASE s = {}
      BY <2>1, <3>1
    <3>2. CASE m + 1 \in s
      <4>1. Max(s) = m + 1
        <5>1. s \in SUBSET Int /\ \A x \in s : x <= m + 1
          BY <2>a
        <5> QED
          BY <3>2, <5>1, GreatestIs
      <4>2. s \ {m + 1} \in SUBSET (1 .. m) /\ s \ {m + 1} \in SUBSET (1 .. m + 1)
        BY <2>a
      <4>3. new[s \ {m + 1}] = iter[s \ {m + 1}]
        BY <4>2
      <4> QED
        BY <3>2, <4>1, <4>3
    <3>3. CASE s # {} /\ m + 1 \notin s
      <4>1. s \in SUBSET (1 .. m)
        BY <2>a, <3>3
      <4>2. s \ {Max(s)} \in SUBSET (1 .. m) /\ s \ {Max(s)} \in SUBSET (1 .. m + 1)
            /\ m + 1 \notin s \ {Max(s)}
        BY <3>3, <4>1
      <4>3. new[s \ {Max(s)}] = iter[s \ {Max(s)}]
        BY <4>2
      <4>4. new[s] = iter[s]
        BY <3>3
      <4>5. iter[s] = Append(iter[s \ {Max(s)}], MeaningOf(e[Max(s)], iter[s \ {Max(s)}]))
        BY <2>1, <3>3, <4>1
      <4> QED
        BY <3>3, <4>3, <4>4, <4>5
    <3> QED
      BY <3>1, <3>2, <3>3
  <2>3. Rounds(new, m + 1)
    BY <2>2
  <2> QED
    BY <2>3, <2>a
<1>3. Len(e) \in S
  <2>1. S \in SUBSET Nat
    OBVIOUS
  <2> HIDE DEF S
  <2> QED
    BY <1>0, <1>1, <1>2, <2>1, AllNumbers
<1> DEFINE FoldsBy(f) == f = [s \in SUBSET (DOMAIN seq) |->
                                 IF s = {} THEN <<>> ELSE Append(f[s \ {Max(s)}], MeaningOf(seq[Max(s)], f[s \ {Max(s)}]))]
           iter == CHOOSE f : FoldsBy(f)
           at == [k \in 0 .. Len(e) |-> iter[1 .. k]]
<1>4. Rounds(iter, Len(e))
  <2>1. ASSUME NEW s \in SUBSET (1 .. Len(e)), s # {} PROVE Max(s) \in 1 .. Len(e)
    BY <1>0, <2>1, MaxIs
  <2>3. ASSUME NEW f
        PROVE  [s \in SUBSET (DOMAIN seq) |->
                   IF s = {} THEN <<>> ELSE Append(f[s \ {Max(s)}], MeaningOf(seq[Max(s)], f[s \ {Max(s)}]))] =
               [s \in SUBSET (1 .. Len(e)) |->
                   IF s = {} THEN <<>> ELSE Append(f[s \ {Max(s)}], MeaningOf(e[Max(s)], f[s \ {Max(s)}]))]
    BY <1>0, <2>1
  <2> HIDE DEF seq
  <2>4. \A f : FoldsBy(f) <=> Rounds(f, Len(e))
    BY <2>3
  <2>5. \E f : FoldsBy(f)
    <3>1. \E f : Rounds(f, Len(e))
      BY <1>3
    <3> HIDE DEF FoldsBy, Rounds
    <3> QED
      BY <3>1, <2>4
  <2>6. FoldsBy(iter)
    <3> HIDE DEF FoldsBy
    <3> QED
      BY <2>5
  <2> QED
    BY <2>4, <2>6
<1>5. Meanings(e) = iter[1 .. Len(e)]
  <2>1. Meanings(e) = iter[DOMAIN seq]
    BY Zenon DEF FoldLeft, MapThenFoldSet, Meanings, seq
  <2> QED
    BY <1>0, <2>1
<1> HIDE DEF iter, seq
<1>6. at[0] = <<>>
  <2>1. 1 .. 0 = {} /\ {} \in SUBSET (1 .. Len(e)) /\ 0 \in 0 .. Len(e)
    BY <1>0
  <2>2. iter[{}] = <<>>
    BY <1>4, <2>1
  <2> QED
    BY <2>1, <2>2
<1>7. ASSUME NEW k \in 1 .. Len(e) PROVE at[k] = Append(at[k - 1], MeaningOf(e[k], at[k - 1]))
  <2>1. 1 .. k \in SUBSET (1 .. Len(e)) /\ 1 .. k # {} /\ k \in 0 .. Len(e) /\ k - 1 \in 0 .. Len(e)
    BY <1>0, FirstNumbers
  <2>2. Max(1 .. k) = k /\ (1 .. k) \ {k} = 1 .. k - 1
    BY <1>0, FirstNumbers
  <2>4. iter[1 .. k] = Append(iter[(1 .. k) \ {Max(1 .. k)}], MeaningOf(e[Max(1 .. k)], iter[(1 .. k) \ {Max(1 .. k)}]))
    BY <1>4, <2>1
  <2> QED
    BY <2>1, <2>2, <2>4
<1>8. Meanings(e) = at[Len(e)]
  <2>1. at[Len(e)] = iter[1 .. Len(e)]
    BY <1>0
  <2> QED
    BY <1>5, <2>1, Zenon
<1> HIDE DEF at
<1> QED
  BY <1>6, <1>7, <1>8

-----------------------------------------------------------------------------
(* Where attributes lie.                                                     *)

(* Every attribute adds its width to those before it. *)
LEMMA WidthsAdd ==
  ASSUME NEW lengths, NEW types
  PROVE  /\ Widths(lengths, types, 0) = 0
         /\ \A n \in Nat : Widths(lengths, types, n + 1) = Widths(lengths, types, n) + Width(lengths, types, n)
<1>1. Widths(lengths, types, 0) = 0
  <2>1. 0 \in Nat
    OBVIOUS
  <2> QED
    BY <2>1, WidthRounds
<1>2. ASSUME NEW n \in Nat
      PROVE  Widths(lengths, types, n + 1) = Widths(lengths, types, n) + Width(lengths, types, n)
  <2>1. PICK at : /\ at[0] = 0
                  /\ \A k \in 1 .. n : at[k] = at[k - 1] + Width(lengths, types, k - 1)
                  /\ Widths(lengths, types, n) = at[n]
    BY WidthRounds
  <2>2. PICK bt : /\ bt[0] = 0
                  /\ \A k \in 1 .. n + 1 : bt[k] = bt[k - 1] + Width(lengths, types, k - 1)
                  /\ Widths(lengths, types, n + 1) = bt[n + 1]
    <3>1. n + 1 \in Nat
      OBVIOUS
    <3> QED
      BY <3>1, WidthRounds
  <2> DEFINE S == {k \in Nat : k <= n => at[k] = bt[k]}
  <2>3. n \in S
    <3>1. 0 \in S
      BY <2>1, <2>2
    <3>2. ASSUME NEW k \in S PROVE k + 1 \in S
      <4>1. CASE k + 1 <= n
        <5>1. k \in Nat /\ k <= n /\ k + 1 \in 1 .. n /\ k + 1 \in 1 .. n + 1 /\ (k + 1) - 1 = k
          BY <4>1
        <5>2. at[k] = bt[k]
          BY <5>1
        <5>3. at[k + 1] = at[k] + Width(lengths, types, k)
          BY <2>1, <5>1
        <5>4. bt[k + 1] = bt[k] + Width(lengths, types, k)
          BY <2>2, <5>1
        <5> QED
          BY <5>1, <5>2, <5>3, <5>4
      <4>2. CASE ~(k + 1 <= n)
        BY <4>2
      <4> QED
        BY <4>1, <4>2
    <3>3. S \in SUBSET Nat
      OBVIOUS
    <3> HIDE DEF S
    <3> QED
      BY <3>1, <3>2, <3>3, AllNumbers
  <2>4. at[n] = bt[n]
    BY <2>3
  <2>5. n + 1 \in 1 .. n + 1 /\ (n + 1) - 1 = n
    OBVIOUS
  <2>6. bt[n + 1] = bt[n] + Width(lengths, types, n)
    BY <2>2, <2>5
  <2> QED
    BY <2>1, <2>2, <2>4, <2>6
<1> QED
  BY <1>1, <1>2

NumAttr(s) == Cardinality(DOMAIN s.types)
Retyped(s) == [s.types EXCEPT ![1] = "DT_STRING"]

(* The data types that getAttr may leave of a schema. *)
Typings(s) == {s.types, Retyped(s)}
Offset(s, types, a) == 1 + Widths(s.lengths, types, a)

(* Typings have types for all attributes, and getAttr makes none wider. *)
LEMMA TypingIs ==
  ASSUME NEW s, IsSchema(s), NEW types \in Typings(s)
  PROVE  /\ NumAttr(s) \in Nat /\ NumAttr(s) >= 2
         /\ DOMAIN s.types = 0 .. NumAttr(s) - 1
         /\ DOMAIN types = DOMAIN s.types
         /\ types \in [DOMAIN s.types -> DataTypes]
         /\ \A a \in DOMAIN s.types :
               /\ s.lengths[a] \in Nat
               /\ Width(s.lengths, types, a) \in Nat
               /\ Width(s.lengths, Retyped(s), a) <= Width(s.lengths, types, a)
         /\ types[0] = s.types[0]
         /\ Width(s.lengths, types, 0) >= 1
<1> DEFINE D == DOMAIN s.types
           N == NumAttr(s)
<1>1. IsFiniteSet(D) /\ D = 0 .. N - 1 /\ 0 \in D /\ 1 \in D
  BY DEF IsSchema, NumAttr
<1>2. N \in Nat /\ N >= 2
  <2>1. N \in Nat
    BY <1>1, FS_CardinalityType DEF NumAttr
  <2> QED
    BY <1>1, <2>1
<1>3. /\ s.types \in [D -> DataTypes] /\ s.lengths \in [D -> Nat]
      /\ \A a \in D : s.types[a] = "DT_STRING" <=> s.lengths[a] # 0
  BY DEF IsSchema
<1> HIDE DEF D, N
<1>4. Retyped(s) \in [D -> DataTypes] /\ \A a \in D : Retyped(s)[a] = IF a = 1 THEN "DT_STRING" ELSE s.types[a]
  BY <1>3 DEF Retyped, DataTypes
<1>5. types \in [D -> DataTypes] /\ \A a \in D : types[a] = s.types[a] \/ (types[a] = "DT_STRING" /\ a = 1)
  BY <1>3, <1>4 DEF Typings
<1>6. ASSUME NEW a \in D
      PROVE  /\ s.lengths[a] \in Nat
             /\ Width(s.lengths, types, a) \in Nat
             /\ Width(s.lengths, Retyped(s), a) <= Width(s.lengths, types, a)
             /\ types[a] = s.types[a] => Width(s.lengths, types, a) >= 1
  <2>1. types[a] \in DataTypes /\ s.lengths[a] \in Nat
    BY <1>3, <1>5
  <2>2. Retyped(s)[a] = types[a] \/ (Retyped(s)[a] = "DT_STRING" /\ s.types[a] = types[a])
    BY <1>4, <1>5
  <2>3. /\ types[a] = "DT_STRING" => Width(s.lengths, types, a) = s.lengths[a]
        /\ types[a] = "DT_INT" => Width(s.lengths, types, a) = 4
        /\ types[a] = "DT_FLOAT" => Width(s.lengths, types, a) = 4
        /\ types[a] = "DT_BOOL" => Width(s.lengths, types, a) = 2
    BY DEF Width, intTypeSize, FLOAT_SIZE, BOOL_SIZE
  <2>4. CASE Retyped(s)[a] = types[a]
    <3>1. Width(s.lengths, Retyped(s), a) = Width(s.lengths, types, a)
      BY <2>4 DEF Width
    <3> QED
      BY <1>3, <2>1, <2>3, <3>1 DEF DataTypes
  <2>5. CASE Retyped(s)[a] = "DT_STRING" /\ s.types[a] = types[a]
    <3>1. Width(s.lengths, Retyped(s), a) = s.lengths[a]
      BY <2>5 DEF Width
    <3> QED
      BY <1>3, <2>1, <2>3, <2>5, <3>1 DEF DataTypes
  <2> QED
    BY <2>2, <2>4, <2>5
<1>7. types[0] = s.types[0] /\ Width(s.lengths, types, 0) >= 1
  BY <1>1, <1>5, <1>6
<1>8. DOMAIN types = D
  BY <1>5
<1> QED
  BY <1>1, <1>2, <1>5, <1>6, <1>7, <1>8 DEF D, N

(* Attributes lie one behind the other, and types that getAttr changed make none
   begin later. *)
LEMMA OffsetsAre ==
  ASSUME NEW s, IsSchema(s), NEW types \in Typings(s)
  PROVE  /\ \A n \in 0 .. NumAttr(s) : /\ Widths(s.lengths, types, n) \in Nat
                                       /\ Offset(s, types, n) \in Nat /\ Offset(s, types, n) >= 1
                                       /\ Offset(s, Retyped(s), n) <= Offset(s, types, n)
         /\ Offset(s, types, 0) = 1
         /\ \A a \in DOMAIN s.types : \A n \in a + 1 .. NumAttr(s) :
               Offset(s, types, a) + Width(s.lengths, types, a) <= Offset(s, types, n)
<1> DEFINE N == NumAttr(s)
           W(n) == Widths(s.lengths, types, n)
           V(n) == Widths(s.lengths, Retyped(s), n)
           w(n) == Width(s.lengths, types, n)
           x(n) == Width(s.lengths, Retyped(s), n)
<1>1. N \in Nat /\ N >= 2 /\ DOMAIN s.types = 0 .. N - 1 /\ \A a \in 0 .. N - 1 : w(a) \in Nat /\ x(a) <= w(a)
  BY TypingIs
<1>2. \A a \in 0 .. N - 1 : x(a) \in Nat
  <2>1. Retyped(s) \in Typings(s)
    BY DEF Typings
  <2> QED
    BY <1>1, <2>1, TypingIs
<1>3. W(0) = 0 /\ V(0) = 0 /\ \A n \in Nat : W(n + 1) = W(n) + w(n) /\ V(n + 1) = V(n) + x(n)
  BY WidthsAdd
<1>4. Offset(s, types, 0) = 1
  BY <1>3 DEF Offset
<1> HIDE DEF N, W, V, w, x
<1>5. ASSUME NEW n \in 0 .. N PROVE W(n) \in Nat /\ V(n) \in Nat /\ V(n) <= W(n)
  <2> DEFINE S == {k \in Nat : k <= N => W(k) \in Nat /\ V(k) \in Nat /\ V(k) <= W(k)}
  <2>1. 0 \in S
    BY <1>3
  <2>2. ASSUME NEW k \in S PROVE k + 1 \in S
    <3> SUFFICES ASSUME k + 1 <= N PROVE W(k + 1) \in Nat /\ V(k + 1) \in Nat /\ V(k + 1) <= W(k + 1)
      OBVIOUS
    <3>1. k \in Nat /\ k \in 0 .. N - 1 /\ W(k) \in Nat /\ V(k) \in Nat /\ V(k) <= W(k)
      BY <1>1
    <3>2. w(k) \in Nat /\ x(k) \in Nat /\ x(k) <= w(k)
      BY <1>1, <1>2, <3>1
    <3>3. W(k + 1) = W(k) + w(k) /\ V(k + 1) = V(k) + x(k)
      BY <1>3, <3>1
    <3> QED
      BY <3>1, <3>2, <3>3
  <2>3. S = Nat
    <3>1. S \in SUBSET Nat
      OBVIOUS
    <3> HIDE DEF S
    <3> QED
      BY <2>1, <2>2, <3>1, AllNumbers
  <2> QED
    BY <2>3, <1>1
<1>6. ASSUME NEW a \in 0 .. N - 1, NEW n \in a + 1 .. N PROVE W(a) + w(a) <= W(n)
  <2> DEFINE S == {k \in Nat : a + 1 + k <= N => W(a) + w(a) <= W(a + 1 + k)}
  <2>0. a \in Nat /\ a \in 0 .. N
    BY <1>1
  <2>1. a \in Nat /\ W(a + 1) = W(a) + w(a) /\ W(a) \in Nat /\ w(a) \in Nat
    <3>1. W(a) \in Nat
      BY <1>5, <2>0
    <3>2. w(a) \in Nat
      BY <1>1
    <3>3. W(a + 1) = W(a) + w(a)
      BY <1>3, <2>0
    <3> QED
      BY <2>0, <3>1, <3>2, <3>3
  <2>2. 0 \in S
    BY <2>1
  <2>3. ASSUME NEW k \in S PROVE k + 1 \in S
    <3> SUFFICES ASSUME a + 1 + (k + 1) <= N PROVE W(a) + w(a) <= W(a + 1 + (k + 1))
      OBVIOUS
    <3>1. a + 1 + k \in Nat /\ a + 1 + k \in 0 .. N - 1 /\ a + 1 + k \in 0 .. N
      BY <1>1, <2>1
    <3>2. W(a) + w(a) <= W(a + 1 + k) /\ a + 1 + (k + 1) = (a + 1 + k) + 1
      BY <2>1, <3>1
    <3>3. W((a + 1 + k) + 1) = W(a + 1 + k) + w(a + 1 + k)
      BY <1>3, <3>1
    <3>4. w(a + 1 + k) \in Nat /\ W(a + 1 + k) \in Nat
      BY <1>1, <1>5, <3>1
    <3> QED
      BY <2>1, <3>2, <3>3, <3>4
  <2>4. S = Nat
    <3>1. S \in SUBSET Nat
      OBVIOUS
    <3> HIDE DEF S
    <3> QED
      BY <2>2, <2>3, <3>1, AllNumbers
  <2>5. n - a - 1 \in Nat /\ a + 1 + (n - a - 1) = n /\ n <= N
    BY <1>1
  <2> QED
    BY <2>4, <2>5
<1>7. \A n \in 0 .. N : /\ Offset(s, types, n) = 1 + W(n) /\ Offset(s, Retyped(s), n) = 1 + V(n)
  BY DEF Offset, W, V
<1>8. ASSUME NEW a \in 0 .. N - 1, NEW n \in a + 1 .. N
      PROVE  Offset(s, types, a) + w(a) <= Offset(s, types, n)
  <2>1. a \in 0 .. N /\ n \in 0 .. N
    BY <1>1
  <2>2. W(a) + w(a) <= W(n)
    BY <1>6
  <2>3. W(a) \in Nat /\ W(n) \in Nat
    BY <1>5, <2>1
  <2>4. w(a) \in Nat
    BY <1>1
  <2>5. Offset(s, types, a) = 1 + W(a) /\ Offset(s, types, n) = 1 + W(n)
    BY <1>7, <2>1
  <2> QED
    BY <2>2, <2>3, <2>4, <2>5
<1>9. ASSUME NEW n \in 0 .. N
      PROVE  /\ W(n) \in Nat
             /\ Offset(s, types, n) \in Nat /\ Offset(s, types, n) >= 1
             /\ Offset(s, Retyped(s), n) <= Offset(s, types, n)
  BY <1>5, <1>7
<1> QED
  BY <1>1, <1>4, <1>8, <1>9 DEF N, W, w
-----------------------------------------------------------------------------
(* What records hold.                                                        *)

(* Bytes written within others replace those at their place, and nothing else. *)
LEMMA Overwrites ==
  ASSUME NEW n \in Nat, NEW offset \in Nat, NEW k \in Nat, offset + k <= n,
         NEW bytes \in [1 .. n -> Byte], NEW by \in [1 .. k -> Byte]
  PROVE  /\ Overwritten(bytes, offset, by) \in [1 .. n -> Byte]
         /\ \A i \in 1 .. n : Overwritten(bytes, offset, by)[i] =
               IF offset < i /\ i <= offset + k THEN by[i - offset] ELSE bytes[i]
<1>1. Len(bytes) = n /\ Len(by) = k /\ DOMAIN bytes = 1 .. n /\ DOMAIN by = 1 .. k
  OBVIOUS
<1>2. Max({n, offset + k}) = n
  <2>1. {n, offset + k} \in SUBSET Int /\ n \in {n, offset + k} /\ \A x \in {n, offset + k} : x <= n
    OBVIOUS
  <2> QED
    BY <2>1, GreatestIs
<1>3. Overwritten(bytes, offset, by) =
        [i \in 1 .. n |-> IF i - offset \in 1 .. k THEN by[i - offset]
                          ELSE IF i \in 1 .. n THEN bytes[i] ELSE 0]
  BY <1>1, <1>2 DEF Overwritten
<1>4. \A i \in 1 .. n : i - offset \in 1 .. k <=> offset < i /\ i <= offset + k
  OBVIOUS
<1>5. \A i \in 1 .. n : bytes[i] \in Byte /\ (i - offset \in 1 .. k => by[i - offset] \in Byte)
  OBVIOUS
<1> QED
  BY <1>3, <1>4, <1>5

(* What is written for a value is as wide as its attribute. *)
LEMMA BytesOfIs ==
  ASSUME NEW s, IsSchema(s), NEW types \in Typings(s), NEW a \in DOMAIN s.types,
         NEW val, IsContent(val), val.dt = types[a]
  PROVE  BytesOf(val, s.lengths[a]) \in [1 .. Width(s.lengths, types, a) -> Byte]
<1>1. types[a] \in DataTypes /\ s.lengths[a] \in Nat
  BY TypingIs
<1>2. CASE val.dt = "DT_STRING"
  <2>1. val.v \in Seq(Byte \ {0}) /\ Width(s.lengths, types, a) = s.lengths[a]
    BY <1>2 DEF IsContent, Width
  <2>2. BytesOf(val, s.lengths[a]) = StringBytes(val.v, s.lengths[a])
    BY <1>2 DEF BytesOf
  <2> QED
    BY <1>1, <2>1, <2>2, StringIsBytes
<1>3. CASE val.dt = "DT_INT"
  <2>1. IsInt(val.v) /\ Width(s.lengths, types, a) = intTypeSize
    BY <1>3 DEF IsContent, Width
  <2>2. BytesOf(val, s.lengths[a]) = IntBytes(val.v)
    BY <1>3 DEF BytesOf
  <2> QED
    BY <2>1, <2>2, IntIsBytes
<1>4. CASE val.dt = "DT_FLOAT"
  <2>1. val.v \in DOMAIN FloatBytes /\ Width(s.lengths, types, a) = FLOAT_SIZE
    BY <1>4 DEF IsContent, Width
  <2>2. BytesOf(val, s.lengths[a]) = FloatBytes[val.v]
    BY <1>4 DEF BytesOf
  <2> QED
    BY <2>1, <2>2, FloatsAssumption
<1>5. CASE val.dt = "DT_BOOL"
  <2>1. val.v \in {0, 1} /\ Width(s.lengths, types, a) = 2
    BY <1>5 DEF IsContent, Width, BOOL_SIZE
  <2>2. BytesOf(val, s.lengths[a]) = <<val.v, 0>>
    BY <1>5 DEF BytesOf
  <2>3. val.v \in Byte /\ 0 \in Byte
    BY <2>1 DEF Byte
  <2> QED
    BY <2>1, <2>2, <2>3
<1> QED
  BY <1>1, <1>2, <1>3, <1>4, <1>5 DEF DataTypes

(* calloc makes every attribute a zero of its type. *)
LEMMA ZeroIs ==
  ASSUME NEW s, IsSchema(s), NEW types \in Typings(s), NEW a \in DOMAIN s.types
  PROVE  /\ IsContent(Zero(types[a])) /\ Zero(types[a]).dt = types[a]
         /\ \A i \in 1 .. Width(s.lengths, types, a) : BytesOf(Zero(types[a]), s.lengths[a])[i] = 0
<1>1. types[a] \in DataTypes /\ s.lengths[a] \in Nat
  BY TypingIs
<1>2. Zero(types[a]).dt = types[a] /\ Zero(types[a]).v = IF types[a] = "DT_STRING" THEN <<>> ELSE 0
  BY DEF Zero, Value
<1> DEFINE zero == Zero(types[a])
<1> HIDE DEF zero
<1>3. CASE types[a] = "DT_STRING"
  <2>1. zero.dt = "DT_STRING" /\ zero.v = <<>> /\ Width(s.lengths, types, a) = s.lengths[a]
    BY <1>2, <1>3 DEF Width, zero
  <2>2. BytesOf(zero, s.lengths[a]) = StringBytes(<<>>, s.lengths[a])
    BY <2>1 DEF BytesOf
  <2>3. \A i \in 1 .. s.lengths[a] : StringBytes(<<>>, s.lengths[a])[i] = 0
    BY <1>1 DEF StringBytes
  <2>4. IsContent(zero)
    BY <2>1 DEF IsContent
  <2> QED
    BY <1>2, <2>1, <2>2, <2>3, <2>4 DEF zero
<1>4. CASE types[a] = "DT_INT"
  <2>1. zero.dt = "DT_INT" /\ zero.v = 0 /\ Width(s.lengths, types, a) = 4
    BY <1>2, <1>4 DEF Width, zero, intTypeSize
  <2>2. BytesOf(zero, s.lengths[a]) = IntBytes(0)
    BY <2>1 DEF BytesOf
  <2>3. \A i \in 1 .. 4 : IntBytes(0)[i] = 0
    <3>1. /\ IntBytes(0)[1] = (0 \div 1) % 256
          /\ IntBytes(0)[2] = (0 \div 256) % 256
          /\ IntBytes(0)[3] = (0 \div 65536) % 256
          /\ IntBytes(0)[4] = (0 \div 16777216) % 256
      BY SMT DEF IntBytes, Weights, intTypeSize
    <3>2. (0 \div 1) % 256 = 0 /\ (0 \div 256) % 256 = 0 /\ (0 \div 65536) % 256 = 0 /\ (0 \div 16777216) % 256 = 0
      BY SMT
    <3> QED
      BY <3>1, <3>2, SMT
  <2>4. IsContent(zero)
    BY <2>1, SMT DEF IsContent, IsInt
  <2> QED
    BY <1>2, <2>1, <2>2, <2>3, <2>4 DEF zero
<1>5. CASE types[a] = "DT_FLOAT"
  <2>1. zero.dt = "DT_FLOAT" /\ zero.v = 0 /\ Width(s.lengths, types, a) = 4
    BY <1>2, <1>5 DEF Width, zero, FLOAT_SIZE
  <2>2. BytesOf(zero, s.lengths[a]) = <<0, 0, 0, 0>>
    BY <2>1, FloatsAssumption DEF BytesOf
  <2>4. IsContent(zero)
    BY <2>1, FloatsAssumption DEF IsContent
  <2> QED
    BY <1>2, <2>1, <2>2, <2>4 DEF zero
<1>6. CASE types[a] = "DT_BOOL"
  <2>1. zero.dt = "DT_BOOL" /\ zero.v = 0 /\ Width(s.lengths, types, a) = 2
    BY <1>2, <1>6 DEF Width, zero, BOOL_SIZE
  <2>2. BytesOf(zero, s.lengths[a]) = <<0, 0>>
    BY <2>1 DEF BytesOf
  <2>4. IsContent(zero)
    BY <2>1 DEF IsContent
  <2> QED
    BY <1>2, <2>1, <2>2, <2>4 DEF zero
<1> QED
  BY <1>1, <1>3, <1>4, <1>5, <1>6 DEF DataTypes

(* An attribute of a record, whose data types are types, holds a value. *)
Holds(s, types, bytes, a, val) ==
    /\ IsContent(val)
    /\ val.dt = s.types[a] /\ val.dt = types[a]
    /\ \A i \in 1 .. Width(s.lengths, types, a) :
          bytes[Offset(s, types, a) + i] = BytesOf(val, s.lengths[a])[i]

(* A record with room for the attributes, which are what they were set to. *)
IsRecord(s, types, bytes, room, vals) ==
    /\ room \in Nat
    /\ bytes \in [1 .. room -> Byte]
    /\ Offset(s, types, NumAttr(s)) <= room
    /\ bytes[1] = 45
    /\ DOMAIN vals = DOMAIN s.types
    /\ \A a \in DOMAIN s.types : vals[a] # Lost => Holds(s, types, bytes, a, vals[a])

(* There is a record for a schema of a client only, and its data types are those
   the client declared or what getAttr made of them. *)
IInv ==
    /\ up \in BOOLEAN
    /\ declared \in Schemas \cup {NoSchema}
    /\ dataTypes \in Typings(declared)
    /\ IF data = <<>> THEN size = 0
       ELSE declared \in Schemas /\ IsRecord(declared, dataTypes, data, size, value)

(* No attribute ends behind the record, which is not empty. *)
LEMMA InTheRecord ==
  ASSUME NEW s, IsSchema(s), NEW types \in Typings(s), NEW room \in Nat,
         Offset(s, types, NumAttr(s)) <= room
  PROVE  /\ room >= 2
         /\ \A a \in DOMAIN s.types :
               /\ Offset(s, types, a) \in Nat /\ Offset(s, types, a) >= 1
               /\ Width(s.lengths, types, a) \in Nat
               /\ Offset(s, types, a) + Width(s.lengths, types, a) <= room
<1> DEFINE N == NumAttr(s)
<1>1. N \in Nat /\ N >= 2 /\ DOMAIN s.types = 0 .. N - 1
      /\ \A a \in DOMAIN s.types : Width(s.lengths, types, a) \in Nat
      /\ Width(s.lengths, types, 0) >= 1
  BY TypingIs
<1>2. \A n \in 0 .. N : Offset(s, types, n) \in Nat /\ Offset(s, types, n) >= 1
  BY OffsetsAre
<1>3. \A a \in DOMAIN s.types : \A n \in a + 1 .. N :
         Offset(s, types, a) + Width(s.lengths, types, a) <= Offset(s, types, n)
  BY OffsetsAre
<1>4. Offset(s, types, N) <= room
  OBVIOUS
<1> HIDE DEF N
<1>5. ASSUME NEW a \in DOMAIN s.types
      PROVE  /\ Offset(s, types, a) \in Nat /\ Offset(s, types, a) >= 1
             /\ Width(s.lengths, types, a) \in Nat
             /\ Offset(s, types, a) + Width(s.lengths, types, a) <= room
  <2>1. a \in 0 .. N /\ N \in a + 1 .. N /\ N \in 0 .. N
    BY <1>1
  <2>2. Offset(s, types, a) + Width(s.lengths, types, a) <= Offset(s, types, N)
    BY <1>3, <2>1
  <2>3. Offset(s, types, a) \in Nat /\ Offset(s, types, a) >= 1 /\ Offset(s, types, N) \in Nat
    BY <1>2, <2>1
  <2>4. Width(s.lengths, types, a) \in Nat
    BY <1>1
  <2> QED
    BY <1>4, <2>2, <2>3, <2>4
<1>6. room >= 2
  <2>1. 0 \in DOMAIN s.types
    BY <1>1
  <2>2. /\ Offset(s, types, 0) \in Nat /\ Offset(s, types, 0) >= 1
        /\ Width(s.lengths, types, 0) \in Nat
        /\ Offset(s, types, 0) + Width(s.lengths, types, 0) <= room
    BY <1>5, <2>1
  <2>3. Width(s.lengths, types, 0) >= 1
    BY <1>1
  <2> QED
    BY <2>2, <2>3
<1> QED
  BY <1>5, <1>6

(* createRecord makes a record, of the size that the data types ask for. *)
LEMMA Created ==
  ASSUME NEW s, IsSchema(s), NEW types \in Typings(s), NEW room \in Nat,
         room = Offset(s, types, NumAttr(s))
  PROVE  IsRecord(s, types, Overwritten([i \in 1 .. room |-> 0], 0, <<45, 0>>), room,
                  [a \in DOMAIN s.types |-> IF types[a] = s.types[a] THEN Zero(types[a]) ELSE Lost])
<1> DEFINE bytes == Overwritten([i \in 1 .. room |-> 0], 0, <<45, 0>>)
           vals == [a \in DOMAIN s.types |-> IF types[a] = s.types[a] THEN Zero(types[a]) ELSE Lost]
<1>1. Offset(s, types, NumAttr(s)) <= room
  OBVIOUS
<1>2. room >= 2
  BY <1>1, InTheRecord
<1>3. bytes \in [1 .. room -> Byte] /\ bytes[1] = 45 /\ \A i \in 2 .. room : bytes[i] = 0
  <2> DEFINE zeros == [i \in 1 .. room |-> 0]
             mark == <<45, 0>>
  <2>1. zeros \in [1 .. room -> Byte] /\ mark \in [1 .. 2 -> Byte] /\ 0 + 2 <= room /\ 0 \in Nat /\ 2 \in Nat
    BY <1>2 DEF Byte
  <2>2. \A i \in 1 .. room : zeros[i] = 0
    OBVIOUS
  <2>3. mark[1] = 45 /\ mark[2] = 0
    OBVIOUS
  <2> HIDE DEF zeros, mark
  <2>4. /\ Overwritten(zeros, 0, mark) \in [1 .. room -> Byte]
        /\ \A i \in 1 .. room : Overwritten(zeros, 0, mark)[i] =
              IF 0 < i /\ i <= 0 + 2 THEN mark[i - 0] ELSE zeros[i]
    <3>1. ASSUME NEW o \in Nat, o = 0, NEW k \in Nat, k = 2
          PROVE  /\ Overwritten(zeros, o, mark) \in [1 .. room -> Byte]
                 /\ \A i \in 1 .. room : Overwritten(zeros, o, mark)[i] =
                       IF o < i /\ i <= o + k THEN mark[i - o] ELSE zeros[i]
      <4>1. o + k <= room /\ mark \in [1 .. k -> Byte]
        BY <2>1, <3>1
      <4>2. zeros \in [1 .. room -> Byte] /\ mark \in [1 .. k -> Byte] /\ o + k <= room
        BY <2>1, <4>1
      <4>3. \A n \in Nat, p \in Nat, q \in Nat : p + q <= n =>
               \A f \in [1 .. n -> Byte], g \in [1 .. q -> Byte] :
                  /\ Overwritten(f, p, g) \in [1 .. n -> Byte]
                  /\ \A i \in 1 .. n : Overwritten(f, p, g)[i] = IF p < i /\ i <= p + q THEN g[i - p] ELSE f[i]
        BY Overwrites, Zenon
      <4> QED
        BY <4>2, <4>3
    <3> QED
      BY <2>1, <3>1
  <2>5. bytes = Overwritten(zeros, 0, mark)
    BY DEF zeros, mark
  <2> HIDE DEF bytes
  <2>6. bytes[1] = 45
    <3>1. 1 \in 1 .. room /\ 0 < 1 /\ 1 <= 0 + 2 /\ 1 - 0 = 1
      BY <1>2
    <3> QED
      BY <2>3, <2>4, <2>5, <3>1
  <2>7. ASSUME NEW i \in 2 .. room PROVE bytes[i] = 0
    <3>1. i \in 1 .. room /\ i - 0 = i /\ (i <= 0 + 2 => i = 2)
      OBVIOUS
    <3> QED
      BY <2>2, <2>3, <2>4, <2>5, <3>1
  <2> QED
    BY <2>4, <2>5, <2>6, <2>7
<1> HIDE DEF bytes
<1>4. ASSUME NEW a \in DOMAIN s.types, vals[a] # Lost PROVE Holds(s, types, bytes, a, vals[a])
  <2>1. types[a] = s.types[a] /\ vals[a] = Zero(types[a])
    BY <1>4
  <2>2. /\ IsContent(Zero(types[a])) /\ Zero(types[a]).dt = types[a]
        /\ \A i \in 1 .. Width(s.lengths, types, a) : BytesOf(Zero(types[a]), s.lengths[a])[i] = 0
    BY ZeroIs
  <2>3. ASSUME NEW i \in 1 .. Width(s.lengths, types, a) PROVE bytes[Offset(s, types, a) + i] = 0
    <3>1. /\ Offset(s, types, a) \in Nat /\ Offset(s, types, a) >= 1
          /\ Width(s.lengths, types, a) \in Nat
          /\ Offset(s, types, a) + Width(s.lengths, types, a) <= room
      BY <1>1, InTheRecord
    <3>2. Offset(s, types, a) + i \in 2 .. room
      BY <3>1
    <3> QED
      BY <1>3, <3>2
  <2> QED
    BY <2>1, <2>2, <2>3 DEF Holds
<1>5. DOMAIN vals = DOMAIN s.types
  OBVIOUS
<1> HIDE DEF vals
<1>6. IsRecord(s, types, bytes, room, vals)
  BY <1>1, <1>3, <1>4, <1>5 DEF IsRecord
<1> QED
  BY <1>6 DEF bytes, vals

(* Setting an attribute touches no other, nor the mark. *)
LEMMA AttributeSet ==
  ASSUME NEW s, IsSchema(s), NEW types \in Typings(s), NEW bytes, NEW room, NEW vals,
         IsRecord(s, types, bytes, room, vals), NEW a \in DOMAIN s.types,
         NEW val, IsContent(val), val.dt = s.types[a]
  PROVE  IsRecord(s, types,
                  Overwritten(bytes, Offset(s, types, a),
                              IF types[a] = val.dt THEN BytesOf(val, s.lengths[a]) ELSE <<>>),
                  room, [vals EXCEPT ![a] = IF types[a] = val.dt THEN val ELSE Lost])
<1> DEFINE by == IF types[a] = val.dt THEN BytesOf(val, s.lengths[a]) ELSE <<>>
           o == Offset(s, types, a)
           k == IF types[a] = val.dt THEN Width(s.lengths, types, a) ELSE 0
           new == Overwritten(bytes, o, by)
           newVals == [vals EXCEPT ![a] = IF types[a] = val.dt THEN val ELSE Lost]
           w(b) == Width(s.lengths, types, b)
           O(b) == Offset(s, types, b)
<1>1. /\ room \in Nat /\ bytes \in [1 .. room -> Byte] /\ Offset(s, types, NumAttr(s)) <= room
      /\ bytes[1] = 45 /\ DOMAIN vals = DOMAIN s.types
      /\ \A b \in DOMAIN s.types : vals[b] # Lost => Holds(s, types, bytes, b, vals[b])
  BY DEF IsRecord
<1>2. room >= 2 /\ \A b \in DOMAIN s.types : O(b) \in Nat /\ O(b) >= 1 /\ w(b) \in Nat /\ O(b) + w(b) <= room
  BY <1>1, InTheRecord
<1>3. k \in Nat /\ by \in [1 .. k -> Byte] /\ o \in Nat /\ o >= 1 /\ o + k <= room /\ k <= w(a)
  <2>1. CASE types[a] = val.dt
    <3>1. k = w(a) /\ by = BytesOf(val, s.lengths[a])
      BY <2>1
    <3>2. BytesOf(val, s.lengths[a]) \in [1 .. w(a) -> Byte]
      BY <2>1, BytesOfIs
    <3> QED
      BY <1>2, <3>1, <3>2
  <2>2. CASE types[a] # val.dt
    <3>1. k = 0 /\ by = <<>>
      BY <2>2
    <3>2. <<>> \in [1 .. 0 -> Byte]
      OBVIOUS
    <3>3. O(a) \in Nat /\ O(a) >= 1 /\ w(a) \in Nat /\ O(a) + w(a) <= room /\ room \in Nat /\ o = O(a)
      BY <1>1, <1>2
    <3> HIDE DEF k, by, o, O, w
    <3> QED
      BY <3>1, <3>2, <3>3
  <2> QED
    BY <2>1, <2>2
<1>4. o = O(a) /\ (types[a] = val.dt => k = w(a) /\ by = BytesOf(val, s.lengths[a]))
  OBVIOUS
<1>5. \A b \in DOMAIN s.types : newVals[b] = IF b = a THEN (IF types[a] = val.dt THEN val ELSE Lost) ELSE vals[b]
  BY <1>1
<1>6. DOMAIN newVals = DOMAIN s.types
  BY <1>1
<1> HIDE DEF by, k, newVals
<1>7. /\ new \in [1 .. room -> Byte]
      /\ \A i \in 1 .. room : new[i] = IF o < i /\ i <= o + k THEN by[i - o] ELSE bytes[i]
  <2> HIDE DEF o, w, O
  <2>1. /\ room \in Nat /\ o \in Nat /\ k \in Nat /\ o + k <= room
        /\ bytes \in [1 .. room -> Byte] /\ by \in [1 .. k -> Byte]
    BY <1>1, <1>3
  <2>2. /\ Overwritten(bytes, o, by) \in [1 .. room -> Byte]
        /\ \A i \in 1 .. room : Overwritten(bytes, o, by)[i] = IF o < i /\ i <= o + k THEN by[i - o] ELSE bytes[i]
    BY <2>1, Overwrites
  <2> QED
    BY <2>2
<1> HIDE DEF o, new, w, O
<1>8. new[1] = 45
  <2>1. 1 \in 1 .. room /\ ~(o < 1)
    BY <1>2, <1>1, <1>3
  <2>2. new[1] = IF o < 1 /\ 1 <= o + k THEN by[1 - o] ELSE bytes[1]
    BY <1>7, <2>1
  <2>3. bytes[1] = 45
    BY <1>1
  <2> QED
    BY <2>1, <2>2, <2>3
<1>9. ASSUME NEW b \in DOMAIN s.types, newVals[b] # Lost PROVE Holds(s, types, new, b, newVals[b])
  <2>0. \A i \in 1 .. w(b) : O(b) + i \in 1 .. room
    <3>1. O(b) \in Nat /\ O(b) >= 1 /\ w(b) \in Nat /\ O(b) + w(b) <= room /\ room \in Nat
      BY <1>1, <1>2
    <3> QED
      BY <3>1
  <2>1. CASE b = a
    <3>1. types[a] = val.dt /\ newVals[b] = val /\ k = w(a) /\ by = BytesOf(val, s.lengths[a])
      BY <1>4, <1>5, <1>9, <2>1
    <3>2. ASSUME NEW i \in 1 .. w(a) PROVE new[O(a) + i] = BytesOf(val, s.lengths[a])[i]
      <4>1. O(a) \in Nat /\ w(a) \in Nat /\ O(a) + i \in 1 .. room
        BY <1>2, <2>0, <2>1
      <4>2. o < O(a) + i /\ O(a) + i <= o + k /\ (O(a) + i) - o = i
        BY <1>4, <3>1, <4>1
      <4> QED
        BY <1>7, <3>1, <4>1, <4>2
    <3> QED
      BY <2>1, <3>1, <3>2 DEF Holds, w, O
  <2>2. CASE b # a
    <3>1. newVals[b] = vals[b] /\ Holds(s, types, bytes, b, vals[b])
      BY <1>1, <1>5, <1>9, <2>2
    <3>2. O(b) + w(b) <= O(a) \/ O(a) + w(a) <= O(b)
      <4>1. NumAttr(s) \in Nat /\ DOMAIN s.types = 0 .. NumAttr(s) - 1
        BY TypingIs
      <4>2. a \in b + 1 .. NumAttr(s) \/ b \in a + 1 .. NumAttr(s)
        BY <2>2, <4>1
      <4> QED
        BY <4>2, OffsetsAre DEF O, w
    <3>3. ASSUME NEW i \in 1 .. w(b) PROVE new[O(b) + i] = bytes[O(b) + i]
      <4>1. O(a) \in Nat /\ w(a) \in Nat /\ O(b) \in Nat /\ w(b) \in Nat /\ O(b) + i \in 1 .. room
        BY <1>2, <2>0
      <4>2. ~(o < O(b) + i /\ O(b) + i <= o + k)
        BY <1>3, <1>4, <3>2, <4>1
      <4> QED
        BY <1>7, <4>1, <4>2
    <3> QED
      BY <3>1, <3>3 DEF Holds, w, O
  <2> QED
    BY <2>1, <2>2
<1>10. IsRecord(s, types, new, room, newVals)
  BY <1>1, <1>6, <1>7, <1>8, <1>9 DEF IsRecord
<1> QED
  BY <1>10 DEF new, newVals, by, o

(* When the data types change, attribute 0 stays where it was, and the others are
   lost. *)
LEMMA AttributesLost ==
  ASSUME NEW s, IsSchema(s), NEW types \in Typings(s), NEW bytes, NEW room, NEW vals,
         IsRecord(s, types, bytes, room, vals)
  PROVE  IsRecord(s, Retyped(s), bytes, room, [a \in DOMAIN s.types |-> IF a = 0 THEN vals[a] ELSE Lost])
<1> DEFINE new == Retyped(s)
           newVals == [a \in DOMAIN s.types |-> IF a = 0 THEN vals[a] ELSE Lost]
<1>1. /\ room \in Nat /\ bytes \in [1 .. room -> Byte] /\ Offset(s, types, NumAttr(s)) <= room
      /\ bytes[1] = 45
      /\ \A b \in DOMAIN s.types : vals[b] # Lost => Holds(s, types, bytes, b, vals[b])
  BY DEF IsRecord
<1>2. new \in Typings(s)
  BY DEF Typings
<1>3. NumAttr(s) \in Nat /\ DOMAIN s.types = 0 .. NumAttr(s) - 1 /\ types[0] = s.types[0]
  BY TypingIs
<1>4. new[0] = s.types[0]
  BY <1>2, TypingIs
<1>5. Offset(s, new, NumAttr(s)) <= room
  <2>1. NumAttr(s) \in 0 .. NumAttr(s)
    BY <1>3
  <2>2. Offset(s, new, NumAttr(s)) <= Offset(s, types, NumAttr(s)) /\ Offset(s, types, NumAttr(s)) \in Nat
    BY <2>1, OffsetsAre
  <2>3. Offset(s, new, NumAttr(s)) \in Nat
    BY <1>2, <2>1, OffsetsAre
  <2> QED
    BY <1>1, <2>2, <2>3
<1>6. Offset(s, types, 0) = 1 /\ Offset(s, new, 0) = 1
  BY <1>2, OffsetsAre
<1>7. Width(s.lengths, new, 0) = Width(s.lengths, types, 0)
  BY <1>3, <1>4 DEF Width
<1> HIDE DEF new
<1>8. ASSUME NEW a \in DOMAIN s.types, newVals[a] # Lost PROVE Holds(s, new, bytes, a, newVals[a])
  <2>1. a = 0 /\ newVals[a] = vals[0]
    BY <1>8
  <2>2. Holds(s, types, bytes, 0, vals[0])
    BY <1>1, <1>8, <2>1
  <2>3. Holds(s, new, bytes, 0, vals[0])
    BY <1>3, <1>4, <1>6, <1>7, <2>2 DEF Holds
  <2> QED
    BY <2>1, <2>3
<1>9. DOMAIN newVals = DOMAIN s.types
  OBVIOUS
<1> HIDE DEF newVals
<1>10. IsRecord(s, new, bytes, room, newVals)
  BY <1>1, <1>5, <1>8, <1>9 DEF IsRecord
<1> QED
  BY <1>10 DEF new, newVals

-----------------------------------------------------------------------------
(* The invariant.                                                            *)

(* However often getAttr changes the data types, they are the same. *)
LEMMA TypesAfterGetAre ==
  ASSUME NEW s, IsSchema(s), NEW types \in Typings(s), NEW a
  PROVE  TypesAfterGet(types, a) = IF a = 1 THEN Retyped(s) ELSE types
<1>1. /\ s.types \in [DOMAIN s.types -> DataTypes] /\ types \in [DOMAIN s.types -> DataTypes]
      /\ types = s.types \/ types = Retyped(s)
  BY TypingIs DEF IsSchema, Typings
<1>2. [types EXCEPT ![1] = "DT_STRING"] = Retyped(s)
  <2>1. CASE types = s.types
    BY <2>1 DEF Retyped
  <2>2. CASE types = Retyped(s)
    <3>1. Retyped(s) = [b \in DOMAIN s.types |-> IF b = 1 THEN "DT_STRING" ELSE s.types[b]]
      BY <1>1 DEF Retyped
    <3>2. [types EXCEPT ![1] = "DT_STRING"] = [b \in DOMAIN s.types |-> IF b = 1 THEN "DT_STRING" ELSE types[b]]
      BY <1>1
    <3> QED
      BY <2>2, <3>1, <3>2
  <2> QED
    BY <1>1, <2>1, <2>2
<1> QED
  BY <1>2 DEF TypesAfterGet

(* A node of a condition changes the data types as getAttr does, or not. *)
LEMMA TypesAfterNode ==
  ASSUME NEW at, NEW node, NEW place, IsNode(node, place), NEW st \in AfterNode(at, node)
  PROVE  st.types = at.types \/ st.types = TypesAfterGet(at.types, 1)
<1>1. node.type \in {"EXPR_CONST", "EXPR_ATTRREF", "EXPR_OP"}
  BY DEF IsNode
<1>2. CASE at.vals # <<>> /\ Ends(Last(at.vals))
  BY <1>2 DEF AfterNode
<1>3. CASE ~(at.vals # <<>> /\ Ends(Last(at.vals))) /\ node.type = "EXPR_CONST"
  BY <1>3 DEF AfterNode
<1>4. CASE ~(at.vals # <<>> /\ Ends(Last(at.vals))) /\ node.type = "EXPR_ATTRREF"
  <2>1. st.types = TypesAfterGet(at.types, node.attrRef)
    BY <1>4 DEF AfterNode
  <2> QED
    BY <2>1 DEF TypesAfterGet
<1>5. CASE ~(at.vals # <<>> /\ Ends(Last(at.vals))) /\ node.type = "EXPR_OP"
  BY <1>5 DEF AfterNode
<1> QED
  BY <1>1, <1>2, <1>3, <1>4, <1>5

(* An evaluation changes the data types only as getAttr does. *)
LEMMA EvaluationTypes ==
  ASSUME NEW e \in Conditions, NEW s, IsSchema(s), NEW types \in Typings(s), NEW result \in Results(e, types)
  PROVE  result.types \in {types, Retyped(s)}
<1> DEFINE start == {[vals |-> <<>>, types |-> types]}
<1>1. PICK at : /\ at[0] = start
                /\ \A k \in 1 .. Len(e) : at[k] = Reached(at[k - 1], e[k])
                /\ FoldLeft(Reached, start, e) = at[Len(e)]
  BY EvaluationRounds
<1>2. PICK st \in at[Len(e)] : result.types = st.types
  BY <1>1 DEF Results
<1>3. Len(e) \in Nat /\ \A k \in 1 .. Len(e) : IsNode(e[k], k)
  BY ConditionsAssumption
<1> DEFINE S == {k \in Nat : k <= Len(e) => \A x \in at[k] : x.types \in {types, Retyped(s)}}
<1>4. 0 \in S
  BY <1>1
<1>5. ASSUME NEW k \in S PROVE k + 1 \in S
  <2> SUFFICES ASSUME k + 1 <= Len(e), NEW x \in at[k + 1] PROVE x.types \in {types, Retyped(s)}
    OBVIOUS
  <2>1. k + 1 \in 1 .. Len(e) /\ (k + 1) - 1 = k /\ k \in Nat /\ k <= Len(e)
    BY <1>3
  <2>2. at[k + 1] = Reached(at[k], e[(k + 1)]) /\ IsNode(e[(k + 1)], k + 1)
    BY <1>1, <1>3, <2>1
  <2>3. PICK y \in at[k] : x \in AfterNode(y, e[(k + 1)])
    BY <2>2 DEF Reached
  <2>4. x.types = y.types \/ x.types = TypesAfterGet(y.types, 1)
    BY <2>2, <2>3, TypesAfterNode
  <2>5. y.types \in {types, Retyped(s)}
    BY <2>1
  <2>6. types \in Typings(s) /\ Retyped(s) \in Typings(s)
    BY DEF Typings
  <2>7. TypesAfterGet(y.types, 1) = Retyped(s)
    BY <2>5, <2>6, TypesAfterGetAre
  <2> QED
    BY <2>4, <2>5, <2>7
<1>6. S = Nat
  <2>1. S \in SUBSET Nat
    OBVIOUS
  <2> HIDE DEF S
  <2> QED
    BY <1>4, <1>5, <2>1, AllNumbers
<1> QED
  BY <1>2, <1>3, <1>6

(* What ValuesUnder keeps when the data types stay or change as getAttr changes
   them. *)
LEMMA RecordUnder ==
  ASSUME IInv, data # <<>>, NEW types \in {dataTypes, Retyped(declared)}
  PROVE  types \in Typings(declared) /\ IsRecord(declared, types, data, size, ValuesUnder(types))
<1>1. /\ declared \in Schemas /\ IsSchema(declared) /\ dataTypes \in Typings(declared)
      /\ IsRecord(declared, dataTypes, data, size, value)
  BY SchemasAssumption DEF IInv
<1>2. CASE types = dataTypes
  BY <1>1, <1>2 DEF ValuesUnder
<1>3. CASE types # dataTypes
  <2>1. types = Retyped(declared) /\ types \in Typings(declared)
    BY <1>3 DEF Typings
  <2>2. ValuesUnder(types) = [a \in DOMAIN declared.types |-> IF a = 0 THEN value[a] ELSE Lost]
    BY <1>3 DEF ValuesUnder, Attrs
  <2> QED
    BY <1>1, <2>1, <2>2, AttributesLost
<1> QED
  BY <1>2, <1>3

(* Every step keeps records and their attributes in order: what createRecord,
   getAttr, setAttr and evalExpr do to the bytes and to the data types. *)
THEOREM Invariance == Spec => []IInv
<1>1. Init => IInv
  BY DEF Init, IInv, Typings, NoSchema
<1>2. ASSUME IInv, [Next]_vars PROVE IInv'
  <2>1. CASE UNCHANGED vars
    BY <1>2, <2>1 DEF vars, IInv, IsRecord, Holds
  <2>2. CASE \E s \in Schemas : createSchema(s)
    <3>1. PICK s \in Schemas : createSchema(s)
      BY <2>2
    <3>2. data = <<>>
      <4>1. declared = NoSchema
        BY <3>1 DEF createSchema
      <4>2. ~IsSchema(NoSchema)
        BY DEF IsSchema, NoSchema
      <4> QED
        BY <1>2, <4>1, <4>2, SchemasAssumption DEF IInv
    <3> QED
      BY <1>2, <3>1, <3>2 DEF createSchema, IInv, Typings
  <2>3. CASE freeSchema
    BY <1>2, <2>3 DEF freeSchema, IInv, Typings, NoSchema
  <2>4. CASE createRecord
    <3>1. /\ declared \in Schemas /\ IsSchema(declared) /\ dataTypes \in Typings(declared)
      BY <1>2, <2>4, SchemasAssumption DEF IInv, createRecord
    <3>2. size' = Offset(declared, dataTypes, NumAttr(declared))
      <4>1. DOMAIN dataTypes = DOMAIN declared.types
        BY <3>1, TypingIs
      <4>2. getRecordSize(dataTypes) = Widths(declared.lengths, dataTypes, NumAttr(declared)) + 1
        BY <4>1, WidthsAre DEF getRecordSize, NumAttr
      <4>3. NumAttr(declared) \in 0 .. NumAttr(declared)
        BY <3>1, TypingIs
      <4>4. Widths(declared.lengths, dataTypes, NumAttr(declared)) \in Nat
        BY <3>1, <4>3, OffsetsAre
      <4> QED
        BY <2>4, <4>2, <4>4 DEF createRecord, Offset
    <3>3. size' \in Nat
      <4>1. NumAttr(declared) \in 0 .. NumAttr(declared)
        BY <3>1, TypingIs
      <4> QED
        BY <3>1, <3>2, <4>1, OffsetsAre
    <3>4. IsRecord(declared, dataTypes, data', size', value')
      <4>1. PICK room \in Nat : room = size'
        BY <3>3
      <4>2. /\ data' = Overwritten([i \in 1 .. room |-> 0], 0, <<45, 0>>)
            /\ value' = [a \in DOMAIN declared.types |->
                            IF dataTypes[a] = declared.types[a] THEN Zero(dataTypes[a]) ELSE Lost]
        BY <2>4, <4>1 DEF createRecord, Attrs
      <4>3. room = Offset(declared, dataTypes, NumAttr(declared))
        BY <3>2, <4>1
      <4>4. IsRecord(declared, dataTypes, Overwritten([i \in 1 .. room |-> 0], 0, <<45, 0>>), room,
                     [a \in DOMAIN declared.types |->
                         IF dataTypes[a] = declared.types[a] THEN Zero(dataTypes[a]) ELSE Lost])
        BY <3>1, <4>3, Created
      <4> QED
        BY <4>1, <4>2, <4>4
    <3>5. data' # <<>>
      <4>1. data'[1] = 45 /\ data' \in [1 .. size' -> Byte] /\ size' >= 2
        BY <3>1, <3>3, <3>4, InTheRecord DEF IsRecord
      <4> QED
        BY <3>3, <4>1
    <3>6. UNCHANGED <<up, declared, dataTypes>>
      BY <2>4 DEF createRecord
    <3> QED
      BY <1>2, <3>1, <3>4, <3>5, <3>6 DEF IInv
  <2>5. CASE freeRecord
    BY <1>2, <2>5 DEF freeRecord, IInv
  <2>6. CASE data # <<>> /\ \E a \in Attrs : getAttr(a)
    <3>1. PICK a \in Attrs : getAttr(a)
      BY <2>6
    <3>2. IsSchema(declared) /\ dataTypes \in Typings(declared)
      BY <1>2, <2>6, SchemasAssumption DEF IInv
    <3>3. dataTypes' \in {dataTypes, Retyped(declared)} /\ value' = ValuesUnder(dataTypes')
      BY <3>1, <3>2, TypesAfterGetAre DEF getAttr
    <3>4. dataTypes' \in Typings(declared) /\ IsRecord(declared, dataTypes', data, size, value')
      BY <1>2, <2>6, <3>3, RecordUnder
    <3> QED
      BY <1>2, <2>6, <3>1, <3>4 DEF getAttr, IInv
  <2>7. CASE data # <<>> /\ \E a \in Attrs, val \in Contents : setAttr(a, val)
    <3>1. PICK a \in Attrs, val \in Contents : setAttr(a, val)
      BY <2>7
    <3>2. /\ declared \in Schemas /\ IsSchema(declared) /\ dataTypes \in Typings(declared)
          /\ IsRecord(declared, dataTypes, data, size, value)
          /\ IsContent(val) /\ val.dt = declared.types[a] /\ a \in DOMAIN declared.types
      BY <1>2, <2>7, <3>1, SchemasAssumption, ContentsAssumption DEF IInv, setAttr, Attrs
    <3>3. attrOffset(dataTypes, a) = Offset(declared, dataTypes, a)
      BY WidthsAre DEF attrOffset, Offset
    <3>4. IsRecord(declared, dataTypes, data', size, value')
      <4>1. IsRecord(declared, dataTypes,
                     Overwritten(data, Offset(declared, dataTypes, a),
                                 IF dataTypes[a] = val.dt THEN BytesOf(val, declared.lengths[a]) ELSE <<>>),
                     size, [value EXCEPT ![a] = IF dataTypes[a] = val.dt THEN val ELSE Lost])
        BY <3>2, AttributeSet
      <4>2. /\ data' = Overwritten(data, Offset(declared, dataTypes, a),
                                   IF dataTypes[a] = val.dt THEN BytesOf(val, declared.lengths[a]) ELSE <<>>)
            /\ value' = [value EXCEPT ![a] = IF dataTypes[a] = val.dt THEN val ELSE Lost]
        BY <3>1, <3>3 DEF setAttr
      <4> QED
        BY <4>1, <4>2
    <3> QED
      BY <1>2, <2>7, <3>1, <3>2, <3>4 DEF setAttr, IInv, IsRecord
  <2>8. CASE data # <<>> /\ \E e \in Conditions : evalExpr(e)
    <3>1. PICK e \in Conditions : evalExpr(e)
      BY <2>8
    <3>2. IsSchema(declared) /\ dataTypes \in Typings(declared)
      BY <1>2, <2>8, SchemasAssumption DEF IInv
    <3>3. PICK result \in Results(e, dataTypes) :
              /\ up' = ~Ends(result.val)
              /\ dataTypes' = result.types
              /\ value' = ValuesUnder(result.types)
              /\ UNCHANGED <<declared, data, size>>
      BY <3>1 DEF evalExpr
    <3>4. dataTypes' \in {dataTypes, Retyped(declared)}
      BY <3>2, <3>3, EvaluationTypes
    <3>5. dataTypes' \in Typings(declared) /\ IsRecord(declared, dataTypes', data, size, value')
      BY <1>2, <2>8, <3>3, <3>4, RecordUnder
    <3> QED
      BY <1>2, <2>8, <3>3, <3>5 DEF IInv, Ends
  <2> QED
    BY <1>2, <2>1, <2>2, <2>3, <2>4, <2>5, <2>6, <2>7, <2>8 DEF Next
<1> QED
  BY <1>1, <1>2, PTL DEF Spec

(* No attribute ends behind the record, under whatever types getAttr leaves, and
   so setAttr writes nothing there. *)
THEOREM TypesCorrect == Spec => []TypeOK
<1>1. ASSUME IInv PROVE TypeOK
  <2>1. up \in BOOLEAN /\ declared \in Schemas \cup {NoSchema}
    BY <1>1 DEF IInv
  <2>2. DOMAIN dataTypes = Attrs
    <3>1. CASE declared \in Schemas
      BY <1>1, <3>1, SchemasAssumption, TypingIs DEF IInv, Attrs
    <3>2. CASE declared = NoSchema
      BY <1>1, <3>2 DEF IInv, Attrs, Typings, Retyped, NoSchema
    <3> QED
      BY <2>1, <3>1, <3>2
  <2>3. CASE data = <<>>
    BY <1>1, <2>1, <2>2, <2>3 DEF IInv, TypeOK
  <2>4. CASE data # <<>>
    <3>1. IsSchema(declared) /\ dataTypes \in Typings(declared) /\ IsRecord(declared, dataTypes, data, size, value)
      BY <1>1, <2>4, SchemasAssumption DEF IInv
    <3>2. size \in Nat /\ data \in [1 .. size -> Byte] /\ DOMAIN value = Attrs
          /\ Offset(declared, dataTypes, NumAttr(declared)) <= size
      BY <3>1 DEF IsRecord, Attrs
    <3>3. data \in Seq(Byte) /\ Len(data) = size
      BY <3>2
    <3>4. \A a \in Attrs : attrOffset(dataTypes, a) + WidthOf(dataTypes, a) <= size
      BY <3>1, <3>2, InTheRecord, WidthsAre DEF attrOffset, Offset, Attrs
    <3> QED
      BY <2>1, <2>2, <3>2, <3>3, <3>4 DEF TypeOK
  <2> QED
    BY <2>3, <2>4
<1> QED
  BY <1>1, Invariance, PTL

-----------------------------------------------------------------------------
(* Attributes.                                                               *)

(* The bytes of an attribute are those of what it was set to. *)
LEMMA BytesAreKept ==
  ASSUME IInv, data # <<>>, NEW a \in Attrs, value[a] # Lost
  PROVE  /\ IsContent(value[a]) /\ value[a].dt = dataTypes[a] /\ value[a].dt = declared.types[a]
         /\ declared.lengths[a] \in Nat
         /\ BytesAt(dataTypes, a) = BytesOf(value[a], declared.lengths[a])
<1> DEFINE n == Width(declared.lengths, dataTypes, a)
           bytes == BytesOf(value[a], declared.lengths[a])
<1>1. /\ IsSchema(declared) /\ dataTypes \in Typings(declared) /\ a \in DOMAIN declared.types
      /\ IsRecord(declared, dataTypes, data, size, value)
  BY SchemasAssumption DEF IInv, Attrs
<1>2. Holds(declared, dataTypes, data, a, value[a])
  BY <1>1 DEF IsRecord
<1>3. bytes \in [1 .. n -> Byte]
  BY <1>1, <1>2, BytesOfIs DEF Holds
<1>4. BytesAt(dataTypes, a) = [i \in 1 .. n |-> data[Offset(declared, dataTypes, a) + i]]
  BY WidthsAre DEF BytesAt, attrOffset, Offset
<1>5. \A i \in 1 .. n : data[Offset(declared, dataTypes, a) + i] = bytes[i]
  BY <1>2 DEF Holds
<1> HIDE DEF n, bytes
<1>6. BytesAt(dataTypes, a) = bytes
  BY <1>3, <1>4, <1>5
<1>7. declared.lengths[a] \in Nat
  BY <1>1, TypingIs
<1> QED
  BY <1>2, <1>6, <1>7 DEF Holds, bytes

(* Attributes that are ints or strings are delivered, and leave the data types. *)
LEMMA ReadableIsRead ==
  ASSUME IInv, data # <<>>, NEW a \in Attrs, Readable(a)
  PROVE  /\ value[a].dt \in {"DT_INT", "DT_STRING"}
         /\ TypesAfterGet(dataTypes, a) = dataTypes
         /\ AttrValues(dataTypes, a) = {Value(value[a].dt, Kept(a))}
<1>1. value[a].dt \in {"DT_INT", "DT_STRING"} /\ value[a] # Lost /\ (value[a].dt = "DT_INT" => a # 1)
  BY DEF Readable, Lost, Value
<1>2. /\ IsContent(value[a]) /\ value[a].dt = dataTypes[a] /\ value[a].dt = declared.types[a]
      /\ declared.lengths[a] \in Nat
      /\ BytesAt(dataTypes, a) = BytesOf(value[a], declared.lengths[a])
  BY <1>1, BytesAreKept
<1>3. IsSchema(declared) /\ dataTypes \in Typings(declared)
  BY SchemasAssumption DEF IInv
<1>4. TypesAfterGet(dataTypes, a) = dataTypes
  <2>1. CASE a # 1
    BY <2>1 DEF TypesAfterGet
  <2>2. CASE a = 1
    <3>1. declared.types[1] = "DT_STRING" /\ declared.types \in [DOMAIN declared.types -> DataTypes]
      BY <1>1, <1>2, <1>3, <2>2 DEF IsSchema
    <3>2. Retyped(declared) = declared.types
      BY <3>1 DEF Retyped
    <3> QED
      BY <1>3, <3>2, TypesAfterGetAre DEF Typings
  <2> QED
    BY <2>1, <2>2
<1>5. CASE value[a].dt = "DT_INT"
  <2>1. IsInt(value[a].v) /\ BytesAt(dataTypes, a) = IntBytes(value[a].v) /\ Kept(a) = value[a].v
    BY <1>2, <1>5 DEF IsContent, BytesOf, Kept
  <2>2. AttrValues(dataTypes, a) = {Value("DT_INT", IntOf(BytesAt(dataTypes, a)))}
    BY <1>2, <1>5 DEF AttrValues
  <2>3. IntOf(IntBytes(value[a].v)) = value[a].v
    BY <2>1, IntIsBytes
  <2> QED
    BY <1>1, <1>4, <1>5, <2>1, <2>2, <2>3
<1>6. CASE value[a].dt = "DT_STRING"
  <2>1. /\ value[a].v \in Seq(Byte \ {0})
        /\ BytesAt(dataTypes, a) = StringBytes(value[a].v, declared.lengths[a])
        /\ Kept(a) = SubSeq(value[a].v, 1, Min({Len(value[a].v), declared.lengths[a]}))
    BY <1>2, <1>6 DEF IsContent, BytesOf, Kept
  <2>2. AttrValues(dataTypes, a) = {Value("DT_STRING", StringOf(BytesAt(dataTypes, a)))}
    BY <1>2, <1>6 DEF AttrValues
  <2>3. StringOf(StringBytes(value[a].v, declared.lengths[a])) = Kept(a)
    BY <1>2, <2>1, StringIsBytes
  <2> QED
    BY <1>1, <1>4, <1>6, <2>1, <2>2, <2>3
<1> QED
  BY <1>1, <1>5, <1>6

(* setAttr touches no attribute but its own and not the mark of the slot, and
   getAttr delivers ints and strings as setAttr was given them. *)
THEOREM AttributesAreKept == Spec => []AttributesKept
<1>1. ASSUME IInv PROVE AttributesKept
  <2> SUFFICES ASSUME data # <<>>
               PROVE  /\ data[1] = 45
                      /\ \A a \in Attrs : value[a] # Lost =>
                            /\ BytesAt(dataTypes, a) = BytesOf(value[a], declared.lengths[a])
                            /\ Readable(a) =>
                                  AttrValues(TypesAfterGet(dataTypes, a), a) = {Value(value[a].dt, Kept(a))}
    BY DEF AttributesKept
  <2>1. data[1] = 45
    BY <1>1 DEF IInv, IsRecord
  <2>2. ASSUME NEW a \in Attrs, value[a] # Lost
        PROVE  /\ BytesAt(dataTypes, a) = BytesOf(value[a], declared.lengths[a])
               /\ Readable(a) => AttrValues(TypesAfterGet(dataTypes, a), a) = {Value(value[a].dt, Kept(a))}
    BY <1>1, <2>2, BytesAreKept, ReadableIsRead
  <2> QED
    BY <2>1, <2>2
<1> QED
  BY <1>1, Invariance, PTL

-----------------------------------------------------------------------------
(* Conditions.                                                               *)

(* A value is what a meaning says. *)
Agrees(val, meaning) ==
    /\ meaning.dt \in DataTypes \cup {"outermost"}
    /\ val.dt = IF meaning.dt = "outermost" THEN "DT_INT" ELSE meaning.dt
    /\ meaning.dt \in DataTypes \ {"DT_BOOL"} => val.v = meaning.v
    /\ meaning.dt \in {"DT_BOOL", "outermost"} => meaning.v \in BOOLEAN
    /\ meaning.dt = "DT_BOOL" => val.v = IF meaning.v THEN 1 ELSE 0
    /\ meaning.dt = "outermost" => val.v = IF meaning.v THEN -65535 ELSE -65536

(* Such a value ends no program, and is read as the bool it means. *)
LEMMA AgreeingNeverEnds ==
  ASSUME NEW val, NEW meaning, Agrees(val, meaning)
  PROVE  /\ ~Ends(val)
         /\ meaning.dt \in {"DT_BOOL", "outermost"} => (Satisfied(val) <=> meaning.v)
<1>1. ~Ends(val)
  BY DEF Agrees, Ends, DataTypes
<1>2. CASE meaning.dt = "DT_BOOL"
  <2>1. meaning.v \in BOOLEAN /\ val.v = IF meaning.v THEN 1 ELSE 0
    BY <1>2 DEF Agrees
  <2>2. 0 % 65536 = 0 /\ 1 % 65536 = 1
    BY SMT
  <2>3. (val.v % 65536 = 1) <=> meaning.v
    BY <2>1, <2>2
  <2> QED
    BY <1>1, <2>3 DEF Satisfied
<1>3. CASE meaning.dt = "outermost"
  <2>1. meaning.v \in BOOLEAN /\ val.v = IF meaning.v THEN -65535 ELSE -65536
    BY <1>3 DEF Agrees
  <2>2. val.v \in Int /\ val.v + 65536 = IF meaning.v THEN 1 ELSE 0
    BY <2>1, SMT
  <2>3. (val.v % 65536 = 1) <=> meaning.v
    <3>1. (val.v + 65536) % 65536 = val.v % 65536
      BY <2>2, SMT
    <3> QED
      BY <2>1, <2>2, <3>1, SMT
  <2> QED
    BY <1>1, <2>3 DEF Satisfied
<1> QED
  BY <1>1, <1>2, <1>3

(* The bools of comparisons and constants. *)
LEMMA BoolAgrees ==
  ASSUME NEW b \in BOOLEAN, NEW c \in BOOLEAN, b <=> c
  PROVE  Agrees(Bool(b), Value("DT_BOOL", c))
BY DEF Agrees, Bool, Value, DataTypes

LEMMA BoolConstantAgrees ==
  ASSUME NEW val, val.dt = "DT_BOOL", NEW c \in BOOLEAN, val.v = IF c THEN 1 ELSE 0
  PROVE  Agrees(val, Value("DT_BOOL", c))
BY DEF Agrees, Value, DataTypes

(* Comparisons and connectives of values that are what their nodes mean. *)
LEMMA OperationAgrees ==
  ASSUME NEW node, NEW place \in Nat, IsNode(node, place), node.type = "EXPR_OP",
         NEW before, NEW vals, \A j \in 1 .. place - 1 : Agrees(vals[j], before[j]),
         MeaningOf(node, before) # Meaningless,
         NEW val \in Applied(node.op, vals[Head(node.args)], vals[Last(node.args)])
  PROVE  Agrees(val, MeaningOf(node, before))
<1> DEFINE x == vals[Head(node.args)]
           y == vals[Last(node.args)]
           l == before[Head(node.args)]
           r == before[Last(node.args)]
           meaning == MeaningOf(node, before)
<1>1. node.op \in Operators /\ Head(node.args) \in 1 .. place - 1 /\ Last(node.args) \in 1 .. place - 1
  <2>1. node.op \in Operators /\ node.args \in [1 .. (IF node.op = "OP_BOOL_NOT" THEN 1 ELSE 2) -> 1 .. place - 1]
    BY DEF IsNode
  <2>2. PICK n \in {1, 2} : node.args \in [1 .. n -> 1 .. place - 1]
    BY <2>1
  <2>3. /\ node.args \in Seq(1 .. place - 1) /\ Len(node.args) = n
        /\ node.args[1] \in 1 .. place - 1 /\ node.args[n] \in 1 .. place - 1
    BY <2>2
  <2>4. Head(node.args) = node.args[1]
    BY <2>3
  <2>5. Last(node.args) = node.args[n]
    BY <2>3 DEF Last
  <2> QED
    BY <2>1, <2>3, <2>4, <2>5
<1>2. Agrees(x, l) /\ Agrees(y, r)
  BY <1>1
<1>3. meaning = CASE node.op = "OP_BOOL_NOT" /\ l.dt = r.dt /\ l.dt \in {"DT_BOOL"} -> Value("DT_BOOL", ~l.v)
                  [] node.op = "OP_BOOL_AND" /\ l.dt = r.dt /\ l.dt \in {"DT_BOOL"} -> Value("outermost", l.v /\ r.v)
                  [] node.op = "OP_BOOL_OR" /\ l.dt = r.dt /\ l.dt \in {"DT_BOOL"} -> Value("outermost", l.v \/ r.v)
                  [] node.op = "OP_COMP_EQUAL" /\ l.dt = r.dt /\ l.dt \in DataTypes -> Value("DT_BOOL", l.v = r.v)
                  [] node.op = "OP_COMP_SMALLER" /\ l.dt = r.dt /\ l.dt \in {"DT_INT", "DT_FLOAT"}
                        -> Value("DT_BOOL", l.v < r.v)
                  [] node.op = "OP_COMP_SMALLER" /\ l.dt = r.dt /\ l.dt \in {"DT_STRING"}
                        -> Value("DT_BOOL", StringSmaller(l.v, r.v))
                  [] OTHER -> Meaningless
  BY DEF MeaningOf
<1>4. val \in Applied(node.op, x, y) /\ meaning # Meaningless
  OBVIOUS
<1> HIDE DEF x, y, l, r, meaning
<1>5. l.dt = r.dt
  BY <1>1, <1>3, <1>4
<1>6. CASE node.op = "OP_BOOL_NOT"
  <2>1. l.dt = "DT_BOOL" /\ meaning = Value("DT_BOOL", ~l.v)
    BY <1>3, <1>4, <1>6
  <2>2. val = Bool(x.v = 0)
    BY <1>2, <1>4, <1>6, <2>1 DEF Applied, boolNot, Agrees
  <2>3. l.v \in BOOLEAN /\ x.v = IF l.v THEN 1 ELSE 0
    BY <1>2, <2>1 DEF Agrees
  <2>4. (x.v = 0) \in BOOLEAN /\ (~l.v) \in BOOLEAN /\ (x.v = 0 <=> ~l.v)
    BY <2>3
  <2>5. Agrees(Bool(x.v = 0), Value("DT_BOOL", ~l.v))
    BY <2>4, BoolAgrees
  <2> QED
    BY <2>1, <2>2, <2>5, Zenon DEF meaning
<1>7. CASE node.op = "OP_BOOL_AND"
  <2>1. l.dt = "DT_BOOL" /\ r.dt = "DT_BOOL" /\ meaning = Value("outermost", l.v /\ r.v)
    BY <1>3, <1>4, <1>5, <1>7
  <2>2. val = UntypedBool(x.v # 0 /\ y.v # 0)
    BY <1>2, <1>4, <1>7, <2>1 DEF Applied, boolAnd, Connected, Agrees
  <2>3. /\ l.v \in BOOLEAN /\ x.v = IF l.v THEN 1 ELSE 0
        /\ r.v \in BOOLEAN /\ y.v = IF r.v THEN 1 ELSE 0
    BY <1>2, <2>1 DEF Agrees
  <2> QED
    BY <2>1, <2>2, <2>3 DEF Agrees, UntypedBool, Value, DataTypes, meaning
<1>8. CASE node.op = "OP_BOOL_OR"
  <2>1. l.dt = "DT_BOOL" /\ r.dt = "DT_BOOL" /\ meaning = Value("outermost", l.v \/ r.v)
    BY <1>3, <1>4, <1>5, <1>8
  <2>2. val = UntypedBool(x.v # 0 \/ y.v # 0)
    BY <1>2, <1>4, <1>8, <2>1 DEF Applied, boolOr, Connected, Agrees
  <2>3. /\ l.v \in BOOLEAN /\ x.v = IF l.v THEN 1 ELSE 0
        /\ r.v \in BOOLEAN /\ y.v = IF r.v THEN 1 ELSE 0
    BY <1>2, <2>1 DEF Agrees
  <2> QED
    BY <2>1, <2>2, <2>3 DEF Agrees, UntypedBool, Value, DataTypes, meaning
<1>9. CASE node.op = "OP_COMP_EQUAL"
  <2>1. l.dt \in DataTypes /\ meaning = Value("DT_BOOL", l.v = r.v)
    BY <1>3, <1>4, <1>9
  <2>2. val = Bool(x.v = y.v)
    BY <1>2, <1>4, <1>5, <1>9, <2>1 DEF Applied, valueEquals, Agrees, DataTypes
  <2>3. x.v = y.v <=> l.v = r.v
    <3>1. CASE l.dt = "DT_BOOL"
      <4>1. /\ l.v \in BOOLEAN /\ x.v = IF l.v THEN 1 ELSE 0
            /\ r.v \in BOOLEAN /\ y.v = IF r.v THEN 1 ELSE 0
        BY <1>2, <1>5, <3>1 DEF Agrees
      <4> QED
        BY <4>1
    <3>2. CASE l.dt # "DT_BOOL"
      BY <1>2, <1>5, <2>1, <3>2 DEF Agrees
    <3> QED
      BY <3>1, <3>2
  <2>4. (x.v = y.v) \in BOOLEAN /\ (l.v = r.v) \in BOOLEAN
    OBVIOUS
  <2>5. Agrees(Bool(x.v = y.v), Value("DT_BOOL", l.v = r.v))
    BY <2>3, <2>4, BoolAgrees
  <2> QED
    BY <2>1, <2>2, <2>5, Zenon DEF meaning
<1>10. CASE node.op = "OP_COMP_SMALLER" /\ l.dt \in {"DT_INT", "DT_FLOAT"}
  <2>1. meaning = Value("DT_BOOL", l.v < r.v)
    BY <1>3, <1>5, <1>10
  <2>2. x.v = l.v /\ y.v = r.v /\ x.dt = l.dt /\ y.dt = l.dt
    BY <1>2, <1>5, <1>10 DEF Agrees, DataTypes
  <2>3. val = Bool(x.v < y.v)
    BY <1>4, <1>10, <2>2 DEF Applied, valueSmaller
  <2>4. (l.v < r.v) \in BOOLEAN
    BY SMT
  <2>5. Agrees(Bool(l.v < r.v), Value("DT_BOOL", l.v < r.v))
    BY <2>4, BoolAgrees
  <2>6. val = Bool(l.v < r.v)
    BY <2>2, <2>3, Zenon
  <2> QED
    BY <2>1, <2>5, <2>6, Zenon DEF meaning
<1>11. CASE node.op = "OP_COMP_SMALLER" /\ l.dt = "DT_STRING"
  <2>1. meaning = Value("DT_BOOL", StringSmaller(l.v, r.v))
    BY <1>3, <1>5, <1>11
  <2>2. x.v = l.v /\ y.v = r.v /\ x.dt = l.dt /\ y.dt = l.dt
    BY <1>2, <1>5, <1>11 DEF Agrees, DataTypes
  <2>3. val = Bool(StringSmaller(x.v, y.v))
    BY <1>4, <1>11, <2>2 DEF Applied, valueSmaller
  <2>4. StringSmaller(l.v, r.v) \in BOOLEAN
    BY DEF StringSmaller
  <2>5. Agrees(Bool(StringSmaller(l.v, r.v)), Value("DT_BOOL", StringSmaller(l.v, r.v)))
    BY <2>4, BoolAgrees
  <2>6. val = Bool(StringSmaller(l.v, r.v))
    BY <2>2, <2>3, Zenon
  <2> QED
    BY <2>1, <2>5, <2>6, Zenon DEF meaning
<1>12. node.op = "OP_COMP_SMALLER" => l.dt \in {"DT_INT", "DT_FLOAT", "DT_STRING"}
  BY <1>3, <1>4
<1> QED
  BY <1>1, <1>6, <1>7, <1>8, <1>9, <1>10, <1>11, <1>12 DEF Operators

(* The meanings of all nodes, and those of the nodes before each. *)
LEMMA MeaningsAre ==
  ASSUME NEW e \in Conditions
  PROVE  \E mt : /\ \A k \in 0 .. Len(e) : mt[k] = [i \in 1 .. k |-> MeaningOf(e[i], mt[i - 1])]
                 /\ Meanings(e) = mt[Len(e)]
<1>1. PICK mt : /\ mt[0] = <<>>
                /\ \A k \in 1 .. Len(e) : mt[k] = Append(mt[k - 1], MeaningOf(e[k], mt[k - 1]))
                /\ Meanings(e) = mt[Len(e)]
  BY MeaningRounds
<1>2. Len(e) \in Nat
  BY ConditionsAssumption
<1> DEFINE M(i) == MeaningOf(e[i], mt[i - 1])
           S == {k \in Nat : k <= Len(e) => mt[k] = [i \in 1 .. k |-> M(i)]}
<1>3. 0 \in S
  <2>1. [i \in 1 .. 0 |-> M(i)] = <<>>
    OBVIOUS
  <2> QED
    BY <1>1, <2>1
<1>4. ASSUME NEW k \in S PROVE k + 1 \in S
  <2> SUFFICES ASSUME k + 1 <= Len(e) PROVE mt[k + 1] = [i \in 1 .. k + 1 |-> M(i)]
    OBVIOUS
  <2>1. k + 1 \in 1 .. Len(e) /\ (k + 1) - 1 = k /\ k \in Nat /\ k <= Len(e)
    BY <1>2
  <2>2. mt[k + 1] = Append(mt[k], M(k + 1))
    BY <1>1, <2>1
  <2> DEFINE f == [i \in 1 .. k |-> M(i)]
             x == M(k + 1)
  <2>3. mt[k] = f
    BY <2>1
  <2>4. f = [i \in 1 .. k |-> f[i]] /\ \A i \in 1 .. k : f[i] = M(i)
    OBVIOUS
  <2> HIDE DEF f, M
  <2>5. Append(f, x) = [i \in 1 .. k + 1 |-> IF i <= k THEN f[i] ELSE x]
    BY <2>1, <2>4, FunctionIsSequence
  <2>6. \A i \in 1 .. k + 1 : (IF i <= k THEN f[i] ELSE x) = M(i)
    <3> SUFFICES ASSUME NEW i \in 1 .. k + 1 PROVE (IF i <= k THEN f[i] ELSE x) = M(i)
      OBVIOUS
    <3>1. CASE i <= k
      BY <2>1, <2>4, <3>1
    <3>2. CASE ~(i <= k)
      <4>1. i = k + 1
        BY <2>1, <3>2
      <4> QED
        BY <3>2, <4>1
    <3> QED
      BY <3>1, <3>2
  <2> QED
    BY <2>2, <2>3, <2>5, <2>6
<1>5. S = Nat
  <2>1. S \in SUBSET Nat
    OBVIOUS
  <2> HIDE DEF S
  <2> QED
    BY <1>3, <1>4, <2>1, AllNumbers
<1>6. ASSUME NEW k \in 0 .. Len(e) PROVE mt[k] = [i \in 1 .. k |-> M(i)]
  <2>1. k \in Nat /\ k <= Len(e)
    BY <1>2
  <2>2. k \in S
    <3> HIDE DEF S
    <3> QED
      BY <1>5, <2>1
  <2> QED
    BY <2>1, <2>2
<1> QED
  BY <1>1, <1>6

(* The next node of a condition gets a value that is what the node means. *)
LEMMA NodeAgrees ==
  ASSUME IInv, data # <<>>, NEW k \in Nat, NEW node, IsNode(node, k + 1),
         NEW before, MeaningOf(node, before) # Meaningless,
         NEW at, at.types = dataTypes, at.vals = [i \in 1 .. k |-> at.vals[i]],
         \A i \in 1 .. k : Agrees(at.vals[i], before[i]),
         NEW st \in AfterNode(at, node)
  PROVE  \E val : /\ st.types = dataTypes
                  /\ st.vals = Append(at.vals, val)
                  /\ Agrees(val, MeaningOf(node, before))
<1>1. ~(at.vals # <<>> /\ Ends(Last(at.vals)))
  <2> SUFFICES ASSUME at.vals # <<>> PROVE ~Ends(Last(at.vals))
    OBVIOUS
  <2>1. Len(at.vals) = k /\ k # 0
    BY FunctionIsSequence
  <2>2. k \in 1 .. k
    BY <2>1
  <2>3. Last(at.vals) = at.vals[k]
    BY <2>1 DEF Last
  <2> QED
    BY <2>2, <2>3, AgreeingNeverEnds
<1>2. node.type \in {"EXPR_CONST", "EXPR_ATTRREF", "EXPR_OP"}
  BY DEF IsNode
<1>3. CASE node.type = "EXPR_CONST"
  <2>1. st = [vals |-> Append(at.vals, node.cons), types |-> at.types]
    BY <1>1, <1>3 DEF AfterNode
  <2>2. node.cons.dt \in DataTypes /\ (node.cons.dt = "DT_BOOL" => node.cons.v \in {0, 1})
    BY <1>3 DEF IsNode
  <2>3. Agrees(node.cons, MeaningOf(node, before))
    <3>1. CASE node.cons.dt = "DT_BOOL"
      <4>1. MeaningOf(node, before) = Value("DT_BOOL", node.cons.v = 1)
        BY <1>3, <3>1 DEF MeaningOf
      <4>2. (node.cons.v = 1) \in BOOLEAN /\ node.cons.v = IF node.cons.v = 1 THEN 1 ELSE 0
        BY <2>2, <3>1
      <4> QED
        BY <3>1, <4>1, <4>2, BoolConstantAgrees
    <3>2. CASE node.cons.dt # "DT_BOOL"
      <4>1. MeaningOf(node, before) = node.cons
        BY <1>3, <3>2 DEF MeaningOf
      <4> QED
        BY <2>2, <3>2, <4>1 DEF Agrees, DataTypes
    <3> QED
      BY <3>1, <3>2
  <2> QED
    BY <2>1, <2>3
<1>4. CASE node.type = "EXPR_ATTRREF"
  <2> DEFINE a == node.attrRef
  <2>1. a \in Attrs
    BY <1>4 DEF IsNode, IInv, Attrs
  <2>2. Readable(a) /\ MeaningOf(node, before) = Value(value[a].dt, Kept(a))
    BY <1>4 DEF MeaningOf
  <2>3. /\ value[a].dt \in {"DT_INT", "DT_STRING"}
        /\ TypesAfterGet(dataTypes, a) = dataTypes
        /\ AttrValues(dataTypes, a) = {Value(value[a].dt, Kept(a))}
    BY <2>1, <2>2, ReadableIsRead
  <2>4. PICK val \in AttrValues(TypesAfterGet(at.types, a), a) :
            st = [vals |-> Append(at.vals, val), types |-> TypesAfterGet(at.types, a)]
    BY <1>1, <1>4 DEF AfterNode
  <2>5. val = Value(value[a].dt, Kept(a)) /\ st.types = dataTypes /\ st.vals = Append(at.vals, val)
    BY <2>3, <2>4
  <2>6. Agrees(val, MeaningOf(node, before))
    BY <2>2, <2>3, <2>5 DEF Agrees, Value, DataTypes
  <2> QED
    BY <2>5, <2>6
<1>5. CASE node.type = "EXPR_OP"
  <2>1. PICK val \in Applied(node.op, at.vals[Head(node.args)], at.vals[Last(node.args)]) :
            st = [vals |-> Append(at.vals, val), types |-> at.types]
    BY <1>1, <1>5 DEF AfterNode
  <2>2. k + 1 \in Nat /\ (k + 1) - 1 = k
    OBVIOUS
  <2>3. Agrees(val, MeaningOf(node, before))
    BY <1>5, <2>1, <2>2, OperationAgrees
  <2> QED
    BY <2>1, <2>3
<1> QED
  BY <1>2, <1>3, <1>4, <1>5

(* So do all nodes, one after the other. *)
LEMMA ResultAgrees ==
  ASSUME IInv, data # <<>>, NEW e \in Conditions, Meaningless \notin Range(Meanings(e)),
         NEW result \in Results(e, dataTypes)
  PROVE  result.types = dataTypes /\ Agrees(result.val, Last(Meanings(e)))
<1> DEFINE start == {[vals |-> <<>>, types |-> dataTypes]}
<1>1. PICK at : /\ at[0] = start
                /\ \A k \in 1 .. Len(e) : at[k] = Reached(at[k - 1], e[k])
                /\ FoldLeft(Reached, start, e) = at[Len(e)]
  BY EvaluationRounds
<1>2. PICK mt : /\ \A k \in 0 .. Len(e) : mt[k] = [i \in 1 .. k |-> MeaningOf(e[i], mt[i - 1])]
                /\ Meanings(e) = mt[Len(e)]
  BY MeaningsAre
<1>3. Len(e) \in Nat /\ Len(e) # 0 /\ \A k \in 1 .. Len(e) : IsNode(e[k], k)
  BY ConditionsAssumption
<1>4. PICK last \in at[Len(e)] : result = [val |-> Last(last.vals), types |-> last.types]
  BY <1>1 DEF Results
<1> DEFINE M(i) == MeaningOf(e[i], mt[i - 1])
           Meant(st, k) == /\ st.types = dataTypes
                           /\ st.vals = [i \in 1 .. k |-> st.vals[i]]
                           /\ \A i \in 1 .. k : Agrees(st.vals[i], M(i))
           S == {k \in Nat : k <= Len(e) => \A st \in at[k] : Meant(st, k)}
<1>5. \A k \in 0 .. Len(e) : \A i \in 1 .. k : mt[k][i] = M(i)
  BY <1>2
<1>6. \A i \in 1 .. Len(e) : M(i) # Meaningless
  <2>1. mt[Len(e)] = [i \in 1 .. Len(e) |-> M(i)]
    BY <1>2, <1>3
  <2> HIDE DEF M
  <2> QED
    BY <1>2, <2>1 DEF Range
<1> HIDE DEF M
<1>7. 0 \in S
  <2>1. ASSUME NEW st \in at[0] PROVE Meant(st, 0)
    <3>1. st.vals = <<>> /\ st.types = dataTypes
      BY <1>1, <2>1
    <3>2. <<>> = [i \in 1 .. 0 |-> st.vals[i]]
      OBVIOUS
    <3> QED
      BY <3>1, <3>2
  <2> HIDE DEF Meant
  <2> QED
    BY <2>1
<1>8. ASSUME NEW k \in S PROVE k + 1 \in S
  <2> SUFFICES ASSUME k + 1 <= Len(e), NEW st \in at[k + 1] PROVE Meant(st, k + 1)
    <3> HIDE DEF Meant
    <3> QED
      OBVIOUS
  <2>1. k + 1 \in 1 .. Len(e) /\ (k + 1) - 1 = k /\ k \in Nat /\ k <= Len(e) /\ k \in 0 .. Len(e)
    BY <1>3
  <2>2. IsNode(e[(k + 1)], k + 1) /\ at[k + 1] = Reached(at[k], e[(k + 1)])
    BY <1>1, <1>3, <2>1
  <2>3. PICK x \in at[k] : st \in AfterNode(x, e[(k + 1)])
    BY <2>2 DEF Reached
  <2>4. Meant(x, k)
    <3> HIDE DEF Meant
    <3> QED
      BY <2>1, <2>3
  <2>5. M(k + 1) = MeaningOf(e[(k + 1)], mt[k])
    BY <2>1 DEF M
  <2>6. M(k + 1) # Meaningless
    BY <1>6, <2>1
  <2>7. \A i \in 1 .. k : Agrees(x.vals[i], mt[k][i])
    BY <1>5, <2>1, <2>4
  <2>8. \E val : /\ st.types = dataTypes
                 /\ st.vals = Append(x.vals, val)
                 /\ Agrees(val, MeaningOf(e[(k + 1)], mt[k]))
    <3>1. x.types = dataTypes /\ x.vals = [i \in 1 .. k |-> x.vals[i]]
      BY <2>4
    <3>2. MeaningOf(e[(k + 1)], mt[k]) # Meaningless
      BY <2>5, <2>6
    <3> QED
      <4> DEFINE node == e[(k + 1)]
                 before == mt[k]
      <4>1. IsNode(node, k + 1) /\ MeaningOf(node, before) # Meaningless /\ st \in AfterNode(x, node)
            /\ \A i \in 1 .. k : Agrees(x.vals[i], before[i])
        BY <2>2, <2>3, <2>7, <3>2
      <4>2. k \in Nat
        BY <2>1
      <4> HIDE DEF node, before
      <4>3. \E val : /\ st.types = dataTypes
                     /\ st.vals = Append(x.vals, val)
                     /\ Agrees(val, MeaningOf(node, before))
        BY <3>1, <4>1, <4>2, NodeAgrees
      <4> QED
        BY <4>3 DEF node, before
  <2>9. PICK val : /\ st.types = dataTypes
                   /\ st.vals = Append(x.vals, val)
                   /\ Agrees(val, M(k + 1))
    BY <2>5, <2>8
  <2>10. st.vals = [i \in 1 .. k + 1 |-> IF i <= k THEN x.vals[i] ELSE val]
    BY <2>1, <2>4, <2>9, FunctionIsSequence
  <2>11. \A i \in 1 .. k + 1 : Agrees(st.vals[i], M(i))
    <3> SUFFICES ASSUME NEW i \in 1 .. k + 1 PROVE Agrees(st.vals[i], M(i))
      OBVIOUS
    <3>1. st.vals[i] = IF i <= k THEN x.vals[i] ELSE val
      BY <2>10
    <3>2. CASE i <= k
      <4>1. i \in 1 .. k
        BY <2>1, <3>2
      <4> QED
        BY <2>4, <3>1, <3>2, <4>1
    <3>3. CASE ~(i <= k)
      <4>1. i = k + 1
        BY <2>1, <3>3
      <4> QED
        BY <2>9, <3>1, <3>3, <4>1
    <3> QED
      BY <3>2, <3>3
  <2>12. st.vals = [i \in 1 .. k + 1 |-> st.vals[i]]
    BY <2>10
  <2> QED
    BY <2>9, <2>11, <2>12
<1>9. S = Nat
  <2>1. S \in SUBSET Nat
    OBVIOUS
  <2> HIDE DEF S
  <2> QED
    BY <1>7, <1>8, <2>1, AllNumbers
<1>10. Meant(last, Len(e))
  <2> HIDE DEF Meant
  <2> QED
    BY <1>3, <1>4, <1>9
<1>11. Last(last.vals) = last.vals[Len(e)]
  <2>1. Len(last.vals) = Len(e)
    BY <1>3, <1>10, FunctionIsSequence
  <2> QED
    BY <2>1 DEF Last
<1>12. Last(Meanings(e)) = M(Len(e))
  <2>1. Len(e) \in 0 .. Len(e) /\ Len(e) \in 1 .. Len(e)
    BY <1>3
  <2>2. Meanings(e) = [i \in 1 .. Len(e) |-> M(i)]
    BY <1>2, <2>1 DEF M
  <2>3. Meanings(e) = [i \in 1 .. Len(e) |-> Meanings(e)[i]] /\ Meanings(e)[Len(e)] = M(Len(e))
    BY <2>1, <2>2
  <2>4. Len(Meanings(e)) = Len(e)
    BY <1>3, <2>3, FunctionIsSequence
  <2> QED
    BY <2>3, <2>4 DEF Last
<1>13. Agrees(last.vals[Len(e)], M(Len(e))) /\ last.types = dataTypes
  BY <1>3, <1>10
<1> QED
  BY <1>4, <1>11, <1>12, <1>13

(* evalExpr of a condition that has a meaning ends no program, leaves the data
   types alone, and its result satisfies next just if the condition is true of
   what the attributes were set to. *)
THEOREM ConditionsMeanIt == Spec => []ConditionsMean
<1>1. ASSUME IInv PROVE ConditionsMean
  <2> SUFFICES ASSUME data # <<>>, NEW e \in Conditions, Meaningless \notin Range(Meanings(e)),
                      NEW result \in Results(e, dataTypes)
               PROVE  /\ ~Ends(result.val)
                      /\ result.types = dataTypes
                      /\ Last(Meanings(e)).dt \in {"DT_BOOL", "outermost"} =>
                            (Satisfied(result.val) <=> Last(Meanings(e)).v)
    BY DEF ConditionsMean
  <2>1. result.types = dataTypes /\ Agrees(result.val, Last(Meanings(e)))
    BY <1>1, ResultAgrees
  <2> QED
    BY <2>1, AgreeingNeverEnds
<1> QED
  BY <1>1, Invariance, PTL
=============================================================================
