----------------------------- MODULE WireProofs -----------------------------
(***************************************************************************)
(* Proofs about Wire for any lengths of the strings and any numbers.  Of   *)
(* the tables nothing is used but LayoutsAssumption, which says for each   *)
(* event whether its three layouts agree, and which every run evaluates.   *)
(*                                                                         *)
(* The argument: what a layout writes is the items of its fields one after *)
(* the other (Written), and a reader whose layout is alike finds each field*)
(* where its item begins (EndsAreWritten), so it reads its value.  A relay *)
(* whose layout has another number of fields, or a number of another size, *)
(* cannot get the values that were sent, and its needs keep it from        *)
(* reading past the end.                                                   *)
(***************************************************************************)
EXTENDS Wire, SequenceTheorems, WellFoundedInduction, TLAPS

-----------------------------------------------------------------------------
LEMMA NatSetInduction ==
    ASSUME NEW S, 0 \in S, \A n \in Nat : n \in S => n + 1 \in S
    PROVE  Nat \subseteq S
<1> SUFFICES ASSUME Nat \ S # {} PROVE FALSE
  OBVIOUS
<1> DEFINE below == OpToRel(<, Nat)
<1>1. IsWellFoundedOn(below, Nat)
  BY NatLessThanWellFounded
<1>2. \A x, y \in Nat : y < x => <<y, x>> \in below
  BY DEF OpToRel
<1> HIDE DEF below
<1>3. PICK x \in Nat \ S : \A y \in Nat \ S : <<y, x>> \notin below
  BY <1>1, WFMin
<1>4. x # 0 /\ x - 1 \in Nat /\ x - 1 < x /\ (x - 1) + 1 = x
  OBVIOUS
<1>5. x - 1 \in S
  BY <1>2, <1>3, <1>4
<1> QED
  BY <1>4, <1>5

Run(first, step, n, f) ==
    f = [i \in 0..n |-> IF i = 0 THEN first ELSE step[i][f[i - 1]]]

(***************************************************************************)
(* What takes its value at i from the one at i - 1 has one at each i.      *)
(***************************************************************************)
LEMMA RunExists ==
    ASSUME NEW T, NEW first \in T, NEW N \in Nat, NEW step \in [1..N -> [T -> T]]
    PROVE  \E f \in [0..N -> T] : Run(first, step, N, f)
<1> DEFINE Some == {n \in Nat : n <= N => \E f \in [0..n -> T] : Run(first, step, n, f)}
<1>1. 0 \in Some
  <2> DEFINE f == [i \in 0..0 |-> first]
  <2>1. f \in [0..0 -> T] /\ Run(first, step, 0, f)
    BY DEF Run
  <2> QED
    BY <2>1
<1>2. ASSUME NEW n \in Nat, n \in Some PROVE n + 1 \in Some
  <2> SUFFICES ASSUME n + 1 <= N
               PROVE  \E f \in [0..(n + 1) -> T] : Run(first, step, n + 1, f)
    OBVIOUS
  <2>1. PICK f \in [0..n -> T] : Run(first, step, n, f)
    BY <1>2
  <2>2. /\ n + 1 \in 1..N /\ n \in 0..n
        /\ \A i \in 0..(n + 1) : i = n + 1 \/ i \in 0..n
        /\ \A i \in 0..n : i # n + 1 /\ i \in 0..(n + 1) /\ (i # 0 => i - 1 \in 0..n)
    BY <1>2
  <2>3. step[n + 1][f[n]] \in T
    BY <2>2
  <2> DEFINE g == [i \in 0..(n + 1) |-> IF i = n + 1 THEN step[n + 1][f[n]] ELSE f[i]]
  <2>4. g \in [0..(n + 1) -> T]
    BY <2>2, <2>3
  <2>5. ASSUME NEW i \in 0..(n + 1)
        PROVE  g[i] = IF i = 0 THEN first ELSE step[i][g[i - 1]]
    <3>1. CASE i = n + 1
      <4>1. i # 0 /\ i - 1 = n /\ n \in 0..(n + 1) /\ n # n + 1
        BY <3>1
      <4>2. g[i] = step[n + 1][f[n]] /\ g[n] = f[n]
        BY <3>1, <4>1
      <4> QED
        BY <3>1, <4>1, <4>2
    <3>2. CASE i \in 0..n
      <4>1. g[i] = f[i] /\ (i # 0 => g[i - 1] = f[i - 1])
        BY <2>2, <3>2
      <4>2. f[i] = IF i = 0 THEN first ELSE step[i][f[i - 1]]
        BY <2>1, <3>2 DEF Run
      <4> QED
        BY <4>1, <4>2
    <3> QED
      BY <2>2, <3>1, <3>2
  <2>6. Run(first, step, n + 1, g)
    BY <2>5 DEF Run
  <2> QED
    BY <2>4, <2>6
<1> HIDE DEF Some
<1>3. N \in Some
  BY <1>1, <1>2, NatSetInduction
<1> QED
  BY <1>3 DEF Some

-----------------------------------------------------------------------------
(***************************************************************************)
(* Fields and their items.                                                 *)
(***************************************************************************)
\* The values a field can have.
Fits(field, value) ==
    /\ value \in Seq(Byte)
    /\ field.kind = "str" => Len(value) <= 255 /\ IsUtf8(value)
    /\ field.kind = "bool" => value = <<0>> \/ value = <<1>>
    /\ field.kind = "num" => Len(value) = field.size

Fitting(layout, vals) ==
    /\ vals = [i \in 1..Len(layout) |-> vals[i]]
    /\ \A i \in 1..Len(layout) : Fits(layout[i], vals[i])

LEMMA FieldParts ==
    ASSUME NEW field \in Field
    PROVE  /\ field.kind \in {"num", "bool", "str"} /\ field.size \in Nat /\ field.need \in Nat
           /\ field.kind = "bool" => field.size = 1
           /\ field.kind = "str" => field.size = 0
BY DEF Field

LEMMA LayoutParts ==
    ASSUME NEW layout \in Seq(Field)
    PROVE  /\ Len(layout) \in Nat /\ DOMAIN layout = 1..Len(layout)
           /\ \A i \in 1..Len(layout) : layout[i] \in Field
BY LenProperties, ElementOfSeq

LEMMA SmallIsByte ==
    ASSUME NEW n \in Nat, n <= 255
    PROVE  n \in Byte /\ n % 256 = n
BY DEF Byte

\* The item of a field is its value, behind its length if it is a string.
LEMMA ItemProperties ==
    ASSUME NEW field \in Field, NEW value, Fits(field, value)
    PROVE  /\ Item(field, value) \in Seq(Byte) /\ Len(value) \in Nat
           /\ field.kind = "str" =>
                 /\ Len(Item(field, value)) = 1 + Len(value)
                 /\ Item(field, value)[1] = Len(value)
                 /\ \A k \in 1..Len(value) : Item(field, value)[1 + k] = value[k]
           /\ field.kind # "str" =>
                 /\ Item(field, value) = value /\ Len(value) = field.size
<1>1. value \in Seq(Byte) /\ Len(value) \in Nat
  BY LenProperties DEF Fits
<1>2. CASE field.kind = "str"
  <2> DEFINE head == <<Len(value)>>
  <2>1. Len(value) \in Byte
    <3>1. Len(value) <= 255
      BY <1>2 DEF Fits
    <3> QED
      BY <1>1, <3>1, SmallIsByte
  <2>2. head \in Seq(Byte) /\ Len(head) = 1 /\ head[1] = Len(value)
    BY <2>1
  <2> HIDE DEF head
  <2>3. /\ head \o value \in Seq(Byte) /\ Len(head \o value) = Len(head) + Len(value)
        /\ \A k \in 1..(Len(head) + Len(value)) :
              (head \o value)[k] = IF k <= Len(head) THEN head[k] ELSE value[k - Len(head)]
    BY <1>1, <2>2, ConcatProperties
  <2>4. 1 \in 1..(1 + Len(value)) /\ \A k \in 1..Len(value) :
           1 + k \in 1..(1 + Len(value)) /\ ~(1 + k <= 1) /\ (1 + k) - 1 = k
    BY <1>1
  <2>5. Item(field, value) = head \o value
    BY <1>2 DEF Item, head
  <2> QED
    BY <1>1, <1>2, <2>2, <2>3, <2>4, <2>5
<1>3. CASE field.kind # "str"
  <2>1. Item(field, value) = value
    BY <1>3 DEF Item
  <2>2. Len(value) = field.size
    BY <1>3, FieldParts DEF Fits
  <2> QED
    BY <1>1, <1>3, <2>1, <2>2
<1> QED
  BY <1>2, <1>3

-----------------------------------------------------------------------------
(***************************************************************************)
(* What is written.                                                        *)
(***************************************************************************)
LEMMA WrittenSteps ==
    ASSUME NEW layout \in Seq(Field), NEW vals, Fitting(layout, vals)
    PROVE  /\ Written(layout, vals) \in [0..Len(layout) -> Seq(Byte)]
           /\ Written(layout, vals)[0] = <<>>
           /\ \A i \in 1..Len(layout) :
                 Written(layout, vals)[i] = Written(layout, vals)[i - 1] \o Item(layout[i], vals[i])
<1> DEFINE n == Len(layout)
           T == Seq(Byte)
           Step(f) == f = [i \in 0..n |->
                        IF i = 0 THEN <<>> ELSE f[i - 1] \o Item(layout[i], vals[i])]
           step == [i \in 1..n |-> [t \in T |-> t \o Item(layout[i], vals[i])]]
<1>1. n \in Nat /\ <<>> \in T /\ \A i \in 1..n : Item(layout[i], vals[i]) \in T
  BY LayoutParts, ItemProperties DEF Fitting
<1>2. step \in [1..n -> [T -> T]]
  BY <1>1
<1>3. \E f \in [0..n -> T] : Run(<<>>, step, n, f)
  <2> HIDE DEF n, T, step
  <2> QED
    BY <1>1, <1>2, RunExists
<1>4. PICK f \in [0..n -> T] : Run(<<>>, step, n, f)
  BY <1>3
<1>5. \A i \in 1..n : i # 0 /\ i \in 0..n /\ i - 1 \in 0..n
  BY <1>1
<1>6. \A i \in 1..n : step[i][f[i - 1]] = f[i - 1] \o Item(layout[i], vals[i])
  BY <1>4, <1>5
<1>7. Step(f)
  <2>1. [i \in 0..n |-> IF i = 0 THEN <<>> ELSE step[i][f[i - 1]]]
        = [i \in 0..n |-> IF i = 0 THEN <<>> ELSE f[i - 1] \o Item(layout[i], vals[i])]
    <3>1. \A i \in 0..n : i = 0 \/ i \in 1..n
      BY <1>1
    <3> HIDE DEF step
    <3> QED
      BY <1>6, <3>1
  <2> QED
    BY <1>4, <2>1 DEF Run
<1> DEFINE out == CHOOSE g : Step(g)
<1>8. Step(out)
  <2> HIDE DEF Step
  <2> QED
    BY <1>7
<1>9. Written(layout, vals) = out
  BY Zenon DEF Written
<1> HIDE DEF out
<1>10. out[0] = <<>> /\ \A i \in 1..n : out[i] = out[i - 1] \o Item(layout[i], vals[i])
  <2>1. out = [i \in 0..n |-> IF i = 0 THEN <<>> ELSE out[i - 1] \o Item(layout[i], vals[i])]
    BY <1>8
  <2>2. 0 \in 0..n
    BY <1>1
  <2> HIDE DEF n
  <2>3. out[0] = <<>>
    BY <2>1, <2>2
  <2>4. \A i \in 1..n : out[i] = out[i - 1] \o Item(layout[i], vals[i])
    BY <1>5, <2>1
  <2> QED
    BY <2>3, <2>4
<1>11. \A i \in 0..n : out[i] \in T
  <2> DEFINE S == {i \in Nat : i <= n => out[i] \in T}
  <2>1. 0 \in S
    BY <1>1, <1>10
  <2>2. ASSUME NEW i \in Nat, i \in S PROVE i + 1 \in S
    <3> SUFFICES ASSUME i + 1 <= n PROVE out[i + 1] \in T
      OBVIOUS
    <3>1. i + 1 \in 1..n /\ (i + 1) - 1 = i /\ out[i] \in T
      BY <1>1, <2>2
    <3>2. out[i + 1] = out[i] \o Item(layout[i + 1], vals[i + 1])
      BY <1>10, <3>1
    <3> QED
      BY <1>1, <3>1, <3>2, ConcatProperties
  <2> HIDE DEF S
  <2>3. Nat \subseteq S
    BY <2>1, <2>2, NatSetInduction
  <2> QED
    BY <1>1, <2>3 DEF S
<1>12. out \in [0..n -> T]
  BY <1>8, <1>11
<1> QED
  BY <1>9, <1>10, <1>12

\* What the first fields write is the front of what more of them write.
LEMMA WrittenGrows ==
    ASSUME NEW layout \in Seq(Field), NEW vals, Fitting(layout, vals),
           NEW i \in 0..Len(layout), NEW j \in i..Len(layout)
    PROVE  /\ Len(Written(layout, vals)[i]) <= Len(Written(layout, vals)[j])
           /\ \A k \in 1..Len(Written(layout, vals)[i]) :
                 Written(layout, vals)[j][k] = Written(layout, vals)[i][k]
<1> DEFINE n == Len(layout)
           W == Written(layout, vals)
           Front(m) == /\ Len(W[i]) <= Len(W[m])
                       /\ \A k \in 1..Len(W[i]) : W[m][k] = W[i][k]
           S == {d \in Nat : i + d <= n => Front(i + d)}
<1>1. /\ n \in Nat /\ W \in [0..n -> Seq(Byte)]
      /\ \A m \in 1..n : W[m] = W[m - 1] \o Item(layout[m], vals[m])
      /\ \A m \in 1..n : Item(layout[m], vals[m]) \in Seq(Byte)
  BY LayoutParts, WrittenSteps, ItemProperties DEF Fitting
<1> HIDE DEF W, n
<1>2. 0 \in S
  <2>1. i + 0 = i /\ W[i] \in Seq(Byte)
    BY <1>1 DEF n
  <2>2. Len(W[i]) \in Nat
    BY <2>1, LenProperties
  <2> QED
    BY <2>1, <2>2
<1>3. ASSUME NEW d \in Nat, d \in S PROVE d + 1 \in S
  <2> SUFFICES ASSUME i + (d + 1) <= n PROVE Front(i + (d + 1))
    OBVIOUS
  <2> DEFINE m == i + d
             item == Item(layout[m + 1], vals[m + 1])
  <2>1. i + (d + 1) = m + 1 /\ m \in 0..n /\ i \in 0..n /\ m + 1 \in 1..n /\ (m + 1) - 1 = m
    BY <1>1 DEF n
  <2>2. Front(m)
    BY <1>3, <2>1
  <2> HIDE DEF m
  <2>3. W[m] \in Seq(Byte) /\ W[i] \in Seq(Byte) /\ item \in Seq(Byte) /\ W[m + 1] = W[m] \o item
    BY <1>1, <2>1
  <2> HIDE DEF item
  <2>4. /\ Len(W[m]) \in Nat /\ Len(W[i]) \in Nat /\ Len(item) \in Nat
        /\ Len(W[m + 1]) = Len(W[m]) + Len(item)
        /\ \A k \in 1..(Len(W[m]) + Len(item)) :
              W[m + 1][k] = IF k <= Len(W[m]) THEN W[m][k] ELSE item[k - Len(W[m])]
    BY <2>3, ConcatProperties, LenProperties
  <2>5. \A k \in 1..Len(W[i]) : k \in 1..(Len(W[m]) + Len(item)) /\ k <= Len(W[m])
    BY <2>2, <2>4
  <2>6. Len(W[i]) <= Len(W[m + 1])
    BY <2>2, <2>4
  <2>7. ASSUME NEW k \in 1..Len(W[i]) PROVE W[m + 1][k] = W[i][k]
    BY <2>2, <2>4, <2>5
  <2> QED
    BY <2>1, <2>6, <2>7
<1> HIDE DEF S
<1>4. j - i \in Nat /\ i + (j - i) = j /\ j <= n
  BY <1>1 DEF n
<1>5. j - i \in S
  BY <1>2, <1>3, <1>4, NatSetInduction
<1>6. Front(j)
  BY <1>4, <1>5 DEF S
<1> QED
  BY <1>6 DEF W

\* The bytes from place a on are those of the item.
Holds(bytes, a, item) ==
    a + Len(item) <= Len(bytes) /\ \A k \in 1..Len(item) : bytes[a + k] = item[k]

\* Where in a packet the item of each field is.
Placed(layout, vals, i) ==
    /\ Len(Written(layout, vals)[i - 1]) \in Nat
    /\ Len(Written(layout, vals)[i])
       = Len(Written(layout, vals)[i - 1]) + Len(Item(layout[i], vals[i]))
    /\ Holds(Write(layout, vals), Len(Written(layout, vals)[i - 1]), Item(layout[i], vals[i]))

LEMMA ItemsInPlace ==
    ASSUME NEW layout \in Seq(Field), NEW vals, Fitting(layout, vals)
    PROVE  /\ Write(layout, vals) \in Seq(Byte)
           /\ Len(Written(layout, vals)[0]) = 0
           /\ \A i \in 1..Len(layout) : Placed(layout, vals, i)
<1> DEFINE n == Len(layout)
           W == Written(layout, vals)
           bytes == Write(layout, vals)
<1>1. /\ n \in Nat /\ W \in [0..n -> Seq(Byte)] /\ W[0] = <<>>
      /\ \A m \in 1..n : W[m] = W[m - 1] \o Item(layout[m], vals[m])
      /\ \A m \in 1..n : Item(layout[m], vals[m]) \in Seq(Byte)
  BY LayoutParts, WrittenSteps, ItemProperties DEF Fitting
<1>2. bytes = W[n]
  BY DEF Write
<1>3. \A i \in 0..n : i \in 0..n /\ n \in i..n
  BY <1>1
<1>4. ASSUME NEW i \in 0..n
      PROVE  Len(W[i]) <= Len(W[n]) /\ \A k \in 1..Len(W[i]) : W[n][k] = W[i][k]
  <2>1. i \in 0..Len(layout) /\ Len(layout) \in i..Len(layout)
    BY <1>3
  <2> QED
    BY <2>1, WrittenGrows
<1> HIDE DEF W, n, bytes
<1>5. n \in 0..n /\ \A i \in 0..n : W[i] \in Seq(Byte) /\ Len(W[i]) \in Nat
  BY <1>1, LenProperties
<1>6. bytes \in Seq(Byte) /\ Len(W[0]) = 0
  BY <1>1, <1>2, <1>5
<1>7. ASSUME NEW i \in 1..n
      PROVE  /\ Len(W[i - 1]) \in Nat
             /\ Len(W[i]) = Len(W[i - 1]) + Len(Item(layout[i], vals[i]))
             /\ Holds(bytes, Len(W[i - 1]), Item(layout[i], vals[i]))
  <2> DEFINE item == Item(layout[i], vals[i])
             a == Len(W[i - 1])
  <2>0. W[i] = W[i - 1] \o item /\ item \in Seq(Byte)
    BY <1>1
  <2> HIDE DEF item
  <2>1. i \in 0..n /\ i - 1 \in 0..n
    BY <1>1
  <2>2. W[i - 1] \in Seq(Byte) /\ a \in Nat /\ Len(item) \in Nat
    BY <1>5, <2>0, <2>1, LenProperties
  <2>3. /\ Len(W[i]) = a + Len(item)
        /\ \A k \in 1..(a + Len(item)) : W[i][k] = IF k <= a THEN W[i - 1][k] ELSE item[k - a]
    BY <2>0, <2>2, ConcatProperties
  <2> HIDE DEF a
  <2>4. \A k \in 1..Len(item) : a + k \in 1..(a + Len(item)) /\ ~(a + k <= a) /\ (a + k) - a = k
    BY <2>2
  <2>5. \A k \in 1..Len(item) : bytes[a + k] = item[k]
    BY <1>2, <1>4, <2>1, <2>3, <2>4
  <2>6. a + Len(item) <= Len(bytes)
    BY <1>2, <1>4, <2>1, <2>3
  <2> QED
    BY <2>2, <2>3, <2>5, <2>6 DEF a, item, Holds
<1>8. \A i \in 1..n : Placed(layout, vals, i)
  BY <1>7 DEF Placed, W, bytes
<1> QED
  BY <1>6, <1>8 DEF W, n, bytes

-----------------------------------------------------------------------------
(***************************************************************************)
(* What is read.                                                           *)
(***************************************************************************)
LEMMA RestIsSmall == \A n \in 0..256 : n % 256 \in 0..255
OBVIOUS

LEMMA ByteAtRange ==
    ASSUME NEW bytes \in Seq(Byte), NEW i \in Nat, i # 0
    PROVE  /\ ByteAt(bytes, i) \in 0..256
           /\ i <= Len(bytes) => ByteAt(bytes, i) = bytes[i] /\ ByteAt(bytes, i) \in Byte
<1>1. CASE i <= Len(bytes)
  <2>1. i \in 1..Len(bytes)
    BY <1>1, LenProperties
  <2>2. ByteAt(bytes, i) = bytes[i] /\ bytes[i] \in Byte
    BY <1>1, <2>1, ElementOfSeq DEF ByteAt
  <2> QED
    BY <2>2 DEF Byte
<1>2. CASE ~(i <= Len(bytes))
  BY <1>2 DEF ByteAt, Stale
<1> QED
  BY <1>1, <1>2

\* How long a field is, and its content.
Measured(field, bytes, at) ==
    /\ Extent(field, bytes, at) \in Nat
    /\ field.kind # "str" =>
          /\ Extent(field, bytes, at) = field.size
          /\ Content(field, bytes, at) = [k \in 1..field.size |-> ByteAt(bytes, at + k)]
    /\ field.kind = "str" =>
          /\ Extent(field, bytes, at) = 1 + (ByteAt(bytes, at + 1) % 256)
          /\ ByteAt(bytes, at + 1) % 256 \in 0..255
          /\ Content(field, bytes, at)
             = [k \in 1..(ByteAt(bytes, at + 1) % 256) |-> ByteAt(bytes, at + 1 + k)]

LEMMA ContentLength ==
    ASSUME NEW field \in Field, NEW bytes \in Seq(Byte), NEW at \in Nat
    PROVE  Measured(field, bytes, at)
<1>1. field.size \in Nat
  BY FieldParts
<1>2. at + 1 \in Nat /\ at + 1 # 0
  OBVIOUS
<1>3. ByteAt(bytes, at + 1) % 256 \in 0..255
  <2>1. ByteAt(bytes, at + 1) \in 0..256
    BY <1>2, ByteAtRange
  <2> QED
    BY <2>1, RestIsSmall
<1>4. CASE field.kind = "str"
  <2> DEFINE len == ByteAt(bytes, at + 1) % 256
  <2>1. Extent(field, bytes, at) = 1 + len
    BY <1>4 DEF Extent
  <2>4. field.kind = "str" =>
           /\ Extent(field, bytes, at) = 1 + (ByteAt(bytes, at + 1) % 256)
           /\ ByteAt(bytes, at + 1) % 256 \in 0..255
    BY <1>3, <1>4, <2>1
  <2> HIDE DEF len
  <2>0. len \in 0..255
    BY <1>3 DEF len
  <2>2. (1 + len) - 1 = len
    BY <2>0
  <2>3. Content(field, bytes, at) = [k \in 1..len |-> ByteAt(bytes, at + 1 + k)]
    BY <1>4, <2>1, <2>2 DEF Content
  <2>5. Extent(field, bytes, at) \in Nat
    BY <2>0, <2>1
  <2> QED
    BY <1>4, <2>3, <2>4, <2>5 DEF len, Measured
<1>5. CASE field.kind # "str"
  <2>1. Extent(field, bytes, at) = field.size
    BY <1>5 DEF Extent
  <2>2. field.size - 0 = field.size /\ at + 0 = at
    BY <1>1
  <2>3. Content(field, bytes, at) = [k \in 1..field.size |-> ByteAt(bytes, at + k)]
    BY <1>5, <2>1, <2>2 DEF Content
  <2> QED
    BY <1>1, <1>5, <2>1, <2>3 DEF Measured
<1> QED
  BY <1>4, <1>5

LEMMA EndsSteps ==
    ASSUME NEW layout \in Seq(Field), NEW bytes \in Seq(Byte)
    PROVE  /\ Ends(layout, bytes) \in [0..Len(layout) -> Nat]
           /\ Ends(layout, bytes)[0] = 0
           /\ \A i \in 1..Len(layout) :
                 Ends(layout, bytes)[i]
                 = Ends(layout, bytes)[i - 1] + Extent(layout[i], bytes, Ends(layout, bytes)[i - 1])
<1> DEFINE n == Len(layout)
           Step(f) == f = [i \in 0..n |->
                        IF i = 0 THEN 0 ELSE f[i - 1] + Extent(layout[i], bytes, f[i - 1])]
           step == [i \in 1..n |-> [a \in Nat |-> a + Extent(layout[i], bytes, a)]]
<1>0. n \in Nat
  BY LayoutParts
<1>1. ASSUME NEW i \in 1..n, NEW a \in Nat
      PROVE  a + Extent(layout[i], bytes, a) \in Nat
  <2>1. Extent(layout[i], bytes, a) \in Nat
    BY LayoutParts, ContentLength DEF Measured
  <2> QED
    BY <2>1
<1>2. step \in [1..n -> [Nat -> Nat]]
  BY <1>1
<1>3. \E f \in [0..n -> Nat] : Run(0, step, n, f)
  <2> HIDE DEF n, step
  <2> QED
    BY <1>0, <1>2, RunExists
<1>4. PICK f \in [0..n -> Nat] : Run(0, step, n, f)
  BY <1>3
<1>5. \A i \in 1..n : i # 0 /\ i \in 0..n /\ i - 1 \in 0..n
  BY <1>0
<1>6. \A i \in 1..n : step[i][f[i - 1]] = f[i - 1] + Extent(layout[i], bytes, f[i - 1])
  BY <1>4, <1>5
<1>7. Step(f)
  <2>1. [i \in 0..n |-> IF i = 0 THEN 0 ELSE step[i][f[i - 1]]]
        = [i \in 0..n |-> IF i = 0 THEN 0 ELSE f[i - 1] + Extent(layout[i], bytes, f[i - 1])]
    <3>1. \A i \in 0..n : i = 0 \/ i \in 1..n
      BY <1>0
    <3> HIDE DEF step
    <3> QED
      BY <1>6, <3>1
  <2> QED
    BY <1>4, <2>1 DEF Run
<1> DEFINE at == CHOOSE g : Step(g)
<1>8. Step(at)
  <2> HIDE DEF Step
  <2> QED
    BY <1>7
<1>9. Ends(layout, bytes) = at
  BY Zenon DEF Ends
<1> HIDE DEF at
<1>10. at[0] = 0 /\ \A i \in 1..n : at[i] = at[i - 1] + Extent(layout[i], bytes, at[i - 1])
  <2>1. at = [i \in 0..n |->
               IF i = 0 THEN 0 ELSE at[i - 1] + Extent(layout[i], bytes, at[i - 1])]
    BY <1>8
  <2>2. 0 \in 0..n
    BY <1>0
  <2> HIDE DEF n
  <2>3. at[0] = 0
    BY <2>1, <2>2
  <2>4. \A i \in 1..n : at[i] = at[i - 1] + Extent(layout[i], bytes, at[i - 1])
    BY <1>5, <2>1
  <2> QED
    BY <2>3, <2>4
<1>11. \A i \in 0..n : at[i] \in Nat
  <2> DEFINE S == {i \in Nat : i <= n => at[i] \in Nat}
  <2>1. 0 \in S
    BY <1>0, <1>10
  <2>2. ASSUME NEW i \in Nat, i \in S PROVE i + 1 \in S
    <3> SUFFICES ASSUME i + 1 <= n PROVE at[i + 1] \in Nat
      OBVIOUS
    <3>1. i + 1 \in 1..n /\ (i + 1) - 1 = i /\ at[i] \in Nat
      BY <1>0, <2>2
    <3>2. at[i + 1] = at[i] + Extent(layout[i + 1], bytes, at[i])
      BY <1>10, <3>1
    <3> QED
      BY <1>1, <3>1, <3>2
  <2> HIDE DEF S
  <2>3. Nat \subseteq S
    BY <2>1, <2>2, NatSetInduction
  <2> QED
    BY <1>0, <2>3 DEF S
<1>12. at \in [0..n -> Nat]
  BY <1>8, <1>11
<1> QED
  BY <1>9, <1>10, <1>12

LEMMA SeqOfItself ==
    ASSUME NEW s \in Seq(Byte)
    PROVE  s = [k \in 1..Len(s) |-> s[k]]
BY LenProperties

\* A field that is alike the one written finds its value in the item.
LEMMA ReadsItem ==
    ASSUME NEW reader \in Field, NEW field \in Field, NEW value, Fits(field, value),
           reader.kind = field.kind, reader.size = field.size,
           NEW bytes \in Seq(Byte), NEW a \in Nat, Holds(bytes, a, Item(field, value))
    PROVE  /\ Extent(reader, bytes, a) = Len(Item(field, value))
           /\ Content(reader, bytes, a) = value
<1> DEFINE item == Item(field, value)
<1>1. /\ item \in Seq(Byte) /\ Len(value) \in Nat /\ value \in Seq(Byte)
      /\ field.kind = "str" =>
            /\ Len(item) = 1 + Len(value) /\ item[1] = Len(value)
            /\ \A k \in 1..Len(value) : item[1 + k] = value[k]
      /\ field.kind # "str" => item = value /\ Len(value) = field.size
  BY ItemProperties DEF Fits
<1>2. Len(item) \in Nat /\ Len(bytes) \in Nat
  BY <1>1, LenProperties
<1>3. a + Len(item) <= Len(bytes) /\ \A k \in 1..Len(item) : bytes[a + k] = item[k]
  BY DEF Holds
<1> HIDE DEF item
<1>4. ASSUME NEW k \in 1..Len(item) PROVE ByteAt(bytes, a + k) = item[k]
  <2>1. a + k <= Len(bytes)
    BY <1>2, <1>3
  <2> QED
    BY <1>3, <2>1 DEF ByteAt
<1>5. value = [k \in 1..Len(value) |-> value[k]]
  BY <1>1, SeqOfItself
<1>8. Measured(reader, bytes, a)
  BY ContentLength
<1>6. CASE field.kind = "str"
  <2>1. 1 \in 1..Len(item) /\ \A k \in 1..Len(value) : 1 + k \in 1..Len(item)
    BY <1>1, <1>2, <1>6
  <2>2. ByteAt(bytes, a + 1) = Len(value)
    BY <1>1, <1>4, <1>6, <2>1
  <2>3. Len(value) <= 255
    BY <1>6 DEF Fits
  <2>4. ByteAt(bytes, a + 1) % 256 = Len(value)
    BY <1>1, <2>2, <2>3, SmallIsByte
  <2>5. ASSUME NEW k \in 1..Len(value) PROVE ByteAt(bytes, a + 1 + k) = value[k]
    <3>1. a + (1 + k) = a + 1 + k
      BY <1>1
    <3>2. ByteAt(bytes, a + (1 + k)) = item[1 + k]
      BY <1>4, <2>1
    <3> QED
      BY <1>1, <1>6, <3>1, <3>2
  <2>6. Content(reader, bytes, a) = [k \in 1..Len(value) |-> ByteAt(bytes, a + 1 + k)]
    BY <1>6, <1>8, <2>4 DEF Measured
  <2>7. Content(reader, bytes, a) = value
    BY <1>5, <2>5, <2>6
  <2>8. Extent(reader, bytes, a) = 1 + Len(value)
    BY <1>6, <1>8, <2>4 DEF Measured
  <2> QED
    BY <1>1, <1>6, <2>7, <2>8 DEF item
<1>7. CASE field.kind # "str"
  <2>1. /\ Extent(reader, bytes, a) = field.size
        /\ Content(reader, bytes, a) = [k \in 1..field.size |-> ByteAt(bytes, a + k)]
    BY <1>7, <1>8 DEF Measured
  <2>2. item = value /\ Len(value) = field.size
    BY <1>1, <1>7
  <2>3. Content(reader, bytes, a) = value
    BY <1>4, <1>5, <2>1, <2>2
  <2> QED
    BY <2>1, <2>2, <2>3 DEF item
<1> QED
  BY <1>6, <1>7

\* A reader whose layout is alike finds the end of each field where it was
\* written.
LEMMA EndsAreWritten ==
    ASSUME NEW reader \in Seq(Field), NEW layout \in Seq(Field), NEW vals,
           Fitting(layout, vals), Alike(reader, layout), NEW i \in 0..Len(reader)
    PROVE  Ends(reader, Write(layout, vals))[i] = Len(Written(layout, vals)[i])
<1> DEFINE n == Len(reader)
           W == Written(layout, vals)
           bytes == Write(layout, vals)
           at == Ends(reader, bytes)
           S == {m \in Nat : m <= n => at[m] = Len(W[m])}
<1>1. n \in Nat /\ Len(layout) \in Nat /\ n <= Len(layout)
  BY LayoutParts DEF Alike
<1>2. /\ bytes \in Seq(Byte) /\ Len(W[0]) = 0
      /\ \A m \in 1..Len(layout) :
            /\ Len(W[m - 1]) \in Nat
            /\ Len(W[m]) = Len(W[m - 1]) + Len(Item(layout[m], vals[m]))
            /\ Holds(bytes, Len(W[m - 1]), Item(layout[m], vals[m]))
  BY ItemsInPlace DEF Placed
<1> HIDE DEF W, bytes
<1>3. at[0] = 0 /\ \A m \in 1..n : at[m] = at[m - 1] + Extent(reader[m], bytes, at[m - 1])
  BY <1>2, EndsSteps
<1> HIDE DEF at
<1>4. 0 \in S
  BY <1>2, <1>3
<1>5. ASSUME NEW m \in Nat, m \in S PROVE m + 1 \in S
  <2> SUFFICES ASSUME m + 1 <= n PROVE at[m + 1] = Len(W[m + 1])
    OBVIOUS
  <2> DEFINE j == m + 1
  <2>1. j \in 1..n /\ j \in 1..Len(layout) /\ j - 1 = m /\ m \in 0..Len(layout) /\ at[m] = Len(W[m])
    BY <1>1, <1>5
  <2> HIDE DEF j
  <2>2. reader[j] \in Field /\ layout[j] \in Field /\ Fits(layout[j], vals[j])
        /\ reader[j].kind = layout[j].kind /\ reader[j].size = layout[j].size
    BY <2>1, LayoutParts DEF Alike, Fitting
  <2>3. Extent(reader[j], bytes, Len(W[m])) = Len(Item(layout[j], vals[j]))
    <3>1. /\ bytes \in Seq(Byte) /\ Len(W[m]) \in Nat
          /\ Holds(bytes, Len(W[m]), Item(layout[j], vals[j]))
      BY <1>2, <2>1
    <3> DEFINE a == Len(W[m])
    <3> HIDE DEF a
    <3>2. /\ bytes \in Seq(Byte) /\ a \in Nat /\ Holds(bytes, a, Item(layout[j], vals[j]))
      BY <3>1 DEF a
    <3>3. Extent(reader[j], bytes, a) = Len(Item(layout[j], vals[j]))
      BY <2>2, <3>2, ReadsItem
    <3> QED
      BY <3>3 DEF a
  <2>4. at[j] = Len(W[j])
    BY <1>2, <1>3, <2>1, <2>3
  <2> QED
    BY <2>4 DEF j
<1> HIDE DEF S
<1>6. Nat \subseteq S
  BY <1>4, <1>5, NatSetInduction
<1>7. i \in S /\ i <= n
  BY <1>1, <1>6
<1> QED
  BY <1>7 DEF S, at, W, bytes

\* And what it reads there is the value that was written.
LEMMA ReadsValues ==
    ASSUME NEW reader \in Seq(Field), NEW layout \in Seq(Field), NEW vals,
           Fitting(layout, vals), Alike(reader, layout), NEW i \in 1..Len(reader)
    PROVE  LET bytes == Write(layout, vals)
               a == Ends(reader, bytes)[i - 1]
           IN  /\ a \in Nat /\ i \in 1..Len(layout)
               /\ Content(reader[i], bytes, a) = vals[i]
               /\ a + Extent(reader[i], bytes, a) <= Len(bytes)
<1> DEFINE W == Written(layout, vals)
           bytes == Write(layout, vals)
           a == Ends(reader, bytes)[i - 1]
           item == Item(layout[i], vals[i])
<1>1. i \in 1..Len(layout) /\ i - 1 \in 0..Len(reader) /\ i - 1 \in 0..Len(layout)
  BY LayoutParts DEF Alike
<1>2. a = Len(W[i - 1])
  BY <1>1, EndsAreWritten
<1>3. bytes \in Seq(Byte) /\ Len(W[i - 1]) \in Nat /\ Holds(bytes, Len(W[i - 1]), item)
  BY <1>1, ItemsInPlace DEF Placed
<1>4. reader[i] \in Field /\ layout[i] \in Field /\ Fits(layout[i], vals[i])
      /\ reader[i].kind = layout[i].kind /\ reader[i].size = layout[i].size
  BY <1>1, LayoutParts DEF Alike, Fitting
<1> HIDE DEF W, bytes, a
<1>5. a \in Nat /\ Holds(bytes, a, item)
  BY <1>2, <1>3
<1>6. Extent(reader[i], bytes, a) = Len(item) /\ Content(reader[i], bytes, a) = vals[i]
  BY <1>3, <1>4, <1>5, ReadsItem
<1>7. a + Len(item) <= Len(bytes)
  BY <1>5 DEF Holds
<1> QED
  BY <1>1, <1>5, <1>6, <1>7 DEF a, bytes

-----------------------------------------------------------------------------
(***************************************************************************)
(* How far the fields reach at the least.                                  *)
(***************************************************************************)
LEMMA NothingIsBytes == <<>> \in Seq(Byte) /\ Len(<<>>) = 0
OBVIOUS

LEMMA Further ==
    ASSUME NEW a \in Nat, NEW b \in Nat, NEW c \in Nat, NEW d \in Nat, NEW x \in Nat, NEW y \in Nat
    PROVE  a - b <= c - d /\ x <= y => (a + x) - b <= (c + y) - d
OBVIOUS

\* From one field to another it is at the least as far as with no byte in a
\* string, and no further if there is no string.
LEMMA GapsGrow ==
    ASSUME NEW layout \in Seq(Field), NEW bytes \in Seq(Byte),
           NEW i \in 0..Len(layout), NEW j \in i..Len(layout)
    PROVE  /\ Least(layout)[j] - Least(layout)[i] <= Ends(layout, bytes)[j] - Ends(layout, bytes)[i]
           /\ (\A k \in (i + 1)..j : layout[k].kind # "str") =>
                 Ends(layout, bytes)[j] - Ends(layout, bytes)[i] <= Least(layout)[j] - Least(layout)[i]
<1> DEFINE n == Len(layout)
           at == Ends(layout, bytes)
           least == Least(layout)
           Gap(m) == /\ least[m] - least[i] <= at[m] - at[i]
                     /\ (\A k \in (i + 1)..m : layout[k].kind # "str") =>
                           at[m] - at[i] <= least[m] - least[i]
           S == {d \in Nat : i + d <= n => Gap(i + d)}
<1>1. n \in Nat
  BY LayoutParts
<1>2. /\ at \in [0..n -> Nat]
      /\ \A m \in 1..n : at[m] = at[m - 1] + Extent(layout[m], bytes, at[m - 1])
  BY EndsSteps
<1>3. /\ least \in [0..n -> Nat]
      /\ \A m \in 1..n : least[m] = least[m - 1] + Extent(layout[m], <<>>, least[m - 1])
  BY NothingIsBytes, EndsSteps DEF Least
<1>4. ASSUME NEW m \in 1..n
      PROVE  /\ Extent(layout[m], <<>>, least[m - 1]) <= Extent(layout[m], bytes, at[m - 1])
             /\ layout[m].kind # "str" =>
                   Extent(layout[m], <<>>, least[m - 1]) = Extent(layout[m], bytes, at[m - 1])
             /\ Extent(layout[m], <<>>, least[m - 1]) \in Nat
             /\ Extent(layout[m], bytes, at[m - 1]) \in Nat
  <2>1. layout[m] \in Field /\ at[m - 1] \in Nat /\ least[m - 1] \in Nat
    BY <1>1, <1>2, <1>3, LayoutParts
  <2> HIDE DEF at, least
  <2>2. Measured(layout[m], bytes, at[m - 1]) /\ Measured(layout[m], <<>>, least[m - 1])
    BY <2>1, NothingIsBytes, ContentLength
  <2>3. CASE layout[m].kind # "str"
    BY <2>1, <2>2, <2>3, FieldParts DEF Measured
  <2>4. CASE layout[m].kind = "str"
    <3>1. ByteAt(<<>>, least[m - 1] + 1) = 256
      BY <2>1, NothingIsBytes DEF ByteAt, Stale
    <3>2. 256 % 256 = 0
      OBVIOUS
    <3>3. Extent(layout[m], <<>>, least[m - 1]) = 1
      BY <2>2, <2>4, <3>1, <3>2 DEF Measured
    <3>4. Extent(layout[m], bytes, at[m - 1]) \in Nat /\ Extent(layout[m], bytes, at[m - 1]) >= 1
      <4> DEFINE len == ByteAt(bytes, at[m - 1] + 1) % 256
      <4>1. len \in 0..255 /\ Extent(layout[m], bytes, at[m - 1]) = 1 + len
        BY <2>2, <2>4 DEF Measured
      <4> HIDE DEF len
      <4> QED
        BY <4>1
    <3> QED
      BY <2>4, <3>3, <3>4
  <2> QED
    BY <2>3, <2>4
<1> HIDE DEF at, least
<1>5. i \in 0..n /\ j \in i..n
  OBVIOUS
<1> HIDE DEF n
<1>6. 0 \in S
  <2>1. i + 0 = i /\ at[i] \in Nat /\ least[i] \in Nat
    BY <1>2, <1>3, <1>5
  <2> QED
    BY <2>1
<1>7. ASSUME NEW d \in Nat, d \in S PROVE d + 1 \in S
  <2> SUFFICES ASSUME i + (d + 1) <= n PROVE Gap(i + (d + 1))
    OBVIOUS
  <2> DEFINE m == i + d
             e == Extent(layout[m + 1], bytes, at[m])
             l == Extent(layout[m + 1], <<>>, least[m])
  <2>1. i + (d + 1) = m + 1 /\ m \in Nat /\ m \in 0..n /\ m + 1 \in 1..n /\ (m + 1) - 1 = m /\ i <= m
    BY <1>1, <1>5
  <2>2. Gap(m)
    BY <1>7, <2>1
  <2> HIDE DEF m
  <2>3. l <= e /\ (layout[m + 1].kind # "str" => l = e) /\ l \in Nat /\ e \in Nat
    BY <1>4, <2>1
  <2>4. at[m + 1] = at[m] + e /\ least[m + 1] = least[m] + l
    BY <1>2, <1>3, <2>1
  <2> HIDE DEF e, l
  <2>5. at[m] \in Nat /\ least[m] \in Nat /\ at[i] \in Nat /\ least[i] \in Nat
    BY <1>2, <1>3, <1>5, <2>1
  <2> HIDE DEF S
  <2>8. /\ least[m] - least[i] <= at[m] - at[i]
        /\ (\A k \in (i + 1)..m : layout[k].kind # "str") => at[m] - at[i] <= least[m] - least[i]
    BY <2>2
  <2>9. (least[m] + l) - least[i] <= (at[m] + e) - at[i]
    BY <2>3, <2>5, <2>8, Further
  <2>6. least[m + 1] - least[i] <= at[m + 1] - at[i]
    BY <2>4, <2>9
  <2>7. ASSUME \A k \in (i + 1)..(m + 1) : layout[k].kind # "str"
        PROVE  at[m + 1] - at[i] <= least[m + 1] - least[i]
    <3>1. m + 1 \in (i + 1)..(m + 1) /\ \A k \in (i + 1)..m : k \in (i + 1)..(m + 1)
      BY <1>5, <2>1
    <3>2. l = e /\ \A k \in (i + 1)..m : layout[k].kind # "str"
      BY <2>3, <2>7, <3>1
    <3>3. at[m] - at[i] <= least[m] - least[i] /\ e <= l
      BY <2>3, <2>8, <3>2
    <3>4. (at[m] + e) - at[i] <= (least[m] + l) - least[i]
      BY <2>3, <2>5, <3>3, Further
    <3> QED
      BY <2>4, <3>4
  <2> QED
    BY <2>1, <2>6, <2>7
<1> HIDE DEF S
<1>8. j - i \in Nat /\ i + (j - i) = j /\ j <= n
  BY <1>1, <1>5
<1>9. j - i \in S
  BY <1>6, <1>7, <1>8, NatSetInduction
<1>10. Gap(j)
  BY <1>8, <1>9 DEF S
<1> QED
  BY <1>10 DEF at, least

-----------------------------------------------------------------------------
(***************************************************************************)
(* The relay's verdict on a field, and on a packet.                        *)
(***************************************************************************)
Left(layout, bytes, i) == Len(bytes) - Ends(layout, bytes)[i - 1]

Verdict(layout, bytes, i) == Refused(layout[i], bytes, Ends(layout, bytes)[i - 1])

Told(left, need, size, extent, str, bad, verdict) ==
    /\ verdict \in {"malformed", "parse", "panic", "none"}
    /\ left < need => verdict = "malformed"
    /\ verdict \in {"panic", "none"} => left >= need
    /\ verdict = "panic" => ~str /\ left < size
    /\ verdict = "none" => left >= extent /\ ~(str /\ bad)
    /\ left >= need /\ left >= extent /\ ~(str /\ bad) => verdict = "none"

LEMMA Telling ==
    ASSUME NEW left \in Int, NEW need \in Nat, NEW size \in Nat, NEW extent \in Nat,
           NEW str \in BOOLEAN, NEW bad \in BOOLEAN, NEW verdict,
           verdict = IF left < need \/ (str /\ left < extent) THEN "malformed"
                     ELSE IF str /\ bad THEN "parse"
                     ELSE IF left < size THEN "panic" ELSE "none",
           str => size = 0 /\ extent >= 1, ~str => extent = size
    PROVE  Told(left, need, size, extent, str, bad, verdict)
<1>1. CASE left < need
  <2>1. verdict = "malformed"
    BY <1>1
  <2>2. ~(left >= need)
    BY <1>1
  <2> QED
    BY <2>1, <2>2 DEF Told
<1>2. CASE left >= need /\ str
  BY <1>2 DEF Told
<1>3. CASE left >= need /\ ~str
  BY <1>3 DEF Told
<1> QED
  BY <1>1, <1>2, <1>3

\* What a field that is read leaves known, and what one that panics does.
Judged(layout, bytes, i) ==
    LET field == layout[i]
        at == Ends(layout, bytes)[i - 1]
    IN  Told(Left(layout, bytes, i), field.need, field.size, Extent(field, bytes, at),
             field.kind = "str", ~IsUtf8(Content(field, bytes, at)), Verdict(layout, bytes, i))

LEMMA Verdicts ==
    ASSUME NEW layout \in Seq(Field), NEW bytes \in Seq(Byte), NEW i \in 1..Len(layout)
    PROVE  Judged(layout, bytes, i)
<1> DEFINE field == layout[i]
           at == Ends(layout, bytes)[i - 1]
           left == Left(layout, bytes, i)
           text == Content(field, bytes, at)
           verdict == Verdict(layout, bytes, i)
           extent == Extent(field, bytes, at)
           bad == ~IsUtf8(text)
<1>1. field \in Field /\ at \in Nat /\ Len(bytes) \in Nat
  <2>1. i \in 1..Len(layout) /\ i - 1 \in 0..Len(layout)
    BY LayoutParts
  <2> QED
    BY <2>1, LayoutParts, EndsSteps, LenProperties
<1>2. verdict = IF left < field.need \/ (field.kind = "str" /\ left < extent) THEN "malformed"
                ELSE IF field.kind = "str" /\ bad THEN "parse"
                ELSE IF left < field.size THEN "panic" ELSE "none"
  BY Zenon DEF Verdict, Refused, Left
<1>3. left = Len(bytes) - at
  BY DEF Left
<1>4. /\ field.size \in Nat /\ field.need \in Nat
      /\ field.kind = "str" => field.size = 0
  BY <1>1, FieldParts
<1>5. Measured(field, bytes, at)
  BY <1>1, ContentLength
<1> HIDE DEF left, at, field
<1>6. extent \in Nat /\ (field.kind # "str" => extent = field.size)
  BY <1>5 DEF Measured
<1>7. field.kind = "str" => extent >= 1
  <2> SUFFICES ASSUME field.kind = "str" PROVE extent >= 1
    OBVIOUS
  <2> DEFINE len == ByteAt(bytes, at + 1) % 256
  <2>1. len \in 0..255 /\ extent = 1 + len
    BY <1>5 DEF Measured
  <2> HIDE DEF len
  <2> QED
    BY <2>1
<1>8. left \in Int
  BY <1>1, <1>3
<1> DEFINE str == field.kind = "str"
<1>9. str \in BOOLEAN /\ bad \in BOOLEAN
  BY DEF IsUtf8
<1>10. verdict = IF left < field.need \/ (str /\ left < extent) THEN "malformed"
                 ELSE IF str /\ bad THEN "parse"
                 ELSE IF left < field.size THEN "panic" ELSE "none"
  BY <1>2, Zenon
<1>14. (str => field.size = 0 /\ extent >= 1) /\ (~str => extent = field.size)
  <2> HIDE DEF text, verdict, extent, bad
  <2>1. field.kind = "str" => field.size = 0 /\ extent >= 1
    BY <1>4, <1>7
  <2>2. field.kind # "str" => extent = field.size
    BY <1>6
  <2> QED
    BY <2>1, <2>2
<1> HIDE DEF str, verdict, text, extent, bad
<1>12. Told(left, field.need, field.size, extent, str, bad, verdict)
  BY <1>4, <1>6, <1>8, <1>9, <1>10, <1>14, Telling
<1> QED
  BY <1>12 DEF field, at, left, text, verdict, extent, bad, str, Judged

\* A set of numbers that is not empty has a least one.
LEMMA LeastExists ==
    ASSUME NEW R, R \subseteq Nat, R # {}
    PROVE  \E i \in R : \A j \in R : i <= j
<1> DEFINE below == OpToRel(<, Nat)
<1>1. IsWellFoundedOn(below, Nat)
  BY NatLessThanWellFounded
<1>2. \A x, y \in Nat : y < x => <<y, x>> \in below
  BY DEF OpToRel
<1> HIDE DEF below
<1>3. PICK x \in R : \A y \in R : <<y, x>> \notin below
  BY <1>1, WFMin
<1>4. \A y \in R : x \in Nat /\ y \in Nat /\ ~(y < x)
  BY <1>2, <1>3
<1>5. \A y \in R : x <= y
  BY <1>4
<1> QED
  BY <1>3, <1>5

\* A packet no field of which is refused is parsed; of another one the verdict
\* is that of the first field that is.
LEMMA ParseVerdict ==
    ASSUME NEW e, RelayLayout[e] \in Seq(Field), NEW bytes
    PROVE  LET layout == RelayLayout[e]
               verdict(i) == Verdict(layout, bytes, i)
           IN  \/ /\ \A i \in 1..Len(layout) : verdict(i) = "none"
                  /\ Parse(e, bytes).error = "none"
                  /\ Parse(e, bytes).fields
                     = [i \in 1..Len(layout) |->
                         RelayValue(layout[i], bytes, Ends(layout, bytes)[i - 1])]
               \/ \E i \in 1..Len(layout) :
                     /\ verdict(i) # "none" /\ Parse(e, bytes).error = verdict(i)
                     /\ \A j \in 1..(i - 1) : verdict(j) = "none"
<1> DEFINE layout == RelayLayout[e]
           verdict(i) == Verdict(layout, bytes, i)
           refused == {i \in DOMAIN layout : verdict(i) # "none"}
           first == CHOOSE i \in refused : \A j \in refused : i <= j
           fields == [i \in DOMAIN layout |->
                         RelayValue(layout[i], bytes, Ends(layout, bytes)[i - 1])]
<1>1. Parse(e, bytes) = IF refused = {}
                        THEN [error |-> "none", fields |-> fields]
                        ELSE [error |-> verdict(first), fields |-> <<>>]
  BY Zenon DEF Parse, Verdict
<1>2. DOMAIN layout = 1..Len(layout) /\ Len(layout) \in Nat
  BY LayoutParts
<1> HIDE DEF fields, layout
<1>3. CASE refused = {}
  <2>1. \A i \in 1..Len(layout) : verdict(i) = "none"
    BY <1>2, <1>3
  <2>2. Parse(e, bytes).error = "none" /\ Parse(e, bytes).fields = fields
    BY <1>1, <1>3
  <2> QED
    BY <1>2, <2>1, <2>2 DEF fields, layout
<1>4. CASE refused # {}
  <2>1. \E i \in refused : \A j \in refused : i <= j
    <3>1. refused \subseteq Nat
      BY <1>2
    <3> HIDE DEF refused
    <3> QED
      BY <1>4, <3>1, LeastExists
  <2>2. first \in refused /\ \A j \in refused : first <= j
    BY <2>1
  <2> HIDE DEF first
  <2>3. first \in 1..Len(layout) /\ verdict(first) # "none"
    BY <1>2, <2>2
  <2>4. ASSUME NEW j \in 1..(first - 1) PROVE verdict(j) = "none"
    <3>1. j \in 1..Len(layout) /\ ~(first <= j)
      BY <1>2, <2>3
    <3> QED
      BY <1>2, <2>2, <3>1
  <2>5. Parse(e, bytes).error = verdict(first)
    BY <1>1, <1>4
  <2> QED
    BY <2>3, <2>4, <2>5 DEF layout
<1> QED
  BY <1>3, <1>4

-----------------------------------------------------------------------------
(***************************************************************************)
(* A relay whose layout is that of the sender.                             *)
(***************************************************************************)
\* It refuses no field, and reads each as it was written.
LEMMA AgreedReads ==
    ASSUME NEW relay \in Seq(Field), NEW send \in Seq(Field), NEW vals, Fitting(send, vals),
           Alike(relay, send), Alike(send, relay), NeedsMet(relay), NEW i \in 1..Len(relay)
    PROVE  LET bytes == Write(send, vals)
           IN  /\ Verdict(relay, bytes, i) = "none"
               /\ RelayValue(relay[i], bytes, Ends(relay, bytes)[i - 1]) = vals[i]
<1> DEFINE n == Len(relay)
           bytes == Write(send, vals)
           at == Ends(relay, bytes)
           a == at[i - 1]
           least == Least(relay)
           left == Left(relay, bytes, i)
<1>1. n \in Nat /\ Len(send) = n
  BY LayoutParts DEF Alike
<1>2. i \in 1..Len(send) /\ relay[i] \in Field /\ send[i] \in Field /\ Fits(send[i], vals[i])
      /\ relay[i].kind = send[i].kind /\ relay[i].size = send[i].size
  BY <1>1, LayoutParts DEF Alike, Fitting
<1>3. bytes \in Seq(Byte) /\ Len(bytes) \in Nat
  BY ItemsInPlace, LenProperties
<1>4. i - 1 \in 0..n /\ n \in 0..n /\ n \in (i - 1)..n
  BY <1>1
<1>5. at[n] = Len(bytes)
  BY <1>1, <1>4, EndsAreWritten DEF Write
<1>6. least[n] - least[i - 1] <= at[n] - at[i - 1]
  BY <1>3, <1>4, GapsGrow
<1>7. relay[i].need <= least[n] - least[i - 1]
  BY DEF NeedsMet
<1>8. a \in Nat /\ Content(relay[i], bytes, a) = vals[i]
      /\ a + Extent(relay[i], bytes, a) <= Len(bytes)
  BY ReadsValues
<1>9. Measured(relay[i], bytes, a)
  BY <1>2, <1>3, <1>8, ContentLength
<1>10. Judged(relay, bytes, i)
  BY <1>3, Verdicts
<1>11. least[n] \in Nat /\ least[i - 1] \in Nat
  BY <1>4, NothingIsBytes, EndsSteps DEF Least
<1>12. left = Len(bytes) - a
  BY DEF Left
<1> HIDE DEF n, bytes, at, a, least, left
<1>13. left >= relay[i].need
  <2>1. left = at[n] - at[i - 1]
    BY <1>5, <1>12 DEF a
  <2>2. relay[i].need \in Nat /\ at[n] - at[i - 1] \in Int /\ least[n] - least[i - 1] \in Int
    BY <1>2, <1>3, <1>5, <1>8, <1>11, FieldParts DEF a
  <2> QED
    BY <1>6, <1>7, <2>1, <2>2
<1>14. left >= Extent(relay[i], bytes, a)
  BY <1>3, <1>8, <1>9, <1>12 DEF Measured
<1>15. relay[i].kind = "str" => IsUtf8(vals[i])
  BY <1>2 DEF Fits
<1>16. Verdict(relay, bytes, i) = "none"
  <2>1. Told(left, relay[i].need, relay[i].size, Extent(relay[i], bytes, a),
             relay[i].kind = "str", ~IsUtf8(vals[i]), Verdict(relay, bytes, i))
    BY <1>8, <1>10 DEF Judged, left, a, at
  <2> QED
    BY <1>13, <1>14, <1>15, <2>1 DEF Told
<1>17. RelayValue(relay[i], bytes, a) = vals[i]
  <2>1. CASE relay[i].kind # "bool"
    BY <1>8, <2>1 DEF RelayValue
  <2>2. CASE relay[i].kind = "bool"
    <3>1. relay[i].size = 1 /\ (vals[i] = <<0>> \/ vals[i] = <<1>>)
      BY <1>2, <2>2, FieldParts DEF Fits
    <3>2. vals[i] = [k \in 1..1 |-> ByteAt(bytes, a + k)]
      BY <1>8, <1>9, <2>2, <3>1 DEF Measured
    <3>3. vals[i][1] = ByteAt(bytes, a + 1) /\ vals[i] = <<vals[i][1]>>
      BY <3>1, <3>2
    <3>4. Nonzero(vals[i][1]) = vals[i][1]
      BY <3>1 DEF Nonzero
    <3> QED
      BY <2>2, <3>3, <3>4 DEF RelayValue
  <2> QED
    BY <2>1, <2>2
<1> QED
  BY <1>16, <1>17 DEF a, at, bytes

LEMMA AgreedParses ==
    ASSUME NEW e \in Events, e \in Agreed, NEW vals, Fitting(SendLayout[e], vals)
    PROVE  /\ Parse(e, Write(SendLayout[e], vals)).error = "none"
           /\ Parse(e, Write(SendLayout[e], vals)).fields = vals
<1> DEFINE relay == RelayLayout[e]
           send == SendLayout[e]
           bytes == Write(send, vals)
<1>1. /\ relay \in Seq(Field) /\ send \in Seq(Field)
      /\ Alike(relay, send) /\ Alike(send, relay) /\ NeedsMet(relay)
  BY LayoutsAssumption DEF Agrees
<1> HIDE DEF relay, send
<1>2. Fitting(send, vals)
  BY DEF send
<1>3. \A i \in 1..Len(relay) :
         /\ Verdict(relay, bytes, i) = "none"
         /\ RelayValue(relay[i], bytes, Ends(relay, bytes)[i - 1]) = vals[i]
  BY <1>1, <1>2, AgreedReads
<1>4. /\ Parse(e, bytes).error = "none"
      /\ Parse(e, bytes).fields
         = [i \in 1..Len(relay) |-> RelayValue(relay[i], bytes, Ends(relay, bytes)[i - 1])]
  BY <1>1, <1>3, ParseVerdict DEF relay
<1>5. Len(relay) = Len(send)
  BY <1>1, LayoutParts DEF Alike
<1>6. [i \in 1..Len(relay) |-> RelayValue(relay[i], bytes, Ends(relay, bytes)[i - 1])]
      = [i \in 1..Len(relay) |-> vals[i]]
  BY <1>3
<1>7. vals = [i \in 1..Len(relay) |-> vals[i]]
  BY <1>2, <1>5 DEF Fitting
<1> QED
  BY <1>4, <1>6, <1>7 DEF send

-----------------------------------------------------------------------------
(***************************************************************************)
(* A relay whose layout is another one.                                    *)
(***************************************************************************)
LEMMA Within ==
    ASSUME NEW all \in Nat, NEW from \in Nat, NEW at \in Nat, NEW to \in Nat, NEW size \in Nat,
           NEW need \in Nat, NEW leastFrom \in Nat, NEW leastTo \in Nat,
           all - from >= need, need >= leastTo - leastFrom,
           to - from <= leastTo - leastFrom, to = at + size
    PROVE  ~(all - at < size)
OBVIOUS

\* The needs keep it from reading a field past the end.
LEMMA GuardedReads ==
    ASSUME NEW layout \in Seq(Field), Guarded(layout), NEW bytes \in Seq(Byte),
           NEW i \in 1..Len(layout), \A j \in 1..(i - 1) : Verdict(layout, bytes, j) = "none"
    PROVE  Verdict(layout, bytes, i) # "panic"
<1> SUFFICES ASSUME Verdict(layout, bytes, i) = "panic" PROVE FALSE
  OBVIOUS
<1> DEFINE at == Ends(layout, bytes)
           least == Least(layout)
<1>1. layout[i].kind # "str" /\ Left(layout, bytes, i) < layout[i].size
  BY Verdicts DEF Judged, Told
<1>2. PICK j \in 1..i : /\ \A k \in j..i : layout[k].kind # "str"
                        /\ layout[j].need >= least[i] - least[j - 1]
  BY <1>1 DEF Guarded
<1>3. Len(layout) \in Nat
  BY LayoutParts
<1>4. /\ i \in Nat /\ j \in Nat /\ j \in 1..Len(layout) /\ (j = i \/ j \in 1..(i - 1))
      /\ j - 1 \in 0..Len(layout) /\ i \in (j - 1)..Len(layout)
      /\ (j - 1) + 1 = j /\ i - 1 \in 0..Len(layout) /\ i \in 0..Len(layout)
  BY <1>3
<1>5. Left(layout, bytes, j) >= layout[j].need
  BY <1>4, Verdicts DEF Judged, Told
<1>6. at[i] - at[j - 1] <= least[i] - least[j - 1]
  BY <1>2, <1>4, GapsGrow
<1>7. at[i - 1] \in Nat /\ at[i] \in Nat /\ at[j - 1] \in Nat
      /\ at[i] = at[i - 1] + Extent(layout[i], bytes, at[i - 1])
  BY <1>4, EndsSteps
<1>8. least[i] \in Nat /\ least[j - 1] \in Nat
  <2>1. least \in [0..Len(layout) -> Nat]
    BY NothingIsBytes, EndsSteps DEF Least
  <2> QED
    BY <1>4, <2>1
<1> HIDE DEF at, least
<1>9. layout[i] \in Field /\ layout[j] \in Field /\ Len(bytes) \in Nat
  BY <1>4, LayoutParts, LenProperties
<1>10. Extent(layout[i], bytes, at[i - 1]) = layout[i].size
  BY <1>1 DEF Extent
<1>11. layout[i].size \in Nat /\ layout[j].need \in Nat
  BY <1>9, FieldParts
<1>12. Left(layout, bytes, i) = Len(bytes) - at[i - 1] /\ Left(layout, bytes, j) = Len(bytes) - at[j - 1]
  BY DEF Left, at
<1>13. at[i] = at[i - 1] + layout[i].size
  BY <1>7, <1>10
<1>14. Len(bytes) - at[j - 1] >= layout[j].need /\ layout[j].need >= least[i] - least[j - 1]
  BY <1>2, <1>5, <1>12
<1>15. ~(Len(bytes) - at[i - 1] < layout[i].size)
  BY <1>6, <1>7, <1>8, <1>9, <1>11, <1>13, <1>14, Within
<1> QED
  BY <1>1, <1>12, <1>15

\* What is too short for the first need is refused there.
LEMMA ShortIsMalformed ==
    ASSUME NEW relay \in Seq(Field), NEW send \in Seq(Field), NEW vals, Fitting(send, vals),
           Len(relay) > 0, relay[1].need > Least(send)[Len(send)],
           \A k \in 1..Len(send) : send[k].kind # "str"
    PROVE  Verdict(relay, Write(send, vals), 1) = "malformed"
<1> DEFINE n == Len(send)
           bytes == Write(send, vals)
           at == Ends(send, bytes)
           least == Least(send)
<1>1. n \in Nat /\ Len(relay) \in Nat /\ 1 \in 1..Len(relay) /\ relay[1] \in Field
  BY LayoutParts
<1>2. 0 \in 0..n /\ n \in 0..n /\ 0 + 1 = 1
  BY <1>1
<1>3. bytes \in Seq(Byte) /\ Len(bytes) \in Nat
  BY ItemsInPlace, LenProperties
<1>4. at[n] = Len(bytes)
  <2>1. Alike(send, send)
    BY <1>1 DEF Alike
  <2> QED
    BY <1>2, <2>1, EndsAreWritten DEF Write
<1>5. at[n] - at[0] <= least[n] - least[0]
  BY <1>2, <1>3, GapsGrow
<1>6. at[0] = 0 /\ least[0] = 0 /\ least[n] \in Nat
  BY <1>2, <1>3, NothingIsBytes, EndsSteps DEF Least
<1>7. Ends(relay, bytes)[1 - 1] = 0
  BY <1>3, EndsSteps
<1>8. Left(relay, bytes, 1) = Len(bytes) - 0
  BY <1>7 DEF Left
<1>9. Judged(relay, bytes, 1)
  BY <1>1, <1>3, Verdicts
<1>10. relay[1].need \in Nat
  BY <1>1, FieldParts
<1> HIDE DEF n, bytes, at, least
<1>11. relay[1].need > least[n]
  BY DEF least, n
<1>12. Left(relay, bytes, 1) < relay[1].need
  BY <1>3, <1>4, <1>5, <1>6, <1>8, <1>10, <1>11
<1> QED
  BY <1>9, <1>12 DEF Judged, Told, bytes

\* So no packet that a plugin sends is read past its end.
LEMMA NoPanic ==
    ASSUME NEW e \in Events, NEW vals, Fitting(SendLayout[e], vals)
    PROVE  Parse(e, Write(SendLayout[e], vals)).error \in {"none", "malformed", "parse"}
<1> DEFINE relay == RelayLayout[e]
           send == SendLayout[e]
           bytes == Write(send, vals)
<1>1. relay \in Seq(Field) /\ send \in Seq(Field)
  BY LayoutsAssumption
<1>2. CASE e \in Agreed
  BY <1>2, AgreedParses
<1>3. CASE e \notin Agreed
  <2>1. Guarded(relay) \/ TooShort(e)
    BY <1>3, LayoutsAssumption DEF Differs
  <2> HIDE DEF relay, send
  <2>2. Fitting(send, vals)
    BY DEF send
  <2>3. bytes \in Seq(Byte)
    BY <1>1, <2>2, ItemsInPlace
  <2> HIDE DEF bytes
  <2>4. ASSUME NEW i \in 1..Len(relay), \A j \in 1..(i - 1) : Verdict(relay, bytes, j) = "none"
        PROVE  Verdict(relay, bytes, i) \in {"none", "malformed", "parse"}
    <3>1. Verdict(relay, bytes, i) \in {"malformed", "parse", "panic", "none"}
      BY <1>1, <2>3, Verdicts DEF Judged, Told
    <3>2. CASE Guarded(relay)
      <4>1. Verdict(relay, bytes, i) # "panic"
        BY <1>1, <2>3, <2>4, <3>2, GuardedReads
      <4> QED
        BY <3>1, <4>1
    <3>3. CASE TooShort(e)
      <4>1. /\ Len(relay) > 0 /\ relay[1].need > Least(send)[Len(send)]
            /\ \A k \in 1..Len(send) : send[k].kind # "str"
        BY <3>3 DEF TooShort, relay, send
      <4>2. Verdict(relay, bytes, 1) = "malformed"
        BY <1>1, <2>2, <4>1, ShortIsMalformed DEF bytes
      <4>3. i = 1 \/ 1 \in 1..(i - 1)
        BY <1>1, LayoutParts
      <4> QED
        BY <2>4, <4>2, <4>3
    <3> QED
      BY <2>1, <3>2, <3>3
  <2>5. Parse(e, bytes).error \in {"none", "malformed", "parse"}
    BY <1>1, <2>4, ParseVerdict DEF relay
  <2> QED
    BY <2>5 DEF bytes, send
<1> QED
  BY <1>2, <1>3

LEMMA Listed ==
    ASSUME NEW n \in Nat, NEW f, \A k \in 1..n : f[k] \in Byte, f = [k \in 1..n |-> f[k]]
    PROVE  f \in Seq(Byte) /\ Len(f) = n
OBVIOUS

LEMMA SameRange ==
    ASSUME NEW m \in Nat, NEW n \in Nat, 1..m = 1..n
    PROVE  m = n
<1>1. m \in 1..m \/ m = 0
  OBVIOUS
<1>2. n \in 1..n \/ n = 0
  OBVIOUS
<1>3. m <= n /\ n <= m
  BY <1>1, <1>2
<1> QED
  BY <1>3

\* What the relay has read are values of its own fields.
LEMMA ReadFits ==
    ASSUME NEW layout \in Seq(Field), NEW bytes \in Seq(Byte), NEW i \in 1..Len(layout),
           Verdict(layout, bytes, i) = "none"
    PROVE  Fits(layout[i], RelayValue(layout[i], bytes, Ends(layout, bytes)[i - 1]))
<1> DEFINE field == layout[i]
           a == Ends(layout, bytes)[i - 1]
           text == Content(field, bytes, a)
<1>1. field \in Field /\ a \in Nat /\ Len(bytes) \in Nat
  <2>1. i - 1 \in 0..Len(layout)
    BY LayoutParts
  <2> QED
    BY <2>1, LayoutParts, EndsSteps, LenProperties
<1>2. /\ Left(layout, bytes, i) >= Extent(field, bytes, a)
      /\ ~(field.kind = "str" /\ ~IsUtf8(text))
  BY Verdicts DEF Judged, Told
<1>3. Left(layout, bytes, i) = Len(bytes) - a
  BY DEF Left
<1>4. Measured(field, bytes, a)
  BY <1>1, ContentLength
<1>5. /\ field.size \in Nat /\ field.kind \in {"num", "bool", "str"}
      /\ field.kind = "bool" => field.size = 1
  BY <1>1, FieldParts
<1> HIDE DEF field, a
<1>6. a + Extent(field, bytes, a) <= Len(bytes)
  BY <1>1, <1>2, <1>3, <1>4 DEF Measured
<1>7. CASE field.kind = "str"
  <2> DEFINE len == ByteAt(bytes, a + 1) % 256
  <2>1. /\ len \in 0..255 /\ Extent(field, bytes, a) = 1 + len
        /\ text = [k \in 1..len |-> ByteAt(bytes, a + 1 + k)]
    BY <1>4, <1>7 DEF Measured
  <2> HIDE DEF len, text
  <2>2. \A k \in 1..len : a + 1 + k \in Nat /\ a + 1 + k # 0 /\ a + 1 + k <= Len(bytes)
    BY <1>1, <1>6, <2>1
  <2>3. \A k \in 1..len : ByteAt(bytes, a + 1 + k) \in Byte
    BY <2>2, ByteAtRange
  <2>4. len \in Nat /\ len <= 255
    BY <2>1
  <2>5. text \in Seq(Byte) /\ Len(text) = len
    BY <2>1, <2>3, <2>4, Listed
  <2>6. IsUtf8(text)
    BY <1>2, <1>7
  <2>7. RelayValue(field, bytes, a) = text
    BY <1>7 DEF RelayValue, text
  <2> QED
    BY <1>7, <2>4, <2>5, <2>6, <2>7 DEF field, a, Fits
<1>8. CASE field.kind = "num"
  <2>1. Extent(field, bytes, a) = field.size /\ text = [k \in 1..field.size |-> ByteAt(bytes, a + k)]
    BY <1>4, <1>8 DEF Measured
  <2>2. \A k \in 1..field.size : a + k \in Nat /\ a + k # 0 /\ a + k <= Len(bytes)
    BY <1>1, <1>5, <1>6, <2>1
  <2>3. \A k \in 1..field.size : ByteAt(bytes, a + k) \in Byte
    BY <2>2, ByteAtRange
  <2> HIDE DEF text
  <2>4. text \in Seq(Byte) /\ Len(text) = field.size
    BY <1>5, <2>1, <2>3, Listed
  <2>5. RelayValue(field, bytes, a) = text
    BY <1>8 DEF RelayValue, text
  <2> QED
    BY <1>8, <2>4, <2>5 DEF field, a, Fits
<1>9. CASE field.kind = "bool"
  <2>1. RelayValue(field, bytes, a) = <<Nonzero(ByteAt(bytes, a + 1))>>
    BY <1>9 DEF RelayValue
  <2>2. RelayValue(field, bytes, a) = <<0>> \/ RelayValue(field, bytes, a) = <<1>>
    BY <2>1 DEF Nonzero
  <2>3. <<0>> \in Seq(Byte) /\ <<1>> \in Seq(Byte)
    BY DEF Byte
  <2> QED
    BY <1>9, <2>2, <2>3 DEF field, a, Fits
<1> QED
  BY <1>5, <1>7, <1>8, <1>9

LEMMA ParsedFits ==
    ASSUME NEW e \in Events, NEW bytes \in Seq(Byte), Parse(e, bytes).error = "none"
    PROVE  Fitting(RelayLayout[e], Parse(e, bytes).fields)
<1> DEFINE relay == RelayLayout[e]
           fields == Parse(e, bytes).fields
           value(i) == RelayValue(relay[i], bytes, Ends(relay, bytes)[i - 1])
<1>1. relay \in Seq(Field)
  BY LayoutsAssumption
<1>2. /\ \A i \in 1..Len(relay) : Verdict(relay, bytes, i) = "none"
      /\ fields = [i \in 1..Len(relay) |-> value(i)]
  BY <1>1, ParseVerdict
<1>3. \A i \in 1..Len(relay) : Fits(relay[i], value(i))
  BY <1>1, <1>2, ReadFits
<1> HIDE DEF fields, value, relay
<1>4. \A i \in 1..Len(relay) : fields[i] = value(i)
  BY <1>2
<1>5. fields = [i \in 1..Len(relay) |-> fields[i]]
  BY <1>2, <1>4
<1> QED
  BY <1>3, <1>4, <1>5 DEF Fitting, fields, relay

\* The values of layouts that differ differ.
LEMMA OthersDiffer ==
    ASSUME NEW e \in Events, Differs(e), NEW vals, Fitting(SendLayout[e], vals),
           NEW fields, Fitting(RelayLayout[e], fields)
    PROVE  fields # vals
<1> DEFINE relay == RelayLayout[e]
           send == SendLayout[e]
<1>1. Len(relay) \in Nat /\ Len(send) \in Nat
  BY LayoutsAssumption, LayoutParts
<1>2. /\ fields = [i \in 1..Len(relay) |-> fields[i]] /\ vals = [i \in 1..Len(send) |-> vals[i]]
      /\ \A i \in 1..Len(relay) : Fits(relay[i], fields[i])
      /\ \A i \in 1..Len(send) : Fits(send[i], vals[i])
  BY DEF Fitting
<1>3. \/ Len(relay) # Len(send)
      \/ \E i \in 1..Len(relay) :
            relay[i].kind = "num" /\ send[i].kind = "num" /\ relay[i].size # send[i].size
  BY DEF Differs
<1> HIDE DEF relay, send
<1>4. DOMAIN fields = 1..Len(relay) /\ DOMAIN vals = 1..Len(send)
  BY <1>2
<1>5. CASE Len(relay) # Len(send)
  <2>1. 1..Len(relay) # 1..Len(send)
    BY <1>1, <1>5, SameRange
  <2> QED
    BY <1>4, <2>1
<1>6. CASE Len(relay) = Len(send)
  <2>1. PICK i \in 1..Len(relay) :
           relay[i].kind = "num" /\ send[i].kind = "num" /\ relay[i].size # send[i].size
    BY <1>3, <1>6
  <2>2. Len(fields[i]) = relay[i].size /\ Len(vals[i]) = send[i].size
    BY <1>2, <1>6, <2>1 DEF Fits
  <2> QED
    BY <2>1, <2>2
<1> QED
  BY <1>5, <1>6

-----------------------------------------------------------------------------
(***************************************************************************)
(* The values a plugin sends, and what arrives of them.                    *)
(***************************************************************************)
LEMMA LettersAreText ==
    ASSUME NEW text \in Seq(Byte), \A k \in 1..Len(text) : text[k] = 97
    PROVE  IsUtf8(text)
<1>1. CharSize(97) = 1
  <2>1. 97 \in 0..127 /\ 97 \notin 194..223 /\ 97 \notin 224..239 /\ 97 \notin 240..244
    OBVIOUS
  <2> QED
    BY <2>1 DEF CharSize
<1>2. DOMAIN text = 1..Len(text) /\ Len(text) \in Nat
  BY LenProperties
<1>3. ASSUME NEW k \in 1..Len(text)
      PROVE  /\ CharSize(text[k]) = 1 /\ k + 1 - 1 <= Len(text)
             /\ \A m \in 1..(1 - 1) : FALSE
  BY <1>1, <1>2
<1> QED
  BY <1>2, <1>3 DEF IsUtf8

LEMMA ValueFits ==
    ASSUME NEW field \in Field, NEW i \in Nat, NEW fill \in Fills, NEW lens \in [0..2 -> Lengths]
    PROVE  Fits(field, Value(field, i, fill, lens))
<1> DEFINE b == (fill + i) % 256
           value == Value(field, i, fill, lens)
<1>1. b \in Byte /\ b \in 0..255
  BY BytesAssumption DEF Byte
<1>2. i % 3 \in 0..2
  OBVIOUS
<1>3. lens[i % 3] \in 0..255
  BY <1>2, BytesAssumption
<1>4. /\ field.size \in Nat /\ field.kind \in {"num", "bool", "str"}
      /\ field.kind = "bool" => field.size = 1
  BY FieldParts
<1> HIDE DEF b
<1>9. ASSUME NEW size \in Nat
      PROVE  Number(b, size) \in Seq(Byte) /\ Len(Number(b, size)) = size
  <2>1. \A k \in 1..size : (b + k) % 256 \in Byte
    BY <1>1 DEF Byte
  <2> QED
    BY <2>1, Listed DEF Number
<1>5. CASE field.kind = "str"
  <2> DEFINE len == lens[i % 3]
  <2>1. value = [k \in 1..len |-> 97]
    BY <1>5 DEF Value
  <2> HIDE DEF len, value
  <2>2. len \in Nat /\ len <= 255
    BY <1>3 DEF len
  <2>3. \A k \in 1..len : value[k] = 97
    BY <2>1
  <2>4. 97 \in Byte /\ value = [k \in 1..len |-> value[k]]
    BY <2>1, <2>3 DEF Byte
  <2>5. value \in Seq(Byte) /\ Len(value) = len
    BY <2>2, <2>3, <2>4, Listed
  <2>6. IsUtf8(value)
    BY <2>3, <2>5, LettersAreText
  <2> QED
    BY <1>5, <2>2, <2>5, <2>6 DEF Fits, value
<1>6. CASE field.kind = "bool"
  <2>1. value = <<b % 2>>
    BY <1>6, Zenon DEF Value, b
  <2>2. b % 2 = 0 \/ b % 2 = 1
    BY <1>1
  <2>3. <<0>> \in Seq(Byte) /\ <<1>> \in Seq(Byte)
    BY DEF Byte
  <2>4. value = <<0>> \/ value = <<1>>
    BY <2>1, <2>2
  <2> QED
    BY <1>6, <2>3, <2>4 DEF Fits
<1>7. CASE field.kind = "num" /\ field.size = 8
  <2>1. value = SteamId(b)
    BY <1>7 DEF Value, b
  <2>2. /\ [k \in 1..8 |-> 0] \in Seq(Byte) /\ Len([k \in 1..8 |-> 0]) = 8
    <3>1. 0 \in Byte /\ 8 \in Nat
      BY DEF Byte
    <3> QED
      BY <3>1, Listed
  <2>3. Number(b, 4) \in Seq(Byte) /\ Len(Number(b, 4)) = 4
    BY <1>9
  <2>4. <<1, 0, 16, 1>> \in Seq(Byte) /\ Len(<<1, 0, 16, 1>>) = 4
    BY DEF Byte
  <2>5. /\ Number(b, 4) \o <<1, 0, 16, 1>> \in Seq(Byte)
        /\ Len(Number(b, 4) \o <<1, 0, 16, 1>>) = 8
    <3> DEFINE low == Number(b, 4)
               high == <<1, 0, 16, 1>>
    <3>1. low \in Seq(Byte) /\ high \in Seq(Byte) /\ Len(low) = 4 /\ Len(high) = 4
      BY <2>3, <2>4
    <3> HIDE DEF low, high
    <3>2. low \o high \in Seq(Byte) /\ Len(low \o high) = Len(low) + Len(high)
      BY <3>1, ConcatProperties, Zenon
    <3>3. Len(low) + Len(high) = 8
      BY <3>1
    <3> QED
      BY <3>2, <3>3 DEF low, high
  <2>6. SteamId(b) \in Seq(Byte) /\ Len(SteamId(b)) = 8
    BY <2>2, <2>5 DEF SteamId
  <2> QED
    BY <1>7, <2>1, <2>6 DEF Fits
<1>8. CASE field.kind = "num" /\ field.size # 8
  <2>1. value = Number(b, field.size)
    BY <1>8 DEF Value, b
  <2>2. value \in Seq(Byte) /\ Len(value) = field.size
    BY <1>4, <1>9, <2>1
  <2> QED
    BY <1>8, <2>2 DEF Fits
<1> QED
  BY <1>4, <1>5, <1>6, <1>7, <1>8

\* What the plugin of another server reads of what the relay writes again.
LEMMA ArrivesAsSent ==
    ASSUME NEW e \in Events, e \in Agreed, e \in DOMAIN ReadLayout,
           NEW vals, Fitting(SendLayout[e], vals), Fitting(RelayLayout[e], vals)
    PROVE  LET seen == PluginRead(e, Write(RelayLayout[e], vals))
           IN  \A i \in DOMAIN seen : i \in DOMAIN vals /\ seen[i] = vals[i]
<1> DEFINE reader == ReadLayout[e]
           relay == RelayLayout[e]
           send == SendLayout[e]
           bytes == Write(relay, vals)
           seen == PluginRead(e, bytes)
<1>1. reader \in Seq(Field) /\ relay \in Seq(Field) /\ send \in Seq(Field)
  BY LayoutsAssumption
<1>2. Alike(reader, send) /\ Alike(send, relay)
  BY LayoutsAssumption DEF Agrees
<1>3. seen = [i \in DOMAIN reader |-> Content(reader[i], bytes, Ends(reader, bytes)[i - 1])]
  BY Zenon DEF PluginRead
<1> HIDE DEF reader, send, seen, relay
<1>4. Alike(reader, relay)
  BY <1>1, <1>2, LayoutParts DEF Alike
<1>5. Fitting(relay, vals)
  BY DEF relay
<1>6. DOMAIN reader = 1..Len(reader) /\ DOMAIN vals = 1..Len(relay)
  BY <1>1, <1>5, LayoutParts DEF Fitting
<1>7. ASSUME NEW i \in 1..Len(reader)
      PROVE  i \in 1..Len(relay) /\ Content(reader[i], bytes, Ends(reader, bytes)[i - 1]) = vals[i]
  BY <1>1, <1>4, <1>5, ReadsValues
<1> HIDE DEF bytes
<1>8. \A i \in DOMAIN seen : i \in DOMAIN vals /\ seen[i] = vals[i]
  BY <1>3, <1>6, <1>7
<1> QED
  BY <1>8 DEF seen, bytes, relay

-----------------------------------------------------------------------------
(***************************************************************************)
(* The inductive invariant: what the packet is at each stage.              *)
(***************************************************************************)
Sent == Write(SendLayout[event], values)

Past == stage \in {"parsed", "forwarded", "read", "handled", "dropped", "dead"}

Inv ==
    /\ stage = "idle" \/ stage = "sent" \/ Past
    /\ stage = "idle" => event = "none" /\ payload = <<>> /\ parsed = Unread
    /\ stage # "idle" => event \in Events /\ Fitting(SendLayout[event], values)
    /\ stage = "sent" => payload = Sent /\ parsed = Unread
    /\ Past => parsed = Parse(event, Sent)
    /\ stage \in {"parsed", "forwarded", "read"} => parsed.error = "none"
    /\ stage \in {"forwarded", "read"} => payload = Write(RelayLayout[event], parsed.fields)
    /\ stage = "read" => event \in DOMAIN ReadLayout /\ read = PluginRead(event, payload)
    /\ payload \in Seq(Byte)

LEMMA InitInv == Init => Inv
<1>1. <<>> \in Seq(Byte)
  BY NothingIsBytes
<1> QED
  BY <1>1 DEF Init, Inv, Past

LEMMA SentIsBytes ==
    ASSUME NEW e \in Events, NEW vals, Fitting(SendLayout[e], vals)
    PROVE  Write(SendLayout[e], vals) \in Seq(Byte)
BY LayoutsAssumption, ItemsInPlace

LEMMA NextInv ==
    ASSUME Inv, [Next]_vars
    PROVE  Inv'
<1>1. ASSUME NEW e \in Events, NEW fill \in Fills, NEW lens \in [0..2 -> Lengths],
             Send(e, fill, lens)
      PROVE  Inv'
  <2> DEFINE layout == SendLayout[e]
             vals == [i \in DOMAIN layout |-> Value(layout[i], i, fill, lens)]
  <2>1. /\ stage = "idle" /\ stage' = "sent" /\ event' = e /\ values' = vals
        /\ payload' = Write(layout, vals) /\ parsed' = parsed
    BY <1>1 DEF Send
  <2>2. layout \in Seq(Field)
    BY LayoutsAssumption
  <2>3. DOMAIN layout = 1..Len(layout) /\ \A i \in 1..Len(layout) : i \in Nat /\ layout[i] \in Field
    BY <2>2, LayoutParts
  <2> HIDE DEF layout
  <2>4. \A i \in 1..Len(layout) : Fits(layout[i], vals[i])
    BY <2>3, ValueFits
  <2>5. Fitting(layout, vals)
    BY <2>3, <2>4 DEF Fitting
  <2> HIDE DEF vals
  <2>6. payload' \in Seq(Byte)
    BY <2>1, <2>5, SentIsBytes DEF layout
  <2>7. payload' = Sent' /\ parsed' = Unread
    BY <2>1 DEF Inv, Sent, layout
  <2> QED
    BY <2>1, <2>5, <2>6, <2>7 DEF Inv, Past, layout
<1>2. CASE RelayParses
  <2>1. /\ stage = "sent" /\ parsed' = Parse(event, payload)
        /\ stage' = CASE parsed'.error = "none" -> "parsed"
                      [] parsed'.error = "malformed" -> "dropped"
                      [] OTHER -> "dead"
        /\ event' = event /\ values' = values /\ payload' = payload
    BY <1>2 DEF RelayParses
  <2>2. parsed' = Parse(event, Sent) /\ Sent' = Sent
    BY <2>1 DEF Inv, Sent
  <2>3. stage' \in {"parsed", "dropped", "dead"} /\ (stage' = "parsed" => parsed'.error = "none")
    BY <2>1
  <2> QED
    BY <2>1, <2>2, <2>3 DEF Inv, Past
<1>3. CASE RelayForwards
  <2>1. stage = "parsed" /\ event' = event /\ values' = values /\ parsed' = parsed
        /\ Sent' = Sent
    BY <1>3 DEF RelayForwards, Sent
  <2>2. CASE stage' = "handled" /\ payload' = payload
    BY <2>1, <2>2 DEF Inv, Past
  <2>3. CASE stage' = "forwarded" /\ payload' = Write(RelayLayout[event], parsed.fields)
    <3>1. event \in Events /\ Fitting(SendLayout[event], values)
          /\ parsed = Parse(event, Sent) /\ parsed.error = "none"
      BY <2>1 DEF Inv, Past
    <3>2. Fitting(RelayLayout[event], parsed.fields)
      BY <3>1, SentIsBytes, ParsedFits DEF Sent
    <3>3. payload' \in Seq(Byte)
      BY <2>3, <3>1, <3>2, LayoutsAssumption, ItemsInPlace
    <3> QED
      BY <2>1, <2>3, <3>1, <3>3 DEF Inv, Past
  <2> QED
    BY <1>3, <2>2, <2>3 DEF RelayForwards
<1>4. CASE PluginReads
  <2>1. stage = "forwarded" /\ event' = event /\ values' = values /\ payload' = payload
        /\ parsed' = parsed /\ Sent' = Sent
        /\ \/ stage' = "handled"
           \/ stage' = "read" /\ event \in DOMAIN ReadLayout /\ read' = PluginRead(event, payload)
    BY <1>4 DEF PluginReads, Sent
  <2> QED
    BY <2>1 DEF Inv, Past
<1>5. CASE Reset
  BY <1>5, NothingIsBytes DEF Inv, Reset, Past
<1>6. CASE UNCHANGED vars
  BY <1>6 DEF Inv, vars, Past, Sent
<1> QED
  BY <1>1, <1>2, <1>3, <1>4, <1>5, <1>6 DEF Next

THEOREM StagesHold == Spec => []Inv
BY InitInv, NextInv, PTL DEF Spec

-----------------------------------------------------------------------------
(***************************************************************************)
(* The properties.                                                         *)
(***************************************************************************)
\* Every packet has its type and its stage, and no packet that a plugin sends
\* makes the relay read past its end: the counts of the remaining bytes in
\* events.rs, though some ask for fewer bytes than the fields behind them have,
\* are enough for what the plugin of this repository sends.
THEOREM TypeCorrect == Spec => []TypeOK
<1>1. Inv => TypeOK
  <2> SUFFICES ASSUME Inv PROVE TypeOK
    OBVIOUS
  <2>1. Past => parsed.error \in {"none", "malformed", "parse"}
    BY NoPanic DEF Inv, Past, Sent
  <2>2. ~Past => parsed.error = "unread"
    BY DEF Inv, Unread
  <2>3. stage \in {"idle", "sent"} <=> ~Past
    BY DEF Inv, Past
  <2>4. \A i \in DOMAIN payload : payload[i] \in Byte
    BY LenProperties, ElementOfSeq DEF Inv
  <2>5. event \in Events \cup {"none"}
    BY DEF Inv
  <2> QED
    BY <2>1, <2>2, <2>3, <2>4, <2>5 DEF TypeOK, Inv, Past
<1> QED
  BY <1>1, StagesHold, PTL

\* The relay understands exactly the events whose layouts agree: it reads from
\* each of their packets the values that were sent, and from no packet of
\* another event.
THEOREM AgreedUnderstood == Spec => []Understood
<1>1. Inv => Understood
  <2> SUFFICES ASSUME Inv, Past PROVE (parsed.error = "none" /\ parsed.fields = values) <=> event \in Agreed
    BY DEF Inv, Understood, Past
  <2>1. event \in Events /\ Fitting(SendLayout[event], values) /\ parsed = Parse(event, Sent)
    BY DEF Inv, Past
  <2>2. CASE event \in Agreed
    BY <2>1, <2>2, AgreedParses DEF Sent
  <2>3. CASE event \notin Agreed
    <3> SUFFICES ASSUME parsed.error = "none" PROVE parsed.fields # values
      BY <2>3
    <3>1. Differs(event)
      BY <2>1, <2>3, LayoutsAssumption
    <3>2. Fitting(RelayLayout[event], parsed.fields)
      BY <2>1, SentIsBytes, ParsedFits DEF Sent
    <3> QED
      BY <2>1, <3>1, <3>2, OthersDiffer
  <2> QED
    BY <2>2, <2>3
<1> QED
  BY <1>1, StagesHold, PTL

\* Of an event whose layouts agree, the plugin of the other server reads each
\* field as it was sent, after the relay has parsed and written it again.
THEOREM ValuesArrive == Spec => []Arrives
<1>1. Inv => Arrives
  <2> SUFFICES ASSUME Inv, stage = "read", event \in Agreed
               PROVE  \A i \in DOMAIN read : i \in DOMAIN values /\ read[i] = values[i]
    BY DEF Arrives
  <2>1. /\ event \in Events /\ event \in DOMAIN ReadLayout
        /\ Fitting(SendLayout[event], values) /\ parsed = Parse(event, Sent)
        /\ parsed.error = "none" /\ payload = Write(RelayLayout[event], parsed.fields)
        /\ read = PluginRead(event, payload)
    BY DEF Inv, Past
  <2>2. parsed.fields = values
    BY <2>1, AgreedParses DEF Sent
  <2>3. Fitting(RelayLayout[event], values)
    BY <2>1, <2>2, SentIsBytes, ParsedFits DEF Sent
  <2> QED
    BY <2>1, <2>2, <2>3, ArrivesAsSent
<1> QED
  BY <1>1, StagesHold, PTL
=============================================================================
