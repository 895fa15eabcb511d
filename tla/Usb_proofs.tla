------------------------------ MODULE Usb_proofs ------------------------------
(***************************************************************************)
(* Proofs about the two ways over USB: the endpoints of the native port    *)
(* (module UsbSerial), for every size and number of banks, and the ring of *)
(* the bridge on the other chip (module Bridge), for every size of the     *)
(* ring that its count can hold.                                           *)
(***************************************************************************)
EXTENDS UsbSerial, Bridge, SequenceTheorems, WellFoundedInduction, TLAPS

-----------------------------------------------------------------------------
(* Induction, from the fact that a set of naturals has a least element.    *)

LEMMA NatLeast ==
  ASSUME NEW T \in SUBSET Nat, T # {}
  PROVE  \E x \in T : \A y \in T : x <= y
<1> DEFINE R == {ss \in Nat \X Nat : ss[1] < ss[2]}
<1>1. IsWellFoundedOn(OpToRel(<, Nat), Nat)
  BY NatLessThanWellFounded, Zenon
<1>2. OpToRel(<, Nat) = R
  BY Zenon DEF OpToRel
<1>3. IsWellFoundedOn(R, Nat)
  BY <1>1, <1>2, Zenon
<1>4. PICK x \in T : \A y \in T : ~ (<<y, x>> \in R)
  <2> HIDE DEF R
  <2>. QED
    BY <1>3, WFMin
<1>5. \A y \in T : x <= y
  <2> SUFFICES ASSUME NEW y \in T PROVE x <= y
    OBVIOUS
  <2>1. x \in Nat /\ y \in Nat /\ <<y, x>> \notin R
    BY <1>4
  <2>. QED
    BY <2>1
<1>. QED
  BY <1>5

LEMMA Induction ==
  ASSUME NEW T, 0 \in T, \A k \in Nat : k \in T => k + 1 \in T
  PROVE  \A k \in Nat : k \in T
<1> SUFFICES ASSUME Nat \ T # {} PROVE FALSE
  OBVIOUS
<1>1. PICK x \in Nat \ T : \A y \in Nat \ T : x <= y
  <2> DEFINE U == Nat \ T
  <2>1. U \in SUBSET Nat /\ U # {}
    OBVIOUS
  <2> HIDE DEF U
  <2>2. \E x \in U : \A y \in U : x <= y
    BY <2>1, NatLeast
  <2>. QED
    BY <2>2 DEF U
<1>2. x \in Nat /\ x # 0 /\ x - 1 \in Nat
  BY <1>1
<1>3. x - 1 \in T
  BY <1>1, <1>2
<1>4. (x - 1) + 1 \in T
  BY <1>2, <1>3
<1>. QED
  BY <1>1, <1>2, <1>4

-----------------------------------------------------------------------------
(* FlattenSeq(): what its recursive function is.                           *)

Flattens(f, s) ==
  f = [i \in 1 .. Len(s) |-> IF i = 1 THEN s[i] ELSE f[i - 1] \o s[i]]

LEMMA FlattenForm ==
  ASSUME NEW s, Len(s) # 0
  PROVE  FlattenSeq(s) = (CHOOSE f : Flattens(f, s))[Len(s)]
BY DEF FlattenSeq, Flattens

\* The same function as far as k packets.
Joins(f, s, k) ==
  f = [i \in 1 .. k |-> IF i = 1 THEN s[i] ELSE f[i - 1] \o s[i]]

LEMMA JoinsAt ==
  ASSUME NEW f, NEW s, NEW k, Joins(f, s, k), NEW i \in 1 .. k
  PROVE  f[i] = IF i = 1 THEN s[i] ELSE f[i - 1] \o s[i]
<1>. DEFINE e(j) == IF j = 1 THEN s[j] ELSE f[j - 1] \o s[j]
<1>1. f = [j \in 1 .. k |-> e(j)]
  BY DEF Joins
<1>2. f[i] = e(i)
  <2>. HIDE DEF e
  <2>. QED
    BY <1>1
<1>. QED
  BY <1>2

LEMMA AppendShape ==
  ASSUME NEW X, NEW s \in Seq(X), NEW x \in X
  PROVE  /\ Append(s, x) \in Seq(X) /\ Append(s, x) # <<>>
         /\ Len(s) \in Nat /\ Len(Append(s, x)) = Len(s) + 1
         /\ Append(s, x)[Len(s) + 1] = x
         /\ \A i \in 1 .. Len(s) : Append(s, x)[i] = s[i]
OBVIOUS

LEMMA SingleShape ==
  ASSUME NEW X, NEW s \in Seq(X), Len(s) = 1
  PROVE  Head(s) \in X /\ Tail(s) = <<>> /\ s = Append(<<>>, Head(s))
<1>1. s # <<>> /\ Head(s) = s[1] /\ s[1] \in X
  <2>1. s # <<>>
    BY EmptySeq
  <2>2. 1 \in 1 .. Len(s)
    OBVIOUS
  <2>3. s[1] \in X
    BY <2>2, ElementOfSeq
  <2>. QED
    BY <2>1, <2>3
<1>2. Tail(s) \in Seq(X) /\ Len(Tail(s)) = 0
  BY <1>1, HeadTailProperties
<1>3. Tail(s) = <<>>
  BY <1>2, EmptySeq
<1>4. s = Append(<<>>, s[1])
  BY <1>1
<1>. QED
  BY <1>1, <1>3, <1>4

\* Every sequence of j + 2 elements is one of j + 1 and a last element.
Splits(X, j) ==
  \A s \in Seq(X) : Len(s) = j + 2 =>
    \E u \in Seq(X), x \in X :
      /\ Len(u) = j + 1 /\ u # <<>> /\ s = Append(u, x)
      /\ Head(s) = Head(u) /\ Tail(s) = Append(Tail(u), x)

LEMMA LastShape == \A X : \A j \in Nat : Splits(X, j)
<1>. SUFFICES ASSUME NEW X, NEW j \in Nat, NEW s \in Seq(X), Len(s) = j + 2
              PROVE  \E u \in Seq(X), x \in X :
                       /\ Len(u) = j + 1 /\ u # <<>> /\ s = Append(u, x)
                       /\ Head(s) = Head(u) /\ Tail(s) = Append(Tail(u), x)
  BY DEF Splits
<1>. DEFINE u == [i \in 1 .. j + 1 |-> s[i]]
            x == s[j + 2]
<1>1. u \in Seq(X) /\ Len(u) = j + 1 /\ u # <<>> /\ x \in X
  OBVIOUS
<1>2. s = Append(u, x)
  OBVIOUS
<1>3. Head(s) = Head(u)
  OBVIOUS
<1>4. Tail(s) = Append(Tail(u), x)
  <2>1. /\ Tail(s) \in Seq(X) /\ Len(Tail(s)) = j + 1
        /\ \A i \in 1 .. j + 1 : Tail(s)[i] = s[i + 1]
    BY HeadTailProperties
  <2>2. /\ Tail(u) \in Seq(X) /\ Len(Tail(u)) = j
        /\ \A i \in 1 .. j : Tail(u)[i] = u[i + 1]
    <3>. HIDE DEF u
    <3>1. /\ Tail(u) \in Seq(X) /\ Len(Tail(u)) = Len(u) - 1
          /\ \A i \in 1 .. Len(Tail(u)) : Tail(u)[i] = u[i + 1]
      BY <1>1, HeadTailProperties
    <3>2. Len(u) - 1 = j
      BY <1>1
    <3>. QED
      BY <3>1, <3>2
  <2>3. \A i \in 1 .. j : u[i + 1] = s[i + 1]
    OBVIOUS
  <2>4. (j + 1) + 1 = j + 2
    OBVIOUS
  <2>. HIDE DEF u, x
  <2>5. /\ Append(Tail(u), x) \in Seq(X) /\ Len(Append(Tail(u), x)) = j + 1
        /\ \A i \in 1 .. j : Append(Tail(u), x)[i] = Tail(u)[i]
        /\ Append(Tail(u), x)[j + 1] = x
    BY <1>1, <2>2, AppendShape
  <2>6. \A i \in 1 .. j + 1 : Tail(s)[i] = Append(Tail(u), x)[i]
    <3>1. \A i \in 1 .. j : Tail(s)[i] = Append(Tail(u), x)[i]
      BY <2>1, <2>2, <2>3, <2>5
    <3>2. Tail(s)[j + 1] = x
      BY <2>1, <2>4 DEF x
    <3>. QED
      BY <2>5, <3>1, <3>2
  <2>. QED
    BY <2>1, <2>5, <2>6, SeqEqual
<1>. QED
  BY <1>1, <1>2, <1>3, <1>4

LEMMA JoinsExist ==
  ASSUME NEW s, NEW k \in Nat
  PROVE  \E f : Joins(f, s, k)
<1>. DEFINE T == {j \in Nat : \E f : Joins(f, s, j)}
<1>1. 0 \in T
  <2>. DEFINE g == [i \in 1 .. 0 |-> s[i]]
  <2>1. Joins(g, s, 0)
    BY DEF Joins
  <2>. QED
    BY <2>1
<1>2. ASSUME NEW j \in Nat, j \in T PROVE j + 1 \in T
  <2>1. PICK f : Joins(f, s, j)
    BY <1>2
  <2>. DEFINE g == [i \in 1 .. j + 1 |->
                      IF i = j + 1 THEN IF i = 1 THEN s[i] ELSE f[j] \o s[i]
                                   ELSE f[i]]
  <2>2. \A i \in 1 .. j + 1 :
          g[i] = IF i = 1 THEN s[i] ELSE g[i - 1] \o s[i]
    <3>. SUFFICES ASSUME NEW i \in 1 .. j + 1
                  PROVE  g[i] = IF i = 1 THEN s[i] ELSE g[i - 1] \o s[i]
      OBVIOUS
    <3>1. CASE i = j + 1
      <4>1. i # 1 => g[i - 1] = f[j]
        BY <3>1
      <4>. QED
        BY <3>1, <4>1
    <3>2. CASE i # j + 1
      <4>1. i \in 1 .. j /\ g[i] = f[i] /\ (i # 1 => g[i - 1] = f[i - 1])
        BY <3>2
      <4>2. f[i] = IF i = 1 THEN s[i] ELSE f[i - 1] \o s[i]
        BY <2>1, <4>1, JoinsAt
      <4>. QED
        BY <4>1, <4>2
    <3>. QED
      BY <3>1, <3>2
  <2>3. g = [i \in 1 .. j + 1 |-> g[i]]
    OBVIOUS
  <2>4. Joins(g, s, j + 1)
    <3>. HIDE DEF g
    <3>. QED
      BY <2>2, <2>3 DEF Joins
  <2>. QED
    BY <2>4
<1>. HIDE DEF T
<1>3. \A j \in Nat : j \in T
  BY <1>1, <1>2, Induction
<1>. QED
  BY <1>3 DEF T

LEMMA JoinsAgree ==
  ASSUME NEW s, NEW t, NEW k \in Nat, NEW m \in Nat, k <= m,
         \A i \in 1 .. k : s[i] = t[i]
  PROVE  \A f, g : Joins(f, s, k) /\ Joins(g, t, m)
                      => \A i \in 1 .. k : f[i] = g[i]
<1>. SUFFICES ASSUME NEW f, NEW g, Joins(f, s, k), Joins(g, t, m)
              PROVE  \A i \in 1 .. k : f[i] = g[i]
  OBVIOUS
<1>. DEFINE T == {j \in Nat : j \in 1 .. k => f[j] = g[j]}
<1>1. 0 \in T
  OBVIOUS
<1>2. ASSUME NEW j \in Nat, j \in T PROVE j + 1 \in T
  <2>. SUFFICES ASSUME j + 1 \in 1 .. k PROVE f[j + 1] = g[j + 1]
    OBVIOUS
  <2>1. f[j + 1] = IF j + 1 = 1 THEN s[j + 1] ELSE f[(j + 1) - 1] \o s[j + 1]
    BY JoinsAt
  <2>2. j + 1 \in 1 .. m
    OBVIOUS
  <2>3. g[j + 1] = IF j + 1 = 1 THEN t[j + 1] ELSE g[(j + 1) - 1] \o t[j + 1]
    BY <2>2, JoinsAt
  <2>4. (j + 1) - 1 = j /\ (j + 1 # 1 => f[j] = g[j])
    BY <1>2
  <2>. QED
    BY <2>1, <2>3, <2>4
<1>. HIDE DEF T
<1>3. \A j \in Nat : j \in T
  BY <1>1, <1>2, Induction
<1>. QED
  BY <1>3 DEF T

\* A sequence of sequences is joined into a sequence.
LEMMA JoinsType ==
  ASSUME NEW S, NEW s \in Seq(Seq(S)), NEW f, Joins(f, s, Len(s))
  PROVE  \A i \in 1 .. Len(s) : f[i] \in Seq(S)
<1>. DEFINE T == {j \in Nat : j \in 1 .. Len(s) => f[j] \in Seq(S)}
<1>1. 0 \in T
  OBVIOUS
<1>2. ASSUME NEW j \in Nat, j \in T PROVE j + 1 \in T
  <2>. SUFFICES ASSUME j + 1 \in 1 .. Len(s) PROVE f[j + 1] \in Seq(S)
    OBVIOUS
  <2>1. f[j + 1] = IF j + 1 = 1 THEN s[j + 1] ELSE f[(j + 1) - 1] \o s[j + 1]
    BY JoinsAt
  <2>2. s[j + 1] \in Seq(S)
    BY ElementOfSeq
  <2>3. (j + 1) - 1 = j /\ (j + 1 # 1 => f[j] \in Seq(S))
    BY <1>2
  <2>. QED
    BY <2>1, <2>2, <2>3, ConcatProperties
<1>. HIDE DEF T
<1>3. \A j \in Nat : j \in T
  BY <1>1, <1>2, Induction
<1>. QED
  BY <1>3 DEF T

LEMMA FlattenJoins ==
  ASSUME NEW S, NEW s \in Seq(Seq(S)), s # <<>>
  PROVE  \E f : Joins(f, s, Len(s)) /\ FlattenSeq(s) = f[Len(s)]
<1>1. Len(s) \in Nat /\ Len(s) # 0
  OBVIOUS
<1>. DEFINE f == CHOOSE g : Flattens(g, s)
<1>2. \E g : Flattens(g, s)
  BY <1>1, JoinsExist DEF Joins, Flattens
<1>3. Flattens(f, s)
  BY <1>2, Zenon
<1>4. FlattenSeq(s) = f[Len(s)]
  BY <1>1, FlattenForm, Zenon
<1>. HIDE DEF f
<1>5. Joins(f, s, Len(s))
  BY <1>3 DEF Joins, Flattens
<1>. QED
  BY <1>4, <1>5

LEMMA FlattenEmpty == FlattenSeq(<<>>) = <<>>
BY DEF FlattenSeq

LEMMA FlattenType ==
  ASSUME NEW S, NEW s \in Seq(Seq(S))
  PROVE  FlattenSeq(s) \in Seq(S)
<1>1. CASE s = <<>>
  <2>1. <<>> \in Seq(S)
    OBVIOUS
  <2>. QED
    BY <1>1, <2>1, FlattenEmpty
<1>2. CASE s # <<>>
  <2>1. PICK f : Joins(f, s, Len(s)) /\ FlattenSeq(s) = f[Len(s)]
    BY <1>2, FlattenJoins
  <2>2. Len(s) \in 1 .. Len(s)
    BY <1>2
  <2>3. f[Len(s)] \in Seq(S)
    BY <2>1, <2>2, JoinsType
  <2>. QED
    BY <2>1, <2>3
<1>. QED
  BY <1>1, <1>2

LEMMA FlattenAppend ==
  ASSUME NEW S, NEW s \in Seq(Seq(S)), NEW x \in Seq(S)
  PROVE  FlattenSeq(Append(s, x)) = FlattenSeq(s) \o x
<1>. DEFINE t == Append(s, x)
            k == Len(s)
<1>1. /\ t \in Seq(Seq(S)) /\ Len(t) = k + 1 /\ k \in Nat /\ t # <<>>
      /\ t[k + 1] = x /\ \A i \in 1 .. k : t[i] = s[i]
  BY AppendShape
<1>. HIDE DEF t
<1>2. PICK g : Joins(g, t, Len(t)) /\ FlattenSeq(t) = g[Len(t)]
  BY <1>1, FlattenJoins
<1>3. g[k + 1] = IF k + 1 = 1 THEN x ELSE g[k] \o x
  <2>. HIDE DEF k
  <2>1. k + 1 \in 1 .. Len(t) /\ (k + 1) - 1 = k
    BY <1>1
  <2>. QED
    BY <1>1, <1>2, <2>1, JoinsAt
<1>4. CASE s = <<>>
  <2>1. k = 0 /\ <<>> \o x = x
    BY <1>4, ConcatEmptySeq
  <2>2. FlattenSeq(t) = x /\ FlattenSeq(s) = <<>>
    BY <1>1, <1>2, <1>3, <1>4, <2>1, FlattenEmpty
  <2>. QED
    BY <2>1, <2>2 DEF t
<1>5. CASE s # <<>>
  <2>1. PICK f : Joins(f, s, k) /\ FlattenSeq(s) = f[k]
    BY <1>5, FlattenJoins
  <2>2. k \in 1 .. k /\ k + 1 # 1
    BY <1>5
  <2>. HIDE DEF k
  <2>3. k <= k + 1 /\ k + 1 \in Nat /\ Joins(g, t, k + 1)
    BY <1>1, <1>2
  <2>4. \A i \in 1 .. k : f[i] = g[i]
    <3>1. k \in Nat /\ \A i \in 1 .. k : s[i] = t[i]
      BY <1>1
    <3>2. \A ff, gg : Joins(ff, s, k) /\ Joins(gg, t, k + 1)
                        => \A i \in 1 .. k : ff[i] = gg[i]
      BY <2>3, <3>1, JoinsAgree
    <3>. QED
      BY <2>1, <2>3, <3>2, Zenon
  <2>5. FlattenSeq(t) = FlattenSeq(s) \o x
    BY <1>1, <1>2, <1>3, <2>1, <2>2, <2>4
  <2>. QED
    BY <2>5 DEF t
<1>. QED
  BY <1>4, <1>5

Associates(S) == \A t, u, v \in Seq(S) : (t \o u) \o v = t \o (u \o v)

LEMMA Associative == \A S : Associates(S)
BY ConcatAssociative DEF Associates

\* A sequence that is its first packet and the others stays so with one more.
Begins(s) == FlattenSeq(s) = Head(s) \o FlattenSeq(Tail(s))
StaysBegun(S) ==
  \A u \in Seq(Seq(S)), x \in Seq(S) :
    u # <<>> /\ Begins(u) =>
      FlattenSeq(Append(u, x)) = Head(u) \o FlattenSeq(Append(Tail(u), x))

LEMMA FlattenAppended == \A S : StaysBegun(S)
<1>. SUFFICES
       ASSUME NEW S, NEW u, NEW x, u \in Seq(Seq(S)), u # <<>>, x \in Seq(S),
              FlattenSeq(u) = Head(u) \o FlattenSeq(Tail(u))
       PROVE  FlattenSeq(Append(u, x))
                = Head(u) \o FlattenSeq(Append(Tail(u), x))
  BY DEF Begins, StaysBegun
<1>. DEFINE h == Head(u)
            r == Tail(u)
            b == FlattenSeq(r)
<1>1. h \in Seq(S) /\ r \in Seq(Seq(S))
  BY HeadTailProperties
<1>2. FlattenSeq(Append(u, x)) = (h \o b) \o x
  BY FlattenAppend
<1>. HIDE DEF h, r
<1>3. b \in Seq(S)
  BY <1>1, FlattenType
<1>4. FlattenSeq(Append(r, x)) = b \o x
  BY <1>1, FlattenAppend
<1>5. (h \o b) \o x = h \o (b \o x)
  <2>. HIDE DEF b
  <2>1. h \in Seq(S)
    BY <1>1
  <2>2. b \in Seq(S)
    BY <1>3
  <2>3. x \in Seq(S)
    OBVIOUS
  <2>4. Associates(S)
    BY Associative, Zenon
  <2>. QED
    BY <2>1, <2>2, <2>3, <2>4 DEF Associates
<1>. QED
  BY <1>2, <1>4, <1>5 DEF h, r

LEMMA FlattenHead ==
  ASSUME NEW S, NEW s, s \in Seq(Seq(S)), s # <<>>
  PROVE  FlattenSeq(s) = Head(s) \o FlattenSeq(Tail(s))
<1>. DEFINE
       T == {j \in Nat : \A t \in Seq(Seq(S)) : Len(t) = j + 1 => Begins(t)}
<1>1. 0 \in T
  <2>. SUFFICES ASSUME NEW t \in Seq(Seq(S)), Len(t) = 1 PROVE Begins(t)
    OBVIOUS
  <2>1. Head(t) \in Seq(S) /\ Tail(t) = <<>> /\ t = Append(<<>>, Head(t))
    BY SingleShape
  <2>2. <<>> \in Seq(Seq(S))
    BY EmptySeq
  <2>3. FlattenSeq(t) = <<>> \o Head(t)
    BY <2>1, <2>2, FlattenAppend, FlattenEmpty
  <2>4. <<>> \o Head(t) = Head(t) \o <<>>
    BY <2>1, ConcatEmptySeq
  <2>. QED
    BY <2>1, <2>3, <2>4, FlattenEmpty DEF Begins
<1>2. ASSUME NEW j \in Nat, j \in T PROVE j + 1 \in T
  <2>0. Splits(Seq(S), j)
    BY LastShape, Zenon
  <2>. SUFFICES ASSUME NEW t \in Seq(Seq(S)), Len(t) = j + 2 PROVE Begins(t)
    OBVIOUS
  <2>1. PICK u \in Seq(Seq(S)), x \in Seq(S) :
          /\ Len(u) = j + 1 /\ u # <<>> /\ t = Append(u, x)
          /\ Head(t) = Head(u) /\ Tail(t) = Append(Tail(u), x)
    BY <2>0 DEF Splits
  <2>2. Begins(u)
    BY <1>2, <2>1
  <2>3. FlattenSeq(Append(u, x)) = Head(u) \o FlattenSeq(Append(Tail(u), x))
    <3>1. StaysBegun(S)
      BY FlattenAppended, Zenon
    <3>. QED
      BY <2>1, <2>2, <3>1 DEF StaysBegun
  <2>. QED
    BY <2>1, <2>3 DEF Begins
<1>3. \A j \in Nat : j \in T
  <2>. HIDE DEF T
  <2>. QED
    BY <1>1, <1>2, Induction
<1>4. Len(s) - 1 \in Nat /\ Len(s) = (Len(s) - 1) + 1
  OBVIOUS
<1>. QED
  BY <1>3, <1>4 DEF Begins

-----------------------------------------------------------------------------
(* The inductive invariant.                                                *)

Byte == 0 .. M - 1
Bytes == Seq(Byte)
Packets == Seq(Bytes)

\* The bytes of s are those numbered from a up to z, z not included.
Runs(s, a, z) == s = From(a, Len(s)) /\ z = Plus(a, Len(s))

BankTypes ==
  /\ TypeOK
  /\ fill \in Bytes /\ queue \in Packets /\ outBanks \in Packets
  /\ {open, ended, sendZlp, stale} \subseteq BOOLEAN

\* A call of USB_Send() copies no more than the space it found, the bank only
\* emptied since, and no more than it has left; it has nothing left just when
\* the empty packet is all there is to send.
CopyInv ==
  /\ pc \in {"send", "space", "delay", "copy"} =>
       ~ended /\ IF sendZlp THEN len = 0 ELSE len >= 1
  /\ pc \notin {"space", "delay", "copy"} => ~sendZlp
  /\ pc = "copy" =>
       /\ n <= EpSize - Len(fill) /\ n <= len
       /\ ~sendZlp => n >= 1

FlightInv == Runs(FlattenSeq(queue) \o fill, seen, written)

\* What the host gets last, when nothing more is sent, is not a full packet.
EndsShort(q, f, o) ==
  IF f # <<>> THEN Len(f) < EpSize
  ELSE IF q # <<>> THEN Len(q[Len(q)]) < EpSize ELSE ~o

LastInv == ended => EndsShort(queue, fill, open)

ReceiveInv ==
  /\ Runs(FlattenSeq(outBanks), taken, hostSent)
  /\ peek_buffer >= 0 /\ ~stale => taken = Plus(peek_buffer, 1)
  /\ \A i \in 1 .. Len(outBanks) : outBanks[i] # <<>>

SerialInv == BankTypes /\ CopyInv /\ FlightInv /\ LastInv /\ ReceiveInv

-----------------------------------------------------------------------------
(* Bytes in order.                                                         *)

LEMMA Quotient ==
  ASSUME NEW z \in Nat \ {0}, NEW x \in Nat
  PROVE  /\ x % z \in 0 .. z - 1 /\ x \div z \in Nat
         /\ x = z * (x \div z) + (x % z)
  OBVIOUS

LEMMA Remainder ==
  ASSUME NEW z \in Nat \ {0}, NEW q \in Int, NEW r \in 0 .. z - 1
  PROVE  (z * q + r) % z = r
  OBVIOUS

LEMMA RemainderSum ==
  ASSUME NEW z \in Nat \ {0}, NEW a \in Nat, NEW b \in Nat
  PROVE  ((a % z) + b) % z = (a + b) % z
<1>. DEFINE q == a \div z
            r == a % z
<1>1. q \in Nat /\ r \in 0 .. z - 1 /\ a = z * q + r
  BY Quotient
<1>. HIDE DEF q, r
<1>. DEFINE p == (r + b) \div z
            s == (r + b) % z
<1>2. p \in Nat /\ s \in 0 .. z - 1 /\ r + b = z * p + s
  <2>1. r + b \in Nat
    BY <1>1
  <2>. QED
    BY <2>1, Quotient
<1>. HIDE DEF p
<1>3. a + b = z * (q + p) + s /\ q + p \in Int
  <2>. HIDE DEF s
  <2>. QED
    BY <1>1, <1>2
<1>4. (z * (q + p) + s) % z = s
  <2>. HIDE DEF s
  <2>. QED
    BY <1>2, <1>3, Remainder
<1>5. (r + b) % z = (a + b) % z
  BY <1>3, <1>4
<1>. QED
  BY <1>5 DEF r

LEMMA Sizes ==
  /\ EpSize \in Nat \ {0} /\ Banks \in Nat \ {0} /\ MaxSize \in Nat \ {0}
  /\ Tries \in Nat \ {0} /\ M \in Nat \ {0}
<1>1. /\ EpSize \in Nat \ {0} /\ Banks \in Nat \ {0} /\ MaxSize \in Nat \ {0}
      /\ Tries \in Nat \ {0}
  BY UsbAssumption
<1>2. Banks * EpSize \in Nat
  BY <1>1
<1>. QED
  BY <1>1, <1>2 DEF M

LEMMA PlusForm ==
  ASSUME NEW b \in Byte, NEW j \in Nat, NEW k \in Nat
  PROVE  /\ Plus(b, j) \in Byte /\ Plus(b, 0) = b
         /\ Plus(Plus(b, j), k) = Plus(b, j + k)
<1>1. M \in Nat \ {0} /\ b \in Nat /\ b \in 0 .. M - 1 /\ b + j \in Nat
  BY Sizes DEF Byte
<1>2. Plus(b, j) \in Byte
  BY <1>1, Quotient DEF Plus, Byte
<1>3. Plus(b, 0) = b
  <2>1. b + 0 = M * 0 + b
    BY <1>1
  <2>2. (M * 0 + b) % M = b
    BY <1>1, Remainder
  <2>. QED
    BY <2>1, <2>2 DEF Plus
<1>4. (((b + j) % M) + k) % M = ((b + j) + k) % M
  BY <1>1, RemainderSum
<1>5. (b + j) + k = b + (j + k)
  BY <1>1
<1>. QED
  BY <1>2, <1>3, <1>4, <1>5 DEF Plus

LEMMA FromForm ==
  ASSUME NEW b \in Byte, NEW k \in Nat
  PROVE  /\ From(b, k) \in Bytes /\ Len(From(b, k)) = k
         /\ \A i \in 1 .. k : From(b, k)[i] = Plus(b, i - 1)
<1>1. \A i \in 1 .. k : i - 1 \in Nat
  OBVIOUS
<1>2. \A i \in 1 .. k : Plus(b, i - 1) \in Byte
  BY <1>1, PlusForm
<1>. QED
  BY <1>2 DEF From, Bytes

LEMMA Joined ==
  ASSUME NEW s \in Bytes, NEW t \in Bytes
  PROVE  /\ s \o t \in Bytes /\ Len(s) \in Nat /\ Len(t) \in Nat
         /\ Len(s \o t) = Len(s) + Len(t)
         /\ \A i \in 1 .. Len(s) : (s \o t)[i] = s[i]
         /\ \A i \in 1 .. Len(t) : (s \o t)[Len(s) + i] = t[i]
<1>1. s \o t \in Bytes
  BY ConcatProperties DEF Bytes
<1>2. Len(s) \in Nat /\ Len(t) \in Nat
  BY DEF Bytes
<1>3. /\ Len(s \o t) = Len(s) + Len(t)
      /\ \A i \in 1 .. Len(s) + Len(t) :
           (s \o t)[i] = IF i <= Len(s) THEN s[i] ELSE t[i - Len(s)]
  BY ConcatProperties DEF Bytes
<1>4. \A i \in 1 .. Len(s) : (s \o t)[i] = s[i]
  BY <1>2, <1>3
<1>5. \A i \in 1 .. Len(t) : (s \o t)[Len(s) + i] = t[i]
  <2>. SUFFICES ASSUME NEW i \in 1 .. Len(t)
                PROVE  (s \o t)[Len(s) + i] = t[i]
    OBVIOUS
  <2>1. /\ Len(s) + i \in 1 .. Len(s) + Len(t) /\ ~ (Len(s) + i <= Len(s))
        /\ (Len(s) + i) - Len(s) = i
    BY <1>2
  <2>. QED
    BY <1>3, <2>1
<1>. QED
  BY <1>1, <1>2, <1>3, <1>4, <1>5

\* A sequence of bytes is in order if each is in its place.
LEMMA InOrder ==
  ASSUME NEW s \in Bytes, NEW b \in Byte
  PROVE  s = From(b, Len(s)) <=> \A i \in 1 .. Len(s) : s[i] = Plus(b, i - 1)
<1>1. Len(s) \in Nat /\ s = [i \in 1 .. Len(s) |-> s[i]]
  BY DEF Bytes
<1>2. From(b, Len(s)) = [i \in 1 .. Len(s) |-> Plus(b, i - 1)]
  BY DEF From
<1>. QED
  BY <1>1, <1>2

LEMMA RunsJoin ==
  ASSUME NEW s \in Bytes, NEW t \in Bytes, NEW a \in Byte, NEW b \in Byte,
         NEW c, Runs(s, a, b), Runs(t, b, c)
  PROVE  Runs(s \o t, a, c)
<1>1. Len(s) \in Nat /\ Len(t) \in Nat /\ s \o t \in Bytes
      /\ Len(s \o t) = Len(s) + Len(t)
  BY Joined
<1>2. c = Plus(a, Len(s) + Len(t))
  BY <1>1, PlusForm DEF Runs
<1>3. \A i \in 1 .. Len(s \o t) : (s \o t)[i] = Plus(a, i - 1)
  <2>. SUFFICES ASSUME NEW i \in 1 .. Len(s \o t)
                PROVE  (s \o t)[i] = Plus(a, i - 1)
    OBVIOUS
  <2>1. CASE i <= Len(s)
    <3>1. i \in 1 .. Len(s)
      BY <1>1, <2>1
    <3>2. s[i] = Plus(a, i - 1)
      BY <3>1, InOrder DEF Runs
    <3>. QED
      BY <3>1, <3>2, Joined
  <2>2. CASE ~ (i <= Len(s))
    <3>. DEFINE j == i - Len(s)
    <3>1. /\ j \in 1 .. Len(t) /\ i = Len(s) + j /\ j - 1 \in Nat
          /\ Len(s) + (j - 1) = i - 1
      BY <1>1, <2>2
    <3>. HIDE DEF j
    <3>2. t[j] = Plus(b, j - 1)
      BY <3>1, InOrder DEF Runs
    <3>3. Plus(Plus(a, Len(s)), j - 1) = Plus(a, i - 1)
      BY <1>1, <3>1, PlusForm
    <3>4. (s \o t)[i] = t[j]
      BY <3>1, Joined
    <3>. QED
      BY <3>2, <3>3, <3>4 DEF Runs
  <2>. QED
    BY <2>1, <2>2
<1>. QED
  BY <1>1, <1>2, <1>3, InOrder DEF Runs

LEMMA RunsSplit ==
  ASSUME NEW s \in Bytes, NEW t \in Bytes, NEW a \in Byte, NEW c,
         Runs(s \o t, a, c)
  PROVE  Runs(s, a, Plus(a, Len(s))) /\ Runs(t, Plus(a, Len(s)), c)
<1>. DEFINE b == Plus(a, Len(s))
<1>1. Len(s) \in Nat /\ Len(t) \in Nat /\ s \o t \in Bytes
      /\ Len(s \o t) = Len(s) + Len(t)
  BY Joined
<1>2. b \in Byte /\ c = Plus(b, Len(t))
  BY <1>1, PlusForm DEF Runs
<1>3. \A i \in 1 .. Len(s) + Len(t) : (s \o t)[i] = Plus(a, i - 1)
  BY <1>1, InOrder DEF Runs
<1>4. \A i \in 1 .. Len(s) : s[i] = Plus(a, i - 1)
  <2>. SUFFICES ASSUME NEW i \in 1 .. Len(s) PROVE s[i] = Plus(a, i - 1)
    OBVIOUS
  <2>1. (s \o t)[i] = s[i]
    BY Joined
  <2>2. i \in 1 .. Len(s) + Len(t)
    BY <1>1
  <2>. QED
    BY <1>3, <2>1, <2>2
<1>5. \A i \in 1 .. Len(t) : t[i] = Plus(b, i - 1)
  <2>. SUFFICES ASSUME NEW i \in 1 .. Len(t) PROVE t[i] = Plus(b, i - 1)
    OBVIOUS
  <2>1. /\ Len(s) + i \in 1 .. Len(s) + Len(t) /\ i - 1 \in Nat
        /\ Len(s) + (i - 1) = (Len(s) + i) - 1
    BY <1>1
  <2>2. (s \o t)[Len(s) + i] = t[i]
    BY Joined
  <2>3. (s \o t)[Len(s) + i] = Plus(a, (Len(s) + i) - 1)
    BY <1>3, <2>1
  <2>4. Plus(b, i - 1) = Plus(a, Len(s) + (i - 1))
    BY <1>1, <2>1, PlusForm
  <2>. QED
    BY <2>1, <2>2, <2>3, <2>4
<1>. QED
  BY <1>2, <1>4, <1>5, InOrder DEF Runs

LEMMA RunsFrom ==
  ASSUME NEW b \in Byte, NEW k \in Nat
  PROVE  Runs(From(b, k), b, Plus(b, k))
BY FromForm DEF Runs

LEMMA RunsNothing ==
  ASSUME NEW b \in Byte
  PROVE  Runs(<<>>, b, b)
<1>1. <<>> \in Bytes /\ Len(<<>>) = 0
  BY DEF Bytes
<1>2. <<>> = From(b, Len(<<>>))
  BY <1>1, InOrder
<1>. QED
  BY <1>1, <1>2, PlusForm DEF Runs

-----------------------------------------------------------------------------
(* What the actions do with the banks.                                     *)

LEMMA BytesFacts ==
  /\ <<>> \in Bytes /\ <<>> \in Packets /\ Len(<<>>) = 0
  /\ \A s \in Bytes : /\ Len(s) \in Nat /\ (s # <<>> <=> Len(s) >= 1)
                      /\ s \o <<>> = s /\ <<>> \o s = s
BY ConcatEmptySeq DEF Bytes, Packets

LEMMA Flat ==
  ASSUME NEW q, q \in Packets
  PROVE  FlattenSeq(q) \in Bytes
BY FlattenType DEF Packets, Bytes

\* Releasing a bank moves its bytes from one place to the other.
LEMMA Released ==
  ASSUME NEW q, q \in Packets, NEW x, x \in Bytes
  PROVE  /\ Append(q, x) \in Packets /\ Len(Append(q, x)) = Len(q) + 1
         /\ Append(q, x) # <<>> /\ Len(q) \in Nat
         /\ Append(q, x)[Len(q) + 1] = x
         /\ \A i \in 1 .. Len(q) : Append(q, x)[i] = q[i]
         /\ FlattenSeq(Append(q, x)) = FlattenSeq(q) \o x
<1>1. /\ Append(q, x) \in Packets /\ Append(q, x) # <<>>
      /\ Len(q) \in Nat /\ Len(Append(q, x)) = Len(q) + 1
      /\ Append(q, x)[Len(q) + 1] = x
      /\ \A i \in 1 .. Len(q) : Append(q, x)[i] = q[i]
  BY AppendShape DEF Packets
<1>2. FlattenSeq(Append(q, x)) = FlattenSeq(q) \o x
  BY FlattenAppend DEF Packets, Bytes
<1>. QED
  BY <1>1, <1>2

\* The first packet, and the others.
LEMMA FirstShape ==
  ASSUME NEW X, NEW s \in Seq(X), s # <<>>
  PROVE  /\ Head(s) \in X /\ Tail(s) \in Seq(X) /\ Head(s) = s[1]
         /\ Len(s) \in Nat /\ Len(s) >= 1 /\ Len(Tail(s)) = Len(s) - 1
         /\ \A i \in 1 .. Len(s) - 1 : Tail(s)[i] = s[i + 1]
<1>1. Len(s) \in Nat /\ Len(s) >= 1
  BY EmptySeq
<1>2. /\ Head(s) \in X /\ Tail(s) \in Seq(X) /\ Len(Tail(s)) = Len(s) - 1
      /\ \A i \in 1 .. Len(Tail(s)) : Tail(s)[i] = s[i + 1]
  BY HeadTailProperties
<1>3. Head(s) = s[1]
  BY <1>1
<1>. QED
  BY <1>1, <1>2, <1>3

LEMMA Taken ==
  ASSUME NEW q, q \in Packets, q # <<>>
  PROVE  /\ Head(q) \in Bytes /\ Tail(q) \in Packets /\ Head(q) = q[1]
         /\ Len(q) \in Nat /\ Len(q) >= 1 /\ Len(Tail(q)) = Len(q) - 1
         /\ \A i \in 1 .. Len(q) - 1 : Tail(q)[i] = q[i + 1]
         /\ FlattenSeq(q) = Head(q) \o FlattenSeq(Tail(q))
<1>1. /\ Head(q) \in Bytes /\ Tail(q) \in Packets /\ Head(q) = q[1]
      /\ Len(q) \in Nat /\ Len(q) >= 1 /\ Len(Tail(q)) = Len(q) - 1
      /\ \A i \in 1 .. Len(q) - 1 : Tail(q)[i] = q[i + 1]
  BY FirstShape DEF Packets
<1>2. FlattenSeq(q) = Head(q) \o FlattenSeq(Tail(q))
  BY FlattenHead DEF Packets, Bytes
<1>. QED
  BY <1>1, <1>2

LEMMA BytesAssociative ==
  ASSUME NEW s \in Bytes, NEW t \in Bytes, NEW u \in Bytes
  PROVE  (s \o t) \o u = s \o (t \o u)
BY ConcatAssociative DEF Bytes

-----------------------------------------------------------------------------
(* Every step keeps the invariant.                                         *)

LEMMA SerialInitial == Init => SerialInv
<1>. SUFFICES ASSUME Init PROVE SerialInv
  OBVIOUS
<1>1. /\ 0 \in Byte /\ 0 \in 0 .. M - 1 /\ -1 \in -1 .. M - 1
      /\ 0 \in 0 .. MaxSize /\ 0 \in 0 .. EpSize /\ 0 \in 0 .. Tries
  BY Sizes DEF Byte
<1>2. BankTypes
  <2>1. <<>> \in Bytes /\ <<>> \in Packets /\ Len(<<>>) = 0
    BY BytesFacts
  <2>2. 0 <= EpSize /\ 0 <= Banks
    BY Sizes
  <2>3. TypeOK
    BY <1>1, <2>1, <2>2 DEF Init, TypeOK
  <2>. QED
    BY <2>1, <2>3 DEF Init, BankTypes
<1>3. CopyInv /\ LastInv
  BY DEF Init, CopyInv, LastInv
<1>4. <<>> \o <<>> = <<>>
  BY BytesFacts
<1>5. FlightInv
  BY <1>1, <1>4, FlattenEmpty, RunsNothing DEF Init, FlightInv
<1>6. ReceiveInv
  BY <1>1, FlattenEmpty, RunsNothing, BytesFacts DEF Init, ReceiveInv
<1>. QED
  BY <1>2, <1>3, <1>5, <1>6 DEF SerialInv

LEMMA FlightStays ==
  ASSUME FlightInv, UNCHANGED in
  PROVE  FlightInv'
BY DEF FlightInv, in

LEMMA ReceiveStays ==
  ASSUME ReceiveInv, UNCHANGED out
  PROVE  ReceiveInv'
BY DEF ReceiveInv, out

LEMMA LastStays ==
  ASSUME LastInv, UNCHANGED in, ended' => ended
  PROVE  LastInv'
BY DEF LastInv, EndsShort, in

LEMMA WriteStep ==
  ASSUME SerialInv, NEW size \in 1 .. MaxSize, Write(size)
  PROVE  SerialInv'
<1>0. BankTypes /\ CopyInv /\ FlightInv /\ LastInv /\ ReceiveInv
  BY DEF SerialInv
<1>1. /\ pc = "idle" /\ UNCHANGED in /\ UNCHANGED out /\ uenum' = uenum
      /\ \/ /\ pc' = "send" /\ len' = size /\ ended' = FALSE
            /\ UNCHANGED <<n, tries, sendZlp>>
         \/ /\ pc' = "idle" /\ len' = 0 /\ n' = 0 /\ tries' = 0
            /\ sendZlp' = FALSE /\ ended' = FALSE
  BY DEF Write, Idle, Return
<1>2. BankTypes'
  <2>1. /\ len \in 0 .. MaxSize /\ n \in 0 .. EpSize /\ tries \in 0 .. Tries
        /\ 0 \in 0 .. MaxSize /\ 0 \in 0 .. EpSize /\ 0 \in 0 .. Tries
        /\ Tries \in 0 .. Tries /\ 1 .. MaxSize \subseteq 0 .. MaxSize
    BY <1>0, Sizes DEF BankTypes, TypeOK
  <2>2. len' \in 0 .. MaxSize /\ n' \in 0 .. EpSize /\ tries' \in 0 .. Tries
    BY <1>1, <2>1
  <2>3. sendZlp' \in BOOLEAN /\ ended' \in BOOLEAN
    BY <1>0, <1>1 DEF BankTypes
  <2>. QED
    BY <1>0, <1>1, <2>2, <2>3 DEF BankTypes, TypeOK, in, out
<1>3. CopyInv'
  BY <1>0, <1>1, Sizes DEF CopyInv
<1>4. LastInv'
  BY <1>1 DEF LastInv
<1>. QED
  BY <1>0, <1>1, <1>2, <1>3, <1>4, FlightStays, ReceiveStays DEF SerialInv

LEMMA SendStep == ASSUME SerialInv, Send PROVE SerialInv'
<1>0. BankTypes /\ CopyInv /\ FlightInv /\ LastInv /\ ReceiveInv
  BY DEF SerialInv
<1>1. /\ pc = "send" /\ UNCHANGED in /\ UNCHANGED out /\ uenum' = uenum
      /\ \/ /\ pc' = "space" /\ tries' = Tries
            /\ UNCHANGED <<len, n, sendZlp, ended>>
         \/ /\ pc' = "idle" /\ len' = 0 /\ n' = 0 /\ tries' = 0
            /\ sendZlp' = FALSE /\ ended' = FALSE
  BY DEF Send, Return
<1>2. BankTypes'
  <2>1. /\ len \in 0 .. MaxSize /\ n \in 0 .. EpSize /\ tries \in 0 .. Tries
        /\ 0 \in 0 .. MaxSize /\ 0 \in 0 .. EpSize /\ 0 \in 0 .. Tries
        /\ Tries \in 0 .. Tries /\ 1 .. MaxSize \subseteq 0 .. MaxSize
    BY <1>0, Sizes DEF BankTypes, TypeOK
  <2>2. len' \in 0 .. MaxSize /\ n' \in 0 .. EpSize /\ tries' \in 0 .. Tries
    BY <1>1, <2>1
  <2>3. sendZlp' \in BOOLEAN /\ ended' \in BOOLEAN
    BY <1>0, <1>1 DEF BankTypes
  <2>. QED
    BY <1>0, <1>1, <2>2, <2>3 DEF BankTypes, TypeOK, in, out
<1>3. CopyInv'
  BY <1>0, <1>1 DEF CopyInv
<1>4. LastInv'
  BY <1>0, <1>1 DEF LastInv, CopyInv
<1>. QED
  BY <1>0, <1>1, <1>2, <1>3, <1>4, FlightStays, ReceiveStays DEF SerialInv

LEMMA SpaceStep == ASSUME SerialInv, Space PROVE SerialInv'
<1>0. BankTypes /\ CopyInv /\ FlightInv /\ LastInv /\ ReceiveInv
  BY DEF SerialInv
<1>1. /\ pc = "space" /\ UNCHANGED in /\ UNCHANGED out /\ uenum' = "TX"
      /\ \/ /\ SendSpace > 0 /\ pc' = "copy" /\ n' = LeastOf(SendSpace, len)
            /\ UNCHANGED <<len, tries, sendZlp, ended>>
         \/ /\ tries - 1 > 0 /\ pc' = "delay" /\ tries' = tries - 1
            /\ UNCHANGED <<len, n, sendZlp, ended>>
         \/ /\ pc' = "idle" /\ len' = 0 /\ n' = 0 /\ tries' = 0
            /\ sendZlp' = FALSE /\ ended' = FALSE
  BY DEF Space, TriesLeft, Return
<1>2. /\ Len(fill) \in Nat /\ Len(fill) <= EpSize /\ len \in 0 .. MaxSize
      /\ n \in 0 .. EpSize /\ tries \in 0 .. Tries /\ fill' = fill
  BY <1>0, <1>1, BytesFacts DEF BankTypes, TypeOK, in
<1>3. SendSpace > 0 =>
        /\ LeastOf(SendSpace, len) \in 0 .. EpSize
        /\ LeastOf(SendSpace, len) <= EpSize - Len(fill)
        /\ LeastOf(SendSpace, len) <= len
        /\ len >= 1 => LeastOf(SendSpace, len) >= 1
  BY <1>2, Sizes DEF SendSpace, LeastOf
<1>. HIDE DEF SendSpace, LeastOf
<1>4. len' \in 0 .. MaxSize /\ n' \in 0 .. EpSize /\ tries' \in 0 .. Tries
  BY <1>1, <1>2, <1>3, Sizes
<1>5. BankTypes'
  BY <1>0, <1>1, <1>4 DEF BankTypes, TypeOK, in, out
<1>6. CopyInv'
  BY <1>0, <1>1, <1>2, <1>3 DEF CopyInv
<1>7. LastInv'
  BY <1>0, <1>1 DEF LastInv, CopyInv
<1>. QED
  BY <1>0, <1>1, <1>5, <1>6, <1>7, FlightStays, ReceiveStays DEF SerialInv

\* Delay, the first steps of flush(), begin(), and read() and peek() as far as
\* USB_Recv(): nothing moves.
LEMMA QuietStep ==
  ASSUME SerialInv,
         \/ Delay \/ FlushSelect \/ FlushCount \/ Begin \/ Read \/ Peek
         \/ EndOfReset \/ (\E l \in BOOLEAN : LineState(l))
         \/ UNCHANGED vars
  PROVE  SerialInv'
<1>0. BankTypes /\ CopyInv /\ FlightInv /\ LastInv /\ ReceiveInv
  BY DEF SerialInv
<1>1. /\ UNCHANGED in /\ UNCHANGED <<outBanks, taken, hostSent>>
      /\ UNCHANGED <<len, n, tries, sendZlp, ended>>
      /\ uenum' \in {uenum, "TX", "0"}
      /\ \/ pc' = pc \/ (pc = "delay" /\ pc' = "space")
         \/ /\ pc \in {"idle", "flush"}
            /\ pc' \in {"idle", "flush", "release", "read", "peek"}
      /\ \/ UNCHANGED <<peek_buffer, stale>>
         \/ peek_buffer' = -1 /\ stale' = FALSE
  BY DEF Delay, FlushSelect, FlushCount, Begin, Read, Peek, EndOfReset, Idle,
         Goto, LineState, vars, in, out, call
<1>2. -1 \in -1 .. M - 1
  BY Sizes
<1>3. BankTypes'
  BY <1>0, <1>1, <1>2 DEF BankTypes, TypeOK, in
<1>4. CopyInv'
  BY <1>0, <1>1 DEF CopyInv, in
<1>5. LastInv'
  BY <1>0, <1>1, LastStays
<1>6. FlightInv'
  BY <1>0, <1>1, FlightStays
<1>7. ReceiveInv'
  BY <1>0, <1>1 DEF ReceiveInv
<1>. QED
  BY <1>3, <1>4, <1>5, <1>6, <1>7 DEF SerialInv

\* Releasing a bank of f, or not when the controller has none.
LEMMA ReleaseForm ==
  ASSUME SerialInv, NEW f, f \in Bytes, Len(f) <= EpSize, ReleaseTX(f)
  PROVE  /\ fill' \in Bytes /\ queue' \in Packets
         /\ Len(fill') <= Len(f) /\ Len(queue') <= Banks
         /\ FlattenSeq(queue') \o fill' = FlattenSeq(queue) \o f
         /\ \/ fill' = f /\ queue' = queue
            \/ fill' = <<>> /\ queue' = Append(queue, f)
<1>1. queue \in Packets /\ Len(queue) <= Banks /\ Len(queue) \in Nat
  BY Released, BytesFacts DEF SerialInv, BankTypes, TypeOK
<1>2. Len(f) \in Nat /\ <<>> \in Bytes /\ Len(<<>>) = 0
  BY BytesFacts
<1>3. CASE HasBank
  <2>1. Append(queue, f) \in Packets /\ Len(Append(queue, f)) = Len(queue) + 1
        /\ FlattenSeq(Append(queue, f)) = FlattenSeq(queue) \o f
    BY <1>1, Released
  <2>2. FlattenSeq(Append(queue, f)) \in Bytes
    BY <2>1, Flat
  <2>3. FlattenSeq(Append(queue, f)) \o <<>> = FlattenSeq(queue) \o f
    BY <2>1, <2>2, BytesFacts
  <2>4. fill' = <<>> /\ queue' = Append(queue, f)
    BY <1>3 DEF ReleaseTX
  <2>5. Len(queue) + 1 <= Banks
    BY <1>1, <1>3, Sizes DEF HasBank
  <2>. QED
    BY <1>2, <2>1, <2>3, <2>4, <2>5
<1>4. CASE ~HasBank
  <2>1. fill' = f /\ queue' = queue
    BY <1>4 DEF ReleaseTX
  <2>2. FlattenSeq(queue') \o fill' = FlattenSeq(queue) \o f
    BY <2>1
  <2>3. fill' \in Bytes /\ queue' \in Packets /\ Len(queue') <= Banks
    BY <1>1, <2>1
  <2>4. Len(fill') <= Len(f)
    BY <1>2, <2>1
  <2>. QED
    BY <2>1, <2>2, <2>3, <2>4
<1>. QED
  BY <1>3, <1>4

LEMMA ShortReleased ==
  ASSUME NEW q, q \in Packets, NEW f, f \in Bytes, NEW o, Len(f) < EpSize
  PROVE  EndsShort(Append(q, f), <<>>, o)
<1>1. /\ Append(q, f) # <<>> /\ Len(Append(q, f)) = Len(q) + 1
      /\ Append(q, f)[Len(q) + 1] = f
  BY Released
<1>. QED
  BY <1>1 DEF EndsShort

\* The start of frame and flush() release the bank as it is.
LEMMA FlushedStep ==
  ASSUME SerialInv, ReleaseTX(fill) \/ UNCHANGED <<fill, queue>>,
         UNCHANGED <<written, seen, open, ended>>
  PROVE  /\ fill' \in Bytes /\ queue' \in Packets
         /\ Len(fill') <= Len(fill) /\ Len(queue') <= Banks
         /\ FlightInv' /\ LastInv'
<1>0. BankTypes /\ FlightInv /\ LastInv
  BY DEF SerialInv
<1>1. fill \in Bytes /\ queue \in Packets /\ Len(fill) <= EpSize
      /\ Len(queue) <= Banks /\ Len(fill) \in Nat
  BY <1>0, BytesFacts DEF BankTypes, TypeOK
<1>2. /\ fill' \in Bytes /\ queue' \in Packets
      /\ Len(fill') <= Len(fill) /\ Len(queue') <= Banks
      /\ FlattenSeq(queue') \o fill' = FlattenSeq(queue) \o fill
      /\ \/ fill' = fill /\ queue' = queue
         \/ fill' = <<>> /\ queue' = Append(queue, fill)
  <2>1. CASE ReleaseTX(fill)
    BY <1>1, <2>1, ReleaseForm
  <2>2. CASE UNCHANGED <<fill, queue>>
    <3>1. FlattenSeq(queue') \o fill' = FlattenSeq(queue) \o fill
      BY <2>2
    <3>. QED
      BY <1>1, <2>2, <3>1
  <2>. QED
    BY <2>1, <2>2
<1>3. FlightInv'
  BY <1>0, <1>2 DEF FlightInv
<1>4. LastInv'
  <2>1. CASE fill' = fill /\ queue' = queue
    BY <1>0, <2>1 DEF LastInv
  <2>2. CASE fill' = <<>> /\ queue' = Append(queue, fill)
    <3>1. ended => Len(fill) < EpSize
      BY <1>0, Sizes, BytesFacts DEF LastInv, EndsShort
    <3>2. ended => EndsShort(Append(queue, fill), <<>>, open)
      BY <1>1, <3>1, ShortReleased
    <3>. QED
      BY <2>2, <3>2 DEF LastInv
  <2>. QED
    BY <1>2, <2>1, <2>2
<1>. QED
  BY <1>2, <1>3, <1>4

LEMMA FlushStep ==
  ASSUME SerialInv, FlushRelease \/ StartOfFrame
  PROVE  SerialInv'
<1>0. BankTypes /\ CopyInv /\ FlightInv /\ LastInv /\ ReceiveInv
  BY DEF SerialInv
<1>1. /\ ReleaseTX(fill) \/ UNCHANGED <<fill, queue>>
      /\ UNCHANGED <<written, seen, open, len, n, tries, sendZlp, ended>>
      /\ UNCHANGED out /\ uenum' \in {uenum, "TX"}
      /\ pc' = pc \/ (pc = "release" /\ pc' = "idle")
  BY DEF FlushRelease, StartOfFrame, call
<1>2. /\ fill' \in Bytes /\ queue' \in Packets
      /\ Len(fill') <= Len(fill) /\ Len(queue') <= Banks
      /\ FlightInv' /\ LastInv'
  BY <1>1, FlushedStep
<1>3. Len(fill') \in Nat /\ Len(fill) \in Nat /\ EpSize \in Nat
  BY <1>0, <1>2, Sizes, BytesFacts DEF BankTypes
<1>4. BankTypes'
  <2>1. Len(fill') <= EpSize
    BY <1>0, <1>2, <1>3 DEF BankTypes, TypeOK
  <2>. QED
    BY <1>0, <1>1, <1>2, <2>1 DEF BankTypes, TypeOK, out
<1>5. CopyInv'
  <2>1. \A k \in 0 .. EpSize :
          k <= EpSize - Len(fill) => k <= EpSize - Len(fill')
    BY <1>2, <1>3
  <2>2. n \in 0 .. EpSize
    BY <1>0 DEF BankTypes, TypeOK
  <2>3. pc' = "copy" => pc = "copy"
    BY <1>1
  <2>. QED
    BY <1>0, <1>1, <2>1, <2>2, <2>3 DEF CopyInv
<1>. QED
  BY <1>0, <1>1, <1>2, <1>4, <1>5, ReceiveStays DEF SerialInv

\* What Copy writes into the bank: n bytes, for which there is room.
LEMMA Filled ==
  ASSUME SerialInv, pc = "copy", StillAllowed
  PROVE  /\ n \in Nat /\ written \in Byte
         /\ Fills(n) = fill \o From(written, n) /\ Fills(n) \in Bytes
         /\ Len(Fills(n)) = Len(fill) + n /\ Len(fill) \in Nat
         /\ Len(Fills(n)) <= EpSize /\ Len(fill) < EpSize
<1>1. /\ n \in Nat /\ written \in Byte /\ fill \in Bytes
      /\ n <= EpSize - Len(fill)
  BY DEF SerialInv, BankTypes, CopyInv, TypeOK, Byte
<1>2. HasBank /\ Len(fill) < EpSize /\ Len(fill) \in Nat /\ EpSize \in Nat
  BY <1>1, BytesFacts, Sizes DEF StillAllowed, ReadWriteAllowed
<1>3. LeastOf(n, EpSize - Len(fill)) = n
  BY <1>1, <1>2 DEF LeastOf
<1>4. Fills(n) = fill \o From(written, n)
  BY <1>2, <1>3 DEF Fills
<1>5. From(written, n) \in Bytes /\ Len(From(written, n)) = n
  BY <1>1, FromForm
<1>6. Fills(n) \in Bytes /\ Len(Fills(n)) = Len(fill) + n
  BY <1>1, <1>4, <1>5, Joined
<1>. QED
  BY <1>1, <1>2, <1>4, <1>6

LEMMA FlightCopied ==
  ASSUME SerialInv, pc = "copy", StillAllowed,
         FlattenSeq(queue') \o fill' = FlattenSeq(queue) \o Fills(n),
         written' = Plus(written, n), seen' = seen
  PROVE  FlightInv'
<1>1. /\ FlattenSeq(queue) \in Bytes /\ fill \in Bytes
      /\ seen \in Byte /\ written \in Byte /\ n \in Nat
      /\ Runs(FlattenSeq(queue) \o fill, seen, written)
  BY Filled, Flat DEF SerialInv, BankTypes, TypeOK, FlightInv, Byte
<1>2. /\ From(written, n) \in Bytes
      /\ Runs(From(written, n), written, Plus(written, n))
  BY <1>1, FromForm, RunsFrom
<1>3. FlattenSeq(queue) \o fill \in Bytes
  BY <1>1, Joined
<1>4. Runs((FlattenSeq(queue) \o fill) \o From(written, n),
           seen, Plus(written, n))
  BY <1>1, <1>2, <1>3, RunsJoin
<1>5. (FlattenSeq(queue) \o fill) \o From(written, n)
        = FlattenSeq(queue) \o (fill \o From(written, n))
  BY <1>1, <1>2, BytesAssociative
<1>6. Fills(n) = fill \o From(written, n)
  BY Filled
<1>. QED
  BY <1>4, <1>5, <1>6 DEF FlightInv

LEMMA CopyStep == ASSUME SerialInv, Copy PROVE SerialInv'
<1>0. BankTypes /\ CopyInv /\ FlightInv /\ LastInv /\ ReceiveInv
  BY DEF SerialInv
<1>1. pc = "copy" /\ uenum' = "TX" /\ UNCHANGED out
  BY DEF Copy
<1>2. /\ len \in 0 .. MaxSize /\ n \in 0 .. EpSize /\ tries \in 0 .. Tries
      /\ 0 \in 0 .. MaxSize /\ 0 \in 0 .. EpSize /\ 0 \in 0 .. Tries
      /\ n <= len /\ ~ended /\ sendZlp \in BOOLEAN
      /\ IF sendZlp THEN len = 0 ELSE len >= 1 /\ n >= 1
  BY <1>0, <1>1, Sizes DEF BankTypes, TypeOK, CopyInv
<1>3. CASE ~StillAllowed
  <2>1. pc' = "space" /\ UNCHANGED <<len, n, tries, sendZlp, ended, in>>
    BY <1>3 DEF Copy
  <2>2. BankTypes'
    BY <1>0, <1>1, <2>1 DEF BankTypes, TypeOK, in, out
  <2>3. CopyInv'
    BY <1>0, <1>1, <2>1 DEF CopyInv
  <2>. QED
    BY <1>0, <1>1, <2>1, <2>2, <2>3, FlightStays, ReceiveStays, LastStays
       DEF SerialInv
<1>4. CASE StillAllowed
  <2>. DEFINE f == Fills(n)
              full == Len(f) = EpSize
              more == ~sendZlp /\ full /\ NeedsZlp
  <2>1. /\ written' = Plus(written, n) /\ UNCHANGED <<seen, open>>
        /\ IF sendZlp \/ full THEN ReleaseTX(f)
                              ELSE fill' = f /\ UNCHANGED queue
        /\ IF len = n /\ ~more
             THEN /\ pc' = "idle" /\ len' = 0 /\ n' = 0 /\ tries' = 0
                  /\ sendZlp' = FALSE /\ ended' = TRUE
             ELSE /\ pc' = "space" /\ len' = len - n /\ sendZlp' = more
                  /\ n' = 0 /\ UNCHANGED <<tries, ended>>
    BY <1>4 DEF Copy, Return
  <2>2. /\ n \in Nat /\ written \in Byte /\ f \in Bytes
        /\ Len(f) = Len(fill) + n /\ Len(fill) \in Nat
        /\ Len(f) <= EpSize /\ Len(fill) < EpSize
    BY <1>1, <1>4, Filled
  <2>3. queue \in Packets /\ Len(queue) <= Banks
    BY <1>0 DEF BankTypes, TypeOK
  <2>4. more <=> ~sendZlp /\ full /\ len = n
    BY DEF NeedsZlp
  <2>. HIDE DEF f
  <2>5. /\ fill' \in Bytes /\ queue' \in Packets
        /\ Len(fill') <= Len(f) /\ Len(queue') <= Banks
        /\ FlattenSeq(queue') \o fill' = FlattenSeq(queue) \o f
        /\ \/ fill' = f /\ queue' = queue
           \/ fill' = <<>> /\ queue' = Append(queue, f)
    <3>1. CASE sendZlp \/ full
      BY <2>1, <2>2, <3>1, ReleaseForm
    <3>2. CASE ~(sendZlp \/ full)
      <4>1. fill' = f /\ queue' = queue
        BY <2>1, <3>2
      <4>2. FlattenSeq(queue') \o fill' = FlattenSeq(queue) \o f
        BY <4>1
      <4>3. Len(f) \in Nat
        BY <2>2
      <4>. QED
        BY <2>2, <2>3, <4>1, <4>2, <4>3
    <3>. QED
      BY <3>1, <3>2
  <2>6. FlightInv'
    BY <1>1, <1>4, <2>1, <2>5, FlightCopied DEF f
  <2>7. BankTypes'
    <3>1. /\ len' \in 0 .. MaxSize /\ n' \in 0 .. EpSize /\ tries' \in 0 .. Tries
      <4>1. len - n \in 0 .. MaxSize
        BY <1>2, Sizes
      <4>. HIDE DEF more
      <4>. QED
        BY <1>2, <2>1, <4>1
    <3>2. sendZlp' \in BOOLEAN /\ ended' \in BOOLEAN
      BY <1>0, <2>1 DEF BankTypes
    <3>3. Plus(written, n) \in Byte
      BY <2>2, PlusForm
    <3>4. Len(fill') <= EpSize
      <4>1. Len(fill') \in Nat /\ Len(f) \in Nat /\ EpSize \in Nat
        BY <2>2, <2>5, BytesFacts, Sizes
      <4>. QED
        BY <2>2, <2>5, <4>1
    <3>5. pc' \in {"idle", "space"}
      BY <2>1
    <3>. HIDE DEF more
    <3>6. TypeOK'
      BY <1>0, <1>1, <2>1, <2>5, <3>1, <3>3, <3>4, <3>5
         DEF BankTypes, TypeOK, out, Byte
    <3>. QED
      BY <1>0, <1>1, <2>1, <2>5, <3>2, <3>6 DEF BankTypes, out
  <2>8. CopyInv'
    <3>. HIDE DEF more
    <3>1. CASE len = n /\ ~more
      BY <2>1, <3>1 DEF CopyInv
    <3>2. CASE ~(len = n /\ ~more)
      <4>1. /\ pc' = "space" /\ len' = len - n /\ sendZlp' = more /\ ~ended'
        BY <1>2, <2>1, <3>2
      <4>2. IF more THEN len - n = 0 ELSE len - n >= 1
        BY <1>2, <2>4, <3>2
      <4>. QED
        BY <4>1, <4>2 DEF CopyInv
    <3>. QED
      BY <3>1, <3>2
  <2>9. LastInv'
    <3>1. CASE ~(len = n /\ ~more)
      BY <1>2, <2>1, <3>1 DEF LastInv
    <3>2. CASE len = n /\ ~more
      <4>1. Len(f) < EpSize /\ (~sendZlp => f # <<>>)
        <5>1. CASE sendZlp
          BY <1>2, <2>2, <3>2, <5>1, Sizes
        <5>2. CASE ~sendZlp
          <6>1. Len(f) # EpSize /\ Len(f) >= 1
            BY <1>2, <2>2, <2>4, <3>2, <5>2
          <6>2. f # <<>>
            BY <2>2, <6>1, BytesFacts
          <6>. QED
            BY <2>2, <6>1, <6>2, Sizes
        <5>. QED
          BY <5>1, <5>2
      <4>2. CASE fill' = <<>> /\ queue' = Append(queue, f)
        <5>1. EndsShort(Append(queue, f), <<>>, open)
          BY <2>2, <2>3, <4>1, ShortReleased
        <5>. QED
          BY <2>1, <4>2, <5>1 DEF LastInv
      <4>3. CASE fill' = f /\ queue' = queue
        <5>1. CASE f # <<>>
          BY <2>1, <4>1, <4>3, <5>1 DEF LastInv, EndsShort
        <5>2. CASE f = <<>>
          <6>1. sendZlp /\ ReleaseTX(f)
            BY <2>1, <4>1, <5>2
          <6>2. HasBank
            BY <1>4 DEF StillAllowed, ReadWriteAllowed
          <6>3. queue' = Append(queue, f)
            BY <6>1, <6>2 DEF ReleaseTX
          <6>. QED
            BY <4>2, <4>3, <5>2, <6>3
        <5>. QED
          BY <5>1, <5>2
      <4>. QED
        BY <2>5, <4>2, <4>3
    <3>. QED
      BY <3>1, <3>2
  <2>. QED
    BY <1>0, <1>1, <2>6, <2>7, <2>8, <2>9, ReceiveStays DEF SerialInv
<1>. QED
  BY <1>3, <1>4

LEMMA HostTakesStep == ASSUME SerialInv, HostTakes PROVE SerialInv'
<1>0. BankTypes /\ CopyInv /\ FlightInv /\ LastInv /\ ReceiveInv
  BY DEF SerialInv
<1>. DEFINE h == Head(queue)
            r == Tail(queue)
<1>1. /\ queue # <<>> /\ queue' = r /\ seen' = Plus(seen, Len(h))
      /\ open' = (Len(h) = EpSize)
      /\ UNCHANGED <<device, uenum, fill, written, out, call>>
  BY DEF HostTakes
<1>2. /\ queue \in Packets /\ fill \in Bytes /\ seen \in Byte /\ written \in Byte
      /\ Len(queue) <= Banks
  BY <1>0 DEF BankTypes, TypeOK, Byte
<1>3. /\ h \in Bytes /\ r \in Packets /\ h = queue[1]
      /\ Len(queue) \in Nat /\ Len(queue) >= 1 /\ Len(r) = Len(queue) - 1
      /\ \A i \in 1 .. Len(queue) - 1 : r[i] = queue[i + 1]
      /\ FlattenSeq(queue) = h \o FlattenSeq(r)
  BY <1>1, <1>2, Taken
<1>. HIDE DEF h, r
<1>4. Len(h) \in Nat
  BY <1>3, BytesFacts
<1>5. Plus(seen, Len(h)) \in Byte
  BY <1>2, <1>4, PlusForm
<1>6. FlightInv'
  <2>1. FlattenSeq(r) \in Bytes
    BY <1>3, Flat
  <2>2. FlattenSeq(r) \o fill \in Bytes
    BY <1>2, <2>1, Joined
  <2>3. (h \o FlattenSeq(r)) \o fill = h \o (FlattenSeq(r) \o fill)
    BY <1>2, <1>3, <2>1, BytesAssociative
  <2>4. Runs(h \o (FlattenSeq(r) \o fill), seen, written)
    BY <1>0, <1>3, <2>3 DEF FlightInv
  <2>5. Runs(FlattenSeq(r) \o fill, Plus(seen, Len(h)), written)
    BY <1>2, <1>3, <2>2, <2>4, RunsSplit
  <2>. QED
    BY <1>1, <2>5 DEF FlightInv
<1>7. LastInv'
  <2>. SUFFICES ASSUME ended PROVE EndsShort(r, fill, Len(h) = EpSize)
    BY <1>1 DEF LastInv, call
  <2>1. EndsShort(queue, fill, open)
    BY <1>0 DEF LastInv
  <2>2. CASE fill # <<>>
    BY <2>1, <2>2 DEF EndsShort
  <2>3. CASE fill = <<>> /\ r = <<>>
    <3>1. Len(r) = 0
      BY <2>3, BytesFacts
    <3>2. Len(queue) = 1
      BY <1>3, <3>1
    <3>3. Len(h) < EpSize
      BY <1>1, <1>3, <2>1, <2>3, <3>2 DEF EndsShort
    <3>4. Len(h) # EpSize
      BY <1>4, <3>3, Sizes
    <3>. QED
      BY <2>3, <3>4 DEF EndsShort
  <2>4. CASE fill = <<>> /\ r # <<>>
    <3>1. Len(r) \in Nat /\ Len(r) >= 1
      BY <1>3, <2>4, Taken
    <3>2. r[Len(r)] = queue[Len(queue)]
      <4>1. Len(r) \in 1 .. Len(queue) - 1 /\ Len(r) + 1 = Len(queue)
        BY <1>3, <3>1
      <4>. QED
        BY <1>3, <4>1
    <3>. QED
      BY <1>1, <2>1, <2>4, <3>2 DEF EndsShort
  <2>. QED
    BY <2>2, <2>3, <2>4
<1>8. BankTypes'
  <2>1. Len(r) <= Banks
    BY <1>2, <1>3, Sizes
  <2>2. TypeOK'
    BY <1>0, <1>1, <1>5, <2>1 DEF BankTypes, TypeOK, out, call, Byte
  <2>3. open' \in BOOLEAN
    BY <1>1
  <2>. QED
    BY <1>0, <1>1, <1>3, <2>2, <2>3 DEF BankTypes, out, call
<1>9. CopyInv' /\ ReceiveInv'
  BY <1>0, <1>1, ReceiveStays DEF CopyInv, call
<1>. QED
  BY <1>6, <1>7, <1>8, <1>9 DEF SerialInv

LEMMA HostSendsStep ==
  ASSUME SerialInv, NEW k \in 1 .. EpSize, HostSends(k)
  PROVE  SerialInv'
<1>0. BankTypes /\ CopyInv /\ FlightInv /\ LastInv /\ ReceiveInv
  BY DEF SerialInv
<1>. DEFINE p == From(hostSent, k)
<1>1. /\ Len(outBanks) < Banks /\ outBanks' = Append(outBanks, p)
      /\ hostSent' = Plus(hostSent, k)
      /\ UNCHANGED <<device, uenum, in, peek_buffer, taken, stale, call>>
  BY DEF HostSends
<1>2. /\ outBanks \in Packets /\ hostSent \in Byte /\ taken \in Byte
      /\ k \in Nat /\ k >= 1
  BY <1>0, Sizes DEF BankTypes, TypeOK, Byte
<1>3. p \in Bytes /\ Len(p) = k /\ Runs(p, hostSent, Plus(hostSent, k))
      /\ Plus(hostSent, k) \in Byte
  <2>1. From(hostSent, k) \in Bytes /\ Len(From(hostSent, k)) = k
    BY <1>2, FromForm
  <2>2. Runs(From(hostSent, k), hostSent, Plus(hostSent, k))
    BY <1>2, RunsFrom
  <2>3. Plus(hostSent, k) \in Byte
    BY <1>2, PlusForm
  <2>. QED
    BY <2>1, <2>2, <2>3
<1>. HIDE DEF p
<1>4. /\ Append(outBanks, p) \in Packets
      /\ Len(Append(outBanks, p)) = Len(outBanks) + 1 /\ Len(outBanks) \in Nat
      /\ Append(outBanks, p)[Len(outBanks) + 1] = p
      /\ \A i \in 1 .. Len(outBanks) : Append(outBanks, p)[i] = outBanks[i]
      /\ FlattenSeq(Append(outBanks, p)) = FlattenSeq(outBanks) \o p
  <2>1. outBanks \in Packets /\ p \in Bytes
    BY <1>2, <1>3
  <2>. QED
    BY <2>1, Released
<1>5. p # <<>>
  BY <1>2, <1>3, BytesFacts
<1>6. ReceiveInv'
  <2>1. FlattenSeq(outBanks) \in Bytes
    BY <1>2, Flat
  <2>2. Runs(FlattenSeq(outBanks) \o p, taken, Plus(hostSent, k))
    BY <1>0, <1>2, <1>3, <2>1, RunsJoin DEF ReceiveInv
  <2>3. Runs(FlattenSeq(outBanks'), taken', hostSent')
    BY <1>1, <1>4, <2>2
  <2>4. \A i \in 1 .. Len(outBanks) + 1 : Append(outBanks, p)[i] # <<>>
    <3>. SUFFICES ASSUME NEW i \in 1 .. Len(outBanks) + 1
                  PROVE  Append(outBanks, p)[i] # <<>>
      OBVIOUS
    <3>1. CASE i = Len(outBanks) + 1
      BY <1>4, <1>5, <3>1
    <3>2. CASE i # Len(outBanks) + 1
      <4>1. i \in 1 .. Len(outBanks)
        BY <1>4, <3>2
      <4>. QED
        BY <1>0, <1>4, <4>1 DEF ReceiveInv
    <3>. QED
      BY <3>1, <3>2
  <2>5. \A i \in 1 .. Len(outBanks') : outBanks'[i] # <<>>
    BY <1>1, <1>4, <2>4
  <2>6. peek_buffer' >= 0 /\ ~stale' => taken' = Plus(peek_buffer', 1)
    BY <1>0, <1>1 DEF ReceiveInv
  <2>. QED
    BY <2>3, <2>5, <2>6 DEF ReceiveInv
<1>7. BankTypes'
  <2>1. Len(outBanks) + 1 <= Banks
    BY <1>1, <1>4, Sizes
  <2>2. TypeOK'
    BY <1>0, <1>1, <1>3, <1>4, <2>1 DEF BankTypes, TypeOK, in, call, Byte
  <2>. QED
    BY <1>0, <1>1, <1>4, <2>2 DEF BankTypes, in, call
<1>8. CopyInv' /\ FlightInv' /\ LastInv'
  <2>1. UNCHANGED in /\ UNCHANGED call
    BY <1>1
  <2>2. ended' => ended
    BY <2>1 DEF call
  <2>3. CopyInv'
    BY <1>0, <2>1 DEF CopyInv, in, call
  <2>. QED
    BY <1>0, <2>1, <2>2, <2>3, FlightStays, LastStays
<1>. QED
  BY <1>6, <1>7, <1>8 DEF SerialInv

LEMMA DroppedStep ==
  ASSUME SerialInv, SetConfiguration \/ BusReset
  PROVE  SerialInv'
<1>0. BankTypes /\ CopyInv
  BY DEF SerialInv
<1>1. /\ fill' = <<>> /\ queue' = <<>> /\ seen' = written /\ open' = FALSE
      /\ outBanks' = <<>> /\ taken' = hostSent /\ stale' = (peek_buffer >= 0)
      /\ ended' = FALSE /\ uenum' \in {uenum, "TX"}
      /\ UNCHANGED <<written, hostSent, peek_buffer, pc, len, n, tries, sendZlp>>
  BY DEF SetConfiguration, BusReset, Dropped
<1>2. /\ written \in Byte /\ hostSent \in Byte
      /\ written \in 0 .. M - 1 /\ hostSent \in 0 .. M - 1
  BY <1>0 DEF BankTypes, TypeOK, Byte
<1>3. <<>> \in Bytes /\ <<>> \in Packets /\ Len(<<>>) = 0 /\ <<>> \o <<>> = <<>>
  BY BytesFacts
<1>4. BankTypes'
  <2>1. 0 <= EpSize /\ 0 <= Banks
    BY Sizes
  <2>2. TypeOK'
    BY <1>0, <1>1, <1>2, <1>3, <2>1 DEF BankTypes, TypeOK
  <2>3. stale' \in BOOLEAN
    BY <1>1
  <2>. QED
    BY <1>0, <1>1, <1>3, <2>2, <2>3 DEF BankTypes
<1>5. CopyInv'
  <2>1. Len(fill) \in Nat
    BY <1>0, BytesFacts DEF BankTypes
  <2>2. \A k \in 0 .. EpSize : k <= EpSize - 0
    BY Sizes
  <2>3. n \in 0 .. EpSize
    BY <1>0 DEF BankTypes, TypeOK
  <2>. QED
    BY <1>0, <1>1, <1>3, <2>2, <2>3 DEF CopyInv
<1>6. FlightInv'
  BY <1>1, <1>2, <1>3, FlattenEmpty, RunsNothing DEF FlightInv
<1>7. LastInv'
  BY <1>1 DEF LastInv
<1>8. ReceiveInv'
  <2>1. Runs(FlattenSeq(outBanks'), taken', hostSent')
    BY <1>1, <1>2, FlattenEmpty, RunsNothing
  <2>2. ~ (peek_buffer' >= 0 /\ ~stale')
    BY <1>1
  <2>3. \A i \in 1 .. Len(outBanks') : outBanks'[i] # <<>>
    BY <1>1, <1>3
  <2>. QED
    BY <2>1, <2>2, <2>3 DEF ReceiveInv
<1>. QED
  BY <1>4, <1>5, <1>6, <1>7, <1>8 DEF SerialInv

LEMMA PrefixShape ==
  ASSUME NEW X, NEW x \in X, NEW s \in Seq(X)
  PROVE  /\ <<x>> \o s \in Seq(X) /\ <<x>> \o s # <<>>
         /\ Len(s) \in Nat /\ Len(<<x>> \o s) = Len(s) + 1
         /\ Head(<<x>> \o s) = x /\ Tail(<<x>> \o s) = s
         /\ (<<x>> \o s)[1] = x
         /\ \A i \in 1 .. Len(s) : (<<x>> \o s)[i + 1] = s[i]
<1>. DEFINE t == <<x>> \o s
<1>1. <<x>> \in Seq(X) /\ Len(<<x>>) = 1 /\ <<x>>[1] = x /\ Len(s) \in Nat
  OBVIOUS
<1>2. /\ t \in Seq(X) /\ Len(t) = Len(s) + 1
      /\ \A i \in 1 .. Len(s) + 1 : t[i] = IF i <= 1 THEN x ELSE s[i - 1]
  <2>1. /\ t \in Seq(X) /\ Len(t) = Len(<<x>>) + Len(s)
        /\ \A i \in 1 .. Len(<<x>>) + Len(s) :
             t[i] = IF i <= Len(<<x>>) THEN <<x>>[i] ELSE s[i - Len(<<x>>)]
    BY <1>1, ConcatProperties
  <2>. HIDE DEF t
  <2>2. \A i \in 1 .. Len(s) + 1 : t[i] = IF i <= 1 THEN x ELSE s[i - 1]
    <3>. SUFFICES ASSUME NEW i \in 1 .. Len(s) + 1
                  PROVE  t[i] = IF i <= 1 THEN x ELSE s[i - 1]
      OBVIOUS
    <3>1. i \in 1 .. 1 + Len(s)
      BY <1>1
    <3>2. t[i] = IF i <= 1 THEN <<x>>[i] ELSE s[i - 1]
      BY <1>1, <2>1, <3>1
    <3>. QED
      BY <1>1, <3>2
  <2>. QED
    BY <1>1, <2>1, <2>2
<1>. HIDE DEF t
<1>3. t # <<>> /\ t[1] = x /\ \A i \in 1 .. Len(s) : t[i + 1] = s[i]
  <2>1. t # <<>>
    BY <1>1, <1>2, EmptySeq
  <2>2. t[1] = x
    BY <1>1, <1>2
  <2>3. \A i \in 1 .. Len(s) : t[i + 1] = s[i]
    BY <1>1, <1>2
  <2>. QED
    BY <2>1, <2>2, <2>3
<1>4. /\ Head(t) = t[1] /\ Tail(t) \in Seq(X) /\ Len(Tail(t)) = Len(t) - 1
      /\ \A i \in 1 .. Len(t) - 1 : Tail(t)[i] = t[i + 1]
  BY <1>2, <1>3, FirstShape
<1>5. Tail(t) = s
  <2>1. Len(Tail(t)) = Len(s) /\ \A i \in 1 .. Len(Tail(t)) : Tail(t)[i] = s[i]
    BY <1>1, <1>2, <1>3, <1>4
  <2>. QED
    BY <1>4, <2>1, SeqEqual
<1>. QED
  BY <1>1, <1>2, <1>3, <1>4, <1>5 DEF t

\* A packet is its first byte and the others.
LEMMA FirstByte ==
  ASSUME NEW b, b \in Bytes, b # <<>>
  PROVE  /\ Head(b) \in Byte /\ Tail(b) \in Bytes
         /\ <<Head(b)>> \in Bytes /\ Len(<<Head(b)>>) = 1
         /\ <<Head(b)>>[1] = Head(b)
         /\ b = <<Head(b)>> \o Tail(b)
<1>. DEFINE x == Head(b)
            r == Tail(b)
            t == <<x>> \o r
<1>1. /\ x \in Byte /\ r \in Bytes /\ x = b[1]
      /\ Len(b) \in Nat /\ Len(b) >= 1 /\ Len(r) = Len(b) - 1
      /\ \A i \in 1 .. Len(b) - 1 : r[i] = b[i + 1]
  BY FirstShape DEF Bytes
<1>. HIDE DEF x, r
<1>2. <<x>> \in Bytes /\ Len(<<x>>) = 1 /\ <<x>>[1] = x
  BY <1>1 DEF Bytes
<1>3. /\ t \in Bytes /\ Len(t) = Len(r) + 1 /\ Len(r) \in Nat /\ t[1] = x
      /\ \A i \in 1 .. Len(r) : t[i + 1] = r[i]
  BY <1>1, PrefixShape DEF Bytes
<1>. HIDE DEF t
<1>4. \A i \in 1 .. Len(b) : b[i] = t[i]
  <2>. SUFFICES ASSUME NEW i \in 1 .. Len(b) PROVE b[i] = t[i]
    OBVIOUS
  <2>1. CASE i = 1
    BY <1>1, <1>3, <2>1
  <2>2. CASE i # 1
    <3>1. i - 1 \in 1 .. Len(b) - 1 /\ (i - 1) + 1 = i
      BY <1>1, <2>2
    <3>2. r[i - 1] = b[(i - 1) + 1]
      BY <1>1, <3>1
    <3>3. t[(i - 1) + 1] = r[i - 1]
      BY <1>1, <1>3, <3>1
    <3>. QED
      BY <3>1, <3>2, <3>3
  <2>. QED
    BY <2>1, <2>2
<1>5. b = t
  <2>1. Len(b) = Len(t)
    BY <1>1, <1>3
  <2>. QED
    BY <1>3, <1>4, <2>1, SeqEqual DEF Bytes
<1>. QED
  BY <1>1, <1>2, <1>5 DEF x, r, t

LEMMA RecvStep == ASSUME SerialInv, Recv PROVE SerialInv'
<1>0. BankTypes /\ CopyInv /\ FlightInv /\ LastInv /\ ReceiveInv
  BY DEF SerialInv
<1>1. /\ pc \in {"read", "peek"} /\ pc' = "idle" /\ uenum' = "RX"
      /\ UNCHANGED <<len, n, tries, sendZlp, ended>> /\ UNCHANGED in
  BY DEF Recv, Goto
<1>2. CopyInv' /\ FlightInv' /\ LastInv'
  <2>1. CopyInv'
    BY <1>0, <1>1 DEF CopyInv, in
  <2>2. ended' => ended
    BY <1>1
  <2>. QED
    BY <1>0, <1>1, <2>1, <2>2, FlightStays, LastStays
<1>3. CASE UNCHANGED out
  <2>1. BankTypes'
    BY <1>0, <1>1, <1>3 DEF BankTypes, TypeOK, in, out
  <2>. QED
    BY <1>0, <1>2, <1>3, <2>1, ReceiveStays DEF SerialInv
<1>4. CASE outBanks # <<>> /\ Head(outBanks) # <<>>
  <2>. DEFINE b == Head(outBanks)
              x == Head(b)
              rest == Tail(b)
              others == Tail(outBanks)
              flat == FlattenSeq(others)
  <2>1. /\ outBanks' = IF rest = <<>> THEN others ELSE <<rest>> \o others
        /\ taken' = Plus(taken, 1) /\ peek_buffer' \in {x, -1}
        /\ stale' = FALSE /\ hostSent' = hostSent
    BY <1>4 DEF Recv, ReleasesRX
  <2>2. /\ outBanks \in Packets /\ taken \in Byte /\ hostSent \in Byte
        /\ Len(outBanks) <= Banks
    BY <1>0 DEF BankTypes, TypeOK, Byte
  <2>3. /\ b \in Bytes /\ others \in Packets
        /\ Len(outBanks) \in Nat /\ Len(outBanks) >= 1
        /\ Len(others) = Len(outBanks) - 1
        /\ \A i \in 1 .. Len(outBanks) - 1 : others[i] = outBanks[i + 1]
        /\ FlattenSeq(outBanks) = b \o flat
    BY <1>4, <2>2, Taken
  <2>4. b # <<>>
    BY <1>4
  <2>. HIDE DEF b, others
  <2>5. /\ x \in Byte /\ rest \in Bytes /\ <<x>> \in Bytes /\ Len(<<x>>) = 1
        /\ <<x>>[1] = x /\ b = <<x>> \o rest
    BY <2>3, <2>4, FirstByte
  <2>. HIDE DEF x, rest
  <2>6. flat \in Bytes
    BY <2>3, Flat
  <2>. HIDE DEF flat
  <2>7. rest \o flat \in Bytes
    BY <2>5, <2>6, Joined
  <2>8. FlattenSeq(outBanks) = <<x>> \o (rest \o flat)
    <3>1. (<<x>> \o rest) \o flat = <<x>> \o (rest \o flat)
      BY <2>5, <2>6, BytesAssociative
    <3>. QED
      BY <2>3, <2>5, <3>1
  <2>9. Runs(<<x>> \o (rest \o flat), taken, hostSent)
    BY <1>0, <2>8 DEF ReceiveInv
  <2>10. Runs(<<x>>, taken, Plus(taken, 1))
         /\ Runs(rest \o flat, Plus(taken, 1), hostSent)
    BY <2>2, <2>5, <2>7, <2>9, RunsSplit
  <2>11. x = taken
    <3>1. <<x>>[1] = Plus(taken, 1 - 1)
      <4>1. <<x>> = From(taken, 1)
        BY <2>5, <2>10 DEF Runs
      <4>2. From(taken, 1)[1] = Plus(taken, 1 - 1)
        BY <2>2, FromForm
      <4>. QED
        BY <4>1, <4>2
    <3>2. Plus(taken, 0) = taken
      BY <2>2, PlusForm
    <3>. QED
      BY <2>5, <3>1, <3>2
  <2>12. Plus(taken, 1) \in Byte
    BY <2>2, PlusForm
  <2>13. /\ outBanks' \in Packets /\ Len(outBanks') <= Banks
         /\ FlattenSeq(outBanks') = rest \o flat
         /\ \A i \in 1 .. Len(outBanks') : outBanks'[i] # <<>>
    <3>0. \A i \in 1 .. Len(others) : others[i] # <<>>
      <4>. SUFFICES ASSUME NEW i \in 1 .. Len(others) PROVE others[i] # <<>>
        OBVIOUS
      <4>1. i \in 1 .. Len(outBanks) - 1 /\ i + 1 \in 1 .. Len(outBanks)
        BY <2>3
      <4>. QED
        BY <1>0, <2>3, <4>1 DEF ReceiveInv
    <3>1. CASE rest = <<>>
      <4>1. outBanks' = others
        BY <2>1, <3>1
      <4>2. rest \o flat = flat
        BY <2>6, <3>1, BytesFacts
      <4>3. Len(others) <= Banks
        BY <2>2, <2>3, Sizes
      <4>4. FlattenSeq(outBanks') = rest \o flat
        BY <4>1, <4>2 DEF flat
      <4>. QED
        BY <2>3, <3>0, <4>1, <4>3, <4>4
    <3>2. CASE rest # <<>>
      <4>. DEFINE t == <<rest>> \o others
      <4>1. outBanks' = t
        BY <2>1, <3>2
      <4>2. /\ t \in Packets /\ t # <<>> /\ Len(t) = Len(others) + 1
            /\ Head(t) = rest /\ Tail(t) = others /\ t[1] = rest
            /\ \A i \in 1 .. Len(others) : t[i + 1] = others[i]
        BY <2>3, <2>5, PrefixShape DEF Packets
      <4>. HIDE DEF t
      <4>3. FlattenSeq(t) = rest \o flat
        BY <4>2, Taken DEF flat
      <4>4. Len(t) <= Banks
        BY <2>2, <2>3, <4>2
      <4>5. \A i \in 1 .. Len(t) : t[i] # <<>>
        <5>. SUFFICES ASSUME NEW i \in 1 .. Len(t) PROVE t[i] # <<>>
          OBVIOUS
        <5>1. CASE i = 1
          BY <3>2, <4>2, <5>1
        <5>2. CASE i # 1
          <6>1. i - 1 \in 1 .. Len(others) /\ (i - 1) + 1 = i
            BY <2>3, <4>2, <5>2
          <6>2. t[(i - 1) + 1] = others[i - 1]
            BY <4>2, <6>1
          <6>. QED
            BY <3>0, <6>1, <6>2
        <5>. QED
          BY <5>1, <5>2
      <4>. QED
        BY <4>1, <4>2, <4>3, <4>4, <4>5
    <3>. QED
      BY <3>1, <3>2
  <2>14. ReceiveInv'
    <3>1. Runs(FlattenSeq(outBanks'), taken', hostSent')
      BY <2>1, <2>10, <2>13
    <3>2. peek_buffer' >= 0 /\ ~stale' => taken' = Plus(peek_buffer', 1)
      BY <2>1, <2>11
    <3>. QED
      BY <2>13, <3>1, <3>2 DEF ReceiveInv
  <2>15. BankTypes'
    <3>1. peek_buffer' \in -1 .. M - 1
      <4>1. \A y \in Byte : y \in -1 .. M - 1
        BY Sizes DEF Byte
      <4>2. -1 \in -1 .. M - 1
        BY Sizes
      <4>. QED
        BY <2>1, <2>5, <4>1, <4>2
    <3>2. TypeOK'
      BY <1>0, <1>1, <2>1, <2>12, <2>13, <3>1 DEF BankTypes, TypeOK, in, Byte
    <3>. QED
      BY <1>0, <1>1, <2>1, <2>13, <3>2 DEF BankTypes, in
  <2>. QED
    BY <1>2, <2>14, <2>15 DEF SerialInv
<1>. QED
  BY <1>3, <1>4 DEF Recv

LEMMA SerialInvariant == Spec => []SerialInv
<1>1. SerialInv /\ [Next]_vars => SerialInv'
  BY WriteStep, SendStep, SpaceStep, QuietStep, FlushStep, CopyStep, RecvStep,
     HostTakesStep, HostSendsStep, DroppedStep DEF Next, Running
<1>. QED
  BY SerialInitial, <1>1, PTL DEF Spec

-----------------------------------------------------------------------------
(* The theorems.                                                           *)

\* What USB_Send() counts as sent reaches the host once and in order, whatever
\* the start-of-frame interrupt and an unlocked flush() release in between.
THEOREM SendCorrect == Spec => []SendInOrder
<1>1. SerialInv => SendInOrder
  <2>. SUFFICES ASSUME SerialInv PROVE SendInOrder
    OBVIOUS
  <2>1. TypeOK /\ queue \in Packets /\ fill \in Bytes
        /\ Runs(FlattenSeq(queue) \o fill, seen, written)
    BY DEF SerialInv, BankTypes, FlightInv
  <2>2. InFlight = FlattenSeq(queue) \o fill
    BY <2>1, Released DEF InFlight
  <2>. QED
    BY <2>1, <2>2 DEF SendInOrder, Runs
<1>. QED
  BY <1>1, SerialInvariant, PTL

\* A write() that returned what it was given leaves no transfer open: its last
\* packet is short, or USB_Send() adds an empty one.
THEOREM TransferCorrect == Spec => []TransferEnds
<1>1. SerialInv => TransferEnds
  BY DEF SerialInv, LastInv, EndsShort, TransferEnds
<1>. QED
  BY <1>1, SerialInvariant, PTL

\* What the host sends is read once and in order, across read(), peek(), resets
\* and new configurations, and no emptied bank is left in front.
THEOREM ReceiveCorrect == Spec => []ReceiveInOrder
<1>1. SerialInv => ReceiveInOrder
  <2>. SUFFICES ASSUME SerialInv PROVE ReceiveInOrder
    OBVIOUS
  <2>1. outBanks \in Packets /\ ReceiveInv
    BY DEF SerialInv, BankTypes
  <2>2. DOMAIN outBanks = 1 .. Len(outBanks)
    BY <2>1, LenProperties DEF Packets
  <2>. QED
    BY <2>1, <2>2 DEF ReceiveInOrder, ReceiveInv, Received, Runs
<1>. QED
  BY <1>1, SerialInvariant, PTL

-----------------------------------------------------------------------------
(* The ring of the bridge on the other chip: module Bridge.                *)

USE BridgeAssumption

-----------------------------------------------------------------------------
(* The inductive invariant.                                                *)

\* The slot j before the next one to fill, and what was received j ago.
Back(i, j) == (i + Size - j) % Size
Earlier(r, j) == (r + Numbers - j) % Numbers

\* Whatever the loop removes, the slots behind In hold the last bytes received,
\* but for those never filled: these were not stored, and an overrun fills all.
FilledInv ==
  /\ DOMAIN Buffer = Index /\ received \in 0 .. Numbers - 1
  /\ stored \subseteq Index /\ overrun \in BOOLEAN
  /\ \A j \in 1 .. Size : Buffer[Back(In, j)] \in {Earlier(received, j), Numbers}
  /\ \A k \in Index : k \in stored \/ overrun => Buffer[k] # Numbers

IndexInv == Wrap % Size = 0 \/ ~overrun => In = (Out + Counted) % Size

\* The slots that k reads find, from Out on.
Ahead(k) == {(Out + i) % Size : i \in 0 .. k - 1}

\* Until it is overrun the count tells what is stored, and the loop's cached
\* count never exceeds it: the interrupt only adds.
CountInv ==
  ~overrun =>
    /\ Counted <= Size /\ stored = Ahead(Counted)
    /\ at \in {"test", "flush", "decrement", "send"} => BufferCount <= Counted
    /\ at \in {"load", "advance"} => BufferCount < Counted

RingInv == BridgeTypeOK /\ IndexInv /\ CountInv /\ FilledInv

-----------------------------------------------------------------------------
(* Division with remainder.                                                *)

LEMMA RemainderNext ==
  ASSUME NEW z \in Nat \ {0}, NEW x \in Nat
  PROVE  (x + 1) % z = IF x % z = z - 1 THEN 0 ELSE (x % z) + 1
<1>. DEFINE q == x \div z
            r == x % z
<1>1. q \in Nat /\ r \in 0 .. z - 1 /\ x = z * q + r
  BY Quotient
<1>. HIDE DEF q, r
<1>2. CASE r = z - 1
  <2>1. x + 1 = z * (q + 1) + 0
    BY <1>1, <1>2
  <2>2. (z * (q + 1) + 0) % z = 0
    BY <1>1, Remainder
  <2>. QED
    BY <1>2, <2>1, <2>2 DEF r
<1>3. CASE r # z - 1
  <2>1. x + 1 = z * q + (r + 1) /\ r + 1 \in 0 .. z - 1
    BY <1>1, <1>3
  <2>2. (z * q + (r + 1)) % z = r + 1
    BY <1>1, <2>1, Remainder
  <2>. QED
    BY <1>3, <2>1, <2>2 DEF r
<1>. QED
  BY <1>2, <1>3

LEMMA RemainderPlus ==
  ASSUME NEW z \in Nat \ {0}, NEW x \in Nat, NEW a \in 0 .. z - 1
  PROVE  (a + x) % z = IF a + (x % z) < z THEN a + (x % z) ELSE a + (x % z) - z
<1>. DEFINE q == x \div z
            r == x % z
<1>1. q \in Nat /\ r \in 0 .. z - 1 /\ x = z * q + r
  BY Quotient
<1>. HIDE DEF q, r
<1>2. CASE a + r >= z
  <2>. DEFINE s == a + r - z
              p == q + 1
  <2>1. a + x = z * p + s /\ s \in 0 .. z - 1 /\ p \in Int
    BY <1>1, <1>2
  <2>. HIDE DEF s, p
  <2>2. (z * p + s) % z = s
    BY <2>1, Remainder
  <2>. QED
    BY <1>1, <1>2, <2>1, <2>2 DEF r, s
<1>3. CASE a + r < z
  <2>. DEFINE s == a + r
  <2>1. a + x = z * q + s /\ s \in 0 .. z - 1
    BY <1>1, <1>3
  <2>. HIDE DEF s
  <2>2. (z * q + s) % z = s
    BY <1>1, <2>1, Remainder
  <2>. QED
    BY <1>1, <1>3, <2>1, <2>2 DEF r, s
<1>. QED
  BY <1>1, <1>2, <1>3

-----------------------------------------------------------------------------
(* Counting up and down.                                                   *)

Up(s) == IF s + 1 = Wrap THEN 0 ELSE s + 1
Down(s) == IF s = 0 THEN Wrap - 1 ELSE s - 1

LEMMA SizeFacts ==
  /\ Size \in Nat \ {0} /\ Size >= 1 /\ Wrap \in Nat \ {0} /\ Size < Wrap
  /\ Numbers = 2 * Size + 1 /\ Numbers \in Nat \ {0}
  /\ Wrap - 1 \in Nat /\ Wrap >= 2
  /\ Wrap % Size = 0 => (Wrap - 1) % Size = Size - 1
<1>1. /\ Size \in Nat \ {0} /\ Size >= 1 /\ Wrap \in Nat \ {0} /\ Size < Wrap
      /\ Numbers = 2 * Size + 1 /\ Numbers \in Nat \ {0}
      /\ Wrap - 1 \in Nat /\ Wrap >= 2
  BY DEF Numbers
<1>2. Wrap % Size = 0 => (Wrap - 1) % Size = Size - 1
  <2>1. (Wrap - 1) % Size \in 0 .. Size - 1
    BY <1>1, Quotient
  <2>2. (Wrap - 1) + 1 = Wrap
    BY <1>1
  <2>3. ((Wrap - 1) + 1) % Size =
          IF (Wrap - 1) % Size = Size - 1 THEN 0 ELSE ((Wrap - 1) % Size) + 1
    BY <1>1, RemainderNext
  <2>. QED
    BY <1>1, <2>1, <2>2, <2>3
<1>. QED
  BY <1>1, <1>2

\* The remainders by Size.
LEMMA SizeRemainder ==
  /\ \A x \in Nat :
       (x + 1) % Size = IF x % Size = Size - 1 THEN 0 ELSE (x % Size) + 1
  /\ \A x \in Nat : \A a \in 0 .. Size - 1 :
       (a + x) % Size =
         IF a + (x % Size) < Size THEN a + (x % Size)
                                  ELSE a + (x % Size) - Size
<1>1. Size \in Nat \ {0}
  BY SizeFacts
<1>. QED
  BY <1>1, RemainderNext, RemainderPlus

\* A byte inserted moves In and the count together.
LEMMA IndexUp ==
  ASSUME NEW s \in 0 .. Wrap - 1, NEW j \in Index,
         Wrap % Size = 0 \/ s # Wrap - 1
  PROVE  (j + Up(s)) % Size = Next1((j + s) % Size)
<1>0. /\ Size \in Nat \ {0} /\ Wrap \in Nat \ {0} /\ Wrap - 1 \in Nat
      /\ Size >= 1 /\ s = Wrap - 1 => (Wrap - 1) % Size = Size - 1
  BY SizeFacts
<1>1. /\ s \in Nat /\ s % Size \in 0 .. Size - 1 /\ j \in 0 .. Size - 1
      /\ 0 % Size = 0
  BY <1>0, Quotient DEF Index
<1>2. (j + s) % Size =
        IF j + (s % Size) < Size THEN j + (s % Size) ELSE j + (s % Size) - Size
  BY <1>1, SizeRemainder
<1>3. Up(s) \in Nat /\
      Up(s) % Size = IF s % Size = Size - 1 THEN 0 ELSE (s % Size) + 1
  <2>1. CASE s = Wrap - 1
    BY <1>0, <1>1, <2>1 DEF Up
  <2>2. CASE s # Wrap - 1
    <3>1. Up(s) = s + 1
      BY <1>0, <1>1, <2>2 DEF Up
    <3>. QED
      BY <1>1, <3>1, SizeRemainder
  <2>. QED
    BY <2>1, <2>2
<1>4. (j + Up(s)) % Size =
        IF j + (Up(s) % Size) < Size THEN j + (Up(s) % Size)
                                       ELSE j + (Up(s) % Size) - Size
  BY <1>1, <1>3, SizeRemainder
<1>. QED
  BY <1>0, <1>1, <1>2, <1>3, <1>4 DEF Next1

\* A byte removed moves Out on and the count back.
LEMMA IndexDown ==
  ASSUME NEW s \in 0 .. Wrap - 1, NEW j \in Index,
         Wrap % Size = 0 \/ s # 0
  PROVE  (Next1(j) + Down(s)) % Size = (j + s) % Size
<1>. DEFINE d == Down(s)
<1>0. /\ Size \in Nat \ {0} /\ Wrap \in Nat \ {0} /\ Wrap - 1 \in Nat
      /\ Size >= 1 /\ s = 0 => (Wrap - 1) % Size = Size - 1
  BY SizeFacts
<1>1. /\ s \in Nat /\ s % Size \in 0 .. Size - 1 /\ j \in 0 .. Size - 1
      /\ 0 % Size = 0 /\ d \in Nat /\ Next1(j) \in 0 .. Size - 1
      /\ d % Size \in 0 .. Size - 1
  <2>1. d \in Nat /\ s \in Nat
    BY <1>0 DEF Down
  <2>2. j \in 0 .. Size - 1 /\ Next1(j) \in 0 .. Size - 1 /\ 0 % Size = 0
    BY <1>0 DEF Index, Next1
  <2>. HIDE DEF d
  <2>. QED
    BY <1>0, <2>1, <2>2, Quotient
<1>2. s % Size = IF d % Size = Size - 1 THEN 0 ELSE (d % Size) + 1
  <2>1. CASE s = 0
    BY <1>0, <1>1, <2>1 DEF Down
  <2>2. CASE s # 0
    <3>1. s = d + 1
      BY <1>0, <1>1, <2>2 DEF Down
    <3>. HIDE DEF d
    <3>. QED
      BY <1>1, <3>1, SizeRemainder
  <2>. QED
    BY <2>1, <2>2
<1>. HIDE DEF d
<1>3. (j + s) % Size =
        IF j + (s % Size) < Size THEN j + (s % Size) ELSE j + (s % Size) - Size
  BY <1>1, SizeRemainder
<1>4. (Next1(j) + d) % Size =
        IF Next1(j) + (d % Size) < Size THEN Next1(j) + (d % Size)
                                          ELSE Next1(j) + (d % Size) - Size
  BY <1>1, SizeRemainder
<1>. DEFINE x == s % Size
            y == d % Size
            k == Next1(j)
            before == (j + s) % Size
            after == (Next1(j) + d) % Size
<1>5. /\ x \in 0 .. Size - 1 /\ y \in 0 .. Size - 1
      /\ x = IF y = Size - 1 THEN 0 ELSE y + 1
  BY <1>1, <1>2
<1>6. /\ before = IF j + x < Size THEN j + x ELSE j + x - Size
      /\ after = IF k + y < Size THEN k + y ELSE k + y - Size
  BY <1>3, <1>4
<1>7. /\ k = IF j + 1 = Size THEN 0 ELSE j + 1
      /\ Size \in Nat /\ Size >= 1 /\ j \in 0 .. Size - 1
  BY <1>0, <1>1 DEF Next1
<1>8. after = before
  <2>. HIDE DEF x, y, k, before, after
  <2>1. CASE y = Size - 1
    BY <1>5, <1>6, <1>7, <2>1
  <2>2. CASE y # Size - 1
    BY <1>5, <1>6, <1>7, <2>2
  <2>. QED
    BY <2>1, <2>2
<1>. QED
  BY <1>8 DEF d

\* The count, and so what it tells, goes up and down with wrap-around.
LEMMA CountedForm ==
  ASSUME Count \in 0 .. Wrap - 1
  PROVE  /\ (Count + 1) % Wrap = Up(Count) /\ Up(Count) \in 0 .. Wrap - 1
         /\ (Count + Wrap - 1) % Wrap = Down(Count)
         /\ Down(Count) \in 0 .. Wrap - 1
         /\ Counted = IF at = "decrement" THEN Down(Count) ELSE Count
         /\ Counted \in 0 .. Wrap - 1
         /\ Down(Up(Count)) = Up(Down(Count))
<1>0. Wrap \in Nat /\ Wrap >= 2
  BY SizeFacts
<1>1. (Count + 1) % Wrap = Up(Count) /\ Up(Count) \in 0 .. Wrap - 1
  BY <1>0 DEF Up
<1>2. (Count + Wrap - 1) % Wrap = Down(Count) /\ Down(Count) \in 0 .. Wrap - 1
  BY <1>0 DEF Down
<1>3. Down(Up(Count)) = Up(Down(Count))
  BY <1>0 DEF Up, Down
<1>. QED
  BY <1>1, <1>2, <1>3 DEF Counted

\* The slot just filled is one back; the others are one further back.
LEMMA BackForm ==
  ASSUME NEW i \in Index
  PROVE  /\ Next1(i) \in Index
         /\ \A j \in 1 .. Size : Back(i, j) \in Index
         /\ Back(Next1(i), 1) = i
         /\ \A j \in 2 .. Size : /\ Back(Next1(i), j) = Back(i, j - 1)
                                 /\ Back(i, j - 1) # i
<1>0. Size \in Nat /\ Size >= 1 /\ i \in 0 .. Size - 1
  BY SizeFacts DEF Index
<1>1. \A k \in 0 .. Size - 1 : \A j \in 1 .. Size :
        /\ Back(k, j) = IF j <= k THEN k - j ELSE k + Size - j
        /\ Back(k, j) \in 0 .. Size - 1
  BY <1>0 DEF Back
<1>2. Next1(i) \in 0 .. Size - 1
  BY <1>0 DEF Next1
<1>3. \A j \in 2 .. Size : j \in 1 .. Size /\ j - 1 \in 1 .. Size
  BY <1>0
<1>4. 1 \in 1 .. Size
  BY <1>0
<1>5. Back(Next1(i), 1) = i
  <2>1. Back(Next1(i), 1) =
          IF 1 <= Next1(i) THEN Next1(i) - 1
                                ELSE Next1(i) + Size - 1
    BY <1>1, <1>2, <1>4
  <2>. QED
    BY <1>0, <2>1 DEF Next1
<1>6. ASSUME NEW j \in 2 .. Size
      PROVE  Back(Next1(i), j) = Back(i, j - 1) /\ Back(i, j - 1) # i
  <2>1. Back(Next1(i), j) =
          IF j <= Next1(i) THEN Next1(i) - j
                                ELSE Next1(i) + Size - j
    BY <1>1, <1>2, <1>3
  <2>2. Back(i, j - 1) = IF j - 1 <= i THEN i - (j - 1) ELSE i + Size - (j - 1)
    BY <1>0, <1>1, <1>3
  <2>. QED
    BY <1>0, <2>1, <2>2 DEF Next1
<1>. QED
  BY <1>0, <1>1, <1>2, <1>5, <1>6 DEF Index

LEMMA EarlierForm ==
  ASSUME NEW r \in 0 .. Numbers - 1
  PROVE  /\ (r + 1) % Numbers \in 0 .. Numbers - 1
         /\ Earlier((r + 1) % Numbers, 1) = r
         /\ \A j \in 2 .. Size :
              Earlier((r + 1) % Numbers, j) = Earlier(r, j - 1)
<1>0. Size \in Nat /\ Size >= 1 /\ Numbers = 2 * Size + 1 /\ Numbers \in Nat
  BY SizeFacts
<1>1. \A k \in 0 .. Numbers - 1 : \A j \in 1 .. Size :
        Earlier(k, j) = IF j <= k THEN k - j ELSE k + Numbers - j
  BY <1>0 DEF Earlier
<1>. DEFINE m == (r + 1) % Numbers
<1>2. m = (IF r + 1 = Numbers THEN 0 ELSE r + 1) /\ m \in 0 .. Numbers - 1
  BY <1>0
<1>3. \A j \in 2 .. Size : j \in 1 .. Size /\ j - 1 \in 1 .. Size
  BY <1>0
<1>4. 1 \in 1 .. Size
  BY <1>0
<1>. HIDE DEF m
<1>5. Earlier(m, 1) = r
  BY <1>0, <1>1, <1>2, <1>4
<1>6. ASSUME NEW j \in 2 .. Size PROVE Earlier(m, j) = Earlier(r, j - 1)
  <2>1. j \in Int /\ 2 <= j /\ j <= Size
    BY <1>0
  <2>2. Earlier(m, j) = IF j <= m THEN m - j ELSE m + Numbers - j
    BY <1>1, <1>2, <1>3
  <2>3. Earlier(r, j - 1)
          = IF j - 1 <= r THEN r - (j - 1) ELSE r + Numbers - (j - 1)
    BY <1>1, <1>3
  <2>. QED
    BY <1>0, <1>2, <2>1, <2>2, <2>3
<1>. QED
  BY <1>2, <1>5, <1>6 DEF m

\* From Out on, the slots ahead: one more, one fewer, and all of them.
LEMMA AheadForm ==
  ASSUME NEW o \in Index
  PROVE  /\ \A k \in 0 .. Size :
              (o + k) % Size = IF o + k < Size THEN o + k ELSE o + k - Size
         /\ \A k \in 0 .. Size : (o + k) % Size \in Index
         /\ (o + Size) % Size = o /\ (o + 0) % Size = o
         /\ \A k \in 0 .. Size - 1 :
              (Next1(o) + k) % Size = (o + (k + 1)) % Size
         /\ \A k \in 1 .. Size - 1 : (o + k) % Size # o
<1>0. Size \in Nat /\ Size >= 1 /\ o \in 0 .. Size - 1
  BY SizeFacts DEF Index
<1>1. \A k \in 0 .. Size :
        (o + k) % Size = IF o + k < Size THEN o + k ELSE o + k - Size
  BY <1>0
<1>2. \A k \in 0 .. Size - 1 :
        (Next1(o) + k) % Size
          = IF Next1(o) + k < Size THEN Next1(o) + k ELSE Next1(o) + k - Size
  BY <1>0 DEF Next1
<1>3. ASSUME NEW k \in 0 .. Size - 1
      PROVE  (Next1(o) + k) % Size = (o + (k + 1)) % Size
  <2>1. k + 1 \in 0 .. Size
    BY <1>0
  <2>2. (o + (k + 1)) % Size
          = IF o + (k + 1) < Size THEN o + (k + 1) ELSE o + (k + 1) - Size
    BY <1>1, <2>1
  <2>3. (Next1(o) + k) % Size
          = IF Next1(o) + k < Size THEN Next1(o) + k ELSE Next1(o) + k - Size
    BY <1>2
  <2>. QED
    BY <1>0, <2>2, <2>3 DEF Next1
<1>4. \A k \in 0 .. Size : (o + k) % Size \in Index
  BY <1>0, <1>1 DEF Index
<1>5. (o + Size) % Size = o /\ (o + 0) % Size = o
  BY <1>0, <1>1
<1>6. \A k \in 1 .. Size - 1 : (o + k) % Size # o
  BY <1>0, <1>1
<1>. QED
  BY <1>1, <1>3, <1>4, <1>5, <1>6

-----------------------------------------------------------------------------
(* The invariant is kept.                                                  *)

LEMMA RingInitial == BridgeInit => RingInv
<1>. SUFFICES ASSUME BridgeInit PROVE RingInv
  OBVIOUS
<1>1. (0 + 0) % Size = 0
  BY SizeFacts
<1>2. Counted = 0
  BY DEF BridgeInit, Counted
<1>3. /\ 0 \in Index /\ 0 \in 0 .. Wrap - 1 /\ 0 \in 0 .. Numbers - 1
      /\ 0 \in 0 .. Size /\ 0 .. 0 - 1 = {} /\ 0 <= Size
  BY SizeFacts DEF Index
<1>4. \A j \in 1 .. Size : Back(0, j) \in Index
  BY <1>3, BackForm
<1>5. FilledInv
  BY <1>3, <1>4 DEF BridgeInit, FilledInv
<1>6. stored = Ahead(Counted)
  BY <1>2, <1>3 DEF BridgeInit, Ahead
<1>. QED
  BY <1>1, <1>2, <1>3, <1>5, <1>6
  DEF BridgeInit, RingInv, BridgeTypeOK, IndexInv, CountInv

\* The interrupt: the ring and the count go up by one.
LEMMA InterruptStep ==
  ASSUME RingInv, ReceiveInterrupt
  PROVE  RingInv'
<1>0. /\ BridgeTypeOK /\ IndexInv /\ CountInv /\ FilledInv
      /\ Size \in Nat /\ Wrap \in Nat /\ Size >= 1 /\ Wrap > Size
      /\ Count \in 0 .. Wrap - 1 /\ In \in Index /\ Out \in Index
  BY SizeFacts DEF RingInv, BridgeTypeOK
<1>1. /\ Buffer' = [Buffer EXCEPT ![In] = received] /\ In' = Next1(In)
      /\ Count' = Up(Count) /\ received' = (received + 1) % Numbers
      /\ stored' = stored \union {In} /\ overrun' = (overrun \/ In \in stored)
      /\ UNCHANGED <<Out, toUsart, at, BufferCount>>
  BY <1>0, CountedForm DEF ReceiveInterrupt, loop
<1>2. /\ Counted \in 0 .. Wrap - 1 /\ Counted' = Up(Counted)
      /\ Counted = IF at = "decrement" THEN Down(Count) ELSE Count
      /\ Count' \in 0 .. Wrap - 1
  <2>1. Counted' = IF at = "decrement" THEN Down(Count') ELSE Count'
    <3>1. Count' \in 0 .. Wrap - 1 =>
            Counted' = IF at' = "decrement" THEN Down(Count') ELSE Count'
      BY SizeFacts DEF Counted, Down
    <3>. QED
      BY <1>0, <1>1, <3>1, CountedForm
  <2>. QED
    BY <1>0, <1>1, <2>1, CountedForm
<1>3. BridgeTypeOK'
  BY <1>0, <1>1, <1>2, BackForm DEF BridgeTypeOK
<1>4. ~overrun => In = (Out + Counted) % Size /\ stored = Ahead(Counted)
                  /\ Counted <= Size
  BY <1>0 DEF IndexInv, CountInv
\* a full ring has In back at Out, which is stored
<1>5. ~overrun /\ Counted = Size => In \in stored
  <2>. SUFFICES ASSUME ~overrun, Counted = Size PROVE In \in stored
    OBVIOUS
  <2>1. In = (Out + 0) % Size
    BY <1>0, <1>4, AheadForm
  <2>2. 0 \in 0 .. Size - 1
    BY <1>0
  <2>. QED
    BY <1>4, <2>1, <2>2 DEF Ahead
<1>6. ~overrun' => ~overrun /\ Counted < Size /\ Counted' = Counted + 1
  <2>1. ~overrun' => ~overrun /\ In \notin stored
    BY <1>1
  <2>2. ~overrun' => Counted < Size
    BY <1>0, <1>2, <1>4, <1>5, <2>1
  <2>. QED
    BY <1>0, <1>2, <2>1, <2>2 DEF Up
<1>7. IndexInv'
  <2>. SUFFICES ASSUME Wrap % Size = 0 \/ ~overrun'
                PROVE  In' = (Out' + Counted') % Size
    BY DEF IndexInv
  <2>1. In = (Out + Counted) % Size
    BY <1>0, <1>6 DEF IndexInv
  <2>2. Wrap % Size = 0 \/ Counted # Wrap - 1
    BY <1>0, <1>6
  <2>. QED
    BY <1>0, <1>1, <1>2, <2>1, <2>2, IndexUp
<1>8. CountInv'
  <2>. SUFFICES ASSUME ~overrun' PROVE CountInv'
    BY DEF CountInv
  <2>1. ~overrun /\ Counted \in 0 .. Size - 1 /\ Counted' = Counted + 1
    BY <1>0, <1>2, <1>6
  <2>2. 0 .. Counted' - 1 = (0 .. Counted - 1) \union {Counted}
    BY <1>0, <2>1
  <2>3. stored' = Ahead(Counted)'
    BY <1>1, <1>4, <2>1, <2>2 DEF Ahead
  <2>4. BufferCount \in 0 .. Wrap - 1 /\ UNCHANGED <<at, BufferCount>>
    BY <1>0, <1>1 DEF BridgeTypeOK
  <2>. QED
    BY <1>0, <2>1, <2>3, <2>4 DEF CountInv
<1>9. FilledInv'
  <2>1. /\ DOMAIN Buffer = Index /\ received \in 0 .. Numbers - 1
        /\ stored \subseteq Index /\ received # Numbers
    BY <1>0, SizeFacts DEF FilledInv
  <2>2. ASSUME NEW j \in 1 .. Size
        PROVE  Buffer'[Back(In', j)] \in {Earlier(received', j), Numbers}
    <3>1. CASE j = 1
      BY <1>0, <1>1, <2>1, <3>1, BackForm, EarlierForm
    <3>2. CASE j # 1
      <4>1. j \in 2 .. Size /\ j - 1 \in 1 .. Size
        BY <1>0, <3>2
      <4>2. /\ Back(In', j) = Back(In, j - 1) /\ Back(In, j - 1) # In
            /\ Back(In, j - 1) \in Index
        BY <1>0, <1>1, <4>1, BackForm
      <4>3. Earlier(received', j) = Earlier(received, j - 1)
        BY <1>1, <2>1, <4>1, EarlierForm
      <4>4. Buffer[Back(In, j - 1)] \in {Earlier(received, j - 1), Numbers}
        BY <1>0, <4>1 DEF FilledInv
      <4>. QED
        BY <1>1, <2>1, <4>2, <4>3, <4>4
    <3>. QED
      BY <3>1, <3>2
  <2>3. ASSUME NEW k \in Index, k \in stored' \/ overrun'
        PROVE  Buffer'[k] # Numbers
    <3>1. CASE k = In
      BY <1>1, <2>1, <3>1
    <3>2. CASE k # In
      <4>1. Buffer'[k] = Buffer[k]
        BY <1>1, <2>1, <3>2
      <4>2. CASE k \in stored \/ overrun
        BY <1>0, <4>1, <4>2 DEF FilledInv
      \* In is stored, so the ring is full and every slot was filled
      <4>3. CASE In \in stored /\ ~overrun
        <5>1. /\ stored = Ahead(Counted) /\ Counted \in 0 .. Size
              /\ In = (Out + Counted) % Size
          BY <1>0, <1>2, <1>4, <4>3
        <5>2. PICK i \in 0 .. Counted - 1 : (Out + Counted) % Size = (Out + i) % Size
          BY <4>3, <5>1 DEF Ahead
        <5>3. Counted = Size
          <6>1. /\ i \in 0 .. Size /\ Out \in 0 .. Size - 1
                /\ i < Counted /\ i >= 0
            BY <1>0, <5>1, <5>2 DEF Index
          <6>2. (Out + i) % Size = IF Out + i < Size THEN Out + i ELSE Out + i - Size
            BY <1>0, <6>1, AheadForm
          <6>3. (Out + Counted) % Size =
                  IF Out + Counted < Size THEN Out + Counted
                                          ELSE Out + Counted - Size
            BY <1>0, <5>1, AheadForm
          <6>. QED
            BY <1>0, <5>1, <5>2, <6>1, <6>2, <6>3
        <5>4. k \in stored
          <6>1. Out \in 0 .. Size - 1 /\ k \in 0 .. Size - 1
            BY <1>0 DEF Index
          <6>2. CASE k >= Out
            <7>1. k - Out \in 0 .. Size - 1 /\ (Out + (k - Out)) % Size = k
              BY <1>0, <6>1, <6>2
            <7>. QED
              BY <5>1, <5>3, <7>1 DEF Ahead
          <6>3. CASE k < Out
            <7>1. /\ k + Size - Out \in 0 .. Size - 1
                  /\ (Out + (k + Size - Out)) % Size = k
              BY <1>0, <6>1, <6>3
            <7>. QED
              BY <5>1, <5>3, <7>1 DEF Ahead
          <6>. QED
            BY <1>0, <6>1, <6>2, <6>3
        <5>. QED
          BY <1>0, <4>1, <5>4 DEF FilledInv
      <4>. QED
        BY <1>1, <2>3, <3>2, <4>2, <4>3
    <3>. QED
      BY <3>1, <3>2
  <2>4. /\ received' \in 0 .. Numbers - 1 /\ overrun' \in BOOLEAN
        /\ DOMAIN Buffer' = Index /\ stored' \subseteq Index
    BY <1>0, <1>1, <2>1, EarlierForm DEF FilledInv
  <2>. QED
    BY <2>2, <2>3, <2>4 DEF FilledInv
<1>. QED
  BY <1>3, <1>7, <1>8, <1>9 DEF RingInv

\* A step that fills no slot and stores none.
LEMMA FilledStays ==
  ASSUME FilledInv, UNCHANGED <<Buffer, In, received>>,
         stored' \subseteq stored, overrun' \in BOOLEAN, overrun' => overrun
  PROVE  FilledInv'
BY DEF FilledInv

LEMMA MainLoopStep ==
  ASSUME RingInv, MainLoop
  PROVE  RingInv'
<1>0. /\ BridgeTypeOK /\ IndexInv /\ CountInv /\ FilledInv
      /\ Size \in Nat /\ Wrap \in Nat /\ Size >= 1 /\ Size < Wrap
      /\ Count \in 0 .. Wrap - 1 /\ In \in Index /\ Out \in Index
      /\ BufferCount \in 0 .. Wrap - 1 /\ toUsart \in 0 .. Size
      /\ 0 \in 0 .. Wrap - 1 /\ overrun \in BOOLEAN
  BY SizeFacts DEF RingInv, BridgeTypeOK, FilledInv
<1>1. CASE Advance
  <2>1. /\ at = "advance" /\ at' = "decrement" /\ Out' = Next1(Out)
        /\ stored' = stored \ {Out}
        /\ UNCHANGED <<Buffer, In, Count, toUsart, BufferCount, received, overrun>>
    BY <1>1 DEF Advance, Continue
  <2>2. Counted = Count /\ Counted' = Down(Count)
    BY <1>0, <2>1, CountedForm DEF Counted
  <2>3. BridgeTypeOK'
    BY <1>0, <2>1, BackForm DEF BridgeTypeOK
  <2>4. ~overrun => /\ Counted \in 1 .. Size /\ Counted' = Counted - 1
                    /\ BufferCount < Counted /\ stored = Ahead(Counted)
    BY <1>0, <2>1, <2>2 DEF CountInv, Down
  <2>5. IndexInv'
    <3>. SUFFICES ASSUME Wrap % Size = 0 \/ ~overrun
                  PROVE  In' = (Out' + Counted') % Size
      BY <2>1 DEF IndexInv
    <3>1. In = (Out + Count) % Size /\ (Wrap % Size = 0 \/ Count # 0)
      BY <1>0, <2>2, <2>4 DEF IndexInv
    <3>. QED
      BY <1>0, <2>1, <2>2, <3>1, IndexDown
  <2>6. CountInv'
    <3>. SUFFICES ASSUME ~overrun PROVE CountInv'
      BY <2>1 DEF CountInv
    <3>1. stored' = Ahead(Counted)'
      <4>1. Ahead(Counted)' = {(Next1(Out) + i) % Size : i \in 0 .. Counted - 2}
        <5>1. Counted' - 1 = Counted - 2
          BY <2>4
        <5>. QED
          BY <2>1, <5>1 DEF Ahead
      <4>2. ASSUME NEW i \in 0 .. Counted - 2
            PROVE  (Next1(Out) + i) % Size \in stored'
        <5>1. i \in 0 .. Size - 1 /\ i + 1 \in 1 .. Size - 1 /\ i + 1 \in 0 .. Counted - 1
          BY <1>0, <2>4
        <5>2. (Next1(Out) + i) % Size = (Out + (i + 1)) % Size
          BY <1>0, <5>1, AheadForm
        <5>3. (Out + (i + 1)) % Size # Out
          BY <1>0, <5>1, AheadForm
        <5>. QED
          BY <2>1, <2>4, <5>1, <5>2, <5>3 DEF Ahead
      <4>3. ASSUME NEW k \in stored'
            PROVE  k \in {(Next1(Out) + i) % Size : i \in 0 .. Counted - 2}
        <5>1. k \in Ahead(Counted) /\ k # Out
          BY <2>1, <2>4
        <5>2. PICK i \in 0 .. Counted - 1 : k = (Out + i) % Size
          BY <5>1 DEF Ahead
        <5>3. i # 0
          BY <1>0, <5>1, <5>2, AheadForm
        <5>4. i - 1 \in 0 .. Counted - 2 /\ i - 1 \in 0 .. Size - 1 /\ (i - 1) + 1 = i
          BY <1>0, <2>4, <5>3
        <5>5. (Next1(Out) + (i - 1)) % Size = (Out + ((i - 1) + 1)) % Size
          BY <1>0, <5>4, AheadForm
        <5>. QED
          BY <5>2, <5>4, <5>5
      <4>. QED
        BY <4>1, <4>2, <4>3
    <3>. QED
      BY <1>0, <2>1, <2>4, <3>1 DEF CountInv
  <2>7. FilledInv'
    BY <1>0, <2>1, FilledStays
  <2>. QED
    BY <2>3, <2>5, <2>6, <2>7 DEF RingInv
<1>2. CASE Decrement
  <2>1. /\ at = "decrement" /\ at' = "send" /\ Count' = Down(Count)
        /\ UNCHANGED <<Buffer, In, Out, toUsart, BufferCount, received, stored, overrun>>
    BY <1>0, <1>2, CountedForm DEF Decrement, Decremented, Continue, history
  <2>2. Counted = Down(Count) /\ Counted' = Counted
    BY <1>0, <2>1, CountedForm DEF Counted
  <2>3. BridgeTypeOK'
    BY <1>0, <2>1, CountedForm DEF BridgeTypeOK
  <2>4. IndexInv' /\ CountInv'
    BY <1>0, <2>1, <2>2 DEF IndexInv, CountInv, Ahead
  <2>5. FilledInv'
    BY <1>0, <2>1, FilledStays
  <2>. QED
    BY <2>3, <2>4, <2>5 DEF RingInv
<1>3. CASE GetCount
  <2>1. /\ at = "count" /\ at' = "test" /\ BufferCount' = Count
        /\ overrun' = (overrun /\ ~(Count = 0 /\ In = Out /\ stored = {}))
        /\ UNCHANGED <<Buffer, In, Out, Count, toUsart, received, stored>>
    BY <1>3 DEF GetCount, ring
  <2>2. Counted = Count /\ Counted' = Counted
    BY <2>1 DEF Counted
  <2>3. BridgeTypeOK'
    BY <1>0, <2>1 DEF BridgeTypeOK
  <2>4. CASE overrun /\ ~overrun'
    <3>1. Count = 0 /\ In = Out /\ stored = {}
      BY <2>1, <2>4
    <3>2. (Out + 0) % Size = Out /\ 0 .. 0 - 1 = {} /\ 0 <= Size
      BY <1>0, AheadForm
    <3>3. Ahead(0)' = {}
      BY <3>2 DEF Ahead
    <3>4. IndexInv' /\ CountInv'
      BY <1>0, <2>1, <2>2, <3>1, <3>2, <3>3 DEF IndexInv, CountInv
    <3>. QED
      BY <1>0, <2>1, <2>3, <3>4, FilledStays DEF RingInv
  <2>5. CASE overrun' = overrun
    <3>1. IndexInv' /\ CountInv'
      BY <1>0, <2>1, <2>2, <2>5 DEF IndexInv, CountInv, Ahead
    <3>. QED
      BY <1>0, <2>1, <2>3, <2>5, <3>1, FilledStays DEF RingInv
  <2>. QED
    BY <1>0, <2>1, <2>4, <2>5
<1>4. CASE \/ Receive \/ Test \/ Flush \/ Load \/ SendByte
           \/ Transmit
  <2>1. /\ UNCHANGED <<Buffer, In, Out, Count, received, stored, overrun>>
        /\ at \notin {"advance", "decrement"} /\ at' # "decrement"
    BY <1>4 DEF Receive, Test, Flush, Load, SendByte,
       Transmit, Continue, ring, history
  <2>2. Counted = Count /\ Counted' = Counted
    BY <2>1 DEF Counted
  <2>3. BridgeTypeOK'
    BY <1>0, <1>4, <2>1 DEF BridgeTypeOK, Receive, Test, Flush,
       Load, SendByte, Transmit, Continue
  <2>4. stored' = Ahead(Counted)' <=> stored = Ahead(Counted)
    BY <2>1, <2>2 DEF Ahead
  <2>5. CountInv'
    BY <1>0, <1>4, <2>1, <2>2, <2>4
    DEF CountInv, Receive, Test, Flush, Load, SendByte,
        Transmit, Continue
  <2>6. IndexInv'
    BY <1>0, <2>1, <2>2 DEF IndexInv
  <2>. QED
    BY <1>0, <2>1, <2>3, <2>5, <2>6, FilledStays DEF RingInv
<1>. QED
  BY <1>1, <1>2, <1>3, <1>4 DEF MainLoop

LEMMA OtherStep ==
  ASSUME RingInv,
         \/ TimerOverflows \/ (\E c \in BOOLEAN : DeviceState(c))
         \/ UNCHANGED bridgeVars
  PROVE  RingInv'
<1>1. UNCHANGED <<Buffer, In, Out, Count, received, stored, overrun, at,
                  BufferCount, toUsart>>
  BY DEF TimerOverflows, DeviceState, bridgeVars, ring, loop, history
<1>2. Counted' = Counted
  BY <1>1 DEF Counted
<1>3. BridgeTypeOK' /\ IndexInv' /\ CountInv' /\ FilledInv'
  BY <1>1, <1>2
  DEF RingInv, BridgeTypeOK, IndexInv, CountInv, FilledInv, Ahead
<1>. QED
  BY <1>3 DEF RingInv

LEMMA RingInvariant == BridgeSpec => []RingInv
<1>1. RingInv /\ [BridgeNext]_bridgeVars => RingInv'
  BY InterruptStep, MainLoopStep, OtherStep DEF BridgeNext
<1>. QED
  BY RingInitial, <1>1, PTL DEF BridgeSpec

-----------------------------------------------------------------------------
(* The theorem.                                                            *)

\* What the bytes between Out and In are, overrun or not.
LEMMA RingHolds ==
  ASSUME RingInv, Counted <= Size, Wrap % Size = 0 \/ ~overrun,
         NEW i \in 0 .. Counted - 1
  PROVE  Buffer[(Out + i) % Size]
           = (received + Numbers - Counted + i) % Numbers
<1>0. /\ Size \in Nat /\ Size >= 1 /\ Numbers \in Nat /\ Numbers = 2 * Size + 1
      /\ Out \in 0 .. Size - 1 /\ Counted \in 1 .. Size /\ Out \in Index
      /\ In = (Out + Counted) % Size /\ received \in 0 .. Numbers - 1
      /\ i \in 0 .. Size - 1
  <2>1. Size \in Nat /\ Size >= 1 /\ Numbers \in Nat /\ Numbers = 2 * Size + 1
    BY SizeFacts
  <2>2. Count \in 0 .. Wrap - 1
    BY DEF RingInv, BridgeTypeOK
  <2>3. Counted \in 0 .. Wrap - 1
    BY <2>2, CountedForm
  <2>. QED
    BY <2>1, <2>3 DEF RingInv, BridgeTypeOK, IndexInv, FilledInv, Index
<1>. DEFINE j == Counted - i
<1>1. j \in 1 .. Counted /\ j \in 1 .. Size
  BY <1>0
<1>2. Buffer[Back(In, j)] \in {Earlier(received, j), Numbers}
  BY <1>1 DEF RingInv, FilledInv
<1>3. Earlier(received, j) = (received + Numbers - Counted + i) % Numbers
  <2>1. received + Numbers - j = received + Numbers - Counted + i
    BY <1>0
  <2>. QED
    BY <2>1 DEF Earlier
<1>4. Back(In, j) = (Out + i) % Size
  <2>1. /\ In = IF Out + Counted < Size THEN Out + Counted
                                        ELSE Out + Counted - Size
        /\ (Out + i) % Size = IF Out + i < Size THEN Out + i ELSE Out + i - Size
    BY <1>0
  <2>2. Back(In, j) = IF j <= In THEN In - j ELSE In + Size - j
    BY <1>0, <1>1, <2>1 DEF Back
  <2>. QED
    BY <1>0, <2>1, <2>2
<1>5. Buffer[(Out + i) % Size] # Numbers
  <2>1. i \in 0 .. Size /\ (Out + i) % Size \in Index
    BY <1>0, AheadForm
  <2>2. ~overrun => (Out + i) % Size \in stored
    BY DEF RingInv, CountInv, Ahead
  <2>. QED
    BY <2>1, <2>2 DEF RingInv, FilledInv
<1>. QED
  BY <1>2, <1>3, <1>4, <1>5

\* While the ring is not overrun its indexes and its count agree, it holds the
\* last bytes received in order, and every read of a flush finds a byte; where
\* the size divides the values of the count, the first two hold again after an
\* overrun as soon as the count is no more than the size: for every interleaving
\* of the receive interrupt with the steps of RingBuffer_Remove().
THEOREM RingCorrect == BridgeSpec => []RingSound
<1>1. RingInv => RingSound
  <2>. SUFFICES ASSUME RingInv PROVE RingSound
    OBVIOUS
  <2>1. RingHeals
    BY RingHolds DEF RingHeals, RingInv, IndexInv
  <2>2. RemovesWhatIsStored
    <3>. SUFFICES ASSUME ~overrun PROVE RemovesWhatIsStored
      BY DEF RemovesWhatIsStored
    <3>1. Count \in 0 .. Wrap - 1 /\ BufferCount \in 0 .. Wrap - 1 /\ Wrap \in Nat
      BY SizeFacts DEF RingInv, BridgeTypeOK
    <3>2. /\ Counted <= Size /\ stored = Ahead(Counted) /\ Counted \in 0 .. Wrap - 1
          /\ Size \in Nat
      BY <3>1, CountedForm, SizeFacts DEF RingInv, CountInv
    <3>3. \A k \in Nat : k <= Counted => Readable(k)
      BY <3>2 DEF Readable, Ahead
    <3>4. /\ at \in {"test", "flush"} => BufferCount <= Counted
          /\ at = "load" => BufferCount < Counted
      BY DEF RingInv, CountInv
    <3>. QED
      BY <3>1, <3>2, <3>3, <3>4 DEF RemovesWhatIsStored
  <2>. QED
    BY <2>1, <2>2 DEF RingSound
<1>. QED
  BY RingInvariant, <1>1, PTL

=============================================================================
