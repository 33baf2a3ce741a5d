---- MODULE UsbOhci_proof ----
(***************************************************************************)
(* What UsbOhci promises, proved for all endpoints, requests and pools.    *)
(*                                                                         *)
(* The queues of TDs that hang on the endpoints are not in the state: they *)
(* are what the controller finds when it follows next from head to tail.   *)
(* The invariant therefore says that there are sequences Q that are these  *)
(* paths (Queues), that hold the TDs of linked requests (Belongs, Whole),  *)
(* in order (Ordered), and that what is not in Q and not yet counted is    *)
(* done and on its way to dl_done_list (Out, Counted). The module goes     *)
(* from sequences and pools to one queue, to what each function of the     *)
(* driver does to all of them, to the invariant (IInv) and the steps.      *)
(***************************************************************************)
EXTENDS UsbOhci, PoolBlocks_proof, SequenceTheorems

(* Sequences without repetition: what becomes of their elements.             *)
LEMMA Appended ==
    ASSUME NEW S, NEW s \in Seq(S), NEW e \in S
    PROVE  /\ Append(s, e) \in Seq(S) /\ Range(Append(s, e)) = Range(s) \cup {e}
           /\ IsInjective(s) /\ e \notin Range(s) => IsInjective(Append(s, e))
<1> DEFINE r == Append(s, e)
<1>1. r \in Seq(S) /\ Len(r) = Len(s) + 1
      /\ (\A i \in 1..Len(s) : r[i] = s[i])
      /\ r[Len(s) + 1] = e /\ Len(s) \in Nat
  OBVIOUS
<1> HIDE DEF r
<1>2. DOMAIN r = 1..(Len(s) + 1) /\ DOMAIN s = 1..Len(s)
  BY <1>1
<1>3. Range(r) = Range(s) \cup {e}
  BY <1>1, <1>2 DEF Range
<1>4. IsInjective(s) /\ e \notin Range(s) => IsInjective(r)
  BY <1>1, <1>2 DEF Range, IsInjective
<1> QED
  BY <1>1, <1>3, <1>4 DEF r

(* The elements of a concatenation are those of its parts; it repeats none   *)
(* exactly when neither part does and the parts share none.                  *)
LEMMA Concatenated ==
    ASSUME NEW S, NEW s \in Seq(S), NEW t \in Seq(S)
    PROVE  /\ s \o t \in Seq(S) /\ Range(s \o t) = Range(s) \cup Range(t)
           /\ IsInjective(s \o t)
                <=> IsInjective(s) /\ IsInjective(t) /\ Range(s) \cap Range(t) = {}
<1> DEFINE r == s \o t
<1>1. r \in Seq(S) /\ Len(r) = Len(s) + Len(t)
      /\ (\A i \in 1..(Len(s) + Len(t)) :
             r[i] = IF i <= Len(s) THEN s[i] ELSE t[i - Len(s)])
  BY ConcatProperties
<1> HIDE DEF r
<1>2. DOMAIN r = 1..(Len(s) + Len(t)) /\ DOMAIN s = 1..Len(s) /\ DOMAIN t = 1..Len(t)
      /\ Len(s) \in Nat /\ Len(t) \in Nat
  BY <1>1
<1>3. \A i \in 1..Len(s) : i \in DOMAIN r /\ r[i] = s[i]
  BY <1>1, <1>2
<1>4. \A i \in 1..Len(t) : i + Len(s) \in DOMAIN r /\ r[i + Len(s)] = t[i]
  BY <1>1, <1>2
<1>5. Range(r) = Range(s) \cup Range(t)
  <2>1. Range(r) \subseteq Range(s) \cup Range(t)
    <3>1. ASSUME NEW i \in DOMAIN r PROVE r[i] \in Range(s) \cup Range(t)
      <4>1. CASE i <= Len(s)
        BY <4>1, <1>1, <1>2 DEF Range
      <4>2. CASE i > Len(s)
        <5>1. i - Len(s) \in DOMAIN t /\ r[i] = t[i - Len(s)]
          BY <4>2, <1>1, <1>2
        <5> QED BY <5>1 DEF Range
      <4> QED BY <4>1, <4>2, <1>2
    <3> QED BY <3>1 DEF Range
  <2>2. Range(s) \subseteq Range(r) /\ Range(t) \subseteq Range(r)
    BY <1>2, <1>3, <1>4 DEF Range
  <2> QED BY <2>1, <2>2
<1>6. ASSUME IsInjective(r) PROVE IsInjective(s) /\ IsInjective(t) /\ Range(s) \cap Range(t) = {}
  <2>1. IsInjective(s)
    BY <1>6, <1>2, <1>3 DEF IsInjective
  <2>2. IsInjective(t)
    <3>1. ASSUME NEW i \in DOMAIN t, NEW j \in DOMAIN t, t[i] = t[j] PROVE i = j
      <4>1. i + Len(s) \in DOMAIN r /\ j + Len(s) \in DOMAIN r
            /\ r[i + Len(s)] = r[j + Len(s)]
        BY <3>1, <1>2, <1>4
      <4> QED BY <4>1, <1>2, <1>6 DEF IsInjective
    <3> QED BY <3>1 DEF IsInjective
  <2>3. ASSUME NEW i \in DOMAIN s, NEW j \in DOMAIN t, s[i] = t[j] PROVE FALSE
    <3>1. i \in DOMAIN r /\ r[i] = s[i] /\ j + Len(s) \in DOMAIN r /\ r[j + Len(s)] = t[j]
      BY <1>2, <1>3, <1>4
    <3>2. i = j + Len(s)
      BY <3>1, <2>3, <1>6 DEF IsInjective
    <3> QED BY <3>2, <1>2
  <2> QED BY <2>1, <2>2, <2>3 DEF Range
<1>7. ASSUME IsInjective(s), IsInjective(t), Range(s) \cap Range(t) = {} PROVE IsInjective(r)
  <2>1. ASSUME NEW i \in DOMAIN r, NEW j \in DOMAIN r, r[i] = r[j] PROVE i = j
    <3>1. CASE i <= Len(s) /\ j <= Len(s)
      BY <2>1, <3>1, <1>1, <1>2, <1>7 DEF IsInjective
    <3>2. CASE i > Len(s) /\ j > Len(s)
      <4>1. i - Len(s) \in DOMAIN t /\ j - Len(s) \in DOMAIN t
            /\ t[i - Len(s)] = t[j - Len(s)]
        BY <2>1, <3>2, <1>1, <1>2
      <4>2. i - Len(s) = j - Len(s)
        BY <4>1, <1>7 DEF IsInjective
      <4> QED BY <4>2, <1>2
    <3>3. CASE i <= Len(s) /\ j > Len(s)
      <4>1. i \in DOMAIN s /\ j - Len(s) \in DOMAIN t /\ s[i] = t[j - Len(s)]
        BY <2>1, <3>3, <1>1, <1>2
      <4> QED BY <4>1, <1>7 DEF Range
    <3>4. CASE i > Len(s) /\ j <= Len(s)
      <4>1. j \in DOMAIN s /\ i - Len(s) \in DOMAIN t /\ s[j] = t[i - Len(s)]
        BY <2>1, <3>4, <1>1, <1>2
      <4> QED BY <4>1, <1>7 DEF Range
    <3> QED BY <3>1, <3>2, <3>3, <3>4, <1>2
  <2> QED BY <2>1 DEF IsInjective
<1> QED
  BY <1>1, <1>5, <1>6, <1>7 DEF r

(* A sequence of one element.                                                *)
LEMMA Single ==
    ASSUME NEW S, NEW e \in S
    PROVE  <<e>> \in Seq(S) /\ Range(<<e>>) = {e} /\ IsInjective(<<e>>)
<1>1. <<e>> \in Seq(S) /\ DOMAIN <<e>> = {1} /\ <<e>>[1] = e
  OBVIOUS
<1> QED
  BY <1>1 DEF Range, IsInjective

(* An element put in front: the elements, whether one repeats, and the       *)
(* positions.                                                                *)
LEMMA Prepended ==
    ASSUME NEW S, NEW s \in Seq(S), NEW e \in S
    PROVE  /\ <<e>> \o s \in Seq(S) /\ Range(<<e>> \o s) = Range(s) \cup {e}
           /\ IsInjective(<<e>> \o s) <=> IsInjective(s) /\ e \notin Range(s)
           /\ Len(<<e>> \o s) = Len(s) + 1 /\ (<<e>> \o s)[1] = e
           /\ \A i \in 1..Len(s) : (<<e>> \o s)[i + 1] = s[i]
<1>1. <<e>> \in Seq(S) /\ Range(<<e>>) = {e} /\ IsInjective(<<e>>)
  BY Single
<1> DEFINE o == <<e>>
<1>2. /\ o \o s \in Seq(S) /\ Range(o \o s) = Range(o) \cup Range(s)
      /\ IsInjective(o \o s) <=> IsInjective(o) /\ IsInjective(s) /\ Range(o) \cap Range(s) = {}
  <2> HIDE DEF o
  <2> QED BY <1>1, Concatenated DEF o
<1>3. /\ Len(<<e>> \o s) = Len(s) + 1 /\ (<<e>> \o s)[1] = e
      /\ \A i \in 1..Len(s) : (<<e>> \o s)[i + 1] = s[i]
  OBVIOUS
<1> QED
  BY <1>1, <1>2, <1>3

(* The empty sequence has no element and repeats none.                       *)
LEMMA EmptyRange ==
    Range(<<>>) = {} /\ IsInjective(<<>>)
<1>1. DOMAIN <<>> = {}
  OBVIOUS
<1> QED
  BY <1>1 DEF Range, IsInjective

(* The elements of a sequence by their positions.                            *)
LEMMA NotEmpty ==
    ASSUME NEW S, NEW s \in Seq(S)
    PROVE  /\ Range(s) \subseteq S /\ Len(s) \in Nat
           /\ Range(s) = {} <=> s = <<>>
           /\ \A t : t \in Range(s) <=> \E i \in 1..Len(s) : s[i] = t
           /\ IsInjective(s) <=> \A i, j \in 1..Len(s) : s[i] = s[j] => i = j
<1>1. DOMAIN s = 1..Len(s) /\ Len(s) \in Nat /\ \A i \in 1..Len(s) : s[i] \in S
  OBVIOUS
<1>2. s = <<>> <=> Len(s) = 0
  OBVIOUS
<1>3. \A t : t \in Range(s) <=> \E i \in 1..Len(s) : s[i] = t
  BY <1>1 DEF Range
<1>4. Range(s) = {} <=> s = <<>>
  <2>1. s = <<>> => Range(s) = {}
    BY EmptyRange
  <2>2. s # <<>> => s[1] \in Range(s)
    BY <1>1, <1>2, <1>3
  <2> QED BY <2>1, <2>2
<1>5. IsInjective(s) <=> \A i, j \in 1..Len(s) : s[i] = s[j] => i = j
  BY <1>1 DEF IsInjective
<1> QED
  BY <1>1, <1>3, <1>4, <1>5

(* The head of a list without repetition, taken off.                         *)
LEMMA Beheaded ==
    ASSUME NEW S, NEW s \in Seq(S), s # <<>>
    PROVE  /\ Head(s) = s[1] /\ Head(s) \in Range(s) /\ Tail(s) \in Seq(S)
           /\ Len(Tail(s)) = Len(s) - 1 /\ Range(s) = Range(Tail(s)) \cup {Head(s)}
           /\ \A i \in 1..(Len(s) - 1) : Tail(s)[i] = s[i + 1]
           /\ IsInjective(s) <=> IsInjective(Tail(s)) /\ Head(s) \notin Range(Tail(s))
<1>1. Tail(s) \in Seq(S) /\ Head(s) \in S
  BY HeadTailProperties
<1>2. s = <<Head(s)>> \o Tail(s) /\ Head(s) = s[1] /\ Len(Tail(s)) = Len(s) - 1
      /\ (\A i \in 1..(Len(s) - 1) : Tail(s)[i] = s[i + 1])
  OBVIOUS
<1> DEFINE h == Head(s)
           t == Tail(s)
<1>3. /\ Range(<<h>> \o t) = Range(t) \cup {h}
      /\ IsInjective(<<h>> \o t) <=> IsInjective(t) /\ h \notin Range(t)
  <2> HIDE DEF h, t
  <2>1. h \in S /\ t \in Seq(S)
    BY <1>1 DEF h, t
  <2> QED BY <2>1, Prepended
<1>4. /\ Range(s) = Range(Tail(s)) \cup {Head(s)}
      /\ IsInjective(s) <=> IsInjective(Tail(s)) /\ Head(s) \notin Range(Tail(s))
  BY <1>2, <1>3, Zenon
<1> QED
  BY <1>1, <1>2, <1>4

(* A reversed sequence has the same elements, and repeats one only if the    *)
(* sequence did.                                                             *)
LEMMA Reversed ==
    ASSUME NEW S, NEW s \in Seq(S)
    PROVE  /\ Reverse(s) \in Seq(S) /\ Range(Reverse(s)) = Range(s)
           /\ IsInjective(s) => IsInjective(Reverse(s))
<1> DEFINE r == Reverse(s)
<1>1. Len(s) \in Nat /\ DOMAIN s = 1..Len(s)
  OBVIOUS
<1>2. r = [i \in 1..Len(s) |-> s[Len(s) - i + 1]]
  BY DEF Reverse
<1>3. DOMAIN r = 1..Len(s) /\ \A i \in 1..Len(s) : r[i] = s[Len(s) - i + 1]
  BY <1>2
<1>4. r \in Seq(S)
  <2>1. \A i \in 1..Len(s) : s[Len(s) - i + 1] \in S
    BY <1>1
  <2> QED BY <1>1, <1>2, <2>1, IsASeq
<1> HIDE DEF r
<1>5. \A i \in 1..Len(s) : Len(s) - i + 1 \in 1..Len(s) /\ r[Len(s) - i + 1] = s[i]
  BY <1>1, <1>3
<1>6. Range(r) = Range(s)
  BY <1>1, <1>3, <1>5 DEF Range
<1>7. IsInjective(s) => IsInjective(r)
  BY <1>1, <1>3, <1>5 DEF IsInjective
<1> QED
  BY <1>4, <1>6, <1>7 DEF r

(* Without its first e, a sequence that repeats nothing has all its elements *)
(* but e.                                                                    *)
LEMMA Dropped ==
    ASSUME NEW S, NEW s \in Seq(S), IsInjective(s), NEW e \in Range(s)
    PROVE  LET r == RemoveFirst(s, e)
           IN  r \in Seq(S) /\ IsInjective(r) /\ Range(r) = Range(s) \ {e}
<1> DEFINE I == {i \in 1..Len(s) : s[i] = e}
           k == Min(I)
           r == RemoveFirst(s, e)
<1>1. Len(s) \in Nat /\ DOMAIN s = 1..Len(s)
  OBVIOUS
<1>2. PICK n \in 1..Len(s) : s[n] = e
  BY DEF Range
<1>3. I = {n}
  BY <1>2 DEF IsInjective
<1>4. k = n
  BY <1>3 DEF Min
<1>5. r = RemoveAt(s, k)
  BY <1>2 DEF RemoveFirst, SelectInSeq
<1> DEFINE a == SubSeq(s, 1, n - 1)
           b == SubSeq(s, n + 1, Len(s))
<1>6. r = a \o b
  BY <1>4, <1>5 DEF RemoveAt
<1>7. a \in Seq(S) /\ Len(a) = n - 1 /\ \A i \in 1..(n - 1) : a[i] = s[i]
  OBVIOUS
<1>8. b \in Seq(S) /\ Len(b) = Len(s) - n /\ \A i \in 1..(Len(s) - n) : b[i] = s[n + i]
  OBVIOUS
<1> HIDE DEF r, a, b, I, k
<1>18. DOMAIN b = 1..(Len(s) - n) /\ DOMAIN a = 1..(n - 1) /\ Len(s) - n \in Nat
  BY <1>1, <1>7, <1>8
<1>9. Range(a) = {s[i] : i \in 1..(n - 1)}
  BY <1>7 DEF Range
<1>10. Range(b) = {s[n + i] : i \in 1..(Len(s) - n)}
  BY <1>8, <1>18 DEF Range
<1>11. IsInjective(a)
  BY <1>1, <1>7 DEF IsInjective
<1>12. IsInjective(b)
  <2>1. ASSUME NEW i \in DOMAIN b, NEW j \in DOMAIN b, b[i] = b[j] PROVE i = j
    <3>3. i \in 1..(Len(s) - n) /\ j \in 1..(Len(s) - n)
      BY <1>18, <2>1
    <3>1. n + i \in DOMAIN s /\ n + j \in DOMAIN s
      BY <1>1, <3>3
    <3>4. s[n + i] = s[n + j]
      BY <1>8, <3>3, <2>1
    <3>2. n + i = n + j
      BY <3>1, <3>4 DEF IsInjective
    <3> QED BY <3>2, <3>3
  <2> QED BY <2>1 DEF IsInjective
<1>13. Range(a) \cap Range(b) = {}
  BY <1>1, <1>9, <1>10 DEF IsInjective
<1>14. r \in Seq(S) /\ IsInjective(r) /\ Range(r) = Range(a) \cup Range(b)
  BY <1>6, <1>7, <1>8, <1>11, <1>12, <1>13, Concatenated
<1>15. Range(a) \cup Range(b) \subseteq Range(s) \ {e}
  <2>1. ASSUME NEW i \in DOMAIN s, i # n PROVE s[i] \in Range(s) \ {e}
    BY <1>1, <1>2, <2>1 DEF IsInjective, Range
  <2>2. \A i \in 1..(n - 1) : i \in DOMAIN s /\ i # n
    BY <1>1
  <2>3. \A i \in 1..(Len(s) - n) : n + i \in DOMAIN s /\ n + i # n
    BY <1>1
  <2>4. Range(a) \subseteq Range(s) \ {e}
    BY <2>1, <2>2, <1>9
  <2>5. Range(b) \subseteq Range(s) \ {e}
    BY <2>1, <2>3, <1>10
  <2> QED BY <2>4, <2>5
<1>16. ASSUME NEW i \in 1..Len(s), s[i] # e PROVE s[i] \in Range(a) \cup Range(b)
  <2>1. CASE i < n
    BY <2>1, <1>9
  <2>2. CASE i > n
    <3>1. i - n \in 1..(Len(s) - n) /\ s[i] = s[n + (i - n)]
      BY <2>2
    <3> QED BY <3>1, <1>10
  <2> QED BY <1>2, <1>16, <2>1, <2>2
<1>17. Range(s) \ {e} \subseteq Range(a) \cup Range(b)
  BY <1>1, <1>16 DEF Range
<1> QED
  BY <1>14, <1>15, <1>17 DEF r

(* The done list, step by step: the recursive function of UnhaltAll exists.          *)
LEMMA UnhaltAllSteps ==
    ASSUME NEW x, NEW s, Len(s) \in Nat
    PROVE  \E f : /\ f[0] = x
                  /\ \A n \in 1..Len(s) : f[n] = Unhalt(f[n - 1], s[n])
                  /\ UnhaltAll(x, s) = f[Len(s)]
<1> DEFINE N == Len(s)
           Is(f, k) == f = [n \in 0..k |-> IF n = 0 THEN x ELSE Unhalt(f[n - 1], s[n])]
           A == {k \in Nat : \E f : Is(f, k)}
<1>1. 0 \in A
  <2> DEFINE f == [n \in 0..0 |-> x]
  <2>1. Is(f, 0)
    OBVIOUS
  <2> HIDE DEF f
  <2> QED BY <2>1
<1>2. ASSUME NEW k \in Nat, k \in A PROVE k + 1 \in A
  <2>1. PICK f : Is(f, k)
    BY <1>2
  <2> DEFINE g == [n \in 0..(k + 1) |-> IF n <= k THEN f[n] ELSE Unhalt(f[k], s[n])]
  <2>2. ASSUME NEW n \in 0..(k + 1) PROVE g[n] = IF n = 0 THEN x ELSE Unhalt(g[n - 1], s[n])
    <3>1. CASE n = 0
      BY <3>1, <2>1
    <3>2. CASE n # 0 /\ n <= k
      <4>1. f[n] = Unhalt(f[n - 1], s[n])
        BY <3>2, <2>1
      <4>2. g[n] = f[n] /\ g[n - 1] = f[n - 1]
        BY <3>2
      <4> HIDE DEF g
      <4> QED BY <4>1, <4>2, <3>2
    <3>3. CASE n = k + 1
      <4>1. g[n] = Unhalt(f[k], s[n]) /\ g[n - 1] = f[n - 1] /\ n # 0 /\ n - 1 = k
        BY <3>3
      <4> HIDE DEF g
      <4> QED BY <4>1
    <3> QED BY <3>1, <3>2, <3>3
  <2>3. g = [n \in 0..(k + 1) |-> g[n]]
    OBVIOUS
  <2> HIDE DEF g
  <2>4. Is(g, k + 1)
    BY <2>2, <2>3
  <2> QED BY <2>4
<1>3. Nat \subseteq A
  <2> HIDE DEF A
  <2> QED BY <1>1, <1>2, Induction
<1>4. \E f : Is(f, N)
  BY <1>3
<1> DEFINE after == CHOOSE f : Is(f, N)
<1>5. Is(after, N)
  <2> HIDE DEF Is
  <2> QED BY <1>4
<1>6. UnhaltAll(x, s) = after[N]
  BY DEF UnhaltAll
<1> HIDE DEF after
<1>7. after[0] = x /\ \A n \in 1..N : after[n] = Unhalt(after[n - 1], s[n])
  BY <1>5
<1> QED
  BY <1>6, <1>7

(* The endpoints freed, step by step: the recursive function of FreeEds exists.          *)
LEMMA FreeEdsSteps ==
    ASSUME NEW x, NEW s, Len(s) \in Nat
    PROVE  \E f : /\ f[0] = x
                  /\ \A n \in 1..Len(s) : f[n] = FreeEd(f[n - 1], s[n])
                  /\ FreeEds(x, s) = f[Len(s)]
<1> DEFINE N == Len(s)
           Is(f, k) == f = [n \in 0..k |-> IF n = 0 THEN x ELSE FreeEd(f[n - 1], s[n])]
           A == {k \in Nat : \E f : Is(f, k)}
<1>1. 0 \in A
  <2> DEFINE f == [n \in 0..0 |-> x]
  <2>1. Is(f, 0)
    OBVIOUS
  <2> HIDE DEF f
  <2> QED BY <2>1
<1>2. ASSUME NEW k \in Nat, k \in A PROVE k + 1 \in A
  <2>1. PICK f : Is(f, k)
    BY <1>2
  <2> DEFINE g == [n \in 0..(k + 1) |-> IF n <= k THEN f[n] ELSE FreeEd(f[k], s[n])]
  <2>2. ASSUME NEW n \in 0..(k + 1) PROVE g[n] = IF n = 0 THEN x ELSE FreeEd(g[n - 1], s[n])
    <3>1. CASE n = 0
      BY <3>1, <2>1
    <3>2. CASE n # 0 /\ n <= k
      <4>1. f[n] = FreeEd(f[n - 1], s[n])
        BY <3>2, <2>1
      <4>2. g[n] = f[n] /\ g[n - 1] = f[n - 1]
        BY <3>2
      <4> HIDE DEF g
      <4> QED BY <4>1, <4>2, <3>2
    <3>3. CASE n = k + 1
      <4>1. g[n] = FreeEd(f[k], s[n]) /\ g[n - 1] = f[n - 1] /\ n # 0 /\ n - 1 = k
        BY <3>3
      <4> HIDE DEF g
      <4> QED BY <4>1
    <3> QED BY <3>1, <3>2, <3>3
  <2>3. g = [n \in 0..(k + 1) |-> g[n]]
    OBVIOUS
  <2> HIDE DEF g
  <2>4. Is(g, k + 1)
    BY <2>2, <2>3
  <2> QED BY <2>4
<1>3. Nat \subseteq A
  <2> HIDE DEF A
  <2> QED BY <1>1, <1>2, Induction
<1>4. \E f : Is(f, N)
  BY <1>3
<1> DEFINE after == CHOOSE f : Is(f, N)
<1>5. Is(after, N)
  <2> HIDE DEF Is
  <2> QED BY <1>4
<1>6. FreeEds(x, s) = after[N]
  BY DEF FreeEds
<1> HIDE DEF after
<1>7. after[0] = x /\ \A n \in 1..N : after[n] = FreeEd(after[n - 1], s[n])
  BY <1>5
<1> QED
  BY <1>6, <1>7

(* The endpoints removed, step by step: the recursive function of DelEds exists.          *)
LEMMA DelEdsSteps ==
    ASSUME NEW x, NEW s, Len(s) \in Nat
    PROVE  \E f : /\ f[0] = x
                  /\ \A n \in 1..Len(s) : f[n] = DelEd(f[n - 1], s[n])
                  /\ DelEds(x, s) = f[Len(s)]
<1> DEFINE N == Len(s)
           Is(f, k) == f = [n \in 0..k |-> IF n = 0 THEN x ELSE DelEd(f[n - 1], s[n])]
           A == {k \in Nat : \E f : Is(f, k)}
<1>1. 0 \in A
  <2> DEFINE f == [n \in 0..0 |-> x]
  <2>1. Is(f, 0)
    OBVIOUS
  <2> HIDE DEF f
  <2> QED BY <2>1
<1>2. ASSUME NEW k \in Nat, k \in A PROVE k + 1 \in A
  <2>1. PICK f : Is(f, k)
    BY <1>2
  <2> DEFINE g == [n \in 0..(k + 1) |-> IF n <= k THEN f[n] ELSE DelEd(f[k], s[n])]
  <2>2. ASSUME NEW n \in 0..(k + 1) PROVE g[n] = IF n = 0 THEN x ELSE DelEd(g[n - 1], s[n])
    <3>1. CASE n = 0
      BY <3>1, <2>1
    <3>2. CASE n # 0 /\ n <= k
      <4>1. f[n] = DelEd(f[n - 1], s[n])
        BY <3>2, <2>1
      <4>2. g[n] = f[n] /\ g[n - 1] = f[n - 1]
        BY <3>2
      <4> HIDE DEF g
      <4> QED BY <4>1, <4>2, <3>2
    <3>3. CASE n = k + 1
      <4>1. g[n] = DelEd(f[k], s[n]) /\ g[n - 1] = f[n - 1] /\ n # 0 /\ n - 1 = k
        BY <3>3
      <4> HIDE DEF g
      <4> QED BY <4>1
    <3> QED BY <3>1, <3>2, <3>3
  <2>3. g = [n \in 0..(k + 1) |-> g[n]]
    OBVIOUS
  <2> HIDE DEF g
  <2>4. Is(g, k + 1)
    BY <2>2, <2>3
  <2> QED BY <2>4
<1>3. Nat \subseteq A
  <2> HIDE DEF A
  <2> QED BY <1>1, <1>2, Induction
<1>4. \E f : Is(f, N)
  BY <1>3
<1> DEFINE after == CHOOSE f : Is(f, N)
<1>5. Is(after, N)
  <2> HIDE DEF Is
  <2> QED BY <1>4
<1>6. DelEds(x, s) = after[N]
  BY DEF DelEds
<1> HIDE DEF after
<1>7. after[0] = x /\ \A n \in 1..N : after[n] = DelEd(after[n - 1], s[n])
  BY <1>5
<1> QED
  BY <1>6, <1>7

More(g) ==
    LET b == NextBlock(Refill(g.pool))
    IN  IF CanAlloc(g.pool)
        THEN [pool |-> Take(Refill(g.pool), b), tds |-> Append(g.tds, b)]
        ELSE g

(* td_alloc, one TD after the other.                                        *)
LEMMA AllocSteps ==
    ASSUME NEW p, NEW N \in Nat
    PROVE  \E f : /\ f[0] = [pool |-> p, tds |-> <<>>]
                  /\ \A n \in 1..N : f[n] = More(f[n - 1])
                  /\ AllocTds(p, N) = f[N]
<1> DEFINE Is(f, k) == f = [n \in 0..k |-> IF n = 0 THEN [pool |-> p, tds |-> <<>>] ELSE More(f[n - 1])]
           A == {k \in Nat : \E f : Is(f, k)}
<1>1. 0 \in A
  <2> DEFINE f == [n \in 0..0 |-> [pool |-> p, tds |-> <<>>]]
  <2>1. Is(f, 0)
    OBVIOUS
  <2> HIDE DEF f
  <2> QED BY <2>1
<1>2. ASSUME NEW k \in Nat, k \in A PROVE k + 1 \in A
  <2>1. PICK f : Is(f, k)
    BY <1>2
  <2> DEFINE g == [n \in 0..(k + 1) |-> IF n <= k THEN f[n] ELSE More(f[k])]
  <2>2. ASSUME NEW n \in 0..(k + 1) PROVE g[n] = IF n = 0 THEN [pool |-> p, tds |-> <<>>] ELSE More(g[n - 1])
    <3>1. CASE n = 0
      BY <3>1, <2>1
    <3>2. CASE n # 0 /\ n <= k
      <4>1. f[n] = More(f[n - 1])
        BY <3>2, <2>1
      <4>2. g[n] = f[n] /\ g[n - 1] = f[n - 1]
        BY <3>2
      <4> HIDE DEF g
      <4> QED BY <4>1, <4>2, <3>2
    <3>3. CASE n = k + 1
      <4>1. g[n] = More(f[k]) /\ g[n - 1] = f[n - 1] /\ n # 0 /\ n - 1 = k
        BY <3>3
      <4> HIDE DEF g
      <4> QED BY <4>1
    <3> QED BY <3>1, <3>2, <3>3
  <2>3. g = [n \in 0..(k + 1) |-> g[n]]
    OBVIOUS
  <2> HIDE DEF g
  <2>4. Is(g, k + 1)
    BY <2>2, <2>3
  <2> QED BY <2>4
<1>3. Nat \subseteq A
  <2> HIDE DEF A
  <2> QED BY <1>1, <1>2, Induction
<1>4. \E f : Is(f, N)
  BY <1>3
<1> DEFINE got == CHOOSE f : Is(f, N)
<1>5. Is(got, N)
  <2> HIDE DEF Is
  <2> QED BY <1>4
<1>6. AllocTds(p, N) = got[N]
  BY DEF AllocTds, More
<1> HIDE DEF got
<1>7. /\ got[0] = [pool |-> p, tds |-> <<>>]
      /\ \A n \in 1..N : got[n] = More(got[n - 1])
  BY <1>5
<1> QED
  BY <1>6, <1>7

Following(x, e, q) ==
    LET t == IF q = <<>> THEN x.ed[e].head ELSE x.td[Last(q)].next
    IN  IF t \in {x.ed[e].tail, Nil} THEN q ELSE Append(q, t)

(* A queue, one TD after the other.                                         *)
LEMMA QueueSteps ==
    ASSUME NEW x, NEW e, NEW N, N = Cardinality(Blocks), N \in Nat
    PROVE  \E f : /\ f[0] = <<>>
                  /\ \A n \in 1..N : f[n] = Following(x, e, f[n - 1])
                  /\ Queue(x, e) = f[N]
<1> DEFINE Is(f, k) == f = [n \in 0..k |-> IF n = 0 THEN <<>> ELSE Following(x, e, f[n - 1])]
           A == {k \in Nat : \E f : Is(f, k)}
<1>1. 0 \in A
  <2> DEFINE f == [n \in 0..0 |-> <<>>]
  <2>1. Is(f, 0)
    OBVIOUS
  <2> HIDE DEF f
  <2> QED BY <2>1
<1>2. ASSUME NEW k \in Nat, k \in A PROVE k + 1 \in A
  <2>1. PICK f : Is(f, k)
    BY <1>2
  <2> DEFINE g == [n \in 0..(k + 1) |-> IF n <= k THEN f[n] ELSE Following(x, e, f[k])]
  <2>2. ASSUME NEW n \in 0..(k + 1) PROVE g[n] = IF n = 0 THEN <<>> ELSE Following(x, e, g[n - 1])
    <3>1. CASE n = 0
      BY <3>1, <2>1
    <3>2. CASE n # 0 /\ n <= k
      <4>1. f[n] = Following(x, e, f[n - 1])
        BY <3>2, <2>1
      <4>2. g[n] = f[n] /\ g[n - 1] = f[n - 1]
        BY <3>2
      <4> HIDE DEF g
      <4> QED BY <4>1, <4>2, <3>2
    <3>3. CASE n = k + 1
      <4>1. g[n] = Following(x, e, f[k]) /\ g[n - 1] = f[n - 1] /\ n # 0 /\ n - 1 = k
        BY <3>3
      <4> HIDE DEF g
      <4> QED BY <4>1
    <3> QED BY <3>1, <3>2, <3>3
  <2>3. g = [n \in 0..(k + 1) |-> g[n]]
    OBVIOUS
  <2> HIDE DEF g
  <2>4. Is(g, k + 1)
    BY <2>2, <2>3
  <2> QED BY <2>4
<1>3. Nat \subseteq A
  <2> HIDE DEF A
  <2> QED BY <1>1, <1>2, Induction
<1>4. \E f : Is(f, N)
  BY <1>3
<1> DEFINE first == CHOOSE f : Is(f, N)
<1>5. Is(first, N)
  <2> HIDE DEF Is
  <2> QED BY <1>4
<1>6. Queue(x, e) = first[N]
  BY DEF Queue, Following
<1> HIDE DEF first
<1>7. first[0] = <<>> /\ \A n \in 1..N : first[n] = Following(x, e, first[n - 1])
  BY <1>5
<1> QED
  BY <1>6, <1>7

(* The allocation loop of a submit returns at most N distinct blocks that    *)
(* were free, and they are all that is in use in addition.                   *)
LEMMA TdsAllocated ==
    ASSUME NEW p \in Pools, NEW N \in Nat
    PROVE  LET g == AllocTds(p, N) IN
           /\ g.pool \in Pools /\ g.tds \in Seq(Blocks) /\ IsInjective(g.tds)
           /\ Len(g.tds) <= N /\ Range(g.tds) \cap InUse(p) = {}
           /\ InUse(g.pool) = InUse(p) \cup Range(g.tds)
<1> DEFINE OK(g, n) ==
           /\ g.pool \in Pools /\ g.tds \in Seq(Blocks) /\ IsInjective(g.tds)
           /\ Len(g.tds) <= n /\ Range(g.tds) \cap InUse(p) = {}
           /\ InUse(g.pool) = InUse(p) \cup Range(g.tds)
<1>1. PICK f : f[0] = [pool |-> p, tds |-> <<>>] /\ (\A n \in 1..N : f[n] = More(f[n - 1]))
               /\ AllocTds(p, N) = f[N]
  BY AllocSteps
<1> DEFINE A == {n \in 0..N : OK(f[n], n)}
<1>2. 0 \in A
  <2>1. f[0].pool = p /\ f[0].tds = <<>>
    BY <1>1
  <2>2. <<>> \in Seq(Blocks) /\ Len(<<>>) = 0
    OBVIOUS
  <2>3. IsInjective(<<>>) /\ Range(<<>>) = {}
    BY EmptyRange
  <2>4. OK(f[0], 0)
    <3> HIDE DEF OK
    <3>1. OK([pool |-> p, tds |-> <<>>], 0)
      BY <2>2, <2>3 DEF OK
    <3> QED BY <3>1, <1>1
  <2> QED BY <2>4
<1>3. ASSUME NEW n \in 0..(N - 1), n \in A PROVE n + 1 \in A
  <2> DEFINE g == f[n]
             b == NextBlock(Refill(g.pool))
  <2>1. OK(g, n)
    BY <1>3
  <2>2. f[n + 1] = More(g) /\ n + 1 \in 0..N
    BY <1>1
  <2> HIDE DEF g
  <2>3. CASE ~CanAlloc(g.pool)
    <3>1. f[n + 1] = g
      BY <2>2, <2>3 DEF More
    <3> QED BY <2>1, <2>2, <3>1
  <2>4. CASE CanAlloc(g.pool)
    <3> DEFINE q == Take(Refill(g.pool), b)
    <3>1. f[n + 1] = [pool |-> q, tds |-> Append(g.tds, b)]
      BY <2>2, <2>4 DEF More
    <3>2. q \in Pools /\ b \in Blocks \ InUse(g.pool) /\ InUse(q) = InUse(g.pool) \cup {b}
      <4> HIDE DEF b
      <4> QED BY <2>1, <2>4, BlockTaken DEF b
    <3> HIDE DEF b, q
    <3>3. b \notin Range(g.tds)
      BY <2>1, <3>2
    <3>4. Append(g.tds, b) \in Seq(Blocks) /\ IsInjective(Append(g.tds, b))
          /\ Range(Append(g.tds, b)) = Range(g.tds) \cup {b}
      BY <2>1, <3>2, <3>3, Appended
    <3>5. Len(Append(g.tds, b)) <= n + 1
      BY <2>1
    <3>6. f[n + 1].pool = q /\ f[n + 1].tds = Append(g.tds, b)
      BY <3>1
    <3> QED BY <2>1, <2>2, <3>2, <3>4, <3>5, <3>6
  <2> QED BY <2>3, <2>4
<1>4. 0..N \subseteq A
  <2> HIDE DEF A
  <2> QED BY <1>2, <1>3, BoundedInduction
<1> QED
  BY <1>1, <1>4

(* The pool has finitely many blocks.                                        *)
LEMMA BlocksFinite ==
    IsFiniteSet(Blocks) /\ Cardinality(Blocks) \in Nat
<1>1. IsFiniteSet(PageIds)
  BY FS_Interval, PoolAssumption DEF PageIds
<1>2. IsFiniteSet(0..(PerPage - 1))
  BY FS_Interval, PoolAssumption
<1>3. IsFiniteSet(Blocks)
  BY <1>1, <1>2, FS_Product DEF Blocks
<1> QED
  BY <1>3, FS_CardinalityType

(* A sequence of TDs without repetition is no longer than there are blocks.  *)
LEMMA ShortEnough ==
    ASSUME NEW q \in Seq(Blocks), IsInjective(q)
    PROVE  Len(q) <= Cardinality(Blocks) /\ Cardinality(Range(q)) = Len(q)
<1>1. Len(q) \in Nat /\ q \in [1..Len(q) -> Blocks] /\ DOMAIN q = 1..Len(q)
  BY LenProperties
<1>2. q \in Injection(1..Len(q), Blocks)
  BY <1>1 DEF Injection
<1>3. Cardinality(1..Len(q)) = Len(q) /\ IsFiniteSet(1..Len(q))
  BY <1>1, FS_Interval
<1>4. Cardinality(1..Len(q)) <= Cardinality(Blocks)
  BY <1>2, BlocksFinite, FS_Injection
<1>5. q \in Surjection(1..Len(q), Range(q))
  BY <1>1 DEF Surjection, Range
<1>6. q \in Injection(1..Len(q), Range(q))
  BY <1>1 DEF Injection, Range
<1>7. Cardinality(Range(q)) = Cardinality(1..Len(q))
  BY <1>3, <1>5, <1>6, FS_Surjection
<1> QED
  BY <1>3, <1>4, <1>7

(* The TD at position i of a queue, or the dummy behind the last one.        *)
Next1(q, i, tail) == IF i <= Len(q) THEN q[i] ELSE tail

Chained(td, q, h, tail) ==
    /\ q \in Seq(Blocks) /\ IsInjective(q) /\ tail \in Blocks \ Range(q)
    /\ h = Next1(q, 1, tail)
    /\ \A i \in 1..Len(q) : td[q[i]].next = Next1(q, i + 1, tail)

Path(x, e, q) == Chained(x.td, q, x.ed[e].head, x.ed[e].tail)

(* The queue that the model finds by following next from an endpoint's head  *)
(* to its tail is the path from the one to the other: paths are unique.      *)
LEMMA PathIsQueue ==
    ASSUME NEW x, NEW e, NEW q, Path(x, e, q), OhciAssumption
    PROVE  Queue(x, e) = q
<1> DEFINE N == Cardinality(Blocks)
           tail == x.ed[e].tail
<1>1. N \in Nat /\ Len(q) <= N /\ Len(q) \in Nat /\ q \in Seq(Blocks)
  BY BlocksFinite, ShortEnough DEF Path, Chained
<1>2. PICK f : f[0] = <<>> /\ (\A n \in 1..N : f[n] = Following(x, e, f[n - 1]))
               /\ Queue(x, e) = f[N]
  <2> HIDE DEF N
  <2> QED BY <1>1, QueueSteps DEF N
<1>3. /\ tail \in Blocks /\ x.ed[e].head = Next1(q, 1, tail)
      /\ \A i \in 1..Len(q) : x.td[q[i]].next = Next1(q, i + 1, tail)
      /\ \A i \in 1..Len(q) : q[i] # tail /\ q[i] # Nil
  <2>1. \A i \in 1..Len(q) : q[i] # Nil
    BY <1>1 DEF OhciAssumption
  <2>2. tail \notin Range(q)
    BY DEF Path, Chained
  <2>3. \A i \in 1..Len(q) : q[i] # tail
    BY <1>1, <2>2, NotEmpty
  <2> QED BY <2>1, <2>3 DEF Path, Chained
<1> DEFINE pre(n) == IF n <= Len(q) THEN SubSeq(q, 1, n) ELSE q
           A == {n \in 0..N : f[n] = pre(n)}
<1> HIDE DEF N, tail
<1>4. pre(0) = <<>> /\ \A n \in Nat : n >= Len(q) => pre(n) = q
  <2>1. SubSeq(q, 1, 0) = <<>>
    BY <1>1, SubSeqEmpty
  <2>2. SubSeq(q, 1, Len(q)) = q
    BY <1>1, SubSeqFull
  <2> QED BY <1>1, <2>1, <2>2
<1>5. ASSUME NEW n \in 0..(Len(q) - 1) PROVE pre(n + 1) = Append(pre(n), q[n + 1])
  <2>1. SubSeq(q, 1, n + 1) = SubSeq(q, 1, n + 1 - 1) \o <<q[n + 1]>>
    BY <1>1, SubSeqRecursiveSecond
  <2>2. SubSeq(q, 1, n) \in Seq(Blocks) /\ q[n + 1] \in Blocks /\ n + 1 - 1 = n
    BY <1>1
  <2>3. Append(SubSeq(q, 1, n), q[n + 1]) = SubSeq(q, 1, n) \o <<q[n + 1]>>
    BY <2>2, AppendIsConcat
  <2>4. pre(n) = SubSeq(q, 1, n) /\ pre(n + 1) = SubSeq(q, 1, n + 1)
    BY <1>1
  <2> QED BY <2>1, <2>2, <2>3, <2>4
<1>6. ASSUME NEW n \in 1..Len(q) PROVE pre(n) # <<>> /\ Last(pre(n)) = q[n]
  <2> DEFINE s == SubSeq(q, 1, n)
  <2>1. pre(n) = s
    BY <1>1
  <2>2. s \in Seq(Blocks) /\ Len(s) = n /\ s[n] = q[n] /\ n > 0
    BY <1>1
  <2> HIDE DEF s, pre
  <2>3. s # <<>>
    BY <2>2
  <2>4. Last(s) = q[n]
    BY <2>2, Zenon DEF Last
  <2> QED BY <2>1, <2>3, <2>4, Zenon
<1> HIDE DEF pre
<1>7. 0 \in A
  BY <1>1, <1>2, <1>4
<1>8. ASSUME NEW n \in 0..(N - 1), n \in A PROVE n + 1 \in A
  <2>1. f[n + 1] = Following(x, e, pre(n)) /\ n + 1 \in 0..N /\ n \in Nat
    BY <1>1, <1>2, <1>8
  <2> DEFINE t == IF pre(n) = <<>> THEN x.ed[e].head ELSE x.td[Last(pre(n))].next
  <2>2. t = Next1(q, n + 1, tail)
    <3>1. CASE n = 0
      BY <1>3, <1>4, <3>1
    <3>2. CASE n > 0 /\ n <= Len(q)
      <4>1. n \in 1..Len(q)
        BY <3>2, <2>1, <1>1
      <4> QED BY <1>3, <1>6, <4>1
    <3>3. CASE n > Len(q) /\ q = <<>>
      <4>1. pre(n) = <<>> /\ x.ed[e].head = tail
        BY <1>3, <1>4, <3>3, <2>1, <1>1 DEF Next1
      <4> QED BY <3>3, <4>1, <2>1, <1>1 DEF Next1
    <3>4. CASE n > Len(q) /\ q # <<>>
      <4>1. Len(q) \in 1..Len(q) /\ pre(n) = q /\ Last(q) = q[Len(q)]
        BY <1>1, <1>4, <3>4, <2>1 DEF Last
      <4>2. x.td[Last(q)].next = tail
        BY <1>3, <4>1, <1>1 DEF Next1
      <4> QED BY <3>4, <4>1, <4>2, <2>1, <1>1 DEF Next1
    <3> QED BY <3>1, <3>2, <3>3, <3>4, <2>1, <1>1
  <2>3. Following(x, e, pre(n)) = IF t \in {tail, Nil} THEN pre(n) ELSE Append(pre(n), t)
    BY DEF Following, tail
  <2> HIDE DEF t
  <2>4. CASE n < Len(q)
    <3>1. n + 1 \in 1..Len(q) /\ n \in 0..(Len(q) - 1)
      BY <2>1, <2>4, <1>1
    <3>2. t = q[n + 1] /\ t # tail /\ t # Nil
      BY <1>3, <2>2, <3>1 DEF Next1
    <3>3. pre(n + 1) = Append(pre(n), q[n + 1])
      BY <1>5, <3>1
    <3> QED BY <2>1, <2>3, <3>2, <3>3
  <2>5. CASE n >= Len(q)
    <3>1. t = tail
      BY <2>1, <2>2, <2>5, <1>1 DEF Next1
    <3>2. pre(n) = q /\ pre(n + 1) = q
      BY <2>1, <2>5, <1>1, <1>4
    <3> QED BY <2>1, <2>3, <3>1, <3>2
  <2> QED BY <2>1, <2>4, <2>5, <1>1
<1>9. 0..N \subseteq A
  <2> HIDE DEF A
  <2> QED BY <1>1, <1>7, <1>8, BoundedInduction
<1> QED
  BY <1>1, <1>2, <1>4, <1>9

(* The TD that comes first among those of G from position i of q on.         *)
FirstIn(q, G, tail, i) ==
    LET kept == {j \in i..Len(q) : q[j] \in G}
    IN  IF kept = {} THEN tail ELSE q[Min(kept)]

(* r is q without the TDs outside of G.                                      *)
Thin(q, G, tail, r) ==
    /\ r \in Seq(Blocks) /\ IsInjective(r) /\ Range(r) = Range(q) \cap G
    /\ FirstIn(q, G, tail, 1) = Next1(r, 1, tail)
    /\ \A i \in 1..Len(q) : q[i] \in G =>
         \E k \in 1..Len(r) : r[k] = q[i] /\ FirstIn(q, G, tail, 1 + i) = Next1(r, k + 1, tail)

(* A queue whose TDs of G are taken out by linking each kept TD to the next  *)
(* kept one is a queue again, of the kept TDs in their order.                *)
LEMMA Filtered ==
    ASSUME NEW q \in Seq(Blocks), IsInjective(q), NEW G, NEW tail
    PROVE  \E r \in Seq(Blocks) : Thin(q, G, tail, r)
<1> DEFINE N == Len(q)
<1>9. \A n \in 0..(N - 1) : N - n \in 1..N /\ N + 1 - n = (N - n) + 1 /\ N + 1 - (n + 1) = N - n
  <2>1. N \in Nat
    OBVIOUS
  <2> HIDE DEF N
  <2> QED BY <2>1
<1> DEFINE kept(i) == {j \in i..Len(q) : q[j] \in G}
           first(i) == IF kept(i) = {} THEN tail ELSE q[Min(kept(i))]
           OK(r, m) ==
             /\ r \in Seq(Blocks) /\ IsInjective(r)
             /\ Range(r) = {q[i] : i \in kept(m)}
             /\ first(m) = Next1(r, 1, tail)
             /\ \A i \in kept(m) :
                  \E k \in 1..Len(r) : r[k] = q[i] /\ first(1 + i) = Next1(r, k + 1, tail)
           B == {n \in 0..N : \E r, m : m = N + 1 - n /\ OK(r, m)}
<1>1. N \in Nat /\ DOMAIN q = 1..N /\ \A i \in 1..N : q[i] \in Blocks
  OBVIOUS
<1>2. 0 \in B
  <2>1. kept(N + 1) = {}
    BY <1>1
  <2>2. first(N + 1) = tail /\ Next1(<<>>, 1, tail) = tail
    BY <2>1 DEF Next1
  <2>3. OK(<<>>, N + 1)
    <3> HIDE DEF kept, first
    <3> QED BY <2>1, <2>2, EmptyRange
  <2>4. N + 1 - 0 = N + 1 /\ 0 \in 0..N
    BY <1>1
  <2> HIDE DEF OK
  <2> QED BY <2>3, <2>4
<1>3. ASSUME NEW n \in 0..(N - 1), n \in B PROVE n + 1 \in B
  <2> DEFINE m == N + 1 - n
             p == N - n
  <2>1. p \in 1..N /\ m = p + 1 /\ N + 1 - (n + 1) = p
    BY <1>9, Zenon
  <2>2. PICK r : OK(r, m)
    <3>1. PICK r, k : k = N + 1 - n /\ OK(r, k)
      <4> HIDE DEF OK
      <4> QED BY <1>3
    <3> HIDE DEF OK
    <3> QED BY <3>1
  <2> HIDE DEF m, p
  <2>3. CASE q[p] \notin G
    <3>1. kept(p) = kept(m)
      BY <2>1, <2>3, <1>1
    <3>2. first(p) = first(m)
      <4> HIDE DEF kept
      <4> QED BY <3>1
    <3>3. OK(r, p)
      <4> HIDE DEF kept, first
      <4> QED BY <2>2, <3>1, <3>2
    <3> HIDE DEF OK
    <3> QED BY <3>3, <2>1, <1>1
  <2>4. CASE q[p] \in G
    <3> DEFINE s == <<q[p]>> \o r
    <3>1. kept(p) = kept(m) \cup {p} /\ (\A i \in kept(m) : i > p /\ i \in 1..N)
      BY <2>1, <2>4, <1>1
    <3>2. Min(kept(p)) = p
      <4>1. \A j \in kept(p) : p <= j /\ j \in Int
        BY <2>1, <1>1
      <4>2. p \in kept(p)
        BY <3>1
      <4>3. \A x \in kept(p) : (\A y \in kept(p) : x <= y) => x = p
        <5> HIDE DEF kept
        <5> QED BY <4>1, <4>2, <2>1
      <4> HIDE DEF kept
      <4> QED BY <4>1, <4>2, <4>3 DEF Min
    <3>3. first(p) = q[p]
      <4> HIDE DEF kept
      <4> QED BY <3>1, <3>2
    <3>4. q[p] \notin Range(r)
      <4>1. Range(r) = {q[i] : i \in kept(m)}
        <5> HIDE DEF kept, first
        <5> QED BY <2>2
      <4>2. \A i \in 1..N : i > p => q[i] # q[p]
        BY <2>1, <1>1 DEF IsInjective
      <4> HIDE DEF kept
      <4> QED BY <4>1, <4>2, <3>1
    <3>5. /\ s \in Seq(Blocks) /\ IsInjective(s) /\ Range(s) = Range(r) \cup {q[p]}
          /\ Len(s) = Len(r) + 1 /\ s[1] = q[p] /\ \A i \in 1..Len(r) : s[i + 1] = r[i]
      <4>1. r \in Seq(Blocks) /\ IsInjective(r)
        <5> HIDE DEF kept, first
        <5> QED BY <2>2
      <4>2. q[p] \in Blocks
        BY <1>1, <2>1
      <4> QED BY <4>1, <4>2, <3>4, Prepended
    <3>6. Len(r) \in Nat /\ Range(r) = {q[i] : i \in kept(m)} /\ first(m) = Next1(r, 1, tail)
          /\ (\A i \in kept(m) :
                  \E k \in 1..Len(r) : r[k] = q[i] /\ first(1 + i) = Next1(r, k + 1, tail))
      <4>1. r \in Seq(Blocks)
        <5> HIDE DEF kept, first
        <5> QED BY <2>2
      <4>2. Len(r) \in Nat
        BY <4>1
      <4> HIDE DEF kept, first
      <4> QED BY <2>2, <4>2
    <3> HIDE DEF kept, first, s
    <3>7. \A k \in 1..(Len(r) + 1) : Next1(s, k + 1, tail) = Next1(r, k, tail)
      BY <3>5, <3>6 DEF Next1
    <3>8. ASSUME NEW i \in kept(p)
          PROVE  \E k \in 1..Len(s) : s[k] = q[i] /\ first(1 + i) = Next1(s, k + 1, tail)
      <4>1. CASE i = p
        <5>1. 1 \in 1..Len(s) /\ s[1] = q[i]
          BY <4>1, <3>5, <3>6
        <5>2. first(1 + i) = Next1(s, 1 + 1, tail)
          <6>1. 1 + i = m
            BY <2>1, <4>1
          <6>2. Next1(s, 1 + 1, tail) = Next1(r, 1, tail)
            BY <3>6, <3>7
          <6> QED BY <6>1, <6>2, <3>6
        <5> QED BY <5>1, <5>2
      <4>2. CASE i \in kept(m)
        <5>1. PICK k \in 1..Len(r) : r[k] = q[i] /\ first(1 + i) = Next1(r, k + 1, tail)
          BY <4>2, <3>6
        <5>2. k + 1 \in 1..Len(s) /\ s[k + 1] = q[i]
          BY <5>1, <3>5, <3>6
        <5>3. k + 1 \in 1..(Len(r) + 1)
          BY <5>1, <3>6
        <5>4. Next1(s, (k + 1) + 1, tail) = Next1(r, k + 1, tail)
          BY <5>3, <3>7
        <5> QED BY <5>1, <5>2, <5>4
      <4> QED BY <3>1, <4>1, <4>2
    <3>9. first(p) = Next1(s, 1, tail)
      BY <3>3, <3>5, <3>6 DEF Next1
    <3>10. Range(s) = {q[i] : i \in kept(p)}
      BY <3>1, <3>5, <3>6
    <3>11. OK(s, p)
      BY <3>5, <3>8, <3>9, <3>10
    <3> HIDE DEF OK
    <3> QED BY <3>11, <2>1, <1>1
  <2> QED BY <2>3, <2>4
<1>4. 0..N \subseteq B
  <2> HIDE DEF B
  <2> QED BY <1>1, <1>2, <1>3, BoundedInduction
<1>5. PICK r : OK(r, 1)
  <2>1. N \in B /\ N + 1 - N = 1
    <3> HIDE DEF B
    <3> QED BY <1>1, <1>4
  <2>2. PICK r, m : m = N + 1 - N /\ OK(r, m)
    <3> HIDE DEF OK
    <3> QED BY <2>1, Zenon
  <2>3. m = 1
    BY <2>1, <2>2, Zenon
  <2> HIDE DEF OK
  <2> QED BY <2>2, <2>3, Zenon
<1>6. \A i \in 1..N : q[i] \in G <=> i \in kept(1)
  BY <1>1
<1>7. {q[i] : i \in kept(1)} = Range(q) \cap G
  BY <1>1 DEF Range
<1>8. /\ r \in Seq(Blocks) /\ IsInjective(r) /\ Range(r) = Range(q) \cap G
      /\ first(1) = Next1(r, 1, tail)
      /\ \A i \in 1..N : q[i] \in G =>
           \E k \in 1..Len(r) : r[k] = q[i] /\ first(1 + i) = Next1(r, k + 1, tail)
  <2> HIDE DEF kept, first
  <2> QED BY <1>5, <1>6, <1>7
<1>10. \A i : first(i) = FirstIn(q, G, tail, i)
  BY DEF FirstIn
<1> HIDE DEF first
<1> QED
  BY <1>8, <1>10 DEF Thin

-----------------------------------------------------------------------------
(* The driver's data, record by record.                                      *)
Kinds == {"control", "bulk", "int"}
EdRec == [state : {"NEW", "UNLINK", "OPER", "DEL"}, urbdel : BOOLEAN,
          skip : BOOLEAN, halted : BOOLEAN,
          head : Blocks \cup {Nil}, tail : Blocks \cup {Nil}]
TdRec == [urb : Urbs \cup {Nil}, index : Nat, failed : BOOLEAN, next : Blocks \cup {Nil}]
UrbRec == [stage : {"idle", "filling", "linked"}, del : BOOLEAN, tds : Seq(Blocks), cnt : Nat]
DD == [ed : [Eds -> EdRec], td : [Blocks -> TdRec], urb : [Urbs -> UrbRec], pool : Pools,
       list : [Kinds -> Seq(Eds)], on : SUBSET Kinds, rm : [Frames -> Seq(Eds)]]

(* DD is the type of the driver's data.                                      *)
LEMMA Data == DriverData = DD
BY DEF DriverData, DD, EdRec, TdRec, UrbRec, Kinds

(* The types of the parts of the driver's data.                              *)
LEMMA Parts ==
    ASSUME NEW x \in DD
    PROVE  /\ x.ed \in [Eds -> EdRec] /\ x.td \in [Blocks -> TdRec] /\ x.urb \in [Urbs -> UrbRec]
           /\ x.pool \in Pools /\ x.list \in [Kinds -> Seq(Eds)] /\ x.on \in SUBSET Kinds
           /\ x.rm \in [Frames -> Seq(Eds)]
           /\ \A t \in Blocks : x.td[t].urb \in Urbs \cup {Nil} /\ x.td[t].index \in Nat
                                /\ x.td[t].next \in Blocks \cup {Nil}
           /\ \A u \in Urbs : x.urb[u].tds \in Seq(Blocks) /\ x.urb[u].cnt \in Nat
<1>1. /\ x.ed \in [Eds -> EdRec] /\ x.td \in [Blocks -> TdRec] /\ x.urb \in [Urbs -> UrbRec]
      /\ x.pool \in Pools /\ x.list \in [Kinds -> Seq(Eds)] /\ x.on \in SUBSET Kinds
      /\ x.rm \in [Frames -> Seq(Eds)]
  BY DEF DD
<1>2. \A r \in TdRec : r.urb \in Urbs \cup {Nil} /\ r.index \in Nat /\ r.next \in Blocks \cup {Nil}
  BY DEF TdRec
<1>3. \A r \in UrbRec : r.tds \in Seq(Blocks) /\ r.cnt \in Nat
  BY DEF UrbRec
<1> QED
  BY <1>1, <1>2, <1>3

(* A record of DD is what its seven parts make it.                           *)
LEMMA Whole7 ==
    ASSUME NEW x \in DD, NEW y,
           y = [x EXCEPT !.ed = y.ed, !.td = y.td, !.urb = y.urb, !.pool = y.pool,
                         !.list = y.list, !.on = y.on, !.rm = y.rm],
           y.ed \in [Eds -> EdRec], y.td \in [Blocks -> TdRec], y.urb \in [Urbs -> UrbRec],
           y.pool \in Pools, y.list \in [Kinds -> Seq(Eds)], y.on \in SUBSET Kinds,
           y.rm \in [Frames -> Seq(Eds)]
    PROVE  y \in DD
BY DEF DD

-----------------------------------------------------------------------------
(* The TDs of the driver's data x, with the queue Q[e] of each endpoint and  *)
(* D those that are done: the parts of the invariant.                        *)
Used(x) == {e \in Eds : x.ed[e].state # "NEW"}
Owner(x, t) == x.td[t].urb
Linked(x) == {u \in Urbs : x.urb[u].stage = "linked"}
Coming(Q) == UNION {Range(Q[e]) : e \in Eds}
Pending(x, Q, D, u) == {t \in Coming(Q) \cup D : Owner(x, t) = u}
Unfinished(x, t) == x.td[t].index + 1 < Size[Owner(x, t)]
Follows(x, s, t) == Owner(x, s) = Owner(x, t) /\ x.td[s].index = x.td[t].index + 1

Queues(x, Q) ==
    /\ Q \in [Eds -> Seq(Blocks)]
    /\ \A e \in Eds : IF e \in Used(x) THEN Path(x, e, Q[e]) ELSE Q[e] = <<>>
    /\ \A e \in Eds : \A t \in Range(Q[e]) : Owner(x, t) \in Urbs /\ Ep[Owner(x, t)] = e

Belongs(x) ==
    \A t \in Blocks : Owner(x, t) # Nil =>
        /\ t \in InUse(x.pool) /\ Owner(x, t) \in Linked(x)
        /\ x.td[t].index < Size[Owner(x, t)]
        /\ x.urb[Owner(x, t)].tds[x.td[t].index + 1] = t

Whole(x) ==
    \A u \in Linked(x) :
        /\ Len(x.urb[u].tds) = Size[u]
        /\ \A i \in 1..Size[u] :
              Owner(x, x.urb[u].tds[i]) = u /\ x.td[x.urb[u].tds[i]].index = i - 1

Dummies(x) ==
    \A e \in Used(x) :
        /\ x.ed[e].tail \in InUse(x.pool) /\ Owner(x, x.ed[e].tail) = Nil
        /\ \A f \in Used(x) : x.ed[f].tail = x.ed[e].tail => f = e

Ordered(x, Q) ==
    \A e \in Eds : \A i \in 1..Len(Q[e]) : Unfinished(x, Q[e][i]) =>
        i < Len(Q[e]) /\ Follows(x, Q[e][i + 1], Q[e][i])

Out(x, Q, D) ==
    /\ D \subseteq Blocks /\ D \cap Coming(Q) = {}
    /\ \A t \in D : Owner(x, t) \in Urbs /\ Ep[Owner(x, t)] \in Used(x)

Counted(x, Q, D, dead) ==
    \A u \in Urbs :
        /\ x.urb[u].cnt <= Size[u]
        /\ u \in Linked(x) =>
             /\ x.urb[u].cnt + Cardinality(Pending(x, Q, D, u)) <= Size[u]
             /\ ~dead => x.urb[u].cnt + Cardinality(Pending(x, Q, D, u)) = Size[u]

Tds(x, Q, D, dead) ==
    /\ Queues(x, Q) /\ Belongs(x) /\ Whole(x) /\ Dummies(x)
    /\ Ordered(x, Q) /\ Out(x, Q, D) /\ Counted(x, Q, D, dead)

(* Requests outside of S have TDs that are not counted yet.                  *)
Owing(x, S, dead) ==
    ~dead => \A u \in Linked(x) \ S : x.urb[u].cnt < Size[u]

(* The failed TDs of F, and the endpoints they have halted.                  *)
Halts(x, Q, F) ==
    /\ \A t \in F : x.td[t].failed =>
         /\ x.ed[Ep[Owner(x, t)]].halted
         /\ Unfinished(x, t) =>
              Q[Ep[Owner(x, t)]] # <<>> /\ Follows(x, Q[Ep[Owner(x, t)]][1], t)
    /\ \A s, t \in F :
         x.td[s].failed /\ x.td[t].failed /\ Ep[Owner(x, s)] = Ep[Owner(x, t)] => s = t

(* A TD is to come exactly when the queue of an endpoint in use holds it,    *)
(* and then its request belongs to that endpoint.                            *)
LEMMA ComingTd ==
    ASSUME NEW x, NEW Q, Queues(x, Q), NEW t
    PROVE  /\ t \in Coming(Q) <=> \E e \in Used(x) : t \in Range(Q[e])
           /\ t \in Coming(Q) => /\ t \in Blocks /\ Owner(x, t) \in Urbs
                                 /\ Ep[Owner(x, t)] \in Used(x)
                                 /\ t \in Range(Q[Ep[Owner(x, t)]])
<1>1. \A e \in Eds \ Used(x) : Range(Q[e]) = {}
  BY EmptyRange DEF Queues
<1>2. Used(x) \subseteq Eds
  BY DEF Used
<1>3. \A e \in Eds : Range(Q[e]) \subseteq Blocks
  <2>1. \A e \in Eds : Q[e] \in Seq(Blocks)
    BY DEF Queues
  <2> QED BY <2>1, NotEmpty
<1>4. t \in Coming(Q) <=> \E e \in Eds : t \in Range(Q[e])
  BY DEF Coming
<1>5. \A e \in Eds : t \in Range(Q[e]) => Owner(x, t) \in Urbs /\ Ep[Owner(x, t)] = e
  BY DEF Queues
<1> QED
  BY <1>1, <1>2, <1>3, <1>4, <1>5, Zenon

(* Nothing is said of TDs without a request, and of requests not yet linked. *)
LEMMA Untouched ==
    ASSUME NEW x \in DD, NEW y \in DD, NEW Q, NEW D, NEW dead, Tds(x, Q, D, dead), OhciAssumption,
           \A t \in Blocks : Owner(x, t) # Nil \/ Owner(y, t) # Nil => y.td[t] = x.td[t],
           \A u \in Urbs : u \in Linked(y) <=> u \in Linked(x),
           \A u \in Linked(x) : y.urb[u].tds = x.urb[u].tds /\ y.urb[u].cnt = x.urb[u].cnt,
           \A u \in Urbs : y.urb[u].cnt <= Size[u],
           InUse(x.pool) \subseteq InUse(y.pool),
           \A e \in Eds : e \in Used(y) <=> e \in Used(x),
           \A e \in Used(x) : /\ y.ed[e].head = x.ed[e].head /\ y.ed[e].tail = x.ed[e].tail
                              /\ y.ed[e].halted = x.ed[e].halted
    PROVE  /\ Tds(y, Q, D, dead)
           /\ \A F \in SUBSET D : Halts(x, Q, F) => Halts(y, Q, F)
           /\ \A S : Owing(x, S, dead) => Owing(y, S, dead)
<1>1. Queues(x, Q) /\ Belongs(x) /\ Whole(x) /\ Dummies(x)
      /\ Ordered(x, Q) /\ Out(x, Q, D) /\ Counted(x, Q, D, dead)
  BY DEF Tds
<1>2. Used(y) = Used(x) /\ Linked(y) = Linked(x) /\ Used(x) \subseteq Eds /\ Linked(x) \subseteq Urbs
  BY DEF Used, Linked
<1>3. Nil \notin Urbs /\ Nil \notin Blocks
  BY DEF OhciAssumption
<1>4. \A e \in Eds : \A t \in Range(Q[e]) : t \in Blocks /\ Owner(x, t) \in Urbs
                        /\ Ep[Owner(x, t)] = e /\ y.td[t] = x.td[t]
  <2> TAKE e \in Eds
  <2> TAKE t \in Range(Q[e])
  <2>1. t \in Coming(Q)
    BY DEF Coming
  <2>2. t \in Blocks /\ Owner(x, t) \in Urbs
    BY <2>1, <1>1, ComingTd
  <2>3. Ep[Owner(x, t)] = e
    BY <1>1 DEF Queues
  <2> QED BY <2>2, <2>3, <1>3
<1>5. \A t \in D : t \in Blocks /\ Owner(x, t) \in Urbs /\ y.td[t] = x.td[t]
  BY <1>1, <1>3 DEF Out
<1>6. \A e \in Eds : Q[e] \in Seq(Blocks) /\ \A i \in 1..Len(Q[e]) : Q[e][i] \in Range(Q[e])
  BY <1>1, NotEmpty DEF Queues
<1>7. Queues(y, Q)
  <2>1. ASSUME NEW e \in Used(x) PROVE Path(y, e, Q[e])
    <3>1. Path(x, e, Q[e]) /\ e \in Eds
      BY <1>1, <1>2 DEF Queues
    <3>2. \A i \in 1..Len(Q[e]) : y.td[Q[e][i]] = x.td[Q[e][i]]
      BY <3>1, <1>4, <1>6
    <3> QED BY <3>1, <3>2 DEF Path, Chained
  <2>2. \A e \in Eds : \A t \in Range(Q[e]) : Owner(y, t) \in Urbs /\ Ep[Owner(y, t)] = e
    BY <1>4 DEF Owner
  <2> QED BY <1>1, <1>2, <2>1, <2>2 DEF Queues
<1>8. Belongs(y)
  <2> SUFFICES ASSUME NEW t \in Blocks, Owner(y, t) # Nil
               PROVE  /\ t \in InUse(y.pool) /\ Owner(y, t) \in Linked(y)
                      /\ y.td[t].index < Size[Owner(y, t)]
                      /\ y.urb[Owner(y, t)].tds[y.td[t].index + 1] = t
    BY DEF Belongs
  <2>1. y.td[t] = x.td[t] /\ Owner(y, t) = Owner(x, t)
    BY DEF Owner
  <2>2. /\ t \in InUse(x.pool) /\ Owner(x, t) \in Linked(x)
        /\ x.td[t].index < Size[Owner(x, t)]
        /\ x.urb[Owner(x, t)].tds[x.td[t].index + 1] = t
    BY <1>1, <2>1 DEF Belongs
  <2> QED BY <2>1, <2>2, <1>2
<1>9. Whole(y)
  <2> SUFFICES ASSUME NEW u \in Linked(x)
               PROVE  /\ Len(y.urb[u].tds) = Size[u]
                      /\ \A i \in 1..Size[u] : /\ Owner(y, y.urb[u].tds[i]) = u
                                               /\ y.td[y.urb[u].tds[i]].index = i - 1
    BY <1>2 DEF Whole
  <2>1. y.urb[u].tds = x.urb[u].tds /\ u \in Urbs
    BY <1>2
  <2>2. /\ Len(x.urb[u].tds) = Size[u]
        /\ \A i \in 1..Size[u] : /\ Owner(x, x.urb[u].tds[i]) = u
                                 /\ x.td[x.urb[u].tds[i]].index = i - 1
    BY <1>1 DEF Whole
  <2>3. ASSUME NEW i \in 1..Size[u] PROVE y.td[x.urb[u].tds[i]] = x.td[x.urb[u].tds[i]]
    <3>1. x.urb[u].tds \in Seq(Blocks) /\ Len(x.urb[u].tds) = Size[u]
      BY <2>1, <2>2, Parts
    <3>2. x.urb[u].tds[i] \in Blocks
      BY <3>1
    <3>3. Owner(x, x.urb[u].tds[i]) # Nil
      BY <2>1, <2>2, <1>3
    <3> QED BY <3>2, <3>3
  <2> QED BY <2>1, <2>2, <2>3, SMTT(30) DEF Owner
<1>10. Dummies(y)
  <2> SUFFICES ASSUME NEW e \in Used(x)
               PROVE  /\ y.ed[e].tail \in InUse(y.pool) /\ Owner(y, y.ed[e].tail) = Nil
                      /\ \A f \in Used(x) : y.ed[f].tail = y.ed[e].tail => f = e
    BY <1>2 DEF Dummies
  <2>1. /\ x.ed[e].tail \in InUse(x.pool) /\ Owner(x, x.ed[e].tail) = Nil
        /\ \A f \in Used(x) : x.ed[f].tail = x.ed[e].tail => f = e
    BY <1>1 DEF Dummies
  <2>2. x.ed[e].tail \in Blocks
    BY <2>1 DEF InUse
  <2>3. Owner(y, x.ed[e].tail) = Nil
    BY <2>1, <2>2 DEF Owner
  <2> QED BY <2>1, <2>3
<1>11. Ordered(y, Q)
  <2> SUFFICES ASSUME NEW e \in Eds, NEW i \in 1..Len(Q[e]), Unfinished(y, Q[e][i])
               PROVE  i < Len(Q[e]) /\ Follows(y, Q[e][i + 1], Q[e][i])
    BY DEF Ordered
  <2>1. y.td[Q[e][i]] = x.td[Q[e][i]]
    BY <1>4, <1>6
  <2>2. Unfinished(x, Q[e][i])
    BY <2>1 DEF Unfinished, Owner
  <2>3. i < Len(Q[e]) /\ Follows(x, Q[e][i + 1], Q[e][i])
    BY <1>1, <2>2 DEF Ordered
  <2>4. i + 1 \in 1..Len(Q[e])
    BY <2>3, <1>6
  <2>5. y.td[Q[e][i + 1]] = x.td[Q[e][i + 1]]
    BY <2>4, <1>4, <1>6
  <2> QED BY <2>1, <2>3, <2>5 DEF Follows, Owner
<1>12. Out(y, Q, D)
  BY <1>1, <1>2, <1>5 DEF Out, Owner
<1>13. \A u \in Urbs : Pending(y, Q, D, u) = Pending(x, Q, D, u)
  <2>1. \A t \in Coming(Q) \cup D : Owner(y, t) = Owner(x, t)
    BY <1>4, <1>5 DEF Coming, Owner
  <2> QED BY <2>1 DEF Pending
<1>14. Counted(y, Q, D, dead)
  BY <1>1, <1>2, <1>13 DEF Counted
<1>15. ASSUME NEW F \in SUBSET D, Halts(x, Q, F) PROVE Halts(y, Q, F)
  <2>1. \A t \in F : y.td[t] = x.td[t]
    BY <1>5
  <2>2. ASSUME NEW t \in F, y.td[t].failed
        PROVE  /\ y.ed[Ep[Owner(y, t)]].halted
               /\ Unfinished(y, t) => /\ Q[Ep[Owner(y, t)]] # <<>>
                                      /\ Follows(y, Q[Ep[Owner(y, t)]][1], t)
    <3> DEFINE e == Ep[Owner(x, t)]
    <3>1. y.td[t] = x.td[t] /\ Owner(y, t) = Owner(x, t) /\ e \in Used(x) /\ x.td[t].failed
      BY <2>1, <2>2, <1>1 DEF Out, Owner
    <3>2. x.ed[e].halted /\ (Unfinished(x, t) => Q[e] # <<>> /\ Follows(x, Q[e][1], t))
      BY <3>1, <1>15 DEF Halts
    <3>3. y.ed[e].halted
      BY <3>1, <3>2
    <3>4. Q[e] # <<>> => y.td[Q[e][1]] = x.td[Q[e][1]]
      <4>1. Q[e] \in Seq(Blocks) /\ e \in Eds
        BY <3>1, <1>2, <1>6
      <4>2. Q[e] # <<>> => 1 \in 1..Len(Q[e])
        BY <4>1
      <4> QED BY <4>1, <4>2, <1>4, <1>6
    <3> QED BY <3>1, <3>2, <3>3, <3>4 DEF Unfinished, Follows, Owner
  <2>3. \A s, t \in F : y.td[s].failed /\ y.td[t].failed /\ Ep[Owner(y, s)] = Ep[Owner(y, t)] => s = t
    BY <2>1, <1>15 DEF Halts, Owner
  <2> QED BY <2>2, <2>3 DEF Halts
<1>16. \A S : Owing(x, S, dead) => Owing(y, S, dead)
  BY <1>2 DEF Owing
<1> QED
  BY <1>7, <1>8, <1>9, <1>10, <1>11, <1>12, <1>14, <1>15, <1>16 DEF Tds

(* The TDs of a request: the old dummy, and the new ones but for the last.   *)
LEMMA Shifted ==
    ASSUME NEW new \in Seq(Blocks), NEW n \in Nat \ {0}, Len(new) = n, IsInjective(new),
           NEW a \in Blocks \ Range(new)
    PROVE  LET w == <<a>> \o Front(new) IN
           /\ w \in Seq(Blocks) /\ IsInjective(w) /\ Len(w) = n /\ w[1] = a
           /\ Last(new) \in Blocks \ Range(w) /\ Last(new) \in Range(new)
           /\ Range(w) \cup {Last(new)} = Range(new) \cup {a}
           /\ \A i \in 1..n : new[i] = Next1(w, i + 1, Last(new))
<1> DEFINE g == Front(new)
           w == <<a>> \o g
           c == Last(new)
<1>1. g \in Seq(Blocks) /\ Len(g) = n - 1 /\ \A i \in 1..(n - 1) : g[i] = new[i]
  BY DEF Front
<1>2. c = new[n] /\ n \in 1..n /\ \A i \in 1..n : new[i] \in Blocks
  BY DEF Last
<1>3. \A t : t \in Range(new) <=> \E i \in 1..n : new[i] = t
  BY NotEmpty
<1>4. \A i, j \in 1..n : new[i] = new[j] => i = j
  BY NotEmpty
<1> HIDE DEF g, c
<1>5. \A t : t \in Range(g) <=> \E i \in 1..(n - 1) : g[i] = t
  BY <1>1, NotEmpty
<1>6. IsInjective(g)
  <2>1. \A i, j \in 1..(n - 1) : g[i] = g[j] => i = j
    BY <1>1, <1>4
  <2> QED BY <2>1, <1>1, NotEmpty
<1>7. a \notin Range(g)
  BY <1>1, <1>3, <1>5
<1>8. /\ w \in Seq(Blocks) /\ IsInjective(w) /\ Range(w) = Range(g) \cup {a}
      /\ Len(w) = n /\ w[1] = a /\ \A i \in 1..(n - 1) : w[i + 1] = g[i]
  BY <1>1, <1>6, <1>7, Prepended
<1>9. c \notin Range(g)
  <2>1. \A i \in 1..(n - 1) : g[i] # c
    BY <1>1, <1>2, <1>4
  <2> QED BY <2>1, <1>5
<1>10. c \in Range(new) /\ c # a
  BY <1>2, <1>3
<1>11. Range(g) \cup {c} = Range(new)
  <2>1. \A i \in 1..n : i = n \/ i \in 1..(n - 1)
    OBVIOUS
  <2> QED BY <2>1, <1>1, <1>2, <1>3, <1>5
<1> HIDE DEF w
<1>12. ASSUME NEW i \in 1..n PROVE new[i] = Next1(w, i + 1, c)
  <2>1. CASE i < n
    <3>1. i \in 1..(n - 1) /\ i + 1 <= Len(w)
      BY <2>1, <1>8
    <3> QED BY <3>1, <1>1, <1>8 DEF Next1
  <2>2. CASE i = n
    BY <2>2, <1>2, <1>8 DEF Next1
  <2> QED BY <2>1, <2>2
<1> QED
  BY <1>2, <1>8, <1>9, <1>10, <1>11, <1>12 DEF w, g, c

(* Two queues in a row.                                                      *)
LEMMA Joined ==
    ASSUME NEW td, NEW q, NEW w, NEW h, NEW a, NEW c,
           Chained(td, q, h, a), Chained(td, w, a, c), w # <<>>,
           Range(q) \cap Range(w) = {}, c \notin Range(q)
    PROVE  /\ Chained(td, q \o w, h, c) /\ Len(q \o w) = Len(q) + Len(w)
           /\ \A i \in 1..Len(q) : (q \o w)[i] = q[i]
           /\ \A i \in 1..Len(w) : (q \o w)[Len(q) + i] = w[i]
<1> DEFINE r == q \o w
<1>1. q \in Seq(Blocks) /\ IsInjective(q) /\ h = Next1(q, 1, a)
      /\ (\A i \in 1..Len(q) : td[q[i]].next = Next1(q, i + 1, a))
  BY DEF Chained
<1>10. w \in Seq(Blocks) /\ IsInjective(w) /\ c \in Blocks \ Range(w)
       /\ (\A i \in 1..Len(w) : td[w[i]].next = Next1(w, i + 1, c))
  BY DEF Chained
<1>11. w[1] = a
  <2>1. Len(w) >= 1
    BY <1>10
  <2> QED BY <2>1 DEF Chained, Next1
<1>2. Len(q) \in Nat /\ Len(w) \in Nat \ {0}
  BY <1>1, <1>10
<1>3. r \in Seq(Blocks) /\ Range(r) = Range(q) \cup Range(w) /\ IsInjective(r)
  BY <1>1, <1>10, Concatenated
<1>4. Len(r) = Len(q) + Len(w)
      /\ \A i \in 1..(Len(q) + Len(w)) : r[i] = IF i <= Len(q) THEN q[i] ELSE w[i - Len(q)]
  BY <1>1, <1>10, ConcatProperties
<1> HIDE DEF r
<1>5. h = Next1(r, 1, c)
  BY <1>1, <1>2, <1>4, <1>11 DEF Next1
<1>6. \A i \in 1..Len(q) : r[i] = q[i]
  BY <1>2, <1>4
<1>7. \A i \in 1..Len(w) : r[Len(q) + i] = w[i]
  BY <1>2, <1>4
<1>8. ASSUME NEW i \in 1..Len(r) PROVE td[r[i]].next = Next1(r, i + 1, c)
  <2>1. CASE i < Len(q)
    <3>1. i \in 1..Len(q) /\ i + 1 \in 1..Len(q)
      BY <2>1, <1>2, <1>4
    <3>2. r[i] = q[i] /\ r[i + 1] = q[i + 1] /\ td[q[i]].next = q[i + 1]
      BY <3>1, <1>1, <1>6 DEF Next1
    <3> QED BY <3>1, <3>2, <1>2, <1>4 DEF Next1
  <2>2. CASE i = Len(q)
    <3>1. i \in 1..Len(q) /\ r[i] = q[i] /\ td[q[i]].next = a
      BY <2>2, <1>1, <1>2, <1>4, <1>6 DEF Next1
    <3>2. i + 1 <= Len(r) /\ r[i + 1] = a
      BY <2>2, <1>2, <1>4, <1>7, <1>11
    <3> QED BY <3>1, <3>2 DEF Next1
  <2>3. CASE i > Len(q)
    <3> DEFINE j == i - Len(q)
    <3>1. j \in 1..Len(w) /\ i = Len(q) + j
      BY <2>3, <1>2, <1>4
    <3> HIDE DEF j
    <3>2. r[i] = w[j] /\ td[w[j]].next = Next1(w, j + 1, c)
      BY <3>1, <1>7, <1>10
    <3>3. Next1(r, i + 1, c) = Next1(w, j + 1, c)
      <4>1. CASE j < Len(w)
        <5>1. j + 1 \in 1..Len(w) /\ i + 1 = Len(q) + (j + 1) /\ i + 1 <= Len(r)
          BY <4>1, <3>1, <1>2, <1>4
        <5>2. r[i + 1] = w[j + 1]
          BY <5>1, <1>7
        <5> QED BY <5>1, <5>2 DEF Next1
      <4>2. CASE j = Len(w)
        BY <4>2, <3>1, <1>2, <1>4 DEF Next1
      <4> QED BY <4>1, <4>2, <3>1, <1>2
    <3> QED BY <3>2, <3>3
  <2> QED BY <2>1, <2>2, <2>3, <1>2, <1>4
<1>9. Chained(td, r, h, c)
  BY <1>3, <1>5, <1>8, <1>10 DEF Chained
<1> QED
  BY <1>4, <1>6, <1>7, <1>9 DEF r

(* The TDs of new can take request u: they are free, or were its own.        *)
CanTake(x, Q, D, u, new) ==
    /\ new \in Seq(Blocks) /\ Len(new) = Size[u] /\ IsInjective(new)
    /\ Range(new) \subseteq InUse(x.pool)
    /\ \A t \in Range(new) : Owner(x, t) \in {Nil, u} /\ t \notin Coming(Q) \cup D
    /\ \A f \in Used(x) : x.ed[f].tail \notin Range(new)
    /\ \A t \in Blocks : Owner(x, t) = u => t \in Range(new)

(* What FillTds does to the TDs, to endpoint e and to request u.             *)
FillStep(x, y, u, e, new, w) ==
    /\ w = <<x.ed[e].tail>> \o Front(new)
    /\ y.pool = x.pool /\ Used(y) = Used(x)
    /\ \A f \in Eds : y.ed[f].head = x.ed[f].head /\ y.ed[f].halted = x.ed[f].halted
    /\ \A f \in Eds \ {e} : y.ed[f].tail = x.ed[f].tail
    /\ y.ed[e].tail = Last(new)
    /\ \A v \in Urbs \ {u} : y.urb[v] = x.urb[v]
    /\ y.urb[u].stage = "linked" /\ y.urb[u].cnt = 0 /\ y.urb[u].tds = w
    /\ \A i \in 1..Len(w) : /\ y.td[w[i]].urb = u /\ y.td[w[i]].index = i - 1
                            /\ y.td[w[i]].next = new[i] /\ y.td[w[i]].failed = FALSE
    /\ y.td[Last(new)] = NewTd
    /\ \A t \in Blocks \ (Range(w) \cup {Last(new)}) : y.td[t] = x.td[t]

(* A request is queued: on the dummy, and on TDs that are free or its own.   *)
LEMMA Filled ==
    ASSUME NEW x \in DD, NEW y \in DD, NEW Q, NEW D, NEW dead, OhciAssumption,
           Tds(x, Q, D, dead), NEW u \in Urbs, NEW e \in Used(x), Ep[u] = e,
           NEW new, CanTake(x, Q, D, u, new),
           NEW w,
           FillStep(x, y, u, e, new, w)
    PROVE  \E R : /\ Tds(y, R, D, dead)
                  /\ \A F \in SUBSET D : Halts(x, Q, F) => Halts(y, R, F)
                  /\ \A S : Owing(x, S \cup {u}, dead) => Owing(y, S, dead)
<1> DEFINE R == [Q EXCEPT ![e] = Q[e] \o w]
           n == Size[u]
           a == x.ed[e].tail
           c == Last(new)
           New == Range(w) \cup {c}
<1>1. Queues(x, Q) /\ Belongs(x) /\ Whole(x) /\ Dummies(x)
      /\ Ordered(x, Q) /\ Out(x, Q, D) /\ Counted(x, Q, D, dead)
  BY DEF Tds
<1>26. /\ new \in Seq(Blocks) /\ Len(new) = n /\ IsInjective(new)
       /\ Range(new) \subseteq InUse(x.pool)
       /\ \A t \in Range(new) : Owner(x, t) \in {Nil, u} /\ t \notin Coming(Q) \cup D
       /\ \A f \in Used(x) : x.ed[f].tail \notin Range(new)
       /\ \A t \in Blocks : Owner(x, t) = u => t \in Range(new)
  BY DEF CanTake
<1>27. /\ y.pool = x.pool /\ Used(y) = Used(x)
       /\ \A f \in Eds : y.ed[f].head = x.ed[f].head /\ y.ed[f].halted = x.ed[f].halted
       /\ \A f \in Eds \ {e} : y.ed[f].tail = x.ed[f].tail
       /\ y.ed[e].tail = c
       /\ \A v \in Urbs \ {u} : y.urb[v] = x.urb[v]
       /\ y.urb[u].stage = "linked" /\ y.urb[u].cnt = 0 /\ y.urb[u].tds = w
  BY DEF FillStep
<1>28. /\ \A i \in 1..Len(w) : /\ y.td[w[i]].urb = u /\ y.td[w[i]].index = i - 1
                              /\ y.td[w[i]].next = new[i] /\ y.td[w[i]].failed = FALSE
       /\ Owner(y, c) = Nil
       /\ \A t \in Blocks \ New : y.td[t] = x.td[t]
  BY DEF FillStep, Owner, NewTd
<1>29. w = <<a>> \o Front(new)
  BY DEF FillStep
<1>30. a = x.ed[e].tail
  OBVIOUS
<1> HIDE DEF n, a, c, New, R
<1>2. /\ e \in Eds /\ e \in Used(x) /\ n \in Nat \ {0} /\ Nil \notin Urbs /\ Nil \notin Blocks
      /\ Used(x) \subseteq Eds /\ Q \in [Eds -> Seq(Blocks)]
  BY <1>1 DEF OhciAssumption, Used, Queues, n
<1>3. a \in Blocks \ Range(new) /\ a \in InUse(x.pool) /\ Owner(x, a) = Nil
      /\ \A f \in Used(x) : x.ed[f].tail = a => f = e
  BY <1>1, <1>2, <1>26 DEF Dummies, InUse, a
<1>4. /\ w \in Seq(Blocks) /\ IsInjective(w) /\ Len(w) = n /\ w[1] = a
      /\ c \in Blocks \ Range(w) /\ c \in Range(new)
      /\ New = Range(new) \cup {a}
      /\ \A i \in 1..n : new[i] = Next1(w, i + 1, c)
  <2>1. /\ w \in Seq(Blocks) /\ IsInjective(w) /\ Len(w) = n /\ w[1] = a
        /\ c \in Blocks \ Range(w) /\ c \in Range(new)
        /\ Range(w) \cup {c} = Range(new) \cup {a}
        /\ \A i \in 1..n : new[i] = Next1(w, i + 1, c)
    BY <1>2, <1>3, <1>26, <1>29, Shifted, SMTT(30) DEF c
  <2> QED BY <2>1 DEF New
<1>5. \A t \in Coming(Q) \cup D : t \in Blocks \ New /\ Owner(x, t) \in Urbs \ {u}
                                  /\ y.td[t] = x.td[t]
  <2> TAKE t \in Coming(Q) \cup D
  <2>1. t \in Blocks /\ Owner(x, t) \in Urbs
    BY <1>1, ComingTd DEF Out
  <2>2. t \notin Range(new) /\ Owner(x, t) # u
    BY <2>1, <1>26
  <2>3. t \notin New
    BY <1>2, <1>3, <1>4, <2>1, <2>2
  <2> QED BY <2>1, <2>2, <2>3, <1>28
<1>6. \A f \in Eds : Q[f] \in Seq(Blocks) /\ Range(Q[f]) \subseteq Coming(Q)
                     /\ Len(Q[f]) \in Nat /\ \A i \in 1..Len(Q[f]) : Q[f][i] \in Range(Q[f])
  BY <1>2, NotEmpty DEF Coming
<1>7. /\ \A t \in Range(w) : t \in Blocks /\ Owner(y, t) = u
      /\ \A i \in 1..n : /\ w[i] \in Range(w) /\ y.td[w[i]].index = i - 1
                         /\ y.td[w[i]].next = new[i] /\ y.td[w[i]].failed = FALSE
                         /\ Owner(y, w[i]) = u
  <2>1. \A i \in 1..n : y.td[w[i]].urb = u /\ y.td[w[i]].index = i - 1
                        /\ y.td[w[i]].next = new[i] /\ y.td[w[i]].failed = FALSE
    BY <1>4, <1>28
  <2>2. Range(w) \subseteq Blocks /\ \A t : t \in Range(w) <=> \E i \in 1..n : w[i] = t
    BY <1>4, NotEmpty
  <2> QED BY <2>1, <2>2 DEF Owner
<1>8. Chained(x.td, Q[e], x.ed[e].head, a)
  BY <1>1, <1>2, <1>30 DEF Queues, Path
<1>9. /\ Chained(y.td, Q[e] \o w, x.ed[e].head, c) /\ Len(Q[e] \o w) = Len(Q[e]) + n
      /\ \A i \in 1..Len(Q[e]) : (Q[e] \o w)[i] = Q[e][i]
      /\ \A i \in 1..n : (Q[e] \o w)[Len(Q[e]) + i] = w[i]
  <2>1. Chained(y.td, Q[e], x.ed[e].head, a)
    <3>1. \A i \in 1..Len(Q[e]) : y.td[Q[e][i]] = x.td[Q[e][i]]
      BY <1>2, <1>5, <1>6
    <3> QED BY <1>8, <3>1 DEF Chained
  <2>2. Range(Q[e]) \cap Range(w) = {} /\ c \in Blocks \ (Range(Q[e]) \cup Range(w))
    BY <1>2, <1>4, <1>5, <1>6 DEF New
  <2>3. w # <<>> /\ \A i \in 1..Len(w) : y.td[w[i]].next = Next1(w, i + 1, c)
    BY <1>2, <1>4, <1>7
  <2>4. /\ Chained(y.td, Q[e] \o w, x.ed[e].head, c) /\ Len(Q[e] \o w) = Len(Q[e]) + Len(w)
        /\ \A i \in 1..Len(Q[e]) : (Q[e] \o w)[i] = Q[e][i]
        /\ \A i \in 1..Len(w) : (Q[e] \o w)[Len(Q[e]) + i] = w[i]
    <3>1. Chained(y.td, w, a, c)
      BY <1>2, <1>4, <2>3 DEF Chained, Next1
    <3>2. Range(Q[e]) \cap Range(w) = {} /\ c \notin Range(Q[e]) /\ w # <<>>
      BY <2>2, <2>3
    <3> QED BY <3>1, <3>2, <2>1, Joined
  <2> QED BY <1>4, <2>4
<1>10. R \in [Eds -> Seq(Blocks)] /\ R[e] = Q[e] \o w /\ \A f \in Eds \ {e} : R[f] = Q[f]
  <2>1. Q[e] \o w \in Seq(Blocks)
    BY <1>2, <1>4, <1>6, ConcatProperties
  <2> QED BY <1>2, <2>1 DEF R
<1>11. Range(R[e]) = Range(Q[e]) \cup Range(w)
  BY <1>2, <1>4, <1>6, <1>10, Concatenated
<1>12. Coming(R) = Coming(Q) \cup Range(w)
  <2>1. \A t : (\E f \in Eds : t \in Range(R[f])) <=> (\E f \in Eds : t \in Range(Q[f])) \/ t \in Range(w)
    BY <1>2, <1>10, <1>11
  <2>2. \A t : t \in Coming(R) <=> \E f \in Eds : t \in Range(R[f])
    BY DEF Coming
  <2>3. \A t : t \in Coming(Q) <=> \E f \in Eds : t \in Range(Q[f])
    BY DEF Coming
  <2> QED BY <2>1, <2>2, <2>3
<1>13. Linked(y) = Linked(x) \cup {u} /\ Linked(x) \subseteq Urbs
  BY <1>27 DEF Linked
<1>14. Queues(y, R)
  <2>1. ASSUME NEW f \in Eds PROVE IF f \in Used(y) THEN Path(y, f, R[f]) ELSE R[f] = <<>>
    <3>1. CASE f = e
      <4>1. Path(y, e, R[e])
        BY <1>2, <1>9, <1>10, <1>27 DEF Path
      <4> QED BY <4>1, <3>1, <1>2, <1>27
    <3>2. CASE f # e
      <4>1. f \in Used(x) => Path(x, f, Q[f])
        BY <1>1 DEF Queues
      <4>2. \A i \in 1..Len(Q[f]) : y.td[Q[f][i]] = x.td[Q[f][i]]
        BY <1>5, <1>6
      <4>3. f \in Used(x) => Path(y, f, Q[f])
        BY <4>1, <4>2, <3>2, <1>27 DEF Path, Chained
      <4>4. f \notin Used(x) => Q[f] = <<>>
        BY <1>1 DEF Queues
      <4> QED BY <4>3, <4>4, <3>2, <1>10, <1>27
    <3> QED BY <3>1, <3>2
  <2>2. ASSUME NEW f \in Eds, NEW t \in Range(R[f]) PROVE Owner(y, t) \in Urbs /\ Ep[Owner(y, t)] = f
    <3>1. CASE t \in Range(Q[f])
      BY <3>1, <1>1, <1>5, <1>6 DEF Queues, Owner
    <3>2. CASE f = e /\ t \in Range(w)
      BY <3>2, <1>7
    <3> QED BY <3>1, <3>2, <1>10, <1>11
  <2> QED BY <1>10, <2>1, <2>2 DEF Queues
<1>15. ASSUME NEW t \in Blocks, t \notin Range(w), Owner(y, t) # Nil
       PROVE  t \notin New /\ y.td[t] = x.td[t] /\ Owner(x, t) = Owner(y, t) /\ Owner(x, t) # u
  <2>1. t # c
    BY <1>15, <1>28
  <2>2. t \notin New /\ y.td[t] = x.td[t]
    BY <1>15, <2>1, <1>28 DEF New
  <2>3. t \notin Range(new)
    BY <2>2, <1>4
  <2> QED BY <2>2, <2>3, <1>26 DEF Owner
<1>16. Belongs(y)
  <2> SUFFICES ASSUME NEW t \in Blocks, Owner(y, t) # Nil
               PROVE  /\ t \in InUse(y.pool) /\ Owner(y, t) \in Linked(y)
                      /\ y.td[t].index < Size[Owner(y, t)]
                      /\ y.urb[Owner(y, t)].tds[y.td[t].index + 1] = t
    BY DEF Belongs
  <2>1. CASE t \in Range(w)
    <3>1. t \in InUse(x.pool)
      BY <2>1, <1>3, <1>4, <1>26 DEF New
    <3>2. PICK i \in 1..n : w[i] = t
      BY <2>1, <1>4, NotEmpty
    <3>3. y.td[t].index = i - 1 /\ Owner(y, t) = u
      BY <3>2, <1>7
    <3>4. (i - 1) + 1 = i /\ i - 1 < n
      BY <1>2
    <3>5. y.td[t].index < Size[u] /\ y.urb[u].tds[y.td[t].index + 1] = t
      BY <3>2, <3>3, <3>4, <1>27 DEF n
    <3> QED BY <3>1, <3>3, <3>5, <1>13, <1>27
  <2>2. CASE t \notin Range(w)
    <3>1. y.td[t] = x.td[t] /\ Owner(x, t) = Owner(y, t) /\ Owner(x, t) # u
      BY <2>2, <1>15
    <3>2. /\ t \in InUse(x.pool) /\ Owner(x, t) \in Linked(x)
          /\ x.td[t].index < Size[Owner(x, t)]
          /\ x.urb[Owner(x, t)].tds[x.td[t].index + 1] = t
      BY <3>1, <1>1 DEF Belongs
    <3> QED BY <3>1, <3>2, <1>13, <1>27
  <2> QED BY <2>1, <2>2
<1>17. Whole(y)
  <2> SUFFICES ASSUME NEW v \in Linked(y)
               PROVE  /\ Len(y.urb[v].tds) = Size[v]
                      /\ \A i \in 1..Size[v] : /\ Owner(y, y.urb[v].tds[i]) = v
                                               /\ y.td[y.urb[v].tds[i]].index = i - 1
    BY DEF Whole
  <2>1. CASE v = u
    BY <2>1, <1>4, <1>7, <1>27 DEF n
  <2>2. CASE v # u
    <3>1. v \in Linked(x) /\ v \in Urbs /\ y.urb[v] = x.urb[v]
      BY <2>2, <1>13, <1>27
    <3>2. /\ Len(x.urb[v].tds) = Size[v]
          /\ \A i \in 1..Size[v] : /\ Owner(x, x.urb[v].tds[i]) = v
                                   /\ x.td[x.urb[v].tds[i]].index = i - 1
      BY <3>1, <1>1 DEF Whole
    <3>3. ASSUME NEW i \in 1..Size[v] PROVE y.td[x.urb[v].tds[i]] = x.td[x.urb[v].tds[i]]
      <4>1. x.urb[v].tds \in Seq(Blocks)
        BY <3>1, Parts
      <4>2. x.urb[v].tds[i] \in Blocks /\ Owner(x, x.urb[v].tds[i]) = v
        BY <4>1, <3>2
      <4>3. x.urb[v].tds[i] \notin Range(new) /\ x.urb[v].tds[i] # a
        BY <4>2, <2>2, <3>1, <1>2, <1>3, <1>26
      <4> QED BY <4>2, <4>3, <1>4, <1>28
    <3> QED BY <3>1, <3>2, <3>3 DEF Owner
  <2> QED BY <2>1, <2>2
<1>18. Dummies(y)
  <2> SUFFICES ASSUME NEW f \in Used(x)
               PROVE  /\ y.ed[f].tail \in InUse(x.pool) /\ Owner(y, y.ed[f].tail) = Nil
                      /\ \A g \in Used(x) : y.ed[g].tail = y.ed[f].tail => g = f
    BY <1>27 DEF Dummies
  <2>1. c \in InUse(x.pool) /\ Owner(y, c) = Nil /\ \A g \in Used(x) : x.ed[g].tail # c
    BY <1>4, <1>26, <1>28
  <2>2. /\ \A g \in Used(x) : g # e => y.ed[g].tail = x.ed[g].tail
        /\ y.ed[e].tail = c
    BY <1>2, <1>27
  <2>4. CASE f = e
    BY <2>1, <2>2, <2>4
  <2>5. CASE f # e
    <3>1. /\ x.ed[f].tail \in InUse(x.pool) /\ Owner(x, x.ed[f].tail) = Nil
          /\ \A g \in Used(x) : x.ed[g].tail = x.ed[f].tail => g = f
      BY <1>1 DEF Dummies
    <3>2. x.ed[f].tail \in Blocks /\ x.ed[f].tail # a
      BY <3>1, <1>3, <2>5 DEF InUse
    <3>3. x.ed[f].tail \notin New
      BY <3>2, <1>4, <1>26
    <3>4. y.td[x.ed[f].tail] = x.td[x.ed[f].tail]
      BY <3>2, <3>3, <1>28
    <3>5. Owner(y, x.ed[f].tail) = Nil
      BY <3>1, <3>4 DEF Owner
    <3> QED BY <3>1, <3>5, <2>1, <2>2, <2>5
  <2> QED BY <2>4, <2>5
<1>19. \A f \in Eds : Len(Q[f]) <= Len(R[f]) /\ \A i \in 1..Len(Q[f]) : R[f][i] = Q[f][i]
  <2> TAKE f \in Eds
  <2>1. CASE f = e
    <3>1. R[f] = Q[e] \o w
      BY <2>1, <1>10, Zenon
    <3>2. Len(Q[e]) \in Nat /\ n \in Nat
      BY <1>2, <1>6
    <3>3. \A m \in Nat : m <= m + n
      BY <3>2
    <3>4. Len(Q[e]) <= Len(Q[e] \o w)
      BY <3>2, <3>3, <1>9, Zenon
    <3> QED BY <2>1, <3>1, <3>4, <1>9, Zenon
  <2>2. CASE f # e
    <3>1. R[f] = Q[f] /\ Len(Q[f]) \in Nat
      BY <2>2, <1>6, <1>10
    <3> HIDE DEF R
    <3> QED BY <3>1
  <2> QED BY <2>1, <2>2
<1>20. Ordered(y, R)
  <2> SUFFICES ASSUME NEW f \in Eds, NEW i \in 1..Len(R[f]), Unfinished(y, R[f][i])
               PROVE  i < Len(R[f]) /\ Follows(y, R[f][i + 1], R[f][i])
    BY DEF Ordered
  <2>1. CASE i <= Len(Q[f])
    <3>6. i \in 1..Len(Q[f])
      BY <2>1, <1>6, <1>10
    <3>1. i \in 1..Len(Q[f]) /\ R[f][i] = Q[f][i] /\ y.td[Q[f][i]] = x.td[Q[f][i]]
      BY <3>6, <1>5, <1>6, <1>19
    <3>2. Unfinished(x, Q[f][i])
      BY <3>1 DEF Unfinished, Owner
    <3>3. i < Len(Q[f]) /\ Follows(x, Q[f][i + 1], Q[f][i])
      BY <3>1, <3>2, <1>1 DEF Ordered
    <3>4. i + 1 \in 1..Len(Q[f])
      BY <3>1, <3>3, <1>6
    <3>5. R[f][i + 1] = Q[f][i + 1] /\ y.td[Q[f][i + 1]] = x.td[Q[f][i + 1]]
      BY <3>4, <1>5, <1>6, <1>19
    <3>7. i < Len(R[f])
      BY <3>4, <1>19, <1>6, <1>10
    <3> QED BY <3>1, <3>3, <3>5, <3>7 DEF Follows, Owner
  <2>2. CASE i > Len(Q[f])
    <3>1. f = e
      BY <2>2, <1>6, <1>10
    <3> DEFINE j == i - Len(Q[e])
    <3>2. j \in 1..n /\ i = Len(Q[e]) + j
      BY <2>2, <3>1, <1>2, <1>6, <1>9, <1>10
    <3> HIDE DEF j
    <3>3. R[e][i] = w[j]
      BY <3>2, <1>9, <1>10
    <3>4. y.td[w[j]].index + 1 < n
      BY <3>1, <3>2, <3>3, <1>7 DEF Unfinished, n
    <3>5. j + 1 \in 1..n
      BY <3>2, <3>4, <1>2, <1>7
    <3>6. R[e][i + 1] = w[j + 1] /\ i < Len(R[e])
      <4>1. i + 1 = Len(Q[e]) + (j + 1)
        BY <3>2, <1>2, <1>6
      <4>2. R[e][Len(Q[e]) + (j + 1)] = w[j + 1]
        BY <3>5, <1>9, <1>10, Zenon
      <4>3. Len(R[e]) = Len(Q[e]) + n
        BY <1>9, <1>10, Zenon
      <4>4. Len(Q[e]) \in Nat /\ n \in Nat /\ i \in Nat
        BY <3>2, <1>2, <1>6
      <4>5. i < Len(R[e])
        BY <3>5, <4>1, <4>3, <4>4
      <4> QED BY <4>1, <4>2, <4>5, Zenon
    <3>7. Follows(y, w[j + 1], w[j])
      <4>1. /\ Owner(y, w[j]) = u /\ Owner(y, w[j + 1]) = u
            /\ y.td[w[j]].index = j - 1 /\ y.td[w[j + 1]].index = (j + 1) - 1
        BY <3>2, <3>5, <1>7, Zenon
      <4>2. (j + 1) - 1 = (j - 1) + 1
        BY <3>2
      <4> QED BY <4>1, <4>2, Zenon DEF Follows
    <3>8. R[f][i] = w[j] /\ R[f][i + 1] = w[j + 1] /\ i < Len(R[f])
      BY <3>1, <3>3, <3>6, Zenon
    <3> QED BY <3>7, <3>8, Zenon
  <2> QED BY <2>1, <2>2, <1>2, <1>6
<1>21. Out(y, R, D)
  <2>1. D \cap Coming(R) = {}
    BY <1>1, <1>5, <1>12 DEF Out, New
  <2>2. \A t \in D : Owner(y, t) \in Urbs /\ Ep[Owner(y, t)] \in Used(y)
    BY <1>1, <1>5, <1>27 DEF Out, Owner
  <2> QED BY <1>1, <2>1, <2>2 DEF Out
<1>22. Counted(y, R, D, dead)
  <2>1. Pending(y, R, D, u) = Range(w)
    <3>1. \A t \in Range(w) : Owner(y, t) = u
      BY <1>7
    <3>2. \A t \in Coming(Q) \cup D : Owner(y, t) # u
      BY <1>5 DEF Owner
    <3> QED BY <3>1, <3>2, <1>12 DEF Pending
  <2>2. Cardinality(Range(w)) = n
    BY <1>4, ShortEnough
  <2>3. ASSUME NEW v \in Urbs, v # u
        PROVE  Pending(y, R, D, v) = Pending(x, Q, D, v)
    <3>1. \A t \in Range(w) : Owner(y, t) # v
      BY <1>7, <2>3
    <3>2. \A t \in Coming(Q) \cup D : Owner(y, t) = Owner(x, t)
      BY <1>5 DEF Owner
    <3> QED BY <3>1, <3>2, <1>12 DEF Pending
  <2>4. ASSUME NEW v \in Urbs
        PROVE  /\ y.urb[v].cnt <= Size[v]
               /\ v \in Linked(y) =>
                    /\ y.urb[v].cnt + Cardinality(Pending(y, R, D, v)) <= Size[v]
                    /\ ~dead => y.urb[v].cnt + Cardinality(Pending(y, R, D, v)) = Size[v]
    <3>1. CASE v = u
      BY <3>1, <2>1, <2>2, <1>2, <1>27 DEF n
    <3>2. CASE v # u
      BY <3>2, <2>3, <1>1, <1>13, <1>27 DEF Counted
    <3> QED BY <3>1, <3>2
  <2> QED BY <2>4 DEF Counted
<1>23. ASSUME NEW F \in SUBSET D, Halts(x, Q, F) PROVE Halts(y, R, F)
  <2>1. \A t \in F : y.td[t] = x.td[t] /\ Owner(y, t) = Owner(x, t) /\ Ep[Owner(x, t)] \in Used(x)
    BY <1>1, <1>5 DEF Owner, Out
  <2>2. ASSUME NEW t \in F, y.td[t].failed
        PROVE  /\ y.ed[Ep[Owner(y, t)]].halted
               /\ Unfinished(y, t) => /\ R[Ep[Owner(y, t)]] # <<>>
                                      /\ Follows(y, R[Ep[Owner(y, t)]][1], t)
    <3> DEFINE f == Ep[Owner(x, t)]
    <3>1. x.td[t].failed /\ f \in Eds
      BY <2>1, <2>2, <1>2
    <3>2. x.ed[f].halted /\ (Unfinished(x, t) => Q[f] # <<>> /\ Follows(x, Q[f][1], t))
      BY <3>1, <1>23 DEF Halts
    <3>3. y.ed[f].halted
      BY <3>1, <3>2, <1>27
    <3>4. Q[f] # <<>> => /\ R[f] # <<>> /\ R[f][1] = Q[f][1]
                         /\ y.td[Q[f][1]] = x.td[Q[f][1]]
      <4> HIDE DEF f
      <4>1. Q[f] # <<>> => 1 \in 1..Len(Q[f])
        BY <3>1, <1>6
      <4> SUFFICES ASSUME Q[f] # <<>>
                   PROVE  R[f] # <<>> /\ R[f][1] = Q[f][1] /\ y.td[Q[f][1]] = x.td[Q[f][1]]
        OBVIOUS
      <4>2. Len(Q[f]) <= Len(R[f]) /\ R[f][1] = Q[f][1]
        BY <3>1, <4>1, <1>19, Zenon
      <4>3. y.td[Q[f][1]] = x.td[Q[f][1]]
        BY <3>1, <4>1, <1>5, <1>6
      <4>4. Len(R[f]) # 0
        BY <3>1, <4>1, <4>2, <1>6, <1>10
      <4>5. R[f] # <<>>
        BY <4>4
      <4> QED BY <4>2, <4>3, <4>5, Zenon
    <3> QED BY <2>1, <3>2, <3>3, <3>4, ZenonT(30) DEF Unfinished, Follows, Owner
  <2>3. \A s, t \in F : y.td[s].failed /\ y.td[t].failed /\ Ep[Owner(y, s)] = Ep[Owner(y, t)] => s = t
    BY <2>1, <1>23 DEF Halts
  <2> QED BY <2>2, <2>3 DEF Halts
<1>24. ASSUME NEW S, Owing(x, S \cup {u}, dead) PROVE Owing(y, S, dead)
  <2>1. \A v \in Linked(y) \ (S \cup {u}) : v \in Linked(x) /\ y.urb[v] = x.urb[v]
    BY <1>13, <1>27
  <2>2. y.urb[u].cnt < Size[u]
    BY <1>2, <1>27 DEF n
  <2> QED BY <1>24, <2>1, <2>2 DEF Owing
<1>25. Tds(y, R, D, dead)
  BY <1>14, <1>16, <1>17, <1>18, <1>20, <1>21, <1>22 DEF Tds
<1> QED
  BY <1>23, <1>24, <1>25

First(q, k) == {q[i] : i \in 1..k}

(* A queue without its first k TDs.                                          *)
LEMMA Advanced ==
    ASSUME NEW td, NEW q, NEW h, NEW tail, Chained(td, q, h, tail),
           NEW k \in 0..Len(q)
    PROVE  LET r == SubSeq(q, k + 1, Len(q)) IN
           /\ Chained(td, r, Next1(q, k + 1, tail), tail) /\ Len(r) = Len(q) - k
           /\ \A i \in 1..(Len(q) - k) : r[i] = q[k + i]
           /\ Range(r) = Range(q) \ First(q, k)
<1> DEFINE r == SubSeq(q, k + 1, Len(q))
<1>1. q \in Seq(Blocks) /\ IsInjective(q) /\ tail \in Blocks \ Range(q)
      /\ (\A i \in 1..Len(q) : td[q[i]].next = Next1(q, i + 1, tail))
  BY DEF Chained
<1>2. Len(q) \in Nat /\ (\A i \in 1..Len(q) : q[i] \in Blocks)
      /\ (\A i, j \in 1..Len(q) : q[i] = q[j] => i = j)
      /\ (\A t : t \in Range(q) <=> \E i \in 1..Len(q) : q[i] = t)
  BY <1>1, NotEmpty
<1>3. r \in Seq(Blocks) /\ Len(r) = Len(q) - k /\ \A i \in 1..(Len(q) - k) : r[i] = q[k + i]
  <2>1. \A i \in (k + 1)..Len(q) : q[i] \in Blocks
    BY <1>2
  <2>2. k \in Nat /\ k + 1 \in Int /\ Len(q) \in Int
    BY <1>2
  <2>3. SubSeq(q, k + 1, Len(q)) \in Seq(Blocks)
    BY <2>1, <2>2, SubSeqProperties
  <2>4. Len(SubSeq(q, k + 1, Len(q))) = IF k + 1 <= Len(q) THEN Len(q) - (k + 1) + 1 ELSE 0
    BY <2>1, <2>2, SubSeqProperties
  <2>5. \A i \in 1..(Len(q) - (k + 1) + 1) : SubSeq(q, k + 1, Len(q))[i] = q[(k + 1) + i - 1]
    BY <2>1, <2>2, SubSeqProperties
  <2>6. Len(r) = Len(q) - k
    BY <2>2, <2>4, <1>2
  <2>7. \A i \in 1..(Len(q) - k) : i \in 1..(Len(q) - (k + 1) + 1) /\ (k + 1) + i - 1 = k + i
    BY <2>2
  <2> QED BY <2>3, <2>5, <2>6, <2>7
<1>4. \A i \in 1..(Len(q) - k) : k + i \in 1..Len(q)
  BY <1>2
<1> HIDE DEF r
<1>5. IsInjective(r)
  <2>1. ASSUME NEW i \in 1..Len(r), NEW j \in 1..Len(r), r[i] = r[j] PROVE i = j
    <3>1. k + i \in 1..Len(q) /\ k + j \in 1..Len(q) /\ q[k + i] = q[k + j]
      BY <2>1, <1>3, <1>4
    <3>2. k + i = k + j
      BY <3>1, <1>2
    <3> QED BY <3>2, <1>2, <1>3
  <2> QED BY <2>1, <1>3, NotEmpty
<1>6. \A t : t \in Range(r) <=> \E i \in 1..(Len(q) - k) : q[k + i] = t
  <2>1. \A t : t \in Range(r) <=> \E i \in 1..Len(r) : r[i] = t
    BY <1>3, NotEmpty
  <2> QED BY <2>1, <1>3
<1>7. Range(r) = Range(q) \ First(q, k)
  <2>3. \A t : t \in First(q, k) <=> \E i \in 1..k : q[i] = t
    BY DEF First
  <2>1. ASSUME NEW t \in Range(r) PROVE t \in Range(q) /\ \A i \in 1..k : q[i] # t
    <3>1. PICK i \in 1..(Len(q) - k) : q[k + i] = t
      BY <1>6
    <3>2. k + i \in 1..Len(q) /\ \A j \in 1..k : j \in 1..Len(q) /\ j # k + i
      BY <1>2, <3>1
    <3> QED BY <1>2, <3>1, <3>2
  <2>2. ASSUME NEW t \in Range(q), \A i \in 1..k : q[i] # t PROVE t \in Range(r)
    <3>1. PICK j \in 1..Len(q) : q[j] = t
      BY <1>2
    <3>2. j - k \in 1..(Len(q) - k) /\ k + (j - k) = j
      BY <2>2, <3>1, <1>2
    <3> QED BY <1>6, <3>1, <3>2
  <2> QED BY <2>1, <2>2, <2>3
<1>8. ASSUME NEW i \in 0..(Len(q) - k) PROVE Next1(r, i + 1, tail) = Next1(q, k + i + 1, tail)
  <2>1. CASE i < Len(q) - k
    <3>1. i + 1 \in 1..(Len(q) - k) /\ k + (i + 1) = k + i + 1 /\ k + i + 1 <= Len(q)
      BY <2>1, <1>2
    <3>2. r[i + 1] = q[k + i + 1] /\ i + 1 <= Len(r)
      BY <3>1, <1>3
    <3> QED BY <3>1, <3>2 DEF Next1
  <2>2. CASE i = Len(q) - k
    <3>1. ~(i + 1 <= Len(r)) /\ ~(k + i + 1 <= Len(q))
      BY <2>2, <1>2, <1>3
    <3> QED BY <3>1 DEF Next1
  <2> QED BY <2>1, <2>2, <1>2
<1>9. Next1(r, 1, tail) = Next1(q, k + 1, tail)
  <2>1. 0 \in 0..(Len(q) - k) /\ 0 + 1 = 1 /\ k + 0 + 1 = k + 1
    BY <1>2
  <2> QED BY <2>1, <1>8
<1>10. \A i \in 1..Len(r) : td[r[i]].next = Next1(r, i + 1, tail)
  <2> TAKE i \in 1..Len(r)
  <2>1. i \in 1..(Len(q) - k) /\ i \in 0..(Len(q) - k) /\ k + i \in 1..Len(q)
    BY <1>2, <1>3
  <2>2. r[i] = q[k + i] /\ td[q[k + i]].next = Next1(q, k + i + 1, tail)
    BY <2>1, <1>1, <1>3
  <2> QED BY <2>1, <2>2, <1>8
<1>11. tail \in Blocks \ Range(r)
  BY <1>1, <1>7
<1>12. Chained(td, r, Next1(q, k + 1, tail), tail)
  BY <1>3, <1>5, <1>9, <1>10, <1>11 DEF Chained
<1> QED
  BY <1>3, <1>7, <1>12 DEF r

(* What becomes of the descriptors when the queue of e loses its first TDs.  *)
ShortenStep(x, y, e) ==
    /\ y.pool = x.pool /\ Used(y) = Used(x)
    /\ \A f \in Eds : y.ed[f].tail = x.ed[f].tail
    /\ \A f \in Eds \ {e} : y.ed[f].head = x.ed[f].head /\ y.ed[f].halted = x.ed[f].halted
    /\ \A t \in Blocks : /\ Owner(y, t) = Owner(x, t) /\ y.td[t].index = x.td[t].index
                         /\ y.td[t].next = x.td[t].next
    /\ Linked(y) = Linked(x)
    /\ \A u \in Urbs : y.urb[u].tds = x.urb[u].tds

(* The queues once that of e has lost its first k TDs.                       *)
Past(Q, e, k) == [Q EXCEPT ![e] = SubSeq(Q[e], k + 1, Len(Q[e]))]

IsPast(Q, R, e, k) ==
    /\ Coming(R) = Coming(Q) \ First(Q[e], k)
    /\ \A f \in Eds \ {e} : R[f] = Q[f]
    /\ Len(R[e]) = Len(Q[e]) - k /\ Range(R[e]) = Range(Q[e]) \ First(Q[e], k)
    /\ \A i \in 1..(Len(Q[e]) - k) : R[e][i] = Q[e][k + i]

(* The place after the i-th of a sequence, and of one that is j longer in    *)
(* front.                                                                    *)
LEMMA NextPlace ==
    ASSUME NEW a \in Nat, NEW b \in Nat, NEW j \in Nat, NEW i \in 1..a, a = b - j, j + i < b
    PROVE  i < a /\ i + 1 \in 1..a /\ j + (i + 1) = j + i + 1 /\ j + i + 1 \in 1..b
OBVIOUS

(* When the head of a queue moves past its first k TDs, what is left is a    *)
(* queue with all that queues have to satisfy.                               *)
LEMMA Shortened ==
    ASSUME NEW x \in DD, NEW y \in DD, NEW Q, NEW D, NEW dead, OhciAssumption, Tds(x, Q, D, dead),
           NEW e \in Used(x), NEW k \in 0..Len(Q[e]), ShortenStep(x, y, e),
           y.ed[e].head = Next1(Q[e], k + 1, x.ed[e].tail)
    PROVE  /\ Queues(y, Past(Q, e, k)) /\ Belongs(y) /\ Whole(y) /\ Dummies(y)
           /\ Ordered(y, Past(Q, e, k)) /\ IsPast(Q, Past(Q, e, k), e, k)
<1> DEFINE R == Past(Q, e, k)
<1>1. Queues(x, Q) /\ Belongs(x) /\ Whole(x) /\ Dummies(x) /\ Ordered(x, Q)
  BY DEF Tds
<1>2. /\ y.pool = x.pool /\ Used(y) = Used(x)
      /\ \A f \in Eds : y.ed[f].tail = x.ed[f].tail
      /\ \A f \in Eds \ {e} : y.ed[f].head = x.ed[f].head /\ y.ed[f].halted = x.ed[f].halted
      /\ \A t \in Blocks : /\ Owner(y, t) = Owner(x, t) /\ y.td[t].index = x.td[t].index
                           /\ y.td[t].next = x.td[t].next
      /\ Linked(y) = Linked(x)
      /\ \A u \in Urbs : y.urb[u].tds = x.urb[u].tds
  BY DEF ShortenStep
<1>3. Used(x) \subseteq Eds /\ e \in Eds /\ Linked(x) \subseteq Urbs /\ Q \in [Eds -> Seq(Blocks)]
  BY <1>1 DEF Used, Linked, Queues
<1>4. Chained(x.td, Q[e], x.ed[e].head, x.ed[e].tail)
  BY <1>1, <1>3 DEF Queues, Path
<1> DEFINE r == SubSeq(Q[e], k + 1, Len(Q[e]))
<1>5. /\ Chained(x.td, r, Next1(Q[e], k + 1, x.ed[e].tail), x.ed[e].tail)
      /\ Len(r) = Len(Q[e]) - k
      /\ \A i \in 1..(Len(Q[e]) - k) : r[i] = Q[e][k + i]
      /\ Range(r) = Range(Q[e]) \ First(Q[e], k)
  <2> DEFINE q == Q[e]
             tail == x.ed[e].tail
             h == x.ed[e].head
             s == SubSeq(q, k + 1, Len(q))
  <2>1. Chained(x.td, q, h, tail) /\ k \in 0..Len(q)
    BY <1>4
  <2> HIDE DEF q, tail, h
  <2>2. /\ Chained(x.td, s, Next1(q, k + 1, tail), tail) /\ Len(s) = Len(q) - k
        /\ \A i \in 1..(Len(q) - k) : s[i] = q[k + i]
        /\ Range(s) = Range(q) \ First(q, k)
    BY <2>1, Advanced
  <2> QED BY <2>2 DEF q, tail
<1> HIDE DEF r
<1>6. R \in [Eds -> Seq(Blocks)] /\ R[e] = r /\ \A f \in Eds \ {e} : R[f] = Q[f]
  <2>1. r \in Seq(Blocks)
    BY <1>5 DEF Chained
  <2> QED BY <2>1, <1>3 DEF r, Past
<1> HIDE DEF R
<1>7. \A f \in Eds : Q[f] \in Seq(Blocks) /\ Len(Q[f]) \in Nat
                     /\ \A i \in 1..Len(Q[f]) : Q[f][i] \in Range(Q[f]) /\ Q[f][i] \in Blocks
  <2> TAKE f \in Eds
  <2> DEFINE q == Q[f]
  <2>1. q \in Seq(Blocks)
    BY <1>3
  <2> HIDE DEF q
  <2>2. /\ Range(q) \subseteq Blocks /\ Len(q) \in Nat
        /\ \A t : t \in Range(q) <=> \E i \in 1..Len(q) : q[i] = t
    BY <2>1, NotEmpty, Zenon
  <2>3. \A i \in 1..Len(q) : q[i] \in Range(q) /\ q[i] \in Blocks
    BY <2>2, Zenon
  <2> QED BY <2>1, <2>2, <2>3 DEF q
<1>8. \A t : (\E f \in Eds : t \in Range(R[f]))
              <=> (\E f \in Eds : t \in Range(Q[f])) /\ t \notin First(Q[e], k)
  <2>1. \A i \in 1..k : Q[e][i] \in Range(Q[e])
    BY <1>3, <1>7
  <2>2. \A f \in Eds \ {e} : \A t \in Range(Q[f]) : t \notin Range(Q[e])
    BY <1>1, <1>3 DEF Queues
  <2>3. ASSUME NEW t, NEW f \in Eds, t \in Range(R[f])
        PROVE  t \in Range(Q[f]) /\ t \notin First(Q[e], k)
    <3>1. CASE f = e
      BY <3>1, <2>3, <1>5, <1>6
    <3>2. CASE f # e
      <4>1. t \in Range(Q[f]) /\ t \notin Range(Q[e])
        BY <3>2, <2>2, <2>3, <1>6
      <4> QED BY <4>1, <2>1, <1>3, <1>7 DEF First
    <3> QED BY <3>1, <3>2
  <2>4. ASSUME NEW t, NEW f \in Eds, t \in Range(Q[f]), t \notin First(Q[e], k)
        PROVE  t \in Range(R[f])
    <3>1. CASE f = e
      BY <3>1, <2>4, <1>5, <1>6
    <3>2. CASE f # e
      BY <3>2, <2>4, <1>6
    <3> QED BY <3>1, <3>2
  <2> QED BY <2>3, <2>4
<1>9. Coming(R) = Coming(Q) \ First(Q[e], k)
  <2>1. \A t : t \in Coming(R) <=> \E f \in Eds : t \in Range(R[f])
    BY DEF Coming
  <2>2. \A t : t \in Coming(Q) <=> \E f \in Eds : t \in Range(Q[f])
    BY DEF Coming
  <2> QED BY <2>1, <2>2, <1>8
<1>10. Queues(y, R)
  <2>1. Path(y, e, R[e])
    <3>1. \A i \in 1..Len(r) : y.td[r[i]].next = x.td[r[i]].next
      <4>1. r \in Seq(Blocks)
        BY <1>5 DEF Chained
      <4>2. \A i \in 1..Len(r) : r[i] \in Blocks
        BY <4>1
      <4> QED BY <4>2, <1>2
    <3>2. Chained(y.td, r, Next1(Q[e], k + 1, x.ed[e].tail), x.ed[e].tail)
      BY <1>5, <3>1 DEF Chained
    <3> QED BY <3>2, <1>2, <1>3, <1>6 DEF Path
  <2>2. ASSUME NEW f \in Eds \ {e} PROVE IF f \in Used(y) THEN Path(y, f, R[f]) ELSE R[f] = <<>>
    <3>1. IF f \in Used(x) THEN Path(x, f, Q[f]) ELSE Q[f] = <<>>
      BY <1>1 DEF Queues
    <3>2. \A i \in 1..Len(Q[f]) : y.td[Q[f][i]].next = x.td[Q[f][i]].next
      BY <1>2, <1>7
    <3>3. f \in Used(x) => Path(y, f, Q[f])
      BY <3>1, <3>2, <1>2 DEF Path, Chained
    <3> QED BY <3>1, <3>3, <1>2, <1>6
  <2>3. ASSUME NEW f \in Eds, NEW t \in Range(R[f]) PROVE Owner(y, t) \in Urbs /\ Ep[Owner(y, t)] = f
    <3>1. t \in Range(Q[f])
      BY <1>5, <1>6
    <3>2. t \in Blocks
      BY <3>1, <1>7, NotEmpty
    <3> QED BY <3>1, <3>2, <1>1, <1>2 DEF Queues
  <2> QED BY <2>1, <2>2, <2>3, <1>2, <1>6 DEF Queues
<1>11. Belongs(y)
  <2> SUFFICES ASSUME NEW t \in Blocks, Owner(y, t) # Nil
               PROVE  /\ t \in InUse(y.pool) /\ Owner(y, t) \in Linked(y)
                      /\ y.td[t].index < Size[Owner(y, t)]
                      /\ y.urb[Owner(y, t)].tds[y.td[t].index + 1] = t
    BY DEF Belongs
  <2>1. Owner(y, t) = Owner(x, t) /\ y.td[t].index = x.td[t].index
    BY <1>2
  <2>2. /\ t \in InUse(x.pool) /\ Owner(x, t) \in Linked(x)
        /\ x.td[t].index < Size[Owner(x, t)]
        /\ x.urb[Owner(x, t)].tds[x.td[t].index + 1] = t
    BY <1>1, <2>1 DEF Belongs
  <2> QED BY <2>1, <2>2, <1>2, <1>3
<1>12. Whole(y)
  <2> SUFFICES ASSUME NEW u \in Linked(x)
               PROVE  /\ Len(y.urb[u].tds) = Size[u]
                      /\ \A i \in 1..Size[u] : /\ Owner(y, y.urb[u].tds[i]) = u
                                               /\ y.td[y.urb[u].tds[i]].index = i - 1
    BY <1>2 DEF Whole
  <2>1. y.urb[u].tds = x.urb[u].tds /\ x.urb[u].tds \in Seq(Blocks)
    BY <1>2, <1>3, Parts
  <2>2. /\ Len(x.urb[u].tds) = Size[u]
        /\ \A i \in 1..Size[u] : /\ Owner(x, x.urb[u].tds[i]) = u
                                 /\ x.td[x.urb[u].tds[i]].index = i - 1
    BY <1>1 DEF Whole
  <2>3. \A i \in 1..Size[u] : x.urb[u].tds[i] \in Blocks
    BY <2>1, <2>2
  <2>4. \A i \in 1..Size[u] : /\ Owner(y, x.urb[u].tds[i]) = u
                             /\ y.td[x.urb[u].tds[i]].index = i - 1
    <3> TAKE i \in 1..Size[u]
    <3>1. x.urb[u].tds[i] \in Blocks
      BY <2>3
    <3> QED BY <3>1, <2>2, <1>2
  <2> QED BY <2>1, <2>2, <2>4
<1>13. Dummies(y)
  <2> SUFFICES ASSUME NEW f \in Used(x)
               PROVE  /\ y.ed[f].tail \in InUse(y.pool) /\ Owner(y, y.ed[f].tail) = Nil
                      /\ \A g \in Used(x) : y.ed[g].tail = y.ed[f].tail => g = f
    BY <1>2 DEF Dummies
  <2>1. /\ x.ed[f].tail \in InUse(x.pool) /\ Owner(x, x.ed[f].tail) = Nil
        /\ \A g \in Used(x) : x.ed[g].tail = x.ed[f].tail => g = f
    BY <1>1 DEF Dummies
  <2>2. x.ed[f].tail \in Blocks /\ \A g \in Used(x) : y.ed[g].tail = x.ed[g].tail
    BY <2>1, <1>2, <1>3 DEF InUse
  <2>3. Owner(y, x.ed[f].tail) = Nil
    BY <2>1, <2>2, <1>2
  <2> QED BY <2>1, <2>2, <2>3, <1>2
<1>14. Ordered(y, R)
  <2> SUFFICES ASSUME NEW f \in Eds, NEW i \in 1..Len(R[f]), Unfinished(y, R[f][i])
               PROVE  i < Len(R[f]) /\ Follows(y, R[f][i + 1], R[f][i])
    BY DEF Ordered
  <2>1. PICK j \in {0, k} : /\ Len(R[f]) = Len(Q[f]) - j /\ j \in 0..Len(Q[f])
                            /\ \A m \in 1..Len(R[f]) : R[f][m] = Q[f][j + m]
    <3>1. CASE f = e
      BY <3>1, <1>5, <1>6
    <3>2. CASE f # e
      <4>1. R[f] = Q[f] /\ Len(Q[f]) - 0 = Len(Q[f]) /\ 0 \in 0..Len(Q[f])
            /\ \A m \in 1..Len(Q[f]) : 0 + m = m
        BY <3>2, <1>6, <1>7
      <4> QED BY <4>1
    <3> QED BY <3>1, <3>2
  <2>2. j + i \in 1..Len(Q[f]) /\ R[f][i] = Q[f][j + i] /\ Len(Q[f]) \in Nat
    BY <2>1, <1>7
  <2>3. Q[f][j + i] \in Blocks
    BY <2>2, <1>7
  <2>4. Unfinished(x, Q[f][j + i])
    BY <2>2, <2>3, <1>2 DEF Unfinished
  <2>5. j + i < Len(Q[f]) /\ Follows(x, Q[f][j + i + 1], Q[f][j + i])
    BY <2>2, <2>4, <1>1 DEF Ordered
  <2>8. j \in Nat /\ Len(R[f]) = Len(Q[f]) - j /\ j + i < Len(Q[f])
    BY <2>1, <2>2, <2>5
  <2>9. Len(R[f]) \in Nat /\ Len(Q[f]) \in Nat
    BY <2>1, <2>2
  <2>6. i < Len(R[f]) /\ i + 1 \in 1..Len(R[f]) /\ j + (i + 1) = j + i + 1 /\ j + i + 1 \in 1..Len(Q[f])
    BY <2>8, <2>9, NextPlace
  <2>7. R[f][i + 1] = Q[f][j + i + 1] /\ Q[f][j + i + 1] \in Blocks
    BY <2>1, <2>6, <1>7
  <2> QED BY <2>2, <2>3, <2>5, <2>6, <2>7, <1>2 DEF Follows
<1> QED
  BY <1>5, <1>6, <1>9, <1>10, <1>11, <1>12, <1>13, <1>14 DEF R, IsPast

(* The TDs of a request that are still to be counted are finitely many.      *)
LEMMA PendingFinite ==
    ASSUME NEW x, NEW Q, NEW D, NEW u, Queues(x, Q), Out(x, Q, D)
    PROVE  /\ Pending(x, Q, D, u) \subseteq Blocks /\ IsFiniteSet(Pending(x, Q, D, u))
           /\ Cardinality(Pending(x, Q, D, u)) \in Nat
           /\ Cardinality(Pending(x, Q, D, u)) = 0 <=> Pending(x, Q, D, u) = {}
<1>1. \A t \in Coming(Q) \cup D : t \in Blocks
  BY ComingTd DEF Out
<1>2. Pending(x, Q, D, u) \subseteq Blocks
  BY <1>1 DEF Pending
<1>3. IsFiniteSet(Pending(x, Q, D, u))
  BY <1>2, BlocksFinite, FS_Subset
<1> QED
  BY <1>2, <1>3, FS_CardinalityType, FS_EmptySet

(* A TD of the queue of e is done.                                           *)
RetireStep(x, y, e, t, fails) ==
    /\ ShortenStep(x, y, e)
    /\ y.ed[e].head = x.td[t].next /\ y.ed[e].halted = fails
    /\ \A s \in Blocks \ {t} : y.td[s].failed = x.td[s].failed
    /\ \A u \in Urbs : y.urb[u].cnt = x.urb[u].cnt

(* One more TD is done, t, which may have failed.                            *)
OneMore(x, y, Q, D, dead, t) ==
    \E R : /\ Tds(y, R, D \cup {t}, dead)
           /\ \A F \in SUBSET D : Halts(x, Q, F) => Halts(y, R, F \cup {t})
           /\ \A S : Owing(x, S, dead) => Owing(y, S, dead)

(* When the controller is done with the TD at a head, it is one more of the  *)
(* TDs that are out, and nothing else changes.                               *)
LEMMA Retired ==
    ASSUME NEW x \in DD, NEW y \in DD, NEW Q, NEW D, NEW dead, OhciAssumption, Tds(x, Q, D, dead),
           NEW e \in Used(x), NEW t, t = x.ed[e].head, t # x.ed[e].tail, ~x.ed[e].halted,
           NEW fails \in BOOLEAN, RetireStep(x, y, e, t, fails), y.td[t].failed => fails
    PROVE  /\ t \in Blocks \ D /\ Owner(x, t) \in Urbs /\ Ep[Owner(x, t)] = e
           /\ OneMore(x, y, Q, D, dead, t)
<1> DEFINE q == Q[e]
           R == Past(Q, e, 1)
<1>1. Queues(x, Q) /\ Belongs(x) /\ Whole(x) /\ Dummies(x)
      /\ Ordered(x, Q) /\ Out(x, Q, D) /\ Counted(x, Q, D, dead)
  BY DEF Tds
<1>2. Used(x) \subseteq Eds /\ e \in Eds /\ Linked(x) \subseteq Urbs /\ Q \in [Eds -> Seq(Blocks)]
  BY <1>1 DEF Used, Linked, Queues
<1>3. Chained(x.td, q, x.ed[e].head, x.ed[e].tail) /\ q \in Seq(Blocks)
  BY <1>1, <1>2 DEF Queues, Path
<1>4. 1 \in 1..Len(q) /\ q[1] = t /\ Len(q) \in Nat
  BY <1>3 DEF Chained, Next1
<1>5. x.td[t].next = Next1(q, 1 + 1, x.ed[e].tail)
  BY <1>3, <1>4 DEF Chained
<1>6. t \in Range(q) /\ t \in Coming(Q) /\ t \in Blocks /\ t \notin D
  <2>1. t \in Range(q)
    BY <1>3, <1>4, NotEmpty
  <2>2. t \in Coming(Q)
    BY <2>1, <1>2 DEF Coming
  <2> QED BY <2>1, <2>2, <1>1, <1>3, <1>4 DEF Out
<1>7. Owner(x, t) \in Urbs /\ Ep[Owner(x, t)] = e
  BY <1>1, <1>2, <1>6 DEF Queues
<1>8. /\ ShortenStep(x, y, e)
      /\ y.ed[e].head = x.td[t].next /\ y.ed[e].halted = fails
      /\ \A s \in Blocks \ {t} : y.td[s].failed = x.td[s].failed
      /\ \A u \in Urbs : y.urb[u].cnt = x.urb[u].cnt
  BY DEF RetireStep
<1>9. /\ Queues(y, R) /\ Belongs(y) /\ Whole(y) /\ Dummies(y) /\ Ordered(y, R)
      /\ Coming(R) = Coming(Q) \ First(Q[e], 1)
      /\ \A f \in Eds \ {e} : R[f] = Q[f]
      /\ Len(R[e]) = Len(Q[e]) - 1
      /\ \A i \in 1..(Len(Q[e]) - 1) : R[e][i] = Q[e][1 + i]
  <2>1. 1 \in 0..Len(Q[e])
    BY <1>4
  <2>2. y.ed[e].head = Next1(Q[e], 1 + 1, x.ed[e].tail)
    BY <1>5, <1>8
  <2> HIDE DEF q
  <2>3. Queues(y, R) /\ Belongs(y) /\ Whole(y) /\ Dummies(y) /\ Ordered(y, R) /\ IsPast(Q, R, e, 1)
    BY <2>1, <2>2, <1>8, Shortened
  <2> QED BY <2>3 DEF IsPast
<1> HIDE DEF R
<1>10. First(q, 1) = {t}
  BY <1>4 DEF First
<1>11. Used(y) = Used(x) /\ Linked(y) = Linked(x)
       /\ \A s \in Blocks : Owner(y, s) = Owner(x, s) /\ y.td[s].index = x.td[s].index
  BY <1>8 DEF ShortenStep
<1>12. Coming(R) \cup (D \cup {t}) = Coming(Q) \cup D /\ t \notin Coming(R)
  BY <1>6, <1>9, <1>10
<1>13. \A s \in Coming(Q) \cup D : s \in Blocks
  BY <1>1, ComingTd DEF Out
<1>14. Out(y, R, D \cup {t})
  <2>1. D \subseteq Blocks /\ D \cap Coming(Q) = {}
        /\ \A s \in D : Owner(x, s) \in Urbs /\ Ep[Owner(x, s)] \in Used(x)
    BY <1>1 DEF Out
  <2>2. D \cup {t} \subseteq Blocks /\ (D \cup {t}) \cap Coming(R) = {}
    BY <2>1, <1>6, <1>9, <1>12
  <2>3. \A s \in D \cup {t} : Owner(x, s) \in Urbs /\ Ep[Owner(x, s)] \in Used(x)
    BY <2>1, <1>7
  <2>4. \A s \in D \cup {t} : Owner(y, s) = Owner(x, s)
    BY <2>2, <1>11
  <2> HIDE DEF R
  <2> QED BY <2>2, <2>3, <2>4, <1>11 DEF Out
<1>15. Counted(y, R, D \cup {t}, dead)
  <2>1. \A u : Pending(y, R, D \cup {t}, u) = Pending(x, Q, D, u)
    BY <1>11, <1>12, <1>13 DEF Pending
  <2> QED BY <2>1, <1>1, <1>8, <1>11, ZenonT(30) DEF Counted
<1>16. Tds(y, R, D \cup {t}, dead)
  BY <1>9, <1>14, <1>15 DEF Tds
<1>17. \A S : Owing(x, S, dead) => Owing(y, S, dead)
  <2>1. \A u \in Linked(x) : y.urb[u].cnt = x.urb[u].cnt
    BY <1>2, <1>8
  <2> QED BY <2>1, <1>11 DEF Owing
<1>18. ASSUME NEW F \in SUBSET D, Halts(x, Q, F) PROVE Halts(y, R, F \cup {t})
  <2>1. \A s \in F : /\ s \in Blocks /\ s # t /\ Owner(y, s) = Owner(x, s)
                     /\ y.td[s].index = x.td[s].index /\ y.td[s].failed = x.td[s].failed
                     /\ Ep[Owner(x, s)] \in Used(x)
    BY <1>1, <1>6, <1>8, <1>11 DEF Out
  <2>2. ASSUME NEW s \in F, x.td[s].failed
        PROVE  /\ Ep[Owner(x, s)] # e /\ y.ed[Ep[Owner(x, s)]].halted
               /\ Unfinished(x, s) => /\ R[Ep[Owner(x, s)]] # <<>>
                                      /\ Follows(y, R[Ep[Owner(x, s)]][1], s)
    <3> DEFINE f == Ep[Owner(x, s)]
    <3>1. x.ed[f].halted /\ f \in Eds
          /\ (Unfinished(x, s) => Q[f] # <<>> /\ Follows(x, Q[f][1], s))
      BY <2>1, <2>2, <1>2, <1>18 DEF Halts
    <3>2. f # e
      BY <3>1
    <3>3. y.ed[f].halted /\ R[f] = Q[f]
      BY <3>1, <3>2, <1>8, <1>9 DEF ShortenStep
    <3>4. Q[f] # <<>> => Q[f][1] \in Blocks
      <4> HIDE DEF f
      <4>1. Q[f] \in Seq(Blocks)
        BY <3>1, <1>2
      <4> QED BY <4>1
    <3>5. Unfinished(x, s) => Follows(y, Q[f][1], s)
      BY <3>1, <3>4, <2>1, <1>11 DEF Follows
    <3> QED BY <3>1, <3>2, <3>3, <3>5
  <2>3. ASSUME y.td[t].failed
        PROVE  y.ed[e].halted /\ (Unfinished(y, t) => R[e] # <<>> /\ Follows(y, R[e][1], t))
    <3>1. y.ed[e].halted
      BY <2>3, <1>8
    <3>2. ASSUME Unfinished(y, t) PROVE R[e] # <<>> /\ Follows(y, R[e][1], t)
      <4>1. Unfinished(x, q[1])
        BY <3>2, <1>4, <1>6, <1>11 DEF Unfinished
      <4>2. 1 < Len(q) /\ Follows(x, q[1 + 1], q[1])
        BY <4>1, <1>1, <1>2, <1>4 DEF Ordered
      <4>3. 1 \in 1..(Len(q) - 1) /\ R[e][1] = q[1 + 1] /\ Len(R[e]) > 0
        BY <4>2, <1>4, <1>9
      <4>4. q[1 + 1] \in Blocks
        BY <4>2, <1>3, <1>4
      <4>5. R[e] # <<>>
        BY <4>3
      <4> QED BY <4>2, <4>3, <4>4, <4>5, <1>4, <1>6, <1>11 DEF Follows
    <3> QED BY <3>1, <3>2
  <2>4. ASSUME NEW s \in F \cup {t}, y.td[s].failed
        PROVE  /\ y.ed[Ep[Owner(y, s)]].halted
               /\ Unfinished(y, s) => /\ R[Ep[Owner(y, s)]] # <<>>
                                      /\ Follows(y, R[Ep[Owner(y, s)]][1], s)
    <3>1. CASE s = t
      BY <3>1, <2>3, <2>4, <1>6, <1>7, <1>11
    <3>2. CASE s \in F
      <4>1. x.td[s].failed /\ Owner(y, s) = Owner(x, s)
        BY <3>2, <2>1, <2>4
      <4>2. Unfinished(y, s) => Unfinished(x, s)
        BY <3>2, <2>1 DEF Unfinished
      <4> QED BY <3>2, <4>1, <4>2, <2>2
    <3> QED BY <3>1, <3>2
  <2>5. ASSUME NEW r \in F \cup {t}, NEW s \in F \cup {t}, y.td[r].failed, y.td[s].failed,
               Ep[Owner(y, r)] = Ep[Owner(y, s)]
        PROVE  r = s
    <3>1. \A v \in F : y.td[v].failed => Ep[Owner(y, v)] # Ep[Owner(y, t)]
      BY <2>1, <2>2, <1>6, <1>7, <1>11
    <3>2. CASE r \in F /\ s \in F
      BY <3>2, <2>1, <2>5, <1>18 DEF Halts
    <3> QED BY <3>1, <3>2, <2>5
  <2> QED BY <2>4, <2>5 DEF Halts
<1> QED
  BY <1>6, <1>7, <1>16, <1>17, <1>18 DEF OneMore

(* An endpoint's record, changed here and there, is one.                     *)
LEMMA EdChanged ==
    \A r \in EdRec :
        /\ [r EXCEPT !.halted = FALSE] \in EdRec
        /\ \A h \in Blocks \cup {Nil} : [r EXCEPT !.halted = FALSE, !.head = h] \in EdRec
        /\ \A h \in Blocks \cup {Nil}, b \in BOOLEAN : [r EXCEPT !.head = h, !.halted = b] \in EdRec
        /\ \A h \in Blocks \cup {Nil} : [r EXCEPT !.head = h] \in EdRec
        /\ \A h \in Blocks \cup {Nil} : [r EXCEPT !.tail = h] \in EdRec
        /\ [r EXCEPT !.state = "OPER", !.urbdel = FALSE] \in EdRec
        /\ [r EXCEPT !.state = "UNLINK", !.urbdel = FALSE, !.skip = TRUE] \in EdRec
        /\ [r EXCEPT !.state = "DEL", !.urbdel = FALSE] \in EdRec
        /\ \A b \in BOOLEAN : [r EXCEPT !.skip = b] \in EdRec
        /\ \A b \in BOOLEAN : [r EXCEPT !.urbdel = b] \in EdRec
<1>1. \A r \in EdRec : [r EXCEPT !.halted = FALSE] \in EdRec
  BY Zenon DEF EdRec
<1>2. \A r \in EdRec, h \in Blocks \cup {Nil} : [r EXCEPT !.halted = FALSE, !.head = h] \in EdRec
  BY Zenon DEF EdRec
<1>3. \A r \in EdRec, h \in Blocks \cup {Nil}, b \in BOOLEAN : [r EXCEPT !.head = h, !.halted = b] \in EdRec
  BY Zenon DEF EdRec
<1>4. \A r \in EdRec, h \in Blocks \cup {Nil} : [r EXCEPT !.head = h] \in EdRec
  BY Zenon DEF EdRec
<1>5. \A r \in EdRec, h \in Blocks \cup {Nil} : [r EXCEPT !.tail = h] \in EdRec
  BY Zenon DEF EdRec
<1>6. \A r \in EdRec : [r EXCEPT !.state = "OPER", !.urbdel = FALSE] \in EdRec
  BY Zenon DEF EdRec
<1>7. \A r \in EdRec : [r EXCEPT !.state = "UNLINK", !.urbdel = FALSE, !.skip = TRUE] \in EdRec
  BY Zenon DEF EdRec
<1>8. \A r \in EdRec : [r EXCEPT !.state = "DEL", !.urbdel = FALSE] \in EdRec
  BY Zenon DEF EdRec
<1>9. \A r \in EdRec : \A b \in BOOLEAN : [r EXCEPT !.skip = b] \in EdRec
  BY Zenon DEF EdRec
<1>10. \A r \in EdRec : \A b \in BOOLEAN : [r EXCEPT !.urbdel = b] \in EdRec
  BY Zenon DEF EdRec
<1> QED
  BY <1>1, <1>2, <1>3, <1>4, <1>5, <1>6, <1>7, <1>8, <1>9, <1>10, Zenon

(* The fields of records of the driver's data.                               *)
LEMMA EdFields ==
    \A r \in EdRec :
        /\ DOMAIN r = {"state", "urbdel", "skip", "halted", "head", "tail"}
        /\ r.state \in {"NEW", "UNLINK", "OPER", "DEL"} /\ r.urbdel \in BOOLEAN /\ r.skip \in BOOLEAN
        /\ r.halted \in BOOLEAN /\ r.head \in Blocks \cup {Nil} /\ r.tail \in Blocks \cup {Nil}
BY Zenon DEF EdRec

(* Unhalt, when it has something to do: k TDs are skipped.                   *)
UnhaltStep(x, y, u, e, k) ==
    /\ y \in DD
    /\ y.td = x.td /\ y.pool = x.pool /\ y.list = x.list /\ y.on = x.on /\ y.rm = x.rm
    /\ \A f \in Eds \ {e} : y.ed[f] = x.ed[f]
    /\ y.ed[e].halted = FALSE
    /\ y.ed[e].head = IF k = 0 THEN x.ed[e].head ELSE x.td[Last(x.urb[u].tds)].next
    /\ y.ed[e].tail = x.ed[e].tail /\ y.ed[e].state = x.ed[e].state
    /\ y.ed[e].urbdel = x.ed[e].urbdel /\ y.ed[e].skip = x.ed[e].skip
    /\ \A v \in Urbs \ {u} : y.urb[v] = x.urb[v]
    /\ y.urb[u].cnt = x.urb[u].cnt + k
    /\ y.urb[u].tds = x.urb[u].tds /\ y.urb[u].stage = x.urb[u].stage /\ y.urb[u].del = x.urb[u].del

(* What dl_reverse_done_list does at a failed TD: the endpoint runs again,   *)
(* past the TDs of the same request that are left.                           *)
LEMMA UnhaltShape ==
    ASSUME NEW x \in DD, NEW t \in Blocks, NEW u \in Urbs, u = Owner(x, t), OhciAssumption,
           x.urb[u].stage = "linked", x.urb[u].tds # <<>>, x.td[t].index < Size[u],
           x.td[t].failed, x.ed[Ep[u]].halted
    PROVE  UnhaltStep(x, Unhalt(x, t), u, Ep[u], Size[u] - x.td[t].index - 1)
           /\ Size[u] - x.td[t].index - 1 \in Nat
<1> DEFINE y == Unhalt(x, t)
           e == Ep[u]
           k == Size[u] - x.td[t].index - 1
           h == x.td[Last(x.urb[u].tds)].next
<1>1. /\ x.ed \in [Eds -> EdRec] /\ x.td \in [Blocks -> TdRec] /\ x.urb \in [Urbs -> UrbRec]
      /\ x.pool \in Pools /\ x.list \in [Kinds -> Seq(Eds)] /\ x.on \in SUBSET Kinds
      /\ x.rm \in [Frames -> Seq(Eds)] /\ x.td[t].index \in Nat
      /\ x.urb[u].tds \in Seq(Blocks) /\ x.urb[u].cnt \in Nat
      /\ \A s \in Blocks : x.td[s].next \in Blocks \cup {Nil}
  BY Parts
<1>2. e \in Eds /\ Size[u] \in Nat
  BY DEF OhciAssumption
<1>3. k \in Nat /\ (k = 0 <=> ~(x.td[t].index + 1 < Size[u]))
  BY <1>1, <1>2
<1>4. h \in Blocks \cup {Nil}
  <2>1. Last(x.urb[u].tds) \in Blocks
    BY <1>1 DEF Last
  <2> QED BY <2>1, <1>1
<1>5. x.td[t].urb = u
  BY DEF Owner
<1> DEFINE E == [x.ed EXCEPT ![e] = IF k = 0 THEN [x.ed[e] EXCEPT !.halted = FALSE]
                                    ELSE [x.ed[e] EXCEPT !.halted = FALSE, !.head = h]]
           U == [x.urb EXCEPT ![u] = IF k = 0 THEN x.urb[u] ELSE [x.urb[u] EXCEPT !.cnt = @ + k]]
<1>6. E \in [Eds -> EdRec]
  <2>1. x.ed[e] \in EdRec
    BY <1>1, <1>2
  <2>2. [x.ed[e] EXCEPT !.halted = FALSE] \in EdRec /\ [x.ed[e] EXCEPT !.halted = FALSE, !.head = h] \in EdRec
    <3> HIDE DEF h
    <3> QED BY <2>1, <1>4, EdChanged, Zenon
  <2> HIDE DEF h, k
  <2> QED BY <2>2, <1>1, <1>2
<1>7. U \in [Urbs -> UrbRec] /\ U[u].cnt = x.urb[u].cnt + k /\ U[u].tds = x.urb[u].tds
      /\ U[u].stage = x.urb[u].stage /\ U[u].del = x.urb[u].del
  <2> HIDE DEF k
  <2>1. x.urb[u] \in UrbRec
    BY <1>1
  <2>2. x.urb[u].cnt + k \in Nat
    BY <1>1, <1>3
  <2>3. [x.urb[u] EXCEPT !.cnt = @ + k] \in UrbRec
    BY <2>1, <2>2, Zenon DEF UrbRec
  <2>4. DOMAIN x.urb[u] = {"stage", "del", "tds", "cnt"}
    BY <2>1, Zenon DEF UrbRec
  <2>5. k = 0 => x.urb[u].cnt + k = x.urb[u].cnt
    BY <1>1
  <2> QED BY <1>1, <2>3, <2>4, <2>5
<1>8. x.td[t].failed /\ x.ed[Ep[x.td[t].urb]].halted /\ x.urb[x.td[t].urb].stage = "linked"
  BY <1>5
<1>9. y = [x EXCEPT !.ed = E, !.urb = U]
  <2>1. CASE k = 0
    <3>1. y = [x EXCEPT !.ed[e].halted = FALSE]
      BY <1>3, <1>5, <1>8, <2>1 DEF Unhalt
    <3>2. E = [x.ed EXCEPT ![e].halted = FALSE] /\ U = x.urb
      BY <2>1, <1>1, <1>2
    <3> HIDE DEF k, y, E, U
    <3> QED BY <3>1, <3>2 DEF DD
  <2>2. CASE k # 0
    <3>1. y = [x EXCEPT !.ed[e].halted = FALSE, !.ed[e].head = h,
                        !.urb[u].cnt = @ + Size[u] - x.td[t].index - 1]
      BY <1>3, <1>5, <1>8, <2>2 DEF Unhalt
    <3>2. x.urb[u].cnt + Size[u] - x.td[t].index - 1 = x.urb[u].cnt + k
      BY <1>1, <1>2
    <3>3. E = [x.ed EXCEPT ![e] = [x.ed[e] EXCEPT !.halted = FALSE, !.head = h]]
          /\ U = [x.urb EXCEPT ![u].cnt = @ + k]
      BY <2>2, <1>1, <1>2
    <3> HIDE DEF k, h, y, E, U
    <3> QED BY <3>1, <3>2, <3>3, <1>1, <1>2, ZenonT(30) DEF DD
  <2> QED BY <2>1, <2>2
<1>10. y.ed = E /\ y.urb = U /\ y.td = x.td /\ y.pool = x.pool /\ y.list = x.list /\ y.on = x.on
       /\ y.rm = x.rm /\ y \in DD
  <2> HIDE DEF y, E, U
  <2> QED BY <1>6, <1>7, <1>9, <1>1 DEF DD
<1>11. /\ \A f \in Eds \ {e} : E[f] = x.ed[f]
       /\ E[e].halted = FALSE
       /\ E[e].head = IF k = 0 THEN x.ed[e].head ELSE h
       /\ E[e].tail = x.ed[e].tail /\ E[e].state = x.ed[e].state
       /\ E[e].urbdel = x.ed[e].urbdel /\ E[e].skip = x.ed[e].skip
  <2>1. x.ed[e] \in EdRec
    BY <1>1, <1>2
  <2>2. DOMAIN x.ed[e] = {"state", "urbdel", "skip", "halted", "head", "tail"}
    BY <2>1, EdFields
  <2> HIDE DEF h, k
  <2> QED BY <2>2, <1>1, <1>2
<1>12. \A v \in Urbs \ {u} : U[v] = x.urb[v]
  BY <1>1
<1>13. UnhaltStep(x, y, u, e, k)
  <2> HIDE DEF y, E, U, k
  <2> QED BY <1>7, <1>10, <1>11, <1>12 DEF UnhaltStep, h
<1> QED
  BY <1>3, <1>13

(* The TDs behind a failed one, up to the last of its request, are at the    *)
(* head of its endpoint's queue.                                             *)
SkipsOwn(x, Q, u, e, k) ==
    /\ k \in 0..Len(Q[e])
    /\ \A i \in 1..k : Q[e][i] \in Range(Q[e]) /\ Owner(x, Q[e][i]) = u
    /\ k # 0 => x.urb[u].tds[Size[u]] = Q[e][k]
    /\ k # 0 => x.td[Q[e][k]].next = Next1(Q[e], k + 1, x.ed[e].tail)

(* The TDs skipped at a failed TD are all of its request, and all that are   *)
(* left of it.                                                               *)
LEMMA Skipped ==
    ASSUME NEW x \in DD, NEW Q, Queues(x, Q), Belongs(x), Ordered(x, Q), OhciAssumption,
           NEW t \in Blocks, NEW u \in Urbs, u = Owner(x, t), NEW e \in Eds, e \in Used(x),
           NEW k \in Nat, k = Size[u] - x.td[t].index - 1,
           Unfinished(x, t) => Q[e] # <<>> /\ Follows(x, Q[e][1], t)
    PROVE  SkipsOwn(x, Q, u, e, k)
<1> DEFINE q == Q[e]
           c == x.td[t].index
           n == Size[u]
           A == {i \in 0..k : /\ i <= Len(q)
                              /\ \A j \in 1..i : Owner(x, q[j]) = u /\ x.td[q[j]].index = c + j}
<1>1. q \in Seq(Blocks) /\ Len(q) \in Nat /\ c \in Nat /\ n \in Nat
      /\ (\A i \in 1..Len(q) : q[i] \in Range(q) /\ q[i] \in Blocks)
  <2>1. q \in Seq(Blocks)
    BY DEF Queues
  <2>2. c \in Nat
    BY Parts
  <2>3. n \in Nat
    BY DEF OhciAssumption
  <2> QED BY <2>1, <2>2, <2>3, NotEmpty
<1>2. k = n - c - 1
  OBVIOUS
<1>3. \A i \in 1..Len(q) : x.td[q[i]].index + 1 < Size[Owner(x, q[i])] =>
        /\ i < Len(q) /\ Owner(x, q[i + 1]) = Owner(x, q[i])
        /\ x.td[q[i + 1]].index = x.td[q[i]].index + 1
  BY DEF Ordered, Unfinished, Follows
<1>4. c + 1 < n => Len(q) > 0 /\ Owner(x, q[1]) = u /\ x.td[q[1]].index = c + 1
  BY <1>1 DEF Unfinished, Follows
<1>5. Chained(x.td, q, x.ed[e].head, x.ed[e].tail)
  BY DEF Queues, Path
<1>6. \A s \in Blocks : Owner(x, s) = u => x.urb[u].tds[x.td[s].index + 1] = s
  BY DEF Belongs, OhciAssumption
<1> HIDE DEF q, c, n
<1>7. 0 \in A
  BY <1>1
<1>8. ASSUME NEW i \in 0..(k - 1), i \in A PROVE i + 1 \in A
  <2>1. i <= Len(q) /\ (\A j \in 1..i : Owner(x, q[j]) = u /\ x.td[q[j]].index = c + j) /\ i \in Nat
    BY <1>8
  <2>2. c + i + 1 < n /\ i + 1 \in 0..k
    BY <1>1, <1>2, <2>1, SMTT(30)
  <2>3. i + 1 <= Len(q) /\ Owner(x, q[i + 1]) = u /\ x.td[q[i + 1]].index = c + (i + 1)
    <3>1. CASE i = 0
      <4>1. c + 1 < n /\ 0 + 1 = 1
        BY <2>2, <3>1, <1>1
      <4> QED BY <4>1, <3>1, <1>4, <1>1
    <3>2. CASE i # 0
      <4>1. i \in 1..i /\ i \in 1..Len(q)
        BY <2>1, <3>2, <1>1
      <4>2. Owner(x, q[i]) = u /\ x.td[q[i]].index = c + i
        BY <2>1, <4>1
      <4>3. c + i + 1 < Size[u]
        BY <2>2 DEF n
      <4>4. /\ i < Len(q) /\ Owner(x, q[i + 1]) = u
            /\ x.td[q[i + 1]].index = c + i + 1
        BY <4>1, <4>2, <4>3, <1>3
      <4>5. c + i + 1 = c + (i + 1)
        BY <1>1, <2>1
      <4> QED BY <4>4, <4>5, <1>1, <2>1
    <3> QED BY <3>1, <3>2
  <2>4. \A j \in 1..(i + 1) : j \in 1..i \/ j = i + 1
    BY <2>1
  <2> QED BY <2>1, <2>2, <2>3, <2>4
<1>9. 0..k \subseteq A
  <2> HIDE DEF A
  <2> QED BY <1>7, <1>8, BoundedInduction
<1>10. k <= Len(q) /\ (\A j \in 1..k : Owner(x, q[j]) = u /\ x.td[q[j]].index = c + j)
  <2>1. k \in 0..k
    OBVIOUS
  <2> QED BY <2>1, <1>9
<1>11. ASSUME k # 0
       PROVE  /\ x.urb[u].tds[Size[u]] = q[k]
              /\ x.td[q[k]].next = Next1(q, k + 1, x.ed[e].tail)
  <2>0. k \in Nat /\ Len(q) \in Nat /\ k # 0 /\ k <= Len(q)
    BY <1>11, <1>10, <1>1, Zenon
  <2>5. \A m, l \in Nat : m # 0 /\ m <= l => m \in 1..m /\ m \in 1..l
    OBVIOUS
  <2>1. k \in 1..k /\ k \in 1..Len(q)
    BY <2>0, <2>5, Zenon
  <2>2. q[k] \in Blocks /\ Owner(x, q[k]) = u /\ x.td[q[k]].index = c + k
    BY <2>1, <1>1, <1>10
  <2>3. c + k + 1 = n
    BY <1>1, <1>2
  <2>4. x.urb[u].tds[c + k + 1] = q[k]
    BY <2>2, <1>6
  <2> QED BY <2>1, <2>3, <2>4, <1>5 DEF Chained, n
<1> QED
  BY <1>1, <1>10, <1>11 DEF q, SkipsOwn

(* The first k elements of a sequence that repeats nothing are k.            *)
LEMMA PrefixCounted ==
    ASSUME NEW q \in Seq(Blocks), IsInjective(q), NEW k \in 0..Len(q), NEW r \in Seq(Blocks), IsInjective(r),
           Len(r) = Len(q) - k, Range(r) = Range(q) \ First(q, k)
    PROVE  First(q, k) \subseteq Range(q) /\ Cardinality(First(q, k)) = k
<1>1. Len(q) \in Nat /\ \A i \in 1..Len(q) : q[i] \in Range(q)
  BY NotEmpty
<1>2. First(q, k) \subseteq Range(q)
  BY <1>1 DEF First
<1>3. IsFiniteSet(Range(q)) /\ IsFiniteSet(First(q, k))
  BY <1>2, BlocksFinite, FS_Subset, NotEmpty
<1>4. Cardinality(Range(q)) = Len(q) /\ Cardinality(Range(r)) = Len(q) - k
  BY ShortEnough
<1>5. Cardinality(Range(q) \ First(q, k)) = Cardinality(Range(q)) - Cardinality(Range(q) \cap First(q, k))
  BY <1>3, FS_Difference
<1>6. Range(q) \cap First(q, k) = First(q, k)
  BY <1>2
<1>7. Cardinality(First(q, k)) \in Nat
  BY <1>3, FS_CardinalityType
<1> DEFINE c == Cardinality(First(q, k))
           N == Len(q)
<1>8. N \in Nat /\ c \in Nat /\ k \in 0..N /\ N - k = N - c
  BY <1>1, <1>4, <1>5, <1>6, <1>7, Zenon
<1> HIDE DEF c, N
<1>9. c = k
  BY <1>8
<1> QED
  BY <1>2, <1>9 DEF c

(* What looking at the done list leaves alone.                               *)
Calm(x, y) ==
    /\ y.td = x.td /\ y.pool = x.pool /\ y.list = x.list /\ y.on = x.on /\ y.rm = x.rm
    /\ \A e \in Eds : /\ y.ed[e].tail = x.ed[e].tail /\ y.ed[e].state = x.ed[e].state
                      /\ y.ed[e].urbdel = x.ed[e].urbdel /\ y.ed[e].skip = x.ed[e].skip
                      /\ ~x.ed[e].halted => ~y.ed[e].halted /\ y.ed[e].head = x.ed[e].head
    /\ \A u \in Urbs : /\ y.urb[u].stage = x.urb[u].stage /\ y.urb[u].del = x.urb[u].del
                       /\ y.urb[u].tds = x.urb[u].tds

(* The k TDs behind t are counted, with those of no other request.           *)
LEMMA SkippedCounted ==
    ASSUME NEW x, NEW y, NEW Q, NEW R, NEW D, NEW dead, OhciAssumption,
           Queues(x, Q), Out(x, Q, D), Counted(x, Q, D, dead), NEW u \in Urbs, NEW S,
           NEW k \in Nat, Cardinality(S) = k, S \subseteq Coming(Q), \A t \in S : Owner(x, t) = u,
           Coming(R) = Coming(Q) \ S, y.td = x.td, Linked(y) = Linked(x), u \in Linked(x),
           \A v \in Urbs \ {u} : y.urb[v] = x.urb[v], y.urb[u].cnt = x.urb[u].cnt + k,
           x.urb[u].cnt \in Nat
    PROVE  Counted(y, R, D, dead)
<1>1. \A v : Pending(y, R, D, v) = IF v = u THEN Pending(x, Q, D, u) \ S ELSE Pending(x, Q, D, v)
  <2>1. S \cap D = {}
    BY DEF Out
  <2>2. Coming(R) \cup D = (Coming(Q) \cup D) \ S
    BY <2>1
  <2>3. \A t : Owner(y, t) = Owner(x, t)
    BY DEF Owner
  <2> QED BY <2>2, <2>3 DEF Pending
<1>2. S \subseteq Pending(x, Q, D, u)
  BY DEF Pending
<1>3. Cardinality(Pending(x, Q, D, u)) \in Nat /\ IsFiniteSet(Pending(x, Q, D, u))
  BY PendingFinite
<1>4. Cardinality(Pending(x, Q, D, u) \ S) = Cardinality(Pending(x, Q, D, u)) - k
  <2>1. Pending(x, Q, D, u) \cap S = S
    BY <1>2
  <2>2. Cardinality(Pending(x, Q, D, u) \ S)
            = Cardinality(Pending(x, Q, D, u)) - Cardinality(Pending(x, Q, D, u) \cap S)
    BY <1>3, FS_Difference
  <2> QED BY <2>1, <2>2, Zenon
<1>5. k <= Cardinality(Pending(x, Q, D, u))
  BY <1>2, <1>3, FS_Subset
<1>6. Linked(x) \subseteq Urbs /\ Size[u] \in Nat
  BY DEF Linked, OhciAssumption
<1>7. ASSUME NEW v \in Urbs
      PROVE  /\ y.urb[v].cnt <= Size[v]
             /\ v \in Linked(y) =>
                  /\ y.urb[v].cnt + Cardinality(Pending(y, R, D, v)) <= Size[v]
                  /\ ~dead => y.urb[v].cnt + Cardinality(Pending(y, R, D, v)) = Size[v]
  <2>1. CASE v = u
    <3> DEFINE c == x.urb[u].cnt
               p == Cardinality(Pending(x, Q, D, u))
               n == Size[u]
    <3>1. c + p <= n /\ (~dead => c + p = n)
      BY DEF Counted
    <3>2. y.urb[v].cnt = c + k /\ Cardinality(Pending(y, R, D, v)) = p - k
      BY <2>1, <1>1, <1>4
    <3>3. c \in Nat /\ p \in Nat /\ n \in Nat /\ k <= p
      BY <1>3, <1>5, <1>6
    <3> HIDE DEF c, p, n
    <3>4. c + k <= n /\ (c + k) + (p - k) = c + p
      BY <3>1, <3>3
    <3> QED BY <3>1, <3>2, <3>4, <2>1 DEF n
  <2>2. CASE v # u
    BY <2>2, <1>1 DEF Counted
  <2> QED BY <2>1, <2>2
<1> QED
  BY <1>7 DEF Counted

(* Restarting the endpoint of a failed TD keeps all that is known of TDs and *)
(* counts: what it skips it also counts.                                     *)
LEMMA Unhalted ==
    ASSUME NEW x \in DD, NEW Q, NEW D, NEW dead, OhciAssumption, Tds(x, Q, D, dead), Owing(x, {}, dead),
           NEW F \in SUBSET D, Halts(x, Q, F), NEW t \in F, NEW y, y = Unhalt(x, t)
    PROVE  /\ y \in DD /\ Calm(x, y)
           /\ \E R : Tds(y, R, D, dead) /\ Owing(y, {}, dead) /\ Halts(y, R, F \ {t})
<1> DEFINE u == Owner(x, t)
           e == Ep[u]
           n == Size[u] - x.td[t].index - 1
<1>1. Queues(x, Q) /\ Belongs(x) /\ Whole(x) /\ Dummies(x)
      /\ Ordered(x, Q) /\ Out(x, Q, D) /\ Counted(x, Q, D, dead)
  BY DEF Tds
<1>2. /\ t \in D /\ t \in Blocks /\ u \in Urbs /\ e \in Used(x) /\ e \in Eds
      /\ Used(x) \subseteq Eds /\ Linked(x) \subseteq Urbs
  BY <1>1 DEF Out, Used, Linked
<1>3. u \in Linked(x) /\ x.td[t].index < Size[u] /\ x.urb[u].stage = "linked"
  BY <1>1, <1>2 DEF Belongs, Linked, OhciAssumption
<1>4. CASE ~(x.td[t].failed /\ x.ed[e].halted)
  <2>1. y = x
    BY <1>4 DEF Unhalt, Owner
  <2>2. Halts(x, Q, F \ {t})
    BY DEF Halts
  <2> QED BY <2>1, <2>2 DEF Calm
<1>5. CASE x.td[t].failed /\ x.ed[e].halted
  <2>1. x.urb[u].tds \in Seq(Blocks) /\ x.urb[u].tds # <<>> /\ Len(x.urb[u].tds) = Size[u]
    <3>1. x.urb[u].tds \in Seq(Blocks) /\ Len(x.urb[u].tds) = Size[u]
      BY <1>1, <1>2, <1>3, Parts DEF Whole
    <3>2. Size[u] # 0
      BY <1>2 DEF OhciAssumption
    <3> QED BY <3>1, <3>2
  <2>2. UnhaltStep(x, y, u, e, n) /\ n \in Nat
    BY <1>2, <1>3, <1>5, <2>1, UnhaltShape
  <2>3. PICK k \in Nat : k = n
    BY <2>2
  <2>4. Unfinished(x, t) => Q[e] # <<>> /\ Follows(x, Q[e][1], t)
    BY <1>5 DEF Halts
  <2>5. /\ k \in 0..Len(Q[e])
        /\ \A i \in 1..k : Q[e][i] \in Range(Q[e]) /\ Owner(x, Q[e][i]) = u
        /\ k # 0 => x.urb[u].tds[Size[u]] = Q[e][k]
        /\ k # 0 => x.td[Q[e][k]].next = Next1(Q[e], k + 1, x.ed[e].tail)
    <3>1. u = Owner(x, t) /\ k = Size[u] - x.td[t].index - 1
      BY <2>3
    <3>2. /\ u \in Urbs /\ t \in Blocks /\ e \in Eds /\ e \in Used(x)
          /\ Queues(x, Q) /\ Belongs(x) /\ Ordered(x, Q)
      BY <1>1, <1>2
    <3> HIDE DEF u, e
    <3>3. k \in Nat
      BY <2>3
    <3>4. SkipsOwn(x, Q, u, e, k)
      BY <3>1, <3>2, <3>3, <2>4, Skipped
    <3> QED BY <3>4 DEF SkipsOwn
  <2>6. UnhaltStep(x, y, u, e, k)
    BY <2>2, <2>3
  <2> HIDE DEF u, e, n
  <2>7. /\ y \in DD
        /\ y.td = x.td /\ y.pool = x.pool /\ y.list = x.list /\ y.on = x.on /\ y.rm = x.rm
        /\ \A f \in Eds \ {e} : y.ed[f] = x.ed[f]
        /\ y.ed[e].halted = FALSE
        /\ y.ed[e].head = IF k = 0 THEN x.ed[e].head ELSE x.td[Last(x.urb[u].tds)].next
        /\ y.ed[e].tail = x.ed[e].tail /\ y.ed[e].state = x.ed[e].state
        /\ y.ed[e].urbdel = x.ed[e].urbdel /\ y.ed[e].skip = x.ed[e].skip
        /\ \A v \in Urbs \ {u} : y.urb[v] = x.urb[v]
        /\ y.urb[u].cnt = x.urb[u].cnt + k
        /\ y.urb[u].tds = x.urb[u].tds /\ y.urb[u].stage = x.urb[u].stage /\ y.urb[u].del = x.urb[u].del
    BY <2>6 DEF UnhaltStep
  <2>8. x.ed[e].halted
    BY <1>5
  <2>9. Calm(x, y)
    BY <2>7, <2>8 DEF Calm
  <2>10. Used(y) = Used(x) /\ Linked(y) = Linked(x)
    BY <2>9 DEF Calm, Used, Linked
  <2>11. ShortenStep(x, y, e)
    <3>1. \A s \in Blocks : /\ Owner(y, s) = Owner(x, s) /\ y.td[s].index = x.td[s].index
                            /\ y.td[s].next = x.td[s].next
      BY <2>7 DEF Owner
    <3>2. \A f \in Eds \ {e} : y.ed[f].head = x.ed[f].head /\ y.ed[f].halted = x.ed[f].halted
      BY <2>7
    <3>3. (\A f \in Eds : y.ed[f].tail = x.ed[f].tail) /\ (\A v \in Urbs : y.urb[v].tds = x.urb[v].tds)
      BY <2>9 DEF Calm
    <3> QED BY <2>7, <2>10, <3>1, <3>2, <3>3 DEF ShortenStep
  <2>12. y.ed[e].head = Next1(Q[e], k + 1, x.ed[e].tail)
    <3>1. CASE k = 0
      <4>1. x.ed[e].head = Next1(Q[e], 1, x.ed[e].tail)
        BY <1>1, <1>2 DEF Queues, Path, Chained
      <4> QED BY <4>1, <3>1, <2>7
    <3>2. CASE k # 0
      <4>1. Last(x.urb[u].tds) = x.urb[u].tds[Size[u]]
        BY <2>1 DEF Last
      <4> QED BY <4>1, <3>2, <2>5, <2>7
    <3> QED BY <3>1, <3>2
  <2> DEFINE R == Past(Q, e, k)
  <2>13. Queues(y, R) /\ Belongs(y) /\ Whole(y) /\ Dummies(y) /\ Ordered(y, R) /\ IsPast(Q, R, e, k)
    BY <1>2, <2>5, <2>7, <2>11, <2>12, Shortened
  <2> HIDE DEF R
  <2> DEFINE S == First(Q[e], k)
  <2>14. /\ Coming(R) = Coming(Q) \ S
         /\ \A f \in Eds \ {e} : R[f] = Q[f]
         /\ Len(R[e]) = Len(Q[e]) - k /\ Range(R[e]) = Range(Q[e]) \ S
    BY <2>13 DEF IsPast
  <2>15. S \subseteq Range(Q[e]) /\ Cardinality(S) = k
    <3>1. Q[e] \in Seq(Blocks) /\ IsInjective(Q[e]) /\ R[e] \in Seq(Blocks) /\ IsInjective(R[e])
      BY <1>1, <1>2, <2>10, <2>13 DEF Queues, Path, Chained
    <3> QED BY <3>1, <2>5, <2>14, PrefixCounted
  <2>16. \A s \in S : Owner(x, s) = u
    BY <2>5 DEF First
  <2> HIDE DEF S
  <2>17. S \subseteq Coming(Q)
    BY <2>15, <1>2 DEF Coming
  <2>18. Counted(y, R, D, dead)
    <3>1. x.urb[u].cnt \in Nat
      BY <1>2, Parts
    <3>2. /\ y.td = x.td /\ (\A v \in Urbs \ {u} : y.urb[v] = x.urb[v])
          /\ y.urb[u].cnt = x.urb[u].cnt + k /\ Coming(R) = Coming(Q) \ S
      BY <2>7, <2>14
    <3>3. Queues(x, Q) /\ Out(x, Q, D) /\ Counted(x, Q, D, dead) /\ u \in Urbs /\ u \in Linked(x)
      BY <1>1, <1>2, <1>3
    <3> QED BY <3>1, <3>2, <3>3, <2>10, <2>15, <2>16, <2>17, SkippedCounted
  <2>19. Out(y, R, D)
    BY <1>1, <2>7, <2>10, <2>14 DEF Out, Owner
  <2>20. Tds(y, R, D, dead)
    BY <2>13, <2>18, <2>19 DEF Tds
  <2>21. Owing(y, {}, dead)
    <3> SUFFICES ASSUME ~dead, NEW v \in Linked(x) PROVE y.urb[v].cnt < Size[v]
      BY <2>10 DEF Owing
    <3>1. CASE v = u
      <4>1. t \in Pending(y, R, D, u)
        BY <1>2, <2>7 DEF Pending, Owner, u
      <4>2. Cardinality(Pending(y, R, D, u)) \in Nat /\ Cardinality(Pending(y, R, D, u)) # 0
        BY <4>1, <2>13, <2>19, PendingFinite
      <4>3. y.urb[u].cnt + Cardinality(Pending(y, R, D, u)) = Size[u]
        BY <1>2, <1>3, <2>10, <2>18 DEF Counted
      <4>4. y.urb[u].cnt \in Nat
        BY <1>2, <2>7, Parts
      <4> QED BY <3>1, <4>2, <4>3, <4>4
    <3>2. CASE v # u
      BY <3>2, <1>2, <2>7 DEF Owing
    <3> QED BY <3>1, <3>2
  <2>22. Halts(y, R, F \ {t})
    <3>1. \A s \in F \ {t} : x.td[s].failed => Ep[Owner(x, s)] # e
      BY <1>5 DEF Halts, e, u
    <3>2. \A s \in F \ {t} : Owner(y, s) = Owner(x, s) /\ Ep[Owner(x, s)] \in Eds
      BY <1>1, <1>2, <2>7 DEF Out, Owner
    <3>3. ASSUME NEW s \in F \ {t}, y.td[s].failed
          PROVE  /\ y.ed[Ep[Owner(y, s)]].halted
                 /\ Unfinished(y, s) => /\ R[Ep[Owner(y, s)]] # <<>>
                                        /\ Follows(y, R[Ep[Owner(y, s)]][1], s)
      <4> DEFINE f == Ep[Owner(x, s)]
      <4>1. f \in Eds \ {e} /\ Owner(y, s) = Owner(x, s) /\ x.td[s].failed
        BY <3>1, <3>2, <3>3, <2>7
      <4>2. x.ed[f].halted /\ (Unfinished(x, s) => Q[f] # <<>> /\ Follows(x, Q[f][1], s))
        BY <4>1 DEF Halts
      <4>3. y.ed[f] = x.ed[f] /\ R[f] = Q[f]
        BY <4>1, <2>7, <2>14
      <4>4. Unfinished(y, s) => Unfinished(x, s)
        BY <4>1, <2>7 DEF Unfinished
      <4>5. Follows(x, Q[f][1], s) => Follows(y, Q[f][1], s)
        BY <2>7 DEF Follows, Owner
      <4> QED BY <4>1, <4>2, <4>3, <4>4, <4>5
    <3>4. \A r, s \in F \ {t} : y.td[r].failed /\ y.td[s].failed
             /\ Ep[Owner(y, r)] = Ep[Owner(y, s)] => r = s
      BY <3>2, <2>7 DEF Halts
    <3> QED BY <3>3, <3>4 DEF Halts
  <2> QED BY <2>7, <2>9, <2>20, <2>21, <2>22
<1> QED
  BY <1>4, <1>5

(* Calm is transitive.                                                       *)
LEMMA CalmAgain ==
    ASSUME NEW x, NEW y, NEW z, Calm(x, y), Calm(y, z)
    PROVE  Calm(x, z)
<1>1. \A e \in Eds :
        /\ y.ed[e].tail = x.ed[e].tail /\ y.ed[e].state = x.ed[e].state
        /\ y.ed[e].urbdel = x.ed[e].urbdel /\ y.ed[e].skip = x.ed[e].skip
        /\ ~x.ed[e].halted => ~y.ed[e].halted /\ y.ed[e].head = x.ed[e].head
  BY DEF Calm
<1>2. \A e \in Eds :
        /\ z.ed[e].tail = y.ed[e].tail /\ z.ed[e].state = y.ed[e].state
        /\ z.ed[e].urbdel = y.ed[e].urbdel /\ z.ed[e].skip = y.ed[e].skip
        /\ ~y.ed[e].halted => ~z.ed[e].halted /\ z.ed[e].head = y.ed[e].head
  BY DEF Calm
<1> QED
  BY <1>1, <1>2 DEF Calm

(* Looking at the whole done list.                                           *)
LEMMA UnhaltedAll ==
    ASSUME NEW x \in DD, NEW Q, NEW D, NEW dead, OhciAssumption, Tds(x, Q, D, dead), Owing(x, {}, dead),
           NEW s \in Seq(Blocks), IsInjective(s), NEW E, E \cup Range(s) \subseteq D, E \cap Range(s) = {},
           Halts(x, Q, E \cup Range(s)), NEW y, y = UnhaltAll(x, s)
    PROVE  /\ y \in DD /\ Calm(x, y)
           /\ \E R : Tds(y, R, D, dead) /\ Owing(y, {}, dead) /\ Halts(y, R, E)
<1> DEFINE N == Len(s)
           Rest(n) == {s[i] : i \in (n + 1)..N}
<1>1. N \in Nat /\ (\A i \in 1..N : s[i] \in Range(s))
      /\ (\A i, j \in 1..N : s[i] = s[j] => i = j)
      /\ (\A t : t \in Range(s) => \E i \in 1..N : s[i] = t)
  BY NotEmpty
<1>2. PICK f : f[0] = x /\ (\A n \in 1..N : f[n] = Unhalt(f[n - 1], s[n])) /\ y = f[N]
  BY <1>1, UnhaltAllSteps
<1> DEFINE OK(n) == /\ f[n] \in DD /\ Calm(x, f[n])
                    /\ \E R : Tds(f[n], R, D, dead) /\ Owing(f[n], {}, dead) /\ Halts(f[n], R, E \cup Rest(n))
           A == {n \in 0..N : OK(n)}
<1>3. 0 \in A
  <2>1. Rest(0) = Range(s)
    BY <1>1
  <2>2. Calm(x, x)
    BY DEF Calm
  <2> HIDE DEF Rest
  <2>3. Tds(f[0], Q, D, dead) /\ Owing(f[0], {}, dead) /\ Halts(f[0], Q, E \cup Rest(0))
    BY <1>2, <2>1
  <2> QED BY <1>1, <1>2, <2>2, <2>3
<1>4. ASSUME NEW n \in 0..(N - 1), n \in A PROVE n + 1 \in A
  <2>1. n + 1 \in 1..N /\ n + 1 \in 0..N /\ (n + 1) - 1 = n
    BY <1>1
  <2>2. s[n + 1] \in Rest(n) /\ s[n + 1] \notin E /\ Rest(n) \subseteq Range(s)
    BY <2>1, <1>1
  <2>3. Rest(n) \ {s[n + 1]} = Rest(n + 1)
    BY <2>1, <1>1
  <2> HIDE DEF Rest
  <2>4. f[n + 1] = Unhalt(f[n], s[n + 1])
    BY <2>1, <1>2
  <2>5. PICK R : Tds(f[n], R, D, dead) /\ Owing(f[n], {}, dead) /\ Halts(f[n], R, E \cup Rest(n))
    BY <1>4
  <2>6. f[n] \in DD /\ Calm(x, f[n])
    BY <1>4
  <2>7. E \cup Rest(n) \in SUBSET D /\ s[n + 1] \in E \cup Rest(n)
    BY <2>2
  <2>8. (E \cup Rest(n)) \ {s[n + 1]} = E \cup Rest(n + 1)
    BY <2>2, <2>3
  <2> DEFINE F == E \cup Rest(n)
             t == s[n + 1]
             z == f[n]
             w == f[n + 1]
  <2>9. z \in DD /\ Tds(z, R, D, dead) /\ Owing(z, {}, dead) /\ Halts(z, R, F) /\ F \in SUBSET D
        /\ t \in F /\ w = Unhalt(z, t)
    BY <2>4, <2>5, <2>6, <2>7
  <2>10. F \ {t} = E \cup Rest(n + 1)
    BY <2>8
  <2> HIDE DEF F, t, z, w
  <2>11. /\ w \in DD /\ Calm(z, w)
         /\ \E P : Tds(w, P, D, dead) /\ Owing(w, {}, dead) /\ Halts(w, P, F \ {t})
    BY <2>9, Unhalted
  <2>12. Calm(x, w)
    BY <2>6, <2>11, CalmAgain DEF z
  <2>13. OK(n + 1)
    BY <2>10, <2>11, <2>12, Zenon DEF w
  <2> QED BY <2>1, <2>13
<1>5. 0..N \subseteq A
  <2> HIDE DEF A, N
  <2> QED BY <1>1, <1>3, <1>4, BoundedInduction
<1>6. OK(N)
  <2> HIDE DEF OK
  <2> QED BY <1>1, <1>5
<1>7. Rest(N) = {}
  BY <1>1
<1>8. E \cup Rest(N) = E
  BY <1>7
<1> HIDE DEF Rest
<1> QED
  BY <1>2, <1>6, <1>8

(* The controller is dead and TDs are lost with it.                          *)
LEMMA Fewer ==
    ASSUME NEW x \in DD, NEW Q, NEW D, NEW dead, OhciAssumption, Tds(x, Q, D, dead), NEW E \in SUBSET D
    PROVE  Tds(x, Q, E, TRUE) /\ Owing(x, {}, TRUE)
<1>1. Queues(x, Q) /\ Belongs(x) /\ Whole(x) /\ Dummies(x)
      /\ Ordered(x, Q) /\ Out(x, Q, D) /\ Counted(x, Q, D, dead)
  BY DEF Tds
<1>2. Out(x, Q, E)
  BY <1>1 DEF Out
<1>3. ASSUME NEW u \in Urbs, u \in Linked(x) PROVE x.urb[u].cnt + Cardinality(Pending(x, Q, E, u)) <= Size[u]
  <2>1. Pending(x, Q, E, u) \subseteq Pending(x, Q, D, u)
    BY DEF Pending
  <2>2. /\ IsFiniteSet(Pending(x, Q, D, u)) /\ Cardinality(Pending(x, Q, D, u)) \in Nat
        /\ Cardinality(Pending(x, Q, E, u)) \in Nat
    BY <1>1, <1>2, PendingFinite
  <2>3. Cardinality(Pending(x, Q, E, u)) <= Cardinality(Pending(x, Q, D, u))
    BY <2>1, <2>2, FS_Subset
  <2>4. x.urb[u].cnt + Cardinality(Pending(x, Q, D, u)) <= Size[u] /\ x.urb[u].cnt \in Nat /\ Size[u] \in Nat
    BY <1>1, <1>3, Parts DEF Counted, OhciAssumption
  <2> QED BY <2>2, <2>3, <2>4
<1>4. Counted(x, Q, E, TRUE)
  BY <1>1, <1>3 DEF Counted
<1> QED
  BY <1>1, <1>2, <1>4 DEF Tds, Owing

(* A new TD and a new request have no owner, no TDs and no count.            *)
LEMMA TdRecords ==
    /\ NewTd \in TdRec /\ NewTd.urb = Nil /\ NewTd.failed = FALSE
    /\ NewUrb \in UrbRec /\ NewUrb.stage = "idle" /\ NewUrb.cnt = 0 /\ NewUrb.tds = <<>>
BY DEF NewTd, TdRec, NewUrb, UrbRec

(* Freeing TDs returns their blocks to the pool and changes nothing else.    *)
LEMMA FreeTdsShape ==
    ASSUME NEW x \in DD, NEW T \in SUBSET Blocks, NEW y, y = FreeTds(x, T)
    PROVE  /\ y \in DD /\ y.ed = x.ed /\ y.urb = x.urb /\ y.list = x.list /\ y.on = x.on /\ y.rm = x.rm
           /\ \A t \in Blocks : y.td[t] = IF t \in T THEN NewTd ELSE x.td[t]
           /\ InUse(y.pool) = InUse(x.pool) \ T
<1> DEFINE P == [x.pool EXCEPT !.free = [p \in PageIds |-> x.pool.free[p] \cup {b[2] : b \in {b \in T : b[1] = p}}]]
           M == [t \in Blocks |-> IF t \in T THEN NewTd ELSE x.td[t]]
<1>1. /\ x.ed \in [Eds -> EdRec] /\ x.td \in [Blocks -> TdRec] /\ x.urb \in [Urbs -> UrbRec]
      /\ x.pool \in Pools /\ x.list \in [Kinds -> Seq(Eds)] /\ x.on \in SUBSET Kinds
      /\ x.rm \in [Frames -> Seq(Eds)]
  BY DEF DD
<1>2. P \in Pools /\ InUse(P) = InUse(x.pool) \ T
  BY <1>1, BlocksGiven
<1>3. M \in [Blocks -> TdRec]
  BY <1>1, TdRecords
<1>4. y = [x EXCEPT !.pool = P, !.td = M]
  BY <1>1 DEF FreeTds, DD, Pools
<1> HIDE DEF P, M
<1>5. y.td = M /\ y.pool = P /\ y.ed = x.ed /\ y.urb = x.urb /\ y.list = x.list /\ y.on = x.on /\ y.rm = x.rm
      /\ y \in DD
  BY <1>1, <1>2, <1>3, <1>4 DEF DD
<1> QED
  BY <1>2, <1>5 DEF M

TdsOf(x, S) == UNION {Range(x.urb[u].tds) : u \in S}

(* Giving requests back frees their TDs and makes them idle; nothing else    *)
(* changes.                                                                  *)
LEMMA GiveBackShape ==
    ASSUME NEW x \in DD, NEW S \in SUBSET Urbs, NEW y, y = GiveBack(x, S),
           NEW T, T = TdsOf(x, S)
    PROVE  /\ y \in DD /\ y.ed = x.ed /\ y.list = x.list /\ y.on = x.on /\ y.rm = x.rm
           /\ T \subseteq Blocks
           /\ \A t \in Blocks : y.td[t] = IF t \in T THEN NewTd ELSE x.td[t]
           /\ InUse(y.pool) = InUse(x.pool) \ T
           /\ \A u \in Urbs : y.urb[u] = IF u \in S THEN NewUrb ELSE x.urb[u]
<1> DEFINE z == FreeTds(x, T)
           U == [u \in Urbs |-> IF u \in S THEN NewUrb ELSE x.urb[u]]
<1>1. T \subseteq Blocks
  <2>1. \A u \in Urbs : Range(x.urb[u].tds) \subseteq Blocks
    BY Parts, NotEmpty
  <2> QED BY <2>1 DEF TdsOf
<1>2. /\ z \in DD /\ z.ed = x.ed /\ z.urb = x.urb /\ z.list = x.list /\ z.on = x.on /\ z.rm = x.rm
      /\ \A t \in Blocks : z.td[t] = IF t \in T THEN NewTd ELSE x.td[t]
      /\ InUse(z.pool) = InUse(x.pool) \ T
  BY <1>1, FreeTdsShape
<1>3. U \in [Urbs -> UrbRec]
  BY TdRecords, Parts
<1>4. y = [z EXCEPT !.urb = U]
  <2>1. y = [z EXCEPT !.urb = [u \in Urbs |-> IF u \in S THEN NewUrb ELSE @[u]]]
    BY DEF GiveBack, TdsOf
  <2> HIDE DEF z
  <2> QED BY <2>1, <1>2 DEF DD
<1> HIDE DEF z, U
<1>5. y.urb = U /\ y.td = z.td /\ y.pool = z.pool /\ y.ed = z.ed /\ y.list = z.list /\ y.on = z.on
      /\ y.rm = z.rm /\ y \in DD
  <2>1. z \in DD
    BY <1>2
  <2> QED BY <2>1, <1>3, <1>4 DEF DD
<1> QED
  BY <1>1, <1>2, <1>5 DEF U

(* Requests all of whose TDs are counted are given back.                     *)
LEMMA Released ==
    ASSUME NEW x \in DD, NEW Q, NEW D, NEW dead, OhciAssumption, Tds(x, Q, D, dead),
           NEW S \in SUBSET Linked(x), \A u \in S : Pending(x, Q, D, u) = {},
           NEW y, y = GiveBack(x, S)
    PROVE  /\ y \in DD /\ y.ed = x.ed /\ y.list = x.list /\ y.on = x.on /\ y.rm = x.rm
           /\ \A u \in Urbs : y.urb[u] = IF u \in S THEN NewUrb ELSE x.urb[u]
           /\ Tds(y, Q, D, dead)
           /\ \A t \in D : Owner(y, t) = Owner(x, t)
           /\ \A F \in SUBSET D : Halts(x, Q, F) => Halts(y, Q, F)
           /\ \A W : Owing(x, W \cup S, dead) => Owing(y, W, dead)
<1> DEFINE T == TdsOf(x, S)
<1>1. Queues(x, Q) /\ Belongs(x) /\ Whole(x) /\ Dummies(x)
      /\ Ordered(x, Q) /\ Out(x, Q, D) /\ Counted(x, Q, D, dead)
  BY DEF Tds
<1>2. Linked(x) \subseteq Urbs /\ Used(x) \subseteq Eds /\ Nil \notin Urbs /\ Nil \notin Blocks
  BY DEF Linked, Used, OhciAssumption
<1>3. /\ y \in DD /\ y.ed = x.ed /\ y.list = x.list /\ y.on = x.on /\ y.rm = x.rm
      /\ T \subseteq Blocks
      /\ \A t \in Blocks : y.td[t] = IF t \in T THEN NewTd ELSE x.td[t]
      /\ InUse(y.pool) = InUse(x.pool) \ T
      /\ \A u \in Urbs : y.urb[u] = IF u \in S THEN NewUrb ELSE x.urb[u]
  <2>1. S \in SUBSET Urbs
    BY <1>2
  <2> QED BY <2>1, GiveBackShape
<1>4. \A t \in Blocks : t \in T <=> Owner(x, t) \in S
  <2>1. ASSUME NEW t \in Blocks, t \in T PROVE Owner(x, t) \in S
    <3>1. PICK u \in S : t \in Range(x.urb[u].tds)
      BY <2>1 DEF TdsOf
    <3>2. x.urb[u].tds \in Seq(Blocks) /\ Len(x.urb[u].tds) = Size[u]
      BY <1>1, <1>2, Parts DEF Whole
    <3>3. PICK i \in 1..Size[u] : x.urb[u].tds[i] = t
      BY <3>1, <3>2, NotEmpty
    <3> QED BY <3>3, <1>1 DEF Whole
  <2>2. ASSUME NEW t \in Blocks, Owner(x, t) \in S PROVE t \in T
    <3> DEFINE u == Owner(x, t)
    <3>1. /\ u \in S /\ u \in Linked(x) /\ x.td[t].index < Size[u] /\ x.td[t].index \in Nat
          /\ x.urb[u].tds[x.td[t].index + 1] = t
      BY <2>2, <1>1, <1>2, Parts DEF Belongs
    <3>2. x.urb[u].tds \in Seq(Blocks) /\ Len(x.urb[u].tds) = Size[u]
      BY <3>1, <1>1, <1>2, Parts DEF Whole
    <3>3. x.td[t].index + 1 \in 1..Len(x.urb[u].tds)
      BY <3>1, <3>2
    <3>4. t \in Range(x.urb[u].tds)
      BY <3>1, <3>2, <3>3, NotEmpty
    <3> QED BY <3>1, <3>4 DEF TdsOf
  <2> QED BY <2>1, <2>2
<1> HIDE DEF T
<1>5. \A t \in Coming(Q) \cup D : t \in Blocks /\ t \notin T /\ Owner(x, t) \in Urbs
  <2> TAKE t \in Coming(Q) \cup D
  <2>1. t \in Blocks /\ Owner(x, t) \in Urbs
    BY <1>1, ComingTd DEF Out
  <2>2. Owner(x, t) \notin S
    BY DEF Pending
  <2> QED BY <2>1, <2>2, <1>4
<1>6. \A t \in Coming(Q) \cup D : y.td[t] = x.td[t] /\ Owner(y, t) = Owner(x, t)
  BY <1>3, <1>5 DEF Owner
<1>7. \A t \in Blocks : Owner(y, t) # Nil => y.td[t] = x.td[t] /\ Owner(x, t) \notin S /\ Owner(y, t) = Owner(x, t)
                                             /\ t \notin T
  BY <1>3, <1>4, TdRecords DEF Owner
<1>8. Linked(y) = Linked(x) \ S /\ Used(y) = Used(x)
  <2>1. \A u \in Urbs : y.urb[u].stage = "linked" <=> x.urb[u].stage = "linked" /\ u \notin S
    BY <1>3, TdRecords
  <2> QED BY <2>1, <1>3 DEF Linked, Used
<1>9. \A e \in Eds : Q[e] \in Seq(Blocks) /\ (\A t \in Range(Q[e]) : t \in Coming(Q))
                     /\ \A i \in 1..Len(Q[e]) : Q[e][i] \in Coming(Q)
  <2>1. \A e \in Eds : Q[e] \in Seq(Blocks)
    BY <1>1 DEF Queues
  <2>2. \A e \in Eds : \A t \in Range(Q[e]) : t \in Coming(Q)
    BY DEF Coming
  <2>3. \A e \in Eds : \A i \in 1..Len(Q[e]) : Q[e][i] \in Range(Q[e])
    BY <2>1, NotEmpty
  <2> QED BY <2>1, <2>2, <2>3
<1>10. Queues(y, Q)
  <2>1. ASSUME NEW e \in Used(x) PROVE Path(y, e, Q[e])
    <3>1. Path(x, e, Q[e]) /\ e \in Eds
      BY <1>1, <1>2 DEF Queues
    <3>2. \A i \in 1..Len(Q[e]) : y.td[Q[e][i]] = x.td[Q[e][i]]
      BY <3>1, <1>6, <1>9
    <3> QED BY <3>1, <3>2, <1>3 DEF Path, Chained
  <2>2. \A e \in Eds : \A t \in Range(Q[e]) : Owner(y, t) \in Urbs /\ Ep[Owner(y, t)] = e
    BY <1>1, <1>6, <1>9 DEF Queues
  <2> QED BY <1>1, <1>8, <2>1, <2>2 DEF Queues
<1>11. Belongs(y)
  <2> SUFFICES ASSUME NEW t \in Blocks, Owner(y, t) # Nil
               PROVE  /\ t \in InUse(y.pool) /\ Owner(y, t) \in Linked(y)
                      /\ y.td[t].index < Size[Owner(y, t)]
                      /\ y.urb[Owner(y, t)].tds[y.td[t].index + 1] = t
    BY DEF Belongs
  <2>1. y.td[t] = x.td[t] /\ Owner(x, t) \notin S /\ Owner(y, t) = Owner(x, t) /\ t \notin T
    BY <1>7
  <2>2. /\ t \in InUse(x.pool) /\ Owner(x, t) \in Linked(x)
        /\ x.td[t].index < Size[Owner(x, t)]
        /\ x.urb[Owner(x, t)].tds[x.td[t].index + 1] = t
    BY <1>1, <2>1 DEF Belongs
  <2> QED BY <2>1, <2>2, <1>2, <1>3, <1>8
<1>12. Whole(y)
  <2> SUFFICES ASSUME NEW u \in Linked(x) \ S
               PROVE  /\ Len(y.urb[u].tds) = Size[u]
                      /\ \A i \in 1..Size[u] : /\ Owner(y, y.urb[u].tds[i]) = u
                                               /\ y.td[y.urb[u].tds[i]].index = i - 1
    BY <1>8 DEF Whole
  <2>1. y.urb[u] = x.urb[u] /\ u \in Urbs
    BY <1>2, <1>3
  <2>2. /\ Len(x.urb[u].tds) = Size[u]
        /\ \A i \in 1..Size[u] : /\ Owner(x, x.urb[u].tds[i]) = u
                                 /\ x.td[x.urb[u].tds[i]].index = i - 1
    BY <1>1 DEF Whole
  <2>3. ASSUME NEW i \in 1..Size[u] PROVE y.td[x.urb[u].tds[i]] = x.td[x.urb[u].tds[i]]
    <3>1. x.urb[u].tds \in Seq(Blocks) /\ Len(x.urb[u].tds) = Size[u]
      BY <2>1, <2>2, Parts
    <3>2. x.urb[u].tds[i] \in Blocks
      BY <3>1
    <3>3. x.urb[u].tds[i] \notin T
      BY <2>2, <3>2, <1>4
    <3> QED BY <3>2, <3>3, <1>3
  <2> QED BY <2>1, <2>2, <2>3 DEF Owner
<1>13. Dummies(y)
  <2> SUFFICES ASSUME NEW e \in Used(x)
               PROVE  /\ y.ed[e].tail \in InUse(y.pool) /\ Owner(y, y.ed[e].tail) = Nil
                      /\ \A f \in Used(x) : y.ed[f].tail = y.ed[e].tail => f = e
    BY <1>8 DEF Dummies
  <2>1. /\ x.ed[e].tail \in InUse(x.pool) /\ Owner(x, x.ed[e].tail) = Nil
        /\ \A f \in Used(x) : x.ed[f].tail = x.ed[e].tail => f = e
    BY <1>1 DEF Dummies
  <2>2. x.ed[e].tail \in Blocks /\ x.ed[e].tail \notin T
    BY <2>1, <1>2, <1>4 DEF InUse
  <2>3. Owner(y, x.ed[e].tail) = Nil
    BY <2>1, <2>2, <1>3 DEF Owner
  <2> QED BY <2>1, <2>2, <2>3, <1>3
<1>14. Ordered(y, Q)
  <2> SUFFICES ASSUME NEW e \in Eds, NEW i \in 1..Len(Q[e]), Unfinished(y, Q[e][i])
               PROVE  i < Len(Q[e]) /\ Follows(y, Q[e][i + 1], Q[e][i])
    BY DEF Ordered
  <2>1. y.td[Q[e][i]] = x.td[Q[e][i]]
    BY <1>6, <1>9
  <2>2. Unfinished(x, Q[e][i])
    BY <2>1 DEF Unfinished, Owner
  <2>3. i < Len(Q[e]) /\ Follows(x, Q[e][i + 1], Q[e][i])
    BY <1>1, <2>2 DEF Ordered
  <2>4. i + 1 \in 1..Len(Q[e])
    BY <2>3, <1>9
  <2>5. y.td[Q[e][i + 1]] = x.td[Q[e][i + 1]]
    BY <2>4, <1>6, <1>9
  <2> QED BY <2>1, <2>3, <2>5 DEF Follows, Owner
<1>15. Out(y, Q, D)
  BY <1>1, <1>6, <1>8 DEF Out
<1>16. \A u \in Urbs : Pending(y, Q, D, u) = Pending(x, Q, D, u)
  BY <1>6 DEF Pending
<1>17. Counted(y, Q, D, dead)
  <2> SUFFICES ASSUME NEW u \in Urbs
               PROVE  /\ y.urb[u].cnt <= Size[u]
                      /\ u \in Linked(y) =>
                           /\ y.urb[u].cnt + Cardinality(Pending(y, Q, D, u)) <= Size[u]
                           /\ ~dead => y.urb[u].cnt + Cardinality(Pending(y, Q, D, u)) = Size[u]
    BY DEF Counted
  <2>1. CASE u \in S
    BY <2>1, <1>3, <1>8, TdRecords DEF OhciAssumption
  <2>2. CASE u \notin S
    BY <2>2, <1>1, <1>3, <1>8, <1>16 DEF Counted
  <2> QED BY <2>1, <2>2
<1>18. ASSUME NEW F \in SUBSET D, Halts(x, Q, F) PROVE Halts(y, Q, F)
  <2>1. \A t \in F : y.td[t] = x.td[t] /\ Owner(y, t) = Owner(x, t) /\ Ep[Owner(x, t)] \in Eds
    BY <1>1, <1>2, <1>6 DEF Out
  <2>2. ASSUME NEW t \in F, y.td[t].failed
        PROVE  /\ y.ed[Ep[Owner(y, t)]].halted
               /\ Unfinished(y, t) => /\ Q[Ep[Owner(y, t)]] # <<>>
                                      /\ Follows(y, Q[Ep[Owner(y, t)]][1], t)
    <3> DEFINE e == Ep[Owner(x, t)]
    <3>1. y.td[t] = x.td[t] /\ Owner(y, t) = Owner(x, t) /\ e \in Eds /\ x.td[t].failed
      BY <2>1, <2>2
    <3>2. x.ed[e].halted /\ (Unfinished(x, t) => Q[e] # <<>> /\ Follows(x, Q[e][1], t))
      BY <3>1, <1>18 DEF Halts
    <3>3. y.ed[e].halted
      BY <3>1, <3>2, <1>3
    <3>4. Q[e] # <<>> => y.td[Q[e][1]] = x.td[Q[e][1]]
      <4>1. Q[e] \in Seq(Blocks)
        BY <3>1, <1>9
      <4>2. Q[e] # <<>> => 1 \in 1..Len(Q[e])
        BY <4>1
      <4> HIDE DEF e
      <4> QED BY <4>1, <4>2, <3>1, <1>6, <1>9
    <3> QED BY <3>1, <3>2, <3>3, <3>4 DEF Unfinished, Follows, Owner
  <2>3. \A s, t \in F : y.td[s].failed /\ y.td[t].failed /\ Ep[Owner(y, s)] = Ep[Owner(y, t)] => s = t
    BY <2>1, <1>18 DEF Halts
  <2> QED BY <2>2, <2>3 DEF Halts
<1>19. \A W : Owing(x, W \cup S, dead) => Owing(y, W, dead)
  BY <1>2, <1>3, <1>8 DEF Owing
<1>20. Tds(y, Q, D, dead)
  BY <1>10, <1>11, <1>12, <1>13, <1>14, <1>15, <1>17 DEF Tds
<1> QED
  BY <1>3, <1>6, <1>18, <1>19, <1>20

(* A TD of the done list is counted.                                         *)
Credit(x, u) == [x EXCEPT !.urb[u].cnt = @ + 1]

(* Crediting a request counts one TD of it and changes nothing else.         *)
LEMMA CreditShape ==
    ASSUME NEW x \in DD, NEW u \in Urbs, NEW y, y = Credit(x, u)
    PROVE  /\ y \in DD /\ y.ed = x.ed /\ y.td = x.td /\ y.pool = x.pool
           /\ y.list = x.list /\ y.on = x.on /\ y.rm = x.rm
           /\ \A v \in Urbs \ {u} : y.urb[v] = x.urb[v]
           /\ y.urb[u].cnt = x.urb[u].cnt + 1 /\ y.urb[u].stage = x.urb[u].stage
           /\ y.urb[u].del = x.urb[u].del /\ y.urb[u].tds = x.urb[u].tds
<1> DEFINE n == x.urb[u].cnt + 1
           U == [x.urb EXCEPT ![u].cnt = n]
<1>0. n \in Nat
  BY Parts
<1>8. y = [x EXCEPT !.urb[u].cnt = n]
  BY DEF Credit, DD
<1> HIDE DEF n
<1>1. /\ x.ed \in [Eds -> EdRec] /\ x.td \in [Blocks -> TdRec] /\ x.urb \in [Urbs -> UrbRec]
      /\ x.pool \in Pools /\ x.list \in [Kinds -> Seq(Eds)] /\ x.on \in SUBSET Kinds
      /\ x.rm \in [Frames -> Seq(Eds)]
  BY DEF DD
<1>2. x.urb[u] \in UrbRec
  BY <1>1
<1>3. [x.urb[u] EXCEPT !.cnt = n] \in UrbRec
  BY <1>0, <1>2, Zenon DEF UrbRec
<1>4. DOMAIN x.urb[u] = {"stage", "del", "tds", "cnt"}
  BY <1>2, Zenon DEF UrbRec
<1>5. /\ U \in [Urbs -> UrbRec] /\ (\A v \in Urbs \ {u} : U[v] = x.urb[v])
      /\ U[u].cnt = n /\ U[u].stage = x.urb[u].stage
      /\ U[u].del = x.urb[u].del /\ U[u].tds = x.urb[u].tds
  BY <1>1, <1>3, <1>4
<1>6. y = [x EXCEPT !.urb = U]
  BY <1>8 DEF DD
<1> HIDE DEF U
<1>7. y.urb = U /\ y \in DD /\ y.ed = x.ed /\ y.td = x.td /\ y.pool = x.pool
      /\ y.list = x.list /\ y.on = x.on /\ y.rm = x.rm
  BY <1>1, <1>5, <1>6 DEF DD
<1> QED
  BY <1>5, <1>7 DEF n

(* Counting a TD that is done removes it from those that are out; its        *)
(* request may now be due.                                                   *)
LEMMA Credited ==
    ASSUME NEW x \in DD, NEW Q, NEW D, NEW dead, OhciAssumption, Tds(x, Q, D, dead),
           NEW t \in D, NEW u, u = Owner(x, t), NEW y, y = Credit(x, u)
    PROVE  /\ u \in Urbs /\ u \in Linked(x) /\ Ep[u] \in Used(x)
           /\ y \in DD /\ y.ed = x.ed /\ y.td = x.td /\ y.pool = x.pool
           /\ y.list = x.list /\ y.on = x.on /\ y.rm = x.rm
           /\ \A v \in Urbs \ {u} : y.urb[v] = x.urb[v]
           /\ y.urb[u].cnt = x.urb[u].cnt + 1 /\ y.urb[u].stage = x.urb[u].stage
           /\ y.urb[u].del = x.urb[u].del /\ y.urb[u].tds = x.urb[u].tds
           /\ Tds(y, Q, D \ {t}, dead)
           /\ \A F \in SUBSET (D \ {t}) : Halts(x, Q, F) => Halts(y, Q, F)
           /\ Owing(x, {}, dead) => Owing(y, {u}, dead)
<1>1. Queues(x, Q) /\ Belongs(x) /\ Whole(x) /\ Dummies(x)
      /\ Ordered(x, Q) /\ Out(x, Q, D) /\ Counted(x, Q, D, dead)
  BY DEF Tds
<1>2. u \in Urbs /\ Ep[u] \in Used(x) /\ t \in Blocks
  BY <1>1 DEF Out
<1>3. u \in Linked(x)
  BY <1>1, <1>2 DEF Belongs, OhciAssumption
<1>4. x.urb[u].cnt \in Nat /\ x.urb[u].cnt + 1 \in Nat /\ Size[u] \in Nat
  <2>1. x.urb[u].cnt \in Nat /\ Size[u] \in Nat
    BY <1>2, Parts DEF OhciAssumption
  <2> QED BY <2>1
<1>5. /\ y \in DD /\ y.ed = x.ed /\ y.td = x.td /\ y.pool = x.pool
      /\ y.list = x.list /\ y.on = x.on /\ y.rm = x.rm
      /\ \A v \in Urbs \ {u} : y.urb[v] = x.urb[v]
      /\ y.urb[u].cnt = x.urb[u].cnt + 1 /\ y.urb[u].stage = x.urb[u].stage
      /\ y.urb[u].del = x.urb[u].del /\ y.urb[u].tds = x.urb[u].tds
  BY <1>2, CreditShape
<1>6. Linked(y) = Linked(x) /\ Used(y) = Used(x) /\ (\A s : Owner(y, s) = Owner(x, s))
      /\ (\A v \in Urbs : y.urb[v].tds = x.urb[v].tds) /\ Linked(x) \subseteq Urbs
  <2>1. \A v \in Urbs : y.urb[v].stage = x.urb[v].stage /\ y.urb[v].tds = x.urb[v].tds
    BY <1>5
  <2>2. Linked(y) = Linked(x) /\ Linked(x) \subseteq Urbs
    BY <2>1 DEF Linked
  <2>3. y.ed = x.ed /\ y.td = x.td
    BY <1>5
  <2>4. Used(y) = Used(x) /\ \A s : Owner(y, s) = Owner(x, s)
    BY <2>3 DEF Used, Owner
  <2> QED BY <2>1, <2>2, <2>4
<1>7. Queues(y, Q)
  BY <1>1, <1>5, <1>6 DEF Queues, Path
<1>8. Belongs(y)
  <2>1. \A s \in Blocks : Owner(x, s) # Nil =>
            y.urb[Owner(x, s)].tds = x.urb[Owner(x, s)].tds
    BY <1>1, <1>6 DEF Belongs
  <2> QED BY <2>1, <1>1, <1>5, <1>6 DEF Belongs
<1>9. Whole(y)
  <2>1. \A v \in Linked(x) : y.urb[v].tds = x.urb[v].tds
    BY <1>2, <1>5 DEF Linked
  <2> QED BY <2>1, <1>1, <1>5, <1>6 DEF Whole
<1>10. Dummies(y) /\ Ordered(y, Q)
  BY <1>1, <1>5, <1>6 DEF Dummies, Ordered, Unfinished, Follows
<1>11. Out(y, Q, D \ {t})
  BY <1>1, <1>6 DEF Out
<1>12. Counted(y, Q, D \ {t}, dead)
  <2>1. t \notin Coming(Q)
    BY <1>1 DEF Out
  <2>2. \A v : Pending(y, Q, D \ {t}, v) = Pending(x, Q, D, v) \ {t}
    BY <2>1, <1>6 DEF Pending
  <2>3. \A v \in Urbs \ {u} : Pending(y, Q, D \ {t}, v) = Pending(x, Q, D, v)
    BY <2>2 DEF Pending
  <2>4. t \in Pending(x, Q, D, u)
    BY DEF Pending
  <2>5. IsFiniteSet(Pending(x, Q, D, u)) /\ Cardinality(Pending(x, Q, D, u)) \in Nat
    BY <1>1, PendingFinite
  <2>6. Cardinality(Pending(y, Q, D \ {t}, u)) = Cardinality(Pending(x, Q, D, u)) - 1
    <3>1. Cardinality(Pending(x, Q, D, u) \ {t}) = Cardinality(Pending(x, Q, D, u)) - 1
      BY <2>4, <2>5, FS_RemoveElement
    <3> QED BY <2>2, <3>1, Zenon
  <2>7. Cardinality(Pending(y, Q, D \ {t}, u)) \in Nat
    BY <1>7, <1>11, PendingFinite
  <2>8. /\ x.urb[u].cnt + Cardinality(Pending(x, Q, D, u)) <= Size[u]
        /\ ~dead => x.urb[u].cnt + Cardinality(Pending(x, Q, D, u)) = Size[u]
    BY <1>1, <1>2, <1>3 DEF Counted
  <2> SUFFICES ASSUME NEW v \in Urbs
               PROVE  /\ y.urb[v].cnt <= Size[v]
                      /\ v \in Linked(y) =>
                           /\ y.urb[v].cnt + Cardinality(Pending(y, Q, D \ {t}, v)) <= Size[v]
                           /\ ~dead => y.urb[v].cnt + Cardinality(Pending(y, Q, D \ {t}, v)) = Size[v]
    BY DEF Counted
  <2>9. CASE v = u
    BY <2>5, <2>6, <2>7, <2>8, <2>9, <1>4, <1>5
  <2>10. CASE v # u
    <3>1. y.urb[v] = x.urb[v] /\ Pending(y, Q, D \ {t}, v) = Pending(x, Q, D, v)
      BY <2>3, <2>10, <1>5
    <3> QED BY <3>1, <1>1, <1>6, Zenon DEF Counted
  <2> QED BY <2>9, <2>10
<1>13. \A F \in SUBSET (D \ {t}) : Halts(x, Q, F) => Halts(y, Q, F)
  BY <1>5, <1>6 DEF Halts, Unfinished, Follows
<1>14. Owing(x, {}, dead) => Owing(y, {u}, dead)
  BY <1>5, <1>6 DEF Owing
<1>15. Tds(y, Q, D \ {t}, dead)
  BY <1>7, <1>8, <1>9, <1>10, <1>11, <1>12 DEF Tds
<1> QED
  BY <1>2, <1>3, <1>5, <1>13, <1>14, <1>15

(* A new endpoint, with dummy TD b.                                          *)
LEMMA Added ==
    ASSUME NEW x \in DD, NEW y \in DD, NEW Q, NEW D, NEW dead, OhciAssumption, Tds(x, Q, D, dead),
           NEW e \in Eds \ Used(x), NEW b \in Blocks \ InUse(x.pool), InUse(y.pool) = InUse(x.pool) \cup {b},
           y.td = x.td, Used(y) = Used(x) \cup {e},
           \A f \in Eds \ {e} : y.ed[f] = x.ed[f], y.ed[e].head = b, y.ed[e].tail = b,
           Linked(y) = Linked(x),
           \A u \in Urbs : y.urb[u].tds = x.urb[u].tds /\ y.urb[u].cnt = x.urb[u].cnt
    PROVE  /\ Tds(y, Q, D, dead)
           /\ \A F \in SUBSET D : Halts(x, Q, F) => Halts(y, Q, F)
           /\ \A S : Owing(x, S, dead) => Owing(y, S, dead)
<1>1. Queues(x, Q) /\ Belongs(x) /\ Whole(x) /\ Dummies(x)
      /\ Ordered(x, Q) /\ Out(x, Q, D) /\ Counted(x, Q, D, dead)
  BY DEF Tds
<1>2. Linked(x) \subseteq Urbs /\ Used(x) \subseteq Eds /\ (\A s : Owner(y, s) = Owner(x, s))
      /\ \A f \in Used(x) : y.ed[f] = x.ed[f]
  BY DEF Linked, Used, Owner
<1>3. Queues(y, Q)
  <2>1. Q[e] = <<>> /\ Q \in [Eds -> Seq(Blocks)]
    BY <1>1 DEF Queues
  <2>2. Path(y, e, Q[e])
    <3>1. <<>> \in Seq(Blocks) /\ Len(<<>>) = 0
      OBVIOUS
    <3> QED BY <2>1, <3>1, EmptyRange DEF Path, Chained, Next1
  <2>3. \A f \in Used(x) : Path(y, f, Q[f])
    BY <1>1, <1>2 DEF Queues, Path
  <2>4. \A f \in Eds : f \notin Used(y) => Q[f] = <<>>
    BY <1>1 DEF Queues
  <2>5. \A f \in Eds : \A t \in Range(Q[f]) : Owner(y, t) \in Urbs /\ Ep[Owner(y, t)] = f
    BY <1>1, <1>2 DEF Queues
  <2> QED BY <2>1, <2>2, <2>3, <2>4, <2>5 DEF Queues
<1>4. Belongs(y)
  <2>1. \A s \in Blocks : Owner(x, s) # Nil =>
            y.urb[Owner(x, s)].tds = x.urb[Owner(x, s)].tds
    BY <1>1, <1>2 DEF Belongs
  <2> QED BY <2>1, <1>1, <1>2 DEF Belongs
<1>5. Whole(y)
  BY <1>1, <1>2, SMTT(30) DEF Whole
<1>6. Dummies(y)
  <2>1. Owner(x, b) = Nil
    BY <1>1 DEF Belongs
  <2>2. \A f \in Used(x) : x.ed[f].tail # b
    BY <1>1 DEF Dummies
  <2> QED BY <2>1, <2>2, <1>1, <1>2 DEF Dummies
<1>7. Ordered(y, Q)
  BY <1>1, <1>2 DEF Ordered, Unfinished, Follows
<1>8. Out(y, Q, D)
  BY <1>1, <1>2 DEF Out
<1>9. Counted(y, Q, D, dead)
  <2>1. \A u : Pending(y, Q, D, u) = Pending(x, Q, D, u)
    BY <1>2 DEF Pending
  <2> QED BY <2>1, <1>1 DEF Counted
<1>10. ASSUME NEW F \in SUBSET D, Halts(x, Q, F) PROVE Halts(y, Q, F)
  <2>1. \A t \in F : Ep[Owner(x, t)] \in Used(x)
    BY <1>1 DEF Out
  <2>2. \A t \in F : y.ed[Ep[Owner(x, t)]] = x.ed[Ep[Owner(x, t)]]
    BY <2>1, <1>2
  <2> QED BY <2>2, <1>2, <1>10 DEF Halts, Unfinished, Follows
<1>11. \A S : Owing(x, S, dead) => Owing(y, S, dead)
  BY <1>2 DEF Owing
<1> QED
  BY <1>3, <1>4, <1>5, <1>6, <1>7, <1>8, <1>9, <1>10, <1>11 DEF Tds

(* An endpoint without TDs is freed, with its dummy TD.                      *)
LEMMA Departed ==
    ASSUME NEW x \in DD, NEW y \in DD, NEW Q, NEW D, NEW dead, OhciAssumption, Tds(x, Q, D, dead),
           NEW e \in Used(x), Q[e] = <<>>, \A t \in D : Ep[Owner(x, t)] # e,
           InUse(y.pool) = InUse(x.pool) \ {x.ed[e].tail},
           \A t \in Blocks \ {x.ed[e].tail} : y.td[t] = x.td[t], y.td[x.ed[e].tail] = NewTd,
           Used(y) = Used(x) \ {e}, \A f \in Eds \ {e} : y.ed[f] = x.ed[f], y.urb = x.urb
    PROVE  /\ Tds(y, Q, D, dead)
           /\ \A t \in D : Owner(y, t) = Owner(x, t)
           /\ \A F \in SUBSET D : Halts(x, Q, F) => Halts(y, Q, F)
           /\ \A S : Owing(x, S, dead) => Owing(y, S, dead)
<1> DEFINE b == x.ed[e].tail
<1>1. Queues(x, Q) /\ Belongs(x) /\ Whole(x) /\ Dummies(x)
      /\ Ordered(x, Q) /\ Out(x, Q, D) /\ Counted(x, Q, D, dead)
  BY DEF Tds
<1>2. Linked(x) \subseteq Urbs /\ Used(x) \subseteq Eds /\ Linked(y) = Linked(x)
      /\ (\A f \in Used(y) : y.ed[f] = x.ed[f]) /\ Nil \notin Urbs /\ Nil \notin Blocks
  BY DEF Linked, Used, OhciAssumption
<1>3. b \in Blocks /\ Owner(x, b) = Nil /\ Owner(y, b) = Nil /\ b \in InUse(x.pool)
      /\ \A f \in Used(x) : x.ed[f].tail = b => f = e
  BY <1>1, TdRecords DEF Dummies, InUse, Owner
<1> HIDE DEF b
<1>4. /\ \A t \in Blocks \ {b} : y.td[t] = x.td[t]
      /\ \A t \in Blocks : Owner(y, t) = Owner(x, t)
      /\ \A t \in Blocks : Owner(x, t) # Nil => t # b /\ y.td[t] = x.td[t]
  BY <1>3 DEF Owner, b
<1>5. \A t \in Coming(Q) \cup D : t \in Blocks /\ Owner(x, t) \in Urbs /\ y.td[t] = x.td[t]
                                  /\ Owner(y, t) = Owner(x, t)
  <2>1. \A t \in Coming(Q) \cup D : t \in Blocks /\ Owner(x, t) \in Urbs
    BY <1>1, ComingTd DEF Out
  <2> QED BY <2>1, <1>2, <1>4
<1>6. \A f \in Eds : Q[f] \in Seq(Blocks) /\ (\A t \in Range(Q[f]) : t \in Coming(Q))
                     /\ \A i \in 1..Len(Q[f]) : Q[f][i] \in Coming(Q)
  <2>1. \A f \in Eds : Q[f] \in Seq(Blocks)
    BY <1>1 DEF Queues
  <2>2. \A f \in Eds : \A t \in Range(Q[f]) : t \in Coming(Q)
    BY DEF Coming
  <2>3. \A f \in Eds : \A i \in 1..Len(Q[f]) : Q[f][i] \in Range(Q[f])
    BY <2>1, NotEmpty
  <2> QED BY <2>1, <2>2, <2>3
<1>7. Queues(y, Q)
  <2>1. ASSUME NEW f \in Used(y) PROVE Path(y, f, Q[f])
    <3>1. Path(x, f, Q[f]) /\ f \in Eds
      BY <1>1, <1>2 DEF Queues
    <3>2. \A i \in 1..Len(Q[f]) : y.td[Q[f][i]] = x.td[Q[f][i]]
      BY <3>1, <1>5, <1>6
    <3> QED BY <3>1, <3>2, <1>2 DEF Path, Chained
  <2>2. \A f \in Eds : \A t \in Range(Q[f]) : Owner(y, t) \in Urbs /\ Ep[Owner(y, t)] = f
    BY <1>1, <1>5, <1>6 DEF Queues
  <2> QED BY <1>1, <2>1, <2>2 DEF Queues
<1>8. Belongs(y)
  <2> SUFFICES ASSUME NEW t \in Blocks, Owner(y, t) # Nil
               PROVE  /\ t \in InUse(y.pool) /\ Owner(y, t) \in Linked(y)
                      /\ y.td[t].index < Size[Owner(y, t)]
                      /\ y.urb[Owner(y, t)].tds[y.td[t].index + 1] = t
    BY DEF Belongs
  <2>1. y.td[t] = x.td[t] /\ Owner(y, t) = Owner(x, t) /\ t # b
    BY <1>4
  <2>2. /\ t \in InUse(x.pool) /\ Owner(x, t) \in Linked(x)
        /\ x.td[t].index < Size[Owner(x, t)]
        /\ x.urb[Owner(x, t)].tds[x.td[t].index + 1] = t
    BY <1>1, <2>1 DEF Belongs
  <2> QED BY <2>1, <2>2, <1>2 DEF b
<1>9. Whole(y)
  <2> SUFFICES ASSUME NEW u \in Linked(x)
               PROVE  /\ Len(x.urb[u].tds) = Size[u]
                      /\ \A i \in 1..Size[u] : /\ Owner(y, x.urb[u].tds[i]) = u
                                               /\ y.td[x.urb[u].tds[i]].index = i - 1
    BY <1>2 DEF Whole
  <2>2. /\ Len(x.urb[u].tds) = Size[u]
        /\ \A i \in 1..Size[u] : /\ Owner(x, x.urb[u].tds[i]) = u
                                 /\ x.td[x.urb[u].tds[i]].index = i - 1
    BY <1>1 DEF Whole
  <2>3. ASSUME NEW i \in 1..Size[u] PROVE y.td[x.urb[u].tds[i]] = x.td[x.urb[u].tds[i]]
    <3>1. x.urb[u].tds \in Seq(Blocks) /\ Len(x.urb[u].tds) = Size[u]
      BY <1>2, <2>2, Parts
    <3>2. x.urb[u].tds[i] \in Blocks
      BY <3>1
    <3>3. Owner(x, x.urb[u].tds[i]) # Nil
      BY <1>2, <2>2
    <3> QED BY <3>2, <3>3, <1>4
  <2> QED BY <2>2, <2>3 DEF Owner
<1>10. Dummies(y)
  <2> SUFFICES ASSUME NEW f \in Used(x) \ {e}
               PROVE  /\ x.ed[f].tail \in InUse(y.pool) /\ Owner(y, x.ed[f].tail) = Nil
                      /\ \A g \in Used(x) \ {e} : x.ed[g].tail = x.ed[f].tail => g = f
    BY <1>2 DEF Dummies
  <2>1. /\ x.ed[f].tail \in InUse(x.pool) /\ Owner(x, x.ed[f].tail) = Nil
        /\ \A g \in Used(x) : x.ed[g].tail = x.ed[f].tail => g = f
    BY <1>1 DEF Dummies
  <2>2. x.ed[f].tail \in Blocks /\ x.ed[f].tail # b
    BY <2>1, <1>3 DEF InUse
  <2> QED BY <2>1, <2>2, <1>4 DEF b
<1>11. Ordered(y, Q)
  <2> SUFFICES ASSUME NEW f \in Eds, NEW i \in 1..Len(Q[f]), Unfinished(y, Q[f][i])
               PROVE  i < Len(Q[f]) /\ Follows(y, Q[f][i + 1], Q[f][i])
    BY DEF Ordered
  <2>1. y.td[Q[f][i]] = x.td[Q[f][i]]
    BY <1>5, <1>6
  <2>2. Unfinished(x, Q[f][i])
    BY <2>1 DEF Unfinished, Owner
  <2>3. i < Len(Q[f]) /\ Follows(x, Q[f][i + 1], Q[f][i])
    BY <1>1, <2>2 DEF Ordered
  <2>4. i + 1 \in 1..Len(Q[f])
    BY <2>3, <1>6
  <2>5. y.td[Q[f][i + 1]] = x.td[Q[f][i + 1]]
    BY <2>4, <1>5, <1>6
  <2> QED BY <2>1, <2>3, <2>5 DEF Follows, Owner
<1>12. Out(y, Q, D)
  BY <1>1, <1>5 DEF Out
<1>13. Counted(y, Q, D, dead)
  <2>1. \A u : Pending(y, Q, D, u) = Pending(x, Q, D, u)
    BY <1>5 DEF Pending
  <2> QED BY <2>1, <1>1, <1>2 DEF Counted
<1>14. ASSUME NEW F \in SUBSET D, Halts(x, Q, F) PROVE Halts(y, Q, F)
  <2>1. \A t \in F : y.td[t] = x.td[t] /\ Owner(y, t) = Owner(x, t) /\ Ep[Owner(x, t)] \in Eds \ {e}
    BY <1>1, <1>2, <1>5 DEF Out
  <2>2. ASSUME NEW t \in F, y.td[t].failed
        PROVE  /\ y.ed[Ep[Owner(y, t)]].halted
               /\ Unfinished(y, t) => /\ Q[Ep[Owner(y, t)]] # <<>>
                                      /\ Follows(y, Q[Ep[Owner(y, t)]][1], t)
    <3> DEFINE f == Ep[Owner(x, t)]
    <3>1. y.td[t] = x.td[t] /\ Owner(y, t) = Owner(x, t) /\ f \in Eds \ {e} /\ x.td[t].failed
      BY <2>1, <2>2
    <3>2. x.ed[f].halted /\ (Unfinished(x, t) => Q[f] # <<>> /\ Follows(x, Q[f][1], t))
      BY <3>1, <1>14 DEF Halts
    <3>3. y.ed[f].halted
      BY <3>1, <3>2
    <3>4. Q[f] # <<>> => y.td[Q[f][1]] = x.td[Q[f][1]]
      <4>1. Q[f] \in Seq(Blocks)
        BY <3>1, <1>6
      <4>2. Q[f] # <<>> => 1 \in 1..Len(Q[f])
        BY <4>1
      <4> HIDE DEF f
      <4> QED BY <4>1, <4>2, <3>1, <1>5, <1>6
    <3> QED BY <3>1, <3>2, <3>3, <3>4 DEF Unfinished, Follows, Owner
  <2>3. \A s, t \in F : y.td[s].failed /\ y.td[t].failed /\ Ep[Owner(y, s)] = Ep[Owner(y, t)] => s = t
    BY <2>1, <1>14 DEF Halts
  <2> QED BY <2>2, <2>3 DEF Halts
<1>15. \A S : Owing(x, S, dead) => Owing(y, S, dead)
  BY <1>2 DEF Owing
<1>16. Tds(y, Q, D, dead)
  BY <1>7, <1>8, <1>9, <1>10, <1>11, <1>12, <1>13 DEF Tds
<1> QED
  BY <1>5, <1>14, <1>15, <1>16

(* The first TD of G from the place of one is that one.                      *)
LEMMA FirstInNext ==
    ASSUME NEW q, Len(q) \in Nat, NEW G, NEW tail, NEW i \in 1..Len(q), q[i] \in G
    PROVE  FirstIn(q, G, tail, i) = q[i]
<1> DEFINE K == {j \in i..Len(q) : q[j] \in G}
<1>1. i \in K /\ \A j \in K : j >= i
  OBVIOUS
<1>2. Min(K) = i
  <2>1. K \subseteq Int
    OBVIOUS
  <2> HIDE DEF K
  <2>2. \E m \in K : \A j \in K : m <= j
    BY <1>1, <2>1
  <2>3. Min(K) \in K /\ \A j \in K : Min(K) <= j
    BY <2>2 DEF Min
  <2> DEFINE m == Min(K)
  <2>4. m \in Int /\ m >= i /\ m <= i
    BY <1>1, <2>1, <2>3
  <2> HIDE DEF m
  <2>5. m = i
    BY <2>4
  <2> QED BY <2>5 DEF m
<1> QED
  BY <1>1, <1>2 DEF FirstIn

(* The TDs of request u among those that leave q.                            *)
Leaving(x, q, G, u) == {t \in Range(q) \ G : Owner(x, t) = u}

(* What becomes of the descriptors when the TDs of e outside of G are taken  *)
(* out of its queue.                                                         *)
ThinStep(x, y, e, q, G) ==
    /\ y.pool = x.pool /\ Used(y) = Used(x) /\ Linked(y) = Linked(x)
    /\ \A f \in Eds : y.ed[f].tail = x.ed[f].tail /\ y.ed[f].halted = x.ed[f].halted
    /\ \A f \in Eds \ {e} : y.ed[f].head = x.ed[f].head
    /\ y.ed[e].head = FirstIn(q, G, x.ed[e].tail, 1)
    /\ \A t \in Blocks : /\ Owner(y, t) = Owner(x, t) /\ y.td[t].index = x.td[t].index
                         /\ y.td[t].failed = x.td[t].failed
    /\ \A t \in Blocks \ (Range(q) \cap G) : y.td[t].next = x.td[t].next
    /\ \A i \in 1..Len(q) : q[i] \in G => y.td[q[i]].next = FirstIn(q, G, x.ed[e].tail, 1 + i)
    /\ \A u \in Urbs : /\ y.urb[u].tds = x.urb[u].tds
                       /\ y.urb[u].cnt = x.urb[u].cnt + Cardinality(Leaving(x, q, G, u))

(* The TDs of a request stay or go together.                                 *)
ByOwner(x, q, G) == \A s, t \in Range(q) : Owner(x, s) = Owner(x, t) /\ t \in G => s \in G

Put(Q, e, r) == [Q EXCEPT ![e] = r]

ThinQueues(y, Q, R, e, G, r) ==
    /\ Queues(y, R) /\ Ordered(y, R) /\ Coming(R) = Coming(Q) \ (Range(Q[e]) \ G)
    /\ R[e] = r /\ \A f \in Eds \ {e} : R[f] = Q[f]

(* What is left of a queue whose TDs not in G are unlinked is a queue with   *)
(* all that queues have to satisfy, if whole requests go.                    *)
LEMMA ThinnedQueues ==
    ASSUME NEW x \in DD, NEW y \in DD, NEW Q, OhciAssumption, Queues(x, Q), Ordered(x, Q),
           NEW e \in Used(x), NEW G, NEW r, Thin(Q[e], G, x.ed[e].tail, r), ThinStep(x, y, e, Q[e], G),
           ByOwner(x, Q[e], G),
           NEW R, R = Put(Q, e, r)
    PROVE  ThinQueues(y, Q, R, e, G, r)
<1> DEFINE q == Q[e]
           a == x.ed[e].tail
<1>1. e \in Eds /\ Used(x) \subseteq Eds /\ Q \in [Eds -> Seq(Blocks)]
  BY DEF Used, Queues
<1>2. /\ r \in Seq(Blocks) /\ IsInjective(r) /\ Range(r) = Range(q) \cap G
      /\ FirstIn(q, G, a, 1) = Next1(r, 1, a)
      /\ \A i \in 1..Len(q) : q[i] \in G =>
           \E k \in 1..Len(r) : r[k] = q[i] /\ FirstIn(q, G, a, 1 + i) = Next1(r, k + 1, a)
  BY DEF Thin
<1>3. R[e] = r /\ R \in [Eds -> Seq(Blocks)] /\ \A f \in Eds \ {e} : R[f] = Q[f]
  BY <1>1, <1>2 DEF Put
<1>4. /\ Used(y) = Used(x)
      /\ \A f \in Eds : y.ed[f].tail = x.ed[f].tail
      /\ \A f \in Eds \ {e} : y.ed[f].head = x.ed[f].head
      /\ y.ed[e].head = FirstIn(q, G, a, 1)
      /\ \A t \in Blocks : Owner(y, t) = Owner(x, t) /\ y.td[t].index = x.td[t].index
      /\ \A t \in Blocks \ (Range(q) \cap G) : y.td[t].next = x.td[t].next
      /\ \A i \in 1..Len(q) : q[i] \in G => y.td[q[i]].next = FirstIn(q, G, a, 1 + i)
  BY DEF ThinStep
<1>5. \A f \in Eds : /\ Q[f] \in Seq(Blocks) /\ Range(Q[f]) \subseteq Blocks /\ Len(Q[f]) \in Nat
                     /\ \A i \in 1..Len(Q[f]) : Q[f][i] \in Range(Q[f])
                     /\ \A t \in Range(Q[f]) : \E i \in 1..Len(Q[f]) : Q[f][i] = t
  <2> TAKE f \in Eds
  <2>1. Q[f] \in Seq(Blocks)
    BY <1>1
  <2> DEFINE q1 == Q[f]
  <2>2. q1 \in Seq(Blocks)
    BY <2>1
  <2> HIDE DEF q1
  <2>3. /\ Range(q1) \subseteq Blocks /\ Len(q1) \in Nat
        /\ \A t : t \in Range(q1) <=> \E i \in 1..Len(q1) : q1[i] = t
    BY <2>2, NotEmpty
  <2> QED BY <2>1, <2>3 DEF q1
<1>6. Chained(x.td, q, x.ed[e].head, a)
  BY <1>1 DEF Queues, Path
<1>7. \A f \in Eds : \A t \in Range(Q[f]) : Owner(x, t) \in Urbs /\ Ep[Owner(x, t)] = f
  BY DEF Queues
<1> HIDE DEF q, a
<1>8. /\ Range(r) \subseteq Range(q) /\ Len(r) \in Nat
      /\ \A k \in 1..Len(r) : r[k] \in Range(q) /\ r[k] \in G
      /\ \A i, k \in 1..Len(r) : r[i] = r[k] => i = k
  BY <1>2, NotEmpty
<1>9. q = Q[e] /\ a = x.ed[e].tail
  BY DEF q, a
<1>10. \A k \in 1..Len(r) : \E i \in 1..Len(q) : r[k] = q[i] /\ q[i] \in G
         /\ FirstIn(q, G, a, 1 + i) = Next1(r, k + 1, a)
  <2> TAKE k \in 1..Len(r)
  <2>1. PICK i \in 1..Len(q) : q[i] = r[k]
    <3>1. \A t \in Range(q) : \E i \in 1..Len(q) : q[i] = t
      <4>1. q \in Seq(Blocks)
        BY <1>1, <1>9
      <4> QED BY <4>1, NotEmpty, Zenon
    <3>2. r[k] \in Range(q)
      BY <1>8, Zenon
    <3> QED BY <3>1, <3>2, Zenon
  <2>2. q[i] \in G
    BY <2>1, <1>8
  <2>3. PICK m \in 1..Len(r) : r[m] = q[i] /\ FirstIn(q, G, a, 1 + i) = Next1(r, m + 1, a)
    BY <2>2, <1>2
  <2>4. m = k
    BY <2>1, <2>3, <1>8
  <2> QED BY <2>1, <2>2, <2>3, <2>4
<1>11. \A k \in 1..Len(r) : y.td[r[k]].next = Next1(r, k + 1, a)
  BY <1>4, <1>10
<1>12. Queues(y, R)
  <2>1. Path(y, e, R[e])
    <3>1. a \in Blocks \ Range(r)
      BY <1>6, <1>8 DEF Chained
    <3> QED BY <3>1, <1>1, <1>2, <1>3, <1>4, <1>9, <1>11 DEF Path, Chained
  <2>2. ASSUME NEW f \in Eds \ {e} PROVE IF f \in Used(y) THEN Path(y, f, R[f]) ELSE R[f] = <<>>
    <3>1. IF f \in Used(x) THEN Path(x, f, Q[f]) ELSE Q[f] = <<>>
      BY DEF Queues
    <3>2. \A i \in 1..Len(Q[f]) : y.td[Q[f][i]].next = x.td[Q[f][i]].next
      <4> TAKE i \in 1..Len(Q[f])
      <4>1. Q[f][i] \in Range(Q[f]) /\ Q[f][i] \in Blocks
        BY <1>5
      <4>2. Q[f][i] \notin Range(q)
        BY <4>1, <1>1, <1>7, <1>9
      <4> QED BY <4>1, <4>2, <1>4
    <3>3. f \in Used(x) => Path(y, f, Q[f])
      BY <3>1, <3>2, <1>4 DEF Path, Chained
    <3> QED BY <3>1, <3>3, <1>3, <1>4
  <2>3. ASSUME NEW f \in Eds, NEW t \in Range(R[f]) PROVE Owner(y, t) \in Urbs /\ Ep[Owner(y, t)] = f
    <3>1. t \in Range(Q[f])
      BY <1>3, <1>8, <1>9
    <3> QED BY <3>1, <1>4, <1>5, <1>7
  <2> QED BY <2>1, <2>2, <2>3, <1>3, <1>4, <1>1 DEF Queues
<1>13. Ordered(y, R)
  <2> SUFFICES ASSUME NEW f \in Eds, NEW i \in 1..Len(R[f]), Unfinished(y, R[f][i])
               PROVE  i < Len(R[f]) /\ Follows(y, R[f][i + 1], R[f][i])
    BY DEF Ordered
  <2>1. ASSUME NEW j \in 1..Len(Q[f]), Unfinished(y, Q[f][j])
        PROVE  j < Len(Q[f]) /\ Follows(x, Q[f][j + 1], Q[f][j]) /\ Q[f][j + 1] \in Range(Q[f])
               /\ Follows(y, Q[f][j + 1], Q[f][j])
    <3>1. Q[f][j] \in Blocks
      BY <1>5
    <3>2. Unfinished(x, Q[f][j])
      BY <3>1, <2>1, <1>4 DEF Unfinished
    <3>3. j < Len(Q[f]) /\ Follows(x, Q[f][j + 1], Q[f][j])
      BY <3>2 DEF Ordered
    <3>4. j + 1 \in 1..Len(Q[f])
      BY <3>3, <1>5
    <3>5. Q[f][j + 1] \in Range(Q[f]) /\ Q[f][j + 1] \in Blocks
      BY <3>4, <1>5
    <3> QED BY <3>1, <3>3, <3>5, <1>4 DEF Follows
  <2>2. CASE f # e
    BY <2>2, <2>1, <1>3
  <2>3. CASE f = e
    <3>1. i \in 1..Len(r) /\ R[f] = r
      BY <2>3, <1>3
    <3>2. PICK j \in 1..Len(q) : r[i] = q[j] /\ q[j] \in G /\ FirstIn(q, G, a, 1 + j) = Next1(r, i + 1, a)
      BY <3>1, <1>10
    <3>3. j < Len(q) /\ Follows(x, q[j + 1], q[j]) /\ q[j + 1] \in Range(q) /\ Follows(y, q[j + 1], q[j])
      BY <3>1, <3>2, <2>1, <2>3, <1>9
    <3>4. q[j] \in Range(q)
      BY <1>1, <1>5, <1>9
    <3>5. q[j + 1] \in G
      BY <3>2, <3>3, <3>4, <1>9 DEF Follows, ByOwner
    <3>6. 1 + j \in 1..Len(q) /\ 1 + j = j + 1 /\ Len(q) \in Nat
      BY <3>3, <1>1, <1>5, <1>9
    <3>7. FirstIn(q, G, a, 1 + j) = q[j + 1]
      BY <3>5, <3>6, FirstInNext
    <3>8. q[j + 1] # a
      BY <3>3, <1>6 DEF Chained
    <3>9. i + 1 <= Len(r) /\ r[i + 1] = q[j + 1]
      BY <3>2, <3>7, <3>8 DEF Next1
    <3>10. i < Len(r)
      BY <3>1, <3>9, <1>8
    <3> QED BY <3>1, <3>2, <3>3, <3>9, <3>10
  <2> QED BY <2>2, <2>3
<1>14. Coming(R) = Coming(Q) \ (Range(q) \ G)
  <2>1. \A f \in Eds \ {e} : \A t \in Range(Q[f]) : t \notin Range(q)
    BY <1>1, <1>7, <1>9
  <2>2. \A t : (\E f \in Eds : t \in Range(R[f]))
                <=> (\E f \in Eds : t \in Range(Q[f])) /\ ~(t \in Range(q) /\ t \notin G)
    <3>1. ASSUME NEW t, NEW f \in Eds, t \in Range(R[f])
          PROVE  t \in Range(Q[f]) /\ ~(t \in Range(q) /\ t \notin G)
      BY <3>1, <2>1, <1>2, <1>3, <1>9
    <3>2. ASSUME NEW t, NEW f \in Eds, t \in Range(Q[f]), ~(t \in Range(q) /\ t \notin G)
          PROVE  t \in Range(R[f])
      BY <3>2, <1>2, <1>3, <1>9
    <3> QED BY <3>1, <3>2
  <2> QED BY <2>2 DEF Coming
<1> QED
  BY <1>3, <1>9, <1>12, <1>13, <1>14 DEF ThinQueues

(* Removing whole requests from a queue of which no TD is out keeps all that *)
(* is known of TDs, and what is left to count shrinks by what was removed.   *)
LEMMA Thinned ==
    ASSUME NEW x \in DD, NEW y \in DD, NEW Q, NEW D, NEW dead, OhciAssumption, Tds(x, Q, D, dead),
           NEW e \in Used(x), \A t \in D : Ep[Owner(x, t)] # e,
           NEW G, NEW r, Thin(Q[e], G, x.ed[e].tail, r), ThinStep(x, y, e, Q[e], G),
           ByOwner(x, Q[e], G),
           NEW R, R = Put(Q, e, r)
    PROVE  /\ Tds(y, R, D, dead) /\ R[e] = r
           /\ \A u \in Urbs : Pending(y, R, D, u) = Pending(x, Q, D, u) \ Leaving(x, Q[e], G, u)
           /\ \A t \in D : Owner(y, t) = Owner(x, t)
           /\ \A F \in SUBSET D : Halts(x, Q, F) => Halts(y, R, F)
<1>1. Queues(x, Q) /\ Belongs(x) /\ Whole(x) /\ Dummies(x)
      /\ Ordered(x, Q) /\ Out(x, Q, D) /\ Counted(x, Q, D, dead)
  BY DEF Tds
<1>2. Queues(y, R) /\ Ordered(y, R) /\ Coming(R) = Coming(Q) \ (Range(Q[e]) \ G)
      /\ R[e] = r /\ \A f \in Eds \ {e} : R[f] = Q[f]
  <2>1. ThinQueues(y, Q, R, e, G, r)
    BY <1>1, ThinnedQueues
  <2> QED BY <2>1 DEF ThinQueues
<1>3. /\ y.pool = x.pool /\ Used(y) = Used(x) /\ Linked(y) = Linked(x)
      /\ \A f \in Eds : y.ed[f].tail = x.ed[f].tail /\ y.ed[f].halted = x.ed[f].halted
      /\ \A t \in Blocks : /\ Owner(y, t) = Owner(x, t) /\ y.td[t].index = x.td[t].index
                           /\ y.td[t].failed = x.td[t].failed
      /\ \A u \in Urbs : /\ y.urb[u].tds = x.urb[u].tds
                         /\ y.urb[u].cnt = x.urb[u].cnt + Cardinality(Leaving(x, Q[e], G, u))
  BY DEF ThinStep
<1>4. Used(x) \subseteq Eds /\ Linked(x) \subseteq Urbs /\ Nil \notin Urbs
  BY DEF Used, Linked, OhciAssumption
<1>5. Belongs(y)
  <2> SUFFICES ASSUME NEW t \in Blocks, Owner(y, t) # Nil
               PROVE  /\ t \in InUse(y.pool) /\ Owner(y, t) \in Linked(y)
                      /\ y.td[t].index < Size[Owner(y, t)]
                      /\ y.urb[Owner(y, t)].tds[y.td[t].index + 1] = t
    BY DEF Belongs
  <2>1. Owner(y, t) = Owner(x, t) /\ y.td[t].index = x.td[t].index
    BY <1>3
  <2>2. /\ t \in InUse(x.pool) /\ Owner(x, t) \in Linked(x)
        /\ x.td[t].index < Size[Owner(x, t)]
        /\ x.urb[Owner(x, t)].tds[x.td[t].index + 1] = t
    BY <1>1, <2>1 DEF Belongs
  <2> QED BY <2>1, <2>2, <1>3, <1>4
<1>6. Whole(y)
  <2> SUFFICES ASSUME NEW u \in Linked(x)
               PROVE  /\ Len(y.urb[u].tds) = Size[u]
                      /\ \A i \in 1..Size[u] : /\ Owner(y, y.urb[u].tds[i]) = u
                                               /\ y.td[y.urb[u].tds[i]].index = i - 1
    BY <1>3 DEF Whole
  <2>1. y.urb[u].tds = x.urb[u].tds /\ x.urb[u].tds \in Seq(Blocks)
    BY <1>3, <1>4, Parts
  <2>2. /\ Len(x.urb[u].tds) = Size[u]
        /\ \A i \in 1..Size[u] : /\ Owner(x, x.urb[u].tds[i]) = u
                                 /\ x.td[x.urb[u].tds[i]].index = i - 1
    BY <1>1 DEF Whole
  <2>3. \A i \in 1..Size[u] : x.urb[u].tds[i] \in Blocks
    BY <2>1, <2>2
  <2>4. \A i \in 1..Size[u] : /\ Owner(y, x.urb[u].tds[i]) = u
                             /\ y.td[x.urb[u].tds[i]].index = i - 1
    <3> TAKE i \in 1..Size[u]
    <3>1. x.urb[u].tds[i] \in Blocks
      BY <2>3
    <3> QED BY <3>1, <2>2, <1>3
  <2> QED BY <2>1, <2>2, <2>4
<1>7. Dummies(y)
  <2> SUFFICES ASSUME NEW f \in Used(x)
               PROVE  /\ y.ed[f].tail \in InUse(y.pool) /\ Owner(y, y.ed[f].tail) = Nil
                      /\ \A g \in Used(x) : y.ed[g].tail = y.ed[f].tail => g = f
    BY <1>3 DEF Dummies
  <2>1. /\ x.ed[f].tail \in InUse(x.pool) /\ Owner(x, x.ed[f].tail) = Nil
        /\ \A g \in Used(x) : x.ed[g].tail = x.ed[f].tail => g = f
    BY <1>1 DEF Dummies
  <2>2. x.ed[f].tail \in Blocks /\ \A g \in Used(x) : y.ed[g].tail = x.ed[g].tail
    BY <2>1, <1>3, <1>4 DEF InUse
  <2>3. Owner(y, x.ed[f].tail) = Nil
    BY <2>1, <2>2, <1>3
  <2> QED BY <2>1, <2>2, <2>3, <1>3
<1>8. Out(y, R, D)
  BY <1>1, <1>2, <1>3 DEF Out
<1>9. \A t \in Coming(Q) \cup D : t \in Blocks /\ Owner(y, t) = Owner(x, t)
  <2>1. \A t \in Coming(Q) \cup D : t \in Blocks
    BY <1>1, ComingTd DEF Out
  <2> QED BY <2>1, <1>3
<1>10. ASSUME NEW u \in Urbs
       PROVE  /\ Pending(y, R, D, u) = Pending(x, Q, D, u) \ Leaving(x, Q[e], G, u)
              /\ Leaving(x, Q[e], G, u) \subseteq Pending(x, Q, D, u)
  <2>1. Range(Q[e]) \subseteq Coming(Q) /\ Range(Q[e]) \cap D = {}
    BY <1>1, <1>4 DEF Coming, Out
  <2>2. Coming(R) \cup D = (Coming(Q) \cup D) \ (Range(Q[e]) \ G)
    BY <1>2, <2>1
  <2> QED BY <2>1, <2>2, <1>9 DEF Pending, Leaving
<1>11. Counted(y, R, D, dead)
  <2> SUFFICES ASSUME NEW u \in Urbs
               PROVE  /\ y.urb[u].cnt <= Size[u]
                      /\ u \in Linked(x) =>
                           /\ y.urb[u].cnt + Cardinality(Pending(y, R, D, u)) <= Size[u]
                           /\ ~dead => y.urb[u].cnt + Cardinality(Pending(y, R, D, u)) = Size[u]
    BY <1>3 DEF Counted
  <2> DEFINE L == Leaving(x, Q[e], G, u)
             P == Pending(x, Q, D, u)
             m == Cardinality(L)
             p == Cardinality(P)
             c == x.urb[u].cnt
             n == Size[u]
  <2>1. IsFiniteSet(P) /\ p \in Nat /\ IsFiniteSet(L) /\ m \in Nat /\ m <= p
    <3>1. IsFiniteSet(P) /\ p \in Nat /\ L \subseteq P
      BY <1>1, <1>10, PendingFinite
    <3> HIDE DEF L, P
    <3> QED BY <3>1, FS_Subset, FS_CardinalityType
  <2>2. Cardinality(Pending(y, R, D, u)) = p - m
    <3>1. L \subseteq P /\ Pending(y, R, D, u) = P \ L
      BY <1>10
    <3>2. Cardinality(P \ L) = Cardinality(P) - Cardinality(P \cap L) /\ P \cap L = L
      <4> HIDE DEF L, P
      <4> QED BY <2>1, <3>1, FS_Difference
    <3> QED BY <3>1, <3>2, Zenon
  <2>3. y.urb[u].cnt = c + m /\ c \in Nat /\ n \in Nat
    BY <1>3, Parts DEF OhciAssumption
  <2>4. CASE u \in Linked(x)
    <3>1. c + p <= n /\ (~dead => c + p = n)
      BY <2>4, <1>1 DEF Counted
    <3> HIDE DEF c, p, m, n
    <3>2. c + m <= n /\ (c + m) + (p - m) = c + p
      BY <2>1, <2>3, <3>1
    <3> QED BY <2>2, <2>3, <3>1, <3>2 DEF n
  <2>5. CASE u \notin Linked(x)
    <3>1. \A t \in Range(Q[e]) : Owner(x, t) # u
      <4>1. \A t \in Range(Q[e]) : t \in Blocks /\ Owner(x, t) \in Urbs
        BY <1>1, <1>4, NotEmpty DEF Queues
      <4> QED BY <4>1, <2>5, <1>1, <1>4 DEF Belongs
    <3>2. L = {}
      BY <3>1 DEF Leaving
    <3>3. m = 0
      BY <3>2, FS_EmptySet
    <3>4. c <= n
      BY <1>1 DEF Counted
    <3> HIDE DEF c, m, n
    <3> QED BY <2>3, <2>5, <3>3, <3>4 DEF n
  <2> QED BY <2>4, <2>5
<1>12. ASSUME NEW F \in SUBSET D, Halts(x, Q, F) PROVE Halts(y, R, F)
  <2>1. \A t \in F : /\ t \in Blocks /\ Owner(y, t) = Owner(x, t) /\ Ep[Owner(x, t)] \in Eds \ {e}
                     /\ y.td[t].index = x.td[t].index /\ y.td[t].failed = x.td[t].failed
    BY <1>1, <1>3, <1>4 DEF Out
  <2>2. ASSUME NEW t \in F, y.td[t].failed
        PROVE  /\ y.ed[Ep[Owner(y, t)]].halted
               /\ Unfinished(y, t) => /\ R[Ep[Owner(y, t)]] # <<>>
                                      /\ Follows(y, R[Ep[Owner(y, t)]][1], t)
    <3> DEFINE f == Ep[Owner(x, t)]
    <3>1. /\ t \in Blocks /\ Owner(y, t) = Owner(x, t) /\ f \in Eds \ {e} /\ x.td[t].failed
          /\ y.td[t].index = x.td[t].index
      BY <2>1, <2>2
    <3>2. x.ed[f].halted /\ (Unfinished(x, t) => Q[f] # <<>> /\ Follows(x, Q[f][1], t))
      BY <3>1, <1>12 DEF Halts
    <3>3. y.ed[f].halted /\ R[f] = Q[f]
      BY <3>1, <3>2, <1>2, <1>3
    <3>4. Q[f] # <<>> => Q[f][1] \in Blocks
      <4> HIDE DEF f
      <4>1. Q[f] \in Seq(Blocks)
        BY <3>1, <1>1 DEF Queues
      <4> QED BY <4>1
    <3>5. Q[f] # <<>> => Owner(y, Q[f][1]) = Owner(x, Q[f][1]) /\ y.td[Q[f][1]].index = x.td[Q[f][1]].index
      BY <3>4, <1>3
    <3>6. Unfinished(y, t) => Unfinished(x, t)
      BY <3>1 DEF Unfinished
    <3> HIDE DEF f
    <3>7. Unfinished(y, t) => R[f] # <<>> /\ Follows(y, R[f][1], t)
      BY <3>1, <3>2, <3>3, <3>5, <3>6 DEF Follows
    <3> QED BY <3>1, <3>3, <3>7 DEF f
  <2>3. \A s, t \in F : y.td[s].failed /\ y.td[t].failed /\ Ep[Owner(y, s)] = Ep[Owner(y, t)] => s = t
    BY <2>1, <1>12 DEF Halts
  <2> QED BY <2>2, <2>3 DEF Halts
<1>13. Tds(y, R, D, dead)
  BY <1>2, <1>5, <1>6, <1>7, <1>8, <1>11 DEF Tds
<1> QED
  BY <1>2, <1>9, <1>10, <1>12, <1>13

(* The TDs dl_del_list leaves in the queue of e, and the requests given back.*)
Stay(x, e) == {t \in Blocks : ~(x.urb[x.td[t].urb].del \/ x.ed[e].state = "DEL")}
Back(x, q, G) ==
    {u \in Urbs : Leaving(x, q, G, u) # {} /\ x.urb[u].cnt + Cardinality(Leaving(x, q, G, u)) = Size[u]}

(* What it does once they are: z is what is left.                            *)
DelEnd(x, z, e, some) ==
    LET w == [z EXCEPT !.ed[e].urbdel = FALSE]
    IN  IF x.ed[e].state = "DEL"
        THEN [FreeTds(z, {x.ed[e].tail}) EXCEPT !.ed[e] = NewEd]
        ELSE IF some THEN [w EXCEPT !.ed[e].skip = FALSE]
        ELSE IF w.ed[e].state = "OPER" THEN EpUnlink(w, e) ELSE w

(* What ThinStep says, and of the rest of the data.                          *)
ThinData(x, y, e) ==
    /\ y \in DD /\ y.list = x.list /\ y.on = x.on /\ y.rm = x.rm
    /\ \A f \in Eds \ {e} : y.ed[f] = x.ed[f]
    /\ y.ed[e].state = x.ed[e].state /\ y.ed[e].urbdel = x.ed[e].urbdel
    /\ y.ed[e].skip = x.ed[e].skip /\ y.ed[e].tail = x.ed[e].tail
    /\ \A u \in Urbs : y.urb[u].stage = x.urb[u].stage /\ y.urb[u].del = x.urb[u].del

(* The new head of a thinned queue, and each new next, is a block.           *)
LEMMA FirstInBlocks ==
    ASSUME NEW q \in Seq(Blocks), IsInjective(q), NEW G, NEW tail \in Blocks, NEW i \in 1..Len(q), q[i] \in G
    PROVE  FirstIn(q, G, tail, 1) \in Blocks /\ FirstIn(q, G, tail, 1 + i) \in Blocks
<1>1. PICK r \in Seq(Blocks) : Thin(q, G, tail, r)
  BY Filtered
<1>2. \A k \in Nat \ {0} : Next1(r, k, tail) \in Blocks
  BY DEF Next1
<1>3. PICK k \in 1..Len(r) : FirstIn(q, G, tail, 1 + i) = Next1(r, k + 1, tail)
  BY <1>1 DEF Thin
<1>4. FirstIn(q, G, tail, 1) = Next1(r, 1, tail)
  BY <1>1 DEF Thin
<1>5. k + 1 \in Nat \ {0} /\ 1 \in Nat \ {0}
  BY <1>3
<1> QED
  BY <1>2, <1>3, <1>4, <1>5

(* The new head of a thinned queue is a block.                               *)
LEMMA HeadInBlocks ==
    ASSUME NEW q \in Seq(Blocks), IsInjective(q), NEW G, NEW tail \in Blocks
    PROVE  FirstIn(q, G, tail, 1) \in Blocks
<1>1. PICK r \in Seq(Blocks) : Thin(q, G, tail, r)
  BY Filtered
<1>2. Next1(r, 1, tail) \in Blocks
  BY DEF Next1
<1> QED
  BY <1>1, <1>2 DEF Thin

(* dl_del_list at one endpoint: its queue is thinned, the requests without   *)
(* TDs left are given back, and the endpoint goes on or is freed.            *)
LEMMA DelEdParts ==
    ASSUME NEW x \in DD, NEW e \in Eds, OhciAssumption, NEW q, q = Queue(x, e), q \in Seq(Blocks), IsInjective(q),
           x.ed[e].tail \in Blocks, NEW G, G = Stay(x, e)
    PROVE  \E y, some : /\ DelEd(x, e) = DelEnd(x, GiveBack(y, Back(x, q, G)), e, some)
                        /\ ThinData(x, y, e)
                        /\ ThinStep(x, y, e, q, G)
<1> DEFINE p == Queue(x, e)
           gone(t) == x.urb[x.td[t].urb].del \/ x.ed[e].state = "DEL"
           kept(i) == {j \in i..Len(p) : ~gone(p[j])}
           first(i) == IF kept(i) = {} THEN x.ed[e].tail ELSE p[Min(kept(i))]
           removed(u) == {t \in Range(p) : gone(t) /\ x.td[t].urb = u}
           back == {u \in Urbs : removed(u) # {} /\ x.urb[u].cnt + Cardinality(removed(u)) = Size[u]}
           y == [x EXCEPT
                   !.ed[e].head = first(1),
                   !.td = [t \in Blocks |->
                             IF t \in Range(p) /\ ~gone(t)
                             THEN [@[t] EXCEPT !.next = first(1 + CHOOSE i \in DOMAIN p : p[i] = t)]
                             ELSE @[t]],
                   !.urb = [u \in Urbs |->
                             [@[u] EXCEPT !.cnt = x.urb[u].cnt + Cardinality(removed(u))]]]
           z == GiveBack(y, back)
           w == [z EXCEPT !.ed[e].urbdel = FALSE]
<1>1. DelEd(x, e) = IF x.ed[e].state = "DEL"
                    THEN [FreeTds(z, {x.ed[e].tail}) EXCEPT !.ed[e] = NewEd]
                    ELSE IF kept(1) # {} THEN [w EXCEPT !.ed[e].skip = FALSE]
                    ELSE IF w.ed[e].state = "OPER" THEN EpUnlink(w, e) ELSE w
  BY DEF DelEd
<1> DEFINE some == kept(1) # {}
<1>2. DelEd(x, e) = DelEnd(x, z, e, some)
  <2> HIDE DEF z, kept
  <2> QED BY <1>1 DEF DelEnd
<1>3. p = q
  OBVIOUS
<1>4. /\ \A i \in 1..Len(q) : q[i] \in Range(q) /\ q[i] \in Blocks
      /\ Range(q) \subseteq Blocks /\ Len(q) \in Nat
      /\ \A t \in Range(q) : \E i \in 1..Len(q) : q[i] = t
      /\ \A i, j \in 1..Len(q) : q[i] = q[j] => i = j
      /\ DOMAIN q = 1..Len(q)
  BY NotEmpty
<1>5. \A t \in Blocks : gone(t) <=> t \notin G
  BY DEF Stay
<1> HIDE DEF gone, p
<1>6. \A i \in Nat \ {0} : first(i) = FirstIn(q, G, x.ed[e].tail, i)
  <2> TAKE i \in Nat \ {0}
  <2>1. kept(i) = {j \in i..Len(q) : q[j] \in G}
    BY <1>3, <1>4, <1>5
  <2> HIDE DEF kept
  <2> QED BY <2>1, <1>3 DEF FirstIn
<1>7. \A u : removed(u) = Leaving(x, q, G, u)
  BY <1>3, <1>4, <1>5 DEF Leaving, Owner
<1> HIDE DEF removed, first, kept
<1>8. back = Back(x, q, G)
  BY <1>7 DEF Back
<1> DEFINE at1(t) == 1 + CHOOSE i \in DOMAIN p : p[i] = t
           E == [x.ed EXCEPT ![e].head = first(1)]
           T == [t \in Blocks |-> IF t \in Range(p) /\ ~gone(t) THEN [x.td[t] EXCEPT !.next = first(at1(t))] ELSE x.td[t]]
           U == [u \in Urbs |-> [x.urb[u] EXCEPT !.cnt = x.urb[u].cnt + Cardinality(removed(u))]]
<1>9. /\ x.ed \in [Eds -> EdRec] /\ x.td \in [Blocks -> TdRec] /\ x.urb \in [Urbs -> UrbRec]
      /\ x.pool \in Pools /\ x.list \in [Kinds -> Seq(Eds)] /\ x.on \in SUBSET Kinds
      /\ x.rm \in [Frames -> Seq(Eds)]
  BY DEF DD
<1>10. y = [x EXCEPT !.ed = E, !.td = T, !.urb = U]
  <2>1. [t \in Blocks |->
           IF t \in Range(p) /\ ~gone(t)
           THEN [x.td[t] EXCEPT !.next = first(1 + CHOOSE i \in DOMAIN p : p[i] = t)]
           ELSE x.td[t]] = T
    OBVIOUS
  <2>2. [u \in Urbs |-> [x.urb[u] EXCEPT !.cnt = x.urb[u].cnt + Cardinality(removed(u))]] = U
    BY DEF DD
  <2> HIDE DEF T, U, at1
  <2>3. y = [x EXCEPT !.ed[e].head = first(1), !.td = T, !.urb = U]
    BY <2>1, <2>2 DEF DD
  <2> QED BY <2>3 DEF DD
<1>11. \A i \in 1..Len(q) : at1(q[i]) = 1 + i
  <2> TAKE i \in 1..Len(q)
  <2>1. (CHOOSE j \in DOMAIN p : p[j] = q[i]) = i
    BY <1>3, <1>4
  <2> QED BY <2>1
<1> HIDE DEF at1
<1>12. first(1) \in Blocks /\ \A i \in 1..Len(q) : q[i] \in G => first(1 + i) \in Blocks
  <2>1. first(1) = FirstIn(q, G, x.ed[e].tail, 1)
    BY <1>6
  <2>2. \A i \in 1..Len(q) : first(1 + i) = FirstIn(q, G, x.ed[e].tail, 1 + i)
    BY <1>6
  <2>3. first(1) \in Blocks
    BY <2>1, HeadInBlocks
  <2>4. \A i \in 1..Len(q) : q[i] \in G => FirstIn(q, G, x.ed[e].tail, 1 + i) \in Blocks
    BY FirstInBlocks
  <2> QED BY <2>2, <2>3, <2>4
<1>13. /\ E \in [Eds -> EdRec] /\ (\A f \in Eds \ {e} : E[f] = x.ed[f])
       /\ E[e].head = first(1) /\ E[e].tail = x.ed[e].tail /\ E[e].halted = x.ed[e].halted
       /\ E[e].state = x.ed[e].state /\ E[e].urbdel = x.ed[e].urbdel /\ E[e].skip = x.ed[e].skip
  <2>1. x.ed[e] \in EdRec
    BY <1>9
  <2>2. DOMAIN x.ed[e] = {"state", "urbdel", "skip", "halted", "head", "tail"}
    BY <2>1, EdFields
  <2>3. [x.ed[e] EXCEPT !.head = first(1)] \in EdRec
    BY <2>1, <1>12, EdChanged, Zenon
  <2> QED BY <1>9, <2>2, <2>3
<1>14. /\ T \in [Blocks -> TdRec]
       /\ \A t \in Blocks : T[t].urb = x.td[t].urb /\ T[t].index = x.td[t].index /\ T[t].failed = x.td[t].failed
       /\ \A t \in Blocks : t \notin Range(q) \cap G => T[t].next = x.td[t].next
       /\ \A i \in 1..Len(q) : q[i] \in G => T[q[i]].next = first(1 + i)
  <2>1. \A r \in TdRec, h \in Blocks \cup {Nil} : [r EXCEPT !.next = h] \in TdRec
    BY Zenon DEF TdRec
  <2>2. \A r \in TdRec : DOMAIN r = {"urb", "index", "failed", "next"}
    BY Zenon DEF TdRec
  <2>3. \A t \in Blocks : t \in Range(p) /\ ~gone(t) => first(at1(t)) \in Blocks
    <3> TAKE t \in Blocks
    <3>1. ASSUME t \in Range(q), t \in G PROVE first(at1(t)) \in Blocks
      <4>1. PICK i \in 1..Len(q) : q[i] = t
        BY <3>1, <1>4
      <4> QED BY <4>1, <3>1, <1>11, <1>12
    <3> QED BY <3>1, <1>3, <1>5
  <2>4. ASSUME NEW t \in Blocks
        PROVE  /\ T[t] \in TdRec /\ T[t].urb = x.td[t].urb /\ T[t].index = x.td[t].index
               /\ T[t].failed = x.td[t].failed
               /\ T[t].next = IF t \in Range(p) /\ ~gone(t) THEN first(at1(t)) ELSE x.td[t].next
    <3>1. x.td[t] \in TdRec
      BY <1>9
    <3>2. CASE t \in Range(p) /\ ~gone(t)
      <4>1. T[t] = [x.td[t] EXCEPT !.next = first(at1(t))]
        BY <3>2
      <4> HIDE DEF T
      <4> QED BY <3>1, <3>2, <4>1, <2>1, <2>2, <2>3
    <3>3. CASE ~(t \in Range(p) /\ ~gone(t))
      <4>1. T[t] = x.td[t]
        BY <3>3
      <4> HIDE DEF T
      <4> QED BY <3>1, <3>3, <4>1
    <3> QED BY <3>2, <3>3
  <2>5. T = [t \in Blocks |-> T[t]]
    OBVIOUS
  <2> HIDE DEF T
  <2>6. \A t \in Blocks : t \notin Range(q) \cap G => T[t].next = x.td[t].next
    BY <2>4, <1>3, <1>5
  <2>7. \A i \in 1..Len(q) : q[i] \in G => T[q[i]].next = first(1 + i)
    BY <2>4, <1>3, <1>4, <1>5, <1>11
  <2>8. T \in [Blocks -> TdRec]
    BY <2>4, <2>5
  <2> QED BY <2>4, <2>6, <2>7, <2>8
<1>15. /\ U \in [Urbs -> UrbRec]
       /\ \A u \in Urbs : /\ U[u].stage = x.urb[u].stage /\ U[u].del = x.urb[u].del /\ U[u].tds = x.urb[u].tds
                          /\ U[u].cnt = x.urb[u].cnt + Cardinality(Leaving(x, q, G, u))
  <2>1. \A r \in UrbRec, n \in Nat : [r EXCEPT !.cnt = n] \in UrbRec
    BY Zenon DEF UrbRec
  <2>2. \A r \in UrbRec : DOMAIN r = {"stage", "del", "tds", "cnt"}
    BY Zenon DEF UrbRec
  <2>3. \A u \in Urbs : x.urb[u].cnt + Cardinality(removed(u)) \in Nat
    <3> TAKE u \in Urbs
    <3>1. Leaving(x, q, G, u) \subseteq Blocks
      BY <1>4 DEF Leaving
    <3>2. Cardinality(Leaving(x, q, G, u)) \in Nat
      BY <3>1, BlocksFinite, FS_Subset, FS_CardinalityType
    <3> QED BY <3>2, <1>7, Parts
  <2>4. ASSUME NEW u \in Urbs
        PROVE  /\ U[u] \in UrbRec
               /\ U[u].stage = x.urb[u].stage /\ U[u].del = x.urb[u].del /\ U[u].tds = x.urb[u].tds
               /\ U[u].cnt = x.urb[u].cnt + Cardinality(removed(u))
    <3>1. x.urb[u] \in UrbRec
      BY <1>9
    <3> DEFINE n == x.urb[u].cnt + Cardinality(removed(u))
    <3>2. U[u] = [x.urb[u] EXCEPT !.cnt = n] /\ n \in Nat
      BY <2>3, <3>1
    <3>3. DOMAIN x.urb[u] = {"stage", "del", "tds", "cnt"}
      BY <2>2, <3>1
    <3> HIDE DEF n, U
    <3>4. [x.urb[u] EXCEPT !.cnt = n] \in UrbRec
      BY <2>1, <3>1, <3>2, Zenon
    <3> QED BY <3>2, <3>3, <3>4 DEF n
  <2>5. U = [u \in Urbs |-> U[u]]
    OBVIOUS
  <2> HIDE DEF U
  <2> QED BY <2>4, <2>5, <1>7
<1> HIDE DEF E, T, U, y
<1>16. y.ed = E /\ y.td = T /\ y.urb = U /\ y.pool = x.pool /\ y.list = x.list /\ y.on = x.on /\ y.rm = x.rm
       /\ y \in DD
  <2>1. E \in [Eds -> EdRec] /\ T \in [Blocks -> TdRec] /\ U \in [Urbs -> UrbRec]
    BY <1>13, <1>14, <1>15
  <2> QED BY <2>1, <1>9, <1>10 DEF DD
<1>17. ThinData(x, y, e)
  BY <1>13, <1>15, <1>16 DEF ThinData
<1>18. ThinStep(x, y, e, q, G)
  <2>1. Used(y) = Used(x)
    BY <1>13, <1>16 DEF Used
  <2>2. Linked(y) = Linked(x)
    BY <1>15, <1>16 DEF Linked
  <2>3. \A f \in Eds : y.ed[f].tail = x.ed[f].tail /\ y.ed[f].halted = x.ed[f].halted
    BY <1>13, <1>16
  <2>4. /\ \A f \in Eds \ {e} : y.ed[f].head = x.ed[f].head
        /\ y.ed[e].head = FirstIn(q, G, x.ed[e].tail, 1)
    BY <1>6, <1>13, <1>16
  <2>5. \A t \in Blocks : /\ Owner(y, t) = Owner(x, t) /\ y.td[t].index = x.td[t].index
                          /\ y.td[t].failed = x.td[t].failed
    BY <1>14, <1>16 DEF Owner
  <2>6. \A i \in 1..Len(q) : q[i] \in G => y.td[q[i]].next = FirstIn(q, G, x.ed[e].tail, 1 + i)
    <3>1. \A i \in 1..Len(q) : 1 + i \in Nat \ {0}
      OBVIOUS
    <3> QED BY <3>1, <1>6, <1>14, <1>16
  <2>7. \A t \in Blocks \ (Range(q) \cap G) : y.td[t].next = x.td[t].next
    BY <1>14, <1>16
  <2>8. \A u \in Urbs : /\ y.urb[u].tds = x.urb[u].tds
                        /\ y.urb[u].cnt = x.urb[u].cnt + Cardinality(Leaving(x, q, G, u))
    BY <1>15, <1>16
  <2> QED BY <2>1, <2>2, <2>3, <2>4, <2>5, <2>6, <2>7, <2>8, <1>16 DEF ThinStep
<1> QED
  BY <1>2, <1>8, <1>17, <1>18

-----------------------------------------------------------------------------
(* The lists of endpoints.                                                   *)

SetEd(x, e, r) == [x EXCEPT !.ed[e] = r]

(* One endpoint is changed, nothing else.                                    *)
LEMMA SetEdShape ==
    ASSUME NEW x \in DD, NEW e \in Eds, NEW r \in EdRec, NEW y, y = SetEd(x, e, r)
    PROVE  /\ y \in DD /\ y.ed[e] = r /\ \A f \in Eds \ {e} : y.ed[f] = x.ed[f]
           /\ y.td = x.td /\ y.urb = x.urb /\ y.pool = x.pool /\ y.list = x.list /\ y.on = x.on
           /\ y.rm = x.rm
<1> DEFINE E == [x.ed EXCEPT ![e] = r]
<1>1. /\ x.ed \in [Eds -> EdRec] /\ x.td \in [Blocks -> TdRec] /\ x.urb \in [Urbs -> UrbRec]
      /\ x.pool \in Pools /\ x.list \in [Kinds -> Seq(Eds)] /\ x.on \in SUBSET Kinds
      /\ x.rm \in [Frames -> Seq(Eds)]
  BY DEF DD
<1>2. E \in [Eds -> EdRec] /\ E[e] = r /\ \A f \in Eds \ {e} : E[f] = x.ed[f]
  BY <1>1
<1>3. y = [x EXCEPT !.ed = E]
  BY DEF SetEd, DD
<1> HIDE DEF E
<1> QED
  BY <1>1, <1>2, <1>3 DEF DD

(* What ep_unlink does.                                                      *)
UnlinkStep(x, y, e) ==
    /\ y \in DD /\ y.td = x.td /\ y.urb = x.urb /\ y.pool = x.pool /\ y.rm = x.rm
    /\ \A f \in Eds \ {e} : y.ed[f] = x.ed[f]
    /\ y.ed[e].state = "UNLINK" /\ ~y.ed[e].urbdel /\ y.ed[e].skip
    /\ y.ed[e].head = x.ed[e].head /\ y.ed[e].tail = x.ed[e].tail /\ y.ed[e].halted = x.ed[e].halted
    /\ \A l \in Kinds \ {Type[e]} : y.list[l] = x.list[l]
    /\ IsInjective(y.list[Type[e]]) /\ Range(y.list[Type[e]]) = Range(x.list[Type[e]]) \ {e}
    /\ \A l \in x.on : l \in y.on \/ (l # "int" /\ y.list[l] = <<>>)

(* ep_unlink takes one endpoint from its list, and stops the list when it    *)
(* was the last.                                                             *)
LEMMA EpUnlinkShape ==
    ASSUME NEW x \in DD, NEW e \in Eds, OhciAssumption,
           IsInjective(x.list[Type[e]]), e \in Range(x.list[Type[e]])
    PROVE  UnlinkStep(x, EpUnlink(x, e), e)
<1> DEFINE l == Type[e]
           y == EpUnlink(x, e)
           r == [x.ed[e] EXCEPT !.state = "UNLINK", !.urbdel = FALSE, !.skip = TRUE]
           E == [x.ed EXCEPT ![e] = r]
           s == RemoveFirst(x.list[l], e)
           L == [x.list EXCEPT ![l] = s]
           N == IF l # "int" /\ x.list[l] = <<e>> THEN x.on \ {l} ELSE x.on
<1>1. /\ x.ed \in [Eds -> EdRec] /\ x.td \in [Blocks -> TdRec] /\ x.urb \in [Urbs -> UrbRec]
      /\ x.pool \in Pools /\ x.list \in [Kinds -> Seq(Eds)] /\ x.on \in SUBSET Kinds
      /\ x.rm \in [Frames -> Seq(Eds)]
  BY DEF DD
<1>2. l \in Kinds
  BY DEF OhciAssumption, Kinds
<1>3. s \in Seq(Eds) /\ IsInjective(s) /\ Range(s) = Range(x.list[l]) \ {e}
  <2>1. x.list[l] \in Seq(Eds)
    BY <1>1, <1>2
  <2> QED BY <2>1, Dropped
<1>4. r \in EdRec /\ r.state = "UNLINK" /\ ~r.urbdel /\ r.skip
      /\ r.head = x.ed[e].head /\ r.tail = x.ed[e].tail /\ r.halted = x.ed[e].halted
  <2>1. x.ed[e] \in EdRec
    BY <1>1
  <2>2. DOMAIN x.ed[e] = {"state", "urbdel", "skip", "halted", "head", "tail"}
    BY <2>1, EdFields
  <2>3. r \in EdRec
    BY <2>1, EdChanged, Zenon
  <2> QED BY <2>2, <2>3
<1>5. y = [x EXCEPT !.ed[e].state = "UNLINK", !.ed[e].urbdel = FALSE, !.ed[e].skip = TRUE,
                    !.list[l] = s, !.on = N]
  BY DEF EpUnlink, DD
<1>6. E = [[[x.ed EXCEPT ![e].state = "UNLINK"] EXCEPT ![e].urbdel = FALSE] EXCEPT ![e].skip = TRUE]
  BY <1>1
<1> HIDE DEF s, N
<1>7. y = [x EXCEPT !.ed = E, !.list = L, !.on = N]
  <2> HIDE DEF y
  <2> QED BY <1>5, <1>6 DEF DD
<1>8. E \in [Eds -> EdRec] /\ E[e] = r /\ \A f \in Eds \ {e} : E[f] = x.ed[f]
  BY <1>1, <1>4
<1>9. L \in [Kinds -> Seq(Eds)] /\ L[l] = s /\ \A k \in Kinds \ {l} : L[k] = x.list[k]
  BY <1>1, <1>2, <1>3
<1>10. N \in SUBSET Kinds /\ \A k \in x.on : k \in N \/ (k # "int" /\ L[k] = <<>>)
  <2>1. x.list[l] = <<e>> => s = <<>>
    <3>1. x.list[l] = <<e>> => Range(x.list[l]) = {e}
      BY Single
    <3>2. x.list[l] = <<e>> => Range(s) = {}
      BY <3>1, <1>3
    <3> QED BY <3>2, <1>3, NotEmpty
  <2> HIDE DEF L
  <2> QED BY <2>1, <1>1, <1>9 DEF N
<1> HIDE DEF y, E, L, r
<1>11. y \in DD /\ y.ed = E /\ y.list = L /\ y.on = N /\ y.td = x.td /\ y.urb = x.urb
       /\ y.pool = x.pool /\ y.rm = x.rm
  <2>1. E \in [Eds -> EdRec] /\ L \in [Kinds -> Seq(Eds)] /\ N \in SUBSET Kinds
    BY <1>8, <1>9, <1>10
  <2> QED BY <2>1, <1>7, <1>1 DEF DD
<1>12. \A f \in Eds \ {e} : y.ed[f] = x.ed[f]
  BY <1>8, <1>11
<1>13. /\ y.ed[e].state = "UNLINK" /\ ~y.ed[e].urbdel /\ y.ed[e].skip
       /\ y.ed[e].head = x.ed[e].head /\ y.ed[e].tail = x.ed[e].tail /\ y.ed[e].halted = x.ed[e].halted
  BY <1>4, <1>8, <1>11
<1>14. /\ \A k \in Kinds \ {l} : y.list[k] = x.list[k]
       /\ IsInjective(y.list[l]) /\ Range(y.list[l]) = Range(x.list[l]) \ {e}
  BY <1>3, <1>9, <1>11
<1>15. \A k \in x.on : k \in y.on \/ (k # "int" /\ y.list[k] = <<>>)
  BY <1>10, <1>11
<1>16. UnlinkStep(x, y, e)
  BY <1>11, <1>12, <1>13, <1>14, <1>15 DEF UnlinkStep
<1> QED
  BY <1>16 DEF y

(* The lists hold the endpoints that are linked, each once; every list but   *)
(* the interrupt list may be stopped, one that has endpoints only while      *)
(* a removal is pending.                                                     *)
Lists(x) ==
    \A l \in Kinds :
      /\ IsInjective(x.list[l])
      /\ \A e \in Eds : e \in Range(x.list[l]) <=> Type[e] = l /\ x.ed[e].state = "OPER"

Running(x) ==
    /\ "int" \in x.on
    /\ NoneToRemove(x) => \A l \in Kinds \ {"int"} : x.list[l] # <<>> => l \in x.on

(* The lists hold what they should as long as neither they nor the states of *)
(* endpoints change.                                                         *)
LEMMA OthersListed ==
    ASSUME NEW x \in DD, NEW y \in DD, Lists(x), y.list = x.list,
           \A e \in Eds : y.ed[e].state = "OPER" <=> x.ed[e].state = "OPER"
    PROVE  Lists(y)
BY DEF Lists

(* The lists still hold what they should after ep_unlink, and run if they    *)
(* ran.                                                                      *)
LEMMA UnlinkedLists ==
    ASSUME NEW x \in DD, NEW y, NEW e \in Eds, OhciAssumption, UnlinkStep(x, y, e), Lists(x)
    PROVE  Lists(y) /\ ("int" \in x.on => "int" \in y.on) /\ (Running(x) => Running(y))
<1>1. ASSUME NEW l \in Kinds
      PROVE  /\ IsInjective(y.list[l])
             /\ \A f \in Eds : f \in Range(y.list[l]) <=> Type[f] = l /\ y.ed[f].state = "OPER"
  <2>1. /\ IsInjective(x.list[l])
        /\ \A f \in Eds : f \in Range(x.list[l]) <=> Type[f] = l /\ x.ed[f].state = "OPER"
    BY DEF Lists
  <2>2. \A f \in Eds : y.ed[f].state = "OPER" <=> f # e /\ x.ed[f].state = "OPER"
    BY DEF UnlinkStep
  <2>3. CASE l = Type[e]
    <3>1. IsInjective(y.list[l]) /\ Range(y.list[l]) = Range(x.list[l]) \ {e}
      BY <2>3 DEF UnlinkStep
    <3> QED BY <2>1, <2>2, <3>1
  <2>4. CASE l # Type[e]
    <3>1. y.list[l] = x.list[l]
      BY <2>4 DEF UnlinkStep
    <3> QED BY <2>1, <2>2, <2>4, <3>1
  <2> QED BY <2>3, <2>4
<1>2. "int" \in x.on => "int" \in y.on
  BY DEF UnlinkStep
<1>3. ASSUME Running(x) PROVE Running(y)
  <2>1. "int" \in y.on
    BY <1>2, <1>3 DEF Running
  <2>2. ASSUME NoneToRemove(y), NEW l \in Kinds \ {"int"}, y.list[l] # <<>> PROVE l \in y.on
    <3>1. NoneToRemove(x)
      BY <2>2 DEF NoneToRemove, UnlinkStep
    <3>2. x.list[l] # <<>>
      <4>1. CASE l # Type[e]
        BY <2>2, <4>1 DEF UnlinkStep
      <4>2. CASE l = Type[e]
        <5>1. y.list[l] \in Seq(Eds) /\ x.list[l] \in Seq(Eds)
          BY DEF UnlinkStep, DD
        <5>2. Range(y.list[l]) # {}
          <6> DEFINE s == y.list[l]
          <6>1. s \in Seq(Eds) /\ s # <<>>
            BY <5>1, <2>2
          <6> HIDE DEF s
          <6>2. Range(s) # {}
            BY <6>1, NotEmpty
          <6> QED BY <6>2 DEF s
        <5>3. Range(x.list[l]) # {}
          BY <5>2, <4>2 DEF UnlinkStep
        <5> QED BY <5>1, <5>3, EmptyRange
      <4> QED BY <4>1, <4>2
    <3>3. l \in x.on
      BY <1>3, <3>1, <3>2 DEF Running
    <3> QED BY <3>3, <2>2 DEF UnlinkStep
  <2> QED BY <2>1, <2>2 DEF Running
<1> QED
  BY <1>1, <1>2, <1>3 DEF Lists

-----------------------------------------------------------------------------
(* An endpoint is taken off the removal list.                                *)

(* What it leaves of the endpoint and of the lists.                          *)
Left(x, y, e) ==
    /\ y \in DD /\ y.rm = x.rm
    /\ \A f \in Eds \ {e} : y.ed[f] = x.ed[f]
    /\ ~y.ed[e].urbdel /\ y.ed[e].state # "DEL" /\ (y.ed[e].state = "OPER" => ~y.ed[e].skip)
    /\ \A u \in Urbs : y.urb[u].stage = "filling" => x.urb[u].stage = "filling"
    /\ Lists(y) /\ ("int" \in x.on => "int" \in y.on)

(* And of the TDs: the owners of those that are done are what they were.     *)
Kept(x, y, R, D, dead) ==
    /\ Tds(y, R, D, dead) /\ \A t \in D : Owner(y, t) = Owner(x, t)

(* An endpoint that is freed is new and has no removal to come.              *)
LEMMA NewEdRec == NewEd \in EdRec /\ NewEd.state = "NEW" /\ NewEd.urbdel = FALSE
BY DEF NewEd, EdRec

(* The dummy TD of an endpoint is freed, and the endpoint with it.           *)
TailFreed(z, y, e, t) ==
    /\ y \in DD /\ y.ed[e] = NewEd /\ (\A f \in Eds \ {e} : y.ed[f] = z.ed[f])
    /\ y.urb = z.urb /\ y.list = z.list /\ y.on = z.on /\ y.rm = z.rm
    /\ y.td[t] = NewTd /\ \A s \in Blocks \ {t} : y.td[s] = z.td[s]
    /\ InUse(y.pool) = InUse(z.pool) \ {t}

(* Freeing an endpoint with its dummy TD changes nothing but these.          *)
LEMMA TailFreedShape ==
    ASSUME NEW z \in DD, NEW e \in Eds, NEW t \in Blocks, NEW a, a = FreeTds(z, {t}),
           NEW y, y = SetEd(a, e, NewEd)
    PROVE  TailFreed(z, y, e, t)
<1>1. /\ a \in DD /\ a.ed = z.ed /\ a.urb = z.urb /\ a.list = z.list /\ a.on = z.on /\ a.rm = z.rm
      /\ a.td[t] = NewTd /\ (\A s \in Blocks \ {t} : a.td[s] = z.td[s])
      /\ InUse(a.pool) = InUse(z.pool) \ {t}
  <2> DEFINE T == {t}
  <2>1. T \in SUBSET Blocks /\ a = FreeTds(z, T) /\ t \in T /\ \A s \in Blocks \ {t} : s \notin T
    OBVIOUS
  <2> HIDE DEF T
  <2>2. /\ a \in DD /\ a.ed = z.ed /\ a.urb = z.urb /\ a.list = z.list /\ a.on = z.on /\ a.rm = z.rm
        /\ \A s \in Blocks : a.td[s] = IF s \in T THEN NewTd ELSE z.td[s]
        /\ InUse(a.pool) = InUse(z.pool) \ T
    BY <2>1, FreeTdsShape
  <2> QED BY <2>1, <2>2 DEF T
<1>2. a \in DD /\ NewEd \in EdRec
  BY <1>1, NewEdRec
<1>3. y \in DD /\ y.ed[e] = NewEd
  BY <1>2, SetEdShape
<1>5. \A f \in Eds \ {e} : y.ed[f] = a.ed[f]
  BY <1>2, SetEdShape
<1>4. /\ y.td = a.td /\ y.urb = a.urb /\ y.pool = a.pool /\ y.list = a.list /\ y.on = a.on
      /\ y.rm = a.rm
  BY <1>2, SetEdShape
<1> QED
  BY <1>1, <1>3, <1>4, <1>5 DEF TailFreed

(* The end of dl_del_list at one endpoint leaves the others alone and keeps  *)
(* all that is known of TDs.                                                 *)
LEMMA DelEnded ==
    ASSUME NEW x \in DD, NEW z \in DD, NEW e \in Used(x), OhciAssumption, NEW some,
           NEW R, NEW D, NEW dead, Tds(z, R, D, dead), Lists(z),
           z.ed[e].state = x.ed[e].state, z.ed[e].tail = x.ed[e].tail,
           x.ed[e].state = "DEL" => R[e] = <<>>, \A t \in D : Ep[Owner(z, t)] # e,
           NEW y, y = DelEnd(x, z, e, some)
    PROVE  /\ Left(z, y, e) /\ Kept(z, y, R, D, dead)
           /\ \A F \in SUBSET D : Halts(z, R, F) => Halts(y, R, F)
           /\ \A S : Owing(z, S, dead) => Owing(y, S, dead)
<1>1. e \in Eds /\ x.ed[e].state # "NEW"
  BY DEF Used
<1>2. /\ z.ed[e] \in EdRec
      /\ DOMAIN z.ed[e] = {"state", "urbdel", "skip", "halted", "head", "tail"}
      /\ z.ed[e].state \in {"NEW", "UNLINK", "OPER", "DEL"}
  <2>1. z.ed[e] \in EdRec
    BY <1>1, Parts
  <2> QED BY <2>1, EdFields
<1>3. CASE x.ed[e].state = "DEL"
  <2> DEFINE t == x.ed[e].tail
          a == FreeTds(z, {t})
  <2>1. y = SetEd(a, e, NewEd)
    BY <1>3 DEF DelEnd, SetEd
  <2>2. e \in Used(z)
    BY <1>1 DEF Used
  <2>3. t \in InUse(z.pool) /\ t = z.ed[e].tail
    BY <2>2 DEF Tds, Dummies
  <2>4. t \in Blocks
    BY <2>3 DEF InUse
  <2>5. a = FreeTds(z, {t})
    OBVIOUS
  <2> HIDE DEF t, a
  <2>6. TailFreed(z, y, e, t)
    BY <2>1, <2>4, <2>5, <1>1, TailFreedShape
  <2>7. Used(y) = Used(z) \ {e}
    BY <2>6, <1>1, NewEdRec DEF Used, TailFreed
  <2>8. /\ y \in DD /\ R[e] = <<>>
        /\ InUse(y.pool) = InUse(z.pool) \ {z.ed[e].tail}
        /\ \A s \in Blocks \ {z.ed[e].tail} : y.td[s] = z.td[s]
        /\ y.td[z.ed[e].tail] = NewTd /\ (\A f \in Eds \ {e} : y.ed[f] = z.ed[f])
        /\ y.urb = z.urb
    BY <2>3, <2>6, <1>3 DEF TailFreed
  <2>10. /\ Tds(y, R, D, dead)
         /\ \A s \in D : Owner(y, s) = Owner(z, s)
         /\ \A F \in SUBSET D : Halts(z, R, F) => Halts(y, R, F)
         /\ \A S : Owing(z, S, dead) => Owing(y, S, dead)
    <3> DEFINE b == z.ed[e].tail
    <3>1. /\ InUse(y.pool) = InUse(z.pool) \ {b} /\ y.td[b] = NewTd
          /\ \A s \in Blocks \ {b} : y.td[s] = z.td[s]
      BY <2>8, Zenon
    <3>2. y \in DD /\ R[e] = <<>> /\ (\A f \in Eds \ {e} : y.ed[f] = z.ed[f]) /\ y.urb = z.urb
      BY <2>8, Zenon
    <3> QED BY <2>2, <2>7, <3>1, <3>2, Departed, SMTT(60)
  <2>11. Lists(y)
    <3>1. \A f \in Eds : y.ed[f].state = "OPER" <=> z.ed[f].state = "OPER"
      BY <2>6, <1>3, NewEdRec DEF TailFreed
    <3>2. y \in DD /\ y.list = z.list
      BY <2>6 DEF TailFreed
    <3> QED BY <3>1, <3>2, OthersListed
  <2>12. Left(z, y, e)
    BY <2>6, <2>11, NewEdRec DEF Left, TailFreed
  <2> QED BY <2>10, <2>12 DEF Kept
<1>4. CASE x.ed[e].state # "DEL"
  <2> DEFINE r == [z.ed[e] EXCEPT !.urbdel = FALSE]
             w == SetEd(z, e, r)
  <2>1. y = IF some THEN [w EXCEPT !.ed[e].skip = FALSE]
            ELSE IF w.ed[e].state = "OPER" THEN EpUnlink(w, e) ELSE w
    <3>1. w = [z EXCEPT !.ed[e].urbdel = FALSE]
      BY DEF SetEd, DD
    <3> HIDE DEF w
    <3> QED BY <3>1, <1>4 DEF DelEnd
  <2>2. /\ r \in EdRec /\ r.urbdel = FALSE /\ r.state = z.ed[e].state /\ r.head = z.ed[e].head
        /\ r.tail = z.ed[e].tail /\ r.halted = z.ed[e].halted
    <3>1. r \in EdRec
      BY <1>2, EdChanged, Zenon
    <3> QED BY <3>1, <1>2
  <2> HIDE DEF r
  <2>3. /\ w \in DD /\ w.ed[e] = r /\ \A f \in Eds \ {e} : w.ed[f] = z.ed[f]
        /\ w.td = z.td /\ w.urb = z.urb /\ w.pool = z.pool /\ w.list = z.list /\ w.on = z.on
        /\ w.rm = z.rm
    BY <2>2, <1>1, SetEdShape
  <2> HIDE DEF w
  <2>4. Lists(w)
    <3>1. \A f \in Eds : w.ed[f].state = "OPER" <=> z.ed[f].state = "OPER"
      BY <2>2, <2>3
    <3> QED BY <3>1, <2>3, OthersListed
  (* In each case the TDs are left alone.                                    *)
  <2>5. /\ Left(z, y, e) /\ y.td = z.td /\ y.urb = z.urb /\ y.pool = z.pool
        /\ y.ed[e].head = z.ed[e].head /\ y.ed[e].tail = z.ed[e].tail
        /\ y.ed[e].halted = z.ed[e].halted /\ y.ed[e].state # "NEW"
    <3>1. CASE some
      <4> DEFINE c == [r EXCEPT !.skip = FALSE]
      <4>1. y = SetEd(w, e, c)
        <5>1. y = [w EXCEPT !.ed[e].skip = FALSE]
          BY <2>1, <3>1
        <5> QED BY <5>1, <2>3 DEF SetEd, DD
      <4>2. /\ c \in EdRec /\ c.skip = FALSE /\ c.urbdel = FALSE /\ c.state = r.state /\ c.head = r.head
            /\ c.tail = r.tail /\ c.halted = r.halted
        <5>1. c \in EdRec
          BY <2>2, EdChanged, Zenon
        <5>2. DOMAIN r = {"state", "urbdel", "skip", "halted", "head", "tail"}
          BY <2>2, EdFields
        <5> QED BY <5>1, <5>2, <2>2
      <4> HIDE DEF c
      <4>3. /\ y \in DD /\ y.ed[e] = c /\ \A f \in Eds \ {e} : y.ed[f] = w.ed[f]
            /\ y.td = w.td /\ y.urb = w.urb /\ y.pool = w.pool /\ y.list = w.list /\ y.on = w.on
            /\ y.rm = w.rm
        BY <4>1, <4>2, <2>3, <1>1, SetEdShape
      <4>4. Lists(y)
        <5>1. \A f \in Eds : y.ed[f].state = "OPER" <=> w.ed[f].state = "OPER"
          BY <4>2, <4>3, <2>3
        <5>2. w \in DD /\ y \in DD /\ y.list = w.list
          BY <4>3, <2>3
        <5> QED BY <5>1, <5>2, <2>4, OthersListed
      <4>5. Left(z, y, e)
        BY <4>2, <4>3, <4>4, <2>2, <2>3, <1>4 DEF Left
      <4> QED BY <4>2, <4>3, <4>5, <2>2, <2>3, <1>1
    <3>2. CASE ~some /\ r.state = "OPER"
      <4>1. y = EpUnlink(w, e)
        BY <2>1, <2>3, <3>2
      <4>2. IsInjective(w.list[Type[e]]) /\ e \in Range(w.list[Type[e]])
        <5>1. Type[e] \in Kinds
          BY <1>1 DEF OhciAssumption, Kinds
        <5> QED BY <5>1, <2>3, <2>4, <3>2, <1>1 DEF Lists
      <4>3. UnlinkStep(w, y, e)
        BY <4>1, <4>2, <2>3, <1>1, EpUnlinkShape
      <4>4. Lists(y) /\ ("int" \in w.on => "int" \in y.on)
        BY <4>3, <2>3, <2>4, <1>1, UnlinkedLists
      <4>5. Left(z, y, e)
        BY <4>3, <4>4, <2>3 DEF Left, UnlinkStep
      <4> QED BY <4>3, <4>5, <2>2, <2>3 DEF UnlinkStep
    <3>3. CASE ~some /\ r.state # "OPER"
      <4>1. y = w
        BY <2>1, <2>3, <3>3
      <4>2. Left(z, y, e)
        BY <4>1, <2>2, <2>3, <2>4, <3>3, <1>4 DEF Left
      <4> QED BY <4>1, <4>2, <2>2, <2>3, <1>1
    <3> QED BY <3>1, <3>2, <3>3
  <2>6. y \in DD /\ \A f \in Eds \ {e} : y.ed[f] = z.ed[f]
    BY <2>5 DEF Left
  <2>7. \A f \in Eds : f \in Used(y) <=> f \in Used(z)
    BY <2>5, <2>6, <1>1 DEF Used
  <2>8. \A f \in Used(z) : y.ed[f].head = z.ed[f].head /\ y.ed[f].tail = z.ed[f].tail
                           /\ y.ed[f].halted = z.ed[f].halted
    BY <2>5, <2>6 DEF Used
  <2>9. \A u \in Urbs : u \in Linked(y) <=> u \in Linked(z)
    BY <2>5 DEF Linked
  <2>10. \A u \in Urbs : y.urb[u].cnt <= Size[u]
    BY <2>5 DEF Tds, Counted
  <2>11. /\ Tds(y, R, D, dead)
         /\ \A F \in SUBSET D : Halts(z, R, F) => Halts(y, R, F)
         /\ \A S : Owing(z, S, dead) => Owing(y, S, dead)
    BY <2>5, <2>6, <2>7, <2>8, <2>9, <2>10, Untouched
  <2>12. \A t \in D : Owner(y, t) = Owner(z, t)
    BY <2>5 DEF Owner
  <2> QED BY <2>5, <2>11, <2>12 DEF Kept
<1> QED
  BY <1>3, <1>4

(* Requests with TDs on e that leave with its removal: those given back have *)
(* none left, the others still have some.                                    *)
LEMMA BackDone ==
    ASSUME NEW x \in DD, NEW y \in DD, NEW Q, NEW R, NEW D, NEW dead, OhciAssumption,
           Queues(x, Q), Belongs(x), Tds(y, R, D, dead), Owing(x, {}, dead),
           NEW e \in Used(x), NEW G, ThinStep(x, y, e, Q[e], G),
           NEW S, S = Back(x, Q[e], G)
    PROVE  /\ S \subseteq Linked(y) /\ \A u \in S : Pending(y, R, D, u) = {}
           /\ Owing(y, S, dead)
<1>1. \A u \in Urbs : y.urb[u].cnt = x.urb[u].cnt + Cardinality(Leaving(x, Q[e], G, u))
  BY DEF ThinStep
<1>2. Linked(y) = Linked(x) /\ Linked(x) \subseteq Urbs /\ e \in Eds
  BY DEF ThinStep, Linked, Used
<1>3. Counted(y, R, D, dead) /\ Queues(y, R) /\ Out(y, R, D)
  BY DEF Tds
<1>4. S \subseteq Linked(y)
  <2> SUFFICES ASSUME NEW u \in S PROVE u \in Linked(x)
    BY <1>2
  <2>1. u \in Urbs /\ Leaving(x, Q[e], G, u) # {}
    BY DEF Back
  <2>2. PICK t \in Range(Q[e]) : Owner(x, t) = u
    BY <2>1 DEF Leaving
  <2>3. t \in Blocks
    <3>1. t \in Coming(Q)
      BY <1>2 DEF Coming
    <3> QED BY <3>1, ComingTd
  <2>4. Nil \notin Urbs
    BY DEF OhciAssumption
  <2> QED BY <2>1, <2>2, <2>3, <2>4 DEF Belongs
<1>5. ASSUME NEW u \in S PROVE Pending(y, R, D, u) = {}
  <2> DEFINE n == Cardinality(Pending(y, R, D, u))
             c == y.urb[u].cnt
  <2>1. u \in Urbs /\ u \in Linked(y)
    BY <1>4, <1>2
  <2>2. c = Size[u]
    BY <1>1, <2>1 DEF Back
  <2>3. c + n <= Size[u]
    BY <1>3, <2>1 DEF Counted
  <2>4. n \in Nat /\ (n = 0 <=> Pending(y, R, D, u) = {})
    BY <1>3, PendingFinite
  <2>5. Size[u] \in Nat
    BY <2>1 DEF OhciAssumption
  <2> HIDE DEF n, c
  <2> QED BY <2>2, <2>3, <2>4, <2>5
<1>6. ASSUME ~dead, NEW u \in Linked(y) \ S PROVE y.urb[u].cnt < Size[u]
  <2>1. u \in Urbs /\ u \in Linked(x)
    BY <1>2
  <2>2. y.urb[u].cnt <= Size[u] /\ Size[u] \in Nat /\ y.urb[u].cnt \in Nat /\ x.urb[u].cnt \in Nat
    BY <1>3, <2>1, Parts DEF Counted, OhciAssumption
  <2>3. CASE Leaving(x, Q[e], G, u) = {}
    <3>1. x.urb[u].cnt < Size[u]
      BY <1>6, <2>1 DEF Owing
    <3>2. Cardinality(Leaving(x, Q[e], G, u)) = 0
      BY <2>3, FS_EmptySet
    <3> QED BY <1>1, <2>1, <2>2, <3>1, <3>2
  <2>4. CASE Leaving(x, Q[e], G, u) # {}
    <3>1. x.urb[u].cnt + Cardinality(Leaving(x, Q[e], G, u)) # Size[u]
      BY <2>4, <2>1, <1>6 DEF Back
    <3> QED BY <1>1, <2>1, <2>2, <3>1
  <2> QED BY <2>3, <2>4
<1> QED
  BY <1>4, <1>5, <1>6 DEF Owing

(* dl_del_list, for one endpoint.                                            *)
LEMMA Deleted ==
    ASSUME NEW x \in DD, NEW Q, NEW D, NEW dead, OhciAssumption, Tds(x, Q, D, dead), Owing(x, {}, dead),
           Lists(x), NEW e \in Used(x), \A t \in D : Ep[Owner(x, t)] # e,
           NEW y, y = DelEd(x, e)
    PROVE  /\ Left(x, y, e)
           /\ \E R : /\ Kept(x, y, R, D, dead) /\ Owing(y, {}, dead)
                     /\ \A F \in SUBSET D : Halts(x, Q, F) => Halts(y, R, F)
<1> DEFINE q == Q[e]
           G == Stay(x, e)
           tail == x.ed[e].tail
<1>1. /\ Queues(x, Q) /\ Belongs(x) /\ Dummies(x)
      /\ e \in Eds /\ x.ed[e].state # "NEW"
  BY DEF Tds, Used
<1>2. Path(x, e, q)
  BY <1>1 DEF Queues
<1>3. q \in Seq(Blocks) /\ IsInjective(q) /\ tail \in Blocks
  BY <1>2 DEF Path, Chained
<1>4. q = Queue(x, e)
  BY <1>2, PathIsQueue
<1> HIDE DEF q, G
<1>5. PICK a, some : /\ DelEd(x, e) = DelEnd(x, GiveBack(a, Back(x, q, G)), e, some)
                     /\ ThinData(x, a, e)
                     /\ ThinStep(x, a, e, q, G)
  BY <1>1, <1>3, <1>4, DelEdParts DEF G
<1> HIDE DEF tail
<1>6. PICK r \in Seq(Blocks) : Thin(q, G, tail, r)
  BY <1>3, Filtered
<1>7. ByOwner(x, q, G)
  <2> SUFFICES ASSUME NEW s \in Range(q), NEW t \in Range(q), Owner(x, s) = Owner(x, t), t \in G
               PROVE  s \in G
    BY DEF ByOwner
  <2>1. s \in Blocks
    BY <1>3, NotEmpty
  <2> QED BY <2>1 DEF G, Stay, Owner
<1> DEFINE R == Put(Q, e, r)
           S == Back(x, q, G)
           z == GiveBack(a, S)
<1>8. a \in DD
  BY <1>5 DEF ThinData
<1>9. R = Put(Q, e, r) /\ Thin(Q[e], G, x.ed[e].tail, r) /\ ThinStep(x, a, e, Q[e], G) /\ ByOwner(x, Q[e], G)
  BY <1>5, <1>6, <1>7 DEF q, tail
<1> HIDE DEF R
<1>10. Tds(a, R, D, dead) /\ R[e] = r
  <2>1. Tds(a, R, D, dead)
    BY <1>8, <1>9, Thinned
  <2>2. R[e] = r
    BY <1>1, <1>9 DEF Put, Queues
  <2> QED BY <2>1, <2>2
<1>11. \A t \in D : Owner(a, t) = Owner(x, t)
  <2>1. D \subseteq Blocks
    BY DEF Tds, Out
  <2> QED BY <2>1, <1>9 DEF ThinStep
<1>12. \A F \in SUBSET D : Halts(x, Q, F) => Halts(a, R, F)
  BY <1>8, <1>9, Thinned
<1>13. S = Back(x, Q[e], G)
  BY DEF q
<1> HIDE DEF S
<1>14. S \subseteq Linked(a) /\ (\A u \in S : Pending(a, R, D, u) = {}) /\ Owing(a, S, dead)
  BY <1>1, <1>8, <1>9, <1>10, <1>13, BackDone, ZenonT(30)
<1>15. z = GiveBack(a, S)
  OBVIOUS
<1> HIDE DEF z
<1>16. z \in DD /\ z.ed = a.ed /\ z.list = a.list /\ z.on = a.on /\ z.rm = a.rm
  BY <1>8, <1>10, <1>14, <1>15, Released, SMTT(30)
<1>17. \A u \in Urbs : z.urb[u] = IF u \in S THEN NewUrb ELSE a.urb[u]
  <2> TAKE u \in Urbs
  <2> QED BY <1>8, <1>10, <1>14, <1>15, Released, SMTT(30)
<1>18. Tds(z, R, D, dead)
  BY <1>8, <1>10, <1>14, <1>15, Released, SMTT(30)
<1>19. \A t \in D : Owner(z, t) = Owner(a, t)
  BY <1>8, <1>10, <1>14, <1>15, Released, SMTT(30)
<1>20. \A F \in SUBSET D : Halts(a, R, F) => Halts(z, R, F)
  BY <1>8, <1>10, <1>14, <1>15, Released, SMTT(30)
<1>21. Owing(z, {}, dead)
  <2>1. \A W : Owing(a, W \cup S, dead) => Owing(z, W, dead)
    BY <1>8, <1>10, <1>14, <1>15, Released, SMTT(30)
  <2>2. {} \cup S = S
    OBVIOUS
  <2>3. Owing(a, {} \cup S, dead)
    BY <1>14, <2>2
  <2> QED BY <2>1, <2>3
<1>22. Lists(z)
  <2>1. \A f \in Eds : z.ed[f].state = "OPER" <=> x.ed[f].state = "OPER"
    BY <1>5, <1>16, SMTT(30) DEF ThinData
  <2>2. z.list = x.list
    BY <1>5, <1>16 DEF ThinData
  <2> QED BY <2>1, <2>2, <1>16, OthersListed
<1>23. z.ed[e].state = x.ed[e].state /\ z.ed[e].tail = x.ed[e].tail
  BY <1>5, <1>16 DEF ThinData
<1>24. x.ed[e].state = "DEL" => R[e] = <<>>
  <2> SUFFICES ASSUME x.ed[e].state = "DEL" PROVE r = <<>>
    BY <1>10
  <2>1. G = {}
    BY DEF G, Stay
  <2>2. Range(r) = {}
    BY <2>1, <1>6 DEF Thin
  <2> QED BY <2>2, NotEmpty
<1>25. \A t \in D : Ep[Owner(z, t)] # e
  BY <1>11, <1>19
<1>26. y = DelEnd(x, z, e, some)
  BY <1>5, <1>15 DEF S
<1>27. Left(z, y, e)
  BY <1>16, <1>18, <1>22, <1>23, <1>24, <1>25, <1>26, DelEnded
<1>28. Kept(z, y, R, D, dead)
  BY <1>16, <1>18, <1>22, <1>23, <1>24, <1>25, <1>26, DelEnded
<1>29. \A F \in SUBSET D : Halts(z, R, F) => Halts(y, R, F)
  BY <1>16, <1>18, <1>22, <1>23, <1>24, <1>25, <1>26, DelEnded
<1>30. Owing(y, {}, dead)
  BY <1>16, <1>18, <1>21, <1>22, <1>23, <1>24, <1>25, <1>26, DelEnded, ZenonT(30)
<1>31. Left(x, y, e)
  <2>1. \A u \in Urbs : z.urb[u].stage = "filling" => x.urb[u].stage = "filling"
    BY <1>5, <1>17, TdRecords DEF ThinData
  <2>2. z.rm = x.rm /\ z.on = x.on /\ \A f \in Eds \ {e} : z.ed[f] = x.ed[f]
    BY <1>5, <1>16 DEF ThinData
  <2> QED BY <1>27, <2>1, <2>2 DEF Left
<1>32. Kept(x, y, R, D, dead)
  BY <1>11, <1>19, <1>28 DEF Kept
<1>33. \A F \in SUBSET D : Halts(x, Q, F) => Halts(y, R, F)
  BY <1>12, <1>20, <1>29, Zenon
<1> QED
  BY <1>30, <1>31, <1>32, <1>33, Zenon

(* The endpoints of S have been taken off the removal list.                  *)
LeftAll(x, y, S) ==
    /\ y \in DD /\ y.rm = x.rm
    /\ \A f \in Eds \ S : y.ed[f] = x.ed[f]
    /\ \A e \in S : ~y.ed[e].urbdel /\ y.ed[e].state # "DEL" /\ (y.ed[e].state = "OPER" => ~y.ed[e].skip)
    /\ \A u \in Urbs : y.urb[u].stage = "filling" => x.urb[u].stage = "filling"
    /\ Lists(y) /\ ("int" \in x.on => "int" \in y.on)

KeptAll(x, Q, y, D, dead, F) ==
    \E R : Kept(x, y, R, D, dead) /\ Owing(y, {}, dead) /\ (Halts(x, Q, F) => Halts(y, R, F))

(* One more endpoint handled leaves those not yet handled as they were.      *)
LEMMA LeftNext ==
    ASSUME NEW x, NEW y, NEW z, NEW S, S \subseteq Eds, NEW e \in Eds \ S, LeftAll(x, y, S), Left(y, z, e)
    PROVE  LeftAll(x, z, S \cup {e})
<1>1. /\ z \in DD /\ z.rm = x.rm /\ Lists(z) /\ ("int" \in x.on => "int" \in z.on)
  BY DEF LeftAll, Left
<1>2. \A f \in Eds \ (S \cup {e}) : z.ed[f] = x.ed[f]
  BY DEF LeftAll, Left
<1>3. \A f \in S : z.ed[f] = y.ed[f]
  BY DEF Left
<1>4. \A f \in S \cup {e} : ~z.ed[f].urbdel /\ z.ed[f].state # "DEL" /\ (z.ed[f].state = "OPER" => ~z.ed[f].skip)
  BY <1>3 DEF LeftAll, Left
<1>5. \A u \in Urbs : z.urb[u].stage = "filling" => x.urb[u].stage = "filling"
  BY DEF LeftAll, Left
<1> QED
  BY <1>1, <1>2, <1>4, <1>5 DEF LeftAll

(* dl_del_list at one more endpoint keeps what held after those before.      *)
LEMMA DeletedNext ==
    ASSUME NEW x \in DD, NEW Q, NEW y, NEW z, NEW D, NEW dead, OhciAssumption, Tds(x, Q, D, dead),
           NEW F \in SUBSET D, NEW S, S \subseteq Eds, NEW e \in Used(x) \ S, \A t \in D : Ep[Owner(x, t)] # e,
           LeftAll(x, y, S), KeptAll(x, Q, y, D, dead, F), z = DelEd(y, e)
    PROVE  LeftAll(x, z, S \cup {e}) /\ KeptAll(x, Q, z, D, dead, F)
<1>1. e \in Eds \ S
  BY DEF Used
<1>2. y \in DD /\ Lists(y) /\ y.ed[e] = x.ed[e]
  BY <1>1 DEF LeftAll
<1>3. e \in Used(y)
  BY <1>1, <1>2 DEF Used
<1>4. PICK R : Kept(x, y, R, D, dead) /\ Owing(y, {}, dead) /\ (Halts(x, Q, F) => Halts(y, R, F))
  BY DEF KeptAll
<1>5. Tds(y, R, D, dead) /\ \A t \in D : Ep[Owner(y, t)] # e
  BY <1>4 DEF Kept
<1>6. /\ Left(y, z, e)
      /\ \E P : /\ Kept(y, z, P, D, dead) /\ Owing(z, {}, dead)
                /\ \A G \in SUBSET D : Halts(y, R, G) => Halts(z, P, G)
  BY <1>2, <1>3, <1>4, <1>5, Deleted
<1>7. LeftAll(x, z, S \cup {e})
  BY <1>1, <1>6, LeftNext
<1>8. PICK P : /\ Kept(y, z, P, D, dead) /\ Owing(z, {}, dead)
               /\ \A G \in SUBSET D : Halts(y, R, G) => Halts(z, P, G)
  BY <1>6
<1>9. Kept(x, z, P, D, dead)
  BY <1>4, <1>8 DEF Kept
<1>10. Halts(x, Q, F) => Halts(z, P, F)
  BY <1>4, <1>8
<1>11. KeptAll(x, Q, z, D, dead, F)
  BY <1>8, <1>9, <1>10 DEF KeptAll
<1> QED
  BY <1>7, <1>11

(* dl_del_list, for all the endpoints of a removal list.                     *)
LEMMA DeletedAll ==
    ASSUME NEW x \in DD, NEW Q, NEW D, NEW dead, OhciAssumption, Tds(x, Q, D, dead), Owing(x, {}, dead),
           Lists(x), NEW s \in Seq(Eds), IsInjective(s), Range(s) \subseteq Used(x),
           \A t \in D : Ep[Owner(x, t)] \notin Range(s), NEW F \in SUBSET D, NEW y, y = DelEds(x, s)
    PROVE  LeftAll(x, y, Range(s)) /\ KeptAll(x, Q, y, D, dead, F)
<1> DEFINE N == Len(s)
           Before(n) == {s[i] : i \in 1..n}
<1>1. N \in Nat /\ (\A i \in 1..N : s[i] \in Range(s))
      /\ (\A i, j \in 1..N : s[i] = s[j] => i = j)
      /\ (\A t : t \in Range(s) => \E i \in 1..N : s[i] = t)
  BY NotEmpty
<1>2. PICK f : f[0] = x /\ (\A n \in 1..N : f[n] = DelEd(f[n - 1], s[n])) /\ y = f[N]
  BY <1>1, DelEdsSteps
<1> DEFINE OK(n) == LeftAll(x, f[n], Before(n)) /\ KeptAll(x, Q, f[n], D, dead, F)
           A == {n \in 0..N : OK(n)}
<1>3. 0 \in A
  <2>1. Before(0) = {}
    OBVIOUS
  <2>2. LeftAll(x, x, {})
    BY DEF LeftAll
  <2>3. KeptAll(x, Q, x, D, dead, F)
    BY DEF KeptAll, Kept
  <2> HIDE DEF Before
  <2>4. OK(0)
    BY <1>2, <2>1, <2>2, <2>3
  <2>5. 0 \in 0..N
    BY <1>1
  <2> HIDE DEF OK, N
  <2> QED BY <2>4, <2>5
<1>4. ASSUME NEW n \in 0..(N - 1), n \in A PROVE n + 1 \in A
  <2>1. n + 1 \in 1..N /\ n + 1 \in 0..N /\ (n + 1) - 1 = n
    BY <1>1
  <2> DEFINE e == s[n + 1]
             S == Before(n)
             z == f[n]
             w == f[n + 1]
  <2>2. e \in Range(s) /\ S \subseteq Range(s) /\ e \notin S
    BY <2>1, <1>1
  <2>3. Before(n + 1) = S \cup {e}
    BY <2>1, <1>1
  <2>4. w = DelEd(z, e)
    BY <2>1, <1>2
  <2> HIDE DEF Before, S
  <2>5. LeftAll(x, z, S) /\ KeptAll(x, Q, z, D, dead, F)
    BY <1>4 DEF S
  <2>6. Used(x) \subseteq Eds
    BY DEF Used
  <2>7. S \subseteq Eds /\ e \in Used(x) \ S /\ \A t \in D : Ep[Owner(x, t)] # e
    BY <2>2, <2>6
  <2> HIDE DEF e, z, w
  <2>8. LeftAll(x, w, S \cup {e}) /\ KeptAll(x, Q, w, D, dead, F)
    BY <2>4, <2>5, <2>7, DeletedNext
  <2>9. OK(n + 1)
    BY <2>3, <2>8 DEF w
  <2> QED BY <2>1, <2>9
<1>5. 0..N \subseteq A
  <2> HIDE DEF A, N
  <2> QED BY <1>1, <1>3, <1>4, BoundedInduction
<1>6. OK(N)
  <2> HIDE DEF OK
  <2> QED BY <1>1, <1>5
<1>7. Before(N) = Range(s)
  BY <1>1
<1> HIDE DEF Before
<1> QED
  BY <1>2, <1>6, <1>7

-----------------------------------------------------------------------------
(* A request is queued.                                                      *)

(* What FillTds leaves as it is.                                             *)
FillRest(x, y, u, e) ==
    /\ y \in DD /\ y.list = x.list /\ y.on = x.on /\ y.rm = x.rm
    /\ \A f \in Eds \ {e} : y.ed[f] = x.ed[f]
    /\ y.ed[e].state = x.ed[e].state /\ y.ed[e].urbdel = x.ed[e].urbdel /\ y.ed[e].skip = x.ed[e].skip
    /\ y.urb[u].del = x.urb[u].del

(* The new TDs of a request, and what becomes of the table of TDs.           *)
FilledTd(td, u, new, w) ==
    [t \in Blocks |->
        IF \E i \in DOMAIN w : w[i] = t
        THEN LET i == CHOOSE i \in DOMAIN w : w[i] = t
             IN  [urb |-> u, index |-> i - 1, failed |-> FALSE, next |-> new[i]]
        ELSE IF t = Last(new) THEN NewTd ELSE td[t]]

IsFilledTd(td, T, u, new, w) ==
    /\ T \in [Blocks -> TdRec] /\ T[Last(new)] = NewTd
    /\ \A i \in 1..Len(w) : /\ T[w[i]].urb = u /\ T[w[i]].index = i - 1
                            /\ T[w[i]].next = new[i] /\ T[w[i]].failed = FALSE
    /\ \A t \in Blocks \ (Range(w) \cup {Last(new)}) : T[t] = td[t]

(* The TDs a submit fills are linked in order: each td_fill writes into the  *)
(* old dummy and leaves a new dummy behind it.                               *)
LEMMA FilledTdShape ==
    ASSUME NEW td \in [Blocks -> TdRec], NEW u \in Urbs, NEW new \in Seq(Blocks), NEW w \in Seq(Blocks),
           Len(new) = Len(w), IsInjective(w), Last(new) \in Blocks \ Range(w),
           NEW T, T = FilledTd(td, u, new, w)
    PROVE  IsFilledTd(td, T, u, new, w)
<1>1. /\ DOMAIN w = 1..Len(w) /\ Len(w) \in Nat /\ Range(w) \subseteq Blocks
      /\ (\A t : t \in Range(w) <=> \E i \in 1..Len(w) : w[i] = t)
      /\ (\A i, j \in 1..Len(w) : w[i] = w[j] => i = j)
  BY NotEmpty
<1>2. \A i \in 1..Len(w) : new[i] \in Blocks
  OBVIOUS
<1> DEFINE rec(i) == [urb |-> u, index |-> i - 1, failed |-> FALSE, next |-> new[i]]
<1>3. \A i \in 1..Len(w) : rec(i) \in TdRec
  <2> TAKE i \in 1..Len(w)
  <2>1. i - 1 \in Nat /\ new[i] \in Blocks
    BY <1>1, <1>2
  <2> QED BY <2>1 DEF TdRec
<1>4. \A i \in 1..Len(w) : /\ rec(i).urb = u /\ rec(i).index = i - 1
                           /\ rec(i).next = new[i] /\ rec(i).failed = FALSE
  OBVIOUS
<1>5. ASSUME NEW i \in 1..Len(w) PROVE T[w[i]] = rec(i)
  <2>1. w[i] \in Blocks /\ i \in DOMAIN w
    BY <1>1
  <2>2. (CHOOSE j \in DOMAIN w : w[j] = w[i]) = i
    BY <1>1
  <2>3. T[w[i]] = LET j == CHOOSE j \in DOMAIN w : w[j] = w[i]
                  IN  [urb |-> u, index |-> j - 1, failed |-> FALSE, next |-> new[j]]
    BY <2>1 DEF FilledTd
  <2> QED BY <2>2, <2>3
<1>6. \A t \in Blocks \ Range(w) : T[t] = IF t = Last(new) THEN NewTd ELSE td[t]
  <2> TAKE t \in Blocks \ Range(w)
  <2>1. ~ \E i \in DOMAIN w : w[i] = t
    BY <1>1
  <2> QED BY <2>1 DEF FilledTd
<1>7. ASSUME NEW t \in Blocks PROVE T[t] \in TdRec
  <2>1. CASE t \in Range(w)
    <3>1. PICK i \in 1..Len(w) : w[i] = t
      BY <2>1, <1>1
    <3> HIDE DEF rec
    <3> QED BY <3>1, <1>3, <1>5
  <2>2. CASE t \notin Range(w)
    BY <2>2, <1>6, TdRecords
  <2> QED BY <2>1, <2>2
<1>8. T = [t \in Blocks |-> T[t]]
  BY DEF FilledTd
<1>9. T \in [Blocks -> TdRec]
  <2> HIDE DEF rec
  <2> QED BY <1>7, <1>8
<1>10. T[Last(new)] = NewTd
  BY <1>6
<1>11. \A i \in 1..Len(w) : /\ T[w[i]].urb = u /\ T[w[i]].index = i - 1
                            /\ T[w[i]].next = new[i] /\ T[w[i]].failed = FALSE
  <2> HIDE DEF rec
  <2> QED BY <1>4, <1>5
<1>12. \A t \in Blocks \ (Range(w) \cup {Last(new)}) : T[t] = td[t]
  BY <1>6
<1> QED
  BY <1>9, <1>10, <1>11, <1>12 DEF IsFilledTd

(* All td_fill of a submit: the request gets the old dummy and all new TDs   *)
(* but the last, which is the endpoint's new dummy.                          *)
LEMMA FillTdsShape ==
    ASSUME NEW x \in DD, NEW u \in Urbs, NEW e \in Eds, e = Ep[u], OhciAssumption,
           NEW new \in Seq(Blocks), Len(new) = Size[u], IsInjective(new),
           x.ed[e].tail \in Blocks \ Range(new), NEW y, y = FillTds(x, u, new), x.ed[e].state # "NEW"
    PROVE  /\ FillStep(x, y, u, e, new, <<x.ed[e].tail>> \o Front(new))
           /\ FillRest(x, y, u, e)
<1> DEFINE w == <<x.ed[e].tail>> \o Front(new)
           n == Size[u]
<1>1. n \in Nat \ {0}
  BY DEF OhciAssumption
<1>2. /\ w \in Seq(Blocks) /\ IsInjective(w) /\ Len(w) = n
      /\ Last(new) \in Blocks \ Range(w)
  BY <1>1, Shifted
<1> DEFINE T == FilledTd(x.td, u, new, w)
           r == [stage |-> "linked", del |-> x.urb[u].del, cnt |-> 0, tds |-> w]
           c == [x.ed[e] EXCEPT !.tail = Last(new)]
           U == [x.urb EXCEPT ![u] = r]
           E == [x.ed EXCEPT ![e] = c]
<1>3. /\ x.ed \in [Eds -> EdRec] /\ x.td \in [Blocks -> TdRec] /\ x.urb \in [Urbs -> UrbRec]
      /\ x.pool \in Pools /\ x.list \in [Kinds -> Seq(Eds)] /\ x.on \in SUBSET Kinds
      /\ x.rm \in [Frames -> Seq(Eds)]
  BY DEF DD
<1>4. y = [x EXCEPT !.urb = U, !.ed = E, !.td = T]
  <2>1. T = [t \in Blocks |->
               IF \E i \in DOMAIN w : w[i] = t
               THEN LET i == CHOOSE i \in DOMAIN w : w[i] = t
                    IN  [urb |-> u, index |-> i - 1, failed |-> FALSE, next |-> new[i]]
               ELSE IF t = Last(new) THEN NewTd ELSE x.td[t]]
    BY DEF FilledTd
  <2> HIDE DEF T
  <2>2. y = [x EXCEPT !.urb[u] = r, !.ed[e].tail = Last(new), !.td = T]
    BY <2>1 DEF FillTds, DD
  <2> HIDE DEF r
  <2> QED BY <2>2 DEF DD
<1>5. r \in UrbRec /\ r.stage = "linked" /\ r.del = x.urb[u].del /\ r.cnt = 0 /\ r.tds = w
  <2>1. x.urb[u].del \in BOOLEAN
    BY <1>3 DEF UrbRec
  <2> HIDE DEF w
  <2> QED BY <2>1, <1>2 DEF UrbRec
<1>6. /\ c \in EdRec /\ c.tail = Last(new) /\ c.head = x.ed[e].head /\ c.halted = x.ed[e].halted
      /\ c.state = x.ed[e].state /\ c.urbdel = x.ed[e].urbdel /\ c.skip = x.ed[e].skip
  <2>1. x.ed[e] \in EdRec
    BY <1>3
  <2>2. DOMAIN x.ed[e] = {"state", "urbdel", "skip", "halted", "head", "tail"}
    BY <2>1, EdFields
  <2>3. Last(new) \in Blocks \cup {Nil}
    BY <1>2
  <2> DEFINE b == Last(new)
  <2> HIDE DEF b
  <2>4. [x.ed[e] EXCEPT !.tail = b] \in EdRec
    BY <2>1, <2>3, EdChanged, Zenon DEF b
  <2> QED BY <2>2, <2>4 DEF b
<1>7. /\ U \in [Urbs -> UrbRec] /\ U[u] = r /\ E \in [Eds -> EdRec] /\ E[e] = c
  <2> HIDE DEF r, c
  <2> QED BY <1>3, <1>5, <1>6
<1>8. (\A v \in Urbs \ {u} : U[v] = x.urb[v]) /\ (\A f \in Eds \ {e} : E[f] = x.ed[f])
  <2> HIDE DEF r, c
  <2> QED BY <1>3
<1>9. Len(new) = Len(w) /\ T = FilledTd(x.td, u, new, w)
  BY <1>2
<1> HIDE DEF T, w
<1> DEFINE td == x.td
<1>20. td \in [Blocks -> TdRec] /\ T = FilledTd(td, u, new, w)
  BY <1>3, <1>9
<1> HIDE DEF td
<1>21. IsFilledTd(td, T, u, new, w)
  BY <1>2, <1>9, <1>20, FilledTdShape
<1>10. T \in [Blocks -> TdRec] /\ T[Last(new)] = NewTd
  BY <1>21 DEF IsFilledTd
<1>11. \A i \in 1..Len(w) : /\ T[w[i]].urb = u /\ T[w[i]].index = i - 1
                            /\ T[w[i]].next = new[i] /\ T[w[i]].failed = FALSE
  BY <1>21 DEF IsFilledTd
<1>12. \A t \in Blocks \ (Range(w) \cup {Last(new)}) : T[t] = x.td[t]
  BY <1>21 DEF IsFilledTd, td
<1> HIDE DEF U, E, r, c
<1>13. y.urb = U /\ y.ed = E /\ y.td = T /\ y.pool = x.pool /\ y.list = x.list /\ y.on = x.on /\ y.rm = x.rm
       /\ y \in DD
  BY <1>3, <1>4, <1>7, <1>10 DEF DD
<1>14. Used(y) = Used(x)
  BY <1>6, <1>7, <1>8, <1>13, SMTT(30) DEF Used
<1>15. /\ \A f \in Eds : y.ed[f].head = x.ed[f].head /\ y.ed[f].halted = x.ed[f].halted
       /\ \A f \in Eds \ {e} : y.ed[f].tail = x.ed[f].tail
       /\ y.ed[e].tail = Last(new)
  BY <1>6, <1>7, <1>8, <1>13
<1>16. /\ \A v \in Urbs \ {u} : y.urb[v] = x.urb[v]
       /\ y.urb[u].stage = "linked" /\ y.urb[u].cnt = 0 /\ y.urb[u].tds = w
  BY <1>5, <1>7, <1>8, <1>13
<1>17. FillStep(x, y, u, e, new, w)
  BY <1>10, <1>11, <1>12, <1>13, <1>14, <1>15, <1>16 DEF FillStep, w
<1>18. FillRest(x, y, u, e)
  BY <1>5, <1>6, <1>7, <1>8, <1>13 DEF FillRest
<1> QED
  BY <1>17, <1>18 DEF w

-----------------------------------------------------------------------------
(* The small steps the others are made of.                                   *)

SetUrb(x, u, r) == [x EXCEPT !.urb[u] = r]
SetPool(x, p) == [x EXCEPT !.pool = p]

(* Changing one request changes nothing else.                                *)
LEMMA SetUrbShape ==
    ASSUME NEW x \in DD, NEW u \in Urbs, NEW r \in UrbRec, NEW y, y = SetUrb(x, u, r)
    PROVE  /\ y \in DD /\ y.urb[u] = r /\ \A v \in Urbs \ {u} : y.urb[v] = x.urb[v]
           /\ y.td = x.td /\ y.ed = x.ed /\ y.pool = x.pool /\ y.list = x.list /\ y.on = x.on
           /\ y.rm = x.rm
<1> DEFINE U == [x.urb EXCEPT ![u] = r]
<1>1. /\ x.ed \in [Eds -> EdRec] /\ x.td \in [Blocks -> TdRec] /\ x.urb \in [Urbs -> UrbRec]
      /\ x.pool \in Pools /\ x.list \in [Kinds -> Seq(Eds)] /\ x.on \in SUBSET Kinds
      /\ x.rm \in [Frames -> Seq(Eds)]
  BY DEF DD
<1>2. U \in [Urbs -> UrbRec] /\ U[u] = r /\ \A v \in Urbs \ {u} : U[v] = x.urb[v]
  BY <1>1
<1>3. y = [x EXCEPT !.urb = U]
  BY DEF SetUrb, DD
<1> HIDE DEF U
<1> QED
  BY <1>1, <1>2, <1>3 DEF DD

(* Changing the pool changes nothing else.                                   *)
LEMMA SetPoolShape ==
    ASSUME NEW x \in DD, NEW p \in Pools, NEW y, y = SetPool(x, p)
    PROVE  /\ y \in DD /\ y.pool = p /\ y.urb = x.urb
           /\ y.td = x.td /\ y.ed = x.ed /\ y.list = x.list /\ y.on = x.on /\ y.rm = x.rm
BY DEF SetPool, DD

(* What ep_link does.                                                        *)
LinkStep(x, y, e) ==
    /\ y \in DD /\ y.td = x.td /\ y.urb = x.urb /\ y.pool = x.pool /\ y.rm = x.rm
    /\ \A f \in Eds \ {e} : y.ed[f] = x.ed[f]
    /\ y.ed[e].state = "OPER" /\ ~y.ed[e].urbdel /\ y.ed[e].skip = x.ed[e].skip
    /\ y.ed[e].head = x.ed[e].head /\ y.ed[e].tail = x.ed[e].tail /\ y.ed[e].halted = x.ed[e].halted
    /\ \A l \in Kinds \ {Type[e]} : y.list[l] = x.list[l]
    /\ y.list[Type[e]] = Append(x.list[Type[e]], e)
    /\ x.on \subseteq y.on
    /\ x.list[Type[e]] = <<>> /\ NoneToRemove(x) => Type[e] \in y.on

(* ep_link adds one endpoint to the list of its kind, and starts the list if *)
(* it was empty.                                                             *)
LEMMA EpLinkShape ==
    ASSUME NEW x \in DD, NEW e \in Eds, OhciAssumption
    PROVE  LinkStep(x, EpLink(x, e), e)
<1> DEFINE l == Type[e]
           y == EpLink(x, e)
           r == [x.ed[e] EXCEPT !.state = "OPER", !.urbdel = FALSE]
           E == [x.ed EXCEPT ![e] = r]
           s == Append(x.list[l], e)
           L == [x.list EXCEPT ![l] = s]
           c == x.list[l] = <<>> /\ NoneToRemove(x)
           N == IF c THEN x.on \cup {l} ELSE x.on
<1>1. /\ x.ed \in [Eds -> EdRec] /\ x.td \in [Blocks -> TdRec] /\ x.urb \in [Urbs -> UrbRec]
      /\ x.pool \in Pools /\ x.list \in [Kinds -> Seq(Eds)] /\ x.on \in SUBSET Kinds
      /\ x.rm \in [Frames -> Seq(Eds)]
  BY DEF DD
<1>2. l \in Kinds
  BY DEF OhciAssumption, Kinds
<1>3. s \in Seq(Eds)
  BY <1>1, <1>2
<1>4. r \in EdRec /\ r.state = "OPER" /\ ~r.urbdel /\ r.skip = x.ed[e].skip
      /\ r.head = x.ed[e].head /\ r.tail = x.ed[e].tail /\ r.halted = x.ed[e].halted
  <2>1. x.ed[e] \in EdRec
    BY <1>1
  <2>2. DOMAIN x.ed[e] = {"state", "urbdel", "skip", "halted", "head", "tail"}
    BY <2>1, EdFields
  <2>3. r \in EdRec
    BY <2>1, EdChanged, Zenon
  <2> QED BY <2>2, <2>3
<1>5. y = [x EXCEPT !.ed[e].state = "OPER", !.ed[e].urbdel = FALSE, !.list[l] = s, !.on = N]
  BY DEF EpLink, DD
<1>6. E = [[x.ed EXCEPT ![e].state = "OPER"] EXCEPT ![e].urbdel = FALSE]
  BY <1>1
<1> HIDE DEF s, N
<1>7. y = [x EXCEPT !.ed = E, !.list = L, !.on = N]
  <2> HIDE DEF y
  <2> QED BY <1>5, <1>6 DEF DD
<1>8. E \in [Eds -> EdRec] /\ E[e] = r /\ \A f \in Eds \ {e} : E[f] = x.ed[f]
  BY <1>1, <1>4
<1>9. L \in [Kinds -> Seq(Eds)] /\ L[l] = s /\ \A k \in Kinds \ {l} : L[k] = x.list[k]
  BY <1>1, <1>2, <1>3
<1>10. N \in SUBSET Kinds /\ x.on \subseteq N /\ (c => l \in N)
  <2> HIDE DEF c
  <2> QED BY <1>1, <1>2 DEF N
<1> HIDE DEF y, E, L, r
<1>11. y \in DD /\ y.ed = E /\ y.list = L /\ y.on = N /\ y.td = x.td /\ y.urb = x.urb
       /\ y.pool = x.pool /\ y.rm = x.rm
  <2>1. E \in [Eds -> EdRec] /\ L \in [Kinds -> Seq(Eds)] /\ N \in SUBSET Kinds
    BY <1>8, <1>9, <1>10
  <2> QED BY <2>1, <1>7, <1>1 DEF DD
<1>12. \A f \in Eds \ {e} : y.ed[f] = x.ed[f]
  BY <1>8, <1>11
<1>13. /\ y.ed[e].state = "OPER" /\ ~y.ed[e].urbdel /\ y.ed[e].skip = x.ed[e].skip
       /\ y.ed[e].head = x.ed[e].head /\ y.ed[e].tail = x.ed[e].tail /\ y.ed[e].halted = x.ed[e].halted
  BY <1>4, <1>8, <1>11
<1>14. (\A k \in Kinds \ {l} : y.list[k] = x.list[k]) /\ y.list[l] = Append(x.list[l], e)
  BY <1>9, <1>11 DEF s
<1>15. x.on \subseteq y.on /\ (c => l \in y.on)
  BY <1>10, <1>11
<1>16. LinkStep(x, y, e)
  BY <1>11, <1>12, <1>13, <1>14, <1>15 DEF LinkStep
<1> QED
  BY <1>16 DEF y

(* The lists still hold what they should after ep_link, and run if they ran. *)
LEMMA LinkedLists ==
    ASSUME NEW x \in DD, NEW y, NEW e \in Eds, OhciAssumption, LinkStep(x, y, e), Lists(x),
           x.ed[e].state # "OPER"
    PROVE  Lists(y) /\ (Running(x) => Running(y))
<1>1. ASSUME NEW l \in Kinds
      PROVE  /\ IsInjective(y.list[l])
             /\ \A f \in Eds : f \in Range(y.list[l]) <=> Type[f] = l /\ y.ed[f].state = "OPER"
  <2>1. /\ IsInjective(x.list[l])
        /\ \A f \in Eds : f \in Range(x.list[l]) <=> Type[f] = l /\ x.ed[f].state = "OPER"
    BY DEF Lists
  <2>2. \A f \in Eds : y.ed[f].state = "OPER" <=> f = e \/ x.ed[f].state = "OPER"
    BY DEF LinkStep
  <2>3. CASE l = Type[e]
    <3> DEFINE s == x.list[l]
    <3>1. s \in Seq(Eds) /\ y.list[l] = Append(s, e) /\ IsInjective(s) /\ e \notin Range(s)
      BY <2>1, <2>3, Parts DEF LinkStep
    <3>2. IsInjective(Append(s, e)) /\ Range(Append(s, e)) = Range(s) \cup {e}
      <4> HIDE DEF s
      <4> QED BY <3>1, Appended
    <3> QED BY <2>1, <2>2, <2>3, <3>1, <3>2
  <2>4. CASE l # Type[e]
    <3>1. y.list[l] = x.list[l]
      BY <2>4 DEF LinkStep
    <3> QED BY <2>1, <2>2, <2>4, <3>1
  <2> QED BY <2>3, <2>4
<1>2. ASSUME Running(x) PROVE Running(y)
  <2>1. "int" \in y.on
    BY <1>2 DEF Running, LinkStep
  <2>2. ASSUME NoneToRemove(y), NEW l \in Kinds \ {"int"}, y.list[l] # <<>> PROVE l \in y.on
    <3>1. NoneToRemove(x)
      BY <2>2 DEF NoneToRemove, LinkStep
    <3>2. CASE x.list[l] # <<>>
      BY <1>2, <3>1, <3>2 DEF Running, LinkStep
    <3>3. CASE x.list[l] = <<>>
      <4>1. l = Type[e]
        BY <2>2, <3>3 DEF LinkStep
      <4> QED BY <3>1, <3>3, <4>1 DEF LinkStep
    <3> QED BY <3>2, <3>3
  <2> QED BY <2>1, <2>2 DEF Running
<1> QED
  BY <1>1, <1>2 DEF Lists

-----------------------------------------------------------------------------
(* The removal lists.                                                        *)

(* They hold the endpoints with a removal pending, each once; the controller *)
(* skips these, and of those linked no other.                                *)
Removed(x, e) == x.ed[e].state = "DEL" \/ x.ed[e].urbdel

Removals(x) ==
    /\ \A f \in Frames : IsInjective(x.rm[f])
    /\ Range(x.rm[0]) \cap Range(x.rm[1]) = {}
    /\ \A e \in Eds : Removed(x, e) <=> e \in Range(x.rm[0]) \cup Range(x.rm[1])
    /\ \A e \in Eds : Removed(x, e) => x.ed[e].skip /\ x.ed[e].state # "NEW"
    /\ \A e \in Eds : x.ed[e].state = "OPER" /\ ~x.ed[e].urbdel => ~x.ed[e].skip

(* The removal lists hold what they should as long as neither they nor the   *)
(* marks of endpoints change.                                                *)
LEMMA OthersRemoved ==
    ASSUME NEW x, NEW y, Removals(x), y.rm = x.rm,
           \A e \in Eds : /\ Removed(y, e) <=> Removed(x, e)
                          /\ Removed(x, e) => y.ed[e].skip /\ y.ed[e].state # "NEW"
                          /\ y.ed[e].state = "OPER" /\ ~y.ed[e].urbdel => ~y.ed[e].skip
    PROVE  Removals(y)
BY DEF Removals

(* The list of this frame, and the other one.                                *)
LEMMA TwoLists ==
    ASSUME NEW x, frame \in Frames
    PROVE  /\ Range(x.rm[0]) \cup Range(x.rm[1]) = Range(x.rm[frame]) \cup Range(x.rm[1 - frame])
           /\ Range(x.rm[0]) \cap Range(x.rm[1]) = Range(x.rm[frame]) \cap Range(x.rm[1 - frame])
           /\ Frames = {frame, 1 - frame} /\ frame # 1 - frame /\ 1 - frame \in Frames
<1>1. CASE frame = 0
  BY <1>1 DEF Frames
<1>2. CASE frame = 1
  BY <1>2 DEF Frames
<1> QED
  BY <1>1, <1>2 DEF Frames

(* e is on the list of this frame, or was on one already.                    *)
RmPut(x, y, e) ==
    /\ y.rm[1 - frame] = x.rm[1 - frame]
    /\ y.rm[frame] = IF Removed(x, e) THEN x.rm[frame] ELSE <<e>> \o x.rm[frame]

(* Putting a marked endpoint on the removal list of the next frame keeps the *)
(* removal lists right.                                                      *)
LEMMA RemovedMore ==
    ASSUME NEW x \in DD, NEW y \in DD, NEW e \in Eds, frame \in Frames, Removals(x), RmPut(x, y, e),
           \A f \in Eds \ {e} : y.ed[f] = x.ed[f],
           y.ed[e].skip, Removed(y, e), y.ed[e].state # "NEW"
    PROVE  Removals(y) /\ ~NoneToRemove(y)
<1> DEFINE s == x.rm[frame]
           t == x.rm[1 - frame]
           a == y.rm[frame]
           b == y.rm[1 - frame]
<1>1. /\ s \in Seq(Eds) /\ t \in Seq(Eds) /\ a \in Seq(Eds) /\ b \in Seq(Eds)
  BY TwoLists, Parts
<1>2. /\ IsInjective(s) /\ IsInjective(t) /\ Range(s) \cap Range(t) = {}
      /\ \A f \in Eds : Removed(x, f) <=> f \in Range(s) \cup Range(t)
  BY TwoLists DEF Removals
<1>3. b = t /\ a = IF Removed(x, e) THEN s ELSE <<e>> \o s
  BY DEF RmPut
<1> HIDE DEF s, t, a, b
<1>4. IsInjective(a) /\ (Removed(x, e) => Range(a) = Range(s)) /\ (~Removed(x, e) => Range(a) = Range(s) \cup {e})
  <2>1. CASE Removed(x, e)
    BY <2>1, <1>2, <1>3
  <2>2. CASE ~Removed(x, e)
    <3>1. a = <<e>> \o s /\ e \notin Range(s)
      BY <2>2, <1>2, <1>3
    <3> QED BY <2>2, <3>1, <1>1, <1>2, Prepended
  <2> QED BY <2>1, <2>2
<1>5. Range(a) \cap Range(b) = {}
  BY <1>2, <1>3, <1>4
<1>6. \A f \in Eds : f \in Range(a) \cup Range(b) <=> f \in Range(s) \cup Range(t) \cup {e}
  BY <1>2, <1>3, <1>4
<1>7. \A f \in Eds \ {e} : Removed(y, f) <=> Removed(x, f)
  BY DEF Removed
<1>8. \A f \in Eds : Removed(y, f) <=> f \in Range(a) \cup Range(b)
  <2> TAKE f \in Eds
  <2>1. CASE f = e
    BY <2>1, <1>6
  <2>2. CASE f # e
    BY <2>2, <1>2, <1>6, <1>7
  <2> QED BY <2>1, <2>2
<1>9. /\ \A f \in Frames : IsInjective(y.rm[f])
      /\ Range(y.rm[0]) \cap Range(y.rm[1]) = {}
      /\ \A f \in Eds : Removed(y, f) <=> f \in Range(y.rm[0]) \cup Range(y.rm[1])
  <2>1. IsInjective(y.rm[frame]) /\ IsInjective(y.rm[1 - frame])
    BY <1>2, <1>3, <1>4 DEF a, b
  <2>2. Range(y.rm[frame]) \cap Range(y.rm[1 - frame]) = {}
    BY <1>5 DEF a, b
  <2>3. \A f \in Eds : Removed(y, f) <=> f \in Range(y.rm[frame]) \cup Range(y.rm[1 - frame])
    BY <1>8 DEF a, b
  <2>4. /\ Range(y.rm[0]) \cup Range(y.rm[1]) = Range(y.rm[frame]) \cup Range(y.rm[1 - frame])
        /\ Range(y.rm[0]) \cap Range(y.rm[1]) = Range(y.rm[frame]) \cap Range(y.rm[1 - frame])
        /\ Frames = {frame, 1 - frame}
    BY TwoLists
  <2> QED BY <2>1, <2>2, <2>3, <2>4
<1>10. \A f \in Eds : Removed(y, f) => y.ed[f].skip /\ y.ed[f].state # "NEW"
  BY <1>7 DEF Removals
<1>11. \A f \in Eds : y.ed[f].state = "OPER" /\ ~y.ed[f].urbdel => ~y.ed[f].skip
  BY DEF Removals, Removed
<1>12. ~NoneToRemove(y)
  <2>1. e \in Range(a) \cup Range(b)
    BY <1>8
  <2>2. a # <<>> \/ b # <<>>
    BY <2>1, EmptyRange
  <2> QED BY <2>2, TwoLists DEF NoneToRemove, a, b
<1> QED
  BY <1>9, <1>10, <1>11, <1>12 DEF Removals

(* What ep_rm_ed does.                                                       *)
RmStep(x, y, e) ==
    /\ y \in DD /\ y.td = x.td /\ y.urb = x.urb /\ y.pool = x.pool /\ y.list = x.list
    /\ \A f \in Eds \ {e} : y.ed[f] = x.ed[f]
    /\ y.ed[e].state = x.ed[e].state /\ y.ed[e].urbdel = x.ed[e].urbdel /\ y.ed[e].skip
    /\ y.ed[e].head = x.ed[e].head /\ y.ed[e].tail = x.ed[e].tail /\ y.ed[e].halted = x.ed[e].halted
    /\ RmPut(x, y, e)
    /\ "int" \in x.on => "int" \in y.on

(* ep_rm_ed marks one endpoint, enables the interrupt at the start of frame  *)
(* and puts it on the list of the next frame, once.                          *)
LEMMA EpRmEdShape ==
    ASSUME NEW x \in DD, NEW e \in Eds, OhciAssumption, frame \in Frames, Removals(x)
    PROVE  RmStep(x, EpRmEd(x, e), e)
<1> DEFINE y == EpRmEd(x, e)
           r == [x.ed[e] EXCEPT !.skip = TRUE]
           E == [x.ed EXCEPT ![e] = r]
           s == <<e>> \o x.rm[frame]
           M == [x.rm EXCEPT ![frame] = s]
           N == IF disabled \/ Type[e] = "int" THEN x.on ELSE x.on \ {Type[e]}
<1>1. /\ x.ed \in [Eds -> EdRec] /\ x.td \in [Blocks -> TdRec] /\ x.urb \in [Urbs -> UrbRec]
      /\ x.pool \in Pools /\ x.list \in [Kinds -> Seq(Eds)] /\ x.on \in SUBSET Kinds
      /\ x.rm \in [Frames -> Seq(Eds)]
  BY DEF DD
<1>2. CASE Removed(x, e)
  <2>1. y = x
    BY <1>2 DEF EpRmEd, Removed
  <2>2. x.ed[e].skip
    BY <1>2 DEF Removals
  <2>3. RmStep(x, x, e)
    BY <2>2, <1>2 DEF RmStep, RmPut
  <2> QED BY <2>1, <2>3
<1>3. CASE ~Removed(x, e)
  <2>1. y = [x EXCEPT !.ed[e].skip = TRUE, !.on = N, !.rm[frame] = s]
    BY <1>3 DEF EpRmEd, Removed, DD
  <2>2. s \in Seq(Eds)
    <3>1. x.rm[frame] \in Seq(Eds)
      BY <1>1
    <3> QED BY <3>1
  <2>3. r \in EdRec /\ r.skip /\ r.state = x.ed[e].state /\ r.urbdel = x.ed[e].urbdel
        /\ r.head = x.ed[e].head /\ r.tail = x.ed[e].tail /\ r.halted = x.ed[e].halted
    <3>1. x.ed[e] \in EdRec
      BY <1>1
    <3>2. DOMAIN x.ed[e] = {"state", "urbdel", "skip", "halted", "head", "tail"}
      BY <3>1, EdFields
    <3>3. r \in EdRec
      BY <3>1, EdChanged, Zenon
    <3> QED BY <3>2, <3>3
  <2>4. N \in SUBSET Kinds /\ ("int" \in x.on => "int" \in N)
    BY <1>1
  <2> HIDE DEF N, s
  <2>5. y = [x EXCEPT !.ed = E, !.rm = M, !.on = N]
    <3> HIDE DEF y
    <3> QED BY <2>1 DEF DD
  <2>6. /\ E \in [Eds -> EdRec] /\ E[e] = r /\ (\A f \in Eds \ {e} : E[f] = x.ed[f])
        /\ M \in [Frames -> Seq(Eds)] /\ M[frame] = s /\ M[1 - frame] = x.rm[1 - frame]
    <3>1. frame # 1 - frame /\ 1 - frame \in Frames
      BY TwoLists
    <3> HIDE DEF r
    <3> QED BY <1>1, <2>2, <2>3, <3>1
  <2> HIDE DEF y, E, M, r
  <2>7. y \in DD /\ y.ed = E /\ y.list = x.list /\ y.on = N /\ y.td = x.td /\ y.urb = x.urb
        /\ y.pool = x.pool /\ y.rm = M
    BY <2>4, <2>5, <2>6, <1>1 DEF DD
  <2>8. RmPut(x, y, e)
    BY <2>6, <2>7, <1>3 DEF RmPut, s
  <2>9. RmStep(x, y, e)
    BY <2>3, <2>4, <2>6, <2>7, <2>8 DEF RmStep
  <2> QED BY <2>9 DEF y
<1> QED
  BY <1>2, <1>3

(* Only what does not matter to the TDs is changed.                          *)
SameTds(x, y) ==
    /\ y.td = x.td /\ y.pool = x.pool
    /\ \A u \in Urbs : /\ y.urb[u].stage = x.urb[u].stage /\ y.urb[u].tds = x.urb[u].tds
                       /\ y.urb[u].cnt = x.urb[u].cnt
    /\ \A e \in Eds : /\ y.ed[e].head = x.ed[e].head /\ y.ed[e].tail = x.ed[e].tail
                      /\ y.ed[e].halted = x.ed[e].halted
                      /\ y.ed[e].state = "NEW" <=> x.ed[e].state = "NEW"

(* What is known of TDs depends only on TDs, requests, pool, and heads,      *)
(* tails and halts of endpoints.                                             *)
LEMMA SameKept ==
    ASSUME NEW x \in DD, NEW y \in DD, OhciAssumption, SameTds(x, y),
           NEW Q, NEW D, NEW dead, Tds(x, Q, D, dead)
    PROVE  /\ Tds(y, Q, D, dead)
           /\ \A F \in SUBSET D : Halts(x, Q, F) => Halts(y, Q, F)
           /\ \A S : Owing(x, S, dead) => Owing(y, S, dead)
           /\ \A t : Owner(y, t) = Owner(x, t)
<1>1. y.td = x.td /\ y.pool = x.pool
  BY DEF SameTds
<1>2. \A u \in Urbs : u \in Linked(y) <=> u \in Linked(x)
  BY DEF SameTds, Linked
<1>3. \A u \in Linked(x) : y.urb[u].tds = x.urb[u].tds /\ y.urb[u].cnt = x.urb[u].cnt
  BY DEF SameTds, Linked
<1>4. \A u \in Urbs : y.urb[u].cnt <= Size[u]
  BY DEF SameTds, Tds, Counted
<1>5. \A e \in Eds : e \in Used(y) <=> e \in Used(x)
  BY DEF SameTds, Used
<1>6. \A e \in Used(x) : /\ y.ed[e].head = x.ed[e].head /\ y.ed[e].tail = x.ed[e].tail
                         /\ y.ed[e].halted = x.ed[e].halted
  BY DEF SameTds, Used
<1>7. /\ Tds(y, Q, D, dead)
      /\ \A F \in SUBSET D : Halts(x, Q, F) => Halts(y, Q, F)
      /\ \A S : Owing(x, S, dead) => Owing(y, S, dead)
  BY <1>1, <1>2, <1>3, <1>4, <1>5, <1>6, Untouched
<1> QED
  BY <1>1, <1>7 DEF Owner

(* SameTds is transitive.                                                    *)
LEMMA SameSame ==
    ASSUME NEW x, NEW y, NEW z, SameTds(x, y), SameTds(y, z)
    PROVE  SameTds(x, z)
BY DEF SameTds

(* Endpoints have been put on the removal list.                              *)
Doomed(x, y) ==
    /\ y \in DD /\ SameTds(x, y) /\ Lists(y) /\ Removals(y) /\ (Running(x) => Running(y))
    /\ y.rm[1 - frame] = x.rm[1 - frame]

Unlinking(x, u, e) == [EpRmEd(x, e) EXCEPT !.urb[u].del = TRUE, !.ed[e].urbdel = TRUE]

(* Unlinking a request dooms its endpoint to have its removal processed; no  *)
(* TD changes.                                                               *)
LEMMA UnlinkDooms ==
    ASSUME NEW x \in DD, OhciAssumption, frame \in Frames, Lists(x), Removals(x),
           NEW u \in Urbs, NEW e \in Eds, x.ed[e].state # "NEW",
           NEW y, y = Unlinking(x, u, e)
    PROVE  Doomed(x, y)
<1> DEFINE a == EpRmEd(x, e)
           r == [a.ed[e] EXCEPT !.urbdel = TRUE]
           s == [a.urb[u] EXCEPT !.del = TRUE]
           b == SetEd(a, e, r)
<1>1. RmStep(x, a, e)
  BY EpRmEdShape
<1>2. y = [a EXCEPT !.urb[u].del = TRUE, !.ed[e].urbdel = TRUE]
  BY DEF Unlinking
<1> HIDE DEF a
<1>3. a \in DD
  BY <1>1 DEF RmStep
<1>4. y = SetUrb(b, u, s)
  <2>1. y = [[a EXCEPT !.ed[e].urbdel = TRUE] EXCEPT !.urb[u].del = TRUE]
    BY <1>2, <1>3 DEF DD
  <2>2. b = [a EXCEPT !.ed[e].urbdel = TRUE]
    BY <1>3 DEF SetEd, DD
  <2>3. b.urb = a.urb
    BY <1>3 DEF SetEd, DD
  <2>4. b \in DD
    <3>1. r \in EdRec
      BY <1>3, Parts, EdChanged, ZenonT(30)
    <3> HIDE DEF r
    <3> QED BY <3>1, <1>3, SetEdShape
  <2> HIDE DEF b
  <2> QED BY <2>1, <2>2, <2>3, <2>4 DEF SetUrb, DD
<1>5. /\ r \in EdRec /\ r.urbdel = TRUE /\ r.state = a.ed[e].state /\ r.skip = a.ed[e].skip
      /\ r.head = a.ed[e].head /\ r.tail = a.ed[e].tail /\ r.halted = a.ed[e].halted
  <2>1. a.ed[e] \in EdRec
    BY <1>3, Parts
  <2>2. DOMAIN a.ed[e] = {"state", "urbdel", "skip", "halted", "head", "tail"}
    BY <2>1, EdFields
  <2>3. r \in EdRec
    BY <2>1, EdChanged, Zenon
  <2> QED BY <2>2, <2>3
<1>6. /\ s \in UrbRec /\ s.stage = a.urb[u].stage /\ s.tds = a.urb[u].tds /\ s.cnt = a.urb[u].cnt
  <2>1. a.urb[u] \in UrbRec
    BY <1>3, Parts
  <2>2. DOMAIN a.urb[u] = {"stage", "del", "tds", "cnt"}
    BY <2>1, Zenon DEF UrbRec
  <2>3. s \in UrbRec
    BY <2>1, Zenon DEF UrbRec
  <2> QED BY <2>2, <2>3
<1>7. b = SetEd(a, e, r)
  OBVIOUS
<1> HIDE DEF b, r, s
<1>8. b \in DD /\ b.ed[e] = r
  BY <1>3, <1>5, <1>7, SetEdShape
<1>9. \A f \in Eds \ {e} : b.ed[f] = a.ed[f]
  BY <1>3, <1>5, <1>7, SetEdShape
<1>10. b.td = a.td /\ b.urb = a.urb /\ b.pool = a.pool /\ b.list = a.list /\ b.on = a.on /\ b.rm = a.rm
  BY <1>3, <1>5, <1>7, SetEdShape
<1>11. y \in DD /\ y.urb[u] = s
  BY <1>4, <1>6, <1>8, SetUrbShape
<1>12. \A v \in Urbs \ {u} : y.urb[v] = b.urb[v]
  BY <1>4, <1>6, <1>8, SetUrbShape
<1>13. y.td = b.td /\ y.ed = b.ed /\ y.pool = b.pool /\ y.list = b.list /\ y.on = b.on /\ y.rm = b.rm
  BY <1>4, <1>6, <1>8, SetUrbShape
<1>14. SameTds(x, y)
  <2>1. y.td = x.td /\ y.pool = x.pool
    BY <1>1, <1>10, <1>13 DEF RmStep
  <2>2. \A v \in Urbs : /\ y.urb[v].stage = x.urb[v].stage /\ y.urb[v].tds = x.urb[v].tds
                        /\ y.urb[v].cnt = x.urb[v].cnt
    BY <1>1, <1>6, <1>10, <1>11, <1>12 DEF RmStep
  <2>3. \A f \in Eds : /\ y.ed[f].head = x.ed[f].head /\ y.ed[f].tail = x.ed[f].tail
                       /\ y.ed[f].halted = x.ed[f].halted
                       /\ y.ed[f].state = x.ed[f].state
    BY <1>1, <1>5, <1>8, <1>9, <1>13 DEF RmStep
  <2> QED BY <2>1, <2>2, <2>3 DEF SameTds
<1>15. Lists(y)
  <2>1. \A f \in Eds : y.ed[f].state = "OPER" <=> x.ed[f].state = "OPER"
    BY <1>1, <1>5, <1>8, <1>9, <1>13 DEF RmStep
  <2>2. y.list = x.list
    BY <1>1, <1>10, <1>13 DEF RmStep
  <2> QED BY <2>1, <2>2, <1>11, OthersListed
<1>16. Removals(y) /\ ~NoneToRemove(y)
  <2>1. RmPut(x, y, e)
    BY <1>1, <1>10, <1>13 DEF RmPut, RmStep
  <2>2. \A f \in Eds \ {e} : y.ed[f] = x.ed[f]
    BY <1>1, <1>9, <1>13 DEF RmStep
  <2>3. y.ed[e].skip /\ Removed(y, e) /\ y.ed[e].state # "NEW"
    BY <1>1, <1>5, <1>8, <1>13 DEF RmStep, Removed
  <2> QED BY <2>1, <2>2, <2>3, <1>11, RemovedMore
<1>17. Running(x) => Running(y)
  BY <1>1, <1>10, <1>13, <1>16 DEF Running, RmStep
<1>18. y.rm[1 - frame] = x.rm[1 - frame]
  BY <1>1, <1>10, <1>13 DEF RmStep, RmPut
<1> QED
  BY <1>11, <1>14, <1>15, <1>16, <1>17, <1>18 DEF Doomed

(* Freeing an endpoint of a device dooms it likewise; no TD changes.         *)
LEMMA FreeEdDooms ==
    ASSUME NEW x \in DD, OhciAssumption, frame \in Frames, Lists(x), Removals(x),
           NEW e \in Eds, ~x.ed[e].urbdel, NEW y, y = FreeEd(x, e)
    PROVE  /\ Doomed(x, y) /\ ~y.ed[e].urbdel /\ \A f \in Eds \ {e} : y.ed[f] = x.ed[f]
<1>1. CASE x.ed[e].state = "NEW"
  <2>1. y = x
    BY <1>1 DEF FreeEd
  <2> QED BY <2>1 DEF Doomed, SameTds
<1>2. CASE x.ed[e].state # "NEW"
  <2> DEFINE a == IF x.ed[e].state = "OPER" /\ ~x.ed[e].urbdel THEN EpUnlink(x, e) ELSE x
             b == EpRmEd(a, e)
             r == [b.ed[e] EXCEPT !.state = "DEL", !.urbdel = FALSE]
  <2>1. /\ a \in DD /\ SameTds(x, a) /\ Lists(a) /\ Removals(a) /\ (Running(x) => Running(a))
        /\ a.rm = x.rm /\ a.ed[e].state \notin {"OPER", "NEW"} /\ \A f \in Eds \ {e} : a.ed[f] = x.ed[f]
    <3>1. CASE x.ed[e].state = "OPER"
      <4>1. IsInjective(x.list[Type[e]]) /\ e \in Range(x.list[Type[e]])
        <5>1. Type[e] \in Kinds
          BY DEF OhciAssumption, Kinds
        <5> QED BY <5>1, <3>1 DEF Lists
      <4>2. UnlinkStep(x, a, e)
        <5>1. a = EpUnlink(x, e)
          BY <3>1
        <5> QED BY <4>1, <5>1, EpUnlinkShape
      <4> HIDE DEF a
      <4>3. Lists(a) /\ (Running(x) => Running(a))
        BY <4>2, UnlinkedLists
      <4>4. Removals(a)
        <5>1. \A f \in Eds : /\ Removed(a, f) <=> Removed(x, f)
                             /\ Removed(x, f) => a.ed[f].skip /\ a.ed[f].state # "NEW"
                             /\ a.ed[f].state = "OPER" /\ ~a.ed[f].urbdel => ~a.ed[f].skip
          BY <4>2, <3>1 DEF UnlinkStep, Removed, Removals
        <5>2. a.rm = x.rm
          BY <4>2 DEF UnlinkStep
        <5> QED BY <5>1, <5>2, OthersRemoved
      <4>5. SameTds(x, a)
        BY <4>2, <3>1 DEF UnlinkStep, SameTds
      <4> QED BY <4>2, <4>3, <4>4, <4>5 DEF UnlinkStep
    <3>2. CASE x.ed[e].state # "OPER"
      BY <3>2, <1>2 DEF SameTds
    <3> QED BY <3>1, <3>2
  <2>2. y = [b EXCEPT !.ed[e].state = "DEL", !.ed[e].urbdel = FALSE]
    BY <1>2 DEF FreeEd
  <2> HIDE DEF a
  <2>3. RmStep(a, b, e)
    BY <2>1, EpRmEdShape
  <2> HIDE DEF b
  <2>4. b \in DD
    BY <2>3 DEF RmStep
  <2>5. y = SetEd(b, e, r)
    <3>1. SetEd(b, e, r) = [[b EXCEPT !.ed[e].state = "DEL"] EXCEPT !.ed[e].urbdel = FALSE]
      BY <2>4 DEF SetEd, DD
    <3> QED BY <2>2, <2>4, <3>1 DEF DD
  <2>6. /\ r \in EdRec /\ r.urbdel = FALSE /\ r.state = "DEL" /\ r.skip = b.ed[e].skip
        /\ r.head = b.ed[e].head /\ r.tail = b.ed[e].tail /\ r.halted = b.ed[e].halted
    <3>1. b.ed[e] \in EdRec
      BY <2>4, Parts
    <3>2. DOMAIN b.ed[e] = {"state", "urbdel", "skip", "halted", "head", "tail"}
      BY <3>1, EdFields
    <3>3. r \in EdRec
      BY <3>1, EdChanged, Zenon
    <3> QED BY <3>2, <3>3
  <2> HIDE DEF r
  <2>7. y \in DD /\ y.ed[e] = r
    BY <2>4, <2>5, <2>6, SetEdShape
  <2>8. \A f \in Eds \ {e} : y.ed[f] = b.ed[f]
    BY <2>4, <2>5, <2>6, SetEdShape
  <2>9. y.td = b.td /\ y.urb = b.urb /\ y.pool = b.pool /\ y.list = b.list /\ y.on = b.on /\ y.rm = b.rm
    BY <2>4, <2>5, <2>6, SetEdShape
  <2>10. SameTds(a, y)
    <3>1. y.td = a.td /\ y.pool = a.pool /\ y.urb = a.urb
      BY <2>3, <2>9 DEF RmStep
    <3>2. \A f \in Eds : /\ y.ed[f].head = a.ed[f].head /\ y.ed[f].tail = a.ed[f].tail
                         /\ y.ed[f].halted = a.ed[f].halted
                         /\ y.ed[f].state = "NEW" <=> a.ed[f].state = "NEW"
      BY <2>1, <2>3, <2>6, <2>7, <2>8 DEF RmStep
    <3> QED BY <3>1, <3>2 DEF SameTds
  <2>11. Lists(y)
    <3>1. \A f \in Eds : y.ed[f].state = "OPER" <=> a.ed[f].state = "OPER"
      BY <2>1, <2>3, <2>6, <2>7, <2>8 DEF RmStep
    <3>2. y.list = a.list
      BY <2>3, <2>9 DEF RmStep
    <3> QED BY <3>1, <3>2, <2>1, <2>7, OthersListed
  <2>12. Removals(y) /\ ~NoneToRemove(y)
    <3>1. RmPut(a, y, e)
      BY <2>3, <2>9 DEF RmPut, RmStep
    <3>2. \A f \in Eds \ {e} : y.ed[f] = a.ed[f]
      BY <2>3, <2>8 DEF RmStep
    <3>3. y.ed[e].skip /\ Removed(y, e) /\ y.ed[e].state # "NEW"
      BY <2>3, <2>6, <2>7 DEF RmStep, Removed
    <3> QED BY <3>1, <3>2, <3>3, <2>1, <2>7, RemovedMore
  <2>13. Running(x) => Running(y)
    BY <2>1, <2>3, <2>9, <2>12 DEF Running, RmStep
  <2>14. y.rm[1 - frame] = x.rm[1 - frame]
    BY <2>1, <2>3, <2>9 DEF RmStep, RmPut
  <2>15. SameTds(x, y)
    BY <2>1, <2>10, SameSame
  <2>16. \A f \in Eds \ {e} : y.ed[f] = x.ed[f]
    BY <2>1, <2>3, <2>8 DEF RmStep
  <2>17. ~y.ed[e].urbdel
    BY <2>6, <2>7
  <2>18. Doomed(x, y)
    BY <2>7, <2>11, <2>12, <2>13, <2>14, <2>15 DEF Doomed
  <2> QED BY <2>16, <2>17, <2>18
<1> QED
  BY <1>1, <1>2

-----------------------------------------------------------------------------
(* sohci_submit_urb, its first part.                                         *)
Adding(x, u, e, p, r) == [x EXCEPT !.urb[u].stage = "filling", !.pool = p, !.ed[e] = r]

AddStep(x, y, u, e, p, r) ==
    /\ y \in DD /\ y.td = x.td /\ y.pool = p /\ y.list = x.list /\ y.on = x.on /\ y.rm = x.rm
    /\ y.ed[e] = r /\ \A f \in Eds \ {e} : y.ed[f] = x.ed[f]
    /\ \A v \in Urbs \ {u} : y.urb[v] = x.urb[v]
    /\ y.urb[u].stage = "filling" /\ y.urb[u].tds = x.urb[u].tds /\ y.urb[u].cnt = x.urb[u].cnt

(* The first part of a submit changes only its request, its endpoint and the *)
(* pool.                                                                     *)
LEMMA AddShape ==
    ASSUME NEW x \in DD, NEW u \in Urbs, NEW e \in Eds, NEW p \in Pools, NEW r \in EdRec,
           NEW y, y = Adding(x, u, e, p, r)
    PROVE  AddStep(x, y, u, e, p, r)
<1> DEFINE s == [x.urb[u] EXCEPT !.stage = "filling"]
           U == [x.urb EXCEPT ![u] = s]
           E == [x.ed EXCEPT ![e] = r]
<1>1. /\ x.ed \in [Eds -> EdRec] /\ x.td \in [Blocks -> TdRec] /\ x.urb \in [Urbs -> UrbRec]
      /\ x.pool \in Pools /\ x.list \in [Kinds -> Seq(Eds)] /\ x.on \in SUBSET Kinds
      /\ x.rm \in [Frames -> Seq(Eds)]
  BY DEF DD
<1>2. /\ s \in UrbRec /\ s.stage = "filling" /\ s.tds = x.urb[u].tds /\ s.cnt = x.urb[u].cnt
  <2>1. x.urb[u] \in UrbRec
    BY <1>1
  <2>2. DOMAIN x.urb[u] = {"stage", "del", "tds", "cnt"}
    BY <2>1, Zenon DEF UrbRec
  <2>3. s \in UrbRec
    BY <2>1, Zenon DEF UrbRec
  <2> QED BY <2>2, <2>3
<1>3. y = [x EXCEPT !.urb = U, !.pool = p, !.ed = E]
  BY DEF Adding, DD
<1> HIDE DEF s
<1>4. U \in [Urbs -> UrbRec] /\ U[u] = s /\ \A v \in Urbs \ {u} : U[v] = x.urb[v]
  BY <1>1, <1>2
<1>5. E \in [Eds -> EdRec] /\ E[e] = r /\ \A f \in Eds \ {e} : E[f] = x.ed[f]
  BY <1>1
<1> HIDE DEF U, E
<1>6. y.urb = U /\ y.ed = E /\ y.pool = p /\ y.td = x.td /\ y.list = x.list /\ y.on = x.on
      /\ y.rm = x.rm /\ y \in DD
  BY <1>1, <1>3, <1>4, <1>5 DEF DD
<1> QED
  BY <1>2, <1>4, <1>5, <1>6 DEF AddStep

(* The lists, once e is ready for a request.                                 *)
LEMMA AddedLists ==
    ASSUME NEW x \in DD, NEW y, NEW u, NEW e \in Eds, NEW p, NEW r, AddStep(x, y, u, e, p, r),
           ~Removed(x, e), ~r.urbdel, ~r.skip,
           r.state = IF x.ed[e].state = "NEW" THEN "UNLINK" ELSE x.ed[e].state
    PROVE  /\ Lists(x) => Lists(y) /\ (Running(x) => Running(y))
           /\ Removals(x) => Removals(y)
<1>1. y \in DD /\ y.ed[e] = r /\ (\A f \in Eds \ {e} : y.ed[f] = x.ed[f])
      /\ y.list = x.list /\ y.on = x.on /\ y.rm = x.rm
  BY DEF AddStep
<1>2. \A f \in Eds : y.ed[f].state = "OPER" <=> x.ed[f].state = "OPER"
  BY <1>1
<1>3. Lists(x) => Lists(y)
  BY <1>1, <1>2, OthersListed
<1>4. Running(x) => Running(y)
  BY <1>1 DEF Running, NoneToRemove
<1>5. ASSUME Removals(x) PROVE Removals(y)
  <2>1. ~Removed(y, e) /\ \A f \in Eds \ {e} : Removed(y, f) <=> Removed(x, f)
    BY <1>1 DEF Removed
  <2>2. \A f \in Eds : /\ Removed(y, f) <=> Removed(x, f)
                       /\ Removed(x, f) => y.ed[f].skip /\ y.ed[f].state # "NEW"
                       /\ y.ed[f].state = "OPER" /\ ~y.ed[f].urbdel => ~y.ed[f].skip
    BY <1>1, <1>5, <2>1 DEF Removals
  <2> QED BY <1>1, <1>5, <2>2, OthersRemoved
<1> QED
  BY <1>3, <1>4, <1>5

(* The queues, Q being those before and after.                               *)
Carried(x, y, Q, D, dead) ==
    /\ Tds(y, Q, D, dead) /\ (\A t \in D : Owner(y, t) = Owner(x, t))
    /\ \A F \in SUBSET D : Halts(x, Q, F) => Halts(y, Q, F)
    /\ \A S : Owing(x, S, dead) => Owing(y, S, dead)

(* The first part of a submit, which makes the endpoint and its dummy if     *)
(* there is none, keeps all that is known of TDs.                            *)
LEMMA AddedTds ==
    ASSUME NEW x \in DD, NEW y, NEW u \in Urbs, NEW e \in Eds, NEW p, NEW r, AddStep(x, y, u, e, p, r),
           OhciAssumption, NEW Q, NEW D, NEW dead, Tds(x, Q, D, dead), x.urb[u].stage = "idle",
           r.state # "NEW",
           \/ /\ x.ed[e].state # "NEW" /\ p = x.pool
              /\ r.head = x.ed[e].head /\ r.tail = x.ed[e].tail /\ r.halted = x.ed[e].halted
           \/ /\ x.ed[e].state = "NEW" /\ r.head = r.tail
              /\ r.tail \in Blocks \ InUse(x.pool) /\ InUse(p) = InUse(x.pool) \cup {r.tail}
    PROVE  Carried(x, y, Q, D, dead)
<1>1. y \in DD /\ y.td = x.td /\ y.pool = p /\ y.ed[e] = r /\ \A f \in Eds \ {e} : y.ed[f] = x.ed[f]
  BY DEF AddStep
<1>2. \A v \in Urbs : y.urb[v].tds = x.urb[v].tds /\ y.urb[v].cnt = x.urb[v].cnt
  BY DEF AddStep
<1>3. \A v \in Urbs : v \in Linked(y) <=> v \in Linked(x)
  BY DEF AddStep, Linked
<1>4. \A v \in Urbs : y.urb[v].cnt <= Size[v]
  BY <1>2 DEF Tds, Counted
<1>5. CASE /\ x.ed[e].state # "NEW" /\ p = x.pool
           /\ r.head = x.ed[e].head /\ r.tail = x.ed[e].tail /\ r.halted = x.ed[e].halted
  <2>1. \A f \in Eds : f \in Used(y) <=> f \in Used(x)
    BY <1>1, <1>5 DEF Used
  <2>2. \A f \in Used(x) : y.ed[f].head = x.ed[f].head /\ y.ed[f].tail = x.ed[f].tail
                           /\ y.ed[f].halted = x.ed[f].halted
    BY <1>1, <1>5 DEF Used
  <2>4. y \in DD /\ y.td = x.td /\ y.pool = x.pool
    BY <1>1, <1>5
  <2>5. \A v \in Linked(x) : y.urb[v].tds = x.urb[v].tds /\ y.urb[v].cnt = x.urb[v].cnt
    BY <1>2 DEF Linked
  <2>3. /\ Tds(y, Q, D, dead)
        /\ \A F \in SUBSET D : Halts(x, Q, F) => Halts(y, Q, F)
        /\ \A S : Owing(x, S, dead) => Owing(y, S, dead)
    BY <1>3, <1>4, <2>1, <2>2, <2>4, <2>5, Untouched
  <2> QED BY <1>1, <2>3 DEF Carried, Owner
<1>6. CASE /\ x.ed[e].state = "NEW" /\ r.head = r.tail
           /\ r.tail \in Blocks \ InUse(x.pool) /\ InUse(p) = InUse(x.pool) \cup {r.tail}
  <2> DEFINE b == r.tail
  <2>1. e \in Eds \ Used(x) /\ Used(y) = Used(x) \cup {e}
    BY <1>1, <1>6 DEF Used
  <2>2. b \in Blocks \ InUse(x.pool) /\ InUse(y.pool) = InUse(x.pool) \cup {b}
    BY <1>1, <1>6
  <2>3. y.ed[e].head = b /\ y.ed[e].tail = b
    BY <1>1, <1>6
  <2>4. Linked(y) = Linked(x)
    BY <1>3 DEF Linked
  <2> HIDE DEF b
  <2>5. /\ Tds(y, Q, D, dead)
        /\ \A F \in SUBSET D : Halts(x, Q, F) => Halts(y, Q, F)
        /\ \A S : Owing(x, S, dead) => Owing(y, S, dead)
    BY <1>1, <1>2, <2>1, <2>2, <2>3, <2>4, Added
  <2> QED BY <1>1, <2>5 DEF Carried, Owner
<1> QED
  BY <1>5, <1>6

-----------------------------------------------------------------------------
(* Its second part.                                                          *)

(* The new blocks are nobody's, and stay so until the request has them.      *)
LEMMA NewBlocksFree ==
    ASSUME NEW x \in DD, NEW Q, NEW D, NEW dead, OhciAssumption, Tds(x, Q, D, dead),
           NEW B, B \subseteq Blocks, B \cap InUse(x.pool) = {}
    PROVE  \A t \in B : Owner(x, t) = Nil /\ t \notin Coming(Q) \cup D /\ \A e \in Used(x) : x.ed[e].tail # t
<1>1. Queues(x, Q) /\ Belongs(x) /\ Dummies(x) /\ Out(x, Q, D)
  BY DEF Tds
<1>2. Nil \notin Urbs
  BY DEF OhciAssumption
<1> SUFFICES ASSUME NEW t \in B
             PROVE  Owner(x, t) = Nil /\ t \notin Coming(Q) \cup D /\ \A e \in Used(x) : x.ed[e].tail # t
  OBVIOUS
<1>3. t \in Blocks /\ t \notin InUse(x.pool)
  OBVIOUS
<1>4. Owner(x, t) = Nil
  BY <1>1, <1>3 DEF Belongs
<1>5. t \notin Coming(Q)
  BY <1>1, <1>2, <1>4, ComingTd
<1>6. t \notin D
  BY <1>1, <1>2, <1>4 DEF Out
<1>7. \A e \in Used(x) : x.ed[e].tail # t
  BY <1>1, <1>3 DEF Dummies
<1> QED
  BY <1>4, <1>5, <1>6, <1>7

(* There are too few blocks, those there are go back to the pool.            *)
LEMMA FillFailed ==
    ASSUME NEW x \in DD, NEW Q, NEW D, NEW dead, OhciAssumption, Tds(x, Q, D, dead),
           NEW u \in Urbs, x.urb[u].stage = "filling", NEW n \in Nat,
           NEW got, got = AllocTds(x.pool, n), NEW z, z = SetPool(x, got.pool),
           NEW w, w = FreeTds(z, Range(got.tds)), NEW y, y = SetUrb(w, u, NewUrb)
    PROVE  /\ y \in DD /\ y.ed = x.ed /\ y.list = x.list /\ y.on = x.on /\ y.rm = x.rm
           /\ y.urb[u] = NewUrb /\ (\A v \in Urbs \ {u} : y.urb[v] = x.urb[v])
           /\ Carried(x, y, Q, D, dead)
<1> DEFINE B == Range(got.tds)
<1>1. /\ got.pool \in Pools /\ got.tds \in Seq(Blocks)
      /\ B \cap InUse(x.pool) = {} /\ InUse(got.pool) = InUse(x.pool) \cup B
  BY Parts, TdsAllocated
<1>2. B \subseteq Blocks
  BY <1>1, NotEmpty
<1>3. w = FreeTds(z, B)
  OBVIOUS
<1> HIDE DEF B
<1>4. /\ z \in DD /\ z.pool = got.pool /\ z.urb = x.urb
      /\ z.td = x.td /\ z.ed = x.ed /\ z.list = x.list /\ z.on = x.on /\ z.rm = x.rm
  BY <1>1, SetPoolShape
<1>5. w \in DD /\ w.ed = z.ed /\ w.urb = z.urb /\ w.list = z.list /\ w.on = z.on /\ w.rm = z.rm
  BY <1>2, <1>3, <1>4, FreeTdsShape
<1>6. \A t \in Blocks : w.td[t] = IF t \in B THEN NewTd ELSE z.td[t]
  BY <1>2, <1>3, <1>4, FreeTdsShape
<1>7. InUse(w.pool) = InUse(z.pool) \ B
  BY <1>2, <1>3, <1>4, FreeTdsShape, SMTT(30)
<1>8. NewUrb \in UrbRec
  BY TdRecords
<1>9. y \in DD /\ y.urb[u] = NewUrb
  BY <1>5, <1>8, SetUrbShape
<1>10. \A v \in Urbs \ {u} : y.urb[v] = w.urb[v]
  BY <1>5, <1>8, SetUrbShape
<1>11. y.td = w.td /\ y.ed = w.ed /\ y.pool = w.pool /\ y.list = w.list /\ y.on = w.on /\ y.rm = w.rm
  BY <1>5, <1>8, SetUrbShape
<1>12. \A t \in B : Owner(x, t) = Nil
  BY <1>1, <1>2, NewBlocksFree
<1>13. \A t \in Blocks : Owner(x, t) # Nil \/ Owner(y, t) # Nil => y.td[t] = x.td[t]
  BY <1>4, <1>6, <1>11, <1>12, TdRecords DEF Owner
<1>14. InUse(x.pool) \subseteq InUse(y.pool)
  BY <1>1, <1>4, <1>7, <1>11
<1>15. \A v \in Urbs : v \in Linked(y) <=> v \in Linked(x)
  BY <1>4, <1>5, <1>9, <1>10, TdRecords DEF Linked
<1>16. \A v \in Linked(x) : y.urb[v].tds = x.urb[v].tds /\ y.urb[v].cnt = x.urb[v].cnt
  BY <1>4, <1>5, <1>10 DEF Linked
<1>17. \A v \in Urbs : y.urb[v].cnt <= Size[v]
  <2>1. \A v \in Urbs : x.urb[v].cnt <= Size[v] /\ 0 <= Size[v]
    BY DEF Tds, Counted, OhciAssumption
  <2> QED BY <2>1, <1>4, <1>5, <1>9, <1>10, TdRecords
<1>18. \A f \in Eds : f \in Used(y) <=> f \in Used(x)
  BY <1>4, <1>5, <1>11 DEF Used
<1>19. \A f \in Used(x) : y.ed[f].head = x.ed[f].head /\ y.ed[f].tail = x.ed[f].tail
                          /\ y.ed[f].halted = x.ed[f].halted
  BY <1>4, <1>5, <1>11
<1>20. /\ Tds(y, Q, D, dead)
       /\ \A F \in SUBSET D : Halts(x, Q, F) => Halts(y, Q, F)
       /\ \A S : Owing(x, S, dead) => Owing(y, S, dead)
  BY <1>9, <1>13, <1>14, <1>15, <1>16, <1>17, <1>18, <1>19, Untouched
<1>21. \A t \in D : Owner(y, t) = Owner(x, t)
  <2>1. \A t \in D : t \in Blocks /\ Owner(x, t) # Nil
    BY DEF Tds, Out, OhciAssumption
  <2> QED BY <2>1, <1>13 DEF Owner
<1>22. \A v \in Urbs \ {u} : y.urb[v] = x.urb[v]
  BY <1>4, <1>5, <1>10
<1>23. y.ed = x.ed /\ y.list = x.list /\ y.on = x.on /\ y.rm = x.rm
  BY <1>4, <1>5, <1>11
<1>24. Carried(x, y, Q, D, dead)
  BY <1>20, <1>21 DEF Carried
<1> QED
  BY <1>9, <1>22, <1>23, <1>24

(* What the controller has fetched is still what comes next on e.            *)
Still(x, y, e) ==
    e \in Used(x) /\ ~x.ed[e].halted =>
      /\ e \in Used(y) /\ ~y.ed[e].halted /\ y.ed[e].head = x.ed[e].head
      /\ x.ed[e].head # x.ed[e].tail => y.ed[e].head # y.ed[e].tail

Steady(x, y) == \A e \in Eds : Still(x, y, e)

(* A request is queued, that of u: once more or for the first time.          *)
Submitted(x, y, Q, D, dead, u) ==
    \E R : /\ Tds(y, R, D, dead) /\ (\A t \in D : Owner(y, t) = Owner(x, t))
           /\ \A F \in SUBSET D : Halts(x, Q, F) => Halts(y, R, F)
           /\ \A S : Owing(x, S \cup {u}, dead) => Owing(y, S, dead)

(* The second part of a submit: the request is whole in the queue of its     *)
(* endpoint, at its end, and nothing is counted of it yet.                   *)
LEMMA Taken ==
    ASSUME NEW x \in DD, NEW Q, NEW D, NEW dead, OhciAssumption, Tds(x, Q, D, dead),
           NEW u \in Urbs, NEW e \in Used(x), e = Ep[u],
           NEW new, CanTake(x, Q, D, u, new), NEW y, y = FillTds(x, u, new)
    PROVE  /\ FillRest(x, y, u, e) /\ Submitted(x, y, Q, D, dead, u)
           /\ \A v \in Urbs \ {u} : y.urb[v] = x.urb[v]
           /\ y.urb[u].stage = "linked" /\ y.urb[u].cnt = 0
           /\ Steady(x, y)
<1> DEFINE a == x.ed[e].tail
           w == <<a>> \o Front(new)
<1>1. e \in Eds /\ x.ed[e].state # "NEW"
  BY DEF Used
<1>2. new \in Seq(Blocks) /\ Len(new) = Size[u] /\ IsInjective(new)
  BY DEF CanTake
<1>3. a \in Blocks \ Range(new) /\ a \notin D /\ a \notin Coming(Q)
  <2>1. a \in InUse(x.pool) /\ Owner(x, a) = Nil
    BY DEF Tds, Dummies
  <2>2. a \in Blocks
    BY <2>1 DEF InUse
  <2>3. Nil \notin Urbs
    BY DEF OhciAssumption
  <2>4. a \notin D
    BY <2>1, <2>3 DEF Tds, Out
  <2>5. Queues(x, Q)
    BY DEF Tds
  <2>6. a \notin Coming(Q)
    BY <2>1, <2>3, <2>5, ComingTd
  <2>7. a \notin Range(new)
    BY DEF CanTake
  <2> QED BY <2>2, <2>4, <2>6, <2>7
<1>4. FillStep(x, y, u, e, new, <<a>> \o Front(new)) /\ FillRest(x, y, u, e)
  BY <1>1, <1>2, <1>3, FillTdsShape
<1>5. FillStep(x, y, u, e, new, w)
  BY <1>4
<1>6. Size[u] \in Nat \ {0}
  BY DEF OhciAssumption
<1>7. Range(w) \cup {Last(new)} = Range(new) \cup {a} /\ Last(new) \in Range(new)
  <2> HIDE DEF a
  <2> QED BY <1>2, <1>3, <1>6, Shifted
<1> HIDE DEF w
<1>8. y \in DD
  BY <1>4 DEF FillRest
<1>9. \E R : /\ Tds(y, R, D, dead)
             /\ \A F \in SUBSET D : Halts(x, Q, F) => Halts(y, R, F)
             /\ \A S : Owing(x, S \cup {u}, dead) => Owing(y, S, dead)
  BY <1>5, <1>8, Filled
<1>10. \A t \in D : Owner(y, t) = Owner(x, t)
  <2> TAKE t \in D
  <2>1. t \in Blocks /\ t \notin Range(new)
    BY DEF CanTake, Tds, Out
  <2>2. t \notin Range(w) \cup {Last(new)}
    BY <2>1, <1>3, <1>7
  <2>3. y.td[t] = x.td[t]
    BY <2>1, <2>2, <1>5 DEF FillStep
  <2> QED BY <2>3 DEF Owner
<1>11. Submitted(x, y, Q, D, dead, u)
  BY <1>9, <1>10 DEF Submitted
<1>12. ASSUME NEW f \in Eds PROVE Still(x, y, f)
  <2> SUFFICES ASSUME f \in Used(x), ~x.ed[f].halted
               PROVE  /\ f \in Used(y) /\ ~y.ed[f].halted /\ y.ed[f].head = x.ed[f].head
                      /\ x.ed[f].head # x.ed[f].tail => y.ed[f].head # y.ed[f].tail
    BY DEF Still
  <2>1. f \in Used(y) /\ ~y.ed[f].halted /\ y.ed[f].head = x.ed[f].head
    BY <1>5 DEF FillStep
  <2>2. CASE f # e
    BY <2>1, <2>2, <1>5 DEF FillStep
  <2>3. CASE f = e
    <3> SUFFICES ASSUME x.ed[f].head # x.ed[f].tail PROVE x.ed[f].head # Last(new)
      BY <2>1, <2>3, <1>5 DEF FillStep
    <3>1. Path(x, e, Q[e])
      BY <1>1 DEF Tds, Queues
    <3>2. Q[e] \in Seq(Blocks) /\ x.ed[e].head = Next1(Q[e], 1, x.ed[e].tail)
      BY <3>1 DEF Path, Chained
    <3>3. 1 <= Len(Q[e]) /\ x.ed[e].head = Q[e][1]
      BY <3>2, <2>3 DEF Next1
    <3>4. x.ed[e].head \in Range(Q[e])
      <4> DEFINE q == Q[e]
      <4>1. q \in Seq(Blocks) /\ 1 \in 1..Len(q)
        BY <3>2, <3>3
      <4> HIDE DEF q
      <4>2. q[1] \in Range(q)
        BY <4>1, NotEmpty
      <4> QED BY <4>2, <3>3 DEF q
    <3>5. x.ed[e].head \in Coming(Q)
      BY <3>4, <1>1 DEF Coming
    <3> QED BY <3>5, <2>3, <1>7 DEF CanTake
  <2> QED BY <2>2, <2>3
<1>13. \A v \in Urbs \ {u} : y.urb[v] = x.urb[v]
  BY <1>5 DEF FillStep
<1>14. y.urb[u].stage = "linked" /\ y.urb[u].cnt = 0
  BY <1>5 DEF FillStep
<1> QED
  BY <1>4, <1>11, <1>12, <1>13, <1>14 DEF Steady

(* The lists are well formed still, and the removal lists what they were.    *)
Listed(x, y) ==
    /\ y \in DD /\ y.rm = x.rm
    /\ Lists(x) => Lists(y) /\ (Running(x) => Running(y))
    /\ Removals(x) => Removals(y)

(* They are where the endpoints' states are.                                 *)
LEMMA SameListed ==
    ASSUME NEW x \in DD, NEW y \in DD, y.list = x.list, y.on = x.on, y.rm = x.rm,
           \A e \in Eds : /\ y.ed[e].state = x.ed[e].state /\ y.ed[e].urbdel = x.ed[e].urbdel
                          /\ y.ed[e].skip = x.ed[e].skip
    PROVE  Listed(x, y)
<1>1. Lists(x) => Lists(y)
  BY OthersListed
<1>2. Running(x) => Running(y)
  BY DEF Running, NoneToRemove
<1>3. Removals(x) => Removals(y)
  BY DEF Removals, Removed
<1> QED
  BY <1>1, <1>2, <1>3 DEF Listed

(* Listed is transitive.                                                     *)
LEMMA ListedListed ==
    ASSUME NEW x, NEW y, NEW z, Listed(x, y), Listed(y, z)
    PROVE  Listed(x, z)
BY DEF Listed

(* td_fill leaves the lists alone.                                           *)
LEMMA FillListed ==
    ASSUME NEW x \in DD, NEW y, NEW u, NEW e, FillRest(x, y, u, e)
    PROVE  Listed(x, y)
<1>1. y \in DD /\ y.list = x.list /\ y.on = x.on /\ y.rm = x.rm
  BY DEF FillRest
<1>2. \A f \in Eds : /\ y.ed[f].state = x.ed[f].state /\ y.ed[f].urbdel = x.ed[f].urbdel
                     /\ y.ed[f].skip = x.ed[f].skip
  BY DEF FillRest
<1> QED
  BY <1>1, <1>2, SameListed

(* ep_link of an endpoint at rest puts it where it belongs.                  *)
LEMMA LinkListed ==
    ASSUME NEW x \in DD, NEW y, NEW e \in Eds, OhciAssumption, LinkStep(x, y, e),
           x.ed[e].state = "UNLINK", ~x.ed[e].urbdel, ~x.ed[e].skip
    PROVE  Listed(x, y)
<1>1. Lists(x) => Lists(y) /\ (Running(x) => Running(y))
  BY LinkedLists
<1>2. ASSUME Removals(x) PROVE Removals(y)
  <2>1. \A f \in Eds : /\ Removed(y, f) <=> Removed(x, f)
                       /\ Removed(x, f) => y.ed[f].skip /\ y.ed[f].state # "NEW"
                       /\ y.ed[f].state = "OPER" /\ ~y.ed[f].urbdel => ~y.ed[f].skip
    BY <1>2 DEF LinkStep, Removed, Removals
  <2>2. y.rm = x.rm
    BY DEF LinkStep
  <2> QED BY <1>2, <2>1, <2>2, OthersRemoved
<1> QED
  BY <1>1, <1>2 DEF Listed, LinkStep

(* The endpoints' queues begin and end where they did.                       *)
SameEnds(x, y) ==
    \A f \in Eds : /\ y.ed[f].head = x.ed[f].head /\ y.ed[f].tail = x.ed[f].tail
                   /\ y.ed[f].halted = x.ed[f].halted
                   /\ y.ed[f].state = "NEW" <=> x.ed[f].state = "NEW"

(* ep_link leaves head and tail of the endpoint alone.                       *)
LEMMA LinkEnds ==
    ASSUME NEW x, NEW y, NEW e, LinkStep(x, y, e), x.ed[e].state = "UNLINK"
    PROVE  SameEnds(x, y)
<1> SUFFICES ASSUME NEW f \in Eds
             PROVE  /\ y.ed[f].head = x.ed[f].head /\ y.ed[f].tail = x.ed[f].tail
                    /\ y.ed[f].halted = x.ed[f].halted
                    /\ y.ed[f].state = "NEW" <=> x.ed[f].state = "NEW"
  BY DEF SameEnds
<1>1. CASE f = e
  BY <1>1 DEF LinkStep
<1>2. CASE f # e
  <2>1. y.ed[f] = x.ed[f]
    BY <1>2 DEF LinkStep
  <2> QED BY <2>1
<1> QED
  BY <1>1, <1>2

(* The same ends of queues, seen from an equal set of endpoints.             *)
LEMMA EndsFrom ==
    ASSUME NEW x, NEW z, NEW a, z.ed = x.ed, SameEnds(z, a)
    PROVE  SameEnds(x, a)
BY DEF SameEnds

(* The endpoint has been linked, from x to a; no TD has changed.             *)
Readied(x, a, Q, D, dead) ==
    /\ Tds(a, Q, D, dead) /\ a.td = x.td /\ a.urb = x.urb
    /\ Used(a) = Used(x) /\ SameEnds(x, a) /\ Listed(x, a)
    /\ \A F \in SUBSET D : Halts(x, Q, F) => Halts(a, Q, F)
    /\ \A S : Owing(x, S, dead) => Owing(a, S, dead)

(* A submit is through, that of u.                                           *)
Ended(x, y, Q, D, dead, u) ==
    /\ Listed(x, y) /\ Submitted(x, y, Q, D, dead, u)
    /\ \A v \in Urbs \ {u} : y.urb[v] = x.urb[v]
    /\ y.urb[u].stage = "linked" /\ y.urb[u].cnt = 0
    /\ Steady(x, y)

(* A submit that has got its TDs, once its endpoint is linked: the request   *)
(* is whole in the queue, and nothing else has changed.                      *)
LEMMA SubmitEnds ==
    ASSUME NEW x \in DD, NEW a \in DD, NEW Q, NEW D, NEW dead, OhciAssumption, Readied(x, a, Q, D, dead),
           NEW u \in Urbs, NEW e \in Eds, e = Ep[u], e \in Used(a),
           NEW new, CanTake(a, Q, D, u, new), NEW y, y = FillTds(a, u, new)
    PROVE  Ended(x, y, Q, D, dead, u)
<1>1. /\ Tds(a, Q, D, dead) /\ a.td = x.td /\ a.urb = x.urb
      /\ Used(a) = Used(x) /\ SameEnds(x, a) /\ Listed(x, a)
      /\ \A F \in SUBSET D : Halts(x, Q, F) => Halts(a, Q, F)
      /\ \A S : Owing(x, S, dead) => Owing(a, S, dead)
  BY DEF Readied
<1>2. FillRest(a, y, u, e)
  BY <1>1, Taken
<1>3. Submitted(a, y, Q, D, dead, u)
  BY <1>1, Taken
<1>4. \A v \in Urbs \ {u} : y.urb[v] = a.urb[v]
  BY <1>1, Taken
<1>5. y.urb[u].stage = "linked" /\ y.urb[u].cnt = 0
  BY <1>1, Taken
<1>6. Steady(a, y)
  BY <1>1, Taken
<1>7. Listed(x, y)
  <2>1. Listed(a, y)
    BY <1>2, FillListed
  <2> QED BY <1>1, <2>1, ListedListed
<1>8. Submitted(x, y, Q, D, dead, u)
  <2>1. PICK R : /\ Tds(y, R, D, dead) /\ (\A t \in D : Owner(y, t) = Owner(a, t))
                 /\ \A F \in SUBSET D : Halts(a, Q, F) => Halts(y, R, F)
                 /\ \A S : Owing(a, S \cup {u}, dead) => Owing(y, S, dead)
    BY <1>3 DEF Submitted
  <2>2. \A t \in D : Owner(y, t) = Owner(x, t)
    BY <1>1, <2>1 DEF Owner
  <2>3. \A F \in SUBSET D : Halts(x, Q, F) => Halts(y, R, F)
    BY <1>1, <2>1
  <2>4. \A S : Owing(x, S \cup {u}, dead) => Owing(y, S, dead)
    BY <1>1, <2>1
  <2> QED BY <2>1, <2>2, <2>3, <2>4 DEF Submitted
<1>9. Steady(x, y)
  <2> SUFFICES ASSUME NEW f \in Eds PROVE Still(x, y, f)
    BY DEF Steady
  <2>1. Still(a, y, f)
    BY <1>6 DEF Steady
  <2>2. f \in Used(a) <=> f \in Used(x)
    BY <1>1
  <2>3. /\ a.ed[f].head = x.ed[f].head /\ a.ed[f].tail = x.ed[f].tail
        /\ a.ed[f].halted = x.ed[f].halted
    BY <1>1 DEF SameEnds
  <2> QED BY <2>1, <2>2, <2>3 DEF Still
<1>10. \A v \in Urbs \ {u} : y.urb[v] = x.urb[v]
  BY <1>1, <1>4
<1> QED
  BY <1>5, <1>7, <1>8, <1>9, <1>10 DEF Ended

(* A submit that got all its TDs: the request is whole in the queue, the     *)
(* endpoint is on its list.                                                  *)
LEMMA FillDone ==
    ASSUME NEW x \in DD, NEW Q, NEW D, NEW dead, OhciAssumption, Tds(x, Q, D, dead),
           NEW u \in Urbs, x.urb[u].stage = "filling", NEW e \in Eds, e = Ep[u],
           x.ed[e].state \in {"UNLINK", "OPER"}, ~x.ed[e].urbdel, ~x.ed[e].skip,
           NEW got, got = AllocTds(x.pool, Size[u]), ~(Len(got.tds) < Size[u]),
           NEW z, z = SetPool(x, got.pool),
           NEW a, a = IF x.ed[e].state = "OPER" /\ ~x.ed[e].urbdel THEN z ELSE EpLink(z, e),
           NEW y, y = FillTds(a, u, got.tds)
    PROVE  Ended(x, y, Q, D, dead, u)
<1> DEFINE new == got.tds
           B == Range(new)
<1>1. Size[u] \in Nat \ {0}
  BY DEF OhciAssumption
<1>2. /\ got.pool \in Pools /\ new \in Seq(Blocks) /\ IsInjective(new) /\ Len(new) = Size[u]
      /\ B \cap InUse(x.pool) = {} /\ InUse(got.pool) = InUse(x.pool) \cup B
  <2>1. /\ got.pool \in Pools /\ new \in Seq(Blocks) /\ IsInjective(new)
        /\ Len(new) <= Size[u]
        /\ B \cap InUse(x.pool) = {} /\ InUse(got.pool) = InUse(x.pool) \cup B
    BY <1>1, Parts, TdsAllocated
  <2>2. Len(new) \in Nat
    BY <2>1, NotEmpty
  <2> HIDE DEF B
  <2> QED BY <2>1, <2>2, <1>1
<1>3. B \subseteq Blocks
  BY <1>2, NotEmpty
<1>4. \A t \in B : Owner(x, t) = Nil /\ t \notin Coming(Q) \cup D /\ \A f \in Used(x) : x.ed[f].tail # t
  <2> HIDE DEF B
  <2> QED BY <1>2, <1>3, NewBlocksFree, SMTT(30)
<1>5. /\ z \in DD /\ z.pool = got.pool /\ z.urb = x.urb
      /\ z.td = x.td /\ z.ed = x.ed /\ z.list = x.list /\ z.on = x.on /\ z.rm = x.rm
  <2> HIDE DEF new, B
  <2> QED BY <1>2, SetPoolShape
<1>6. Listed(x, z)
  BY <1>5, SameListed
<1>7. Listed(z, a) /\ a.td = z.td /\ a.urb = z.urb /\ a.pool = z.pool /\ a \in DD /\ SameEnds(z, a)
  <2>1. CASE x.ed[e].state = "OPER"
    <3>1. a = z
      BY <2>1
    <3>2. Listed(z, z)
      BY <1>5, SameListed
    <3>3. SameEnds(z, z)
      BY DEF SameEnds
    <3> QED BY <3>1, <3>2, <3>3, <1>5
  <2>2. CASE x.ed[e].state = "UNLINK"
    <3>1. a = EpLink(z, e)
      BY <2>2
    <3>2. LinkStep(z, a, e)
      BY <3>1, <1>5, EpLinkShape
    <3>3. z.ed[e].state = "UNLINK" /\ ~z.ed[e].urbdel /\ ~z.ed[e].skip
      BY <2>2, <1>5
    <3>4. Listed(z, a)
      BY <3>2, <3>3, <1>5, LinkListed
    <3>5. SameEnds(z, a)
      BY <3>2, <3>3, LinkEnds
    <3> QED BY <3>2, <3>4, <3>5 DEF LinkStep
  <2> QED BY <2>1, <2>2
<1> HIDE DEF B, new
<1>8. a \in DD /\ a.td = x.td /\ a.urb = x.urb /\ a.pool = got.pool
  BY <1>5, <1>7
<1>9. SameEnds(x, a)
  <2>1. SameEnds(z, a)
    BY <1>7
  <2> QED BY <2>1, <1>5, EndsFrom
<1>10. Used(a) = Used(x) /\ Linked(a) = Linked(x)
  <2>1. Used(a) = Used(x)
    BY <1>9 DEF Used, SameEnds
  <2> QED BY <2>1, <1>8 DEF Linked
<1>11. /\ Tds(a, Q, D, dead)
       /\ \A F \in SUBSET D : Halts(x, Q, F) => Halts(a, Q, F)
       /\ \A S : Owing(x, S, dead) => Owing(a, S, dead)
  <2>1. InUse(x.pool) \subseteq InUse(a.pool)
    BY <1>2, <1>8
  <2>2. \A v \in Urbs : a.urb[v].cnt <= Size[v]
    BY <1>8 DEF Tds, Counted
  <2>3. \A f \in Used(x) : /\ a.ed[f].head = x.ed[f].head /\ a.ed[f].tail = x.ed[f].tail
                           /\ a.ed[f].halted = x.ed[f].halted
    BY <1>9 DEF Used, SameEnds
  <2> QED BY <1>8, <1>10, <2>1, <2>2, <2>3, Untouched
<1>12. CanTake(a, Q, D, u, new)
  <2>1. Range(new) = B
    BY DEF B
  <2>2. \A t \in Range(new) : Owner(a, t) \in {Nil, u} /\ t \notin Coming(Q) \cup D
    BY <1>4, <1>8, <2>1 DEF Owner
  <2>3. \A f \in Used(a) : a.ed[f].tail \notin Range(new)
    <3> TAKE f \in Used(a)
    <3>1. f \in Used(x) /\ a.ed[f].tail = x.ed[f].tail
      BY <1>9, <1>10 DEF Used, SameEnds
    <3> QED BY <3>1, <1>4, <2>1
  <2>4. \A t \in Blocks : Owner(a, t) # u
    <3>1. u \notin Linked(a)
      BY <1>8 DEF Linked
    <3>2. \A t \in Blocks : Owner(a, t) # Nil => Owner(a, t) \in Linked(a)
      BY <1>11 DEF Tds, Belongs
    <3>3. u # Nil
      BY DEF OhciAssumption
    <3> QED BY <3>1, <3>2, <3>3
  <2>5. Range(new) \subseteq InUse(a.pool)
    BY <1>2, <1>8, <2>1
  <2> QED BY <1>2, <2>2, <2>3, <2>4, <2>5 DEF CanTake
<1>13. e \in Used(a)
  BY <1>10 DEF Used
<1>14. y = FillTds(a, u, new)
  BY DEF new
<1>15. Listed(x, a)
  BY <1>6, <1>7, ListedListed
<1>16. Readied(x, a, Q, D, dead)
  BY <1>8, <1>9, <1>10, <1>11, <1>15 DEF Readied
<1> QED
  BY <1>8, <1>12, <1>13, <1>14, <1>16, SubmitEnds

-----------------------------------------------------------------------------
(* The handler comes to a TD that is done.                                   *)

(* When its last TD has been counted, a request can be queued again on its   *)
(* own TDs.                                                                  *)
LEMMA OwnTds ==
    ASSUME NEW x \in DD, NEW Q, NEW D, NEW dead, OhciAssumption, Tds(x, Q, D, dead),
           NEW u \in Linked(x), Pending(x, Q, D, u) = {}
    PROVE  CanTake(x, Q, D, u, x.urb[u].tds)
<1> DEFINE s == x.urb[u].tds
           n == Size[u]
<1>1. u \in Urbs /\ n \in Nat \ {0} /\ Nil \notin Urbs
  BY DEF Linked, OhciAssumption
<1>2. s \in Seq(Blocks)
  BY <1>1, Parts
<1>3. Len(s) = n /\ \A i \in 1..n : Owner(x, s[i]) = u /\ x.td[s[i]].index = i - 1
  BY DEF Tds, Whole
<1>4. /\ (\A t : t \in Range(s) <=> \E i \in 1..Len(s) : s[i] = t) /\ Range(s) \subseteq Blocks
      /\ IsInjective(s) <=> \A i, j \in 1..Len(s) : s[i] = s[j] => i = j
  <2> HIDE DEF s
  <2> QED BY <1>2, NotEmpty
<1> HIDE DEF s, n
<1>5. IsInjective(s)
  <2>1. \A i, j \in 1..n : s[i] = s[j] => i - 1 = j - 1
    BY <1>3
  <2>2. \A i, j \in 1..n : i - 1 = j - 1 => i = j
    BY <1>1
  <2> QED BY <2>1, <2>2, <1>3, <1>4
<1>6. \A t \in Range(s) : Owner(x, t) = u
  BY <1>3, <1>4
<1>7. Range(s) \subseteq InUse(x.pool)
  BY <1>1, <1>4, <1>6 DEF Tds, Belongs
<1>8. \A t \in Range(s) : t \notin Coming(Q) \cup D
  BY <1>6 DEF Pending
<1>9. \A f \in Used(x) : x.ed[f].tail \notin Range(s)
  BY <1>1, <1>6 DEF Tds, Dummies
<1>10. ASSUME NEW t \in Blocks, Owner(x, t) = u PROVE t \in Range(s)
  <2>1. x.td[t].index < n /\ s[x.td[t].index + 1] = t
    BY <1>1, <1>10 DEF Tds, Belongs, n, s
  <2>2. x.td[t].index \in Nat
    BY Parts
  <2>3. x.td[t].index + 1 \in 1..n
    BY <1>1, <2>1, <2>2
  <2> QED BY <1>3, <1>4, <2>1, <2>3
<1>11. CanTake(x, Q, D, u, s)
  BY <1>2, <1>3, <1>5, <1>6, <1>7, <1>8, <1>9, <1>10 DEF CanTake, n
<1> QED
  BY <1>11 DEF s

(* The request of a TD that has been counted.                                *)
Finish(x, u, state, del) ==
    IF x.urb[u].cnt # Size[u] THEN x
    ELSE IF state \in {"OPER", "UNLINK"} /\ ~del THEN ReturnUrb(x, u) ELSE GiveBack(x, {u})

(* Nothing but a request is finished, on the way from x to y.                *)
Quiet(x, y) ==
    /\ Listed(x, y) /\ Steady(x, y)
    /\ \A v \in Urbs : y.urb[v].stage = "filling" => x.urb[v].stage = "filling"

(* Quiet is transitive as long as nothing halts.                             *)
LEMMA QuietQuiet ==
    ASSUME NEW x, NEW y, NEW z, Quiet(x, y), Quiet(y, z),
           \A e \in Eds : e \in Used(x) /\ ~x.ed[e].halted => ~y.ed[e].halted
    PROVE  Quiet(x, z)
<1>1. Listed(x, z)
  BY ListedListed DEF Quiet
<1>2. Steady(x, z)
  <2> SUFFICES ASSUME NEW e \in Eds PROVE Still(x, z, e)
    BY DEF Steady
  <2>1. Still(x, y, e) /\ Still(y, z, e)
    BY DEF Quiet, Steady
  <2> QED BY <2>1 DEF Still
<1> QED
  BY <1>1, <1>2 DEF Quiet

(* When the last TD of a request is counted the request is given back, or    *)
(* waits for the removal to come; either way nothing is owed any more.       *)
LEMMA Finished ==
    ASSUME NEW x \in DD, NEW Q, NEW D, NEW dead, OhciAssumption, Tds(x, Q, D, dead),
           NEW u \in Linked(x), Owing(x, {u}, dead), Ep[u] \in Used(x), NEW state, NEW del,
           NEW F \in SUBSET D, Halts(x, Q, F), NEW y, y = Finish(x, u, state, del)
    PROVE  /\ Quiet(x, y)
           /\ \E R : /\ Tds(y, R, D, dead) /\ (\A t \in D : Owner(y, t) = Owner(x, t))
                     /\ Halts(y, R, F) /\ Owing(y, {}, dead)
<1>1. u \in Urbs /\ Size[u] \in Nat \ {0} /\ Ep[u] \in Eds /\ x.urb[u].cnt \in Nat
  BY Parts DEF Linked, OhciAssumption
<1>2. Queues(x, Q) /\ Out(x, Q, D) /\ Counted(x, Q, D, dead)
  BY DEF Tds
<1>3. x.urb[u].cnt <= Size[u] /\ x.urb[u].cnt + Cardinality(Pending(x, Q, D, u)) <= Size[u]
  BY <1>1, <1>2 DEF Counted
<1>4. Quiet(x, x)
  BY SameListed DEF Quiet, Steady, Still
<1>5. CASE x.urb[u].cnt # Size[u]
  <2>1. y = x
    BY <1>5 DEF Finish
  <2>2. Owing(x, {}, dead)
    BY <1>1, <1>3, <1>5 DEF Owing
  <2> QED BY <2>1, <2>2, <1>4
<1>6. CASE x.urb[u].cnt = Size[u]
  <2>1. Pending(x, Q, D, u) = {}
    <3> DEFINE n == Cardinality(Pending(x, Q, D, u))
    <3>1. n \in Nat /\ (n = 0 <=> Pending(x, Q, D, u) = {})
      BY <1>2, PendingFinite
    <3>2. Size[u] + n <= Size[u]
      BY <1>3, <1>6
    <3> HIDE DEF n
    <3> QED BY <1>1, <3>1, <3>2
  <2>2. CASE y = FillTds(x, u, x.urb[u].tds)
    <3> DEFINE new == x.urb[u].tds
               e == Ep[u]
    <3>1. CanTake(x, Q, D, u, new) /\ e \in Used(x) /\ e = Ep[u] /\ y = FillTds(x, u, new)
      BY <2>1, <2>2, OwnTds
    <3> HIDE DEF new, e
    <3>2. FillRest(x, y, u, e)
      BY <1>1, <3>1, Taken
    <3>3. Submitted(x, y, Q, D, dead, u)
      BY <1>1, <3>1, Taken
    <3>4. \A v \in Urbs \ {u} : y.urb[v] = x.urb[v]
      BY <1>1, <3>1, Taken
    <3>5. y.urb[u].stage = "linked" /\ Steady(x, y)
      BY <1>1, <3>1, Taken
    <3>6. Quiet(x, y)
      BY <3>2, <3>4, <3>5, FillListed DEF Quiet
    <3>7. PICK R : /\ Tds(y, R, D, dead) /\ (\A t \in D : Owner(y, t) = Owner(x, t))
                   /\ \A G \in SUBSET D : Halts(x, Q, G) => Halts(y, R, G)
                   /\ \A S : Owing(x, S \cup {u}, dead) => Owing(y, S, dead)
      BY <3>3 DEF Submitted
    <3>8. Owing(y, {}, dead)
      <4>1. {} \cup {u} = {u}
        OBVIOUS
      <4>2. Owing(x, {} \cup {u}, dead)
        BY <4>1
      <4> QED BY <3>7, <4>2
    <3> QED BY <3>6, <3>7, <3>8
  <2>3. CASE y = GiveBack(x, {u})
    <3> DEFINE S == {u}
    <3>1. S \in SUBSET Linked(x) /\ (\A v \in S : Pending(x, Q, D, v) = {}) /\ y = GiveBack(x, S)
      BY <2>1, <2>3
    <3>2. Owing(x, {} \cup S, dead)
      <4>1. {} \cup {u} = {u}
        OBVIOUS
      <4> QED BY <4>1
    <3>3. \A v : v \in S <=> v = u
      OBVIOUS
    <3> HIDE DEF S
    <3>4. y \in DD /\ y.ed = x.ed /\ y.list = x.list /\ y.on = x.on /\ y.rm = x.rm
      BY <3>1, Released
    <3>5. \A v \in Urbs : y.urb[v] = IF v \in S THEN NewUrb ELSE x.urb[v]
      BY <3>1, Released
    <3>6. Tds(y, Q, D, dead)
      BY <3>1, Released
    <3>7. \A t \in D : Owner(y, t) = Owner(x, t)
      BY <3>1, Released
    <3>8. \A G \in SUBSET D : Halts(x, Q, G) => Halts(y, Q, G)
      BY <3>1, Released
    <3>9. \A W : Owing(x, W \cup S, dead) => Owing(y, W, dead)
      BY <3>1, Released
    <3>10. Owing(y, {}, dead)
      BY <3>2, <3>9
    <3>11. Quiet(x, y)
      <4>1. Listed(x, y)
        BY <3>4, SameListed
      <4>2. Steady(x, y)
        BY <3>4 DEF Steady, Still, Used
      <4>3. \A v \in Urbs : y.urb[v].stage = "filling" => x.urb[v].stage = "filling"
        BY <3>5, TdRecords
      <4> QED BY <4>1, <4>2, <4>3 DEF Quiet
    <3> QED BY <3>6, <3>7, <3>8, <3>10, <3>11
  <2> QED BY <1>6, <2>2, <2>3 DEF Finish, ReturnUrb
<1> QED
  BY <1>5, <1>6

-----------------------------------------------------------------------------
(* An endpoint without TDs left is taken off its list.                       *)
Idled(y, e) ==
    IF y.ed[e].head = y.ed[e].tail /\ y.ed[e].state = "OPER" /\ ~y.ed[e].urbdel
    THEN EpUnlink(y, e) ELSE y

(* Taking an endpoint that has run empty from its list changes no TD.        *)
LEMMA IdledShape ==
    ASSUME NEW y \in DD, NEW e \in Eds, OhciAssumption, Lists(y), NEW z, z = Idled(y, e)
    PROVE  Quiet(y, z) /\ SameTds(y, z)
<1>1. Quiet(y, y) /\ SameTds(y, y)
  BY SameListed DEF Quiet, Steady, Still, SameTds
<1>2. CASE y.ed[e].head = y.ed[e].tail /\ y.ed[e].state = "OPER" /\ ~y.ed[e].urbdel
  <2>1. IsInjective(y.list[Type[e]]) /\ e \in Range(y.list[Type[e]])
    <3>1. Type[e] \in Kinds
      BY DEF OhciAssumption, Kinds
    <3> QED BY <3>1, <1>2 DEF Lists
  <2>2. UnlinkStep(y, z, e)
    <3>1. z = EpUnlink(y, e)
      BY <1>2 DEF Idled
    <3> QED BY <2>1, <3>1, EpUnlinkShape
  <2>3. Lists(z) /\ (Running(y) => Running(z))
    BY <2>2, UnlinkedLists
  <2>4. ASSUME Removals(y) PROVE Removals(z)
    <3>1. \A f \in Eds : /\ Removed(z, f) <=> Removed(y, f)
                         /\ Removed(y, f) => z.ed[f].skip /\ z.ed[f].state # "NEW"
                         /\ z.ed[f].state = "OPER" /\ ~z.ed[f].urbdel => ~z.ed[f].skip
      <4> SUFFICES ASSUME NEW f \in Eds
                   PROVE  /\ Removed(z, f) <=> Removed(y, f)
                          /\ Removed(y, f) => z.ed[f].skip /\ z.ed[f].state # "NEW"
                          /\ z.ed[f].state = "OPER" /\ ~z.ed[f].urbdel => ~z.ed[f].skip
        OBVIOUS
      <4>1. /\ Removed(y, f) => y.ed[f].skip /\ y.ed[f].state # "NEW"
            /\ y.ed[f].state = "OPER" /\ ~y.ed[f].urbdel => ~y.ed[f].skip
        BY <2>4 DEF Removals
      <4>2. CASE f = e
        <5>1. z.ed[e].state = "UNLINK" /\ ~z.ed[e].urbdel
          BY <2>2 DEF UnlinkStep
        <5> QED BY <5>1, <4>2, <1>2 DEF Removed
      <4>3. CASE f # e
        <5>1. z.ed[f] = y.ed[f]
          BY <2>2, <4>3 DEF UnlinkStep
        <5> QED BY <5>1, <4>1 DEF Removed
      <4> QED BY <4>2, <4>3
    <3>2. z.rm = y.rm
      BY <2>2 DEF UnlinkStep
    <3> QED BY <2>4, <3>1, <3>2, OthersRemoved
  <2>5. SameTds(y, z)
    BY <2>2, <1>2 DEF UnlinkStep, SameTds
  <2>6. Steady(y, z)
    BY <2>5 DEF SameTds, Steady, Still, Used
  <2>7. z \in DD /\ z.rm = y.rm /\ z.urb = y.urb
    BY <2>2 DEF UnlinkStep
  <2> QED BY <2>3, <2>4, <2>5, <2>6, <2>7 DEF Quiet, Listed
<1>3. CASE ~(y.ed[e].head = y.ed[e].tail /\ y.ed[e].state = "OPER" /\ ~y.ed[e].urbdel)
  <2>1. z = y
    BY <1>3 DEF Idled
  <2> QED BY <2>1, <1>1
<1> QED
  BY <1>2, <1>3

Handled(x, t, e) ==
    LET u == Owner(x, t)
    IN  Finish(Credit(x, u), u, x.ed[e].state, x.urb[u].del)

(* One TD less is done.                                                      *)
OneLess(x, z, D, dead, t, F) ==
    \E R : /\ Tds(z, R, D \ {t}, dead) /\ (\A s \in D \ {t} : Owner(z, s) = Owner(x, s))
           /\ Halts(z, R, F) /\ Owing(z, {}, dead)

(* dl_done_list at one TD: it is counted, once, and all that is known of the *)
(* other TDs stays.                                                          *)
LEMMA HandledTd ==
    ASSUME NEW x \in DD, NEW Q, NEW D, NEW dead, OhciAssumption, Tds(x, Q, D, dead), Owing(x, {}, dead),
           NEW t \in D, NEW e, e = Ep[Owner(x, t)], NEW F \in SUBSET (D \ {t}), Halts(x, Q, F),
           NEW z, z = Handled(x, t, e)
    PROVE  Quiet(x, z) /\ OneLess(x, z, D, dead, t, F)
<1> DEFINE u == Owner(x, t)
           a == Credit(x, u)
           st == x.ed[e].state
           del == x.urb[u].del
           y == Finish(a, u, st, del)
           E == D \ {t}
<1>1. z = y /\ y = Finish(a, u, st, del) /\ a = Credit(x, u) /\ u = Owner(x, t)
      /\ e = Ep[u] /\ F \in SUBSET E
  BY DEF Handled
<1>e. E = D \ {t} /\ E \subseteq D
  OBVIOUS
<1> HIDE DEF u, a, y, st, del, E
<1>x. t \in Blocks /\ u \in Urbs /\ Ep[u] \in Used(x)
  <2>1. Out(x, Q, D)
    BY DEF Tds
  <2> QED BY <1>1, <2>1 DEF Out
<1>y. u \in Linked(x)
  <2>1. u # Nil
    BY <1>x DEF OhciAssumption
  <2>2. Belongs(x)
    BY DEF Tds
  <2> QED BY <1>1, <1>x, <2>1, <2>2 DEF Belongs
<1>z. a \in DD
  BY <1>1, <1>x, CreditShape
<1>c1. u \in Urbs /\ u \in Linked(x) /\ Ep[u] \in Used(x) /\ a \in DD
  BY <1>x, <1>y, <1>z
<1>c2. a.ed = x.ed /\ a.td = x.td /\ a.list = x.list /\ a.on = x.on /\ a.rm = x.rm
  BY <1>1, <1>c1, CreditShape
<1>c3. \A v \in Urbs \ {u} : a.urb[v] = x.urb[v]
  BY <1>1, <1>c1, CreditShape
<1>c4. a.urb[u].stage = x.urb[u].stage
  BY <1>1, <1>c1, CreditShape
<1>c5. Owing(x, {}, dead) => Owing(a, {u}, dead)
  BY <1>c1, <1>c3, <1>c4 DEF Owing, Linked
<1>2. /\ u \in Urbs /\ u \in Linked(x) /\ Ep[u] \in Used(x)
      /\ a \in DD /\ a.ed = x.ed /\ a.td = x.td
  BY <1>c1, <1>c2
<1>3. a.list = x.list /\ a.on = x.on /\ a.rm = x.rm
  BY <1>c2
<1>4. (\A v \in Urbs \ {u} : a.urb[v] = x.urb[v]) /\ a.urb[u].stage = x.urb[u].stage
  BY <1>c3, <1>c4
<1>5. Tds(a, Q, E, dead)
  BY <1>1, <1>e, Credited
<1>6. Halts(a, Q, F)
  BY <1>1, <1>e, Credited
<1>7. Owing(a, {u}, dead)
  BY <1>c5
<1>8. Listed(x, a)
  BY <1>2, <1>3, SameListed
<1>9. Quiet(x, a)
  <2>1. Steady(x, a)
    BY <1>2 DEF Steady, Still, Used
  <2> QED BY <1>4, <1>8, <2>1 DEF Quiet
<1>10. u \in Linked(a) /\ Ep[u] \in Used(a)
  BY <1>2, <1>4 DEF Linked, Used
<1>11. Quiet(a, y)
  BY <1>1, <1>2, <1>5, <1>6, <1>7, <1>10, Finished
<1>12. \E R : /\ Tds(y, R, E, dead) /\ (\A s \in E : Owner(y, s) = Owner(a, s))
              /\ Halts(y, R, F) /\ Owing(y, {}, dead)
  BY <1>1, <1>2, <1>5, <1>6, <1>7, <1>10, Finished
<1>13. Quiet(x, y)
  BY <1>2, <1>9, <1>11, QuietQuiet
<1>14. \A s : Owner(a, s) = Owner(x, s)
  BY <1>2 DEF Owner
<1> QED
  BY <1>1, <1>12, <1>13, <1>14, <1>e DEF OneLess

-----------------------------------------------------------------------------
(* All the endpoints of a device are freed.                                  *)

LEMMA AllEds ==
    ASSUME OhciAssumption
    PROVE  SetToSeq(Eds) \in Seq(Eds)
<1> DEFINE n == Cardinality(Eds)
<1>1. IsFiniteSet(Eds)
  BY DEF OhciAssumption
<1>2. n \in Nat /\ ExistsBijection(1..n, Eds)
  BY <1>1, FS_CardinalityType
<1>3. \E f \in [1..n -> Eds] : IsInjective(f)
  BY <1>2, Zenon DEF ExistsBijection, Bijection, Injection
<1>4. SetToSeq(Eds) \in [1..n -> Eds]
  BY <1>3, Zenon DEF SetToSeq
<1> HIDE DEF n
<1> QED
  BY <1>2, <1>4

(* Freeing one more endpoint of a device keeps what held after those before. *)
LEMMA DoomedNext ==
    ASSUME NEW x \in DD, OhciAssumption, frame \in Frames, NEW y, Doomed(x, y),
           \A e \in Eds : ~y.ed[e].urbdel, NEW e \in Eds, NEW z, z = FreeEd(y, e)
    PROVE  Doomed(x, z) /\ \A f \in Eds : ~z.ed[f].urbdel
<1>1. y \in DD /\ Lists(y) /\ Removals(y)
  BY DEF Doomed
<1>2. Doomed(y, z) /\ ~z.ed[e].urbdel /\ \A f \in Eds \ {e} : z.ed[f] = y.ed[f]
  BY <1>1, FreeEdDooms
<1>3. SameTds(x, z)
  BY <1>2, SameSame DEF Doomed
<1>4. z \in DD /\ Lists(z) /\ Removals(z)
  BY <1>2 DEF Doomed
<1>5. (Running(x) => Running(z)) /\ z.rm[1 - frame] = x.rm[1 - frame]
  BY <1>2 DEF Doomed
<1>6. Doomed(x, z)
  BY <1>3, <1>4, <1>5 DEF Doomed
<1>7. \A f \in Eds : ~z.ed[f].urbdel
  BY <1>2
<1> QED
  BY <1>6, <1>7

(* Freeing a device dooms all its endpoints and changes no TD.               *)
LEMMA AllDoomed ==
    ASSUME NEW x \in DD, OhciAssumption, frame \in Frames, Lists(x), Removals(x),
           \A e \in Eds : ~x.ed[e].urbdel, NEW s \in Seq(Eds), NEW y, y = FreeEds(x, s)
    PROVE  Doomed(x, y)
<1> DEFINE N == Len(s)
<1>1. N \in Nat /\ \A i \in 1..N : s[i] \in Eds
  OBVIOUS
<1>2. PICK f : f[0] = x /\ (\A n \in 1..N : f[n] = FreeEd(f[n - 1], s[n])) /\ y = f[N]
  BY <1>1, FreeEdsSteps
<1> DEFINE OK(n) == Doomed(x, f[n]) /\ \A e \in Eds : ~f[n].ed[e].urbdel
           A == {n \in 0..N : OK(n)}
<1>3. 0 \in A
  <2>1. OK(0)
    BY <1>2 DEF Doomed, SameTds
  <2>2. 0 \in 0..N
    BY <1>1
  <2> HIDE DEF OK, N
  <2> QED BY <2>1, <2>2
<1>4. ASSUME NEW n \in 0..(N - 1), n \in A PROVE n + 1 \in A
  <2>1. n + 1 \in 1..N /\ n + 1 \in 0..N /\ (n + 1) - 1 = n
    BY <1>1
  <2> DEFINE e == s[n + 1]
             z == f[n]
             w == f[n + 1]
  <2>2. e \in Eds /\ w = FreeEd(z, e)
    BY <2>1, <1>1, <1>2
  <2>3. Doomed(x, z) /\ \A g \in Eds : ~z.ed[g].urbdel
    BY <1>4
  <2> HIDE DEF e, z, w
  <2>4. Doomed(x, w) /\ \A g \in Eds : ~w.ed[g].urbdel
    BY <2>2, <2>3, DoomedNext
  <2>5. OK(n + 1)
    BY <2>4 DEF w
  <2> QED BY <2>1, <2>5
<1>5. 0..N \subseteq A
  <2> HIDE DEF A, N
  <2> QED BY <1>1, <1>3, <1>4, BoundedInduction
<1>6. OK(N)
  <2> HIDE DEF OK
  <2> QED BY <1>1, <1>5
<1> QED
  BY <1>2, <1>6

-----------------------------------------------------------------------------
(* The controller is done with a TD.                                         *)

Retiring(x, e, t, fails) ==
    [x EXCEPT !.ed[e].head = x.td[t].next, !.ed[e].halted = fails, !.td[t].failed = fails]

(* The controller retires a TD: it changes the head and halt of one          *)
(* endpoint, and the TD.                                                     *)
LEMMA RetireShape ==
    ASSUME NEW x \in DD, NEW e \in Eds, NEW t \in Blocks, NEW fails \in BOOLEAN,
           NEW y, y = Retiring(x, e, t, fails)
    PROVE  /\ y \in DD /\ RetireStep(x, y, e, t, fails) /\ y.td[t].failed = fails
           /\ y.urb = x.urb /\ Listed(x, y)
           /\ \A f \in Eds : /\ y.ed[f].state = x.ed[f].state /\ y.ed[f].urbdel = x.ed[f].urbdel
                             /\ y.ed[f].skip = x.ed[f].skip
<1> DEFINE h == x.td[t].next
           r == [x.ed[e] EXCEPT !.head = h, !.halted = fails]
           E == [x.ed EXCEPT ![e] = r]
           T == [x.td EXCEPT ![t].failed = fails]
<1>1. /\ x.ed \in [Eds -> EdRec] /\ x.td \in [Blocks -> TdRec] /\ x.urb \in [Urbs -> UrbRec]
      /\ x.pool \in Pools /\ x.list \in [Kinds -> Seq(Eds)] /\ x.on \in SUBSET Kinds
      /\ x.rm \in [Frames -> Seq(Eds)]
  BY DEF DD
<1>2. h \in Blocks \cup {Nil} /\ x.ed[e] \in EdRec
  BY <1>1 DEF TdRec
<1>3. r \in EdRec
  BY <1>2, EdChanged, Zenon
<1>4. /\ r.head = h /\ r.halted = fails /\ r.tail = x.ed[e].tail /\ r.state = x.ed[e].state
      /\ r.urbdel = x.ed[e].urbdel /\ r.skip = x.ed[e].skip
  <2>1. DOMAIN x.ed[e] = {"state", "urbdel", "skip", "halted", "head", "tail"}
    BY <1>2, EdFields
  <2> QED BY <2>1
<1>5. y = [x EXCEPT !.ed = E, !.td = T]
  BY <1>1 DEF Retiring, DD
<1> HIDE DEF r
<1>6. E \in [Eds -> EdRec] /\ E[e] = r /\ \A f \in Eds \ {e} : E[f] = x.ed[f]
  BY <1>1, <1>3
<1>7. /\ T \in [Blocks -> TdRec] /\ T[t].failed = fails
      /\ \A s \in Blocks : /\ T[s].urb = x.td[s].urb /\ T[s].index = x.td[s].index
                           /\ T[s].next = x.td[s].next
      /\ \A s \in Blocks \ {t} : T[s].failed = x.td[s].failed
  BY <1>1 DEF TdRec
<1> HIDE DEF E, T
<1>8. y.ed = E /\ y.td = T
  BY <1>5 DEF DD
<1>9. y.urb = x.urb /\ y.pool = x.pool /\ y.list = x.list /\ y.on = x.on /\ y.rm = x.rm
  BY <1>5 DEF DD
<1>10. y \in DD
  BY <1>1, <1>5, <1>6, <1>7 DEF DD
<1>11. \A f \in Eds : /\ y.ed[f].tail = x.ed[f].tail /\ y.ed[f].state = x.ed[f].state
                      /\ y.ed[f].urbdel = x.ed[f].urbdel /\ y.ed[f].skip = x.ed[f].skip
  BY <1>4, <1>6, <1>8
<1>12. \A f \in Eds \ {e} : y.ed[f].head = x.ed[f].head /\ y.ed[f].halted = x.ed[f].halted
  BY <1>6, <1>8
<1>13. RetireStep(x, y, e, t, fails)
  <2>1. Used(y) = Used(x) /\ Linked(y) = Linked(x)
    BY <1>9, <1>11 DEF Used, Linked
  <2>2. y.ed[e].head = x.td[t].next /\ y.ed[e].halted = fails
    BY <1>4, <1>6, <1>8
  <2>3. \A s \in Blocks : /\ Owner(y, s) = Owner(x, s) /\ y.td[s].index = x.td[s].index
                          /\ y.td[s].next = x.td[s].next
    BY <1>7, <1>8 DEF Owner
  <2>4. \A s \in Blocks \ {t} : y.td[s].failed = x.td[s].failed
    BY <1>7, <1>8
  <2>5. ShortenStep(x, y, e)
    BY <1>9, <1>11, <1>12, <2>1, <2>3 DEF ShortenStep
  <2> HIDE DEF h
  <2> QED BY <1>9, <2>2, <2>4, <2>5 DEF RetireStep
<1>14. Listed(x, y)
  BY <1>9, <1>10, <1>11, SameListed
<1> QED
  BY <1>7, <1>8, <1>9, <1>10, <1>11, <1>13, <1>14

-----------------------------------------------------------------------------
(* The inductive invariant.                                                  *)

(* A thread is within a submit only between others, and what it has found in *)
(* the first part still holds; a device is freed with nothing to unlink; the *)
(* controller does not run ahead of the handler by more than a frame.        *)
Orderly == SubmitWhole /\ FreeSettled /\ Prompt

(* The types of what the handler keeps.                                     *)
IrqRecs ==
    [pc : {"idle", "done", "sf"}, list : Seq(Blocks), ed : Eds \cup {Nil}, ints : SUBSET {"WDH", "SF"}]

Typed ==
    /\ d \in DD /\ \A u \in Urbs : d.urb[u].cnt <= Size[u]
    /\ dev \in {"live", "freeing", "gone"}
    /\ irq \in IrqRecs
    /\ at \in (Eds \X Blocks) \cup {Nil} /\ doneq \in Seq(Blocks) /\ doneHead \in Seq(Blocks)
    /\ frame \in Frames /\ sf \in BOOLEAN /\ sfEn \in BOOLEAN /\ disabled \in BOOLEAN

(* The lists are those of the endpoints' states, and run but for removals.   *)
Listings == Lists(d) /\ Removals(d) /\ (~disabled => Running(d))

(* The endpoint of a submit between its two parts.                           *)
IsWaiting(x, u) ==
    x.ed[Ep[u]].state \in {"UNLINK", "OPER"} /\ ~x.ed[Ep[u]].urbdel /\ ~x.ed[Ep[u]].skip

Waiting ==
    /\ \A u \in Urbs : d.urb[u].stage = "filling" => dev = "live" /\ ~disabled /\ IsWaiting(d, u)
    /\ \A u, v \in Urbs : d.urb[u].stage = "filling" /\ d.urb[v].stage = "filling" => u = v

(* A device that is gone has no endpoint.                                    *)
Emptied == dev = "gone" /\ ~disabled => Used(d) = {}

(* Where the handler is tells what it still has to look at.                  *)
Served ==
    /\ irq.pc # "done" => irq.list = <<>>
    /\ irq.pc # "idle" => doneHead = <<>>
    /\ irq.pc = "idle" => irq.ints = {}
    /\ disabled => at = Nil /\ doneq = <<>> /\ doneHead = <<>> /\ ~sf

(* What the controller has fetched is still the head of a queue, and not of  *)
(* one whose removal is due.                                                 *)
IsFetched(x, a, f) ==
    /\ a[1] \in Used(x) /\ ~x.ed[a[1]].halted /\ a[1] \notin Range(x.rm[f])
    /\ a[2] = x.ed[a[1]].head /\ a[2] # x.ed[a[1]].tail

Fetched == at # Nil => IsFetched(d, at, 1 - frame)

(* The TDs that are done: in the controller's queue p, in the HCCA (q), with *)
(* the handler (r); f is the removal list of the last frame.                 *)
Apart(p, q, r) ==
    /\ IsInjective(p) /\ IsInjective(q) /\ IsInjective(r)
    /\ Range(p) \cap Range(q) = {} /\ Range(p) \cap Range(r) = {} /\ Range(q) \cap Range(r) = {}

InFlight(x, p, q, r, f, dead) ==
    /\ Apart(p, q, r)
    /\ \E Q : /\ Tds(x, Q, Range(p) \cup Range(q) \cup Range(r), dead)
              /\ Owing(x, {}, dead) /\ Halts(x, Q, Range(p) \cup Range(q))
    /\ \A t \in Range(p) : Ep[Owner(x, t)] \notin Range(x.rm[f])

Moving == ~disabled \/ irq.pc # "idle" =>
              InFlight(d, doneq, doneHead, irq.list, 1 - frame, disabled)

IInv == Typed /\ Listings /\ Waiting /\ Emptied /\ Served /\ Fetched /\ Moving

-----------------------------------------------------------------------------
(* Nothing is queued at first.                                               *)
LEMMA EmptyQueues ==
    ASSUME OhciAssumption, NEW x \in DD, Used(x) = {}, Linked(x) = {},
           \A t \in Blocks : Owner(x, t) = Nil, \A u \in Urbs : x.urb[u].cnt <= Size[u], NEW dead
    PROVE  Tds(x, [e \in Eds |-> <<>>], {}, dead) /\ Owing(x, {}, dead)
           /\ Halts(x, [e \in Eds |-> <<>>], {})
<1> DEFINE Q == [e \in Eds |-> <<>>]
<1>1. Q \in [Eds -> Seq(Blocks)] /\ \A e \in Eds : Q[e] = <<>>
  OBVIOUS
<1>2. Range(<<>>) = {} /\ Len(<<>>) = 0
  BY EmptyRange
<1> HIDE DEF Q
<1>3. Queues(x, Q)
  BY <1>1, <1>2 DEF Queues
<1>4. Belongs(x) /\ Whole(x) /\ Dummies(x)
  BY DEF Belongs, Whole, Dummies
<1>5. Ordered(x, Q)
  <2> SUFFICES ASSUME NEW e \in Eds, NEW i \in 1..Len(Q[e]) PROVE FALSE
    BY DEF Ordered
  <2> QED BY <1>1, <1>2
<1>6. Coming(Q) = {}
  BY <1>1, <1>2 DEF Coming
<1>7. Out(x, Q, {})
  BY DEF Out
<1>8. Counted(x, Q, {}, dead)
  BY DEF Counted
<1>9. Owing(x, {}, dead) /\ Halts(x, Q, {})
  BY DEF Owing, Halts
<1> QED
  BY <1>3, <1>4, <1>5, <1>7, <1>8, <1>9 DEF Tds, Q

(* The inductive invariant holds at first.                                   *)
LEMMA InitIInv ==
    ASSUME OhciAssumption, Init
    PROVE  IInv
<1> DEFINE E == [e \in Eds |-> NewEd]
           T == [t \in Blocks |-> NewTd]
           U == [u \in Urbs |-> NewUrb]
           L == [l \in Kinds |-> <<>>]
           M == [f \in Frames |-> <<>>]
<1>1. d = [ed |-> E, td |-> T, urb |-> U, pool |-> EmptyPool, list |-> L, on |-> {"int"}, rm |-> M]
  BY DEF Init, Kinds
<1>2. NewEd \in EdRec /\ NewEd.state = "NEW" /\ NewEd.urbdel = FALSE /\ NewEd.skip = TRUE
  BY DEF NewEd, EdRec
<1>3. E \in [Eds -> EdRec] /\ \A e \in Eds : E[e] = NewEd
  BY <1>2
<1>4. T \in [Blocks -> TdRec] /\ \A t \in Blocks : T[t] = NewTd
  BY TdRecords
<1>5. U \in [Urbs -> UrbRec] /\ \A u \in Urbs : U[u] = NewUrb
  BY TdRecords
<1>6. L \in [Kinds -> Seq(Eds)] /\ \A l \in Kinds : L[l] = <<>>
  OBVIOUS
<1>7. M \in [Frames -> Seq(Eds)] /\ \A f \in Frames : M[f] = <<>>
  OBVIOUS
<1>8. EmptyPool \in Pools
  BY DEF EmptyPool, Pools, PagesOf
<1>9. {"int"} \in SUBSET Kinds
  BY DEF Kinds
<1> HIDE DEF E, T, U, L, M
<1>10. d.ed = E /\ d.td = T /\ d.urb = U /\ d.list = L /\ d.on = {"int"} /\ d.rm = M
  BY <1>1
<1>11. d \in DD
  BY <1>1, <1>3, <1>4, <1>5, <1>6, <1>7, <1>8, <1>9 DEF DD
<1>12. Used(d) = {} /\ Linked(d) = {}
  BY <1>2, <1>3, <1>5, <1>10, TdRecords DEF Used, Linked
<1>13. \A t \in Blocks : Owner(d, t) = Nil
  BY <1>4, <1>10, TdRecords DEF Owner
<1>14. \A u \in Urbs : d.urb[u].cnt <= Size[u]
  BY <1>5, <1>10, TdRecords DEF OhciAssumption
<1>15. Typed
  <2>1. IrqIdle \in IrqRecs
    BY DEF IrqIdle, IrqRecs
  <2>2. <<>> \in Seq(Blocks) /\ 0 \in Frames
    BY DEF Frames
  <2> QED BY <1>11, <1>14, <2>1, <2>2 DEF Typed, Init
<1>16. Listings
  <2>1. Lists(d)
    BY <1>2, <1>3, <1>6, <1>10, EmptyRange DEF Lists
  <2>2. Removals(d)
    <3>1. 0 \in Frames /\ 1 \in Frames
      BY DEF Frames
    <3> QED BY <3>1, <1>2, <1>3, <1>7, <1>10, EmptyRange DEF Removals, Removed
  <2>3. Running(d)
    BY <1>6, <1>10 DEF Running
  <2> QED BY <2>1, <2>2, <2>3 DEF Listings
<1>17. Waiting /\ Emptied /\ Served /\ Fetched
  <2>1. \A u \in Urbs : d.urb[u].stage # "filling"
    BY <1>5, <1>10, TdRecords
  <2> QED BY <2>1, <1>12 DEF Waiting, Emptied, Served, Fetched, Init, IrqIdle
<1>18. Moving
  <2>1. doneq = <<>> /\ doneHead = <<>> /\ irq.list = <<>>
    BY DEF Init, IrqIdle
  <2>2. Range(doneq) = {} /\ Range(doneHead) = {} /\ Range(irq.list) = {}
    BY <2>1, EmptyRange
  <2>3. Apart(doneq, doneHead, irq.list)
    BY <2>1, <2>2, EmptyRange DEF Apart
  <2>4. \E Q : Tds(d, Q, {}, disabled) /\ Owing(d, {}, disabled) /\ Halts(d, Q, {})
    BY <1>11, <1>12, <1>13, <1>14, EmptyQueues
  <2>5. \E Q : /\ Tds(d, Q, Range(doneq) \cup Range(doneHead) \cup Range(irq.list), disabled)
               /\ Owing(d, {}, disabled) /\ Halts(d, Q, Range(doneq) \cup Range(doneHead))
    <3>1. {} \cup {} \cup {} = {} /\ {} \cup {} = {}
      OBVIOUS
    <3> QED BY <2>2, <2>4, <3>1
  <2> QED BY <2>2, <2>3, <2>5 DEF Moving, InFlight
<1> QED
  BY <1>15, <1>16, <1>17, <1>18 DEF IInv

-----------------------------------------------------------------------------
(* What the actions have in common.                                          *)

LEMMA SteadyFetched ==
    ASSUME NEW x, NEW y, NEW a, NEW f, a[1] \in Eds, IsFetched(x, a, f), Steady(x, y), y.rm[f] = x.rm[f]
    PROVE  IsFetched(y, a, f)
<1>1. Still(x, y, a[1])
  BY DEF Steady
<1> QED
  BY <1>1 DEF IsFetched, Still

(* A step that changes no TD is steady.                                      *)
LEMMA SameSteady ==
    ASSUME NEW x, NEW y, SameTds(x, y)
    PROVE  Steady(x, y)
BY DEF SameTds, Steady, Still, Used

(* What is known of the TDs that are done holds after a step that keeps them *)
(* out and their owners.                                                     *)
LEMMA StillInFlight ==
    ASSUME NEW x, NEW y, NEW p, NEW q, NEW r, NEW f, NEW dead, InFlight(x, p, q, r, f, dead),
           y.rm[f] = x.rm[f], NEW R, Tds(y, R, Range(p) \cup Range(q) \cup Range(r), dead),
           Owing(y, {}, dead), Halts(y, R, Range(p) \cup Range(q)),
           \A t \in Range(p) : Owner(y, t) = Owner(x, t)
    PROVE  InFlight(y, p, q, r, f, dead)
BY DEF InFlight

(* What is known of the TDs that are done holds after a step that changes no *)
(* TD.                                                                       *)
LEMMA SameInFlight ==
    ASSUME NEW x \in DD, NEW y \in DD, OhciAssumption, SameTds(x, y), NEW p, NEW q, NEW r, NEW f, NEW dead,
           y.rm[f] = x.rm[f], InFlight(x, p, q, r, f, dead)
    PROVE  InFlight(y, p, q, r, f, dead)
<1> DEFINE F == Range(p) \cup Range(q)
           D == F \cup Range(r)
<1>1. PICK Q : Tds(x, Q, D, dead) /\ Owing(x, {}, dead) /\ Halts(x, Q, F)
  BY DEF InFlight
<1>2. F \in SUBSET D
  OBVIOUS
<1> HIDE DEF D, F
<1>3. Tds(y, Q, D, dead)
  BY <1>1, SameKept
<1>4. Halts(y, Q, F)
  BY <1>1, <1>2, SameKept
<1>5. Owing(y, {}, dead)
  BY <1>1, SameKept
<1>6. \A t \in Range(p) : Owner(y, t) = Owner(x, t)
  BY DEF SameTds, Owner
<1> QED
  BY <1>3, <1>4, <1>5, <1>6, StillInFlight DEF D, F

(* No request has counted more TDs than it has: urb_priv->td_cnt never runs  *)
(* past length.                                                              *)
LEMMA CountsBounded ==
    ASSUME NEW x, NEW p, NEW q, NEW r, NEW f, NEW dead, InFlight(x, p, q, r, f, dead)
    PROVE  \A u \in Urbs : x.urb[u].cnt <= Size[u]
BY DEF InFlight, Tds, Counted

(* No submit is between its two parts when a step starts that needs the      *)
(* lock.                                                                     *)
LEMMA NotRunAhead ==
    ASSUME SubmitWhole, Alone
    PROVE  \A u \in Urbs : d.urb[u].stage # "filling"
BY DEF Alone, NoneFilling

-----------------------------------------------------------------------------
(* The one element of a sequence of one.                                     *)
LEMMA OneLong ==
    ASSUME NEW S, NEW s \in Seq(S), Len(s) <= 1, s # <<>>
    PROVE  Range(s) = {s[1]} /\ s[1] \in S
<1>1. /\ s[1] \in Range(s) /\ Tail(s) \in Seq(S) /\ Len(Tail(s)) = Len(s) - 1
      /\ Range(s) = Range(Tail(s)) \cup {s[1]}
  BY Beheaded
<1>2. Len(Tail(s)) = 0
  BY <1>1
<1>3. Tail(s) = <<>>
  BY <1>1, <1>2
<1>4. Range(Tail(s)) = {}
  BY <1>3, EmptyRange
<1> QED
  BY <1>1, <1>4, NotEmpty

(* The first part of a submit.                                               *)
LEMMA AddEdKeeps ==
    ASSUME OhciAssumption, Orderly, IInv, NEW u \in Urbs, AddEd(u)
    PROVE  IInv'
<1> DEFINE e == Ep[u]
           got == AllocTds(d.pool, 1)
           fresh == d.ed[e].state = "NEW"
           p == IF fresh THEN got.pool ELSE d.pool
           r == IF fresh
                THEN [NewEd EXCEPT !.state = "UNLINK", !.skip = FALSE,
                                   !.head = got.tds[1], !.tail = got.tds[1]]
                ELSE [d.ed[e] EXCEPT !.skip = FALSE]
<1>1. /\ Typed /\ Lists(d) /\ Removals(d) /\ (~disabled => Running(d)) /\ Waiting /\ Emptied
      /\ Served /\ Fetched /\ Moving
  BY DEF IInv, Listings
<1>2. /\ d \in DD /\ e \in Eds /\ d.ed[e] \in EdRec /\ d.pool \in Pools /\ frame \in Frames
  BY <1>1, Parts DEF Typed, OhciAssumption
<1>3. /\ \A v \in Urbs : d.urb[v].stage # "filling"
      /\ dev = "live" /\ ~disabled /\ d.urb[u].stage = "idle"
      /\ d.ed[e].state # "DEL" /\ ~d.ed[e].urbdel
      /\ fresh => got.tds # <<>>
      /\ dev' = dev /\ irq' = irq /\ hc' = hc /\ sfEn' = sfEn /\ disabled' = disabled
  BY NotRunAhead DEF AddEd, Orderly
<1>4. d' = Adding(d, u, e, p, r)
  <2>1. d' = [d EXCEPT !.urb[u].stage = "filling",
                       !.pool = IF fresh THEN got.pool ELSE @,
                       !.ed[e] = IF fresh
                                 THEN [NewEd EXCEPT !.state = "UNLINK", !.skip = FALSE,
                                                    !.head = got.tds[1], !.tail = got.tds[1]]
                                 ELSE [@ EXCEPT !.skip = FALSE]]
    BY DEF AddEd
  <2> HIDE DEF got
  <2> QED BY <2>1, <1>2 DEF Adding, DD
<1>5. fresh => \E b \in Blocks \ InUse(d.pool) :
          got.tds[1] = b /\ got.pool \in Pools /\ InUse(got.pool) = InUse(d.pool) \cup {b}
  <2> SUFFICES ASSUME fresh
               PROVE  \E b \in Blocks \ InUse(d.pool) :
                        got.tds[1] = b /\ got.pool \in Pools /\ InUse(got.pool) = InUse(d.pool) \cup {b}
    OBVIOUS
  <2> DEFINE s == got.tds
  <2>1. /\ got.pool \in Pools /\ s \in Seq(Blocks) /\ Len(s) <= 1
        /\ Range(s) \cap InUse(d.pool) = {} /\ InUse(got.pool) = InUse(d.pool) \cup Range(s)
    BY <1>2, TdsAllocated
  <2>2. s # <<>>
    BY <1>3
  <2> HIDE DEF s
  <2>5. Range(s) = {s[1]} /\ s[1] \in Blocks
    BY <2>1, <2>2, OneLong
  <2>6. s[1] \notin InUse(d.pool) /\ InUse(got.pool) = InUse(d.pool) \cup {s[1]}
    BY <2>1, <2>5
  <2> QED BY <2>1, <2>5, <2>6 DEF s
<1> HIDE DEF got
<1>6. /\ r \in EdRec /\ ~r.urbdel /\ ~r.skip
      /\ r.state = IF fresh THEN "UNLINK" ELSE d.ed[e].state
      /\ \/ /\ ~fresh /\ r.head = d.ed[e].head /\ r.tail = d.ed[e].tail
            /\ r.halted = d.ed[e].halted
         \/ /\ fresh /\ r.head = r.tail /\ r.tail = got.tds[1]
  <2>1. CASE fresh
    <3>1. got.tds[1] \in Blocks
      BY <1>5, <2>1
    <3>2. r = [NewEd EXCEPT !.state = "UNLINK", !.skip = FALSE,
                            !.head = got.tds[1], !.tail = got.tds[1]]
      BY <2>1
    <3> HIDE DEF r
    <3> QED BY <2>1, <3>1, <3>2 DEF NewEd, EdRec
  <2>2. CASE ~fresh
    <3>1. r = [d.ed[e] EXCEPT !.skip = FALSE]
      BY <2>2
    <3>2. r \in EdRec
      BY <1>2, <3>1, EdChanged, Zenon
    <3>3. DOMAIN d.ed[e] = {"state", "urbdel", "skip", "halted", "head", "tail"}
      BY <1>2, EdFields
    <3> HIDE DEF r
    <3> QED BY <1>3, <2>2, <3>1, <3>2, <3>3
  <2> QED BY <2>1, <2>2
<1>7. p \in Pools
  BY <1>2, <1>5
<1>8. \/ /\ d.ed[e].state # "NEW" /\ p = d.pool
         /\ r.head = d.ed[e].head /\ r.tail = d.ed[e].tail /\ r.halted = d.ed[e].halted
      \/ /\ d.ed[e].state = "NEW" /\ r.head = r.tail
         /\ r.tail \in Blocks \ InUse(d.pool) /\ InUse(p) = InUse(d.pool) \cup {r.tail}
  BY <1>5, <1>6
<1>9. r.state # "NEW" /\ r.state \in {"UNLINK", "OPER"}
  BY <1>2, <1>3, <1>6 DEF EdRec
<1>10. fresh <=> d.ed[e].state = "NEW"
  OBVIOUS
<1> HIDE DEF e, p, r, fresh
<1>11. AddStep(d, d', u, e, p, r)
  BY <1>2, <1>4, <1>6, <1>7, AddShape
<1>12. ~Removed(d, e)
  BY <1>3 DEF Removed
<1>13. Lists(d') /\ Running(d') /\ Removals(d')
  BY <1>1, <1>2, <1>3, <1>6, <1>10, <1>11, <1>12, AddedLists
<1>14. /\ d' \in DD /\ d'.rm = d.rm /\ d'.ed[e] = r /\ (\A f \in Eds \ {e} : d'.ed[f] = d.ed[f])
       /\ d'.urb[u].stage = "filling" /\ \A v \in Urbs \ {u} : d'.urb[v] = d.urb[v]
  BY <1>11 DEF AddStep
<1>15. InFlight(d', doneq, doneHead, irq.list, 1 - frame, disabled)
  <2> DEFINE F == Range(doneq) \cup Range(doneHead)
             D == F \cup Range(irq.list)
  <2>1. InFlight(d, doneq, doneHead, irq.list, 1 - frame, disabled)
    BY <1>1, <1>3 DEF Moving
  <2>2. PICK Q : Tds(d, Q, D, disabled) /\ Owing(d, {}, disabled) /\ Halts(d, Q, F)
    BY <2>1 DEF InFlight
  <2>3. F \in SUBSET D /\ Range(doneq) \subseteq D
    OBVIOUS
  <2> HIDE DEF D, F
  <2>4. Carried(d, d', Q, D, disabled)
    BY <2>2, <1>2, <1>3, <1>8, <1>9, <1>11, AddedTds
  <2>5. /\ Tds(d', Q, D, disabled) /\ Halts(d', Q, F) /\ Owing(d', {}, disabled)
        /\ \A t \in Range(doneq) : Owner(d', t) = Owner(d, t)
    BY <2>2, <2>3, <2>4 DEF Carried
  <2> QED BY <2>1, <2>5, <1>14, StillInFlight DEF D, F
<1>16. Typed'
  BY <1>1, <1>3, <1>14, <1>15, CountsBounded DEF Typed, hc
<1>17. Listings'
  BY <1>13 DEF Listings
<1>18. Waiting'
  <2>1. IsWaiting(d', u)
    BY <1>6, <1>9, <1>14 DEF IsWaiting, e
  <2> QED BY <2>1, <1>3, <1>14 DEF Waiting
<1>19. Emptied' /\ Served'
  BY <1>1, <1>3 DEF Emptied, Served, hc
<1>20. Fetched'
  <2>1. CASE at # Nil
    <3>1. IsFetched(d, at, 1 - frame)
      BY <1>1, <2>1 DEF Fetched
    <3>2. Steady(d, d')
      <4> SUFFICES ASSUME NEW f \in Eds PROVE Still(d, d', f)
        BY DEF Steady
      <4>1. CASE f = e
        BY <4>1, <1>6, <1>9, <1>10, <1>14 DEF Still, Used
      <4>2. CASE f # e
        BY <4>2, <1>14 DEF Still, Used
      <4> QED BY <4>1, <4>2
    <3>3. at[1] \in Eds
      BY <1>1, <2>1 DEF Typed
    <3> QED BY <3>1, <3>2, <3>3, <1>3, <1>14, SteadyFetched DEF Fetched, hc
  <2>2. CASE at = Nil
    BY <2>2, <1>3 DEF Fetched, hc
  <2> QED BY <2>1, <2>2
<1>21. Moving'
  BY <1>3, <1>15 DEF Moving, hc
<1> QED
  BY <1>16, <1>17, <1>18, <1>19, <1>20, <1>21 DEF IInv

-----------------------------------------------------------------------------
(* No request is between the two parts of its submit that was not before.    *)
NoneToFill(x, y) == \A v \in Urbs : y.urb[v].stage = "filling" => x.urb[v].stage = "filling"

(* If no submit was between its parts and none starts, none is.              *)
LEMMA NoneWaiting ==
    ASSUME \A v \in Urbs : d.urb[v].stage # "filling", NoneToFill(d, d')
    PROVE  Waiting'
BY DEF Waiting, NoneToFill

(* The second part of a submit, with enough TDs and without.                 *)
LEMMA FillKeeps ==
    ASSUME OhciAssumption, Orderly, IInv, NEW u \in Urbs, Fill(u)
    PROVE  IInv'
<1> DEFINE e == Ep[u]
           n == Size[u]
           got == AllocTds(d.pool, n)
           z == SetPool(d, got.pool)
           w == FreeTds(z, Range(got.tds))
           a == IF d.ed[e].state = "OPER" /\ ~d.ed[e].urbdel THEN z ELSE EpLink(z, e)
           y == d'
           F == Range(doneq) \cup Range(doneHead)
           D == F \cup Range(irq.list)
<1>1. /\ Typed /\ Lists(d) /\ Removals(d) /\ (~disabled => Running(d)) /\ Waiting /\ Emptied
      /\ Served /\ Fetched /\ Moving
  BY DEF IInv, Listings
<1>2. d \in DD /\ e \in Eds /\ n \in Nat /\ e = Ep[u] /\ n = Size[u]
  BY <1>1 DEF Typed, OhciAssumption
<1>3. /\ d.urb[u].stage = "filling"
      /\ dev' = dev /\ irq' = irq /\ hc' = hc /\ sfEn' = sfEn /\ disabled' = disabled
  BY DEF Fill
<1>4. /\ dev = "live" /\ ~disabled /\ d.ed[e].state \in {"UNLINK", "OPER"} /\ ~d.ed[e].urbdel
      /\ ~d.ed[e].skip
  BY <1>1, <1>3 DEF Waiting, IsWaiting
<1>5. got = AllocTds(d.pool, n) /\ z = SetPool(d, got.pool) /\ w = FreeTds(z, Range(got.tds))
      /\ a = IF d.ed[e].state = "OPER" /\ ~d.ed[e].urbdel THEN z ELSE EpLink(z, e)
  OBVIOUS
<1>6. IF Len(got.tds) < n THEN y = SetUrb(w, u, NewUrb) ELSE y = FillTds(a, u, got.tds)
  <2> DEFINE lk == d.ed[e].state = "OPER" /\ ~d.ed[e].urbdel
  <2>1. d' = IF Len(got.tds) < n \/ d.ed[e].state \in {"NEW", "DEL"}
             THEN [w EXCEPT !.urb[u] = NewUrb] ELSE FillTds(a, u, got.tds)
    BY Zenon DEF Fill, SetPool
  <2> HIDE DEF got, a, w
  <2> QED BY <2>1, <1>4 DEF SetUrb
<1> HIDE DEF e, n, got, z, w, a
<1>7. InFlight(d, doneq, doneHead, irq.list, 1 - frame, disabled)
  BY <1>1, <1>4 DEF Moving
<1>8. PICK Q : Tds(d, Q, D, disabled) /\ Owing(d, {}, disabled) /\ Halts(d, Q, F)
  BY <1>7 DEF InFlight
<1>9. F \in SUBSET D /\ Range(doneq) \subseteq D
  OBVIOUS
<1>9f. \A v \in Urbs \ {u} : d.urb[v].stage # "filling"
  BY <1>1, <1>3 DEF Waiting
<1> HIDE DEF D, F
<1>10. Listed(d, y) /\ Steady(d, y) /\ (\A v \in Urbs : y.urb[v].stage # "filling")
       /\ \E R : /\ Tds(y, R, D, disabled) /\ Halts(y, R, F) /\ Owing(y, {}, disabled)
                 /\ \A t \in D : Owner(y, t) = Owner(d, t)
  <2>1. CASE Len(got.tds) < n
    <3>1. y = SetUrb(w, u, NewUrb)
      BY <1>6, <2>1
    <3> HIDE DEF y
    <3>2. /\ y \in DD /\ y.ed = d.ed /\ y.list = d.list /\ y.on = d.on /\ y.rm = d.rm
          /\ y.urb[u] = NewUrb /\ (\A v \in Urbs \ {u} : y.urb[v] = d.urb[v])
      BY <1>2, <1>3, <1>5, <1>8, <3>1, FillFailed
    <3>3. Carried(d, y, Q, D, disabled)
      BY <1>2, <1>3, <1>5, <1>8, <3>1, FillFailed
    <3>4. Listed(d, y)
      BY <1>2, <3>2, SameListed
    <3>5. Steady(d, y)
      BY <3>2 DEF Steady, Still, Used
    <3>6. \A v \in Urbs : y.urb[v].stage # "filling"
      BY <3>2, <1>9f, TdRecords
    <3>7. /\ Tds(y, Q, D, disabled) /\ Halts(y, Q, F) /\ Owing(y, {}, disabled)
          /\ \A t \in D : Owner(y, t) = Owner(d, t)
      BY <1>8, <1>9, <3>3 DEF Carried
    <3> QED BY <3>4, <3>5, <3>6, <3>7
  <2>2. CASE ~(Len(got.tds) < n)
    <3>1. y = FillTds(a, u, got.tds)
      BY <1>6, <2>2
    <3> HIDE DEF y
    <3>2. Ended(d, y, Q, D, disabled, u)
      BY <1>2, <1>3, <1>4, <1>5, <1>8, <2>2, <3>1, FillDone
    <3>3. Submitted(d, y, Q, D, disabled, u)
      BY <3>2 DEF Ended
    <3>4. \A v \in Urbs \ {u} : y.urb[v] = d.urb[v]
      BY <3>2 DEF Ended
    <3>5. y.urb[u].stage = "linked" /\ Listed(d, y) /\ Steady(d, y)
      BY <3>2 DEF Ended
    <3>6. \A v \in Urbs : y.urb[v].stage # "filling"
      BY <3>4, <3>5, <1>9f
    <3>8. PICK R : /\ Tds(y, R, D, disabled) /\ (\A t \in D : Owner(y, t) = Owner(d, t))
                   /\ \A G \in SUBSET D : Halts(d, Q, G) => Halts(y, R, G)
                   /\ \A S : Owing(d, S \cup {u}, disabled) => Owing(y, S, disabled)
      BY <3>3 DEF Submitted
    <3>9. Owing(y, {}, disabled)
      <4>1. Owing(d, {} \cup {u}, disabled)
        BY <1>8 DEF Owing
      <4> QED BY <3>8, <4>1
    <3>10. Halts(y, R, F)
      BY <1>8, <1>9, <3>8
    <3> QED BY <3>5, <3>6, <3>8, <3>9, <3>10
  <2> QED BY <2>1, <2>2
<1> HIDE DEF y
<1>11. y \in DD /\ y.rm = d.rm /\ Lists(y) /\ Running(y) /\ Removals(y)
  BY <1>1, <1>4, <1>10 DEF Listed
<1>12. InFlight(y, doneq, doneHead, irq.list, 1 - frame, disabled)
  <2>1. PICK R : /\ Tds(y, R, D, disabled) /\ Halts(y, R, F) /\ Owing(y, {}, disabled)
                 /\ \A t \in D : Owner(y, t) = Owner(d, t)
    BY <1>10
  <2>2. \A t \in Range(doneq) : Owner(y, t) = Owner(d, t)
    BY <1>9, <2>1
  <2> QED BY <1>7, <1>11, <2>1, <2>2, StillInFlight DEF D, F
<1>13. Typed' /\ Listings'
  BY <1>1, <1>3, <1>11, <1>12, CountsBounded DEF Typed, Listings, hc, y
<1>14. Waiting' /\ Emptied' /\ Served'
  BY <1>1, <1>3, <1>4, <1>10 DEF Waiting, Emptied, Served, hc, y
<1>15. Fetched'
  <2>1. CASE at # Nil
    <3>1. IsFetched(d, at, 1 - frame) /\ at[1] \in Eds
      BY <1>1, <2>1 DEF Fetched, Typed
    <3> QED BY <3>1, <1>3, <1>10, <1>11, SteadyFetched DEF Fetched, hc, y
  <2>2. CASE at = Nil
    BY <2>2, <1>3 DEF Fetched, hc
  <2> QED BY <2>1, <2>2
<1>16. Moving'
  BY <1>3, <1>12 DEF Moving, hc, y
<1> QED
  BY <1>13, <1>14, <1>15, <1>16 DEF IInv

-----------------------------------------------------------------------------
(* Endpoints are put on the removal list of this frame.                      *)

LEMMA DoomedKeeps ==
    ASSUME OhciAssumption, Typed, Listings, Served, Fetched, Moving,
           NEW y, d' = y, Doomed(d, y), AskSF(y),
           irq' = irq, at' = at, doneq' = doneq, doneHead' = doneHead, frame' = frame,
           disabled' = disabled, dev' \in {"live", "freeing", "gone"}
    PROVE  Typed' /\ Listings' /\ Served' /\ Fetched' /\ Moving'
<1>1. /\ d \in DD /\ y \in DD /\ SameTds(d, y) /\ Lists(y) /\ Removals(y) /\ (Running(d) => Running(y))
      /\ y.rm[1 - frame] = d.rm[1 - frame]
  BY DEF Typed, Doomed
<1>2. sf' \in BOOLEAN /\ sfEn' \in BOOLEAN /\ (disabled => sf' = sf)
  BY DEF AskSF, Typed
<1>3. Typed'
  <2>1. \A u \in Urbs : y.urb[u].cnt <= Size[u]
    BY <1>1 DEF Typed, SameTds
  <2> QED BY <1>1, <1>2, <2>1 DEF Typed
<1>4. Listings'
  BY <1>1 DEF Listings
<1>5. Served'
  BY <1>2 DEF Served
<1>6. Fetched'
  <2>1. CASE at # Nil
    <3>1. IsFetched(d, at, 1 - frame) /\ at[1] \in Eds
      BY <2>1 DEF Fetched, Typed
    <3>2. Steady(d, y)
      BY <1>1, SameSteady
    <3>3. IsFetched(y, at, 1 - frame)
      BY <3>1, <3>2, <1>1, SteadyFetched
    <3> QED BY <3>3 DEF Fetched
  <2>2. CASE at = Nil
    BY <2>2 DEF Fetched
  <2> QED BY <2>1, <2>2
<1>7. Moving'
  <2> SUFFICES ASSUME ~disabled \/ irq.pc # "idle"
               PROVE  InFlight(y, doneq, doneHead, irq.list, 1 - frame, disabled)
    BY DEF Moving
  <2>1. InFlight(d, doneq, doneHead, irq.list, 1 - frame, disabled)
    BY DEF Moving
  <2> QED BY <1>1, <2>1, SameInFlight
<1> QED
  BY <1>3, <1>4, <1>5, <1>6, <1>7

(* A linked request has TDs out, so its endpoint is in use.                  *)
LEMMA LinkedEpUsed ==
    ASSUME OhciAssumption, NEW x \in DD, NEW p, NEW q, NEW r, NEW f, InFlight(x, p, q, r, f, FALSE),
           NEW u \in Linked(x)
    PROVE  Ep[u] \in Used(x)
<1> DEFINE D == Range(p) \cup Range(q) \cup Range(r)
<1>1. PICK Q : Tds(x, Q, D, FALSE) /\ Owing(x, {}, FALSE)
  BY DEF InFlight
<1> HIDE DEF D
<1>2. Queues(x, Q) /\ Out(x, Q, D) /\ Counted(x, Q, D, FALSE)
  BY <1>1 DEF Tds
<1> DEFINE P == Pending(x, Q, D, u)
           n == Cardinality(P)
<1>3. u \in Urbs /\ Size[u] \in Nat /\ x.urb[u].cnt \in Nat
  BY Parts DEF Linked, OhciAssumption
<1>4. x.urb[u].cnt < Size[u]
  BY <1>1 DEF Owing
<1>5. x.urb[u].cnt + n = Size[u]
  BY <1>2, <1>3 DEF Counted
<1>6. n \in Nat /\ (n = 0 <=> P = {})
  BY <1>2, PendingFinite
<1>7. P # {}
  <2> HIDE DEF n, P
  <2> QED BY <1>3, <1>4, <1>5, <1>6
<1>8. PICK t : t \in Coming(Q) \cup D /\ Owner(x, t) = u
  BY <1>7 DEF Pending
<1>9. CASE t \in D
  BY <1>2, <1>8, <1>9 DEF Out
<1>10. CASE t \in Coming(Q)
  BY <1>2, <1>8, <1>10, ComingTd
<1> QED
  BY <1>8, <1>9, <1>10

(* sohci_unlink_urb keeps the invariant.                                     *)
LEMMA UnlinkKeeps ==
    ASSUME OhciAssumption, Orderly, IInv, NEW u \in Urbs, Unlink(u)
    PROVE  IInv'
<1> DEFINE e == Ep[u]
           y == Unlinking(d, u, e)
<1>1. /\ Typed /\ Listings /\ Waiting /\ Emptied /\ Served /\ Fetched /\ Moving
  BY DEF IInv
<1>2. d \in DD /\ e \in Eds /\ frame \in Frames /\ Lists(d) /\ Removals(d)
  BY <1>1 DEF Typed, OhciAssumption, Listings
<1>3. /\ Alone /\ ~disabled /\ d.urb[u].stage = "linked"
      /\ d' = y /\ AskSF(y)
      /\ dev' = dev /\ irq' = irq /\ at' = at /\ doneq' = doneq /\ doneHead' = doneHead
      /\ frame' = frame /\ disabled' = disabled
  BY DEF Unlink, Unlinking
<1>4. y = Unlinking(d, u, e)
  OBVIOUS
<1>5. d.ed[e].state # "NEW"
  <2>1. InFlight(d, doneq, doneHead, irq.list, 1 - frame, FALSE)
    <3>1. disabled = FALSE
      BY <1>1, <1>3 DEF Typed
    <3> QED BY <1>1, <3>1 DEF Moving
  <2>2. u \in Linked(d)
    BY <1>3 DEF Linked
  <2> QED BY <1>2, <2>1, <2>2, LinkedEpUsed DEF Used
<1> HIDE DEF y, e
<1>6. Doomed(d, y)
  BY <1>2, <1>4, <1>5, UnlinkDooms
<1>7. Typed' /\ Listings' /\ Served' /\ Fetched' /\ Moving'
  <2>1. dev' \in {"live", "freeing", "gone"}
    BY <1>1, <1>3 DEF Typed
  <2> QED BY <1>1, <1>3, <1>6, <2>1, DoomedKeeps
<1>8. SameTds(d, y)
  BY <1>6 DEF Doomed
<1>9. Waiting'
  <2>1. \A v \in Urbs : d.urb[v].stage # "filling"
    BY <1>3, NotRunAhead DEF Orderly
  <2> QED BY <2>1, <1>3, <1>8, NoneWaiting DEF NoneToFill, SameTds
<1>10. Emptied'
  BY <1>1, <1>3, <1>8 DEF Emptied, Used, SameTds
<1> QED
  BY <1>7, <1>9, <1>10 DEF IInv

(* sohci_free_dev keeps the invariant.                                       *)
LEMMA FreeDevKeeps ==
    ASSUME OhciAssumption, Orderly, IInv, FreeDev
    PROVE  IInv'
<1> DEFINE s == SetToSeq(Eds)
           y == FreeEds(d, s)
<1>1. /\ Typed /\ Listings /\ Waiting /\ Emptied /\ Served /\ Fetched /\ Moving
  BY DEF IInv
<1>2. d \in DD /\ frame \in Frames /\ Lists(d) /\ Removals(d)
  BY <1>1 DEF Typed, Listings
<1>3. /\ NoneFilling /\ (\A e \in Eds : ~d.ed[e].urbdel)
      /\ d' = y /\ AskSF(y)
      /\ dev' = (IF disabled \/ \A e \in Eds : y.ed[e].state = "NEW" THEN "gone" ELSE "freeing")
      /\ irq' = irq /\ at' = at /\ doneq' = doneq /\ doneHead' = doneHead
      /\ frame' = frame /\ disabled' = disabled
  BY DEF FreeDev, Orderly
<1>4. y = FreeEds(d, s)
  OBVIOUS
<1>5. s \in Seq(Eds)
  BY AllEds
<1> HIDE DEF y, s
<1>6. Doomed(d, y)
  BY <1>2, <1>3, <1>4, <1>5, AllDoomed
<1>7. Typed' /\ Listings' /\ Served' /\ Fetched' /\ Moving'
  <2>1. dev' \in {"live", "freeing", "gone"}
    BY <1>3
  <2> QED BY <1>1, <1>3, <1>6, <2>1, DoomedKeeps
<1>8. SameTds(d, y)
  BY <1>6 DEF Doomed
<1>9. Waiting'
  <2>1. \A v \in Urbs : d.urb[v].stage # "filling"
    BY <1>3 DEF NoneFilling
  <2> QED BY <2>1, <1>3, <1>8, NoneWaiting DEF NoneToFill, SameTds
<1>10. Emptied'
  BY <1>3 DEF Emptied, Used
<1> QED
  BY <1>7, <1>9, <1>10 DEF IInv

(* sohci_unlink_urb of a controller that is dead keeps the invariant.        *)
LEMMA UnlinkDeadKeeps ==
    ASSUME OhciAssumption, Orderly, IInv, NEW u \in Urbs, UnlinkDead(u)
    PROVE  IInv'
<1> DEFINE S == {u}
           T == TdsOf(d, S)
           y == d'
<1>1. /\ Typed /\ Listings /\ Waiting /\ Emptied /\ Served /\ Fetched /\ Moving
  BY DEF IInv
<1>2. /\ d \in DD /\ Alone /\ disabled /\ irq.pc = "idle" /\ y = GiveBack(d, S)
      /\ dev' = dev /\ irq' = irq /\ hc' = hc /\ sfEn' = sfEn /\ disabled' = disabled
      /\ S \in SUBSET Urbs /\ T = TdsOf(d, S)
  BY <1>1 DEF UnlinkDead, Typed
<1> HIDE DEF S, T, y
<1>3. /\ y \in DD /\ y.ed = d.ed /\ y.list = d.list /\ y.on = d.on /\ y.rm = d.rm
      /\ \A v \in Urbs : y.urb[v] = IF v \in S THEN NewUrb ELSE d.urb[v]
  BY <1>2, GiveBackShape
<1>4. d' \in DD /\ \A v \in Urbs : d'.urb[v].cnt <= Size[v]
  <2> SUFFICES ASSUME NEW v \in Urbs PROVE y.urb[v].cnt <= Size[v]
    BY <1>3 DEF y
  <2>1. d.urb[v].cnt <= Size[v] /\ 0 <= Size[v]
    BY <1>1 DEF Typed, OhciAssumption
  <2>2. y.urb[v] = NewUrb \/ y.urb[v] = d.urb[v]
    BY <1>3
  <2> QED BY <2>1, <2>2, TdRecords
<1>5. Listings'
  <2>1. Listed(d, y)
    BY <1>2, <1>3, SameListed
  <2> QED BY <1>1, <1>2, <2>1 DEF Listed, Listings, y
<1>6. Typed'
  BY <1>1, <1>2, <1>4 DEF Typed, hc
<1>7. Waiting'
  <2>1. \A v \in Urbs : d.urb[v].stage # "filling"
    BY <1>2, NotRunAhead DEF Orderly
  <2> QED BY <2>1, <1>3, TdRecords, NoneWaiting DEF NoneToFill, y
<1>8. Emptied' /\ Served'
  BY <1>1, <1>2 DEF Emptied, Served, hc
<1>9. Fetched' /\ Moving'
  <2>1. at' = Nil /\ disabled' /\ irq'.pc = "idle"
    BY <1>1, <1>2 DEF Served, hc
  <2> QED BY <2>1 DEF Fetched, Moving
<1> QED
  BY <1>5, <1>6, <1>7, <1>8, <1>9 DEF IInv

(* The device is freed for good, and another comes.                          *)
LEMMA DevKeeps ==
    ASSUME OhciAssumption, Orderly, IInv, FreeDevDone \/ AllocDev
    PROVE  IInv'
<1>1. /\ Typed /\ Listings /\ Waiting /\ Emptied /\ Served /\ Fetched /\ Moving
  BY DEF IInv
<1>2. /\ d' = d /\ irq' = irq /\ hc' = hc /\ sfEn' = sfEn /\ disabled' = disabled
      /\ dev # "live" /\ dev' \in {"gone", "live"}
      /\ dev' = "gone" => \A e \in Eds : d.ed[e].state = "NEW"
  BY DEF FreeDevDone, AllocDev
<1>3. Typed' /\ Listings' /\ Served' /\ Fetched' /\ Moving'
  BY <1>1, <1>2 DEF Typed, Listings, Served, Fetched, Moving, hc
<1>4. Waiting' /\ Emptied'
  BY <1>1, <1>2 DEF Waiting, Emptied, Used
<1> QED
  BY <1>3, <1>4 DEF IInv

-----------------------------------------------------------------------------
(* The controller takes a TD, is done with it, begins a frame.               *)

(* A queue with TDs begins with one that is not the dummy.                   *)
LEMMA FirstTd ==
    ASSUME OhciAssumption, NEW x, NEW Q, Queues(x, Q), NEW e \in Used(x), Queue(x, e) # <<>>
    PROVE  x.ed[e].head # x.ed[e].tail
<1>1. Path(x, e, Q[e]) /\ Q[e] \in Seq(Blocks)
  BY DEF Queues, Used
<1>2. Queue(x, e) = Q[e]
  BY <1>1, PathIsQueue
<1> DEFINE q == Q[e]
<1>3. q # <<>> /\ q \in Seq(Blocks)
  BY <1>1, <1>2
<1>4. x.ed[e].head = Next1(q, 1, x.ed[e].tail) /\ x.ed[e].tail \notin Range(q)
  BY <1>1 DEF Path, Chained
<1> HIDE DEF q
<1>5. q[1] \in Range(q)
  BY <1>3, Beheaded
<1>6. 1 <= Len(q)
  BY <1>3
<1> QED
  BY <1>4, <1>5, <1>6 DEF Next1

(* The controller's fetching of a TD keeps the invariant.                    *)
LEMMA FetchKeeps ==
    ASSUME OhciAssumption, IInv, NEW e \in Eds, Fetch(e)
    PROVE  IInv'
<1>1. /\ Typed /\ Lists(d) /\ Removals(d) /\ Listings /\ Waiting /\ Emptied /\ Served /\ Fetched
      /\ Moving
  BY DEF IInv, Listings
<1>2. /\ ~disabled /\ at = Nil /\ InList(d, e) /\ ~d.ed[e].skip /\ ~d.ed[e].halted
      /\ Queue(d, e) # <<>>
      /\ at' = <<e, d.ed[e].head>>
      /\ d' = d /\ dev' = dev /\ irq' = irq /\ doneq' = doneq /\ doneHead' = doneHead
      /\ frame' = frame /\ sf' = sf /\ sfEn' = sfEn /\ disabled' = disabled
  BY DEF Fetch, CanFetch
<1>3. d \in DD /\ frame \in Frames
  BY <1>1 DEF Typed
<1>4. d.ed[e].state = "OPER"
  <2>1. Type[e] \in Kinds
    BY DEF OhciAssumption, Kinds
  <2> QED BY <1>1, <1>2, <2>1 DEF InList, Lists
<1>5. e \in Used(d)
  BY <1>4 DEF Used
<1>6. e \notin Range(d.rm[1 - frame])
  <2>1. ~Removed(d, e)
    BY <1>1, <1>2 DEF Removals
  <2>2. e \notin Range(d.rm[frame]) \cup Range(d.rm[1 - frame])
    BY <1>1, <1>3, <2>1, TwoLists DEF Removals
  <2> QED BY <2>2
<1>7. d.ed[e].head # d.ed[e].tail
  <2>1. PICK Q : Queues(d, Q)
    BY <1>1, <1>2 DEF Moving, InFlight, Tds
  <2> QED BY <1>2, <1>5, <2>1, FirstTd
<1>8. d.ed[e].head \in Blocks
  <2>1. PICK Q : Queues(d, Q)
    BY <1>1, <1>2 DEF Moving, InFlight, Tds
  <2>2. Path(d, e, Q[e])
    BY <1>5, <2>1 DEF Queues, Used
  <2>3. Q[e] # <<>>
    BY <1>2, <2>2, PathIsQueue
  <2>4. Q[e] \in Seq(Blocks) /\ d.ed[e].head = Next1(Q[e], 1, d.ed[e].tail)
    BY <2>2 DEF Path, Chained
  <2>5. 1 <= Len(Q[e]) /\ Q[e][1] \in Blocks
    BY <2>3, <2>4
  <2> QED BY <2>4, <2>5 DEF Next1
<1>9. Typed' /\ Listings' /\ Waiting' /\ Emptied'
  BY <1>1, <1>2, <1>8 DEF Typed, Listings, Waiting, Emptied
<1>10. Served' /\ Moving'
  BY <1>1, <1>2 DEF Served, Moving
<1>11. Fetched'
  BY <1>2, <1>5, <1>6, <1>7 DEF Fetched, IsFetched
<1> QED
  BY <1>9, <1>10, <1>11 DEF IInv

(* The controller's retiring of a TD keeps the invariant.                    *)
LEMMA RetireKeeps ==
    ASSUME OhciAssumption, IInv, NEW fails \in BOOLEAN, Retire(fails)
    PROVE  IInv'
<1> DEFINE e == at[1]
           t == at[2]
           y == Retiring(d, e, t, fails)
           F == Range(doneq) \cup Range(doneHead)
           D == F \cup Range(irq.list)
           new == <<t>> \o doneq
<1>1. /\ Typed /\ Listings /\ Waiting /\ Emptied /\ Served /\ Fetched /\ Moving
  BY DEF IInv
<1>2. /\ at # Nil /\ d' = y /\ doneq' = new /\ at' = Nil
      /\ dev' = dev /\ irq' = irq /\ doneHead' = doneHead
      /\ frame' = frame /\ sf' = sf /\ sfEn' = sfEn /\ disabled' = disabled
  BY DEF Retire, Retiring
<1>3. /\ d \in DD /\ e \in Eds /\ t \in Blocks /\ y = Retiring(d, e, t, fails) /\ ~disabled
      /\ doneq \in Seq(Blocks)
  BY <1>1, <1>2 DEF Typed, Served
<1>4. /\ e \in Used(d) /\ ~d.ed[e].halted /\ e \notin Range(d.rm[1 - frame])
      /\ t = d.ed[e].head /\ t # d.ed[e].tail
  BY <1>1, <1>2 DEF Fetched, IsFetched
<1>5. Apart(doneq, doneHead, irq.list)
      /\ \A s \in Range(doneq) : Ep[Owner(d, s)] \notin Range(d.rm[1 - frame])
  BY <1>1, <1>3 DEF Moving, InFlight
<1>6. PICK Q : Tds(d, Q, D, disabled) /\ Owing(d, {}, disabled) /\ Halts(d, Q, F)
  BY <1>1, <1>3 DEF Moving, InFlight
<1>7. F \in SUBSET D /\ Range(doneq) \subseteq D /\ Range(doneHead) \subseteq D /\ Range(irq.list) \subseteq D
  OBVIOUS
<1>8. new \in Seq(Blocks) /\ Range(new) = Range(doneq) \cup {t}
      /\ (IsInjective(new) <=> IsInjective(doneq) /\ t \notin Range(doneq))
  BY <1>3, Prepended
<1>9. /\ Range(new) \cup Range(doneHead) = F \cup {t}
      /\ Range(new) \cup Range(doneHead) \cup Range(irq.list) = D \cup {t}
  BY <1>8
<1> HIDE DEF e, t, y, D, F, new
<1>10. RetireStep(d, y, e, t, fails) /\ y.td[t].failed = fails
  BY <1>3, RetireShape
<1>11. y \in DD /\ y.urb = d.urb /\ Listed(d, y)
  BY <1>3, RetireShape
<1>12. \A f \in Eds : /\ y.ed[f].state = d.ed[f].state /\ y.ed[f].urbdel = d.ed[f].urbdel
                      /\ y.ed[f].skip = d.ed[f].skip
  BY <1>3, RetireShape
<1>r. /\ d \in DD /\ y \in DD /\ Tds(d, Q, D, disabled) /\ e \in Used(d) /\ t = d.ed[e].head
      /\ t # d.ed[e].tail /\ ~d.ed[e].halted /\ RetireStep(d, y, e, t, fails)
      /\ y.td[t].failed => fails
  BY <1>3, <1>4, <1>6, <1>10, <1>11
<1>13. t \in Blocks \ D /\ Owner(d, t) \in Urbs /\ Ep[Owner(d, t)] = e
  BY <1>r, Retired
<1>14. OneMore(d, y, Q, D, disabled, t)
  BY <1>r, Retired
<1>15. PICK R : /\ Tds(y, R, D \cup {t}, disabled) /\ Halts(y, R, F \cup {t}) /\ Owing(y, {}, disabled)
  BY <1>6, <1>7, <1>14 DEF OneMore
<1>16. y.rm = d.rm
  BY <1>11 DEF Listed
<1>17. InFlight(y, new, doneHead, irq.list, 1 - frame, disabled)
  <2>1. Apart(new, doneHead, irq.list)
    BY <1>5, <1>7, <1>8, <1>13 DEF Apart
  <2>2. \A s \in Range(new) : Ep[Owner(y, s)] \notin Range(y.rm[1 - frame])
    <3>1. \A s \in Blocks : Owner(y, s) = Owner(d, s)
      BY <1>10 DEF RetireStep, ShortenStep
    <3>2. Range(doneq) \subseteq Blocks
      BY <1>3, NotEmpty
    <3> QED BY <1>4, <1>5, <1>8, <1>13, <1>16, <3>1, <3>2
  <2> QED BY <1>9, <1>15, <2>1, <2>2 DEF InFlight
<1>18. Typed'
  BY <1>1, <1>2, <1>8, <1>11 DEF Typed
<1>19. Listings'
  BY <1>1, <1>2, <1>11 DEF Listed, Listings
<1>20. Waiting' /\ Emptied'
  <2>1. \A v \in Urbs : Ep[v] \in Eds
    BY DEF OhciAssumption
  <2>2. \A v \in Urbs : IsWaiting(d, v) => IsWaiting(y, v)
    BY <1>12, <2>1 DEF IsWaiting
  <2>3. Used(y) = Used(d)
    BY <1>12 DEF Used
  <2> QED BY <1>1, <1>2, <1>11, <2>2, <2>3 DEF Waiting, Emptied
<1>21. Served' /\ Fetched'
  BY <1>1, <1>2, <1>3 DEF Served, Fetched
<1>22. Moving'
  BY <1>2, <1>17 DEF Moving
<1> QED
  BY <1>18, <1>19, <1>20, <1>21, <1>22 DEF IInv

(* The start of a frame keeps the invariant: the endpoints whose removal is  *)
(* now due are not being worked on.                                          *)
LEMMA StartOfFrameKeeps ==
    ASSUME OhciAssumption, Orderly, IInv, StartOfFrame
    PROVE  IInv'
<1>1. /\ Typed /\ Listings /\ Waiting /\ Emptied /\ Served /\ Fetched /\ Moving
  BY DEF IInv
<1>2. /\ ~disabled /\ irq.pc = "idle" /\ doneHead = <<>>
      /\ frame' = 1 - frame /\ sf' = sfEn /\ at' = Nil
      /\ d' = d /\ dev' = dev /\ irq' = irq /\ sfEn' = sfEn /\ disabled' = disabled
  BY DEF StartOfFrame, Orderly, IrqPending
<1>3. doneHead' = doneq /\ doneq' = <<>>
  <2>1. irq.ints = {}
    BY <1>1, <1>2 DEF Served
  <2> QED BY <1>2, <2>1 DEF StartOfFrame
<1>4. Typed'
  <2>1. 1 - frame \in Frames
    BY <1>1, TwoLists DEF Typed
  <2> QED BY <1>1, <1>2, <1>3, <2>1 DEF Typed
<1>5. Listings' /\ Waiting' /\ Emptied'
  BY <1>1, <1>2 DEF Listings, Waiting, Emptied
<1>6. Served' /\ Fetched'
  BY <1>1, <1>2, <1>3 DEF Served, Fetched
<1>7. Moving'
  <2>1. InFlight(d, doneq, <<>>, irq.list, 1 - frame, disabled)
    BY <1>1, <1>2 DEF Moving
  <2>2. InFlight(d, <<>>, doneq, irq.list, 1 - frame', disabled)
    <3>1. Range(<<>>) = {} /\ IsInjective(<<>>)
      BY EmptyRange
    <3>2. Apart(<<>>, doneq, irq.list)
      BY <2>1, <3>1 DEF InFlight, Apart
    <3>3. /\ Range(doneq) \cup Range(<<>>) = Range(<<>>) \cup Range(doneq)
          /\ Range(doneq) \cup Range(<<>>) \cup Range(irq.list)
               = Range(<<>>) \cup Range(doneq) \cup Range(irq.list)
      OBVIOUS
    <3> QED BY <2>1, <3>1, <3>2, <3>3 DEF InFlight
  <2> QED BY <1>2, <1>3, <2>2 DEF Moving
<1> QED
  BY <1>4, <1>5, <1>6, <1>7 DEF IInv

-----------------------------------------------------------------------------
(* The handler goes on, a TD or a list of removals at a time.                *)

LEMMA DoneEndKeeps ==
    ASSUME OhciAssumption, IInv, DoneEnd
    PROVE  IInv'
<1>1. /\ Typed /\ Listings /\ Waiting /\ Emptied /\ Served /\ Fetched /\ Moving
  BY DEF IInv
<1>2. /\ irq.pc = "done" /\ irq.list = <<>>
      /\ irq' = (IF "SF" \in irq.ints THEN [irq EXCEPT !.pc = "sf"] ELSE IrqIdle)
      /\ d' = d /\ dev' = dev /\ hc' = hc /\ sfEn' = sfEn /\ disabled' = disabled
  BY DEF DoneEnd
<1>3. /\ irq' \in IrqRecs
      /\ irq'.pc # "done" /\ irq'.list = <<>> /\ (irq'.pc = "idle" => irq'.ints = {})
  BY <1>1, <1>2 DEF Typed, IrqIdle, IrqRecs
<1>4. Typed' /\ Listings' /\ Waiting' /\ Emptied'
  BY <1>1, <1>2, <1>3 DEF Typed, Listings, Waiting, Emptied, hc
<1>5. Served' /\ Fetched' /\ Moving'
  BY <1>1, <1>2, <1>3 DEF Served, Fetched, Moving, hc
<1> QED
  BY <1>4, <1>5 DEF IInv

(* One round of dl_done_list keeps the invariant.                            *)
LEMMA DoneTdKeeps ==
    ASSUME OhciAssumption, Orderly, IInv, DoneTd
    PROVE  IInv'
<1> DEFINE s == irq.list
           t == Head(s)
           e == Ep[Owner(d, t)]
           y == d'
           F == Range(doneq) \cup Range(doneHead)
           D == F \cup Range(s)
           E == F \cup Range(Tail(s))
<1>1. /\ Typed /\ Listings /\ Waiting /\ Emptied /\ Served /\ Fetched /\ Moving
  BY DEF IInv
<1>2. /\ Alone /\ irq.pc = "done" /\ s # <<>> /\ irq' = [irq EXCEPT !.list = Tail(@), !.ed = e]
      /\ dev' = dev /\ hc' = hc /\ sfEn' = sfEn /\ disabled' = disabled
  BY DEF DoneTd, Owner
<1>3. y = Handled(d, t, e)
  BY DEF DoneTd, Handled, Finish, Credit, Owner
<1>4. /\ d \in DD /\ s \in Seq(Blocks) /\ e = Ep[Owner(d, t)] /\ Lists(d) /\ Removals(d)
  BY <1>1 DEF Typed, IrqRecs, Listings
<1>5. InFlight(d, doneq, doneHead, s, 1 - frame, disabled)
  BY <1>1, <1>2 DEF Moving
<1>6. Apart(doneq, doneHead, s)
      /\ \A r \in Range(doneq) : Ep[Owner(d, r)] \notin Range(d.rm[1 - frame])
  BY <1>5 DEF InFlight
<1>7. PICK Q : Tds(d, Q, D, disabled) /\ Owing(d, {}, disabled) /\ Halts(d, Q, F)
  BY <1>5 DEF InFlight
<1>8. /\ t \in Range(s) /\ Range(s) = Range(Tail(s)) \cup {t} /\ Tail(s) \in Seq(Blocks)
      /\ (IsInjective(s) <=> IsInjective(Tail(s)) /\ t \notin Range(Tail(s)))
  BY <1>2, <1>4, Beheaded
<1>9. /\ irq' \in IrqRecs
      /\ irq'.pc = "done" /\ irq'.list = Tail(s)
  <2>1. Owner(d, t) \in Urbs
    <3>1. Out(d, Q, D)
      BY <1>7 DEF Tds
    <3>2. t \in D
      BY <1>8
    <3> QED BY <3>1, <3>2 DEF Out
  <2>2. e \in Eds
    BY <2>1 DEF OhciAssumption
  <2> HIDE DEF t, e
  <2> QED BY <2>2, <1>1, <1>2, <1>8 DEF Typed, IrqRecs
<1> HIDE DEF t, e, y
<1>10. t \in D /\ D \ {t} = E /\ F \in SUBSET (D \ {t}) /\ Range(doneq) \subseteq D \ {t}
  BY <1>6, <1>8 DEF Apart
<1>11. Apart(doneq, doneHead, Tail(s))
  BY <1>6, <1>8 DEF Apart
<1> HIDE DEF D, E, F, s
<1>12. Quiet(d, y)
  BY <1>3, <1>4, <1>7, <1>10, HandledTd
<1>13. OneLess(d, y, D, disabled, t, F)
  BY <1>3, <1>4, <1>7, <1>10, HandledTd
<1>14. /\ y \in DD /\ y.rm = d.rm /\ Lists(y) /\ Removals(y) /\ (Running(d) => Running(y))
       /\ Steady(d, y) /\ NoneToFill(d, y)
  BY <1>4, <1>12 DEF Quiet, Listed, NoneToFill
<1>15. InFlight(y, doneq, doneHead, Tail(s), 1 - frame, disabled)
  <2>1. PICK R : /\ Tds(y, R, D \ {t}, disabled) /\ (\A r \in D \ {t} : Owner(y, r) = Owner(d, r))
                 /\ Halts(y, R, F) /\ Owing(y, {}, disabled)
    BY <1>13 DEF OneLess
  <2>2. Tds(y, R, F \cup Range(Tail(s)), disabled)
    BY <2>1, <1>10 DEF E
  <2>3. \A r \in Range(doneq) : Ep[Owner(y, r)] \notin Range(y.rm[1 - frame])
    BY <2>1, <1>6, <1>10, <1>14
  <2> QED BY <2>1, <2>2, <2>3, <1>11 DEF InFlight, F
<1>16. Typed'
  BY <1>1, <1>2, <1>9, <1>14, <1>15, CountsBounded DEF Typed, hc, y
<1>17. Listings'
  BY <1>1, <1>2, <1>14 DEF Listings, y
<1>18. Waiting'
  <2>1. \A v \in Urbs : d.urb[v].stage # "filling"
    BY <1>2, NotRunAhead DEF Orderly
  <2> QED BY <2>1, <1>14, NoneWaiting DEF y
<1>19. Emptied' /\ Served'
  <2>1. Used(d) # {}
    <3>1. Out(d, Q, D)
      BY <1>7 DEF Tds
    <3> QED BY <3>1, <1>4, <1>10 DEF Out
  <2> QED BY <2>1, <1>1, <1>2, <1>9 DEF Emptied, Served, hc
<1>20. Fetched'
  <2>1. CASE at # Nil
    <3>1. IsFetched(d, at, 1 - frame) /\ at[1] \in Eds
      BY <1>1, <2>1 DEF Fetched, Typed
    <3> QED BY <3>1, <1>2, <1>14, SteadyFetched DEF Fetched, hc, y
  <2>2. CASE at = Nil
    BY <2>2, <1>2 DEF Fetched, hc
  <2> QED BY <2>1, <2>2
<1>21. Moving'
  BY <1>2, <1>9, <1>15 DEF Moving, hc, y
<1> QED
  BY <1>16, <1>17, <1>18, <1>19, <1>20, <1>21 DEF IInv

(* The unlinking of an endpoint that has run idle keeps the invariant.       *)
LEMMA UnlinkIdleKeeps ==
    ASSUME OhciAssumption, Orderly, IInv, UnlinkIdle
    PROVE  IInv'
<1> DEFINE e == irq.ed
           y == d'
           f == 1 - frame
<1>1. /\ Typed /\ Listings /\ Waiting /\ Emptied /\ Served /\ Fetched /\ Moving
  BY DEF IInv
<1>2. /\ Alone /\ irq.pc = "done" /\ e # Nil /\ y = Idled(d, e) /\ irq' = [irq EXCEPT !.ed = Nil]
      /\ dev' = dev /\ hc' = hc /\ sfEn' = sfEn /\ disabled' = disabled
  BY DEF UnlinkIdle, Idled
<1>3. d \in DD /\ e \in Eds /\ Lists(d) /\ Removals(d)
  BY <1>1, <1>2 DEF Typed, IrqRecs, Listings
<1>4. InFlight(d, doneq, doneHead, irq.list, f, disabled)
  BY <1>1, <1>2 DEF Moving
<1>5. /\ irq' \in IrqRecs /\ irq'.pc = "done" /\ irq'.list = irq.list
  BY <1>1, <1>2 DEF Typed, IrqRecs
<1> HIDE DEF e, y, f
<1>6. Quiet(d, y) /\ SameTds(d, y)
  BY <1>2, <1>3, IdledShape
<1>7. /\ y \in DD /\ y.rm = d.rm /\ Lists(y) /\ Removals(y) /\ (Running(d) => Running(y))
      /\ Steady(d, y) /\ NoneToFill(d, y)
  BY <1>3, <1>6 DEF Quiet, Listed, NoneToFill
<1>8. InFlight(y, doneq, doneHead, irq.list, f, disabled)
  BY <1>3, <1>4, <1>6, <1>7, SameInFlight
<1>9. Typed'
  BY <1>1, <1>2, <1>5, <1>7, <1>8, CountsBounded DEF Typed, hc, y
<1>10. Listings'
  BY <1>1, <1>2, <1>7 DEF Listings, y
<1>11. Waiting'
  <2>1. \A v \in Urbs : d.urb[v].stage # "filling"
    BY <1>2, NotRunAhead DEF Orderly
  <2> QED BY <2>1, <1>7, NoneWaiting DEF y
<1>12. Emptied' /\ Served'
  <2>1. Used(y) = Used(d)
    BY <1>6 DEF SameTds, Used
  <2> QED BY <2>1, <1>1, <1>2, <1>5 DEF Emptied, Served, hc, y
<1>13. Fetched'
  <2>1. CASE at # Nil
    <3>1. IsFetched(d, at, f) /\ at[1] \in Eds
      BY <1>1, <2>1 DEF Fetched, Typed, f
    <3> QED BY <3>1, <1>2, <1>7, SteadyFetched DEF Fetched, hc, y, f
  <2>2. CASE at = Nil
    BY <2>2, <1>2 DEF Fetched, hc
  <2> QED BY <2>1, <2>2
<1>14. Moving'
  BY <1>2, <1>5, <1>8 DEF Moving, hc, y, f
<1> QED
  BY <1>9, <1>10, <1>11, <1>12, <1>13, <1>14 DEF IInv

-----------------------------------------------------------------------------
(* dl_del_list as a whole, for the removals of the last frame.               *)

Started(x, f, L, O) == [x EXCEPT !.rm[f] = L, !.on = O]

(* What the interrupt at the start of a frame writes last: the lists run     *)
(* again and the removal list is empty.                                      *)
LEMMA StartedShape ==
    ASSUME NEW x \in DD, NEW f \in Frames, NEW O \in SUBSET Kinds, NEW y, y = Started(x, f, <<>>, O)
    PROVE  /\ y \in DD /\ y.ed = x.ed /\ y.td = x.td /\ y.urb = x.urb /\ y.pool = x.pool
           /\ y.list = x.list /\ y.on = O
           /\ y.rm[f] = <<>> /\ \A g \in Frames \ {f} : y.rm[g] = x.rm[g]
<1> DEFINE M == [x.rm EXCEPT ![f] = <<>>]
<1>1. /\ x.ed \in [Eds -> EdRec] /\ x.td \in [Blocks -> TdRec] /\ x.urb \in [Urbs -> UrbRec]
      /\ x.pool \in Pools /\ x.list \in [Kinds -> Seq(Eds)] /\ x.on \in SUBSET Kinds
      /\ x.rm \in [Frames -> Seq(Eds)]
  BY DEF DD
<1>2. M \in [Frames -> Seq(Eds)] /\ M[f] = <<>> /\ \A g \in Frames \ {f} : M[g] = x.rm[g]
  BY <1>1
<1>3. y = [x EXCEPT !.rm = M, !.on = O]
  BY DEF Started, DD
<1> HIDE DEF M
<1> QED
  BY <1>1, <1>2, <1>3 DEF DD

(* dl_del_list, for all the endpoints whose removal is due, with nothing     *)
(* left to handle of what they had done.                                     *)
LEMMA ListDeleted ==
    ASSUME OhciAssumption, NEW x \in DD, NEW f \in Frames, Lists(x), Removals(x), NEW dead,
           (~disabled => Running(x)), NEW p, InFlight(x, p, <<>>, <<>>, f, dead),
           NEW y, y = DelList(x, f)
    PROVE  /\ y \in DD /\ Lists(y) /\ Removals(y) /\ (~disabled => Running(y)) /\ NoneToFill(x, y)
           /\ y.rm[f] = <<>> /\ (\A e \in Eds \ Range(x.rm[f]) : y.ed[e] = x.ed[e])
           /\ InFlight(y, p, <<>>, <<>>, f, dead)
<1> DEFINE s == x.rm[f]
           z == DelEds(x, s)
           start == {l \in {"control", "bulk"} : z.list[l] # <<>>}
           O == IF disabled \/ x.rm[1 - f] # <<>> THEN z.on ELSE z.on \cup start
           D == Range(p)
<1>1. z = DelEds(x, s)
  OBVIOUS
<1>2. 1 - f \in Frames /\ Frames = {f, 1 - f} /\ f # 1 - f /\ Frames = {0, 1}
  BY DEF Frames
<1>3. s \in Seq(Eds) /\ IsInjective(s) /\ Range(s) \subseteq Used(x) /\ Range(s) \subseteq Eds
  <2>1. s \in Seq(Eds) /\ IsInjective(s)
    BY Parts DEF Removals
  <2>2. Range(s) \subseteq Eds
    <3> HIDE DEF s
    <3> QED BY <2>1, NotEmpty
  <2>3. Range(s) \subseteq Range(x.rm[0]) \cup Range(x.rm[1])
    BY <1>2
  <2> HIDE DEF s
  <2> QED BY <2>1, <2>2, <2>3 DEF Removals, Used
<1>4. /\ Range(<<>>) = {} /\ D \cup Range(<<>>) = D /\ D \cup Range(<<>>) \cup Range(<<>>) = D
  BY EmptyRange
<1>5. PICK Q : Tds(x, Q, D, dead) /\ Owing(x, {}, dead) /\ Halts(x, Q, D)
  BY <1>4, ZenonT(40) DEF InFlight
<1>6. Apart(p, <<>>, <<>>) /\ \A t \in D : Ep[Owner(x, t)] \notin Range(s)
  BY DEF InFlight
<1>7. D \in SUBSET D
  OBVIOUS
<1>8. y = Started(z, f, <<>>, O)
  <2>1. y = [z EXCEPT !.rm[f] = <<>>,
                      !.on = IF disabled \/ x.rm[1 - f] # <<>> THEN @ ELSE @ \cup start]
    BY DEF DelList
  <2> HIDE DEF z, start
  <2> QED BY <2>1 DEF Started
<1> HIDE DEF z, D
<1>9. LeftAll(x, z, Range(s))
  <2> HIDE DEF s, start, O
  <2> QED BY <1>1, <1>3, <1>5, <1>6, <1>7, DeletedAll
<1>10. KeptAll(x, Q, z, D, dead, D)
  <2> HIDE DEF s, start, O
  <2> QED BY <1>1, <1>3, <1>5, <1>6, <1>7, DeletedAll
<1>11. /\ z \in DD /\ z.rm = x.rm /\ Lists(z) /\ ("int" \in x.on => "int" \in z.on)
       /\ \A e \in Eds \ Range(s) : z.ed[e] = x.ed[e]
  BY <1>9 DEF LeftAll
<1>12. /\ \A e \in Range(s) : /\ ~z.ed[e].urbdel /\ z.ed[e].state # "DEL"
                              /\ z.ed[e].state = "OPER" => ~z.ed[e].skip
       /\ \A u \in Urbs : z.urb[u].stage = "filling" => x.urb[u].stage = "filling"
  BY <1>9 DEF LeftAll
<1>13. PICK R : /\ Tds(z, R, D, dead) /\ (\A t \in D : Owner(z, t) = Owner(x, t))
                /\ Owing(z, {}, dead) /\ Halts(z, R, D)
  BY <1>5, <1>10 DEF KeptAll, Kept
<1>14. O \in SUBSET Kinds
  <2>1. z.on \in SUBSET Kinds
    BY <1>11 DEF DD
  <2> QED BY <2>1 DEF Kinds
<1>15. start \subseteq O \/ disabled \/ x.rm[1 - f] # <<>>
  OBVIOUS
<1>16. z.on \subseteq O
  OBVIOUS
<1> HIDE DEF O
<1>17. /\ y \in DD /\ y.ed = z.ed /\ y.td = z.td /\ y.urb = z.urb /\ y.pool = z.pool
       /\ y.list = z.list /\ y.on = O
       /\ y.rm[f] = <<>> /\ \A g \in Frames \ {f} : y.rm[g] = z.rm[g]
  BY <1>8, <1>11, <1>14, StartedShape
<1>18. y.rm[1 - f] = x.rm[1 - f]
  BY <1>2, <1>11, <1>17
<1>19. Lists(y)
  BY <1>11, <1>17, OthersListed
<1>20. Removals(y)
  <2>1. /\ \A g \in Frames : IsInjective(x.rm[g])
        /\ Range(s) \cap Range(x.rm[1 - f]) = {}
        /\ \A e \in Eds : Removed(x, e) <=> e \in Range(s) \cup Range(x.rm[1 - f])
    <3>1. /\ Range(x.rm[0]) \cup Range(x.rm[1]) = Range(s) \cup Range(x.rm[1 - f])
          /\ Range(x.rm[0]) \cap Range(x.rm[1]) = Range(s) \cap Range(x.rm[1 - f])
      <4>1. CASE f = 0
        <5>1. 1 - f = 1
          BY <4>1
        <5> QED BY <4>1, <5>1
      <4>2. CASE f = 1
        <5>1. 1 - f = 0
          BY <4>2
        <5> QED BY <4>2, <5>1
      <4> QED BY <4>1, <4>2, <1>2
    <3> QED BY <3>1 DEF Removals
  <2> DEFINE r == x.rm[1 - f]
  <2>2. /\ Range(y.rm[0]) \cup Range(y.rm[1]) = Range(r)
        /\ Range(y.rm[0]) \cap Range(y.rm[1]) = {}
    <3>1. Range(y.rm[f]) = {} /\ Range(y.rm[1 - f]) = Range(r)
      BY <1>17, <1>18, EmptyRange
    <3>2. CASE f = 0
      <4>1. 1 - f = 1
        BY <3>2
      <4> QED BY <3>1, <3>2, <4>1
    <3>3. CASE f = 1
      <4>1. 1 - f = 0
        BY <3>3
      <4> QED BY <3>1, <3>3, <4>1
    <3> QED BY <3>2, <3>3, <1>2
  <2>3. \A g \in Frames : IsInjective(y.rm[g])
    <3>1. IsInjective(y.rm[f]) /\ IsInjective(y.rm[1 - f])
      BY <2>1, <1>2, <1>17, <1>18, EmptyRange
    <3> QED BY <3>1, <1>2
  <2> HIDE DEF r, s
  <2>4. ASSUME NEW e \in Eds
        PROVE  /\ Removed(y, e) <=> e \in Range(r)
               /\ Removed(y, e) => y.ed[e].skip /\ y.ed[e].state # "NEW"
               /\ y.ed[e].state = "OPER" /\ ~y.ed[e].urbdel => ~y.ed[e].skip
    <3>1. CASE e \in Range(s)
      BY <3>1, <2>1, <1>12, <1>17 DEF Removed, r
    <3>2. CASE e \notin Range(s)
      <4>1. y.ed[e] = x.ed[e]
        BY <3>2, <1>11, <1>17
      <4>2. Removed(x, e) <=> e \in Range(r)
        BY <3>2, <2>1 DEF r
      <4> QED BY <4>1, <4>2 DEF Removals, Removed
    <3> QED BY <3>1, <3>2
  <2> QED BY <2>2, <2>3, <2>4 DEF Removals
<1>21. ~disabled => Running(y)
  <2> SUFFICES ASSUME ~disabled PROVE Running(y)
    OBVIOUS
  <2>1. "int" \in y.on
    BY <1>11, <1>16, <1>17 DEF Running
  <2>2. ASSUME NoneToRemove(y), NEW l \in Kinds \ {"int"}, y.list[l] # <<>> PROVE l \in y.on
    <3>1. x.rm[1 - f] = <<>>
      BY <2>2, <1>2, <1>18 DEF NoneToRemove
    <3>2. l \in start
      BY <2>2, <1>17 DEF Kinds
    <3> HIDE DEF start
    <3> QED BY <3>1, <3>2, <1>15, <1>17
  <2> QED BY <2>1, <2>2 DEF Running
<1>22. NoneToFill(x, y)
  BY <1>12, <1>17 DEF NoneToFill
<1>23. \A e \in Eds \ Range(s) : y.ed[e] = x.ed[e]
  BY <1>11, <1>17
<1>24. InFlight(y, p, <<>>, <<>>, f, dead)
  <2>1. SameTds(z, y)
    BY <1>17 DEF SameTds
  <2>2. Tds(y, R, D, dead)
    BY <2>1, <1>11, <1>13, <1>17, SameKept
  <2>3. Halts(y, R, D)
    BY <2>1, <1>7, <1>11, <1>13, <1>17, SameKept
  <2>4. Owing(y, {}, dead)
    BY <2>1, <1>11, <1>13, <1>17, SameKept
  <2>5. \A t \in D : Ep[Owner(y, t)] \notin Range(y.rm[f])
    BY <1>4, <1>17
  <2> QED BY <1>4, <1>6, <2>2, <2>3, <2>4, <2>5 DEF InFlight, D
<1> QED
  BY <1>17, <1>19, <1>20, <1>21, <1>22, <1>23, <1>24

(* The interrupt at the start of a frame keeps the invariant.                *)
LEMMA StartOfFrameIrqKeeps ==
    ASSUME OhciAssumption, Orderly, IInv, StartOfFrameIrq
    PROVE  IInv'
<1> DEFINE f == 1 - frame
           y == d'
<1>1. /\ Typed /\ Lists(d) /\ Removals(d) /\ (~disabled => Running(d)) /\ Waiting /\ Emptied
      /\ Served /\ Fetched /\ Moving
  BY DEF IInv, Listings
<1>2. /\ Alone /\ irq.pc = "sf" /\ y = (IF d.rm[f] # <<>> THEN DelList(d, f) ELSE d)
      /\ sfEn' = (d.rm[frame] # <<>>) /\ sf' = FALSE /\ irq' = IrqIdle
      /\ dev' = dev /\ at' = at /\ doneq' = doneq /\ doneHead' = doneHead /\ frame' = frame
      /\ disabled' = disabled
  BY DEF StartOfFrameIrq
<1>3. d \in DD /\ f \in Frames
  BY <1>1, TwoLists DEF Typed
<1>4. irq.list = <<>> /\ doneHead = <<>>
  BY <1>1, <1>2 DEF Served
<1>5. InFlight(d, doneq, <<>>, <<>>, f, disabled)
  BY <1>1, <1>2, <1>4 DEF Moving
<1> HIDE DEF f, y
<1>6. /\ y \in DD /\ Lists(y) /\ Removals(y) /\ (~disabled => Running(y)) /\ NoneToFill(d, y)
      /\ y.rm[f] = <<>> /\ (\A e \in Eds \ Range(d.rm[f]) : y.ed[e] = d.ed[e])
      /\ InFlight(y, doneq, <<>>, <<>>, f, disabled)
  <2>1. CASE d.rm[f] = <<>>
    <3>1. y = d
      BY <1>2, <2>1
    <3> QED BY <3>1, <2>1, <1>1, <1>3, <1>5 DEF NoneToFill
  <2>2. CASE y = DelList(d, f)
    <3>1. y \in DD /\ Lists(y) /\ Removals(y) /\ (~disabled => Running(y)) /\ NoneToFill(d, y)
      BY <2>2, <1>1, <1>3, <1>5, ListDeleted
    <3>2. y.rm[f] = <<>> /\ (\A e \in Eds \ Range(d.rm[f]) : y.ed[e] = d.ed[e])
      BY <2>2, <1>1, <1>3, <1>5, ListDeleted
    <3>3. InFlight(y, doneq, <<>>, <<>>, f, disabled)
      BY <2>2, <1>1, <1>3, <1>5, ListDeleted
    <3> QED BY <3>1, <3>2, <3>3
  <2> QED BY <1>2, <2>1, <2>2
<1>7. IrqIdle.pc = "idle" /\ IrqIdle.list = <<>> /\ IrqIdle.ints = {}
      /\ IrqIdle \in IrqRecs
  BY DEF IrqIdle, IrqRecs
<1>8. Typed'
  <2>1. \A u \in Urbs : y.urb[u].cnt <= Size[u]
    BY <1>6, CountsBounded
  <2> QED BY <2>1, <1>1, <1>2, <1>6, <1>7 DEF Typed, y
<1>9. Listings'
  BY <1>2, <1>6 DEF Listings, y
<1>10. Waiting'
  <2>1. \A v \in Urbs : d.urb[v].stage # "filling"
    BY <1>2, NotRunAhead DEF Orderly
  <2> QED BY <2>1, <1>6, NoneWaiting DEF y
<1>11. Emptied'
  <2> SUFFICES ASSUME dev = "gone", ~disabled PROVE Used(y) = {}
    BY <1>2 DEF Emptied, y
  <2>1. Used(d) = {}
    BY <1>1 DEF Emptied
  <2>2. \A e \in Eds : e \notin Range(d.rm[f])
    <3>1. Range(d.rm[f]) \subseteq Range(d.rm[0]) \cup Range(d.rm[1])
      BY <1>3 DEF Frames
    <3> QED BY <3>1, <2>1, <1>1 DEF Removals, Used
  <2> QED BY <2>1, <2>2, <1>6 DEF Used
<1>12. Served'
  BY <1>1, <1>2, <1>4, <1>7 DEF Served
<1>13. Fetched'
  <2>1. CASE at # Nil
    <3>1. IsFetched(d, at, f) /\ at[1] \in Eds
      BY <1>1, <2>1 DEF Fetched, Typed, f
    <3>2. at[1] \notin Range(y.rm[f])
      BY <1>6, EmptyRange
    <3>3. y.ed[at[1]] = d.ed[at[1]]
      BY <3>1, <1>6 DEF IsFetched
    <3>4. IsFetched(y, at, f)
      BY <3>1, <3>2, <3>3 DEF IsFetched, Used
    <3> QED BY <3>4, <1>2 DEF Fetched, f, y
  <2>2. CASE at = Nil
    BY <2>2, <1>2 DEF Fetched
  <2> QED BY <2>1, <2>2
<1>14. Moving'
  BY <1>2, <1>4, <1>6, <1>7 DEF Moving, y, f
<1> QED
  BY <1>8, <1>9, <1>10, <1>11, <1>12, <1>13, <1>14 DEF IInv

-----------------------------------------------------------------------------
(* The handler is entered.                                                   *)

LEMMA CalmListed ==
    ASSUME NEW x \in DD, NEW y \in DD, Calm(x, y)
    PROVE  Listed(x, y) /\ Steady(x, y) /\ NoneToFill(x, y) /\ Used(y) = Used(x)
<1>1. Listed(x, y)
  <2>1. /\ y.list = x.list /\ y.on = x.on /\ y.rm = x.rm
        /\ \A e \in Eds : /\ y.ed[e].state = x.ed[e].state /\ y.ed[e].urbdel = x.ed[e].urbdel
                          /\ y.ed[e].skip = x.ed[e].skip
    BY DEF Calm
  <2> QED BY <2>1, SameListed
<1>2. Used(y) = Used(x)
  BY DEF Calm, Used
<1>3. Steady(x, y) /\ NoneToFill(x, y)
  BY <1>2 DEF Calm, Steady, Still, NoneToFill
<1> QED
  BY <1>1, <1>2, <1>3

(* The TDs of the done list are with the handler now; those the controller   *)
(* has done since, p, are kept or dropped with the controller.               *)
LEMMA Entered ==
    ASSUME OhciAssumption, NEW x \in DD, NEW p \in Seq(Blocks), NEW q \in Seq(Blocks), NEW f,
           InFlight(x, p, q, <<>>, f, FALSE), NEW y, y = UnhaltAll(x, q)
    PROVE  /\ y \in DD /\ Calm(x, y)
           /\ InFlight(y, p, <<>>, Reverse(q), f, FALSE)
           /\ InFlight(y, <<>>, <<>>, Reverse(q), f, TRUE)
<1> DEFINE E == Range(p)
           B == Range(q)
           D == E \cup B
           r == Reverse(q)
<1>1. Range(<<>>) = {} /\ IsInjective(<<>>) /\ D \cup Range(<<>>) = D
  BY EmptyRange
<1>2. PICK Q : Tds(x, Q, D, FALSE) /\ Owing(x, {}, FALSE) /\ Halts(x, Q, E \cup B)
  BY <1>1 DEF InFlight
<1>3. IsInjective(p) /\ IsInjective(q) /\ E \cap B = {} /\ E \cup B \subseteq D
  BY DEF InFlight, Apart
<1>4. Range(r) = B /\ IsInjective(r)
  BY <1>3, Reversed
<1>5. /\ E \cup {} \cup B = D /\ E \cup {} = E /\ {} \cup {} \cup B = B /\ {} \cup {} = {} /\ B \in SUBSET D
  OBVIOUS
<1>6. \A t \in E : Ep[Owner(x, t)] \notin Range(x.rm[f])
  BY DEF InFlight
<1> HIDE DEF D, E
<1>7. y \in DD /\ Calm(x, y)
  BY <1>2, <1>3, UnhaltedAll
<1>8. \E R : Tds(y, R, D, FALSE) /\ Owing(y, {}, FALSE) /\ Halts(y, R, E)
  BY <1>2, <1>3, UnhaltedAll
<1>9. PICK R : Tds(y, R, D, FALSE) /\ Owing(y, {}, FALSE) /\ Halts(y, R, E)
  BY <1>8
<1>10. y.td = x.td /\ y.rm = x.rm
  BY <1>7 DEF Calm
<1> HIDE DEF r, B
<1>11. InFlight(y, p, <<>>, r, f, FALSE)
  <2>1. Apart(p, <<>>, r)
    BY <1>1, <1>3, <1>4 DEF Apart, E
  <2>2. \A t \in Range(p) : Ep[Owner(y, t)] \notin Range(y.rm[f])
    BY <1>6, <1>10 DEF E, Owner
  <2>3. Tds(y, R, Range(p) \cup Range(<<>>) \cup Range(r), FALSE) /\ Halts(y, R, Range(p) \cup Range(<<>>))
    BY <1>1, <1>4, <1>5, <1>9 DEF E
  <2> QED BY <2>1, <2>2, <2>3, <1>9 DEF InFlight
<1>12. InFlight(y, <<>>, <<>>, r, f, TRUE)
  <2>1. Apart(<<>>, <<>>, r)
    BY <1>1, <1>4 DEF Apart
  <2>2. Tds(y, R, B, TRUE) /\ Owing(y, {}, TRUE)
    BY <1>5, <1>7, <1>9, Fewer
  <2>3. Halts(y, R, {})
    BY DEF Halts
  <2>4. Tds(y, R, Range(<<>>) \cup Range(<<>>) \cup Range(r), TRUE)
        /\ Halts(y, R, Range(<<>>) \cup Range(<<>>))
    BY <1>1, <1>4, <1>5, <2>2, <2>3
  <2>5. \A t \in Range(<<>>) : Ep[Owner(y, t)] \notin Range(y.rm[f])
    BY <1>1
  <2> QED BY <2>1, <2>2, <2>4, <2>5 DEF InFlight
<1> QED
  BY <1>7, <1>11, <1>12 DEF r

(* Entering the interrupt handler keeps the invariant, also when the         *)
(* controller has died.                                                      *)
LEMMA EnterKeeps ==
    ASSUME OhciAssumption, Orderly, IInv, NEW ints \in IntSets \cup {{}}, Interrupt(ints) \/ Die(ints),
           Interrupt(ints) => ints # {}
    PROVE  IInv'
<1> DEFINE y == d'
           r == Reverse(doneHead)
<1>1. /\ Typed /\ Lists(d) /\ Removals(d) /\ (~disabled => Running(d)) /\ Waiting /\ Emptied
      /\ Served /\ Fetched /\ Moving
  BY DEF IInv, Listings
<1>2. /\ Alone /\ irq.pc = "idle" /\ ("WDH" \in ints <=> doneHead # <<>>) /\ ("SF" \in ints => sf)
      /\ irq' = [pc |-> IF "WDH" \in ints THEN "done" ELSE IF "SF" \in ints THEN "sf" ELSE "idle",
                 list |-> r, ed |-> Nil, ints |-> ints]
      /\ y = UnhaltAll(d, doneHead) /\ doneHead' = <<>> /\ dev' = dev /\ frame' = frame
  BY DEF Interrupt, Die, Enter
<1>3. d \in DD /\ doneq \in Seq(Blocks) /\ doneHead \in Seq(Blocks)
  BY <1>1 DEF Typed
<1>4. ints \in SUBSET {"WDH", "SF"} /\ (ints # {} => "WDH" \in ints \/ "SF" \in ints)
  BY DEF IntSets
<1>5. disabled = FALSE
  <2>1. CASE Die(ints)
    BY <2>1, <1>1 DEF Die, Typed
  <2>2. CASE Interrupt(ints)
    BY <2>2, <1>1, <1>2, <1>4 DEF Served, Typed
  <2> QED BY <2>1, <2>2
<1>6. InFlight(d, doneq, doneHead, <<>>, 1 - frame, FALSE)
  <2>1. irq.list = <<>>
    BY <1>1, <1>2 DEF Served
  <2> QED BY <2>1, <1>1, <1>5 DEF Moving
<1> HIDE DEF y, r
<1>7. /\ y \in DD /\ Calm(d, y)
      /\ InFlight(y, doneq, <<>>, r, 1 - frame, FALSE)
      /\ InFlight(y, <<>>, <<>>, r, 1 - frame, TRUE)
  BY <1>2, <1>3, <1>6, Entered DEF r
<1>8. Listed(d, y) /\ Steady(d, y) /\ NoneToFill(d, y) /\ Used(y) = Used(d)
  BY <1>3, <1>7, CalmListed
<1>9. r \in Seq(Blocks) /\ (doneHead = <<>> => r = <<>>)
  <2>1. r \in Seq(Blocks) /\ Range(r) = Range(doneHead)
    BY <1>3, Reversed DEF r
  <2>2. Range(r) = {} => r = <<>>
    BY <2>1, NotEmpty
  <2> QED BY <2>1, <2>2, EmptyRange
<1>10. \/ at' = at /\ doneq' = doneq /\ sf' = sf /\ sfEn' = sfEn /\ disabled' = FALSE
       \/ at' = Nil /\ doneq' = <<>> /\ sf' = FALSE /\ sfEn' = FALSE /\ disabled' = TRUE
  BY <1>5 DEF Interrupt, Die
<1>11. /\ irq' \in IrqRecs
       /\ irq'.list = r /\ (irq'.pc # "done" => doneHead = <<>>)
       /\ (irq'.pc = "idle" => irq'.ints = {})
  BY <1>2, <1>4, <1>9 DEF IrqRecs
<1>12. Typed'
  <2>1. \A u \in Urbs : y.urb[u].cnt <= Size[u]
    BY <1>7, CountsBounded
  <2>2. <<>> \in Seq(Blocks)
    OBVIOUS
  <2> QED BY <2>1, <2>2, <1>1, <1>2, <1>7, <1>10, <1>11 DEF Typed, y
<1>13. Listings'
  BY <1>1, <1>5, <1>8 DEF Listings, Listed, y
<1>14. Waiting'
  <2>1. \A v \in Urbs : d.urb[v].stage # "filling"
    BY <1>2, NotRunAhead DEF Orderly
  <2> QED BY <2>1, <1>8, NoneWaiting DEF y
<1>15. Emptied'
  BY <1>1, <1>2, <1>5, <1>8 DEF Emptied, y
<1>16. Served'
  BY <1>2, <1>9, <1>10, <1>11 DEF Served
<1>17. Fetched'
  <2>1. CASE at # Nil /\ at' = at
    <3>1. IsFetched(d, at, 1 - frame) /\ at[1] \in Eds
      BY <1>1, <2>1 DEF Fetched, Typed
    <3>2. y.rm = d.rm
      BY <1>8 DEF Listed
    <3> QED BY <3>1, <3>2, <2>1, <1>2, <1>8, SteadyFetched DEF Fetched, y
  <2>2. CASE at' = Nil
    BY <2>2 DEF Fetched
  <2> QED BY <2>1, <2>2, <1>10
<1>18. Moving'
  BY <1>2, <1>7, <1>10, <1>11 DEF Moving, y
<1> QED
  BY <1>12, <1>13, <1>14, <1>15, <1>16, <1>17, <1>18 DEF IInv

-----------------------------------------------------------------------------
(* The inductive invariant holds, and with it the properties.                *)

LEMMA NextKeeps ==
    ASSUME OhciAssumption, Orderly, IInv, Next
    PROVE  IInv'
<1>1. CASE \E u \in Urbs : AddEd(u) \/ Fill(u) \/ Unlink(u) \/ UnlinkDead(u)
  BY <1>1, AddEdKeeps, FillKeeps, UnlinkKeeps, UnlinkDeadKeeps
<1>2. CASE FreeDev \/ FreeDevDone \/ AllocDev
  BY <1>2, FreeDevKeeps, DevKeeps
<1>3. CASE \E e \in Eds : Fetch(e)
  BY <1>3, FetchKeeps
<1>4. CASE \E fails \in BOOLEAN : Retire(fails)
  BY <1>4, RetireKeeps
<1>5. CASE StartOfFrame
  BY <1>5, StartOfFrameKeeps
<1>6. CASE \/ \E ints \in IntSets : Interrupt(ints)
           \/ \E ints \in IntSets \cup {{}} : Die(ints)
  <2>1. ASSUME NEW ints \in IntSets, Interrupt(ints) PROVE IInv'
    <3>1. ints \in IntSets \cup {{}} /\ ints # {}
      BY DEF IntSets
    <3> QED BY <2>1, <3>1, EnterKeeps
  <2>2. ASSUME NEW ints \in IntSets \cup {{}}, Die(ints) PROVE IInv'
    <3>1. Interrupt(ints) => ints # {}
      <4> SUFFICES ASSUME Interrupt(ints) PROVE ints # {}
        OBVIOUS
      <4>1. disabled' = disabled /\ ~disabled /\ disabled'
        BY <2>2 DEF Die, Interrupt
      <4> QED BY <4>1
    <3> QED BY <2>2, <3>1, EnterKeeps
  <2> QED BY <1>6, <2>1, <2>2
<1>7. CASE DoneTd \/ UnlinkIdle \/ DoneEnd \/ StartOfFrameIrq
  BY <1>7, DoneTdKeeps, UnlinkIdleKeeps, DoneEndKeeps, StartOfFrameIrqKeeps
<1> QED
  BY <1>1, <1>2, <1>3, <1>4, <1>5, <1>6, <1>7 DEF Next

(* A step that changes nothing keeps the invariant.                          *)
LEMMA StutterKeeps ==
    ASSUME IInv, UNCHANGED vars
    PROVE  IInv'
BY DEF vars, hc, IInv, Typed, Listings, Waiting, Emptied, Served, Fetched, Moving

(* The invariant holds in every reachable state.                             *)
LEMMA OhciInductive ==
    ASSUME SubmitWhole, FreeSettled, Prompt
    PROVE  Spec => []IInv
<1>1. Orderly
  BY DEF Orderly
<1>2. Init => IInv
  BY OhciAssumption, InitIInv
<1>3. IInv /\ [Next]_vars => IInv'
  BY <1>1, OhciAssumption, NextKeeps, StutterKeeps
<1> QED
  BY <1>2, <1>3, PTL DEF Spec

(* The Queued of the properties are those of the queues of IInv.             *)
LEMMA QueuedComing ==
    ASSUME OhciAssumption, NEW Q, Queues(d, Q)
    PROVE  Queued = Coming(Q) /\ \A e \in Used(d) : Queue(d, e) = Q[e]
<1>1. ASSUME NEW e \in Used(d) PROVE Queue(d, e) = Q[e]
  <2>1. Path(d, e, Q[e])
    BY DEF Queues, Used
  <2> QED BY <2>1, PathIsQueue
<1>2. \A t : t \in Queued <=> \E e \in Used(d) : t \in Range(Q[e])
  BY <1>1 DEF Queued, Used
<1>3. \A t : t \in Coming(Q) <=> \E e \in Used(d) : t \in Range(Q[e])
  BY ComingTd
<1> QED
  BY <1>1, <1>2, <1>3

(* The invariant says of every TD that is done that it is live, and of every *)
(* request what it has counted.                                              *)
LEMMA LiveInIInv ==
    ASSUME OhciAssumption, IInv
    PROVE  InFlightTdsAreLive /\ EveryTdCounted
<1> SUFFICES ASSUME ~disabled PROVE InFlightTdsAreLive /\ EveryTdCounted
  BY DEF InFlightTdsAreLive, EveryTdCounted
<1>1. d \in DD /\ disabled = FALSE
  BY DEF IInv, Typed
<1>2. PICK Q : Tds(d, Q, Done, FALSE)
  BY <1>1 DEF IInv, Moving, InFlight, Done
<1>3. Queues(d, Q) /\ Belongs(d) /\ Whole(d) /\ Dummies(d) /\ Out(d, Q, Done) /\ Counted(d, Q, Done, FALSE)
  BY <1>2 DEF Tds
<1>4. Queued = Coming(Q)
  BY <1>3, QueuedComing
<1>5. \A t \in InUse(d.pool) : Allocated(t)
  BY DEF InUse, Allocated
<1>6. ASSUME NEW t \in Queued \cup Done
      PROVE  /\ t \in Blocks /\ d.td[t].urb \in Urbs /\ Allocated(t)
             /\ d.urb[d.td[t].urb].stage = "linked"
             /\ t \in Range(d.urb[d.td[t].urb].tds)
  <2>1. t \in Blocks /\ Owner(d, t) \in Urbs
    BY <1>3, <1>4, <1>6, ComingTd DEF Out
  <2>2. Owner(d, t) # Nil
    BY <2>1 DEF OhciAssumption
  <2> DEFINE u == Owner(d, t)
             i == d.td[t].index + 1
             s == d.urb[u].tds
  <2>3. /\ t \in InUse(d.pool) /\ u \in Linked(d) /\ d.td[t].index < Size[u] /\ s[i] = t
    BY <2>1, <2>2, <1>3 DEF Belongs
  <2>4. Len(s) = Size[u] /\ s \in Seq(Blocks) /\ d.td[t].index \in Nat /\ Size[u] \in Nat
    BY <2>1, <2>3, <1>1, <1>3, Parts DEF Whole, OhciAssumption
  <2>5. i \in 1..Len(s)
    BY <2>3, <2>4
  <2>6. t \in Range(s)
    <3> HIDE DEF s, i
    <3> QED BY <2>3, <2>4, <2>5, NotEmpty
  <2> QED BY <2>1, <2>3, <2>6, <1>5 DEF Linked, Owner
<1>7. Queued \cap Done = {}
  BY <1>3, <1>4 DEF Out
<1>8. ASSUME NEW e \in Eds, d.ed[e].state # "NEW"
      PROVE  /\ Allocated(d.ed[e].tail) /\ d.ed[e].tail \notin Queued \cup Done
             /\ d.td[d.ed[e].tail].urb = Nil
  <2>1. e \in Used(d)
    BY <1>8 DEF Used
  <2>2. d.ed[e].tail \in InUse(d.pool) /\ Owner(d, d.ed[e].tail) = Nil
    BY <2>1, <1>3 DEF Dummies
  <2> QED BY <2>2, <1>5, <1>6 DEF Owner, OhciAssumption
<1>9. InFlightTdsAreLive
  <2>1. \A t \in Queued \cup Done : d.td[t].urb # Nil
    BY <1>6 DEF OhciAssumption
  <2> QED BY <2>1, <1>6, <1>7, <1>8 DEF InFlightTdsAreLive
<1>10. EveryTdCounted
  <2> SUFFICES ASSUME NEW u \in Urbs, d.urb[u].stage = "linked"
               PROVE  d.urb[u].cnt + Cardinality(Range(d.urb[u].tds) \cap (Queued \cup Done)) = Size[u]
    BY DEF EveryTdCounted
  <2>1. Range(d.urb[u].tds) \cap (Queued \cup Done) = Pending(d, Q, Done, u)
    <3>1. \A t \in Range(d.urb[u].tds) : Owner(d, t) = u
      <4> DEFINE s == d.urb[u].tds
      <4>1. u \in Linked(d) /\ s \in Seq(Blocks)
        BY <1>1, Parts DEF Linked
      <4>2. Len(s) = Size[u] /\ \A i \in 1..Size[u] : Owner(d, s[i]) = u
        BY <4>1, <1>3 DEF Whole
      <4> HIDE DEF s
      <4>3. \A t \in Range(s) : Owner(d, t) = u
        BY <4>1, <4>2, NotEmpty
      <4> QED BY <4>3 DEF s
    <3>2. \A t \in Queued \cup Done : t \in Range(d.urb[Owner(d, t)].tds)
      BY <1>6 DEF Owner
    <3> QED BY <3>1, <3>2, <1>4 DEF Pending
  <2>2. u \in Linked(d)
    BY DEF Linked
  <2> QED BY <2>1, <2>2, <1>3 DEF Counted
<1> QED
  BY <1>9, <1>10

(* The invariant contains the types.                                         *)
LEMMA TypesInIInv ==
    ASSUME OhciAssumption, IInv
    PROVE  TypeOK
<1>1. Typed
  BY DEF IInv
<1>2. d \in DriverData
  BY <1>1, Data DEF Typed
<1>3. \A u \in Urbs : d.urb[u].cnt \in 0..Size[u]
  <2> SUFFICES ASSUME NEW u \in Urbs PROVE d.urb[u].cnt \in 0..Size[u]
    OBVIOUS
  <2>1. d.urb[u].cnt \in Nat /\ d.urb[u].cnt <= Size[u] /\ Size[u] \in Nat
    BY <1>1, Parts DEF Typed, OhciAssumption
  <2> QED BY <2>1
<1> QED
  BY <1>1, <1>2, <1>3 DEF Typed, IrqRecs, TypeOK

(* The invariant says of every list whether it runs.                         *)
LEMMA ListsInIInv ==
    ASSUME OhciAssumption, IInv
    PROVE  NothingLeftStopped
<1>1. Lists(d) /\ Removals(d) /\ (~disabled => Running(d))
  BY DEF IInv, Listings
<1>2. \A e \in Eds : Type[e] \in Kinds /\ (InList(d, e) <=> d.ed[e].state = "OPER")
  <2>1. \A e \in Eds : Type[e] \in Kinds
    BY DEF OhciAssumption, Kinds
  <2> QED BY <2>1, <1>1 DEF Lists, InList
<1>3. NothingLeftStopped
  <2> SUFFICES ASSUME NoneToRemove(d), ~disabled, NEW e \in Eds, InList(d, e)
               PROVE  Type[e] \in d.on /\ ~d.ed[e].skip
    BY DEF NothingLeftStopped
  <2>1. ~d.ed[e].skip
    <3>1. Range(d.rm[0]) = {} /\ Range(d.rm[1]) = {}
      <4>1. d.rm[0] = <<>> /\ d.rm[1] = <<>>
        BY DEF NoneToRemove, Frames
      <4> QED BY <4>1, EmptyRange
    <3>2. ~Removed(d, e)
      BY <3>1, <1>1 DEF Removals
    <3> QED BY <3>2, <1>1, <1>2 DEF Removals, Removed
  <2>2. Type[e] \in d.on
    <3>1. CASE Type[e] = "int"
      BY <3>1, <1>1 DEF Running
    <3>2. CASE Type[e] # "int"
      <4>1. d.list[Type[e]] # <<>>
        BY EmptyRange DEF InList
      <4> QED BY <4>1, <3>2, <1>1, <1>2 DEF Running
    <3> QED BY <3>1, <3>2
  <2> QED BY <2>1, <2>2
<1> QED
  BY <1>3

(* The state of usb-ohci.c has its types: in particular heads, tails and     *)
(* next always point to blocks of the pool, and the counts stay within the   *)
(* requests.                                                                 *)
THEOREM OhciTypeCorrect ==
    ASSUME SubmitWhole, FreeSettled, Prompt
    PROVE  Spec => []TypeOK
<1>1. IInv => TypeOK
  BY OhciAssumption, TypesInIInv
<1> QED
  BY <1>1, OhciInductive, PTL

(* No TD that the controller has retired and dl_done_list still has to look  *)
(* at is freed before: whatever is on its way through the done queue, the    *)
(* HCCA and the handler's list belongs to a request that is still linked,    *)
(* however unlink, device removal, failures and removal lists interleave     *)
(* with it.                                                                  *)
THEOREM NoLiveTdFreed ==
    ASSUME SubmitWhole, FreeSettled, Prompt
    PROVE  Spec => []InFlightTdsAreLive
<1>1. IInv => InFlightTdsAreLive
  BY OhciAssumption, LiveInIInv
<1> QED
  BY <1>1, OhciInductive, PTL

(* Every request counts each of its TDs once: dl_done_list,                  *)
(* dl_reverse_done_list, which skips the rest of a failed request, and       *)
(* dl_del_list never count one twice or forget one, so a request that is     *)
(* linked still has a TD to come.                                            *)
THEOREM TdsCountedOnce ==
    ASSUME SubmitWhole, FreeSettled, Prompt
    PROVE  Spec => []EveryTdCounted
<1>1. IInv => EveryTdCounted
  BY OhciAssumption, LiveInIInv
<1> QED
  BY <1>1, OhciInductive, PTL

(* A list that was stopped for a removal is running again once the removal   *)
(* lists are empty: sohci_unlink_urb, ep_rm_ed and dl_del_list leave none    *)
(* stopped behind them.                                                      *)
THEOREM ListsRunAgain ==
    ASSUME SubmitWhole, FreeSettled, Prompt
    PROVE  Spec => []NothingLeftStopped
<1>1. IInv => NothingLeftStopped
  BY OhciAssumption, ListsInIInv
<1> QED
  BY <1>1, OhciInductive, PTL

=============================================================================
