----------------------- MODULE MoeSortReference_proofs -----------------------
(***************************************************************************)
(* A sort leaves what the reference does: for every problem, grid, block,  *)
(* width of a row, size of LDS and number of launches.                     *)
(*                                                                         *)
(* The reference appends list to list; where the lists start, what is in   *)
(* them and which units they have is all that it says.  A block of the     *)
(* multi-phase kernels delivers its part of that, and no block that runs   *)
(* after it, in this launch or in another, takes anything back.  A single  *)
(* block delivers piece by piece: its waves find their topk_ids in the     *)
(* cells and the starts where they left them, and a wave that has done a   *)
(* piece has written its part of the outputs, which the other waves leave  *)
(* in place.                                                               *)
(***************************************************************************)
EXTENDS MoeSorting_proofs

(***************************************************************************)
(* The reference.  Its lists are flattened pieces: what it lists is where  *)
(* the pieces before end.                                                  *)
(***************************************************************************)
\* One sequence behind another.
LEMMA Behind ==
  ASSUME NEW S, NEW s \in Seq(S), NEW r \in Seq(S)
  PROVE  /\ s \o r \in Seq(S) /\ Len(s \o r) = Len(s) + Len(r)
         /\ Len(s) \in Nat /\ Len(r) \in Nat
         /\ \A x \in 1..Len(s) : (s \o r)[x] = s[x]
         /\ \A j \in 1..Len(r) : (s \o r)[Len(s) + j] = r[j]
<1>1. s \o r \in Seq(S) /\ Len(s \o r) = Len(s) + Len(r) /\ Len(s) \in Nat /\ Len(r) \in Nat
  OBVIOUS
<1>2. \A x \in 1..Len(s) : (s \o r)[x] = s[x]
  OBVIOUS
<1>3. \A j \in 1..Len(r) : (s \o r)[Len(s) + j] = r[j]
  OBVIOUS
<1> QED BY <1>1, <1>2, <1>3

\* where the pieces before the x-th end
Piled(P, f, n) ==
  /\ P \in [0..n -> Int] /\ P[0] = 0
  /\ \A i \in 1..n : P[i] = P[i - 1] + Len(f[i])

\* the sequence is one piece behind the other
PiecesOf(s, S, P, f, n) ==
  /\ s \in Seq(S) /\ Len(s) = P[n]
  /\ \A x \in 1..P[n] : \E i \in 1..n : \E j \in 1..Len(f[i]) :
       x = P[i - 1] + j /\ s[x] = f[i][j]

\* A flattened sequence of pieces is as long as all of them, and every element
\* is of a piece, behind those before.
LEMMA Flattened ==
  ASSUME NEW S, NEW n \in Nat, NEW f \in [1..n -> Seq(S)],
         NEW P, Piled(P, f, n)
  PROVE  PiecesOf(FlattenSeq(f), S, P, f, n)
<1> DEFINE body(h, i) == IF i = 1 THEN f[i] ELSE h[i - 1] \o f[i]
           Iter(h) == h = [i \in 1..n |-> body(h, i)]
           flatten == CHOOSE h : Iter(h)
           Of(s, k) == /\ s \in Seq(S) /\ Len(s) = P[k]
                       /\ \A x \in 1..P[k] : \E i \in 1..k : \E j \in 1..Len(f[i]) :
                            x = P[i - 1] + j /\ s[x] = f[i][j]
<1>1. /\ P \in [0..n -> Int] /\ P[0] = 0
      /\ \A i \in 1..n : P[i] = P[i - 1] + Len(f[i]) /\ Len(f[i]) \in Nat /\ f[i] \in Seq(S)
  <2>1. \A i \in 1..n : f[i] \in Seq(S) /\ Len(f[i]) \in Nat
    OBVIOUS
  <2> QED BY <2>1 DEF Piled
<1>2. \E h : Iter(h)
  <2> DEFINE To(h, k) == \A i \in 1..n : i <= k => h[i] = body(h, i)
             K == {k \in Nat : \E h : h = [i \in 1..n |-> h[i]] /\ To(h, k)}
  <2>1. 0 \in K
    <3> DEFINE z == [i \in 1..n |-> 0]
    <3>1. z = [i \in 1..n |-> z[i]] /\ To(z, 0)
      OBVIOUS
    <3> HIDE DEF z, To
    <3> QED BY <3>1
  <2>2. ASSUME NEW k \in Nat, k \in K PROVE k + 1 \in K
    <3>1. PICK h : h = [i \in 1..n |-> h[i]] /\ To(h, k)
      BY <2>2
    <3> DEFINE r == [i \in 1..n |-> IF i = k + 1 THEN body(h, i) ELSE h[i]]
    <3>2. ASSUME NEW i \in 1..n, i <= k + 1 PROVE r[i] = body(r, i)
      <4>1. i # 1 => i - 1 \in 1..n /\ i - 1 # k + 1
        BY <3>2
      <4>2. i # 1 => r[i - 1] = h[i - 1]
        BY <4>1
      <4>3. body(r, i) = body(h, i)
        <5> HIDE DEF r
        <5> QED BY <4>2
      <4>4. CASE i = k + 1
        <5>1. r[i] = body(h, i)
          BY <4>4
        <5> HIDE DEF r
        <5> QED BY <4>3, <5>1
      <4>5. CASE i # k + 1
        <5>1. r[i] = h[i] /\ i <= k
          BY <3>2, <4>5
        <5>2. h[i] = body(h, i)
          BY <3>1, <5>1
        <5> HIDE DEF r, body
        <5> QED BY <4>3, <5>1, <5>2
      <4> QED BY <4>4, <4>5
    <3>3. r = [i \in 1..n |-> r[i]]
      OBVIOUS
    <3> HIDE DEF r, body
    <3>4. To(r, k + 1)
      BY <3>2
    <3> HIDE DEF To
    <3> QED BY <3>3, <3>4
  <2> HIDE DEF K
  <2>3. n \in K
    BY <2>1, <2>2, SetInduction
  <2>4. PICK h : h = [i \in 1..n |-> h[i]] /\ To(h, n)
    BY <2>3 DEF K
  <2>5. \A i \in 1..n : h[i] = body(h, i)
    <3> HIDE DEF body
    <3> QED BY <2>4
  <2>6. Iter(h)
    <3> HIDE DEF body
    <3> QED BY <2>4, <2>5
  <2> QED BY <2>6
<1>3. Iter(flatten)
  <2> HIDE DEF Iter
  <2> QED BY <1>2
<1>4. \A i \in 1..n : flatten[i] = body(flatten, i)
  <2> HIDE DEF flatten, body
  <2> QED BY <1>3
<1>5. Len(f) = n
  OBVIOUS
<1>6. FlattenSeq(f) = IF n = 0 THEN f ELSE flatten[n]
  BY <1>5 DEF FlattenSeq
<1> HIDE DEF flatten
<1>7. CASE n = 0
  BY <1>1, <1>5, <1>6, <1>7 DEF PiecesOf
<1>8. CASE n # 0
  <2> DEFINE K == {k \in Nat : k + 1 \in 1..n => Of(flatten[k + 1], k + 1)}
  <2>1. 0 \in K
    <3> SUFFICES ASSUME 1 \in 1..n PROVE Of(flatten[1], 1)
      OBVIOUS
    <3>1. flatten[1] = f[1] /\ P[1] = Len(f[1]) /\ f[1] \in Seq(S) /\ P[1 - 1] = 0
      BY <1>1, <1>4
    <3>2. ASSUME NEW x \in 1..P[1]
          PROVE  \E i \in 1..1 : \E j \in 1..Len(f[i]) : x = P[i - 1] + j /\ flatten[1][x] = f[i][j]
      <4>1. x \in 1..Len(f[1]) /\ x = P[1 - 1] + x /\ flatten[1][x] = f[1][x] /\ 1 \in 1..1
        BY <3>1
      <4> QED BY <4>1
    <3> QED BY <3>1, <3>2
  <2>2. ASSUME NEW m \in Nat, m \in K PROVE m + 1 \in K
    <3> DEFINE k == m + 1
    <3> SUFFICES ASSUME k + 1 \in 1..n PROVE Of(flatten[k + 1], k + 1)
      <4>1. m + 1 \in Nat
        OBVIOUS
      <4> HIDE DEF Of, flatten
      <4> QED BY <4>1
    <3>1. k \in 1..n /\ k + 1 # 1 /\ (k + 1) - 1 = k
      OBVIOUS
    <3>2. Of(flatten[k], k)
      BY <2>2, <3>1
    <3> HIDE DEF k
    <3> DEFINE s == flatten[k]
               r == f[k + 1]
    <3>3. flatten[k + 1] = s \o r
      BY <1>4, <3>1
    <3>4. /\ s \in Seq(S) /\ r \in Seq(S) /\ Len(s) = P[k] /\ P[k + 1] = P[k] + Len(r)
          /\ P[k] \in Int /\ Len(r) \in Nat /\ P[k] \in Nat
      <4>1. P[k + 1] = P[k] + Len(r) /\ Len(r) \in Nat /\ r \in Seq(S)
        BY <1>1, <3>1
      <4>2. s \in Seq(S) /\ Len(s) = P[k]
        BY <3>2
      <4> QED BY <4>1, <4>2
    <3>5. ASSUME NEW x \in 1..P[k + 1]
          PROVE  \E i \in 1..(k + 1) : \E j \in 1..Len(f[i]) :
                   x = P[i - 1] + j /\ (s \o r)[x] = f[i][j]
      <4>1. CASE x <= P[k]
        <5>1. x \in 1..P[k] /\ x \in 1..Len(s)
          BY <3>4, <4>1
        <5>2. PICK i \in 1..k : \E j \in 1..Len(f[i]) : x = P[i - 1] + j /\ s[x] = f[i][j]
          BY <3>2, <5>1
        <5>3. (s \o r)[x] = s[x]
          <6> HIDE DEF s, r
          <6> QED BY <3>4, <5>1, Behind
        <5>4. i \in 1..(k + 1)
          BY <3>1
        <5> QED BY <5>2, <5>3, <5>4
      <4>2. CASE ~(x <= P[k])
        <5> DEFINE j == x - P[k]
        <5>1. j \in 1..Len(r) /\ x = P[k] + j
          <6> HIDE DEF r
          <6> QED BY <3>4, <4>2
        <5>2. (s \o r)[x] = r[j]
          <6> HIDE DEF s, r, j
          <6> QED BY <3>4, <5>1, Behind
        <5> HIDE DEF j
        <5>3. k + 1 \in 1..(k + 1)
          BY <3>1
        <5> QED BY <3>1, <5>1, <5>2, <5>3
      <4> QED BY <4>1, <4>2
    <3>6. s \o r \in Seq(S) /\ Len(s \o r) = P[k + 1]
      <4> HIDE DEF s, r
      <4>1. s \o r \in Seq(S) /\ Len(s \o r) = Len(s) + Len(r)
        BY <3>4, Behind
      <4>2. P[k] + Len(r) = P[k + 1]
        BY <3>4
      <4>3. Len(s) + Len(r) = P[k] + Len(r)
        BY <3>4
      <4> QED BY <4>1, <4>2, <4>3
    <3>7. Of(s \o r, k + 1)
      <4> HIDE DEF s, r
      <4> QED BY <3>5, <3>6
    <3> HIDE DEF s, r, Of
    <3> QED BY <3>3, <3>7
  <2> HIDE DEF K
  <2>3. Nat \subseteq K
    BY <2>1, <2>2, SetInduction
  <2>4. n - 1 \in K /\ (n - 1) + 1 = n /\ n \in 1..n
    BY <1>8, <2>3
  <2>5. Of(flatten[n], n)
    BY <2>4 DEF K
  <2> QED BY <1>6, <1>8, <2>5 DEF PiecesOf
<1> QED BY <1>7, <1>8

\* the topk_id by which a token names an expert
TopkIdOf(t, e) == CHOOSE k \in TopkIds : input.ids[t][k] = e

\* the words of a list
Words == {Entry(t, k) : t \in Tokens, k \in TopkIds} \union {PadEntry}

\* The reference lists the tokens of an expert one by one.
LEMMA EntriesAre ==
  ASSUME input \in Inputs, NEW e
  PROVE  /\ EntriesOf(e) \in Seq(Words) /\ Len(EntriesOf(e)) = TokensOf(e)
         /\ \A x \in 1..TokensOf(e) : \E t \in Tokens :
              Names(t, e) /\ x = Named(e, t) + 1 /\ EntriesOf(e)[x] = Entry(t, TopkIdOf(t, e))
<1> DEFINE n == input.tokens * Topk
           T(i) == i \div Topk
           K(i) == i % Topk
           f == [i \in 1..n |-> IF input.ids[T(i - 1)][K(i - 1)] = e
                                THEN <<Entry(T(i - 1), K(i - 1))>> ELSE <<>>]
           g == [i \in 0..(n - 1) |-> Len(f[i + 1])]
           before(t, k) == Named(e, t) + IF \E l \in 0..(k - 1) : input.ids[t][l] = e THEN 1 ELSE 0
           P == [i \in 0..n |-> before(T(i), K(i))]
<1>1. /\ n \in Nat /\ input.tokens \in Nat \ {0} /\ Topk \in Nat \ {0} /\ n = Topk * input.tokens
      /\ Tokens = 0..(input.tokens - 1) /\ TopkIds = 0..(Topk - 1)
  BY Problem DEF Tokens, TopkIds
<1>2. EntriesOf(e) = FlattenSeq(f)
  BY DEF EntriesOf
<1> HIDE DEF n
<1>3. ASSUME NEW i \in Nat
      PROVE  /\ T(i) \in Nat /\ K(i) \in 0..(Topk - 1) /\ i = Topk * T(i) + K(i)
             /\ (i < n => T(i) < input.tokens)
             /\ K(i + 1) = (IF K(i) + 1 = Topk THEN 0 ELSE K(i) + 1)
             /\ T(i + 1) = (IF K(i) + 1 = Topk THEN T(i) + 1 ELSE T(i))
  <2>1. T(i) \in Nat /\ K(i) \in 0..(Topk - 1) /\ i = Topk * T(i) + K(i)
    BY <1>1, DivMod
  <2>2. i < n => T(i) < input.tokens
    BY <1>1, DivRange
  <2> DEFINE q == IF K(i) + 1 = Topk THEN T(i) + 1 ELSE T(i)
             r == IF K(i) + 1 = Topk THEN 0 ELSE K(i) + 1
             t == T(i)
             k == K(i)
  <2>3. t \in Nat /\ k \in 0..(Topk - 1) /\ i = Topk * t + k
    BY <2>1
  <2> HIDE DEF t, k
  <2>4. q \in Nat /\ r \in 0..(Topk - 1) /\ i + 1 = Topk * q + r
    <3>1. CASE k + 1 = Topk
      <4>1. q = t + 1 /\ r = 0
        BY <3>1 DEF t, k
      <4>2. Topk * (t + 1) = Topk * t + Topk /\ Topk * t \in Nat
        BY <1>1, <2>3
      <4> HIDE DEF q, r
      <4> QED BY <1>1, <2>3, <3>1, <4>1, <4>2
    <3>2. CASE k + 1 # Topk
      <4>1. q = t /\ r = k + 1
        BY <3>2 DEF t, k
      <4>2. Topk * t \in Nat
        BY <1>1, <2>3
      <4> HIDE DEF q, r
      <4> QED BY <1>1, <2>3, <3>2, <4>1, <4>2
    <3> QED BY <3>1, <3>2
  <2> HIDE DEF q, r
  <2>5. T(i + 1) = q /\ K(i + 1) = r
    <3>1. i + 1 \in Nat
      OBVIOUS
    <3> QED BY <1>1, <2>4, <3>1, DivModUnique
  <2> QED BY <2>1, <2>2, <2>5 DEF q, r
<1>4. n \in Nat
  BY <1>1
<1> HIDE DEF T, K
<1>5. ASSUME NEW i \in 0..(n - 1)
      PROVE  /\ T(i) \in Tokens /\ K(i) \in TopkIds /\ i \in Nat
             /\ Len(f[i + 1]) = IF input.ids[T(i)][K(i)] = e THEN 1 ELSE 0
             /\ f[i + 1] = (IF input.ids[T(i)][K(i)] = e THEN <<Entry(T(i), K(i))>> ELSE <<>>)
             /\ f[i + 1] \in Seq(Words)
  <2>1. i \in Nat /\ i < n /\ i + 1 \in 1..n /\ (i + 1) - 1 = i
    BY <1>1
  <2>2. T(i) \in Tokens /\ K(i) \in TopkIds
    <3>1. T(i) \in Nat /\ T(i) < input.tokens /\ K(i) \in 0..(Topk - 1)
      BY <1>3, <2>1
    <3> QED BY <1>1, <3>1
  <2>3. f[i + 1] = IF input.ids[T(i)][K(i)] = e THEN <<Entry(T(i), K(i))>> ELSE <<>>
    BY <2>1
  <2>4. Entry(T(i), K(i)) \in Words
    BY <2>2 DEF Words
  <2> DEFINE w == Entry(T(i), K(i))
  <2>5. w \in Words /\ f[i + 1] = IF input.ids[T(i)][K(i)] = e THEN <<w>> ELSE <<>>
    BY <2>3, <2>4
  <2> HIDE DEF f, w
  <2>6. <<w>> \in Seq(Words) /\ Len(<<w>>) = 1 /\ <<>> \in Seq(Words) /\ Len(<<>>) = 0
    BY <2>5
  <2>7. f[i + 1] \in Seq(Words) /\ Len(f[i + 1]) = IF input.ids[T(i)][K(i)] = e THEN 1 ELSE 0
    BY <2>5, <2>6
  <2> QED BY <2>1, <2>2, <2>3, <2>7
<1>6. f \in [1..n -> Seq(Words)]
  <2>1. \A i \in 1..n : f[i] \in Seq(Words)
    <3> TAKE i \in 1..n
    <3>1. i - 1 \in 0..(n - 1) /\ (i - 1) + 1 = i
      BY <1>1
    <3> HIDE DEF f
    <3> QED BY <1>5, <3>1
  <2>2. f = [i \in 1..n |-> f[i]]
    OBVIOUS
  <2> HIDE DEF f
  <2> QED BY <2>1, <2>2
<1> HIDE DEF f
<1>7. \A t \in Nat : Named(e, t) \in Nat
  BY NamedStep
<1>8. Piled(P, f, n)
  <2>1. P \in [0..n -> Int]
    <3>1. \A i \in 0..n : T(i) \in Nat
      <4> TAKE i \in 0..n
      <4>1. i \in Nat
        BY <1>4
      <4> QED BY <1>3, <4>1
    <3>2. \A i \in 0..n : Named(e, T(i)) \in Nat
      BY <1>7, <3>1
    <3> QED BY <3>2
  <2>2. P[0] = 0
    <3>1. T(0) = 0 /\ K(0) = 0
      <4>1. 0 \in Nat /\ 0 \in 0..(Topk - 1) /\ 0 = Topk * 0 + 0
        BY <1>1
      <4> QED BY <1>1, <4>1, DivModUnique DEF T, K
    <3>2. Named(e, 0) = 0
      BY NamedStep
    <3> QED BY <1>1, <3>1, <3>2
  <2>3. ASSUME NEW i \in 0..(n - 1) PROVE P[i + 1] = P[i] + g[i]
    <3> DEFINE t == T(i)
               k == K(i)
               hit == input.ids[t][k] = e
               past == \E l \in 0..(k - 1) : input.ids[t][l] = e
    <3>1. t \in Tokens /\ k \in TopkIds /\ g[i] = (IF hit THEN 1 ELSE 0)
      BY <1>5
    <3>2. /\ P[i] = Named(e, t) + (IF past THEN 1 ELSE 0)
          /\ P[i + 1] = before(T(i + 1), K(i + 1))
      BY <1>1
    <3>3. /\ K(i + 1) = (IF k + 1 = Topk THEN 0 ELSE k + 1)
          /\ T(i + 1) = (IF k + 1 = Topk THEN t + 1 ELSE t)
      BY <1>3, <1>5
    <3>4. Named(e, t) \in Nat /\ t \in Nat
      BY <1>1, <1>7, <3>1
    <3>5. ~(hit /\ past)
      <4> SUFFICES ASSUME hit, NEW l \in 0..(k - 1), input.ids[t][l] = e PROVE FALSE
        OBVIOUS
      <4>1. l \in TopkIds /\ l # k
        BY <1>1, <3>1
      <4> QED BY <1>1, <3>1, <4>1, Problem
    <3>6. (\E l \in 0..k : input.ids[t][l] = e) <=> hit \/ past
      <4>1. \A l : l \in 0..k <=> l \in 0..(k - 1) \/ l = k
        BY <1>1, <3>1
      <4> QED BY <4>1
    <3> HIDE DEF P, g, t, k
    <3>7. CASE k + 1 = Topk
      <4>1. T(i + 1) = t + 1 /\ K(i + 1) = 0
        BY <3>3, <3>7
      <4>2. P[i + 1] = Named(e, t + 1)
        <5>1. ~\E l \in 0..(0 - 1) : input.ids[t + 1][l] = e
          OBVIOUS
        <5>2. Named(e, t + 1) \in Nat
          BY <1>7, <3>4
        <5> QED BY <3>2, <4>1, <5>1, <5>2
      <4>3. Named(e, t + 1) = Named(e, t) + IF Names(t, e) THEN 1 ELSE 0
        BY <3>4, NamedStep
      <4>4. Names(t, e) <=> hit \/ past
        <5>1. 0..k = TopkIds
          BY <1>1, <3>1, <3>7
        <5> QED BY <3>1, <3>6, <5>1 DEF Names
      <4> QED BY <3>1, <3>2, <3>4, <3>5, <4>2, <4>3, <4>4
    <3>8. CASE k + 1 # Topk
      <4>1. T(i + 1) = t /\ K(i + 1) = k + 1 /\ (k + 1) - 1 = k
        BY <1>1, <3>1, <3>3, <3>8
      <4>2. P[i + 1] = Named(e, t) + IF hit \/ past THEN 1 ELSE 0
        BY <3>2, <3>6, <4>1
      <4> QED BY <3>1, <3>2, <3>4, <3>5, <4>2
    <3> QED BY <3>7, <3>8
  <2> HIDE DEF P, g
  <2>4. ASSUME NEW i \in 1..n PROVE P[i] = P[i - 1] + Len(f[i])
    <3>1. i - 1 \in 0..(n - 1) /\ (i - 1) + 1 = i
      BY <1>4
    <3>2. g[i - 1] = Len(f[i])
      BY <3>1 DEF g
    <3> QED BY <2>3, <3>1, <3>2
  <2> QED BY <2>1, <2>2, <2>4 DEF Piled
<1>9. P[n] = TokensOf(e)
  <2>1. n \in Nat /\ 0 \in 0..(Topk - 1) /\ n = Topk * input.tokens + 0
    BY <1>1
  <2>2. T(n) = input.tokens /\ K(n) = 0
    <3> DEFINE m == Topk * input.tokens + 0
    <3>1. m \div Topk = input.tokens /\ m % Topk = 0
      BY <1>1, <2>1, DivModUnique
    <3>2. n = m
      BY <2>1
    <3> QED BY <3>1, <3>2 DEF T, K
  <2>3. P[n] = before(input.tokens, 0)
    BY <1>1, <2>2
  <2>4. ~\E l \in 0..(0 - 1) : input.ids[input.tokens][l] = e
    OBVIOUS
  <2>5. Named(e, input.tokens) \in Nat
    BY <1>1, <1>7
  <2> QED BY <2>3, <2>4, <2>5 DEF TokensOf
<1>10. /\ FlattenSeq(f) \in Seq(Words) /\ Len(FlattenSeq(f)) = P[n]
      /\ \A x \in 1..P[n] : \E i \in 1..n : \E j \in 1..Len(f[i]) :
           x = P[i - 1] + j /\ FlattenSeq(f)[x] = f[i][j]
  <2> HIDE DEF P
  <2>1. PiecesOf(FlattenSeq(f), Words, P, f, n)
    BY <1>6, <1>8, <1>4, Flattened
  <2> QED BY <2>1 DEF PiecesOf
<1>11. ASSUME NEW x \in 1..TokensOf(e)
       PROVE  \E t \in Tokens : Names(t, e) /\ x = Named(e, t) + 1
                                /\ FlattenSeq(f)[x] = Entry(t, TopkIdOf(t, e))
  <2>1. PICK i \in 1..n : \E j \in 1..Len(f[i]) : x = P[i - 1] + j /\ FlattenSeq(f)[x] = f[i][j]
    <3> HIDE DEF P
    <3> QED BY <1>9, <1>10
  <2> DEFINE m == i - 1
             t == T(m)
             k == K(m)
  <2>2. m \in 0..(n - 1) /\ m + 1 = i
    BY <1>1
  <2>3. t \in Tokens /\ k \in TopkIds
        /\ f[i] = (IF input.ids[t][k] = e THEN <<Entry(t, k)>> ELSE <<>>)
        /\ Len(f[i]) = IF input.ids[t][k] = e THEN 1 ELSE 0
    BY <1>5, <2>2
  <2>4. P[m] = Named(e, t) + IF \E l \in 0..(k - 1) : input.ids[t][l] = e THEN 1 ELSE 0
    BY <1>1, <2>2
  <2> HIDE DEF P, m, t, k
  <2>5. PICK j \in 1..Len(f[i]) : x = P[m] + j /\ FlattenSeq(f)[x] = f[i][j]
    BY <2>1 DEF m
  <2>6. input.ids[t][k] = e /\ j = 1 /\ f[i] = <<Entry(t, k)>>
    BY <2>3, <2>5
  <2>7. ~\E l \in 0..(k - 1) : input.ids[t][l] = e
    <3> SUFFICES ASSUME NEW l \in 0..(k - 1), input.ids[t][l] = e PROVE FALSE
      OBVIOUS
    <3>1. l \in TopkIds /\ l # k
      BY <1>1, <2>3
    <3> QED BY <1>1, <2>3, <2>6, <3>1, Problem
  <2>8. TopkIdOf(t, e) = k
    <3>1. \A l \in TopkIds : input.ids[t][l] = e => l = k
      BY <1>1, <2>3, <2>6, Problem
    <3> QED BY <2>3, <2>6, <3>1 DEF TopkIdOf
  <2>9. x = Named(e, t) + 1
    <3>1. Named(e, t) \in Nat
      BY <1>1, <1>7, <2>3
    <3> QED BY <2>4, <2>5, <2>6, <2>7, <3>1
  <2>10. FlattenSeq(f)[x] = Entry(t, k)
    BY <2>5, <2>6
  <2>11. Names(t, e)
    BY <2>3, <2>6 DEF Names
  <2> QED BY <2>3, <2>8, <2>9, <2>10, <2>11
<1> HIDE DEF P
<1> QED BY <1>2, <1>9, <1>10, <1>11

\* The list of an expert is kept unless its device does not hold it, or it has
\* no tokens and need not have a list.
LEMMA KeptIs ==
  ASSUME input \in Inputs, NEW e \in Experts
  PROVE  /\ Kept(e) <=> Enabled(e) /\ (SkipExpertsWithZeroTokens => TokensOf(e) > 0)
         /\ Kept(e) => ListUnits(e) = ExpertSlices(e)
         /\ ~Kept(e) => ListUnits(e) = 0
         /\ ListUnits(e) \in Nat /\ TokensOf(e) \in Nat
         /\ Kept(e) => TokensOf(e) <= ListUnits(e) * UnitSize
<1> DEFINE c == TokensOf(e)
           q == IntegerDivideCeil(c, UnitSize)
<1>1. EntriesOf(e) \in Seq(Words) /\ Len(EntriesOf(e)) = c /\ c \in Nat
  BY EntriesAre, ListUnitsFit
<1>2. EntriesOf(e) # <<>> <=> c > 0
  <2> DEFINE s == EntriesOf(e)
  <2> HIDE DEF s, c
  <2>1. s \in Seq(Words) /\ Len(s) = c /\ c \in Nat
    BY <1>1 DEF s
  <2>2. s # <<>> <=> c > 0
    BY <2>1
  <2> QED BY <2>2 DEF s
<1>3. q \in Nat /\ (c > 0 => q > 0) /\ (c = 0 => q = 0)
  <2>1. UnitSize \in Nat \ {0}
    BY SortAssumption
  <2>2. q \in Nat /\ (c > 0 => q > 0) /\ q * UnitSize <= c + UnitSize - 1
    BY <1>1, <2>1, CeilMultiple, CeilBelow
  <2>3. c = 0 => q = 0
    <3> HIDE DEF c, q
    <3> SUFFICES ASSUME c = 0, q >= 1 PROVE FALSE
      BY <2>2
    <3>1. 1 * UnitSize <= q * UnitSize
      BY <2>1, <2>2, ProductOrder
    <3> QED BY <2>1, <2>2, <3>1
  <2> QED BY <2>2, <2>3
<1>4. ExpertSlices(e) = Max({1, q})
  BY <1>1 DEF ExpertSlices
<1>5. Kept(e) <=> Enabled(e) /\ (SkipExpertsWithZeroTokens => c > 0)
  BY <1>2 DEF Kept
<1>6. ListUnits(e) = IF Enabled(e) THEN Max({q, LeastUnits}) ELSE 0
  BY DEF ListUnits
<1>7. LeastUnits = IF SkipExpertsWithZeroTokens THEN 0 ELSE 1
  BY DEF LeastUnits
<1>8. ListUnits(e) \in Nat /\ (Enabled(e) => c <= UnitSize * ListUnits(e))
  BY ListUnitsFit
<1> HIDE DEF q, c
<1>9. ASSUME NEW a \in Nat, NEW b \in Nat
      PROVE  Max({a, b}) = (IF a >= b THEN a ELSE b)
  <2>1. \E x \in {a, b} : \A y \in {a, b} : x >= y
    BY <1>9
  <2>2. Max({a, b}) \in {a, b} /\ Max({a, b}) >= a /\ Max({a, b}) >= b
    BY <2>1 DEF Max
  <2> QED BY <2>2
<1>10. Kept(e) => ListUnits(e) = ExpertSlices(e)
  <2> SUFFICES ASSUME Kept(e) PROVE ListUnits(e) = ExpertSlices(e)
    OBVIOUS
  <2>1. ExpertSlices(e) = IF q >= 1 THEN q ELSE 1
    BY <1>3, <1>4, <1>9
  <2>2. CASE SkipExpertsWithZeroTokens
    <3>1. ListUnits(e) = Max({q, 0})
      BY <1>5, <1>6, <1>7, <2>2
    <3>2. ListUnits(e) = q
      BY <1>3, <1>9, <3>1
    <3> QED BY <1>3, <1>5, <2>1, <2>2, <3>2
  <2>3. CASE ~SkipExpertsWithZeroTokens
    <3>1. ListUnits(e) = Max({q, 1})
      BY <1>5, <1>6, <1>7, <2>3
    <3> QED BY <1>3, <1>9, <2>1, <3>1
  <2> QED BY <2>2, <2>3
<1>11. ~Kept(e) => ListUnits(e) = 0
  <2> SUFFICES ASSUME ~Kept(e), Enabled(e) PROVE ListUnits(e) = 0
    BY <1>6
  <2>1. SkipExpertsWithZeroTokens /\ q = 0
    BY <1>1, <1>3, <1>5
  <2>2. ListUnits(e) = Max({0, 0})
    BY <1>6, <1>7, <2>1
  <2> QED BY <1>9, <2>2
<1>12. Kept(e) => c <= ListUnits(e) * UnitSize
  <2> DEFINE u == ListUnits(e)
  <2>1. u \in Nat /\ UnitSize \in Nat
    BY <1>8, SortAssumption
  <2>2. Kept(e) => c <= UnitSize * u
    BY <1>5, <1>8
  <2> HIDE DEF u
  <2> QED BY <2>1, <2>2 DEF u
<1> QED BY <1>1, <1>5, <1>8, <1>10, <1>11, <1>12 DEF c

\* What an expert adds to the reference.
LEMMA RefListIs ==
  ASSUME input \in Inputs, NEW e \in Experts
  PROVE  /\ RefList(e) \in Seq(Words) /\ Len(RefList(e)) = UnitSize * ListUnits(e)
         /\ RefUnits(e) \in Seq(Int) /\ Len(RefUnits(e)) = ListUnits(e)
         /\ \A j \in 1..Len(RefUnits(e)) : Kept(e) /\ RefUnits(e)[j] = LocalExpertId(e)
         /\ \A j \in 1..Len(RefList(e)) :
              Kept(e) /\ RefList(e)[j] = IF j <= TokensOf(e) THEN EntriesOf(e)[j] ELSE PadEntry
<1> DEFINE c == TokensOf(e)
           u == ListUnits(e)
           s == EntriesOf(e)
           pad == [i \in 1..(ExpertSlices(e) * UnitSize - Len(EntriesOf(e))) |-> PadEntry]
           ids == [i \in 1..ExpertSlices(e) |-> LocalExpertId(e)]
<1>1. /\ s \in Seq(Words) /\ Len(s) = c /\ c \in Nat /\ u \in Nat /\ UnitSize \in Nat \ {0}
      /\ Kept(e) => u = ExpertSlices(e) /\ c <= u * UnitSize
      /\ ~Kept(e) => u = 0
  BY EntriesAre, KeptIs, SortAssumption
<1>2. CASE Kept(e)
  <2>1. pad = [i \in 1..(u * UnitSize - c) |-> PadEntry] /\ ids = [i \in 1..u |-> LocalExpertId(e)]
    BY <1>1, <1>2
  <2>2. RefList(e) = s \o pad /\ RefUnits(e) = ids
    BY <1>2 DEF RefList, RefUnits, PaddedEntriesOf
  <2> DEFINE m == u * UnitSize
  <2>3. m \in Nat /\ c <= m /\ m = UnitSize * u
    BY <1>1, <1>2
  <2>4. pad = [i \in 1..(m - c) |-> PadEntry] /\ PadEntry \in Words
    BY <2>1 DEF Words
  <2> HIDE DEF pad, m, s, ids, c, u
  <2>5. pad \in Seq(Words) /\ Len(pad) = m - c /\ \A i \in 1..(m - c) : pad[i] = PadEntry
    <3>1. m - c \in Nat
      BY <1>1, <2>3
    <3> DEFINE w == PadEntry
               k == m - c
    <3>2. pad = [i \in 1..k |-> w] /\ w \in Words /\ k \in Nat
      BY <2>4, <3>1
    <3> HIDE DEF w, k
    <3>3. pad \in Seq(Words) /\ Len(pad) = k /\ \A i \in 1..k : pad[i] = w
      BY <3>2
    <3> QED BY <3>3 DEF w, k
  <2>6. /\ s \o pad \in Seq(Words) /\ Len(s \o pad) = c + (m - c)
        /\ \A x \in 1..c : (s \o pad)[x] = s[x]
        /\ \A j \in 1..(m - c) : (s \o pad)[c + j] = PadEntry
    <3> DEFINE W == Words
    <3>1. s \in Seq(W) /\ pad \in Seq(W)
      BY <1>1, <2>5
    <3> HIDE DEF W
    <3>2. /\ s \o pad \in Seq(W) /\ Len(s \o pad) = Len(s) + Len(pad)
          /\ \A x \in 1..Len(s) : (s \o pad)[x] = s[x]
          /\ \A j \in 1..Len(pad) : (s \o pad)[Len(s) + j] = pad[j]
      BY <3>1, Behind
    <3>3. /\ s \o pad \in Seq(Words) /\ Len(s \o pad) = Len(s) + Len(pad)
          /\ \A x \in 1..Len(s) : (s \o pad)[x] = s[x]
          /\ \A j \in 1..Len(pad) : (s \o pad)[Len(s) + j] = pad[j]
      BY <3>2 DEF W
    <3>4. Len(s) = c /\ Len(pad) = m - c
      BY <1>1, <2>5
    <3> QED BY <2>5, <3>3, <3>4
  <2>7. Len(s \o pad) = m
    BY <1>1, <2>3, <2>6
  <2>8. ASSUME NEW j \in 1..m
        PROVE  (s \o pad)[j] = IF j <= c THEN s[j] ELSE PadEntry
    <3>1. CASE j <= c
      <4>1. j \in 1..c
        BY <1>1, <2>3, <3>1
      <4> QED BY <2>6, <3>1, <4>1
    <3>2. CASE ~(j <= c)
      <4>1. j - c \in 1..(m - c) /\ c + (j - c) = j
        BY <1>1, <2>3, <3>2
      <4>2. (s \o pad)[c + (j - c)] = PadEntry
        BY <2>6, <4>1
      <4> QED BY <3>2, <4>1, <4>2
    <3> QED BY <3>1, <3>2
  <2>9. LocalExpertId(e) \in Int
    <3>1. e \in Nat
      BY Problem DEF Experts
    <3>2. IsFiniteSet(0..(e - 1)) /\ {f \in 0..(e - 1) : Enabled(f)} \in SUBSET (0..(e - 1))
      BY <3>1, FS_Interval
    <3>3. IsFiniteSet({f \in 0..(e - 1) : Enabled(f)})
      BY <3>2, FS_Subset
    <3> QED BY <3>3, FS_CardinalityType DEF LocalExpertId
  <2>10. ids \in Seq(Int) /\ Len(ids) = u /\ \A j \in 1..u : ids[j] = LocalExpertId(e)
    <3> DEFINE w == LocalExpertId(e)
    <3>1. ids = [i \in 1..u |-> w] /\ w \in Int /\ u \in Nat
      BY <1>1, <2>1, <2>9
    <3> HIDE DEF w
    <3>2. ids \in Seq(Int) /\ Len(ids) = u /\ \A j \in 1..u : ids[j] = w
      BY <3>1
    <3> QED BY <3>2 DEF w
  <2> HIDE DEF Kept
  <2>11. /\ RefList(e) \in Seq(Words) /\ Len(RefList(e)) = m
         /\ \A j \in 1..m : RefList(e)[j] = IF j <= c THEN s[j] ELSE PadEntry
    BY <2>2, <2>6, <2>7, <2>8
  <2>12. /\ RefUnits(e) \in Seq(Int) /\ Len(RefUnits(e)) = u
         /\ \A j \in 1..u : RefUnits(e)[j] = LocalExpertId(e)
    BY <2>2, <2>10
  <2> QED BY <1>2, <2>3, <2>11, <2>12 DEF c, s, u
<1>3. CASE ~Kept(e)
  <2>1. RefList(e) = <<>> /\ RefUnits(e) = <<>> /\ u = 0
    BY <1>1, <1>3 DEF RefList, RefUnits
  <2>2. UnitSize * u = 0 /\ Len(<<>>) = 0 /\ <<>> \in Seq(Words) /\ <<>> \in Seq(Int)
    BY <1>1, <2>1
  <2> HIDE DEF u, c, s
  <2>3. /\ RefList(e) \in Seq(Words) /\ Len(RefList(e)) = 0 /\ UnitSize * u = 0
        /\ RefUnits(e) \in Seq(Int) /\ Len(RefUnits(e)) = 0 /\ u = 0
    BY <2>1, <2>2
  <2>4. 1..0 = {}
    OBVIOUS
  <2> QED BY <2>3, <2>4 DEF u
<1> QED BY <1>2, <1>3

\* What the reference lists, and where: the list of an expert is where the
\* sums of the padded lists put it.
LEMMA ReferenceIs ==
  ASSUME input \in Inputs
  PROVE  /\ \A x \in 0..input.experts : RefStart(x) = StartAt(x)
         /\ RefSorted \in Seq(Words) /\ Len(RefSorted) = StartAt(input.experts)
         /\ \A y \in 1..Len(RefSorted) :
              \E e \in Experts : \E j \in 1..Len(RefList(e)) :
                y = StartAt(e) + j /\ RefSorted[y] = RefList(e)[j]
         /\ RefExpertIds \in Seq(Int) /\ Len(RefExpertIds) = UnitStart[input.experts]
         /\ \A y \in 1..Len(RefExpertIds) :
              \E e \in Experts : \E j \in 1..Len(RefUnits(e)) :
                y = UnitStart[e] + j /\ RefExpertIds[y] = RefUnits(e)[j]
<1> DEFINE n == input.experts
<1>1. n \in Nat \ {0} /\ Experts = 0..(n - 1) /\ UnitSize \in Nat \ {0}
  BY Problem, SortAssumption DEF Experts
<1>2. /\ UnitStart \in [0..n -> Int] /\ UnitStart[0] = 0
      /\ \A i \in 0..(n - 1) : UnitStart[i + 1] = UnitStart[i] + ListUnits(i)
            /\ ListUnits(i) \in Nat
      /\ \A x \in 0..n : UnitStart[x] \in Nat
  BY ListsInOrder, ListUnitsFit, <1>1 DEF Runs
<1>3. \A e \in Experts : /\ RefList(e) \in Seq(Words) /\ Len(RefList(e)) = UnitSize * ListUnits(e)
                         /\ RefUnits(e) \in Seq(Int) /\ Len(RefUnits(e)) = ListUnits(e)
  BY RefListIs
<1>4. ASSUME NEW m \in 0..n
      PROVE  /\ RefListsTo(m) \in Seq(Words) /\ Len(RefListsTo(m)) = StartAt(m)
             /\ \A y \in 1..StartAt(m) :
                  \E i \in 1..m : \E j \in 1..Len(RefList(i - 1)) :
                    y = StartAt(i - 1) + j /\ RefListsTo(m)[y] = RefList(i - 1)[j]
  <2> DEFINE f == [i \in 1..m |-> RefList(i - 1)]
             P == [x \in 0..m |-> StartAt(x)]
             W == Words
  <2>1. m \in Nat /\ \A i \in 1..m : i - 1 \in Experts
    BY <1>1
  <2>2. f \in [1..m -> Seq(W)]
    BY <1>3, <2>1
  <2>3. Piled(P, f, m)
    <3>1. ASSUME NEW x \in 0..m PROVE StartAt(x) \in Int /\ UnitStart[x] \in Nat
      BY <1>1, <1>2, <1>4 DEF StartAt
    <3>2. StartAt(0) = 0
      BY <1>1, <1>2 DEF StartAt
    <3>3. ASSUME NEW i \in 1..m PROVE P[i] = P[i - 1] + Len(f[i])
      <4> DEFINE e == i - 1
      <4>1. e \in Experts /\ e \in 0..m /\ i \in 0..m /\ e + 1 = i /\ e \in 0..(n - 1)
        BY <1>1, <1>4
      <4>2. Len(f[i]) = UnitSize * ListUnits(e)
        BY <1>3, <4>1
      <4>3. UnitStart[i] = UnitStart[e] + ListUnits(e) /\ ListUnits(e) \in Nat
        BY <1>2, <4>1
      <4> DEFINE a == UnitStart[e]
                 b == ListUnits(e)
      <4>4. P[i] = UnitSize * (a + b) /\ P[e] = UnitSize * a /\ a \in Nat /\ b \in Nat
        BY <3>1, <4>1, <4>3 DEF StartAt
      <4> HIDE DEF P, f, a, b
      <4>5. UnitSize * (a + b) = UnitSize * a + UnitSize * b
        BY <1>1, <4>4
      <4> QED BY <4>2, <4>4, <4>5 DEF b, e
    <3>4. P \in [0..m -> Int] /\ P[0] = 0
      BY <2>1, <3>1, <3>2
    <3> HIDE DEF P, f
    <3> QED BY <3>3, <3>4 DEF Piled
  <2>4. P[m] = StartAt(m) /\ \A i \in 1..m : P[i - 1] = StartAt(i - 1) /\ f[i] = RefList(i - 1)
    BY <2>1
  <2>5. RefListsTo(m) = FlattenSeq(f)
    BY DEF RefListsTo
  <2> HIDE DEF f, P, W
  <2>6. /\ FlattenSeq(f) \in Seq(W) /\ Len(FlattenSeq(f)) = P[m]
        /\ \A x \in 1..P[m] : \E i \in 1..m : \E j \in 1..Len(f[i]) :
             x = P[i - 1] + j /\ FlattenSeq(f)[x] = f[i][j]
    <3>1. PiecesOf(FlattenSeq(f), W, P, f, m)
      BY <2>1, <2>2, <2>3, Flattened
    <3> QED BY <3>1 DEF PiecesOf
  <2>7. ASSUME NEW y \in 1..StartAt(m)
        PROVE  \E i \in 1..m : \E j \in 1..Len(RefList(i - 1)) :
                 y = StartAt(i - 1) + j /\ RefListsTo(m)[y] = RefList(i - 1)[j]
    <3>1. PICK i \in 1..m : \E j \in 1..Len(f[i]) : y = P[i - 1] + j /\ FlattenSeq(f)[y] = f[i][j]
      BY <2>4, <2>6
    <3>2. P[i - 1] = StartAt(i - 1) /\ f[i] = RefList(i - 1)
      BY <2>4
    <3> QED BY <2>5, <3>1, <3>2
  <2> QED BY <2>4, <2>5, <2>6, <2>7 DEF W
<1>5. \A x \in 0..n : RefStart(x) = StartAt(x)
  BY <1>4 DEF RefStart
<1>6. n \in 0..n /\ RefSorted = RefListsTo(n)
  BY <1>1 DEF RefSorted
<1>7. RefSorted \in Seq(Words) /\ Len(RefSorted) = StartAt(n)
  BY <1>4, <1>6
<1>8. ASSUME NEW y \in 1..Len(RefSorted)
      PROVE  \E e \in Experts : \E j \in 1..Len(RefList(e)) :
               y = StartAt(e) + j /\ RefSorted[y] = RefList(e)[j]
  <2>1. PICK i \in 1..n : \E j \in 1..Len(RefList(i - 1)) :
          y = StartAt(i - 1) + j /\ RefListsTo(n)[y] = RefList(i - 1)[j]
    BY <1>4, <1>6, <1>7
  <2>2. i - 1 \in Experts
    BY <1>1
  <2> QED BY <1>6, <2>1, <2>2
<1>9. /\ RefExpertIds \in Seq(Int) /\ Len(RefExpertIds) = UnitStart[n]
      /\ \A y \in 1..Len(RefExpertIds) :
           \E e \in Experts : \E j \in 1..Len(RefUnits(e)) :
             y = UnitStart[e] + j /\ RefExpertIds[y] = RefUnits(e)[j]
  <2> DEFINE f == [i \in 1..n |-> RefUnits(i - 1)]
  <2>1. n \in Nat /\ \A i \in 1..n : i - 1 \in Experts
    BY <1>1
  <2>2. f \in [1..n -> Seq(Int)]
    BY <1>3, <2>1
  <2>3. Piled(UnitStart, f, n)
    <3> SUFFICES ASSUME NEW i \in 1..n PROVE UnitStart[i] = UnitStart[i - 1] + Len(f[i])
      BY <1>2 DEF Piled
    <3>1. i - 1 \in Experts /\ (i - 1) + 1 = i /\ i - 1 \in 0..(n - 1)
      BY <1>1
    <3>2. Len(f[i]) = ListUnits(i - 1)
      BY <1>3, <3>1
    <3> QED BY <1>2, <3>1, <3>2
  <2>4. \A i \in 1..n : f[i] = RefUnits(i - 1)
    OBVIOUS
  <2>5. RefExpertIds = FlattenSeq(f)
    BY DEF RefExpertIds
  <2> HIDE DEF f
  <2>6. /\ FlattenSeq(f) \in Seq(Int) /\ Len(FlattenSeq(f)) = UnitStart[n]
        /\ \A x \in 1..UnitStart[n] : \E i \in 1..n : \E j \in 1..Len(f[i]) :
             x = UnitStart[i - 1] + j /\ FlattenSeq(f)[x] = f[i][j]
    <3>1. PiecesOf(FlattenSeq(f), Int, UnitStart, f, n)
      BY <2>1, <2>2, <2>3, Flattened
    <3> QED BY <3>1 DEF PiecesOf
  <2>7. ASSUME NEW y \in 1..UnitStart[n]
        PROVE  \E e \in Experts : \E j \in 1..Len(RefUnits(e)) :
                 y = UnitStart[e] + j /\ RefExpertIds[y] = RefUnits(e)[j]
    <3>1. PICK i \in 1..n : \E j \in 1..Len(f[i]) :
            y = UnitStart[i - 1] + j /\ FlattenSeq(f)[y] = f[i][j]
      BY <2>6
    <3>2. i - 1 \in Experts /\ f[i] = RefUnits(i - 1)
      BY <2>1, <2>4
    <3> QED BY <2>5, <3>1, <3>2
  <2> QED BY <2>5, <2>6, <2>7
<1> QED BY <1>5, <1>7, <1>8, <1>9

-----------------------------------------------------------------------------

\* The list of an expert is in its place: its tokens in order, and padding to
\* the end of its last unit.
ListSorted(e) ==
  /\ \A t \in Tokens : Names(t, e) =>
       Holds(out.sorted, StartAt(e) + Named(e, t), Entry(t, TopkIdOf(t, e)))
  /\ \A x \in (StartAt(e) + TokensOf(e))..(StartAt(e + 1) - 1) : Holds(out.sorted, x, PadEntry)

\* and so is the expert of its units
UnitsSorted(e) ==
  \A u \in UnitStart[e]..(UnitStart[e + 1] - 1) : Holds(out.expert_ids, u, LocalExpertId(e))

ListsSorted ==
  /\ out.total = StartAt(input.experts)
  /\ \A e \in Experts : Enabled(e) => ListSorted(e) /\ UnitsSorted(e)

\* When every list is in its place, the lists are those of the reference.
LEMMA SortedIsReference ==
  ASSUME input \in Inputs, ListsSorted
  PROVE  ListsAreReference
<1>1. out.total = Len(RefSorted)
  BY ReferenceIs DEF ListsSorted
<1>2. ASSUME NEW e \in Experts
      PROVE  /\ UnitStart[e] \in Nat /\ UnitStart[e + 1] = UnitStart[e] + ListUnits(e)
            /\ ListUnits(e) \in Nat
             /\ StartAt(e) \in Nat /\ StartAt(e + 1) = StartAt(e) + UnitSize * ListUnits(e)
             /\ UnitSize * ListUnits(e) \in Nat /\ TokensOf(e) \in Nat
  <2>1. UnitSize \in Nat \ {0} /\ e \in 0..input.experts /\ e + 1 \in 0..input.experts
    BY SortAssumption, Problem DEF Experts
  <2> DEFINE a == UnitStart[e]
             b == ListUnits(e)
  <2>2. a \in Nat /\ b \in Nat /\ UnitStart[e + 1] = a + b /\ TokensOf(e) \in Nat
    BY <2>1, ListsInOrder, ListUnitsFit
  <2>3. StartAt(e) = UnitSize * a /\ StartAt(e + 1) = UnitSize * (a + b)
    BY <2>2 DEF StartAt
  <2> HIDE DEF a, b
  <2>4. UnitSize * (a + b) = UnitSize * a + UnitSize * b /\ UnitSize * a \in Nat
        /\ UnitSize * b \in Nat
    BY <2>1, <2>2
  <2> QED BY <2>2, <2>3, <2>4 DEF a, b
<1>3. ASSUME NEW y \in 1..Len(RefSorted) PROVE Holds(out.sorted, y - 1, RefSorted[y])
  <2>1. PICK e \in Experts : \E j \in 1..Len(RefList(e)) :
          y = StartAt(e) + j /\ RefSorted[y] = RefList(e)[j]
    BY ReferenceIs
  <2>2. PICK j \in 1..Len(RefList(e)) : y = StartAt(e) + j /\ RefSorted[y] = RefList(e)[j]
    BY <2>1
  <2>3. /\ Len(RefList(e)) = UnitSize * ListUnits(e) /\ Kept(e)
        /\ RefList(e)[j] = IF j <= TokensOf(e) THEN EntriesOf(e)[j] ELSE PadEntry
    BY RefListIs
  <2>4. ListSorted(e)
    BY <2>3, KeptIs DEF ListsSorted
  <2>5. CASE j <= TokensOf(e)
    <3>1. j \in 1..TokensOf(e)
      BY <1>2, <2>3, <2>5
    <3>2. PICK t \in Tokens : Names(t, e) /\ j = Named(e, t) + 1
          /\ EntriesOf(e)[j] = Entry(t, TopkIdOf(t, e))
      BY <3>1, EntriesAre
    <3>3. Holds(out.sorted, StartAt(e) + Named(e, t), Entry(t, TopkIdOf(t, e)))
      BY <2>4, <3>2 DEF ListSorted
    <3>4. t \in Nat
      BY DEF Tokens
    <3>5. Named(e, t) \in Nat
      BY <3>4, NamedStep
    <3>6. y - 1 = StartAt(e) + Named(e, t)
      BY <1>2, <2>2, <3>2, <3>5
    <3> QED BY <2>2, <2>3, <2>5, <3>2, <3>3, <3>6
  <2>6. CASE ~(j <= TokensOf(e))
    <3>1. y - 1 \in (StartAt(e) + TokensOf(e))..(StartAt(e + 1) - 1)
      <4> DEFINE a == UnitSize * ListUnits(e)
      <4>1. a \in Nat /\ j \in 1..a /\ StartAt(e + 1) = StartAt(e) + a
        BY <1>2, <2>3
      <4> HIDE DEF a
      <4> QED BY <1>2, <2>2, <2>6, <4>1
    <3> QED BY <2>2, <2>3, <2>4, <2>6, <3>1 DEF ListSorted
  <2> QED BY <2>5, <2>6
<1>4. ASSUME NEW y \in 1..Len(RefExpertIds) PROVE Holds(out.expert_ids, y - 1, RefExpertIds[y])
  <2>1. PICK e \in Experts : \E j \in 1..Len(RefUnits(e)) :
          y = UnitStart[e] + j /\ RefExpertIds[y] = RefUnits(e)[j]
    BY ReferenceIs
  <2>2. PICK j \in 1..Len(RefUnits(e)) : y = UnitStart[e] + j /\ RefExpertIds[y] = RefUnits(e)[j]
    BY <2>1
  <2>3. Len(RefUnits(e)) = ListUnits(e) /\ Kept(e) /\ RefUnits(e)[j] = LocalExpertId(e)
    BY RefListIs
  <2>4. UnitsSorted(e)
    BY <2>3, KeptIs DEF ListsSorted
  <2>5. y - 1 \in UnitStart[e]..(UnitStart[e + 1] - 1)
    BY <1>2, <2>2, <2>3
  <2> QED BY <2>2, <2>3, <2>4, <2>5 DEF UnitsSorted
<1>5. RefSorted \in Seq(Words) /\ RefExpertIds \in Seq(Int)
  BY ReferenceIs
<1>6. BeginsWith(out.sorted, RefSorted)
  <2> DEFINE s == RefSorted
             W == Words
             b == out.sorted
  <2> HIDE DEF s, W, b
  <2>1. s \in Seq(W) /\ \A y \in 1..Len(s) : y - 1 \in DOMAIN b /\ b[y - 1] = s[y]
    BY <1>3, <1>5 DEF s, W, b, Holds
  <2>2. BeginsWith(b, s)
    BY <2>1 DEF BeginsWith
  <2> QED BY <2>2 DEF s, b
<1>7. BeginsWith(out.expert_ids, RefExpertIds)
  <2> DEFINE s == RefExpertIds
             b == out.expert_ids
  <2> HIDE DEF s, b
  <2>1. s \in Seq(Int) /\ \A y \in 1..Len(s) : y - 1 \in DOMAIN b /\ b[y - 1] = s[y]
    BY <1>4, <1>5 DEF s, b, Holds
  <2>2. BeginsWith(b, s)
    BY <2>1 DEF BeginsWith
  <2> QED BY <2>2 DEF s, b
<1> QED BY <1>1, <1>6, <1>7 DEF ListsAreReference

\* The numbers of the experts that a device holds count up with them.
LEMMA LocalIds ==
  ASSUME input \in Inputs
  PROVE  /\ LocalExpertId(0) = 0
         /\ \A x \in Nat : /\ LocalExpertId(x) \in Nat
                           /\ LocalExpertId(x + 1) = LocalExpertId(x) + IF Enabled(x) THEN 1 ELSE 0
         /\ ~input.masking => \A x \in Nat : LocalExpertId(x) = x
<1> DEFINE S(x) == {f \in 0..(x - 1) : Enabled(f)}
<1>1. ASSUME NEW x \in Nat PROVE IsFiniteSet(S(x)) /\ Cardinality(S(x)) \in Nat
  <2>1. IsFiniteSet(0..(x - 1)) /\ S(x) \in SUBSET (0..(x - 1))
    BY FS_Interval
  <2> HIDE DEF S
  <2>2. IsFiniteSet(S(x))
    BY <2>1, FS_Subset
  <2> QED BY <2>2, FS_CardinalityType
<1>2. Cardinality(S(0)) = 0
  <2>1. S(0) = {}
    OBVIOUS
  <2> QED BY <2>1, FS_EmptySet
<1>3. ASSUME NEW x \in Nat
      PROVE  Cardinality(S(x + 1)) = Cardinality(S(x)) + IF Enabled(x) THEN 1 ELSE 0
  <2>1. S(x + 1) = IF Enabled(x) THEN S(x) \union {x} ELSE S(x)
    <3>1. \A f : f \in 0..((x + 1) - 1) <=> f \in 0..(x - 1) \/ f = x
      OBVIOUS
    <3> QED BY <3>1
  <2>2. x \notin S(x)
    OBVIOUS
  <2> HIDE DEF S
  <2>3. CASE Enabled(x)
    <3>1. Cardinality(S(x) \union {x}) = Cardinality(S(x)) + 1
      BY <1>1, <2>2, FS_AddElement
    <3> QED BY <2>1, <2>3, <3>1
  <2>4. CASE ~Enabled(x)
    BY <1>1, <2>1, <2>4
  <2> QED BY <2>3, <2>4
<1>4. ASSUME ~input.masking, NEW x \in Nat PROVE Cardinality(S(x)) = x
  <2>1. S(x) = 0..(x - 1)
    BY <1>4 DEF Enabled
  <2>2. Cardinality(0..(x - 1)) = x
    BY FS_Interval
  <2> QED BY <2>1, <2>2
<1>5. \A x : LocalExpertId(x) = Cardinality(S(x))
  BY DEF LocalExpertId
<1> HIDE DEF S
<1> QED BY <1>1, <1>2, <1>3, <1>4, <1>5

\* The mask adds up to the number of an expert on its device.
LEMMA MaskCounts ==
  ASSUME input \in Inputs, input.masking
  PROVE  /\ Runs([x \in 0..input.experts |-> LocalExpertId(x)], [e \in Experts |-> MaskOf(e)],
                 input.experts)
         /\ \A e \in Experts : /\ input.mask[e] \in {0, 1} /\ MaskOf(e) = input.mask[e]
                               /\ Enabled(e) <=> input.mask[e] = 1
<1> DEFINE n == input.experts
           M == [x \in 0..n |-> LocalExpertId(x)]
           f == [e \in Experts |-> MaskOf(e)]
<1>1. n \in Nat \ {0} /\ Experts = 0..(n - 1) /\ input.mask \in [0..(n - 1) -> {0, 1}]
  BY Problem, MaskAssumption DEF Experts
<1>2. \A e \in Experts : /\ input.mask[e] \in {0, 1} /\ MaskOf(e) = input.mask[e]
                         /\ Enabled(e) <=> input.mask[e] = 1
  BY <1>1 DEF MaskOf, Enabled
<1>3. ASSUME NEW i \in 0..(n - 1) PROVE M[i + 1] = M[i] + f[i]
  <2>1. i \in Nat /\ i \in 0..n /\ i + 1 \in 0..n /\ i \in Experts
    BY <1>1
  <2>2. LocalExpertId(i + 1) = LocalExpertId(i) + IF Enabled(i) THEN 1 ELSE 0
    BY <2>1, LocalIds
  <2>3. f[i] = IF Enabled(i) THEN 1 ELSE 0
    BY <1>2, <2>1
  <2> QED BY <2>1, <2>2, <2>3
<1>4. M \in [0..n -> Int] /\ M[0] = 0
  <2>1. \A x \in 0..n : LocalExpertId(x) \in Int
    BY <1>1, LocalIds
  <2>2. 0 \in 0..n
    BY <1>1
  <2>3. LocalExpertId(0) = 0
    BY LocalIds
  <2> QED BY <2>1, <2>2, <2>3
<1> HIDE DEF M, f
<1>5. Runs(M, f, n)
  BY <1>3, <1>4 DEF Runs
<1> QED BY <1>2, <1>5 DEF M, f, n

-----------------------------------------------------------------------------

(* Every expert of a device has a token to list, or need not have a list.  *)
(* The multi-phase kernels write the expert of every unit of tokens, but   *)
(* not that of the empty unit an expert without tokens gets when           *)
(* SkipExpertsWithZeroTokens is off.                                       *)
NoEmptyLists ==
  SkipExpertsWithZeroTokens \/
  \A in \in Inputs : \A e \in 0..(in.experts - 1) :
    (in.masking => in.mask[e] # 0) =>
      \E t \in 0..(in.tokens - 1), k \in 0..(Topk - 1) : in.ids[t][k] = e

\* Where no list is empty, a list has just the units its tokens fill.
LEMMA UnitsHaveTokens ==
  ASSUME input \in Inputs, NoEmptyLists, NEW e \in Experts, Enabled(e)
  PROVE  ListUnits(e) = IntegerDivideCeil(TokensOf(e), UnitSize)
<1> DEFINE q == IntegerDivideCeil(TokensOf(e), UnitSize)
<1>1. TokensOf(e) \in Nat /\ UnitSize \in Nat \ {0} /\ input.tokens \in Nat
  BY Problem, SortAssumption, ListUnitsFit
<1>2. q \in Nat /\ (TokensOf(e) > 0 => q > 0)
  BY <1>1, CeilMultiple, CeilBelow
<1>3. ListUnits(e) = Max({q, LeastUnits})
  BY DEF ListUnits
<1>4. q >= LeastUnits /\ LeastUnits \in Nat
  <2>1. CASE SkipExpertsWithZeroTokens
    BY <1>2, <2>1 DEF LeastUnits
  <2>2. CASE ~SkipExpertsWithZeroTokens
    <3>1. PICK t \in 0..(input.tokens - 1), k \in 0..(Topk - 1) : input.ids[t][k] = e
      BY <2>2 DEF NoEmptyLists, Enabled, Experts
    <3>2. t \in Nat /\ t + 1 \in Nat /\ t + 1 <= input.tokens
      BY <1>1
    <3>3. Names(t, e)
      BY <3>1 DEF Names, Tokens, TopkIds
    <3>4. Named(e, t + 1) = Named(e, t) + 1 /\ Named(e, t) \in Nat
      BY <3>2, <3>3, NamedStep
    <3>5. Named(e, t + 1) <= TokensOf(e)
      BY <1>1, <3>2, NamedUpTo DEF TokensOf
    <3>6. TokensOf(e) > 0
      BY <1>1, <3>4, <3>5
    <3> QED BY <1>2, <2>2, <3>6 DEF LeastUnits
  <2> QED BY <2>1, <2>2
<1> HIDE DEF q
<1> DEFINE l == LeastUnits
<1>5. Max({q, l}) = q
  <2>1. q \in Nat /\ l \in Nat /\ q >= l
    BY <1>2, <1>4
  <2> HIDE DEF l
  <2>2. \E x \in {q, l} : \A y \in {q, l} : x >= y
    BY <2>1
  <2>3. Max({q, l}) \in {q, l} /\ Max({q, l}) >= q
    BY <2>2 DEF Max
  <2> QED BY <2>1, <2>3
<1> QED BY <1>3, <1>5 DEF q

\* The lists of two experts have no place in common.
LEMMA ListsApart ==
  ASSUME input \in Inputs, NEW e \in Experts, NEW f \in Experts, e # f
  PROVE  /\ UnitStart[e + 1] <= UnitStart[f] \/ UnitStart[f + 1] <= UnitStart[e]
         /\ StartAt(e + 1) <= StartAt(f) \/ StartAt(f + 1) <= StartAt(e)
<1>1. e \in Nat /\ f \in Nat /\ e + 1 \in 0..input.experts /\ f + 1 \in 0..input.experts
      /\ e \in 0..input.experts /\ f \in 0..input.experts
  BY Problem DEF Experts
<1>2. e + 1 <= f \/ f + 1 <= e
  BY <1>1
<1>3. UnitStart[e + 1] <= UnitStart[f] \/ UnitStart[f + 1] <= UnitStart[e]
  BY <1>1, <1>2, ListsInOrder
<1>4. ASSUME NEW x \in 0..input.experts, NEW y \in 0..input.experts, UnitStart[x] <= UnitStart[y]
      PROVE  StartAt(x) <= StartAt(y)
  <2> DEFINE a == UnitStart[x]
             b == UnitStart[y]
  <2>1. a \in Nat /\ b \in Nat /\ a <= b /\ UnitSize \in Nat
    BY <1>4, ListsInOrder, SortAssumption
  <2> HIDE DEF a, b
  <2>2. a * UnitSize <= b * UnitSize
    BY <2>1, ProductOrder
  <2>3. UnitSize * a <= UnitSize * b
    BY <2>1, <2>2
  <2> QED BY <2>3 DEF StartAt, a, b
<1> QED BY <1>1, <1>3, <1>4

\* P2 and P23 write the number of its expert to every unit.
LEMMA IdsAre ==
  ASSUME input \in Inputs, Tallied, NoEmptyLists, NEW e \in Experts, Enabled(e)
  PROVE  \A u \in UnitStart[e]..(UnitStart[e + 1] - 1) :
           Holds(ExpertIdWrites, u, LocalExpertId(e))
<1> DEFINE n == input.experts
           first(c) == UnitsUpTo[c] - PaddedUnitsOf(c)
           units(c) == IF Enabled(c) THEN first(c)..(first(c) + UnitsOf(c) - 1) ELSE {}
           id(c) == IF input.masking THEN MaskUpTo[c] - MaskOf(c) ELSE c
           at_(u) == CHOOSE c \in Experts : u \in units(c)
<1>1. n \in Nat \ {0} /\ Experts = 0..(n - 1) /\ NumWaves \in Nat \ {0}
  BY Problem, WaveScanAssumption DEF Experts
<1>2. ASSUME NEW c \in Experts
      PROVE  /\ units(c) = IF Enabled(c) THEN UnitStart[c]..(UnitStart[c + 1] - 1) ELSE {}
             /\ UnitStart[c] \in Nat /\ UnitStart[c + 1] \in Nat
  <2>1. /\ UnitStart[c + 1] = UnitStart[c] + ListUnits(c) /\ UnitStart[c] \in Nat
        /\ ListUnits(c) \in Nat /\ UnitStart[c + 1] \in Nat
    <3>1. c \in 0..n /\ c + 1 \in 0..n
      BY <1>1
    <3> QED BY <3>1, ListsInOrder, ListUnitsFit
  <2>2. first(c) = UnitStart[c]
    <3>1. UnitsUpTo[c] = UnitStart[c + 1] /\ PaddedUnitsOf(c) = ListUnits(c)
      BY StartsFound
    <3> QED BY <2>1, <3>1
  <2>3. Enabled(c) => UnitsOf(c) = ListUnits(c)
    <3>1. Enabled(c) => UnitsOf(c) = IntegerDivideCeil(TokensOf(c), UnitSize)
      BY DEF Tallied, UnitsOf
    <3> QED BY <3>1, UnitsHaveTokens
  <2> HIDE DEF first
  <2> QED BY <2>1, <2>2, <2>3
<1>3. ASSUME NEW u \in units(e) PROVE at_(u) = e
  <2>1. at_(u) \in Experts /\ u \in units(at_(u))
    <3> HIDE DEF units
    <3> QED BY <1>3
  <2> DEFINE c == at_(u)
  <2> HIDE DEF c
  <2>2. c \in Experts /\ u \in units(c)
    BY <2>1 DEF c
  <2>3. c = e
    <3> SUFFICES ASSUME c # e PROVE FALSE
      OBVIOUS
    <3>1. UnitStart[e + 1] <= UnitStart[c] \/ UnitStart[c + 1] <= UnitStart[e]
      BY <2>2, ListsApart
    <3>2. u \in UnitStart[e]..(UnitStart[e + 1] - 1) /\ u \in UnitStart[c]..(UnitStart[c + 1] - 1)
      <4> HIDE DEF units
      <4> QED BY <1>2, <1>3, <2>2
    <3> QED BY <1>2, <2>2, <3>1, <3>2
  <2> QED BY <2>3 DEF c
<1>4. id(e) = LocalExpertId(e)
  <2>1. CASE ~input.masking
    BY <1>1, <2>1, LocalIds
  <2>2. CASE input.masking
    <3> DEFINE f == [c \in Experts |-> MaskOf(c)]
               M == [x \in 0..n |-> LocalExpertId(x)]
    <3>1. Runs(M, f, n) /\ MaskOf(e) \in {0, 1} /\ (Enabled(e) <=> MaskOf(e) = 1)
      BY <2>2, MaskCounts
    <3>2. \A c \in 0..(n - 1) : f[c] \in Int
      BY <1>1, <2>2, MaskCounts
    <3>3. M[e + 1] = LocalExpertId(e + 1)
      BY <1>1
    <3>4. MaskUpTo = BlockCumsum(f, n, NumWaves)
      BY DEF MaskUpTo
    <3> HIDE DEF f, M
    <3>5. BlockCumsum(f, n, NumWaves) = [c \in 0..(n - 1) |-> M[c + 1]]
      <4>1. n \in Nat /\ NumWaves \in Nat \ {0}
        BY <1>1
      <4> HIDE DEF n
      <4> QED BY <3>1, <3>2, <4>1, BlockPrefix
    <3>6. MaskUpTo[e] = LocalExpertId(e + 1)
      BY <1>1, <3>3, <3>4, <3>5
    <3>7. LocalExpertId(e + 1) = LocalExpertId(e) + 1 /\ LocalExpertId(e) \in Nat
      BY <1>1, LocalIds
    <3> QED BY <2>2, <3>1, <3>6, <3>7
  <2> QED BY <2>1, <2>2
<1>5. ExpertIdWrites = [u \in UNION {units(c) : c \in Experts} |-> id(at_(u))]
  BY DEF ExpertIdWrites
<1>6. units(e) = UnitStart[e]..(UnitStart[e + 1] - 1)
  <2> HIDE DEF units
  <2> QED BY <1>2
<1> HIDE DEF units, id, at_
<1> SUFFICES ASSUME NEW u \in UnitStart[e]..(UnitStart[e + 1] - 1)
             PROVE  Holds(ExpertIdWrites, u, LocalExpertId(e))
  OBVIOUS
<1>7. u \in units(e) /\ u \in UNION {units(c) : c \in Experts}
  BY <1>6
<1>8. at_(u) = e
  BY <1>3, <1>7
<1> QED BY <1>4, <1>5, <1>7, <1>8 DEF Holds

(***************************************************************************)
(* What a block of the multi-phase kernels has delivered when it is done,  *)
(* and delivers again, the same, in every later launch.                    *)
(***************************************************************************)
\* the words of moe_buf that the g-th of the blocks for it clears
ClearedBy(g) == {x \in 0..(BufWords - 1) : x \div BlockThreads = g} \subseteq out.cleared

IdsSorted ==
  /\ out.total = StartAt(input.experts)
  /\ \A e \in Experts : Enabled(e) => UnitsSorted(e)

Delivered(kernel, b) ==
  /\ kernel = "P1" /\ Enabled(b) => Holds(out.counts, b, TokensOf(b))
  /\ kernel = "P2" => IF b = 0 THEN IdsSorted ELSE ClearedBy(b - 1)
  /\ kernel = "P3" /\ Enabled(b) => ListSorted(b)
  /\ kernel = "P23" =>
       IF b >= input.experts THEN ClearedBy(b - input.experts)
       ELSE /\ b = 0 => IdsSorted
            /\ Enabled(b) => ListSorted(b)
            /\ Kept(b) => Holds(out.positions, b, StartAt(b))

\* a block of a kernel of the path has been done, in this launch or before
Past(s, b) == sorts > 0 \/ stage > s \/ (stage = s /\ at[b] = "done")

OutInv ==
  path # <<>> =>
    /\ out.cleared \subseteq 0..(BufWords - 1)
    /\ \A s \in DOMAIN path : \A b \in Blocks(path[s]) : Past(s, b) => Delivered(path[s], b)

\* Words written to a buffer are there, and the others stay.
LEMMA StoredHolds ==
  ASSUME NEW w, NEW buffer, NEW x, NEW v
  PROVE  /\ Holds(w, x, v) => Holds(Stored(w, buffer), x, v)
         /\ x \notin DOMAIN w /\ Holds(buffer, x, v) => Holds(Stored(w, buffer), x, v)
  BY DEF Holds, Stored

\* What the reference says changes only with the problem.
LEMMA SameReference ==
  ASSUME UNCHANGED input
  PROVE  /\ \A x : StartAt(x)' = StartAt(x)
         /\ \A t, e : TopkIdOf(t, e)' = TopkIdOf(t, e)
         /\ PadEntry' = PadEntry
         /\ \A e : LocalExpertId(e)' = LocalExpertId(e) /\ Kept(e)' = Kept(e)
<1>1. \A x : StartAt(x)' = StartAt(x)
  BY SameProblem DEF StartAt
<1>2. \A t, e : TopkIdOf(t, e)' = TopkIdOf(t, e)
  BY DEF TopkIdOf
<1>3. PadEntry' = PadEntry
  BY DEF PadEntry
<1>4. \A e : LocalExpertId(e)' = LocalExpertId(e)
  <2>1. \A e : Enabled(e)' = Enabled(e)
    BY SameProblem
  <2> QED BY <2>1 DEF LocalExpertId
<1>5. \A e : Kept(e)' = Kept(e)
  <2>1. \A e : EntriesOf(e)' = EntriesOf(e)
    BY DEF EntriesOf
  <2>2. \A e : Enabled(e)' = Enabled(e)
    BY SameProblem
  <2> QED BY <2>1, <2>2 DEF Kept
<1> QED BY <1>1, <1>2, <1>3, <1>4, <1>5

\* A list in another buffer is as it was.
LEMMA SortedStays ==
  ASSUME UNCHANGED input, NEW e
  PROVE  /\ out'.sorted = out.sorted => (ListSorted(e)' <=> ListSorted(e))
         /\ out'.expert_ids = out.expert_ids => (UnitsSorted(e)' <=> UnitsSorted(e))
         /\ out'.expert_ids = out.expert_ids /\ out'.total = out.total => (IdsSorted' <=> IdsSorted)
<1>1. ASSUME out'.sorted = out.sorted PROVE ListSorted(e)' <=> ListSorted(e)
  BY <1>1, SameReference, SameProblem DEF ListSorted, Holds
<1>2. ASSUME out'.expert_ids = out.expert_ids, NEW f PROVE UnitsSorted(f)' <=> UnitsSorted(f)
  BY <1>2, SameReference, SameProblem DEF UnitsSorted, Holds
<1>3. ASSUME out'.expert_ids = out.expert_ids, out'.total = out.total
      PROVE  IdsSorted' <=> IdsSorted
  <2>1. \A f : UnitsSorted(f)' <=> UnitsSorted(f)
    BY <1>2, <1>3
  <2>2. StartAt(input.experts)' = StartAt(input.experts)
    BY SameReference
  <2> QED BY <1>3, <2>1, <2>2, SameProblem DEF IdsSorted
<1> QED BY <1>1, <1>2, <1>3

\* The block of an expert puts its list in place and leaves the others.
LEMMA ListDelivered ==
  ASSUME input \in Inputs, UNCHANGED input, NEW c \in Experts, Enabled(c), RowShows(c),
         \A t \in Tokens : Names(t, c) => mesh[<<c, t>>] = TopkIdOf(t, c) + 1,
         out'.sorted = Stored(ListWrites(c, StartAt(c), StartAt(c + 1)), out.sorted)
  PROVE  /\ ListSorted(c)'
         /\ \A e \in Experts : Enabled(e) /\ ListSorted(e) => ListSorted(e)'
<1> DEFINE w == ListWrites(c, StartAt(c), StartAt(c + 1))
           new == Stored(w, out.sorted)
<1>1. /\ DOMAIN w \subseteq StartAt(c)..(StartAt(c + 1) - 1)
      /\ \A t \in Tokens : Names(t, c) => Holds(w, StartAt(c) + Named(c, t), Entry(t, TopkIdOf(t, c)))
      /\ \A x \in (StartAt(c) + TokensOf(c))..(StartAt(c + 1) - 1) : Holds(w, x, PadEntry)
  <2> DEFINE s == StartAt(c)
             end == StartAt(c + 1)
  <2>1. s \in Int /\ end \in Int /\ s + TokensOf(c) <= end
    BY ListWithin DEF StartAt
  <2> HIDE DEF s, end
  <2>2. /\ DOMAIN ListWrites(c, s, end) \subseteq s..(end - 1)
        /\ \A t \in Tokens : Names(t, c) =>
             Holds(ListWrites(c, s, end), s + Named(c, t), Entry(t, mesh[<<c, t>>] - 1))
        /\ \A x \in (s + TokensOf(c))..(end - 1) : Holds(ListWrites(c, s, end), x, PadEntry)
    BY <2>1, ListInPlace
  <2>3. \A t \in Tokens : Names(t, c) => mesh[<<c, t>>] - 1 = TopkIdOf(t, c)
    <3> SUFFICES ASSUME NEW t \in Tokens, Names(t, c) PROVE mesh[<<c, t>>] - 1 = TopkIdOf(t, c)
      OBVIOUS
    <3>1. PICK k \in TopkIds : input.ids[t][k] = c
      BY DEF Names
    <3>2. TopkIdOf(t, c) \in TopkIds
      BY <3>1 DEF TopkIdOf
    <3>3. TopkIdOf(t, c) \in Int /\ mesh[<<c, t>>] = TopkIdOf(t, c) + 1
      BY <3>2 DEF TopkIds
    <3> QED BY <3>3
  <2>4. \A t \in Tokens : Names(t, c) =>
          Holds(ListWrites(c, s, end), s + Named(c, t), Entry(t, TopkIdOf(t, c)))
    BY <2>2, <2>3
  <2> QED BY <2>2, <2>4 DEF s, end
<1> HIDE DEF w
<1>2. ListSorted(c)'
  <2>1. \A t \in Tokens : Names(t, c) =>
          Holds(new, StartAt(c) + Named(c, t), Entry(t, TopkIdOf(t, c)))
    BY <1>1, StoredHolds
  <2>2. \A x \in (StartAt(c) + TokensOf(c))..(StartAt(c + 1) - 1) : Holds(new, x, PadEntry)
    BY <1>1, StoredHolds
  <2>3. out'.sorted = new
    BY DEF w
  <2> HIDE DEF new
  <2> QED BY <2>1, <2>2, <2>3, SameReference, SameProblem DEF ListSorted
<1>3. ASSUME NEW e \in Experts, Enabled(e), ListSorted(e), e # c PROVE ListSorted(e)'
  <2>1. /\ StartAt(e) \in Nat /\ StartAt(e + 1) \in Nat
        /\ StartAt(e) + TokensOf(e) <= StartAt(e + 1)
        /\ StartAt(c) \in Nat /\ StartAt(c + 1) \in Nat
        /\ StartAt(c + 1) <= StartAt(e) \/ StartAt(e + 1) <= StartAt(c)
        /\ TokensOf(e) \in Nat
    BY <1>3, ListWithin, ListsApart, ListUnitsFit DEF StartAt
  <2>2. ASSUME NEW x \in StartAt(e)..(StartAt(e + 1) - 1), NEW v, Holds(out.sorted, x, v)
        PROVE  Holds(new, x, v)
    <3>1. x \notin StartAt(c)..(StartAt(c + 1) - 1)
      BY <2>1
    <3> QED BY <1>1, <2>2, <3>1, StoredHolds
  <2>3. ASSUME NEW t \in Tokens, Names(t, e)
        PROVE  StartAt(e) + Named(e, t) \in StartAt(e)..(StartAt(e + 1) - 1)
    <3>1. t \in Nat /\ t + 1 \in Nat /\ input.tokens \in Nat /\ t + 1 <= input.tokens
      BY Problem DEF Tokens
    <3>2. Named(e, t) \in Nat /\ Named(e, t + 1) = Named(e, t) + 1
      BY <2>3, <3>1, NamedStep
    <3>3. Named(e, t + 1) <= TokensOf(e)
      BY <3>1, NamedUpTo
    <3> QED BY <2>1, <3>2, <3>3
  <2>4. \A t \in Tokens : Names(t, e) =>
          Holds(new, StartAt(e) + Named(e, t), Entry(t, TopkIdOf(t, e)))
    BY <1>3, <2>2, <2>3 DEF ListSorted
  <2>5. \A x \in (StartAt(e) + TokensOf(e))..(StartAt(e + 1) - 1) : Holds(new, x, PadEntry)
    <3> TAKE x \in (StartAt(e) + TokensOf(e))..(StartAt(e + 1) - 1)
    <3>1. x \in StartAt(e)..(StartAt(e + 1) - 1)
      BY <2>1
    <3> QED BY <1>3, <2>2, <3>1 DEF ListSorted
  <2>6. out'.sorted = new
    BY DEF w
  <2> HIDE DEF new
  <2> QED BY <2>4, <2>5, <2>6, SameReference, SameProblem DEF ListSorted
<1> QED BY <1>2, <1>3

\* With no thread idle, lists are placed where the reference starts them.
LEMMA PlacedAt ==
  ASSUME input \in Inputs, NoIdleUnits, NEW x \in 0..input.experts
  PROVE  Placed(x) = StartAt(x)
BY NoneIdle, ListPlaced DEF StartAt

\* The first block of P2 or P23 numbers the experts of the units.
LEMMA IdsDelivered ==
  ASSUME input \in Inputs, UNCHANGED input, Tallied, NoEmptyLists, NoIdleUnits,
         out'.expert_ids = Stored(ExpertIdWrites, out.expert_ids),
         out'.total = Starts[input.experts]
  PROVE  IdsSorted'
<1> DEFINE new == Stored(ExpertIdWrites, out.expert_ids)
<1>1. out'.total = StartAt(input.experts)
  <2>1. Starts = [x \in 0..input.experts |-> Placed(x)]
    BY StartsFound
  <2>2. input.experts \in 0..input.experts
    BY Problem
  <2> QED BY <2>1, <2>2, PlacedAt
<1>2. ASSUME NEW e \in Experts, Enabled(e) PROVE UnitsSorted(e)'
  <2>1. \A u \in UnitStart[e]..(UnitStart[e + 1] - 1) : Holds(new, u, LocalExpertId(e))
    BY <1>2, IdsAre, StoredHolds
  <2>2. out'.expert_ids = new
    OBVIOUS
  <2> HIDE DEF new
  <2> QED BY <2>1, <2>2, SameReference, SameProblem DEF UnitsSorted
<1>3. StartAt(input.experts)' = StartAt(input.experts)
  BY SameReference
<1> QED BY <1>1, <1>2, <1>3, SameProblem DEF IdsSorted

\* A step leaves in place what was delivered.
Keeps ==
  /\ out.cleared \subseteq out'.cleared
  /\ \A e \in Experts : Enabled(e) /\ Holds(out.counts, e, TokensOf(e)) =>
       Holds(out'.counts, e, TokensOf(e))
  /\ IdsSorted => IdsSorted'
  /\ \A e \in Experts : Enabled(e) /\ ListSorted(e) => ListSorted(e)'
  /\ \A e \in Experts : Kept(e) /\ Holds(out.positions, e, StartAt(e)) =>
       Holds(out'.positions, e, StartAt(e))

\* The grids of the kernels.
LEMMA BlocksAre ==
  ASSUME input \in Inputs
  PROVE  /\ ZeroBlocks \in Nat /\ input.experts \in Nat \ {0}
         /\ Blocks("P1") = Experts /\ Blocks("P3") = Experts
         /\ Blocks("P2") = 0..ZeroBlocks
         /\ Blocks("P23") = 0..(input.experts + ZeroBlocks - 1)
         /\ \A b \in Blocks("P2") : b \in Nat
         /\ \A b \in Blocks("P23") : b \in Nat /\ (~(b >= input.experts) => b \in Experts)
<1>1. ZeroBlocks \in Nat /\ input.experts \in Nat \ {0}
  BY Problem, SortAssumption, CeilMultiple DEF ZeroBlocks
<1>2. /\ Blocks("P1") = Experts /\ Blocks("P3") = Experts
      /\ Blocks("P2") = 0..ZeroBlocks
      /\ Blocks("P23") = 0..(input.experts + ZeroBlocks - 1)
  BY DEF Blocks
<1> DEFINE z == ZeroBlocks
<1> HIDE DEF z
<1>3. \A b \in 0..z : b \in Nat
  OBVIOUS
<1>4. \A b \in 0..(input.experts + z - 1) : b \in Nat /\ (~(b >= input.experts) => b \in Experts)
  BY <1>1 DEF z, Experts
<1> QED BY <1>1, <1>2, <1>3, <1>4 DEF z

\* What a block has delivered, a step that keeps the outputs in place keeps.
LEMMA DeliveredStays ==
  ASSUME input \in Inputs, UNCHANGED input, Keeps,
         NEW kernel, NEW b \in Blocks(kernel), Delivered(kernel, b)
  PROVE  Delivered(kernel, b)'
<1>1. Experts' = Experts /\ TokensOf(b)' = TokensOf(b) /\ Enabled(b)' = Enabled(b)
      /\ StartAt(b)' = StartAt(b) /\ Kept(b)' = Kept(b)
  BY SameProblem, SameReference
<1>2. ASSUME NEW g, ClearedBy(g) PROVE ClearedBy(g)'
  BY <1>2 DEF ClearedBy, Keeps
<1>3. kernel = "P1" /\ Enabled(b) => Holds(out.counts, b, TokensOf(b))'
  <2> SUFFICES ASSUME kernel = "P1", Enabled(b) PROVE Holds(out.counts, b, TokensOf(b))'
    OBVIOUS
  <2>1. b \in Experts /\ Holds(out.counts, b, TokensOf(b))
    BY BlocksAre DEF Delivered
  <2>2. Holds(out'.counts, b, TokensOf(b))
    BY <2>1 DEF Keeps
  <2> QED BY <1>1, <2>2 DEF Holds
<1>4. kernel = "P2" => IF b = 0 THEN IdsSorted' ELSE ClearedBy(b - 1)'
  BY <1>2 DEF Delivered, Keeps
<1>5. kernel = "P3" /\ Enabled(b) => ListSorted(b)'
  BY BlocksAre DEF Delivered, Keeps
<1>6. kernel = "P23" =>
        IF b >= input.experts THEN ClearedBy(b - input.experts)'
        ELSE /\ b = 0 => IdsSorted'
             /\ Enabled(b) => ListSorted(b)'
             /\ Kept(b) => Holds(out.positions, b, StartAt(b))'
  <2> SUFFICES ASSUME kernel = "P23"
               PROVE IF b >= input.experts THEN ClearedBy(b - input.experts)'
                     ELSE /\ b = 0 => IdsSorted'
                          /\ Enabled(b) => ListSorted(b)'
                          /\ Kept(b) => Holds(out.positions, b, StartAt(b))'
    OBVIOUS
  <2>1. CASE b >= input.experts
    BY <1>2, <2>1 DEF Delivered
  <2>2. CASE ~(b >= input.experts)
    <3>1. b \in Experts
      BY <2>2, BlocksAre
    <3>2. /\ b = 0 => IdsSorted
          /\ Enabled(b) => ListSorted(b)
          /\ Kept(b) => Holds(out.positions, b, StartAt(b))
      BY <2>2 DEF Delivered
    <3>3. Kept(b) => Holds(out'.positions, b, StartAt(b))
      BY <3>1, <3>2 DEF Keeps
    <3>4. Kept(b) => Holds(out.positions, b, StartAt(b))'
      BY <1>1, <3>3 DEF Holds
    <3> QED BY <2>2, <3>1, <3>2, <3>4 DEF Keeps
  <2> QED BY <2>1, <2>2
<1> QED BY <1>1, <1>3, <1>4, <1>5, <1>6 DEF Delivered

\* A step that leaves the outputs alone keeps them in place.
LEMMA KeepsWhenSame ==
  ASSUME UNCHANGED <<input, out>>
  PROVE  Keeps
<1>1. UNCHANGED input /\ out' = out
  OBVIOUS
<1>2. (IdsSorted' <=> IdsSorted) /\ \A e : ListSorted(e)' <=> ListSorted(e)
  BY <1>1, SortedStays
<1> QED BY <1>1, <1>2 DEF Keeps

\* A block that gets on, and is done when it has delivered.
LEMMA BlockDelivers ==
  ASSUME MpInv, OutInv, path # <<>>, stage \in DOMAIN path, NEW b \in DOMAIN at,
         UNCHANGED <<input, path, stage, sorts>>,
         \A x \in DOMAIN at : x # b => at'[x] = at[x],
         Keeps, out'.cleared \subseteq 0..(BufWords - 1),
         NEW k, k = Kernel, at'[b] = "done" => Delivered(k, b)'
  PROVE  OutInv'
<1> SUFFICES ASSUME NEW s \in DOMAIN path, NEW x \in Blocks(path[s])', Past(s, x)'
             PROVE  Delivered(path[s], x)'
  BY DEF OutInv
<1>1. input \in Inputs /\ DOMAIN at = Blocks(Kernel)
  BY DEF MpInv, LaunchOK
<1>2. Blocks(path[s])' = Blocks(path[s])
  <2>1. Experts' = Experts
    BY SameProblem
  <2> QED BY <2>1 DEF Blocks
<1>3. CASE Past(s, x)
  <2>1. Delivered(path[s], x)
    BY <1>2, <1>3 DEF OutInv
  <2>2. Delivered(path[s], x)'
    <3>1. \A kk : x \in Blocks(kk) /\ Delivered(kk, x) => Delivered(kk, x)'
      BY <1>1, DeliveredStays
    <3>2. PICK kk : kk = path[s]
      OBVIOUS
    <3>3. Delivered(kk, x)'
      BY <1>2, <2>1, <3>1, <3>2
    <3>4. path'[s] = kk
      BY <3>2
    <3> QED BY <3>3, <3>4
  <2> QED BY <2>2
<1>4. CASE ~Past(s, x)
  <2>1. stage = s /\ at'[x] = "done" /\ at[x] # "done"
    BY <1>4 DEF Past
  <2>2. path[s] = Kernel /\ x \in DOMAIN at
    BY <1>1, <1>2, <2>1 DEF Kernel
  <2>3. x = b
    BY <2>1, <2>2
  <2>4. Delivered(k, x)' /\ path'[s] = k
    BY <2>1, <2>2, <2>3
  <2> QED BY <2>4
<1> QED BY <1>3, <1>4

\* A complete mesh holds the topk_ids of the tokens.
LEMMA MeshValues ==
  ASSUME input \in Inputs, MeshComplete, NEW e, NEW t \in Tokens, Names(t, e)
  PROVE  mesh[<<e, t>>] = TopkIdOf(t, e) + 1
<1>1. PICK k \in TopkIds : input.ids[t][k] = e
  BY DEF Names
<1>2. TopkIdOf(t, e) \in TopkIds /\ input.ids[t][TopkIdOf(t, e)] = e
  BY <1>1 DEF TopkIdOf
<1> QED BY <1>2 DEF MeshComplete, TopkIds

\* The steps of P0, and of P01 up to its counts, deliver nothing.
LEMMA MeshDelivers ==
  ASSUME MpInv, OutInv, NEW b \in DOMAIN at, P0(b) \/ P01Mesh(b) \/ P01Inc(b) \/ P01Count(b),
         UNCHANGED sorts
  PROVE  OutInv'
<1>1. UNCHANGED <<input, path, stage, sorts, out>> /\ stage \in DOMAIN path
      /\ Kernel \in {"P0", "P01"}
  BY DEF P0, P01Mesh, P01Inc, P01Count, Running
<1>2. \A x \in DOMAIN at : x # b => at'[x] = at[x]
  BY DEF P0, P01Mesh, P01Inc, P01Count, Finish
<1> SUFFICES ASSUME path # <<>> PROVE OutInv'
  BY <1>1 DEF OutInv
<1>3. Keeps /\ out'.cleared \subseteq 0..(BufWords - 1)
  BY <1>1, KeepsWhenSame DEF OutInv
<1>4. PICK k : k = Kernel
  OBVIOUS
<1>5. Delivered(k, b)'
  BY <1>1, <1>4 DEF Delivered
<1> QED BY <1>1, <1>2, <1>3, <1>4, <1>5, BlockDelivers

\* P1 counts the tokens of its expert, in every launch the same.
LEMMA CountDelivers ==
  ASSUME MpInv, TablesInv, OutOK, OutInv, NEW b \in DOMAIN at, P1(b), UNCHANGED sorts
  PROVE  OutInv'
<1>1. UNCHANGED <<input, path, stage, sorts>> /\ stage \in DOMAIN path /\ Kernel = "P1"
  BY DEF P1, Running
<1>2. \A x \in DOMAIN at : x # b => at'[x] = at[x]
  BY DEF P1, Finish
<1> SUFFICES ASSUME path # <<>> PROVE OutInv'
  BY <1>1 DEF OutInv
<1>3. input \in Inputs /\ path \in MpPaths /\ stage \in 1..(Len(path) + 1) /\ b \in Experts
      /\ LaunchOK
  BY <1>1, BlocksAre DEF MpInv, LaunchOK
<1>4. CountOf(b) = TokensOf(b)
  <2>1. stage = 2
    BY <1>1, <1>3, StageOf
  <2>2. RowShows(b)
    BY <1>3, <2>1, RowsShown
  <2> QED BY <1>3, <2>2, CountIsTokens
<1>5. PICK k : k = Kernel
  OBVIOUS
<1>6. CASE ~Enabled(b)
  <2>1. UNCHANGED <<input, out>>
    BY <1>1, <1>6 DEF P1
  <2>2. Keeps /\ out'.cleared \subseteq 0..(BufWords - 1)
    BY <2>1, KeepsWhenSame DEF OutInv
  <2>3. ~Enabled(b)'
    BY <1>1, <1>6, SameProblem
  <2>4. Delivered(k, b)'
    BY <1>1, <1>5, <2>3 DEF Delivered
  <2> QED BY <1>1, <1>2, <1>5, <2>2, <2>4, BlockDelivers
<1>7. CASE Enabled(b)
  <2> DEFINE w == [x \in {b} |-> TokensOf(b)]
  <2>1. /\ out'.counts = Stored(w, out.counts) /\ out'.sorted = out.sorted
        /\ out'.expert_ids = out.expert_ids /\ out'.total = out.total
        /\ out'.positions = out.positions /\ out'.cleared = out.cleared
    BY <1>4, <1>7 DEF P1, OutOK
  <2>2. Holds(w, b, TokensOf(b)) /\ \A e : e # b => e \notin DOMAIN w
    BY DEF Holds
  <2> HIDE DEF w
  <2>3. Holds(out'.counts, b, TokensOf(b))
    BY <2>1, <2>2, StoredHolds
  <2>4. \A e \in Experts : Holds(out.counts, e, TokensOf(e)) => Holds(out'.counts, e, TokensOf(e))
    <3> TAKE e \in Experts
    <3> QED BY <2>1, <2>2, <2>3, StoredHolds
  <2>5. (IdsSorted' <=> IdsSorted) /\ \A e : ListSorted(e)' <=> ListSorted(e)
    BY <1>1, <2>1, SortedStays
  <2>6. Keeps
    BY <2>1, <2>4, <2>5 DEF Keeps
  <2>7. out'.cleared \subseteq 0..(BufWords - 1)
    BY <2>1 DEF OutInv
  <2>8. Holds(out.counts, b, TokensOf(b))'
    BY <1>1, <2>3, SameProblem DEF Holds
  <2>9. Delivered(k, b)'
    BY <1>1, <1>5, <2>8 DEF Delivered
  <2> QED BY <1>1, <1>2, <1>5, <2>6, <2>7, <2>9, BlockDelivers
<1> QED BY <1>6, <1>7

\* The zeroing of moe_buf.
LEMMA ClearDelivers ==
  ASSUME MpInv, OutOK, OutInv, path # <<>>, NEW g, ClearBuffer(g), UNCHANGED input
  PROVE  Keeps /\ ClearedBy(g)' /\ out'.cleared \subseteq 0..(BufWords - 1)
<1> DEFINE mine == {x \in 0..(BufWords - 1) : x \div BlockThreads = g}
<1>1. /\ out'.cleared = out.cleared \union mine /\ out'.sorted = out.sorted
      /\ out'.expert_ids = out.expert_ids /\ out'.total = out.total
      /\ out'.positions = out.positions /\ out'.counts = out.counts
  BY DEF ClearBuffer, OutOK
<1>2. (IdsSorted' <=> IdsSorted) /\ \A e : ListSorted(e)' <=> ListSorted(e)
  BY <1>1, SortedStays
<1>3. mine \subseteq 0..(BufWords - 1) /\ out.cleared \subseteq 0..(BufWords - 1)
  BY DEF OutInv
<1>4. ClearedBy(g)'
  BY <1>1 DEF ClearedBy
<1> HIDE DEF mine
<1>5. Keeps
  BY <1>1, <1>2 DEF Keeps
<1> QED BY <1>1, <1>3, <1>4, <1>5

\* The first block of P2 or P23 numbers the units, and leaves the lists.
LEMMA StartDelivers ==
  ASSUME MpInv, TablesInv, OutOK, OutInv, NoEmptyLists, NoIdleUnits, NEW b \in DOMAIN at,
         P2(b), UNCHANGED sorts
  PROVE  OutInv'
<1>1. UNCHANGED <<input, path, stage, sorts>> /\ stage \in DOMAIN path /\ Kernel = "P2"
  BY DEF P2, Running
<1>2. \A x \in DOMAIN at : x # b => at'[x] = at[x]
  BY DEF P2, Finish
<1> SUFFICES ASSUME path # <<>> PROVE OutInv'
  BY <1>1 DEF OutInv
<1>3. input \in Inputs /\ path \in MpPaths /\ stage \in 1..(Len(path) + 1) /\ b \in Nat
  BY <1>1, BlocksAre DEF MpInv, LaunchOK
<1>4. PICK k : k = Kernel
  OBVIOUS
<1>5. CASE b > 0
  <2>1. ClearBuffer(b - 1)
    BY <1>5 DEF P2
  <2>2. Keeps /\ ClearedBy(b - 1)' /\ out'.cleared \subseteq 0..(BufWords - 1)
    BY <1>1, <2>1, ClearDelivers
  <2>3. Delivered(k, b)'
    BY <1>1, <1>4, <1>5, <2>2 DEF Delivered
  <2> QED BY <1>1, <1>2, <1>4, <2>2, <2>3, BlockDelivers
<1>6. CASE ~(b > 0)
  <2>1. b = 0
    BY <1>3, <1>6
  <2>2. /\ out'.expert_ids = Stored(ExpertIdWrites, out.expert_ids)
        /\ out'.total = Starts[input.experts]
        /\ out'.sorted = out.sorted /\ out'.cleared = out.cleared
        /\ out'.positions = out.positions /\ out'.counts = out.counts
    BY <1>6 DEF P2, OutOK
  <2>3. Tallied
    <3>1. stage = 3 /\ at[b] = "start"
      BY <1>1, <1>3, StageOf DEF P2
    <3>2. ~StartsStored
      BY <2>1, <3>1 DEF StartsStored
    <3>3. \A e \in Experts : CountedIn(e)
      BY <3>1 DEF CountedIn
    <3> QED BY <3>2, <3>3 DEF TablesInv, SumsInv, Tallied
  <2>4. IdsSorted'
    BY <1>1, <1>3, <2>2, <2>3, IdsDelivered
  <2>5. \A e : ListSorted(e)' <=> ListSorted(e)
    BY <1>1, <2>2, SortedStays
  <2>6. Keeps
    BY <2>2, <2>4, <2>5 DEF Keeps
  <2>7. out'.cleared \subseteq 0..(BufWords - 1)
    BY <2>2 DEF OutInv
  <2>8. Delivered(k, b)'
    BY <1>1, <1>4, <2>1, <2>4 DEF Delivered
  <2> QED BY <1>1, <1>2, <1>4, <2>6, <2>7, <2>8, BlockDelivers
<1> QED BY <1>5, <1>6

\* An expert whose list is left out has none.
LEMMA SkippedIsEmpty ==
  ASSUME input \in Inputs, NEW e \in Experts, Skipped(e, StartAt(e), StartAt(e + 1))
  PROVE  ~Kept(e) /\ (Enabled(e) => ListSorted(e))
<1>1. CASE ~Enabled(e)
  BY <1>1, KeptIs
<1>2. CASE Enabled(e)
  <2>1. /\ SkipExpertsWithZeroTokens /\ StartAt(e) = StartAt(e + 1)
        /\ StartAt(e) \in Nat /\ TokensOf(e) \in Nat /\ StartAt(e) + TokensOf(e) <= StartAt(e + 1)
    BY <1>2, ListWithin, ListUnitsFit DEF Skipped, StartAt
  <2>2. TokensOf(e) = 0
    BY <2>1
  <2>3. ASSUME NEW t \in Tokens PROVE ~Names(t, e)
    <3>1. t \in Nat /\ t + 1 \in Nat /\ input.tokens \in Nat /\ t + 1 <= input.tokens
      BY Problem DEF Tokens
    <3>2. Named(e, t) \in Nat /\ Named(e, t + 1) = Named(e, t) + IF Names(t, e) THEN 1 ELSE 0
      BY <3>1, NamedStep
    <3>3. Named(e, t + 1) <= TokensOf(e)
      BY <3>1, NamedUpTo
    <3> QED BY <2>2, <3>2, <3>3
  <2>4. (StartAt(e) + TokensOf(e))..(StartAt(e + 1) - 1) = {}
    BY <2>1, <2>2
  <2> QED BY <2>1, <2>2, <2>3, <2>4, KeptIs DEF ListSorted
<1> QED BY <1>1, <1>2

\* The block of an expert in P3 or P23: its list, unless it is left out.
LEMMA ListKeeps ==
  ASSUME MpInv, TablesInv, OutOK, path # <<>>, stage # 1, UNCHANGED input, NEW c \in Experts,
         out'.sorted = IF Skipped(c, StartAt(c), StartAt(c + 1)) THEN out.sorted
                       ELSE Stored(ListWrites(c, StartAt(c), StartAt(c + 1)), out.sorted)
  PROVE  /\ Enabled(c) => ListSorted(c)'
         /\ \A e \in Experts : Enabled(e) /\ ListSorted(e) => ListSorted(e)'
<1>1. input \in Inputs
  BY DEF MpInv, LaunchOK
<1>2. CASE Skipped(c, StartAt(c), StartAt(c + 1))
  <2>1. \A e : ListSorted(e)' <=> ListSorted(e)
    BY <1>2, SortedStays
  <2> QED BY <1>1, <1>2, <2>1, SkippedIsEmpty
<1>3. CASE ~Skipped(c, StartAt(c), StartAt(c + 1))
  <2>1. Enabled(c) /\ RowShows(c)
    BY <1>3, RowsShown DEF Skipped
  <2>2. MeshComplete
    BY CompleteIfEntered DEF HasEntered, First
  <2>3. \A t \in Tokens : Names(t, c) => mesh[<<c, t>>] = TopkIdOf(t, c) + 1
    BY <1>1, <2>2, MeshValues
  <2>4. out'.sorted = Stored(ListWrites(c, StartAt(c), StartAt(c + 1)), out.sorted)
    BY <1>3
  <2> QED BY <1>1, <2>1, <2>3, <2>4, ListDelivered
<1> QED BY <1>2, <1>3

\* A block of P3 delivers the list of its expert.
LEMMA P3Delivers ==
  ASSUME MpInv, TablesInv, OutOK, OutInv, NoIdleUnits, NEW b \in DOMAIN at, P3(b),
         UNCHANGED sorts
  PROVE  OutInv'
<1>1. UNCHANGED <<input, path, stage, sorts>> /\ stage \in DOMAIN path /\ Kernel = "P3"
  BY DEF P3, Running
<1>2. \A x \in DOMAIN at : x # b => at'[x] = at[x]
  BY DEF P3, Finish
<1> SUFFICES ASSUME path # <<>> PROVE OutInv'
  BY <1>1 DEF OutInv
<1>3. input \in Inputs /\ path \in MpPaths /\ stage \in 1..(Len(path) + 1) /\ b \in Experts
  BY <1>1, BlocksAre DEF MpInv, LaunchOK
<1>4. stage = 4 /\ Len(path) = 4
  BY <1>1, <1>3, StageOf
<1>5. expert_cumsum[b] = StartAt(b) /\ expert_cumsum[b + 1] = StartAt(b + 1)
  <2>1. b \in 0..input.experts /\ b + 1 \in 0..input.experts
    BY <1>3, Problem DEF Experts
  <2>2. StartsStored
    BY <1>4 DEF StartsStored
  <2> QED BY <1>3, <2>1, <2>2, PlacedAt DEF TablesInv, SumsInv
<1> DEFINE skip == Skipped(b, StartAt(b), StartAt(b + 1))
<1>6. /\ out'.sorted = (IF skip THEN out.sorted
                        ELSE Stored(ListWrites(b, StartAt(b), StartAt(b + 1)), out.sorted))
      /\ out'.expert_ids = out.expert_ids /\ out'.total = out.total
      /\ out'.positions = out.positions /\ out'.cleared = out.cleared /\ out'.counts = out.counts
  BY <1>5 DEF P3, OutOK
<1>7. /\ Enabled(b) => ListSorted(b)'
      /\ \A e \in Experts : Enabled(e) /\ ListSorted(e) => ListSorted(e)'
  BY <1>1, <1>3, <1>4, <1>6, ListKeeps
<1>8. IdsSorted' <=> IdsSorted
  BY <1>1, <1>6, SortedStays
<1> HIDE DEF skip
<1>9. Keeps
  BY <1>6, <1>7, <1>8 DEF Keeps
<1>10. out'.cleared \subseteq 0..(BufWords - 1)
  BY <1>6 DEF OutInv
<1>11. PICK k : k = Kernel
  OBVIOUS
<1>12. Delivered(k, b)'
  BY <1>1, <1>7, <1>11, SameProblem DEF Delivered
<1> QED BY <1>1, <1>2, <1>9, <1>10, <1>11, <1>12, BlockDelivers

\* A block of P23 does what one of P2 does, and one of P3.
LEMMA P23Delivers ==
  ASSUME MpInv, TablesInv, OutOK, OutInv, NoEmptyLists, NoIdleUnits, NEW b \in DOMAIN at,
         P23(b), UNCHANGED sorts
  PROVE  OutInv'
<1>1. UNCHANGED <<input, path, stage, sorts>> /\ stage \in DOMAIN path /\ Kernel = "P23"
  BY DEF P23, Running
<1>2. \A x \in DOMAIN at : x # b => at'[x] = at[x]
  BY DEF P23, Finish
<1> SUFFICES ASSUME path # <<>> PROVE OutInv'
  BY <1>1 DEF OutInv
<1>3. input \in Inputs /\ path \in MpPaths /\ stage \in 1..(Len(path) + 1)
      /\ b \in Nat /\ (~(b >= input.experts) => b \in Experts)
  BY <1>1, BlocksAre DEF MpInv, LaunchOK
<1>4. PICK k : k = Kernel
  OBVIOUS
<1>5. CASE b >= input.experts
  <2>1. ClearBuffer(b - input.experts)
    BY <1>5 DEF P23
  <2> DEFINE g == b - input.experts
  <2>2. ClearBuffer(g) /\ g' = g
    BY <1>1, <2>1
  <2> HIDE DEF g
  <2>3. Keeps /\ ClearedBy(g)' /\ out'.cleared \subseteq 0..(BufWords - 1)
    BY <1>1, <2>2, ClearDelivers
  <2>4. ClearedBy(b - input.experts)'
    BY <1>1, <2>2, <2>3 DEF g, ClearedBy
  <2>5. Delivered(k, b)'
    BY <1>1, <1>4, <1>5, <2>4 DEF Delivered
  <2> QED BY <1>1, <1>2, <1>4, <2>3, <2>5, BlockDelivers
<1>6. CASE ~(b >= input.experts)
  <2>1. b \in Experts /\ b \in 0..input.experts /\ b + 1 \in 0..input.experts
    BY <1>3, <1>6, Problem DEF Experts
  <2>2. stage = Len(path) /\ Len(path) \in {2, 3}
    BY <1>1, <1>3, StageOf
  <2>3. Tallied
    <3>1. \A e \in Experts : CountedIn(e)
      BY <1>1, <2>2 DEF CountedIn
    <3>2. ~StartsStored
      BY <2>2 DEF StartsStored
    <3> QED BY <3>1, <3>2 DEF TablesInv, SumsInv, Tallied
  <2>4. Starts[b] = StartAt(b) /\ Starts[b + 1] = StartAt(b + 1)
    <3>1. Starts = [x \in 0..input.experts |-> Placed(x)]
      BY <1>3, <2>3, StartsFound
    <3> QED BY <1>3, <2>1, <3>1, PlacedAt
  <2> DEFINE skip == Skipped(b, StartAt(b), StartAt(b + 1))
             w == [x \in {b} |-> StartAt(b)]
  <2>5. /\ out'.sorted = (IF skip THEN out.sorted
                          ELSE Stored(ListWrites(b, StartAt(b), StartAt(b + 1)), out.sorted))
        /\ out'.expert_ids = (IF b = 0 THEN Stored(ExpertIdWrites, out.expert_ids) ELSE out.expert_ids)
        /\ out'.total = (IF b = 0 THEN Starts[input.experts] ELSE out.total)
        /\ out'.positions = (IF skip THEN out.positions ELSE Stored(w, out.positions))
        /\ out'.cleared = out.cleared /\ out'.counts = out.counts
    <3> DEFINE s == StartAt(b)
               end == StartAt(b + 1)
    <3>1. out' = [out EXCEPT
            !.expert_ids = IF b = 0 THEN Stored(ExpertIdWrites, @) ELSE @,
            !.total = IF b = 0 THEN Starts[input.experts] ELSE @,
            !.positions = IF Skipped(b, s, end) THEN @ ELSE Stored([x \in {b} |-> s], @),
            !.sorted = IF Skipped(b, s, end) THEN @ ELSE Stored(ListWrites(b, s, end), @)]
      BY <1>6, <2>4 DEF P23
    <3> HIDE DEF s, end
    <3> DEFINE list == Stored(ListWrites(b, s, end), out.sorted)
               ids == Stored(ExpertIdWrites, out.expert_ids)
               places == Stored([x \in {b} |-> s], out.positions)
               total == Starts[input.experts]
               left == Skipped(b, s, end)
    <3>2. out' = [out EXCEPT !.expert_ids = IF b = 0 THEN ids ELSE @,
                             !.total = IF b = 0 THEN total ELSE @,
                             !.positions = IF left THEN @ ELSE places,
                             !.sorted = IF left THEN @ ELSE list]
      BY <3>1
    <3> HIDE DEF list, ids, places, total, left
    <3>3. /\ out'.sorted = (IF left THEN out.sorted ELSE list)
          /\ out'.expert_ids = (IF b = 0 THEN ids ELSE out.expert_ids)
          /\ out'.total = (IF b = 0 THEN total ELSE out.total)
          /\ out'.positions = (IF left THEN out.positions ELSE places)
          /\ out'.cleared = out.cleared /\ out'.counts = out.counts
      BY <3>2 DEF OutOK
    <3> QED BY <3>3 DEF list, ids, places, total, left, s, end
  <2>6. /\ Enabled(b) => ListSorted(b)'
        /\ \A e \in Experts : Enabled(e) /\ ListSorted(e) => ListSorted(e)'
    <3>1. out'.sorted = IF Skipped(b, StartAt(b), StartAt(b + 1)) THEN out.sorted
                        ELSE Stored(ListWrites(b, StartAt(b), StartAt(b + 1)), out.sorted)
      BY <2>5
    <3>2. stage # 1 /\ UNCHANGED input
      BY <1>1, <2>2
    <3> QED BY <2>1, <3>1, <3>2, ListKeeps
  <2>7. (b = 0 => IdsSorted') /\ (IdsSorted => IdsSorted')
    <3>1. CASE b = 0
      <4>1. IdsSorted'
        BY <1>1, <1>3, <2>3, <2>5, <3>1, IdsDelivered
      <4> QED BY <4>1
    <3>2. CASE b # 0
      <4>1. IdsSorted' <=> IdsSorted
        BY <1>1, <2>5, <3>2, SortedStays
      <4> QED BY <3>2, <4>1
    <3> QED BY <3>1, <3>2
  <2>8. Holds(w, b, StartAt(b)) /\ \A e : e # b => e \notin DOMAIN w
    BY DEF Holds
  <2>9. skip => ~Kept(b)
    BY <1>3, <2>1, SkippedIsEmpty
  <2> HIDE DEF w, skip
  <2>10. Kept(b) => Holds(out'.positions, b, StartAt(b))
    BY <2>5, <2>8, <2>9, StoredHolds
  <2>11. \A e \in Experts : Kept(e) /\ Holds(out.positions, e, StartAt(e)) =>
           Holds(out'.positions, e, StartAt(e))
    <3> SUFFICES ASSUME NEW e \in Experts, Kept(e), Holds(out.positions, e, StartAt(e))
                 PROVE  Holds(out'.positions, e, StartAt(e))
      OBVIOUS
    <3>1. CASE e = b
      BY <2>10, <3>1
    <3>2. CASE e # b
      BY <2>5, <2>8, <3>2, StoredHolds
    <3> QED BY <3>1, <3>2
  <2>12. Keeps
    BY <2>5, <2>6, <2>7, <2>11 DEF Keeps
  <2>13. out'.cleared \subseteq 0..(BufWords - 1)
    BY <2>5 DEF OutInv
  <2>14. Kept(b)' => Holds(out.positions, b, StartAt(b))'
    BY <1>1, <2>10, SameReference DEF Holds
  <2>15. Delivered(k, b)'
    BY <1>1, <1>4, <1>6, <2>6, <2>7, <2>14, SameProblem DEF Delivered
  <2> QED BY <1>1, <1>2, <1>4, <2>12, <2>13, <2>15, BlockDelivers
<1> QED BY <1>5, <1>6

\* The next kernel has delivered nothing yet, and the one before everything.
LEMMA NextDelivers ==
  ASSUME MpInv, OutInv, NextKernel, UNCHANGED sorts
  PROVE  OutInv'
<1>1. /\ UNCHANGED <<input, path, out, sorts>> /\ stage \in DOMAIN path /\ stage' = stage + 1
      /\ at' = StartOfKernel(stage + 1) /\ \A x \in DOMAIN at : at[x] = "done"
  BY DEF NextKernel
<1> SUFFICES ASSUME path # <<>>, NEW s \in DOMAIN path, NEW x \in Blocks(path[s]), Past(s, x)'
             PROVE  Delivered(path[s], x)'
  <2>1. \A k : Blocks(k)' = Blocks(k)
    BY <1>1, SameProblem DEF Blocks
  <2>2. path # <<>> => out'.cleared \subseteq 0..(BufWords - 1)
    BY <1>1 DEF OutInv
  <2> QED BY <1>1, <2>1, <2>2 DEF OutInv
<1>2. input \in Inputs /\ DOMAIN at = Blocks(Kernel) /\ stage \in Nat /\ s \in Nat
  BY <1>1 DEF MpInv, LaunchOK
<1>3. Past(s, x)
  <2>1. CASE stage = s
    <3>1. x \in DOMAIN at
      BY <1>2, <2>1 DEF Kernel
    <3> QED BY <1>1, <2>1, <3>1 DEF Past
  <2>2. CASE stage + 1 = s
    <3>1. at' = [b \in Blocks(path[s]) |-> "start"]
      BY <1>1, <2>2 DEF StartOfKernel
    <3>2. at'[x] # "done" /\ stage' = s
      BY <1>1, <2>2, <3>1
    <3> QED BY <1>1, <1>2, <3>2 DEF Past
  <2>3. CASE stage # s /\ stage + 1 # s
    BY <1>1, <1>2, <2>3 DEF Past
  <2> QED BY <2>1, <2>2, <2>3
<1>4. PICK k : k = path[s]
  OBVIOUS
<1>5. x \in Blocks(k) /\ Delivered(k, x)
  BY <1>3, <1>4 DEF OutInv
<1>6. Keeps
  BY <1>1, KeepsWhenSame
<1>7. Delivered(k, x)'
  BY <1>1, <1>2, <1>5, <1>6, DeliveredStays
<1>8. path'[s] = k
  BY <1>1, <1>4
<1> QED BY <1>7, <1>8

\* A further launch starts with everything delivered.
LEMMA AgainDelivers ==
  ASSUME MpInv, OutInv, Again
  PROVE  OutInv'
<1>1. UNCHANGED <<input, path, out>> /\ Finished
  BY DEF Again
<1> SUFFICES ASSUME path # <<>>, NEW s \in DOMAIN path, NEW x \in Blocks(path[s])
             PROVE  Delivered(path[s], x)'
  <2>1. \A k : Blocks(k)' = Blocks(k)
    BY <1>1, SameProblem DEF Blocks
  <2>2. path # <<>> => out'.cleared \subseteq 0..(BufWords - 1)
    BY <1>1 DEF OutInv
  <2> QED BY <1>1, <2>1, <2>2 DEF OutInv
<1>2. input \in Inputs /\ path \in MpPaths /\ stage = Len(path) + 1
  BY <1>1 DEF MpInv, LaunchOK, Finished
<1>3. Past(s, x)
  <2>1. Len(path) \in Nat /\ s \in 1..Len(path)
    BY <1>2 DEF MpPaths
  <2> QED BY <1>2, <2>1 DEF Past
<1>4. PICK k : k = path[s]
  OBVIOUS
<1>5. x \in Blocks(k) /\ Delivered(k, x)
  BY <1>3, <1>4 DEF OutInv
<1>6. Keeps
  BY <1>1, KeepsWhenSame
<1>7. Delivered(k, x)'
  BY <1>1, <1>2, <1>5, <1>6, DeliveredStays
<1>8. path'[s] = k
  BY <1>1, <1>4
<1> QED BY <1>7, <1>8

\* A step that changes no output, and no block, changes nothing delivered.
LEMMA OutStays ==
  ASSUME MpInv, OutInv, UNCHANGED <<input, out, path, stage, at, sorts>>
  PROVE  OutInv'
<1> SUFFICES ASSUME path # <<>>, NEW s \in DOMAIN path, NEW x \in Blocks(path[s]), Past(s, x)'
             PROVE  Delivered(path[s], x)'
  <2>1. \A k : Blocks(k)' = Blocks(k)
    BY SameProblem DEF Blocks
  <2>2. path # <<>> => out'.cleared \subseteq 0..(BufWords - 1)
    BY DEF OutInv
  <2> QED BY <2>1, <2>2 DEF OutInv
<1>1. input \in Inputs
  BY DEF MpInv, LaunchOK
<1>2. PICK k : k = path[s]
  OBVIOUS
<1>3. x \in Blocks(k) /\ Delivered(k, x)
  BY <1>2 DEF OutInv, Past
<1>4. Keeps
  BY KeepsWhenSame
<1>5. Delivered(k, x)'
  BY <1>1, <1>3, <1>4, DeliveredStays
<1>6. path'[s] = k
  BY <1>2
<1> QED BY <1>5, <1>6

\* At first nothing is delivered, and no block has been run.
LEMMA OutInit == Init => OutInv
<1> SUFFICES ASSUME Init, path # <<>> PROVE OutInv
  BY DEF OutInv
<1>1. /\ path \in MpPaths /\ stage = 1 /\ sorts = 0 /\ at = StartOfKernel(1) /\ out = FreshOut
  BY DEF Init, Paths, MpPaths
<1>2. out.cleared = {}
  BY <1>1 DEF FreshOut
<1>3. ASSUME NEW s \in DOMAIN path, NEW x \in Blocks(path[s]) PROVE ~Past(s, x)
  <2>1. s \in Nat /\ s >= 1 /\ 1 \in DOMAIN path
    BY <1>1 DEF MpPaths
  <2>2. at = [b \in Blocks(path[1]) |-> "start"]
    BY <1>1, <2>1 DEF StartOfKernel
  <2>3. s = 1 => at[x] # "done"
    BY <2>2
  <2> QED BY <1>1, <2>1, <2>3 DEF Past
<1> QED BY <1>2, <1>3 DEF OutInv

\* Every step of the multi-phase sort keeps what is delivered.
LEMMA OutInvStep ==
  ASSUME NoEmptyLists, NoIdleUnits, MpInv, TablesInv, OutOK, OutInv, [Next]_vars
  PROVE  OutInv'
<1>1. CASE MpNext /\ UNCHANGED <<exVars, sorts>>
  BY <1>1, MeshDelivers, CountDelivers, StartDelivers, P3Delivers, P23Delivers, NextDelivers
  DEF MpNext
<1>2. CASE ExNext /\ path = <<>> /\ UNCHANGED <<mpVars, sorts>>
  BY <1>2 DEF mpVars, OutInv
<1>3. CASE Again
  BY <1>3, AgainDelivers
<1>4. CASE UNCHANGED vars
  BY <1>4, OutStays DEF vars, mpVars
<1> QED BY <1>1, <1>2, <1>3, <1>4 DEF Next, Terminated

\* The blocks of the zeroing are enough for all words.
LEMMA ZeroBlocksCover ==
  ASSUME NEW x \in 0..(BufWords - 1)
  PROVE  x \div BlockThreads \in 0..(ZeroBlocks - 1)
<1>1. BufWords \in Nat /\ BlockThreads \in Nat \ {0} /\ x \in Nat /\ x < BufWords
  BY SortAssumption, RowSizes
<1> DEFINE q == IntegerDivideCeil(BufWords, BlockThreads)
<1>2. q \in Nat /\ BufWords <= q * BlockThreads
  BY <1>1, CeilMultiple
<1>3. x < BlockThreads * q
  <2> HIDE DEF q
  <2> QED BY <1>1, <1>2
<1>4. x \div BlockThreads < q
  <2> HIDE DEF q
  <2> QED BY <1>1, <1>2, <1>3, DivRange
<1>5. x \div BlockThreads \in Nat
  BY <1>1, DivMod
<1>6. x \div BlockThreads \in 0..(q - 1)
  <2> DEFINE d == x \div BlockThreads
  <2> HIDE DEF q, d
  <2>1. d \in Nat /\ q \in Nat /\ d < q
    BY <1>2, <1>4, <1>5 DEF d
  <2>2. d \in 0..(q - 1)
    BY <2>1
  <2> QED BY <2>2 DEF d
<1> QED BY <1>6 DEF ZeroBlocks

\* When the last kernel has finished, the outputs are those of the reference.
LEMMA DeliveredAtEnd ==
  ASSUME MpInv, OutInv, path # <<>>, Finished
  PROVE  SortedOnExit
<1>1. input \in Inputs /\ path \in MpPaths /\ stage = Len(path) + 1
  BY DEF MpInv, LaunchOK, Finished
<1>2. ASSUME NEW s \in DOMAIN path, NEW x \in Blocks(path[s]) PROVE Delivered(path[s], x)
  <2>1. Len(path) \in Nat /\ s \in 1..Len(path)
    BY <1>1 DEF MpPaths
  <2>2. Past(s, x)
    BY <1>1, <2>1 DEF Past
  <2> QED BY <2>2 DEF OutInv
<1>3. ASSUME NEW k \in {path[s] : s \in DOMAIN path}, NEW x \in Blocks(k) PROVE Delivered(k, x)
  BY <1>2
<1> DEFINE kernels == {path[s] : s \in DOMAIN path}
<1>4. \/ kernels = {"P0", "P1", "P2", "P3"}
      \/ kernels = {"P0", "P1", "P23"}
      \/ kernels = {"P01", "P23"}
  <2>1. CASE path = <<"P0", "P1", "P2", "P3">>
    <3>1. DOMAIN path = {1, 2, 3, 4}
      BY <2>1
    <3> QED BY <2>1, <3>1
  <2>2. CASE path = <<"P0", "P1", "P23">>
    <3>1. DOMAIN path = {1, 2, 3}
      BY <2>2
    <3> QED BY <2>2, <3>1
  <2>3. CASE path = <<"P01", "P23">>
    <3>1. DOMAIN path = {1, 2}
      BY <2>3
    <3> QED BY <2>3, <3>1
  <2> QED BY <1>1, <2>1, <2>2, <2>3 DEF MpPaths
<1>5. Range(path) = kernels
  BY DEF Range
<1> HIDE DEF kernels
<1>6. \A k \in kernels : \A x \in Blocks(k) : Delivered(k, x)
  BY <1>3 DEF kernels
<1>7. /\ ZeroBlocks \in Nat /\ input.experts \in Nat \ {0}
      /\ 0 \in Blocks("P2") /\ 0 \in Blocks("P23") /\ Experts \subseteq Blocks("P23")
      /\ \A g \in 0..(ZeroBlocks - 1) : g + 1 \in Blocks("P2")
            /\ g + input.experts \in Blocks("P23")
  <2>1. ZeroBlocks \in Nat /\ input.experts \in Nat \ {0}
    BY <1>1, BlocksAre
  <2> DEFINE z == ZeroBlocks
             n == input.experts
  <2>2. Blocks("P2") = 0..z /\ Blocks("P23") = 0..(n + z - 1) /\ Experts = 0..(n - 1)
    BY <1>1, BlocksAre DEF Experts
  <2>3. z \in Nat /\ n \in Nat \ {0}
    BY <2>1
  <2> HIDE DEF z, n
  <2>4. /\ 0 \in 0..z /\ 0 \in 0..(n + z - 1) /\ 0..(n - 1) \subseteq 0..(n + z - 1)
        /\ \A g \in 0..(z - 1) : g + 1 \in 0..z /\ g + n \in 0..(n + z - 1)
    BY <2>3
  <2> QED BY <2>1, <2>2, <2>4 DEF z, n
<1>8. IdsSorted
  <2>1. CASE "P2" \in kernels
    <3>1. Delivered("P2", 0)
      BY <1>6, <1>7, <2>1
    <3> QED BY <3>1 DEF Delivered
  <2>2. CASE "P23" \in kernels
    <3>1. Delivered("P23", 0) /\ ~(0 >= input.experts)
      BY <1>6, <1>7, <2>2
    <3> QED BY <3>1 DEF Delivered
  <2> QED BY <1>4, <2>1, <2>2
<1>9. \A e \in Experts : Enabled(e) => ListSorted(e)
  <2> SUFFICES ASSUME NEW e \in Experts, Enabled(e) PROVE ListSorted(e)
    OBVIOUS
  <2>1. CASE "P3" \in kernels
    <3>1. Delivered("P3", e)
      BY <1>1, <1>6, <2>1, BlocksAre
    <3> QED BY <3>1 DEF Delivered
  <2>2. CASE "P23" \in kernels
    <3>1. Delivered("P23", e) /\ ~(e >= input.experts)
      BY <1>6, <1>7, <2>2 DEF Experts
    <3> QED BY <3>1 DEF Delivered
  <2> QED BY <1>4, <2>1, <2>2
<1>10. ListsAreReference
  <2>1. ListsSorted
    BY <1>8, <1>9 DEF IdsSorted, ListsSorted
  <2> QED BY <1>1, <2>1, SortedIsReference
<1>11. out.cleared = 0..(BufWords - 1)
  <2>1. out.cleared \subseteq 0..(BufWords - 1)
    BY DEF OutInv
  <2>2. ASSUME NEW x \in 0..(BufWords - 1) PROVE x \in out.cleared
    <3> DEFINE g == x \div BlockThreads
    <3>1. g \in 0..(ZeroBlocks - 1)
      BY ZeroBlocksCover
    <3> HIDE DEF g
    <3>2. g \in Nat
      <4> DEFINE z == ZeroBlocks
      <4>1. g \in 0..(z - 1)
        BY <3>1
      <4> HIDE DEF z
      <4> QED BY <4>1
    <3>3. ClearedBy(g)
      <4>1. CASE "P2" \in kernels
        <5>1. Delivered("P2", g + 1)
          BY <1>6, <1>7, <3>1, <4>1
        <5>2. g + 1 # 0 /\ (g + 1) - 1 = g
          BY <3>2
        <5>3. ClearedBy((g + 1) - 1)
          BY <5>1, <5>2 DEF Delivered
        <5> QED BY <5>2, <5>3
      <4>2. CASE "P23" \in kernels
        <5>1. Delivered("P23", g + input.experts) /\ g + input.experts >= input.experts
              /\ (g + input.experts) - input.experts = g
          BY <1>6, <1>7, <3>1, <4>2
        <5>2. ClearedBy((g + input.experts) - input.experts)
          BY <5>1 DEF Delivered
        <5> QED BY <5>1, <5>2
      <4> QED BY <1>4, <4>1, <4>2
    <3> QED BY <3>3 DEF ClearedBy, g
  <2> QED BY <2>1, <2>2
<1>12. "P01" \notin Range(path) => CountsAreReference
  <2> SUFFICES ASSUME "P01" \notin kernels, NEW e \in Experts, Enabled(e)
               PROVE  e \in DOMAIN out.counts /\ out.counts[e] = Len(EntriesOf(e))
    BY <1>5 DEF CountsAreReference
  <2>1. Delivered("P1", e)
    BY <1>1, <1>4, <1>6, BlocksAre
  <2>2. Holds(out.counts, e, TokensOf(e))
    BY <2>1 DEF Delivered
  <2>3. Len(EntriesOf(e)) = TokensOf(e)
    BY <1>1, EntriesAre
  <2> QED BY <2>2, <2>3 DEF Holds
<1>13. ASSUME "P23" \in Range(path), NEW e \in Experts, Kept(e)
       PROVE  out.positions[e] = RefStart(e)
  <2>1. Delivered("P23", e) /\ ~(e >= input.experts)
    BY <1>5, <1>6, <1>7, <1>13 DEF Experts
  <2>2. Holds(out.positions, e, StartAt(e))
    BY <1>13, <2>1 DEF Delivered
  <2>3. RefStart(e) = StartAt(e)
    <3>1. e \in 0..input.experts
      BY <1>7 DEF Experts
    <3> QED BY <1>1, <3>1, ReferenceIs
  <2> QED BY <2>2, <2>3 DEF Holds
<1> QED BY <1>10, <1>11, <1>12, <1>13 DEF SortedOnExit

(* Whatever the problem, the grid and the order of blocks, the kernels of  *)
(* the multi-phase sort leave what the host compares with the reference:   *)
(* the lists, the experts of the units and the total, and what it does not *)
(* compare: the counts, the positions and the cleared buffer.  Launched    *)
(* again over their own workspace and outputs, they leave it again.  When  *)
(* experts without tokens are kept, this needs that there are none, and no *)
(* thread without an expert that adds a unit to the total.                 *)
THEOREM MultiPhaseSorts ==
  ASSUME NoEmptyLists, NoIdleUnits
  PROVE  Spec => [](path # <<>> => SortedOnExit)
<1>1. Init => MpInv /\ TablesInv /\ OutOK /\ OutInv
  BY MpInit, TablesInit, OutInit
<1>2. MpInv /\ TablesInv /\ OutOK /\ OutInv /\ [Next]_vars
        => (MpInv /\ TablesInv /\ OutOK /\ OutInv)'
  BY MpStep, TablesStep, OutStep, OutInvStep
<1>3. MpInv /\ OutInv => (path # <<>> => SortedOnExit)
  BY DeliveredAtEnd DEF SortedOnExit
<1> QED BY <1>1, <1>2, <1>3, PTL DEF Spec

(***************************************************************************)
(* One block.  What its waves have got, and what they have delivered.      *)
(***************************************************************************)
\* the topk_ids that wave w finds of row s of its round: those read so far
\* while waves load, all of them when the lists are filled
Found(w, s, e) ==
  \/ pc[w] = "load2" /\ Loaded(w, s, e)
  \/ SubTokenOneShot /\ pc[w] = "load" /\ Loaded(w, s, e)
  \/ pc[w] = "fill" /\ Names(i_token[w] + s, e)
  \/ SubTokenOneShot /\ pc[w] \in {"count", "scan", "ids"} /\ Names(i_token[w] + s, e)

\* cells show them
CellsShow(w) ==
  \A s \in Rows, e \in Experts :
    Found(w, s, e) => smem_tokens[<<s, e>>] = TopkIdOf(i_token[w] + s, e) + 1

\* a start has moved on by the tokens that are listed
StartsExact(w) ==
  pc[w] \in AfterScan => \A e \in GroupExpertsOf(w) :
    smem_cumsum[e] = StartAt(e) + IF Enabled(e) THEN Named(e, ListedBy(w)) ELSE 0

\* the numbers of the experts, until the units are named
NumbersKept(w) ==
  input.masking =>
    /\ (pc[w] = "count" /\ waiting[w]) \/ (pc[w] = "scan" /\ ~waiting[0]) => smem_cumdup[0] = 0
    /\ pc[w] = "scan" /\ waiting[0] =>
         \A x \in 0..input.experts : smem_cumdup[x] = LocalExpertId(x)
    /\ pc[w] = "ids" => \A e \in ThreadExpertsOf(w) : smem_cumdup[e] = LocalExpertId(e)

\* and the starts from then on
StartsCopied(w) ==
  pc[w] \in AfterScan \ {"ids"} =>
    \A x \in ThreadExpertsOf(w) \union {input.experts} : smem_cumdup[x] = StartAt(x)

GotInv(w) == CellsShow(w) /\ StartsExact(w) /\ NumbersKept(w) /\ StartsCopied(w)

\* what a wave has done in this launch
HasCounted(w) == (pc[w] = "count" /\ waiting[w]) \/ pc[w] \in {"scan"} \union AfterScan
Scanned(w) == (pc[w] = "scan" /\ waiting[w]) \/ pc[w] \in AfterScan
UnitsNamed(w) == pc[w] \in AfterScan \ {"ids"}
Listed(w, t) == pc[w] \in AfterScan /\ t < ListedBy(w)
Filled(w) == (pc[w] = "fill" /\ waiting[w]) \/ pc[w] \in {"pad", "done"}

\* A token names an expert by one topk_id.
LEMMA OneTopkId ==
  ASSUME input \in Inputs, NEW t \in Tokens, NEW k \in TopkIds, NEW e, input.ids[t][k] = e
  PROVE  TopkIdOf(t, e) = k /\ Names(t, e)
<1>1. \A l \in TopkIds : input.ids[t][l] = e => l = k
  BY Problem DEF TopkIds
<1> QED BY <1>1 DEF TopkIdOf, Names

\* What shows when an expert is entered by number.
LEMMA EnteredNumber ==
  ASSUME input \in Inputs, BlockOK, NEW w \in Waves, NEW s \in Rows, NEW e \in Experts,
         ReadBy(w, s, e)
  PROVE  Entered(w, FALSE)[<<s, e>>] = TopkIdOf(i_token[w] + s, e) + 1
<1> DEFINE picks(c) == {sk \in PairsRead(w) :
                          sk[1] = c[1] /\ input.ids[i_token[w] + sk[1]][sk[2]] = c[2]}
           T == picks(<<s, e>>)
           one(S) == CHOOSE sk \in S : TRUE
           t == i_token[w] + s
<1>1. <<s, e>> \in DOMAIN smem_tokens
  BY DEF BlockOK
<1>2. \A b \in BOOLEAN :
        Entered(w, b) = [c \in DOMAIN smem_tokens |->
                           IF picks(c) = {} THEN smem_tokens[c]
                           ELSE IF b THEN smem_tokens[c] + 1 ELSE one(picks(c))[2] + 1]
  BY DEF Entered
<1>3. \A b \in BOOLEAN :
        Entered(w, b)[<<s, e>>] = IF T = {} THEN smem_tokens[<<s, e>>]
                                  ELSE IF b THEN smem_tokens[<<s, e>>] + 1 ELSE one(T)[2] + 1
  <2> HIDE DEF picks, one
  <2> QED BY <1>1, <1>2
<1>4. t \in Tokens /\ t < input.tokens
  <2>1. i_token[w] \in Nat /\ s \in Nat /\ input.tokens \in Nat
    BY Problem DEF BlockOK, Tokens, Rows
  <2> QED BY <2>1 DEF Tokens, ReadBy
<1>5. \A sk : sk \in T <=> /\ sk \in Rows \X TopkIds /\ sk[1] = s
                           /\ Reads(w, sk[1], sk[2]) /\ i_token[w] + sk[1] < input.tokens
                           /\ input.ids[i_token[w] + sk[1]][sk[2]] = e
  BY DEF PairsRead, Reads, Rows, TopkIds
<1>6. T # {}
  <2>1. PICK k \in TopkIds : input.ids[t][k] = e /\ Reads(w, s, k)
    BY DEF ReadBy
  <2>2. <<s, k>> \in T
    <3> HIDE DEF T
    <3> QED BY <1>4, <1>5, <2>1
  <2> QED BY <2>2
<1>7. one(T)[2] = TopkIdOf(t, e)
  <2>1. one(T) \in T
    BY <1>6
  <2> DEFINE sk == one(T)
  <2> HIDE DEF T, one, sk
  <2>2. sk \in T
    BY <2>1 DEF sk
  <2>3. sk[1] = s /\ sk[2] \in TopkIds /\ input.ids[t][sk[2]] = e
    BY <1>5, <2>2
  <2>4. TopkIdOf(t, e) = sk[2]
    BY <1>4, <2>3, OneTopkId
  <2> QED BY <2>4 DEF sk
<1> HIDE DEF T, one, picks, t
<1>8. Entered(w, FALSE)[<<s, e>>] = one(T)[2] + 1
  <2>1. FALSE \in BOOLEAN
    OBVIOUS
  <2> QED BY <1>3, <1>6, <2>1
<1> QED BY <1>7, <1>8 DEF t

\* Cells show what they did.
LEMMA ShownStays ==
  ASSUME UNCHANGED <<input, sub_tokens>>, NEW u \in Waves, CellsShow(u),
         \A s \in Rows, e \in Experts : Found(u, s, e)' =>
           Found(u, s, e) /\ i_token'[u] = i_token[u]
                 /\ smem_tokens'[<<s, e>>] = smem_tokens[<<s, e>>]
  PROVE  CellsShow(u)'
<1> SUFFICES ASSUME NEW s \in Rows, NEW e \in Experts, Found(u, s, e)'
             PROVE  smem_tokens'[<<s, e>>] = TopkIdOf(i_token[u] + s, e)' + 1
  BY SameBlock, SameProblem DEF CellsShow
<1>1. Found(u, s, e) /\ i_token'[u] = i_token[u] /\ smem_tokens'[<<s, e>>] = smem_tokens[<<s, e>>]
  OBVIOUS
<1>2. smem_tokens[<<s, e>>] = TopkIdOf(i_token[u] + s, e) + 1
  BY <1>1 DEF CellsShow
<1>3. TopkIdOf(i_token[u] + s, e)' = TopkIdOf(i_token[u] + s, e)
  BY <1>1 DEF TopkIdOf
<1> QED BY <1>1, <1>2, <1>3

\* Loading by number.
LEMMA EnterShows ==
  ASSUME WavesInv, BlockOK, NEW w \in Waves, ~waiting[w], Arrive(w),
         smem_tokens' = Entered(w, FALSE), pc[w] = "load2" \/ (SubTokenOneShot /\ pc[w] = "load"),
         UNCHANGED <<input, sub_tokens>>,
         NEW u \in Waves, CellsShow(u)
  PROVE  CellsShow(u)'
<1>1. /\ UNCHANGED <<pc, i_token>> /\ pc[u] = pc[w] /\ i_token[u] = i_token[w] /\ input \in Inputs
  BY SamePiece DEF Arrive, WavesInv
<1> SUFFICES ASSUME NEW s \in Rows, NEW e \in Experts, Found(u, s, e)'
             PROVE  smem_tokens'[<<s, e>>] = TopkIdOf(i_token[u] + s, e)' + 1
  BY SameBlock, SameProblem DEF CellsShow
<1>2. Loaded(u, s, e)'
  BY <1>1 DEF Found
<1>3. Loaded(u, s, e) \/ ReadBy(w, s, e)
  BY <1>2, LoadedBy
<1>4. TopkIdOf(i_token[u] + s, e)' = TopkIdOf(i_token[u] + s, e)
  BY <1>1 DEF TopkIdOf
<1>5. CASE ReadBy(w, s, e)
  BY <1>1, <1>4, <1>5, EnteredNumber
<1>6. CASE ~ReadBy(w, s, e)
  <2>1. smem_tokens'[<<s, e>>] = smem_tokens[<<s, e>>]
    BY <1>1, <1>6, EnteredCells
  <2>2. Found(u, s, e)
    BY <1>1, <1>3, <1>6 DEF Found
  <2> QED BY <1>4, <2>1, <2>2 DEF CellsShow
<1> QED BY <1>5, <1>6

\* Rows that show all their tokens count them.
LEMMA ShownExact ==
  ASSUME input \in Inputs, sub_tokens \in Nat, NEW e, NEW first \in Nat,
         \A s \in Rows : smem_tokens[<<s, e>>] # 0 <=> Names(first + s, e),
         NEW P, Runs(P, ShownIn(e), sub_tokens)
  PROVE  \A k \in 0..sub_tokens : P[k] = Named(e, first + k) - Named(e, first)
<1> DEFINE N(k) == Named(e, first + k)
           S == {k \in Nat : k <= sub_tokens => P[k] = N(k) - N(0)}
<1>1. ASSUME NEW k \in Nat
      PROVE  N(k) \in Nat /\ N(k + 1) = N(k) + IF Names(first + k, e) THEN 1 ELSE 0
  <2>1. first + k \in Nat /\ first + (k + 1) = (first + k) + 1
    OBVIOUS
  <2> QED BY <2>1, NamedStep
<1>2. N(0) = Named(e, first)
  <2>1. first + 0 = first
    OBVIOUS
  <2> QED BY <2>1
<1> HIDE DEF N
<1>3. 0 \in S
  <2>1. P[0] = 0 /\ N(0) \in Nat
    BY <1>1 DEF Runs
  <2> QED BY <2>1
<1>4. ASSUME NEW k \in Nat, k \in S PROVE k + 1 \in S
  <2> SUFFICES ASSUME k + 1 <= sub_tokens PROVE P[k + 1] = N(k + 1) - N(0)
    OBVIOUS
  <2>1. k \in Rows /\ P[k] = N(k) - N(0)
    BY <1>4 DEF Rows
  <2>2. P[k + 1] = P[k] + IF smem_tokens[<<k, e>>] # 0 THEN 1 ELSE 0
    BY <2>1 DEF Rows, Runs, ShownIn
  <2>3. smem_tokens[<<k, e>>] # 0 <=> Names(first + k, e)
    BY <2>1
  <2>4. /\ N(k) \in Nat /\ N(0) \in Nat
        /\ N(k + 1) = N(k) + IF Names(first + k, e) THEN 1 ELSE 0
    BY <1>1
  <2> QED BY <2>1, <2>2, <2>3, <2>4
<1>5. \A k \in 0..sub_tokens : P[k] = N(k) - N(0)
  <2> HIDE DEF S
  <2>1. Nat \subseteq S
    BY <1>3, <1>4, SetInduction
  <2> QED BY <2>1 DEF S
<1> QED BY <1>2, <1>5 DEF N

\* Where a wave lists the tokens of one of its experts: behind those before.
LEMMA FilledExactly ==
  ASSUME WavesInv, BlockSound, NEW w \in Waves, CellsShow(w), StartsExact(w), At(w, "fill"),
         NEW e \in FillExpertsOf(w)
  PROVE  /\ smem_cumsum[e] = StartAt(e) + Named(e, i_token[w])
         /\ \A s \in Rows :
              /\ smem_tokens[<<s, e>>] # 0 <=> Names(i_token[w] + s, e)
              /\ Names(i_token[w] + s, e) =>
                   /\ smem_tokens[<<s, e>>] = TopkIdOf(i_token[w] + s, e) + 1
                   /\ Positions(w)[<<s, e>>] - 1 = StartAt(e) + Named(e, i_token[w] + s)
         /\ Positions(w)[<<sub_tokens - 1, e>>] = StartAt(e) + Named(e, i_token[w] + sub_tokens)
<1> DEFINE i == i_token[w]
           n == sub_tokens
           a == StartAt(e)
           N(k) == Named(e, i + k)
<1>1. /\ pc[w] = "fill" /\ ~waiting[w] /\ input \in Inputs /\ BlockOK
      /\ e \in GroupExpertsOf(w) /\ Enabled(e) /\ e \in Experts
  BY DEF At, WavesInv, BlockSound, FillExpertsOf, GroupExpertsOf
<1>2. n \in Nat \ {0} /\ n % LaneGroup = 0 /\ i \in Nat /\ Rows = 0..(n - 1)
  BY <1>1 DEF BlockOK, Tokens, Rows
<1>3. smem_cumsum[e] = a + Named(e, i)
  <2>1. ListedBy(w) = i
    BY <1>1 DEF ListedBy
  <2> HIDE DEF a, i
  <2> QED BY <1>1, <2>1 DEF StartsExact, AfterScan, a
<1>4. ASSUME NEW s \in Rows
      PROVE  /\ smem_tokens[<<s, e>>] # 0 <=> Names(i + s, e)
             /\ Names(i + s, e) => smem_tokens[<<s, e>>] = TopkIdOf(i + s, e) + 1
  <2>1. smem_tokens[<<s, e>>] # 0 => Names(i + s, e)
    BY <1>1 DEF BlockSound, CellsInv, CellsSound
  <2>2. Names(i + s, e) => smem_tokens[<<s, e>>] = TopkIdOf(i + s, e) + 1
    BY <1>1 DEF CellsShow, Found
  <2>3. Names(i + s, e) => TopkIdOf(i + s, e) + 1 # 0
    <3> SUFFICES ASSUME Names(i + s, e) PROVE TopkIdOf(i + s, e) \in Nat
      OBVIOUS
    <3>1. TopkIdOf(i + s, e) \in TopkIds
      BY DEF Names, TopkIdOf
    <3> QED BY <3>1 DEF TopkIds
  <2> QED BY <2>1, <2>2, <2>3
<1>5. PICK P : Runs(P, ShownIn(e), n)
  <2> DEFINE F == ShownIn(e)
  <2>1. \A s \in 0..(n - 1) : F[s] \in Int
    BY DEF ShownIn, Rows
  <2> HIDE DEF F, n
  <2>2. \E P : Runs(P, F, n)
    BY <1>2, <2>1, RunsExist
  <2> QED BY <2>2 DEF F
<1>6. a \in Nat
  BY <1>1, StartsWithin
<1>7. \A k \in Nat : N(k) \in Nat /\ N(k + 1) = N(k) + IF Names(i + k, e) THEN 1 ELSE 0
  <2> TAKE k \in Nat
  <2>1. i + k \in Nat /\ i + (k + 1) = (i + k) + 1
    BY <1>2
  <2> HIDE DEF i
  <2> QED BY <1>1, <2>1, NamedStep
<1>8. Named(e, i) = N(0) /\ N(0) \in Nat
  <2>1. i + 0 = i
    BY <1>2
  <2> HIDE DEF i
  <2> QED BY <1>7, <2>1
<1>9. \A s \in Rows : Positions(w)[<<s, e>>] = smem_cumsum[e] + P[s + 1]
  <2>1. smem_cumsum[e] \in Int
    <3> HIDE DEF a, i, N
    <3> QED BY <1>3, <1>6, <1>8
  <2>2. sub_tokens \in Nat \ {0} /\ sub_tokens % LaneGroup = 0
        /\ Runs(P, ShownIn(e), sub_tokens) /\ input \in Inputs
    BY <1>1, <1>2, <1>5
  <2> QED BY <2>1, <2>2, PositionsAre
<1>10. \A k \in 0..n : P[k] = N(k) - Named(e, i)
  <2>1. \A s \in Rows : smem_tokens[<<s, e>>] # 0 <=> Names(i + s, e)
    BY <1>4
  <2> HIDE DEF i
  <2> QED BY <1>1, <1>2, <1>5, <2>1, ShownExact
<1> HIDE DEF a, N, i, n
<1>11. ASSUME NEW s \in Rows
       PROVE  Positions(w)[<<s, e>>] = a + N(s + 1)
  <2>1. s \in Nat /\ s + 1 \in 0..n /\ s + 1 \in Nat
    BY <1>2
  <2>2. P[s + 1] = N(s + 1) - N(0) /\ N(s + 1) \in Nat
    BY <1>7, <1>8, <1>10, <2>1
  <2>3. Positions(w)[<<s, e>>] = a + N(0) + P[s + 1]
    BY <1>3, <1>8, <1>9
  <2> QED BY <1>6, <1>8, <2>2, <2>3
<1>12. ASSUME NEW s \in Rows, Names(i + s, e)
       PROVE  Positions(w)[<<s, e>>] - 1 = a + N(s)
  <2>1. s \in Nat
    BY <1>2
  <2>2. N(s + 1) = N(s) + 1 /\ N(s) \in Nat
    BY <1>7, <1>12, <2>1
  <2>3. Positions(w)[<<s, e>>] = a + N(s + 1)
    BY <1>11
  <2> QED BY <1>6, <2>2, <2>3
<1>13. Positions(w)[<<n - 1, e>>] = a + N(n)
  <2>1. n - 1 \in Rows /\ (n - 1) + 1 = n
    BY <1>2
  <2> QED BY <1>11, <2>1
<1> QED BY <1>3, <1>4, <1>12, <1>13 DEF a, N, i, n

AllGot == \A w \in Waves : GotInv(w)

\* A wave arrives at a barrier, and has not touched the starts.
LEMMA ArriveGot ==
  ASSUME WavesInv, NEW w \in Waves, Arrive(w), pc[w] \notin {"count", "scan", "fill"},
         UNCHANGED <<input, sub_tokens, smem_cumsum, smem_cumdup>>,
         NEW u \in Waves, GotInv(u)
  PROVE  StartsExact(u)' /\ NumbersKept(u)' /\ StartsCopied(u)'
<1>1. UNCHANGED <<pc, i_token>> /\ \A v \in Waves : v # w => waiting'[v] = waiting[v]
  BY DEF Arrive, WavesInv
<1>2. pc[u] \notin {"count", "scan"}
  BY SamePiece
<1>3. ListedBy(u)' = ListedBy(u)
  <2>1. pc[u] = "fill" => u # w
    OBVIOUS
  <2> QED BY <1>1, <2>1 DEF ListedBy
<1>4. StartsExact(u)'
  BY <1>1, <1>3, SameBlock, SameProblem DEF GotInv, StartsExact
<1>5. NumbersKept(u)'
  BY <1>1, <1>2, SameBlock, SameProblem, SameReference DEF GotInv, NumbersKept
<1>6. StartsCopied(u)'
  BY <1>1, SameBlock, SameProblem DEF GotInv, StartsCopied
<1> QED BY <1>4, <1>5, <1>6

\* Cells are cleared when nothing is to be found in them.
LEMMA ClearGot ==
  ASSUME WavesInv, BlockSound, AllGot, NEW w \in Waves, NEW point \in {"clear", "clear2"},
         Clear(w, point), UNCHANGED <<input, sub_tokens>>
  PROVE  AllGot'
<1>1. pc[w] = point /\ ~waiting[w] /\ Arrive(w) /\ UNCHANGED <<smem_cumsum, smem_cumdup>>
  BY DEF Clear, At
<1>2. UNCHANGED pc
  BY <1>1 DEF Arrive
<1> SUFFICES ASSUME NEW u \in Waves PROVE GotInv(u)'
  BY DEF AllGot
<1>3. GotInv(u)
  BY DEF AllGot
<1>4. \A s, e : ~Found(u, s, e)'
  <2>1. pc[u] \notin {"load", "count", "scan", "load2"}
    BY <1>1, SamePiece
  <2>2. pc[u] # "fill"
    BY <1>1, SamePiece
  <2>3. ~(SubTokenOneShot /\ pc[u] = "ids")
    BY <1>1, SamePiece
  <2>4. SubTokenOneShot' = SubTokenOneShot
    BY SameBlock
  <2> QED BY <1>2, <2>1, <2>2, <2>3, <2>4 DEF Found
<1>5. CellsShow(u)'
  BY <1>4 DEF CellsShow
<1> QED BY <1>1, <1>3, <1>5, ArriveGot DEF GotInv

\* Both loads.
LEMMA LoadGot ==
  ASSUME WavesInv, BlockSound, AllGot, NEW w \in Waves, Load(w) \/ Load2(w),
         UNCHANGED <<input, sub_tokens>>
  PROVE  AllGot'
<1>1. /\ pc[w] \in {"load", "load2"} /\ ~waiting[w] /\ Arrive(w)
      /\ UNCHANGED <<smem_cumsum, smem_cumdup>>
      /\ SubTokenOneShot \/ pc[w] = "load2" => smem_tokens' = Entered(w, FALSE)
  BY DEF Load, Load2, At
<1> SUFFICES ASSUME NEW u \in Waves PROVE GotInv(u)'
  BY DEF AllGot
<1>2. GotInv(u) /\ BlockOK
  BY DEF AllGot, BlockSound
<1>3. CellsShow(u)'
  <2>1. CASE SubTokenOneShot \/ pc[w] = "load2"
    BY <1>1, <1>2, <2>1, EnterShows DEF GotInv
  <2>2. CASE ~SubTokenOneShot /\ pc[w] = "load"
    <3>1. pc'[u] = "load" /\ ~SubTokenOneShot'
      BY <1>1, <2>2, SamePiece, SameBlock DEF Arrive
    <3>2. \A s, e : ~Found(u, s, e)'
      BY <3>1 DEF Found
    <3> QED BY <3>2 DEF CellsShow
  <2> QED BY <1>1, <2>1, <2>2
<1> QED BY <1>1, <1>2, <1>3, ArriveGot DEF GotInv

\* A wave counts.
LEMMA CountGot ==
  ASSUME WavesInv, BlockSound, AllGot, NEW w \in Waves, Count(w), UNCHANGED <<input, sub_tokens>>
  PROVE  AllGot'
<1>1. /\ pc[w] = "count" /\ ~waiting[w] /\ Arrive(w) /\ UNCHANGED smem_tokens
      /\ smem_cumdup' =
           IF ~input.masking THEN smem_cumdup
           ELSE [x \in DOMAIN smem_cumdup |->
                   IF x = 0 THEN 0
                   ELSE IF x - 1 \in ThreadExpertsOf(w) THEN input.mask[x - 1] ELSE smem_cumdup[x]]
  BY DEF Count, At
<1>2. UNCHANGED <<pc, i_token>>
  BY <1>1 DEF Arrive
<1> SUFFICES ASSUME NEW u \in Waves PROVE GotInv(u)'
  BY DEF AllGot
<1>3. pc[u] = "count" /\ GotInv(u) /\ BlockOK
  BY <1>1, SamePiece DEF AllGot, BlockSound
<1>4. CellsShow(u)'
  <2>1. \A s, e : Found(u, s, e)' => Found(u, s, e)
    BY <1>2, <1>3, SameBlock, SameProblem DEF Found
  <2> QED BY <1>1, <1>2, <1>3, <2>1, ShownStays DEF GotInv
<1>5. StartsExact(u)' /\ StartsCopied(u)'
  BY <1>2, <1>3 DEF StartsExact, StartsCopied, AfterScan
<1>6. NumbersKept(u)'
  <2>1. input.masking => smem_cumdup'[0] = 0
    <3>1. 0 \in DOMAIN smem_cumdup
      BY <1>3, Problem DEF WavesInv, BlockOK
    <3> QED BY <1>1, <3>1
  <2> QED BY <1>2, <1>3, <2>1 DEF NumbersKept
<1> QED BY <1>4, <1>5, <1>6 DEF GotInv

\* The first wave replaces the mask by the numbers of the experts.
LEMMA NumbersAre ==
  ASSUME WavesInv, BlockOK, Scan(0), input.masking, \A u \in Waves : CountStored(u), smem_cumdup[0] = 0
  PROVE  \A x \in 0..input.experts : smem_cumdup'[x] = LocalExpertId(x)
<1> DEFINE n == input.experts
           f == [e \in Experts |-> smem_cumdup[e + 1]]
           h == [e \in Experts |-> MaskOf(e)]
           M == [x \in 0..n |-> LocalExpertId(x)]
           upTo == BlockCumsum(f, n, 1)
<1>1. input \in Inputs /\ n \in Nat \ {0} /\ Experts = 0..(n - 1) /\ DOMAIN smem_cumdup = 0..n
  BY Problem DEF Experts, WavesInv, BlockOK
<1>2. smem_cumdup' = [x \in 0..n |-> IF x = 0 THEN smem_cumdup[x] ELSE upTo[x - 1]]
  BY <1>1 DEF Scan
<1>3. f = h
  <2>1. ASSUME NEW e \in Experts PROVE smem_cumdup[e + 1] = MaskOf(e)
    <3>1. smem_cumdup[e + 1] = input.mask[e]
      BY <1>1, WavesCover DEF CountStored
    <3> QED BY <1>1, <3>1, MaskCounts
  <2> QED BY <2>1
<1>4. Runs(M, h, n)
  BY <1>1, MaskCounts
<1>5. \A e \in 0..(n - 1) : h[e] \in Int
  <2>1. \A e \in Experts : MaskOf(e) \in Int
    BY <1>1, MaskCounts
  <2> QED BY <1>1, <2>1
<1> HIDE DEF f, h, M, n
<1>6. upTo = [i \in 0..(n - 1) |-> M[i + 1]]
  <2>1. 1 \in Nat \ {0} /\ n \in Nat
    BY <1>1
  <2> QED BY <1>3, <1>4, <1>5, <2>1, BlockPrefix
<1> HIDE DEF upTo
<1> SUFFICES ASSUME NEW x \in 0..n PROVE smem_cumdup'[x] = LocalExpertId(x)
  BY DEF n
<1>7. M[x] = LocalExpertId(x)
  BY DEF M
<1>8. CASE x = 0
  <2>1. LocalExpertId(0) = 0
    BY <1>1, LocalIds
  <2> QED BY <1>2, <1>8, <2>1
<1>9. CASE x # 0
  <2>1. x - 1 \in 0..(n - 1) /\ (x - 1) + 1 = x
    BY <1>1, <1>9
  <2>2. upTo[x - 1] = M[(x - 1) + 1]
    BY <1>6, <2>1
  <2> QED BY <1>2, <1>7, <1>9, <2>1, <2>2
<1> QED BY <1>8, <1>9

\* The first wave sums up, and the others wait.
LEMMA ScanGot ==
  ASSUME WavesInv, BlockSound, AllGot, NEW w \in Waves, Scan(w), UNCHANGED <<input, sub_tokens>>
  PROVE  AllGot'
<1>1. /\ pc[w] = "scan" /\ ~waiting[w] /\ Arrive(w) /\ UNCHANGED smem_tokens
      /\ w # 0 => UNCHANGED <<smem_cumsum, smem_cumdup>>
  BY DEF Scan, At
<1>2. /\ UNCHANGED <<pc, i_token>> /\ \A v \in Waves : v # w => waiting'[v] = waiting[v]
      /\ waiting'[w]
  BY <1>1 DEF Arrive, WavesInv
<1>3. 0 \in Waves /\ (\A u \in Waves : pc[u] = "scan" /\ GotInv(u)) /\ BlockOK
  BY <1>1, SamePiece, RowSizes DEF Waves, AllGot, BlockSound
<1> SUFFICES ASSUME NEW u \in Waves PROVE GotInv(u)'
  BY DEF AllGot
<1>4. CellsShow(u)'
  <2>1. \A s, e : Found(u, s, e)' => Found(u, s, e)
    BY <1>2, <1>3, SameBlock, SameProblem DEF Found
  <2> QED BY <1>1, <1>2, <1>3, <2>1, ShownStays DEF GotInv
<1>5. StartsExact(u)' /\ StartsCopied(u)'
  BY <1>2, <1>3 DEF StartsExact, StartsCopied, AfterScan
<1>6. NumbersKept(u)'
  <2> SUFFICES ASSUME input.masking
               PROVE  /\ ~waiting'[0] => smem_cumdup'[0] = 0
                      /\ waiting'[0] => \A x \in 0..input.experts : smem_cumdup'[x] = LocalExpertId(x)
    BY <1>2, <1>3, SameReference DEF NumbersKept
  <2>1. ~waiting[0] => smem_cumdup[0] = 0
    BY <1>3 DEF GotInv, NumbersKept
  <2>2. CASE w = 0
    <3>1. \A v \in Waves : CountStored(v)
      BY <1>1, <1>3, <2>2 DEF BlockSound, StartsInv
    <3> QED BY <1>1, <1>2, <1>3, <2>1, <2>2, <3>1, NumbersAre
  <2>3. CASE w # 0
    BY <1>1, <1>2, <1>3, <2>1, <2>3 DEF GotInv, NumbersKept
  <2> QED BY <2>2, <2>3
<1> QED BY <1>4, <1>5, <1>6 DEF GotInv

\* The total that it tells.
LEMMA TotalTold ==
  ASSUME WavesInv, BlockSound, Scan(0), OutOK
  PROVE  out'.total = StartAt(input.experts)
<1> DEFINE n == input.experts
           upTo == BlockCumsum([e \in Experts |-> PaddedTokensIn(e)], n, 1)
<1>1. n \in Nat \ {0} /\ DOMAIN smem_cumsum = 0..n /\ n \in 0..n /\ 0 \in Waves
  BY Problem, RowSizes DEF WavesInv, Waves
<1>2. /\ out'.total = upTo[n - 1]
      /\ smem_cumsum' = [x \in DOMAIN smem_cumsum |-> IF x = 0 THEN smem_cumsum[x] ELSE upTo[x - 1]]
      /\ pc[0] = "scan" /\ ~waiting[0]
  BY DEF Scan, At, OutOK
<1>3. \A u \in Waves : CountStored(u)
  BY <1>1, <1>2, SamePiece DEF BlockSound, StartsInv
<1>4. smem_cumsum'[n] = StartAt(n)
  BY <1>1, <1>3, ScanIs
<1> HIDE DEF upTo, n
<1> QED BY <1>1, <1>2, <1>4 DEF n

\* While a wave reads where its lists start, they start where they shall.
LEMMA StartsUnmoved ==
  ASSUME WavesInv, BlockSound, AllGot, OneRoundSmall, NEW w \in Waves, pc[w] = "ids"
  PROVE  /\ smem_cumsum[input.experts] = StartAt(input.experts)
         /\ \A e \in ThreadExpertsOf(w) :
              smem_cumsum[e] = StartAt(e) /\ smem_cumsum[e + 1] = StartAt(e + 1)
<1>1. input \in Inputs /\ BlockOK /\ i_token[w] = 0 /\ input.experts \in Nat \ {0}
  BY Problem DEF WavesInv, BlockSound, BlockOK, InRounds
<1>2. smem_cumsum[input.experts] = StartAt(input.experts)
  BY DEF BlockSound, StartsInv, StartsMoved, AfterScan
<1>3. ASSUME NEW e \in ThreadExpertsOf(w), NEW x \in Experts PROVE smem_cumsum[x] = StartAt(x)
  <2>1. PICK v \in Waves : x \in GroupExpertsOf(v)
    BY <1>1, WavesCover
  <2>2. /\ pc[v] \in {"ids", "clear2", "fill"} /\ i_token[v] = 0 /\ pc[v] \in AfterScan
        /\ ~SubTokenOneShot => pc[v] # "fill"
    BY <1>1, SamePiece DEF AfterScan
  <2>3. SubTokenOneShot => v = w
    <3> SUFFICES ASSUME SubTokenOneShot PROVE v = 0 /\ w = 0
      OBVIOUS
    <3>1. input.experts <= GroupsPerWave
      BY DEF OneRoundSmall
    <3> QED BY <1>1, <2>1, <3>1, FirstWaveHasAll
  <2>4. ListedBy(v) = 0
    BY <2>2, <2>3 DEF ListedBy
  <2>5. Named(x, 0) = 0
    <3>1. 0 \in Nat
      OBVIOUS
    <3> QED BY <1>1, <3>1, NamedStep
  <2>6. smem_cumsum[x] = StartAt(x) + IF Enabled(x) THEN Named(x, ListedBy(v)) ELSE 0
    BY <2>1, <2>2 DEF AllGot, GotInv, StartsExact
  <2>7. StartAt(x) \in Nat
    BY <1>1, StartsWithin
  <2> HIDE DEF StartAt
  <2> QED BY <2>4, <2>5, <2>6, <2>7
<1>4. ASSUME NEW e \in ThreadExpertsOf(w)
      PROVE  smem_cumsum[e] = StartAt(e) /\ smem_cumsum[e + 1] = StartAt(e + 1)
  <2>1. e \in Experts /\ (e + 1 = input.experts \/ e + 1 \in Experts)
    BY <1>1 DEF ThreadExpertsOf, Experts
  <2> QED BY <1>2, <1>3, <2>1
<1> QED BY <1>2, <1>4

\* A wave names the expert of the units of its lists, and keeps the starts.
LEMMA IdsGot ==
  ASSUME WavesInv, BlockSound, AllGot, OneRoundSmall, NEW w \in Waves, Ids(w),
         UNCHANGED <<input, sub_tokens>>
  PROVE  AllGot'
<1> DEFINE E == input.experts
<1>1. /\ pc[w] = "ids" /\ ~waiting[w] /\ GoTo(w, PieceAfterIds)
      /\ UNCHANGED <<smem_tokens, smem_cumsum>>
      /\ smem_cumdup' = [x \in DOMAIN smem_cumdup |->
           IF x \in ThreadExpertsOf(w) \union {E} THEN smem_cumsum[x] ELSE smem_cumdup[x]]
  BY DEF Ids, At, UpdatedAt
<1>2. /\ UNCHANGED <<waiting, i_token>> /\ pc'[w] = PieceAfterIds
      /\ \A v \in Waves : v # w => pc'[v] = pc[v]
  BY <1>1 DEF GoTo, WavesInv
<1>3. PieceAfterIds = IF SubTokenOneShot THEN "fill" ELSE "clear2"
  BY DEF PieceAfterIds
<1>4. input \in Inputs /\ BlockOK /\ E \in Nat \ {0}
  BY Problem DEF BlockSound, WavesInv
<1> SUFFICES ASSUME NEW u \in Waves PROVE GotInv(u)'
  BY DEF AllGot
<1>5. GotInv(u) /\ pc[u] \in {"ids", "clear2", "fill"} /\ pc'[u] \in {"ids", "clear2", "fill"}
  BY <1>1, <1>2, <1>3, SamePiece DEF AllGot
<1>6. CellsShow(u)'
  <2>1. \A s, e : Loaded(u, s, e)' = Loaded(u, s, e)
    BY <1>2, SameProblem DEF Loaded
  <2>2. \A s, e : Found(u, s, e)' => Found(u, s, e)
    BY <1>1, <1>2, <1>3, <1>5, <2>1, SameBlock, SameProblem DEF Found
  <2> QED BY <1>1, <1>2, <1>5, <2>2, ShownStays DEF GotInv
<1>7. StartsExact(u)'
  <2>1. ListedBy(u)' = ListedBy(u)
    BY <1>1, <1>2, <1>3 DEF ListedBy
  <2>2. StartsExact(u) /\ pc[u] \in AfterScan
    BY <1>5 DEF GotInv, AfterScan
  <2> QED BY <1>1, <2>1, <2>2, SameBlock, SameProblem DEF StartsExact
<1>8. ASSUME NEW e \in ThreadExpertsOf(u), u # w PROVE smem_cumdup'[e] = smem_cumdup[e]
  <2>1. e \in DOMAIN smem_cumdup /\ e # E
    BY <1>4 DEF ThreadExpertsOf, Experts, BlockOK
  <2>2. e \notin ThreadExpertsOf(w)
    BY <1>8, ThreadsApart DEF ThreadExpertsOf
  <2> QED BY <1>1, <2>1, <2>2
<1>9. NumbersKept(u)'
  <2> SUFFICES ASSUME input.masking, pc'[u] = "ids", NEW e \in ThreadExpertsOf(u)
               PROVE  smem_cumdup'[e] = LocalExpertId(e)
    BY <1>5, SameBlock, SameProblem, SameReference DEF NumbersKept
  <2>1. u # w /\ pc[u] = "ids"
    BY <1>2, <1>3
  <2>2. smem_cumdup[e] = LocalExpertId(e)
    BY <1>5, <2>1 DEF GotInv, NumbersKept
  <2> QED BY <1>8, <2>1, <2>2
<1>10. StartsCopied(u)'
  <2> SUFFICES ASSUME pc'[u] # "ids", NEW x \in ThreadExpertsOf(u) \union {E}
               PROVE  smem_cumdup'[x] = StartAt(x)
    BY SameBlock DEF StartsCopied
  <2>1. x \in DOMAIN smem_cumdup
    BY <1>4 DEF ThreadExpertsOf, Experts, BlockOK
  <2>2. CASE x = E
    BY <1>1, <2>1, <2>2, StartsUnmoved
  <2>3. CASE x \in ThreadExpertsOf(w)
    BY <1>1, <2>1, <2>3, StartsUnmoved
  <2>4. CASE x # E /\ x \notin ThreadExpertsOf(w)
    <3>1. u # w /\ x \in ThreadExpertsOf(u) /\ pc[u] \in AfterScan \ {"ids"}
      BY <1>2, <1>5, <2>4 DEF AfterScan
    <3>2. smem_cumdup[x] = StartAt(x)
      BY <1>5, <3>1 DEF GotInv, StartsCopied
    <3> QED BY <1>8, <3>1, <3>2
  <2> QED BY <2>2, <2>3, <2>4
<1> QED BY <1>6, <1>7, <1>9, <1>10 DEF GotInv

\* A wave fills up what is left of its lists.
LEMMA PadGot ==
  ASSUME WavesInv, BlockSound, AllGot, NEW w \in Waves, Pad(w), UNCHANGED <<input, sub_tokens>>
  PROVE  AllGot'
<1>1. /\ pc[w] = "pad" /\ ~waiting[w] /\ GoTo(w, "done")
      /\ UNCHANGED <<smem_tokens, smem_cumsum, smem_cumdup>>
  BY DEF Pad, At, smemVars
<1>2. /\ UNCHANGED <<waiting, i_token>> /\ pc'[w] = "done"
      /\ \A v \in Waves : v # w => pc'[v] = pc[v]
  BY <1>1 DEF GoTo, WavesInv
<1> SUFFICES ASSUME NEW u \in Waves PROVE GotInv(u)'
  BY DEF AllGot
<1>3. GotInv(u) /\ pc[u] \in {"pad", "done"} /\ pc'[u] \in {"pad", "done"}
  BY <1>1, <1>2, SamePiece DEF AllGot
<1>4. CellsShow(u)' /\ NumbersKept(u)'
  BY <1>3 DEF CellsShow, Found, NumbersKept
<1>5. ListedBy(u)' = ListedBy(u)
  BY <1>3 DEF ListedBy
<1>6. StartsExact(u)' /\ StartsCopied(u)'
  BY <1>1, <1>3, <1>5, SameBlock, SameProblem DEF GotInv, StartsExact, StartsCopied, AfterScan
<1> QED BY <1>4, <1>6 DEF GotInv

\* A wave lists the tokens of its experts: its starts move on by them.
LEMMA FillGot ==
  ASSUME WavesInv, BlockSound, AllGot, NEW w \in Waves, Fill(w), UNCHANGED <<input, sub_tokens>>
  PROVE  AllGot'
<1> DEFINE F == FillExpertsOf(w)
           upTo == Positions(w)
<1>1. /\ At(w, "fill") /\ pc[w] = "fill" /\ ~waiting[w] /\ Arrive(w)
      /\ UNCHANGED <<smem_tokens, smem_cumdup>>
      /\ smem_cumsum' = [x \in DOMAIN smem_cumsum |->
                           IF x \in F THEN upTo[<<sub_tokens - 1, x>>] ELSE smem_cumsum[x]]
  BY DEF Fill, At, UpdatedAt
<1>2. /\ UNCHANGED <<pc, i_token>> /\ \A v \in Waves : v # w => waiting'[v] = waiting[v]
      /\ waiting'[w]
  BY <1>1 DEF Arrive, WavesInv
<1> SUFFICES ASSUME NEW u \in Waves PROVE GotInv(u)'
  BY DEF AllGot
<1>3. GotInv(u) /\ pc[u] \in {"ids", "clear2", "fill"}
  BY <1>1, SamePiece DEF AllGot
<1>4. CellsShow(u)'
  <2>1. \A s, e : Found(u, s, e)' => Found(u, s, e)
    BY <1>2, <1>3, SameBlock, SameProblem DEF Found
  <2> QED BY <1>1, <1>2, <1>3, <2>1, ShownStays DEF GotInv
<1>5. NumbersKept(u)' /\ StartsCopied(u)'
  BY <1>1, <1>2, <1>3, SameBlock, SameProblem, SameReference DEF GotInv, NumbersKept, StartsCopied
<1>6. ASSUME NEW e \in GroupExpertsOf(u)
      PROVE  smem_cumsum'[e] = StartAt(e) + IF Enabled(e) THEN Named(e, ListedBy(u)') ELSE 0
  <2>1. e \in DOMAIN smem_cumsum
    BY Problem DEF GroupExpertsOf, Experts, WavesInv
  <2>2. CASE e \in F
    <3>1. u = w /\ Enabled(e)
      BY <2>2, GroupsApart DEF F, FillExpertsOf
    <3>2. ListedBy(u)' = i_token[w] + sub_tokens
      BY <1>1, <1>2, <3>1 DEF ListedBy
    <3>3. smem_cumsum'[e] = upTo[<<sub_tokens - 1, e>>]
      BY <1>1, <2>1, <2>2
    <3>4. upTo[<<sub_tokens - 1, e>>] = StartAt(e) + Named(e, i_token[w] + sub_tokens)
      BY <1>1, <1>3, <2>2, <3>1, FilledExactly DEF GotInv
    <3> HIDE DEF upTo
    <3> QED BY <3>1, <3>2, <3>3, <3>4
  <2>3. CASE e \notin F
    <3>1. smem_cumsum'[e] = smem_cumsum[e]
      BY <1>1, <2>1, <2>3
    <3>2. smem_cumsum[e] = StartAt(e) + IF Enabled(e) THEN Named(e, ListedBy(u)) ELSE 0
      BY <1>3 DEF GotInv, StartsExact, AfterScan
    <3>3. CASE u = w
      <4>1. ~Enabled(e)
        BY <2>3, <3>3 DEF F, FillExpertsOf
      <4> QED BY <3>1, <3>2, <4>1
    <3>4. CASE u # w
      <4>1. ListedBy(u)' = ListedBy(u)
        BY <1>2, <3>4 DEF ListedBy
      <4> QED BY <3>1, <3>2, <4>1
    <3> QED BY <3>3, <3>4
  <2> QED BY <2>2, <2>3
<1>7. StartsExact(u)'
  BY <1>6, SameBlock, SameProblem DEF StartsExact
<1> QED BY <1>4, <1>5, <1>7 DEF GotInv

\* A step that leaves LDS and the waves alone.
LEMMA GotStays ==
  ASSUME AllGot, UNCHANGED <<input, exVars>>
  PROVE  AllGot'
<1>1. UNCHANGED <<sub_tokens, pc, waiting, i_token, smem_tokens, smem_cumsum, smem_cumdup>>
  BY DEF exVars
<1> SUFFICES ASSUME NEW u \in Waves PROVE GotInv(u)'
  BY DEF AllGot
<1>2. GotInv(u)
  BY DEF AllGot
<1>3. \A s, e : Loaded(u, s, e)' = Loaded(u, s, e)
  BY <1>1, SameProblem DEF Loaded
<1>4. \A s, e : Found(u, s, e)' => Found(u, s, e)
  BY <1>1, <1>3, SameBlock, SameProblem DEF Found
<1>5. CellsShow(u)'
  BY <1>1, <1>2, <1>4, ShownStays DEF GotInv
<1>6. ListedBy(u)' = ListedBy(u)
  BY <1>1 DEF ListedBy
<1>7. StartsExact(u)'
  BY <1>1, <1>2, <1>6, SameBlock, SameProblem DEF GotInv, StartsExact
<1>8. NumbersKept(u)' /\ StartsCopied(u)'
  BY <1>1, <1>2, SameBlock, SameProblem, SameReference DEF GotInv, NumbersKept, StartsCopied
<1> QED BY <1>5, <1>7, <1>8 DEF GotInv

\* A launch starts with what the one before has left.
LEMMA AgainGot ==
  ASSUME WavesInv, AllGot, path = <<>>, Again
  PROVE  AllGot'
<1>1. /\ UNCHANGED <<input, sub_tokens, waiting, i_token, smem_tokens, smem_cumsum, smem_cumdup>>
      /\ UNCHANGED pc \/ pc' = [w \in Waves |-> "clear"]
  BY DEF Again, Finished, StartOfBlock, smemVars
<1>2. CASE UNCHANGED pc
  BY <1>1, <1>2, GotStays DEF exVars
<1>3. CASE pc' = [w \in Waves |-> "clear"]
  BY <1>3 DEF AllGot, GotInv, CellsShow, Found, StartsExact, NumbersKept, StartsCopied, AfterScan
<1> QED BY <1>1, <1>2, <1>3

\* All waves go on behind the barrier.
LEMMA SyncGot ==
  ASSUME WavesInv, BlockSound, AllGot, Syncthreads, UNCHANGED <<input, sub_tokens>>
  PROVE  AllGot'
<1>1. /\ \A w \in Waves : waiting[w] /\ ~waiting'[w]
      /\ pc' = [w \in Waves |-> AfterBarrier(w)] /\ i_token' = [w \in Waves |-> RoundAfter(w)]
      /\ UNCHANGED <<smem_tokens, smem_cumsum, smem_cumdup>>
  BY DEF Syncthreads
<1>2. input \in Inputs /\ BlockOK /\ 0 \in Waves
  BY RowSizes DEF WavesInv, BlockSound, Waves
<1>3. /\ input.tokens \in Nat \ {0} /\ sub_tokens \in Nat \ {0} /\ Tokens = 0..(input.tokens - 1)
      /\ \A u \in Waves : i_token[u] \in Tokens
      /\ \A u \in Waves : SubTokenOneShot \/ pc[u] \notin InRounds => i_token[u] = 0
  BY <1>2, Problem DEF BlockOK, Tokens
<1> SUFFICES ASSUME NEW u \in Waves PROVE GotInv(u)'
  BY DEF AllGot
<1>4. /\ pc[u] \in {"clear", "load", "count", "scan", "clear2", "load2", "fill"}
      /\ \A v \in Waves : pc[v] = pc[u]
      /\ pc'[u] = AfterBarrier(u) /\ i_token'[u] = RoundAfter(u)
      /\ GotInv(u)
      /\ SubTokenOneShot => i_token[u] = 0 /\ ~MoreRounds(u)
  <2>1. pc[u] \in {"clear", "load", "count", "scan", "clear2", "load2", "fill"}
    BY <1>1 DEF WavesInv, NoBarrier, Pieces
  <2>2. \A v \in Waves : pc[v] = pc[u]
    BY <1>1 DEF WavesInv, Adjacent, NoBarrier
  <2>3. SubTokenOneShot => i_token[u] = 0 /\ ~MoreRounds(u)
    BY <1>3 DEF MoreRounds, SubTokenOneShot
  <2> QED BY <1>1, <2>1, <2>2, <2>3 DEF AllGot
<1>5. CellsShow(u)'
  <2>1. ASSUME NEW s \in Rows, NEW e \in Experts, Found(u, s, e)'
        PROVE  Found(u, s, e) /\ i_token'[u] = i_token[u]
    <3>1. ~Loaded(u, s, e)'
      BY <1>1 DEF Loaded
    <3>2. /\ pc'[u] = "fill" \/ (SubTokenOneShot /\ pc'[u] \in {"count", "scan", "ids"})
          /\ Names(i_token'[u] + s, e)
      BY <2>1, <3>1, SameBlock, SameProblem DEF Found
    <3>3. pc[u] = "load2" \/ (SubTokenOneShot /\ pc[u] \in {"load", "count", "scan"})
      BY <1>4, <3>2 DEF AfterBarrier
    <3>4. i_token'[u] = i_token[u]
      BY <1>4, <3>3 DEF RoundAfter
    <3>5. Names(i_token[u] + s, e)
      BY <3>2, <3>4
    <3>6. Loaded(u, s, e)
      BY <1>1, <3>5, AllLoaded
    <3> QED BY <3>3, <3>4, <3>5, <3>6 DEF Found
  <2> QED BY <1>1, <1>4, <2>1, ShownStays DEF GotInv
<1>6. StartsExact(u)'
  <2> SUFFICES ASSUME pc'[u] \in AfterScan, NEW e \in GroupExpertsOf(u)
               PROVE  smem_cumsum[e] = StartAt(e) + IF Enabled(e) THEN Named(e, ListedBy(u)') ELSE 0
    BY <1>1, SameBlock, SameProblem DEF StartsExact
  <2>1. pc[u] \in {"scan", "clear2", "load2", "fill"}
    BY <1>4 DEF AfterBarrier, AfterScan
  <2>2. e \in Experts
    BY DEF GroupExpertsOf
  <2>3. CASE pc[u] = "scan"
    <3>1. smem_cumsum[e] = StartAt(e)
      <4>1. \A x \in 0..input.experts : smem_cumsum[x] = StartAt(x)
        BY <1>1, <1>2, <1>4, <2>3 DEF BlockSound, StartsInv
      <4>2. e \in 0..input.experts
        BY <1>2, <2>2, Problem DEF Experts
      <4> QED BY <4>1, <4>2
    <3>2. ListedBy(u)' = 0
      <4>1. i_token[u] = 0
        BY <1>3, <2>3 DEF InRounds
      <4> QED BY <1>1, <1>4, <2>3, <4>1 DEF ListedBy, AfterBarrier, RoundAfter
    <3>3. Named(e, 0) = 0
      <4>1. 0 \in Nat
        OBVIOUS
      <4> QED BY <1>2, <4>1, NamedStep
    <3>4. StartAt(e) \in Nat
      BY <1>2, <2>2, StartsWithin
    <3> HIDE DEF StartAt
    <3> QED BY <3>1, <3>2, <3>3, <3>4
  <2>4. CASE pc[u] # "scan"
    <3>1. StartsExact(u) /\ pc[u] \in AfterScan
      BY <1>4, <2>1, <2>4 DEF GotInv, AfterScan
    <3>2. Named(e, ListedBy(u)') = Named(e, ListedBy(u))
      <4>1. CASE pc[u] \in {"clear2", "load2"}
        <5>1. ListedBy(u)' = ListedBy(u)
          BY <1>1, <1>4, <4>1 DEF ListedBy, AfterBarrier, RoundAfter
        <5> QED BY <5>1
      <4>2. CASE pc[u] = "fill" /\ MoreRounds(u)
        <5>1. ListedBy(u)' = ListedBy(u)
          BY <1>1, <1>4, <4>2 DEF ListedBy, AfterBarrier, RoundAfter
        <5> QED BY <5>1
      <4>3. CASE pc[u] = "fill" /\ ~MoreRounds(u)
        <5> DEFINE x == i_token[u] + sub_tokens
        <5>1. ListedBy(u) = x /\ ListedBy(u)' = input.tokens
          BY <1>1, <1>4, <4>3 DEF ListedBy, AfterBarrier
        <5>2. x \in Nat /\ x >= input.tokens /\ x <= x
          BY <1>3, <4>3 DEF MoreRounds
        <5> HIDE DEF x
        <5>3. Named(e, x) = TokensOf(e)
          BY <1>2, <5>2, NamedUpTo
        <5> QED BY <5>1, <5>3 DEF TokensOf
      <4> QED BY <2>1, <2>4, <4>1, <4>2, <4>3
    <3> QED BY <3>1, <3>2 DEF StartsExact
  <2> QED BY <2>3, <2>4
<1>7. NumbersKept(u)'
  <2> SUFFICES ASSUME input.masking
               PROVE  /\ pc'[u] = "scan" => smem_cumdup[0] = 0
                      /\ pc'[u] = "ids" => \A e \in ThreadExpertsOf(u) : smem_cumdup[e] = LocalExpertId(e)
    BY <1>1, <1>2, SameBlock, SameProblem, SameReference DEF NumbersKept
  <2>1. ASSUME pc'[u] = "scan" PROVE smem_cumdup[0] = 0
    <3>1. pc[u] = "count"
      BY <1>4, <2>1 DEF AfterBarrier
    <3> QED BY <1>1, <1>4, <3>1 DEF GotInv, NumbersKept
  <2>2. ASSUME pc'[u] = "ids", NEW e \in ThreadExpertsOf(u) PROVE smem_cumdup[e] = LocalExpertId(e)
    <3>1. pc[u] = "scan"
      BY <1>4, <2>2 DEF AfterBarrier
    <3>2. \A x \in 0..input.experts : smem_cumdup[x] = LocalExpertId(x)
      BY <1>1, <1>2, <1>4, <3>1 DEF GotInv, NumbersKept
    <3>3. e \in 0..input.experts
      BY <1>2, Problem DEF ThreadExpertsOf, Experts
    <3> QED BY <3>2, <3>3
  <2> QED BY <2>1, <2>2
<1>8. StartsCopied(u)'
  <2>1. pc'[u] \in AfterScan \ {"ids"} => pc[u] \in AfterScan \ {"ids"}
    BY <1>4 DEF AfterBarrier, AfterScan
  <2> QED BY <1>1, <1>4, <2>1, SameBlock DEF GotInv, StartsCopied
<1> QED BY <1>5, <1>6, <1>7, <1>8 DEF GotInv

\* What a step of the block keeps of all this.
LEMMA GotStep ==
  ASSUME WavesInv, BlockSound, AllGot, OneRoundSmall, path = <<>>, [Next]_vars
  PROVE  AllGot'
<1>1. CASE ExNext
  <2>1. UNCHANGED <<input, sub_tokens>>
    BY <1>1 DEF ExNext
  <2>2. CASE \E w \in Waves : \E point \in {"clear", "clear2"} : Clear(w, point)
    BY <2>1, <2>2, ClearGot
  <2>3. CASE \E w \in Waves : Load(w) \/ Load2(w)
    BY <2>1, <2>3, LoadGot
  <2>4. CASE \E w \in Waves : Count(w) \/ Scan(w)
    BY <2>1, <2>4, CountGot, ScanGot
  <2>5. CASE \E w \in Waves : Ids(w) \/ Fill(w) \/ Pad(w)
    BY <2>1, <2>5, IdsGot, FillGot, PadGot
  <2>6. CASE Syncthreads
    BY <2>1, <2>6, SyncGot
  <2>7. CASE ClearMoeBuf
    BY <2>1, <2>7, GotStays DEF ClearMoeBuf, exVars
  <2> QED BY <1>1, <2>2, <2>3, <2>4, <2>5, <2>6, <2>7 DEF ExNext
<1>2. CASE MpNext
  <2>1. stage \in DOMAIN path
    BY <1>2 DEF MpNext, P0, P1, P01Mesh, P01Inc, P01Count, P2, P3, P23, NextKernel, Running
  <2> QED BY <2>1
<1>3. CASE Again
  BY <1>3, AgainGot
<1>4. CASE UNCHANGED vars
  <2>1. UNCHANGED <<input, exVars>>
    BY <1>4 DEF vars
  <2> QED BY <2>1, GotStays
<1> QED BY <1>1, <1>2, <1>3, <1>4 DEF Next, Terminated

-----------------------------------------------------------------------------
(* The words of a list                                                     *)

\* the list of expert e has the word v at x
ListWord(e, x, v) ==
  \/ \E t \in Tokens : /\ Names(t, e) /\ x = StartAt(e) + Named(e, t)
                       /\ v = Entry(t, TopkIdOf(t, e))
  \/ x \in (StartAt(e) + TokensOf(e))..(StartAt(e + 1) - 1) /\ v = PadEntry

\* The tokens of an expert count up.
LEMMA TokensInOrder ==
  ASSUME input \in Inputs, NEW e, NEW t \in Tokens, Names(t, e)
  PROVE  /\ Named(e, t) \in Nat /\ Named(e, t) < TokensOf(e) /\ TokensOf(e) \in Nat
         /\ \A u \in Tokens : t < u => Named(e, t) < Named(e, u)
<1>1. t \in Nat /\ t + 1 \in Nat /\ input.tokens \in Nat /\ t + 1 <= input.tokens
  BY Problem DEF Tokens
<1>2. Named(e, t) \in Nat /\ Named(e, t + 1) = Named(e, t) + 1
  BY <1>1, NamedStep
<1>3. Named(e, t + 1) <= TokensOf(e) /\ TokensOf(e) \in Nat
  <2>1. Named(e, t + 1) <= TokensOf(e)
    BY <1>1, NamedUpTo
  <2>2. TokensOf(e) \in Nat
    BY <1>1, NamedStep DEF TokensOf
  <2> QED BY <2>1, <2>2
<1>4. ASSUME NEW u \in Tokens, t < u PROVE Named(e, t) < Named(e, u)
  <2>1. u \in Nat /\ t + 1 <= u
    BY <1>1, <1>4 DEF Tokens
  <2>2. Named(e, t + 1) <= Named(e, u) /\ Named(e, u) \in Nat
    BY <1>1, <2>1, NamedUpTo, NamedStep
  <2> QED BY <1>2, <2>2
<1> QED BY <1>2, <1>3, <1>4

\* They are inside the list.
LEMMA WordPlace ==
  ASSUME input \in Inputs, NEW e \in Experts, Enabled(e), NEW x, NEW v, ListWord(e, x, v)
  PROVE  x \in StartAt(e)..(StartAt(e + 1) - 1)
<1> DEFINE a == StartAt(e)
           b == StartAt(e + 1)
           n == TokensOf(e)
<1>1. a \in Nat /\ b \in Nat /\ a + n <= b /\ n \in Nat
  BY ListWithin, ListUnitsFit DEF StartAt
<1>2. ASSUME NEW t \in Tokens, Names(t, e), x = a + Named(e, t) PROVE x \in a..(b - 1)
  <2>1. Named(e, t) \in Nat /\ Named(e, t) < n
    BY <1>2, TokensInOrder
  <2> HIDE DEF a, b, n
  <2> QED BY <1>1, <1>2, <2>1
<1>3. x \in (a + n)..(b - 1) => x \in a..(b - 1)
  <2> HIDE DEF a, b, n
  <2> QED BY <1>1
<1> QED BY <1>2, <1>3 DEF ListWord

\* No two lists want different words at a place, nor does one.
LEMMA OneWord ==
  ASSUME input \in Inputs, NEW e \in Experts, Enabled(e), NEW f \in Experts, Enabled(f),
         NEW x, NEW v, NEW z, ListWord(e, x, v), ListWord(f, x, z)
  PROVE  v = z
<1>1. e = f
  <2> SUFFICES ASSUME e # f PROVE FALSE
    OBVIOUS
  <2>1. StartAt(e + 1) <= StartAt(f) \/ StartAt(f + 1) <= StartAt(e)
    BY ListsApart
  <2>2. /\ StartAt(e) \in Nat /\ StartAt(f) \in Nat
        /\ StartAt(e + 1) \in Nat /\ StartAt(f + 1) \in Nat
    BY ListWithin DEF StartAt
  <2>3. x \in StartAt(e)..(StartAt(e + 1) - 1) /\ x \in StartAt(f)..(StartAt(f + 1) - 1)
    BY WordPlace
  <2> HIDE DEF StartAt
  <2> QED BY <2>1, <2>2, <2>3
<1> DEFINE a == StartAt(e)
           n == TokensOf(e)
<1>2. a \in Nat /\ n \in Nat /\ StartAt(e + 1) \in Nat
  BY ListWithin, ListUnitsFit DEF StartAt
<1>3. ASSUME NEW t \in Tokens, Names(t, e), NEW u \in Tokens, Names(u, e),
             a + Named(e, t) = a + Named(e, u)
      PROVE  t = u
  <2>1. /\ Named(e, t) \in Nat /\ Named(e, u) \in Nat
        /\ t < u => Named(e, t) < Named(e, u)
        /\ u < t => Named(e, u) < Named(e, t)
    BY <1>3, TokensInOrder
  <2>2. t \in Nat /\ u \in Nat
    BY DEF Tokens
  <2> HIDE DEF a
  <2> QED BY <1>2, <1>3, <2>1, <2>2
<1>4. ASSUME NEW t \in Tokens, Names(t, e), x = a + Named(e, t)
      PROVE  x \notin (a + n)..(StartAt(e + 1) - 1)
  <2>1. Named(e, t) \in Nat /\ Named(e, t) < n
    BY <1>4, TokensInOrder
  <2> HIDE DEF a, n
  <2> QED BY <1>2, <1>4, <2>1
<1> QED BY <1>1, <1>3, <1>4 DEF ListWord

\* Words written to the lists, all of them right, take nothing back.
LEMMA ListWordsStay ==
  ASSUME input \in Inputs, NEW w, NEW b,
         \A x \in DOMAIN w : \E e \in Experts : Enabled(e) /\ ListWord(e, x, w[x]),
         NEW f \in Experts, Enabled(f), NEW x, NEW v, ListWord(f, x, v), Holds(b, x, v)
  PROVE  Holds(Stored(w, b), x, v)
<1>1. CASE x \in DOMAIN w
  <2>1. w[x] = v
    BY <1>1, OneWord
  <2> QED BY <1>1, <2>1, StoredHolds DEF Holds
<1>2. CASE x \notin DOMAIN w
  BY <1>2, StoredHolds
<1> QED BY <1>1, <1>2

(***************************************************************************)
(* One block.  What its waves have delivered in this launch.               *)
(***************************************************************************)
CountsOut(w) ==
  HasCounted(w) => \A e \in GroupExpertsOf(w) : Holds(out.counts, e, TokensOf(e))

TotalOut == Scanned(0) => out.total = StartAt(input.experts)

UnitsOut(w) ==
  UnitsNamed(w) => \A e \in ThreadExpertsOf(w) : Enabled(e) => UnitsSorted(e)

ListsOut(w) ==
  \A e \in FillExpertsOf(w), t \in Tokens :
    Listed(w, t) /\ Names(t, e) =>
      Holds(out.sorted, StartAt(e) + Named(e, t), Entry(t, TopkIdOf(t, e)))

PaddingOut(w) ==
  pc[w] = "done" => \A e \in ThreadExpertsOf(w) : Enabled(e) =>
    \A x \in (StartAt(e) + TokensOf(e))..(StartAt(e + 1) - 1) : Holds(out.sorted, x, PadEntry)

PositionsOut(w) ==
  SubTokenOneShot /\ Filled(w) => \A e \in FillExpertsOf(w) : Holds(out.positions, e, StartAt(e))

OutBy(w) == CountsOut(w) /\ UnitsOut(w) /\ ListsOut(w) /\ PaddingOut(w) /\ PositionsOut(w)

\* A step takes nothing back of what is right.
Retains ==
  /\ \A e \in Experts : Holds(out.counts, e, TokensOf(e)) => Holds(out'.counts, e, TokensOf(e))
  /\ \A e \in Experts : Enabled(e) /\ UnitsSorted(e) => UnitsSorted(e)'
  /\ \A e \in Experts : \A x, v : Enabled(e) /\ ListWord(e, x, v) /\ Holds(out.sorted, x, v) =>
       Holds(out'.sorted, x, v)
  /\ SubTokenOneShot => \A e \in Experts :
       Holds(out.positions, e, StartAt(e)) => Holds(out'.positions, e, StartAt(e))

\* The experts of a wave.
LEMMA OwnExperts ==
  ASSUME NEW w, NEW e
  PROVE  /\ e \in GroupExpertsOf(w) \/ e \in ThreadExpertsOf(w) => e \in Experts
         /\ e \in FillExpertsOf(w) => e \in GroupExpertsOf(w) /\ e \in Experts /\ Enabled(e)
BY DEF GroupExpertsOf, ThreadExpertsOf, FillExpertsOf

\* A wave that gets no further in what it delivers, or has just delivered it,
\* has delivered what it must after a step that takes nothing back.
LEMMA OutRetained ==
  ASSUME input \in Inputs, UNCHANGED <<input, sub_tokens>>, Retains, NEW u, OutBy(u),
         (HasCounted(u)' => HasCounted(u)) \/ CountsOut(u)',
         (UnitsNamed(u)' => UnitsNamed(u)) \/ UnitsOut(u)',
         \A e \in FillExpertsOf(u), t \in Tokens : Listed(u, t)' /\ Names(t, e) =>
           Listed(u, t) \/ Holds(out'.sorted, StartAt(e) + Named(e, t), Entry(t, TopkIdOf(t, e))),
         (pc'[u] = "done" => pc[u] = "done") \/ PaddingOut(u)',
         (Filled(u)' => Filled(u)) \/ PositionsOut(u)'
  PROVE  OutBy(u)'
<1>1. CountsOut(u)'
  <2> SUFFICES ASSUME HasCounted(u)', HasCounted(u), NEW e \in GroupExpertsOf(u)
               PROVE  Holds(out'.counts, e, TokensOf(e))
    BY SameBlock, SameProblem DEF CountsOut, Holds
  <2>1. e \in Experts /\ Holds(out.counts, e, TokensOf(e))
    BY OwnExperts DEF OutBy, CountsOut
  <2> QED BY <2>1 DEF Retains
<1>2. UnitsOut(u)'
  <2> SUFFICES ASSUME UnitsNamed(u)', UnitsNamed(u), NEW e \in ThreadExpertsOf(u), Enabled(e)
               PROVE  UnitsSorted(e)'
    BY SameBlock, SameProblem DEF UnitsOut
  <2>1. e \in Experts /\ UnitsSorted(e)
    BY OwnExperts DEF OutBy, UnitsOut
  <2> QED BY <2>1 DEF Retains
<1>3. ListsOut(u)'
  <2>1. FillExpertsOf(u)' = FillExpertsOf(u)
    BY SameBlock, SameProblem DEF FillExpertsOf
  <2> SUFFICES ASSUME NEW e \in FillExpertsOf(u), NEW t \in Tokens, Listed(u, t)', Names(t, e)
               PROVE  Holds(out'.sorted, StartAt(e) + Named(e, t), Entry(t, TopkIdOf(t, e)))
    BY <2>1, SameBlock, SameProblem, SameReference DEF ListsOut, Holds
  <2>2. CASE Listed(u, t)
    <3>1. e \in Experts /\ Enabled(e)
      BY OwnExperts
    <3>2. Holds(out.sorted, StartAt(e) + Named(e, t), Entry(t, TopkIdOf(t, e)))
      BY <2>2 DEF OutBy, ListsOut
    <3>3. ListWord(e, StartAt(e) + Named(e, t), Entry(t, TopkIdOf(t, e)))
      BY DEF ListWord
    <3> QED BY <3>1, <3>2, <3>3 DEF Retains
  <2> QED BY <2>2
<1>4. PaddingOut(u)'
  <2> SUFFICES ASSUME pc[u] = "done", NEW e \in ThreadExpertsOf(u), Enabled(e),
                      NEW x \in (StartAt(e) + TokensOf(e))..(StartAt(e + 1) - 1)
               PROVE  Holds(out'.sorted, x, PadEntry)
    BY SameBlock, SameProblem, SameReference DEF PaddingOut, Holds
  <2>1. e \in Experts /\ Holds(out.sorted, x, PadEntry)
    BY OwnExperts DEF OutBy, PaddingOut
  <2>2. ListWord(e, x, PadEntry)
    BY DEF ListWord
  <2> QED BY <2>1, <2>2 DEF Retains
<1>5. PositionsOut(u)'
  <2>1. FillExpertsOf(u)' = FillExpertsOf(u)
    BY SameBlock, SameProblem DEF FillExpertsOf
  <2> SUFFICES ASSUME SubTokenOneShot, Filled(u), NEW e \in FillExpertsOf(u)
               PROVE  Holds(out'.positions, e, StartAt(e))
    BY <2>1, SameBlock DEF PositionsOut, Holds
  <2>2. e \in Experts /\ Holds(out.positions, e, StartAt(e))
    BY OwnExperts DEF OutBy, PositionsOut
  <2> QED BY <2>2 DEF Retains
<1> QED BY <1>1, <1>2, <1>3, <1>4, <1>5 DEF OutBy

\* A step that leaves an output alone keeps what is right in it.
LEMMA SameRetains ==
  ASSUME UNCHANGED input
  PROVE  /\ out'.counts = out.counts => \A e \in Experts :
              Holds(out.counts, e, TokensOf(e)) => Holds(out'.counts, e, TokensOf(e))
         /\ out'.expert_ids = out.expert_ids => \A e \in Experts : UnitsSorted(e) => UnitsSorted(e)'
         /\ out'.sorted = out.sorted => \A x, v : Holds(out.sorted, x, v) => Holds(out'.sorted, x, v)
         /\ out'.positions = out.positions => \A e \in Experts :
              Holds(out.positions, e, StartAt(e)) => Holds(out'.positions, e, StartAt(e))
<1>1. \A e : out'.expert_ids = out.expert_ids => (UnitsSorted(e)' <=> UnitsSorted(e))
  BY SortedStays
<1> QED BY <1>1

AllOut == TotalOut /\ \A w \in Waves : OutBy(w)

\* A wave gets no further in what it delivers.
Still(w) ==
  /\ HasCounted(w)' => HasCounted(w)
  /\ Scanned(w)' => Scanned(w)
  /\ UnitsNamed(w)' => UnitsNamed(w)
  /\ \A t \in Tokens : Listed(w, t)' => Listed(w, t)
  /\ pc'[w] = "done" => pc[w] = "done"
  /\ Filled(w)' => Filled(w)

\* A step in which nobody gets further, and which changes none of these outputs.
LEMMA QuietOut ==
  ASSUME input \in Inputs, UNCHANGED <<input, sub_tokens>>, AllOut,
         out'.counts = out.counts, out'.total = out.total, out'.expert_ids = out.expert_ids,
         out'.sorted = out.sorted, out'.positions = out.positions,
         \A u \in Waves : Still(u)
  PROVE  AllOut'
<1>1. Retains
  BY SameRetains DEF Retains
<1>2. ASSUME NEW u \in Waves PROVE OutBy(u)'
  <2>1. Still(u) /\ OutBy(u)
    BY DEF AllOut
  <2> QED BY <1>1, <2>1, OutRetained DEF Still
<1>3. TotalOut'
  <2>1. Still(0) /\ TotalOut
    BY RowSizes DEF AllOut, Waves
  <2> QED BY <2>1, SameReference DEF TotalOut, Still
<1> QED BY <1>2, <1>3 DEF AllOut

\* A wave that arrives at the barrier after it cleared or loaded its cells.
LEMMA ArriveStill ==
  ASSUME WavesInv, NEW w \in Waves, Arrive(w), pc[w] \notin {"count", "scan", "fill"},
         UNCHANGED <<input, sub_tokens>>, NEW u \in Waves
  PROVE  Still(u)
<1>1. UNCHANGED <<pc, i_token>> /\ \A v \in Waves : v # w => waiting'[v] = waiting[v]
  BY DEF Arrive, WavesInv
<1>2. u # w \/ pc[u] \notin {"count", "scan", "fill"}
  OBVIOUS
<1>3. ListedBy(u)' = ListedBy(u)
  BY <1>1, <1>2 DEF ListedBy
<1> QED BY <1>1, <1>2, <1>3 DEF Still, HasCounted, Scanned, UnitsNamed, Listed, Filled

\* The barrier.
LEMMA SyncStill ==
  ASSUME WavesInv, BlockOK, Syncthreads, UNCHANGED <<input, sub_tokens>>, NEW u \in Waves
  PROVE  Still(u)
<1>1. /\ waiting[u] /\ ~waiting'[u] /\ pc'[u] = AfterBarrier(u) /\ i_token'[u] = RoundAfter(u)
      /\ pc[u] \in Pieces \ NoBarrier
  BY DEF Syncthreads, WavesInv
<1>2. /\ i_token[u] \in Nat /\ sub_tokens \in Nat \ {0} /\ input.tokens \in Nat
      /\ pc[u] = "scan" => i_token[u] = 0
  BY Problem DEF WavesInv, BlockOK, Tokens, InRounds
<1>3. pc[u] \in {"clear", "load", "count", "scan", "clear2", "load2", "fill"}
  BY <1>1 DEF Pieces, NoBarrier
<1>4. ASSUME pc[u] \in {"clear", "load", "count"} PROVE Still(u)
  <2>1. pc'[u] \in {"load", "count", "scan"} /\ (pc'[u] = "scan" => pc[u] = "count")
    BY <1>1, <1>4 DEF AfterBarrier
  <2> QED BY <1>1, <2>1 DEF Still, HasCounted, Scanned, UnitsNamed, Listed, Filled, AfterScan
<1>5. ASSUME pc[u] = "scan" PROVE Still(u)
  <2>1. pc'[u] = "ids" /\ i_token'[u] = 0
    BY <1>1, <1>2, <1>5 DEF AfterBarrier, RoundAfter
  <2>2. \A t \in Tokens : ~Listed(u, t)'
    BY <2>1 DEF Listed, ListedBy, Tokens
  <2> QED BY <1>1, <1>5, <2>1, <2>2 DEF Still, HasCounted, Scanned, UnitsNamed, Filled, AfterScan
<1>6. ASSUME pc[u] \in {"clear2", "load2"} PROVE Still(u)
  <2>1. pc'[u] \in {"load2", "fill"} /\ i_token'[u] = i_token[u]
    BY <1>1, <1>6 DEF AfterBarrier, RoundAfter
  <2>2. ListedBy(u)' = ListedBy(u)
    BY <1>1, <1>6, <2>1 DEF ListedBy
  <2> QED BY <1>1, <1>6, <2>1, <2>2 DEF Still, HasCounted, Scanned, UnitsNamed, Listed, Filled, AfterScan
<1>7. ASSUME pc[u] = "fill" PROVE Still(u)
  <2>1. /\ MoreRounds(u) => pc'[u] = "clear2" /\ i_token'[u] = i_token[u] + sub_tokens
        /\ ~MoreRounds(u) => pc'[u] = "pad"
    BY <1>1, <1>7 DEF AfterBarrier, RoundAfter
  <2>2. ListedBy(u) = i_token[u] + sub_tokens
    BY <1>1, <1>7 DEF ListedBy
  <2>3. \A t \in Tokens : t < ListedBy(u)' => t < ListedBy(u)
    <3>1. CASE MoreRounds(u)
      BY <2>1, <2>2, <3>1 DEF ListedBy
    <3>2. CASE ~MoreRounds(u)
      BY <1>2, <2>2, <3>2 DEF MoreRounds, Tokens
    <3> QED BY <3>1, <3>2
  <2> QED BY <1>1, <1>7, <2>1, <2>3 DEF Still, HasCounted, Scanned, UnitsNamed, Listed, Filled, AfterScan
<1> QED BY <1>3, <1>4, <1>5, <1>6, <1>7

\* Steps that deliver nothing of these.
LEMMA OutUntouched ==
  ASSUME WavesInv, BlockSound, OutOK, AllOut, UNCHANGED <<input, sub_tokens>>,
         \/ UNCHANGED out /\ \E w \in Waves : \/ \E point \in {"clear", "clear2"} : Clear(w, point)
                                             \/ Load(w) \/ Load2(w)
         \/ Syncthreads
         \/ ClearMoeBuf
         \/ UNCHANGED <<out, exVars>>
  PROVE  AllOut'
<1>1. input \in Inputs /\ BlockOK
  BY DEF WavesInv, BlockSound
<1>2. CASE UNCHANGED out /\ \E w \in Waves : \/ \E point \in {"clear", "clear2"} : Clear(w, point)
                                             \/ Load(w) \/ Load2(w)
  <2>1. PICK w \in Waves : Arrive(w) /\ pc[w] \in {"clear", "clear2", "load", "load2"}
    BY <1>2 DEF Clear, Load, Load2, At
  <2>2. \A u \in Waves : Still(u)
    BY <2>1, ArriveStill
  <2> QED BY <1>1, <1>2, <2>2, QuietOut
<1>3. CASE Syncthreads
  <2>1. \A u \in Waves : Still(u)
    BY <1>1, <1>3, SyncStill
  <2> QED BY <1>1, <1>3, <2>1, QuietOut DEF Syncthreads
<1>4. ASSUME UNCHANGED <<pc, waiting, i_token>>, NEW u \in Waves PROVE Still(u)
  <2>1. ListedBy(u)' = ListedBy(u)
    BY <1>4 DEF ListedBy
  <2> QED BY <1>4, <2>1 DEF Still, HasCounted, Scanned, UnitsNamed, Listed, Filled
<1>5. CASE ClearMoeBuf
  <2>1. /\ out'.counts = out.counts /\ out'.total = out.total /\ out'.expert_ids = out.expert_ids
        /\ out'.sorted = out.sorted /\ out'.positions = out.positions
        /\ UNCHANGED <<pc, waiting, i_token>>
    BY <1>5 DEF ClearMoeBuf, OutOK
  <2> QED BY <1>1, <1>4, <2>1, QuietOut
<1>6. CASE UNCHANGED <<out, exVars>>
  BY <1>1, <1>4, <1>6, QuietOut DEF exVars
<1> QED BY <1>2, <1>3, <1>5, <1>6

\* A further launch starts with nothing delivered.
LEMMA AgainOut ==
  ASSUME WavesInv, AllOut, path = <<>>, Again
  PROVE  AllOut'
<1>1. /\ UNCHANGED <<input, out, sub_tokens, waiting, i_token>>
      /\ UNCHANGED pc \/ pc' = [w \in Waves |-> "clear"]
  BY DEF Again, Finished, StartOfBlock
<1>2. ASSUME NEW u \in Waves PROVE Still(u)
  <2>1. CASE UNCHANGED pc
    <3>1. ListedBy(u)' = ListedBy(u)
      BY <1>1, <2>1 DEF ListedBy
    <3> QED BY <1>1, <2>1, <3>1 DEF Still, HasCounted, Scanned, UnitsNamed, Listed, Filled
  <2>2. CASE pc' = [w \in Waves |-> "clear"]
    <3>1. pc'[u] = "clear"
      BY <2>2
    <3> QED BY <3>1 DEF Still, HasCounted, Scanned, UnitsNamed, Listed, Filled, AfterScan
  <2> QED BY <1>1, <2>1, <2>2
<1>3. input \in Inputs
  BY DEF WavesInv
<1> QED BY <1>1, <1>2, <1>3, QuietOut

\* A wave that ends a piece at a barrier: the others get no further, and the
\* piece says what it delivers.
LEMMA OthersStill ==
  ASSUME WavesInv, NEW w \in Waves, ~waiting[w], Arrive(w), UNCHANGED <<input, sub_tokens>>,
         NEW u \in Waves
  PROVE  /\ u # w => Still(u)
         /\ pc'[u] = pc[u]
         /\ UnitsNamed(u)' => UnitsNamed(u)
         /\ pc[u] # "count" => (HasCounted(u)' => HasCounted(u))
         /\ pc[u] # "scan" => (Scanned(u)' => Scanned(u))
         /\ pc[u] # "fill" => (\A t \in Tokens : Listed(u, t)' => Listed(u, t))
                              /\ (Filled(u)' => Filled(u))
<1>1. UNCHANGED <<pc, i_token>> /\ \A v \in Waves : v # w => waiting'[v] = waiting[v]
  BY DEF Arrive, WavesInv
<1>2. u # w \/ pc[u] # "fill" => ListedBy(u)' = ListedBy(u)
  BY <1>1 DEF ListedBy
<1> QED BY <1>1, <1>2 DEF Still, HasCounted, Scanned, UnitsNamed, Listed, Filled

\* Steps in which the other waves get no further.
LEMMA StillOut ==
  ASSUME input \in Inputs, UNCHANGED <<input, sub_tokens>>, Retains, NEW u, OutBy(u), Still(u)
  PROVE  OutBy(u)'
  BY OutRetained DEF Still

\* The tokens of the wave's experts are counted.
LEMMA CountOut ==
  ASSUME WavesInv, BlockSound, OutOK, AllOut, NEW w \in Waves, Count(w),
         UNCHANGED <<input, sub_tokens>>
  PROVE  AllOut'
<1> DEFINE writes == [e \in GroupExpertsOf(w) |-> CountIn(e)]
<1>1. /\ pc[w] = "count" /\ ~waiting[w] /\ Arrive(w) /\ input \in Inputs
      /\ out'.counts = Stored(writes, out.counts) /\ out'.total = out.total
      /\ out'.expert_ids = out.expert_ids /\ out'.sorted = out.sorted
      /\ out'.positions = out.positions
  BY DEF Count, At, OutOK, WavesInv
<1>2. \A e \in GroupExpertsOf(w) : writes[e] = TokensOf(e)
  <2>1. AllCountedIn(w) /\ \A e \in GroupExpertsOf(w) : e \in Experts
    BY OwnExperts DEF BlockSound, CellsInv
  <2> QED BY <1>1, <2>1 DEF AllCountedIn
<1>3. \A e \in GroupExpertsOf(w) : Holds(out'.counts, e, TokensOf(e))
  <2> HIDE DEF writes
  <2>1. DOMAIN writes = GroupExpertsOf(w)
    BY DEF writes
  <2> QED BY <1>1, <1>2, <2>1 DEF Stored, Holds
<1>4. ASSUME NEW e \in Experts, Holds(out.counts, e, TokensOf(e))
      PROVE  Holds(out'.counts, e, TokensOf(e))
  <2>1. CASE e \in GroupExpertsOf(w)
    BY <1>3, <2>1
  <2>2. CASE e \notin GroupExpertsOf(w)
    <3>1. e \notin DOMAIN writes
      BY <2>2
    <3> HIDE DEF writes
    <3> QED BY <1>1, <1>4, <3>1, StoredHolds
  <2> QED BY <2>1, <2>2
<1>5. Retains
  BY <1>1, <1>4, SameRetains DEF Retains
<1>6. ASSUME NEW u \in Waves PROVE OutBy(u)'
  <2>1. OutBy(u)
    BY DEF AllOut
  <2>2. CASE u # w
    <3>1. Still(u)
      BY <1>1, <2>2, OthersStill
    <3> QED BY <1>1, <1>5, <2>1, <3>1, StillOut
  <2>3. CASE u = w
    <3>1. CountsOut(w)'
      BY <1>3, SameBlock, SameProblem DEF CountsOut, Holds
    <3>2. /\ UnitsNamed(w)' => UnitsNamed(w)
          /\ \A t \in Tokens : Listed(w, t)' => Listed(w, t)
          /\ pc'[w] = "done" => pc[w] = "done"
          /\ Filled(w)' => Filled(w)
      BY <1>1, OthersStill
    <3> QED BY <1>1, <1>5, <2>1, <2>3, <3>1, <3>2, OutRetained
  <2> QED BY <2>2, <2>3
<1>7. TotalOut'
  <2>1. 0 \in Waves
    BY RowSizes DEF Waves
  <2>2. pc[0] = "count" /\ pc'[0] = "count"
    BY <1>1, <2>1, SamePiece, OthersStill
  <2> QED BY <2>2 DEF TotalOut, Scanned, AfterScan
<1> QED BY <1>6, <1>7 DEF AllOut

\* The first wave tells how long the lists are together.
LEMMA ScanOut ==
  ASSUME WavesInv, BlockSound, OutOK, AllOut, NEW w \in Waves, Scan(w),
         UNCHANGED <<input, sub_tokens>>
  PROVE  AllOut'
<1>1. /\ pc[w] = "scan" /\ ~waiting[w] /\ Arrive(w) /\ input \in Inputs
      /\ out'.counts = out.counts /\ out'.expert_ids = out.expert_ids
      /\ out'.sorted = out.sorted /\ out'.positions = out.positions
      /\ w # 0 => out' = out
  BY DEF Scan, At, OutOK, WavesInv
<1>2. Retains
  BY <1>1, SameRetains DEF Retains
<1>3. ASSUME NEW u \in Waves PROVE OutBy(u)'
  <2>1. OutBy(u) /\ pc[u] = "scan"
    BY <1>1, SamePiece DEF AllOut
  <2>2. /\ HasCounted(u)' => HasCounted(u)
        /\ UnitsNamed(u)' => UnitsNamed(u)
        /\ \A t \in Tokens : Listed(u, t)' => Listed(u, t)
        /\ pc'[u] = "done" => pc[u] = "done"
        /\ Filled(u)' => Filled(u)
    BY <1>1, <2>1, OthersStill
  <2> QED BY <1>1, <1>2, <2>1, <2>2, OutRetained
<1>4. TotalOut'
  <2>1. CASE w = 0
    <3>1. out'.total = StartAt(input.experts)
      BY <2>1, TotalTold
    <3> QED BY <3>1, SameReference DEF TotalOut
  <2>2. CASE w # 0
    <3>1. 0 \in Waves
      BY RowSizes DEF Waves
    <3>2. Still(0)
      BY <1>1, <2>2, <3>1, OthersStill
    <3> QED BY <1>1, <2>2, <3>2, SameReference DEF TotalOut, AllOut, Still
  <2> QED BY <2>1, <2>2
<1> QED BY <1>3, <1>4 DEF AllOut

\* A list that goes from unit to unit has the units in between.
LEMMA UnitsBetween ==
  ASSUME NEW d \in Nat \ {0}, NEW a \in Nat, NEW b \in Nat
  PROVE  {i \div d : i \in {j \in (d * a)..(d * b - 1) : (j - d * a) % d = 0}} = a..(b - 1)
<1> DEFINE J == {j \in (d * a)..(d * b - 1) : (j - d * a) % d = 0}
<1>1. d * a \in Nat /\ d * b \in Nat
  OBVIOUS
<1>2. ASSUME NEW j \in J PROVE j \div d \in a..(b - 1)
  <2>1. j \in Nat /\ d * a <= j /\ j < d * b
    BY <1>1
  <2>2. j \div d \in Nat /\ j \div d < b
    BY <2>1, DivRange, DivMod
  <2>3. j \div d >= a
    <3> SUFFICES ASSUME j \div d < a PROVE FALSE
      BY <2>2
    <3>1. (j \div d) + 1 <= a
      BY <2>2
    <3>2. j = d * (j \div d) + (j % d) /\ j % d \in 0..(d - 1)
      BY <2>1, DivMod
    <3> DEFINE q == j \div d
    <3>3. q \in Nat /\ q + 1 <= a
      BY <2>2, <3>1
    <3>4. d * q + d <= d * a
      <4> HIDE DEF q
      <4>1. (q + 1) * d <= a * d
        BY <3>3, ProductOrder
      <4> QED BY <3>3, <4>1
    <3>5. d * q \in Nat /\ j = d * q + (j % d)
      BY <3>2, <3>3
    <3> DEFINE p == d * q
    <3> HIDE DEF p
    <3>6. p \in Nat /\ j = p + (j % d) /\ p + d <= d * a
      BY <3>4, <3>5 DEF p
    <3> DEFINE r == j % d
               z == d * a
    <3> HIDE DEF r, z
    <3>7. r \in 0..(d - 1) /\ j = p + r /\ p + d <= z /\ z <= j
      BY <2>1, <3>2, <3>6 DEF r, z
    <3> QED BY <2>1, <3>6, <3>7
  <2> QED BY <2>2, <2>3
<1>3. ASSUME NEW k \in a..(b - 1) PROVE d * k \in J /\ (d * k) \div d = k
  <2>1. k \in Nat /\ k - a \in Nat /\ a <= k /\ k + 1 <= b
    OBVIOUS
  <2>2. d * k - d * a = d * (k - a)
    BY <2>1
  <2>3. (d * (k - a) + 0) % d = 0 /\ (d * k + 0) \div d = k
    <3>1. 0 \in 0..(d - 1)
      OBVIOUS
    <3> QED BY <2>1, <3>1, DivModUnique
  <2>4. d * a <= d * k
    <3>1. a * d <= k * d
      BY <2>1, ProductOrder
    <3> QED BY <2>1, <3>1
  <2>5. d * k + d <= d * b
    <3>1. (k + 1) * d <= b * d
      BY <2>1, ProductOrder
    <3> QED BY <2>1, <3>1
  <2>6. d * k \in Nat /\ d * (k - a) \in Nat
    BY <2>1
  <2> DEFINE p == d * k
             q == d * (k - a)
             y == d * a
             z == d * b
  <2>7. p \in Nat /\ q \in Nat /\ y \in Nat /\ z \in Nat
    BY <1>1, <2>6
  <2>8. p - y = q /\ (q + 0) % d = 0 /\ (p + 0) \div d = k /\ y <= p /\ p + d <= z
    BY <2>2, <2>3, <2>4, <2>5
  <2> HIDE DEF p, q, y, z
  <2>9. p \in y..(z - 1) /\ (p - y) % d = 0 /\ p \div d = k
    BY <2>7, <2>8
  <2> QED BY <2>9 DEF p, y, z
<1>4. \A x \in {j \div d : j \in J} : x \in a..(b - 1)
  <2> HIDE DEF J
  <2> QED BY <1>2
<1>5. \A x \in a..(b - 1) : x \in {j \div d : j \in J}
  <2> HIDE DEF J
  <2> QED BY <1>3
<1> HIDE DEF J
<1>6. {j \div d : j \in J} = a..(b - 1)
  BY <1>4, <1>5
<1> QED BY <1>6 DEF J

\* What a wave writes: for the units of its experts, and no others, their
\* numbers.
LEMMA UnitsWritten ==
  ASSUME WavesInv, BlockSound, AllGot, OneRoundSmall, NEW w \in Waves, pc[w] = "ids"
  PROVE  /\ \A e \in ThreadExpertsOf(w) : Enabled(e) =>
              \A u \in UnitStart[e]..(UnitStart[e + 1] - 1) : Holds(IdWrites(w), u, LocalExpertId(e))
         /\ \A u \in DOMAIN IdWrites(w) : \E e \in ThreadExpertsOf(w) :
              Enabled(e) /\ u \in UnitStart[e]..(UnitStart[e + 1] - 1)
<1> DEFINE units(e) ==
             IF input.masking /\ input.mask[e] = 0 THEN {}
             ELSE {i \div UnitSize : i \in {j \in smem_cumsum[e]..(smem_cumsum[e + 1] - 1) :
                                              (j - smem_cumsum[e]) % UnitSize = 0}}
           of(u) == CHOOSE f \in ThreadExpertsOf(w) : u \in units(f)
<1>1. /\ DOMAIN IdWrites(w) = UNION {units(e) : e \in ThreadExpertsOf(w)}
      /\ \A u \in DOMAIN IdWrites(w) :
           IdWrites(w)[u] = IF input.masking THEN smem_cumdup[of(u)] ELSE of(u)
  BY DEF IdWrites
<1>2. input \in Inputs /\ UnitSize \in Nat \ {0}
  BY SortAssumption DEF WavesInv
<1>3. ASSUME NEW e \in ThreadExpertsOf(w)
      PROVE  /\ e \in Experts /\ UnitStart[e] \in Nat /\ UnitStart[e + 1] \in Nat
             /\ units(e) = IF Enabled(e) THEN UnitStart[e]..(UnitStart[e + 1] - 1) ELSE {}
  <2>1. e \in Experts
    BY OwnExperts
  <2>2. UnitStart[e] \in Nat /\ UnitStart[e + 1] \in Nat
    BY <1>2, <2>1, ListWithin
  <2>3. /\ smem_cumsum[e] = UnitSize * UnitStart[e]
        /\ smem_cumsum[e + 1] = UnitSize * UnitStart[e + 1]
    BY StartsUnmoved DEF StartAt
  <2>4. CASE Enabled(e)
    <3> DEFINE between(y, z) == {i \div UnitSize : i \in {j \in y..(z - 1) : (j - y) % UnitSize = 0}}
               a == UnitStart[e]
               b == UnitStart[e + 1]
    <3>1. units(e) = between(smem_cumsum[e], smem_cumsum[e + 1])
      BY <2>4 DEF Enabled
    <3>2. between(UnitSize * a, UnitSize * b) = a..(b - 1)
      <4>1. a \in Nat /\ b \in Nat
        BY <2>2
      <4> HIDE DEF a, b
      <4> QED BY <1>2, <4>1, UnitsBetween
    <3> HIDE DEF between, units
    <3> QED BY <2>1, <2>2, <2>3, <2>4, <3>1, <3>2
  <2>5. CASE ~Enabled(e)
    BY <2>1, <2>2, <2>5 DEF Enabled
  <2> QED BY <2>4, <2>5
<1> HIDE DEF units
<1>4. ASSUME NEW e \in ThreadExpertsOf(w), NEW u \in units(e) PROVE of(u) = e
  <2>1. of(u) \in ThreadExpertsOf(w) /\ u \in units(of(u))
    BY <1>4
  <2> DEFINE f == of(u)
  <2> HIDE DEF f
  <2>2. f \in ThreadExpertsOf(w) /\ u \in units(f)
    BY <2>1 DEF f
  <2>3. f = e
    <3> SUFFICES ASSUME f # e PROVE FALSE
      OBVIOUS
    <3>1. /\ UnitStart[e] \in Nat /\ UnitStart[e + 1] \in Nat
          /\ UnitStart[f] \in Nat /\ UnitStart[f + 1] \in Nat
          /\ u \in UnitStart[e]..(UnitStart[e + 1] - 1)
          /\ u \in UnitStart[f]..(UnitStart[f + 1] - 1)
      BY <1>3, <1>4, <2>2
    <3>2. UnitStart[e + 1] <= UnitStart[f] \/ UnitStart[f + 1] <= UnitStart[e]
      BY <1>2, <1>3, <2>2, ListsApart
    <3> QED BY <3>1, <3>2
  <2> QED BY <2>3 DEF f
<1>5. ASSUME NEW e \in ThreadExpertsOf(w), Enabled(e)
      PROVE  (IF input.masking THEN smem_cumdup[e] ELSE e) = LocalExpertId(e)
  <2>1. CASE input.masking
    <3>1. smem_cumdup[e] = LocalExpertId(e)
      BY <2>1 DEF AllGot, GotInv, NumbersKept
    <3> QED BY <2>1, <3>1
  <2>2. CASE ~input.masking
    <3>1. e \in Nat
      BY <1>3 DEF Experts
    <3> QED BY <1>2, <2>2, <3>1, LocalIds
  <2> QED BY <2>1, <2>2
<1>6. ASSUME NEW e \in ThreadExpertsOf(w), Enabled(e),
             NEW u \in UnitStart[e]..(UnitStart[e + 1] - 1)
      PROVE  Holds(IdWrites(w), u, LocalExpertId(e))
  <2>1. u \in units(e)
    BY <1>3, <1>6
  <2>2. of(u) = e /\ u \in DOMAIN IdWrites(w)
    <3>1. of(u) = e
      BY <2>1, <1>4
    <3>2. u \in DOMAIN IdWrites(w)
      BY <1>1, <2>1
    <3> QED BY <3>1, <3>2
  <2> HIDE DEF of
  <2> QED BY <1>1, <1>5, <1>6, <2>2 DEF Holds
<1>7. ASSUME NEW u \in DOMAIN IdWrites(w)
      PROVE  \E e \in ThreadExpertsOf(w) : Enabled(e) /\ u \in UnitStart[e]..(UnitStart[e + 1] - 1)
  <2>1. PICK e \in ThreadExpertsOf(w) : u \in units(e)
    BY <1>1
  <2>2. Enabled(e)
    BY <1>3, <2>1
  <2> QED BY <1>3, <2>1, <2>2
<1> QED BY <1>6, <1>7

\* The expert of every unit, by the wave whose thread has the expert.
LEMMA IdsOut ==
  ASSUME WavesInv, BlockSound, OutOK, AllGot, OneRoundSmall, AllOut, NEW w \in Waves, Ids(w),
         UNCHANGED <<input, sub_tokens>>
  PROVE  AllOut'
<1>1. /\ pc[w] = "ids" /\ ~waiting[w] /\ GoTo(w, PieceAfterIds) /\ input \in Inputs
      /\ out'.expert_ids = Stored(IdWrites(w), out.expert_ids) /\ out'.total = out.total
      /\ out'.counts = out.counts /\ out'.sorted = out.sorted
      /\ out'.positions = out.positions
  BY DEF Ids, At, OutOK, WavesInv
<1>2. /\ UNCHANGED <<waiting, i_token>> /\ pc'[w] \in {"fill", "clear2"}
      /\ \A v \in Waves : v # w => pc'[v] = pc[v]
  BY <1>1 DEF GoTo, WavesInv, PieceAfterIds
<1>3. ASSUME NEW e \in Experts, Enabled(e), UnitsSorted(e) \/ e \in ThreadExpertsOf(w)
      PROVE  UnitsSorted(e)'
  <2> SUFFICES ASSUME NEW u \in UnitStart[e]..(UnitStart[e + 1] - 1)
               PROVE  Holds(Stored(IdWrites(w), out.expert_ids), u, LocalExpertId(e))
    BY <1>1, SameReference, SameProblem DEF UnitsSorted, Holds
  <2>1. CASE u \in DOMAIN IdWrites(w)
    <3>1. PICK f \in ThreadExpertsOf(w) : Enabled(f) /\ u \in UnitStart[f]..(UnitStart[f + 1] - 1)
      BY <1>1, <2>1, UnitsWritten
    <3>2. f = e
      <4> SUFFICES ASSUME f # e PROVE FALSE
        OBVIOUS
      <4>1. f \in Experts
        BY OwnExperts
      <4>2. UnitStart[e + 1] <= UnitStart[f] \/ UnitStart[f + 1] <= UnitStart[e]
        BY <1>1, <4>1, ListsApart
      <4>3. /\ UnitStart[e] \in Nat /\ UnitStart[e + 1] \in Nat
            /\ UnitStart[f] \in Nat /\ UnitStart[f + 1] \in Nat
        BY <1>1, <4>1, ListWithin
      <4> QED BY <3>1, <4>2, <4>3
    <3>3. Holds(IdWrites(w), u, LocalExpertId(e))
      BY <1>1, <1>3, <3>1, <3>2, UnitsWritten
    <3> QED BY <3>3, StoredHolds
  <2>2. CASE u \notin DOMAIN IdWrites(w)
    <3>1. e \notin ThreadExpertsOf(w)
      BY <1>1, <1>3, <2>2, UnitsWritten DEF Holds
    <3>2. Holds(out.expert_ids, u, LocalExpertId(e))
      BY <1>3, <3>1 DEF UnitsSorted
    <3> QED BY <2>2, <3>2, StoredHolds
  <2> QED BY <2>1, <2>2
<1>4. Retains
  BY <1>1, <1>3, SameRetains DEF Retains
<1>5. ASSUME NEW u \in Waves
      PROVE  /\ u # w => Still(u)
             /\ HasCounted(u)' => HasCounted(u)
             /\ \A t \in Tokens : Listed(u, t)' => Listed(u, t)
             /\ pc'[u] = "done" => pc[u] = "done"
             /\ Filled(u)' => Filled(u)
             /\ Scanned(u)' => Scanned(u)
  <2>1. ListedBy(u)' = ListedBy(u)
    BY <1>1, <1>2 DEF ListedBy
  <2> QED BY <1>1, <1>2, <2>1
      DEF Still, HasCounted, Scanned, UnitsNamed, Listed, Filled, AfterScan
<1>6. ASSUME NEW u \in Waves PROVE OutBy(u)'
  <2>1. OutBy(u)
    BY DEF AllOut
  <2>2. CASE u # w
    BY <1>1, <1>4, <1>5, <2>1, <2>2, StillOut
  <2>3. CASE u = w
    <3>1. UnitsOut(w)'
      <4> SUFFICES ASSUME NEW e \in ThreadExpertsOf(w), Enabled(e) PROVE UnitsSorted(e)'
        BY SameBlock, SameProblem DEF UnitsOut
      <4> QED BY <1>3, OwnExperts
    <3> QED BY <1>1, <1>4, <1>5, <2>1, <2>3, <3>1, OutRetained
  <2> QED BY <2>2, <2>3
<1>7. TotalOut'
  <2>1. 0 \in Waves
    BY RowSizes DEF Waves
  <2>2. TotalOut /\ (Scanned(0)' => Scanned(0))
    BY <1>5, <2>1 DEF AllOut
  <2> QED BY <1>1, <2>2, SameReference DEF TotalOut
<1> QED BY <1>6, <1>7 DEF AllOut

\* What is left of the lists when all tokens are listed.
LEMMA LeftOver ==
  ASSUME WavesInv, BlockSound, AllGot, NEW w \in Waves, pc[w] = "pad",
         NEW e \in ThreadExpertsOf(w)
  PROVE  smem_cumsum[e]..(smem_cumdup[e + 1] - 1)
           = IF Enabled(e) THEN (StartAt(e) + TokensOf(e))..(StartAt(e + 1) - 1) ELSE {}
<1>1. input \in Inputs /\ input.experts \in Nat \ {0} /\ e \in Experts
  BY OwnExperts, Problem DEF WavesInv
<1>2. smem_cumsum[e] = StartAt(e) + IF Enabled(e) THEN TokensOf(e) ELSE 0
  <2>1. PICK v \in Waves : e \in GroupExpertsOf(v)
    BY <1>1, WavesCover
  <2>2. pc[v] \in {"pad", "done"}
    BY SamePiece
  <2>3. ListedBy(v) = input.tokens /\ pc[v] \in AfterScan
    BY <2>2 DEF ListedBy, AfterScan
  <2>4. StartsExact(v)
    BY DEF AllGot, GotInv
  <2> QED BY <2>1, <2>3, <2>4 DEF StartsExact, TokensOf
<1>3. smem_cumdup[e + 1] = StartAt(e + 1)
  <2>1. CASE e + 1 = input.experts
    <3>1. StartsCopied(w) /\ pc[w] \in AfterScan \ {"ids"}
      BY DEF AllGot, GotInv, AfterScan
    <3> QED BY <2>1, <3>1 DEF StartsCopied
  <2>2. CASE e + 1 # input.experts
    <3>1. e + 1 \in Experts
      BY <1>1, <2>2 DEF Experts
    <3>2. PICK v \in Waves : e + 1 \in ThreadExpertsOf(v)
      BY <1>1, <3>1, WavesCover
    <3>3. pc[v] \in AfterScan \ {"ids"}
      BY SamePiece DEF AfterScan
    <3>4. StartsCopied(v)
      BY DEF AllGot, GotInv
    <3> QED BY <3>2, <3>3, <3>4 DEF StartsCopied
  <2> QED BY <2>1, <2>2
<1>4. CASE Enabled(e)
  BY <1>2, <1>3, <1>4
<1>5. CASE ~Enabled(e)
  <2>1. e \in 0..input.experts /\ e + 1 \in 0..input.experts
    BY <1>1 DEF Experts
  <2>2. UnitStart[e + 1] = UnitStart[e] + ListUnits(e) /\ UnitStart[e] \in Nat
    BY <1>1, <2>1, ListsInOrder
  <2>3. ListUnits(e) = 0
    BY <1>5 DEF ListUnits
  <2>4. StartAt(e + 1) = StartAt(e) /\ StartAt(e) \in Nat
    <3>1. UnitStart[e + 1] = UnitStart[e] /\ UnitSize \in Nat
      BY <2>2, <2>3, SortAssumption
    <3> QED BY <2>2, <3>1 DEF StartAt
  <2> DEFINE a == StartAt(e)
  <2> HIDE DEF a
  <2>5. smem_cumsum[e] = a /\ smem_cumdup[e + 1] = a /\ a \in Nat
    BY <1>2, <1>3, <1>5, <2>4 DEF a
  <2> QED BY <1>5, <2>5
<1> QED BY <1>4, <1>5

\* The rest of the lists.
LEMMA PadOut ==
  ASSUME WavesInv, BlockSound, OutOK, AllGot, AllOut, NEW w \in Waves, Pad(w),
         UNCHANGED <<input, sub_tokens>>
  PROVE  AllOut'
<1> DEFINE left(e) == smem_cumsum[e]..(smem_cumdup[e + 1] - 1)
           places == UNION {left(e) : e \in ThreadExpertsOf(w)}
           writes == [x \in places |-> PadEntry]
<1>1. /\ pc[w] = "pad" /\ ~waiting[w] /\ GoTo(w, "done") /\ input \in Inputs
      /\ out'.sorted = Stored(writes, out.sorted) /\ out'.total = out.total
      /\ out'.counts = out.counts /\ out'.expert_ids = out.expert_ids
      /\ out'.positions = out.positions
  BY DEF Pad, At, OutOK, WavesInv
<1>2. /\ UNCHANGED <<waiting, i_token>> /\ pc'[w] = "done"
      /\ \A v \in Waves : v # w => pc'[v] = pc[v]
  BY <1>1 DEF GoTo, WavesInv
<1>3. \A e \in ThreadExpertsOf(w) :
        left(e) = IF Enabled(e) THEN (StartAt(e) + TokensOf(e))..(StartAt(e + 1) - 1) ELSE {}
  BY <1>1, LeftOver
<1> HIDE DEF left
<1>4. \A x \in DOMAIN writes : \E e \in Experts : Enabled(e) /\ ListWord(e, x, writes[x])
  <2> SUFFICES ASSUME NEW x \in places
               PROVE  \E e \in Experts : Enabled(e) /\ ListWord(e, x, PadEntry)
    OBVIOUS
  <2>1. PICK e \in ThreadExpertsOf(w) : x \in left(e)
    OBVIOUS
  <2>2. Enabled(e) /\ x \in (StartAt(e) + TokensOf(e))..(StartAt(e + 1) - 1)
    BY <1>3, <2>1
  <2> QED BY <2>2, OwnExperts DEF ListWord
<1>5. ASSUME NEW e \in ThreadExpertsOf(w), Enabled(e),
             NEW x \in (StartAt(e) + TokensOf(e))..(StartAt(e + 1) - 1)
      PROVE  Holds(out'.sorted, x, PadEntry)
  <2>1. x \in places
    BY <1>3, <1>5
  <2>2. Holds(writes, x, PadEntry)
    BY <2>1 DEF Holds
  <2> HIDE DEF writes
  <2> QED BY <1>1, <2>2, StoredHolds
<1>6. Retains
  <2>1. ASSUME NEW e \in Experts, NEW x, NEW v, Enabled(e), ListWord(e, x, v), Holds(out.sorted, x, v)
        PROVE  Holds(out'.sorted, x, v)
    <3> HIDE DEF writes
    <3> QED BY <1>1, <1>4, <2>1, ListWordsStay
  <2> QED BY <1>1, <2>1, SameRetains DEF Retains
<1>7. ASSUME NEW u \in Waves
      PROVE  /\ u # w => Still(u)
             /\ HasCounted(u)' => HasCounted(u)
             /\ UnitsNamed(u)' => UnitsNamed(u)
             /\ \A t \in Tokens : Listed(u, t)' => Listed(u, t)
             /\ Filled(u)' => Filled(u)
             /\ Scanned(u)' => Scanned(u)
  <2>1. ListedBy(u)' = ListedBy(u)
    BY <1>1, <1>2 DEF ListedBy
  <2> QED BY <1>1, <1>2, <2>1
      DEF Still, HasCounted, Scanned, UnitsNamed, Listed, Filled, AfterScan
<1>8. ASSUME NEW u \in Waves PROVE OutBy(u)'
  <2>1. OutBy(u)
    BY DEF AllOut
  <2>2. CASE u # w
    BY <1>1, <1>6, <1>7, <2>1, <2>2, StillOut
  <2>3. CASE u = w
    <3>1. PaddingOut(w)'
      BY <1>5, SameBlock, SameProblem, SameReference DEF PaddingOut, Holds
    <3> QED BY <1>1, <1>6, <1>7, <2>1, <2>3, <3>1, OutRetained
  <2> QED BY <2>2, <2>3
<1>9. TotalOut'
  <2>1. 0 \in Waves
    BY RowSizes DEF Waves
  <2>2. TotalOut /\ (Scanned(0)' => Scanned(0))
    BY <1>7, <2>1 DEF AllOut
  <2> QED BY <1>1, <2>2, SameReference DEF TotalOut
<1> QED BY <1>8, <1>9 DEF AllOut

\* What a wave lists in a round are words of its lists, among them those of
\* the tokens of the round.
LEMMA WordsFilled ==
  ASSUME WavesInv, BlockSound, OutOK, AllGot, NEW w \in Waves, Fill(w)
  PROVE  \E writes :
           /\ out'.sorted = Stored(writes, out.sorted)
           /\ \A x \in DOMAIN writes : \E e \in Experts : Enabled(e) /\ ListWord(e, x, writes[x])
           /\ \A e \in FillExpertsOf(w), s \in Rows :
                Names(i_token[w] + s, e) =>
                  Holds(writes, StartAt(e) + Named(e, i_token[w] + s),
                        Entry(i_token[w] + s, TopkIdOf(i_token[w] + s, e)))
<1> DEFINE F == FillExpertsOf(w)
           upTo == Positions(w)
           cells == {c \in DOMAIN upTo : smem_tokens[c] # 0}
           entry(c) == Entry(i_token[w] + c[1], smem_tokens[c] - 1)
           pick(x) == CHOOSE d \in cells : upTo[d] - 1 = x
           writes == [x \in {upTo[c] - 1 : c \in cells} |->
                        LET c == CHOOSE d \in cells : upTo[d] - 1 = x
                        IN Entry(i_token[w] + c[1], smem_tokens[c] - 1)]
<1>1. out'.sorted = Stored(writes, out.sorted) /\ At(w, "fill") /\ input \in Inputs
  BY DEF Fill, OutOK, WavesInv
<1>2. DOMAIN writes = {upTo[c] - 1 : c \in cells}
      /\ \A x \in DOMAIN writes : writes[x] = entry(pick(x))
  OBVIOUS
<1>3. DOMAIN upTo = Rows \X F
  BY PositionsDomain
<1>4. ASSUME NEW e \in F, NEW s \in Rows
      PROVE  /\ e \in Experts /\ Enabled(e)
             /\ <<s, e>> \in cells <=> Names(i_token[w] + s, e)
             /\ Names(i_token[w] + s, e) =>
                  /\ upTo[<<s, e>>] - 1 = StartAt(e) + Named(e, i_token[w] + s)
                  /\ entry(<<s, e>>) = Entry(i_token[w] + s, TopkIdOf(i_token[w] + s, e))
                  /\ ListWord(e, upTo[<<s, e>>] - 1, entry(<<s, e>>))
  <2> DEFINE t == i_token[w] + s
             c == <<s, e>>
  <2>1. e \in Experts /\ Enabled(e)
    BY OwnExperts
  <2>2. /\ smem_tokens[c] # 0 <=> Names(t, e)
        /\ Names(t, e) => /\ smem_tokens[c] = TopkIdOf(t, e) + 1
                          /\ upTo[c] - 1 = StartAt(e) + Named(e, t)
    <3>1. CellsShow(w) /\ StartsExact(w)
      BY DEF AllGot, GotInv
    <3> QED BY <1>1, <3>1, FilledExactly
  <2>3. c \in DOMAIN upTo
    BY <1>3
  <2>4. ASSUME Names(t, e) PROVE TopkIdOf(t, e) \in Int /\ t \in Tokens
    <3>1. \E k \in TopkIds : input.ids[t][k] = e
      BY <2>4 DEF Names
    <3>2. TopkIdOf(t, e) \in TopkIds
      BY <3>1 DEF TopkIdOf
    <3> QED BY <2>4, <3>2 DEF TopkIds, Names
  <2>5. c[1] = s
    OBVIOUS
  <2>6. ASSUME Names(t, e) PROVE entry(c) = Entry(t, TopkIdOf(t, e))
    <3>1. smem_tokens[c] - 1 = TopkIdOf(t, e)
      BY <2>2, <2>4, <2>6
    <3> QED BY <2>5, <3>1
  <2> HIDE DEF upTo, entry, c, t
  <2>7. Names(t, e) => ListWord(e, upTo[c] - 1, entry(c))
    BY <2>2, <2>4, <2>6 DEF ListWord
  <2>8. c \in cells <=> Names(t, e)
    BY <2>2, <2>3
  <2> HIDE DEF cells
  <2> QED BY <2>1, <2>2, <2>6, <2>7, <2>8 DEF c, t
<1> HIDE DEF upTo, entry
<1>5. ASSUME NEW x \in DOMAIN writes
      PROVE  \E e \in Experts : Enabled(e) /\ ListWord(e, x, writes[x])
  <2>1. pick(x) \in cells /\ upTo[pick(x)] - 1 = x
    BY <1>2, <1>5
  <2> DEFINE d == pick(x)
  <2>2. d \in cells /\ upTo[d] - 1 = x /\ writes[x] = entry(d)
    <3> HIDE DEF writes
    <3> QED BY <1>2, <1>5, <2>1
  <2> HIDE DEF d, writes
  <2>3. d \in Rows \X F
    BY <1>3, <2>2
  <2>4. PICK s \in Rows, e \in F : d = <<s, e>>
    BY <2>3
  <2> HIDE DEF cells
  <2> QED BY <1>4, <2>2, <2>4
<1>6. ASSUME NEW e \in F, NEW s \in Rows, Names(i_token[w] + s, e)
      PROVE  Holds(writes, StartAt(e) + Named(e, i_token[w] + s),
                   Entry(i_token[w] + s, TopkIdOf(i_token[w] + s, e)))
  <2> DEFINE c == <<s, e>>
             x == upTo[c] - 1
  <2>1. /\ c \in cells /\ e \in Experts /\ Enabled(e)
        /\ x = StartAt(e) + Named(e, i_token[w] + s)
        /\ entry(c) = Entry(i_token[w] + s, TopkIdOf(i_token[w] + s, e))
        /\ ListWord(e, x, entry(c))
    BY <1>4, <1>6
  <2>2. x \in DOMAIN writes
    <3> HIDE DEF writes, cells, c
    <3> QED BY <1>2, <2>1
  <2> HIDE DEF x, c, writes, cells
  <2>3. PICK f \in Experts : Enabled(f) /\ ListWord(f, x, writes[x])
    BY <1>5, <2>2
  <2>4. writes[x] = entry(c)
    BY <1>1, <2>1, <2>3, OneWord
  <2> QED BY <2>1, <2>2, <2>4 DEF Holds
<1> HIDE DEF writes
<1> QED BY <1>1, <1>5, <1>6

\* The tokens of a round, in the lists of the wave's experts.
LEMMA FillOut ==
  ASSUME WavesInv, BlockSound, OutOK, AllGot, AllOut, NEW w \in Waves, Fill(w),
         UNCHANGED <<input, sub_tokens>>
  PROVE  AllOut'
<1> DEFINE F == FillExpertsOf(w)
           starts == [e \in F |-> smem_cumsum[e]]
<1>1. /\ At(w, "fill") /\ pc[w] = "fill" /\ ~waiting[w] /\ Arrive(w)
      /\ input \in Inputs /\ BlockOK
      /\ out'.positions = Stored(starts, out.positions) /\ out'.total = out.total
      /\ out'.counts = out.counts /\ out'.expert_ids = out.expert_ids
  BY DEF Fill, At, OutOK, WavesInv, BlockSound
<1>2. PICK writes :
        /\ out'.sorted = Stored(writes, out.sorted)
        /\ \A x \in DOMAIN writes : \E e \in Experts : Enabled(e) /\ ListWord(e, x, writes[x])
        /\ \A e \in F, s \in Rows :
             Names(i_token[w] + s, e) =>
               Holds(writes, StartAt(e) + Named(e, i_token[w] + s),
                     Entry(i_token[w] + s, TopkIdOf(i_token[w] + s, e)))
  BY WordsFilled
<1>3. ASSUME SubTokenOneShot, NEW e \in F PROVE Holds(out'.positions, e, StartAt(e))
  <2>1. i_token[w] = 0 /\ e \in Experts
    BY <1>1, <1>3, OwnExperts DEF BlockOK
  <2>2. smem_cumsum[e] = StartAt(e) + Named(e, 0)
    <3>1. CellsShow(w) /\ StartsExact(w)
      BY DEF AllGot, GotInv
    <3> QED BY <1>1, <2>1, <3>1, FilledExactly
  <2>3. Named(e, 0) = 0
    <3>1. 0 \in Nat
      OBVIOUS
    <3> QED BY <1>1, <3>1, NamedStep
  <2>4. StartAt(e) \in Nat
    BY <1>1, <2>1, StartsWithin
  <2>5. smem_cumsum[e] = StartAt(e)
    <3> HIDE DEF StartAt
    <3> QED BY <2>2, <2>3, <2>4
  <2>6. Holds(starts, e, StartAt(e))
    BY <2>5 DEF Holds
  <2> HIDE DEF starts
  <2> QED BY <1>1, <2>6, StoredHolds
<1>4. Retains
  <2>1. ASSUME NEW e \in Experts, NEW x, NEW v, Enabled(e), ListWord(e, x, v), Holds(out.sorted, x, v)
        PROVE  Holds(out'.sorted, x, v)
    BY <1>1, <1>2, <2>1, ListWordsStay
  <2>2. ASSUME SubTokenOneShot, NEW e \in Experts, Holds(out.positions, e, StartAt(e))
        PROVE  Holds(out'.positions, e, StartAt(e))
    <3>1. CASE e \in F
      BY <1>3, <2>2, <3>1
    <3>2. CASE e \notin F
      <4>1. e \notin DOMAIN starts
        BY <3>2
      <4> HIDE DEF starts
      <4> QED BY <1>1, <2>2, <4>1, StoredHolds
    <3> QED BY <3>1, <3>2
  <2> QED BY <1>1, <2>1, <2>2, SameRetains DEF Retains
<1>5. ASSUME NEW u \in Waves
      PROVE  /\ u # w => Still(u)
             /\ HasCounted(u)' => HasCounted(u)
             /\ UnitsNamed(u)' => UnitsNamed(u)
             /\ pc'[u] = pc[u]
             /\ Scanned(u)' => Scanned(u)
  <2>1. pc[u] \notin {"count", "scan"}
    BY <1>1, SamePiece
  <2> QED BY <1>1, <2>1, OthersStill
<1>6. ASSUME NEW e \in F, NEW t \in Tokens, Listed(w, t)', Names(t, e)
      PROVE  \/ Listed(w, t)
             \/ Holds(out'.sorted, StartAt(e) + Named(e, t), Entry(t, TopkIdOf(t, e)))
  <2> SUFFICES ASSUME ~Listed(w, t)
               PROVE  Holds(out'.sorted, StartAt(e) + Named(e, t), Entry(t, TopkIdOf(t, e)))
    OBVIOUS
  <2>1. UNCHANGED <<pc, i_token>> /\ waiting'[w]
    BY <1>1 DEF Arrive, WavesInv
  <2>2. t < i_token[w] + sub_tokens /\ ~(t < i_token[w])
    BY <1>1, <1>6, <2>1 DEF Listed, ListedBy, AfterScan
  <2>3. /\ i_token[w] \in Nat /\ t \in Nat /\ sub_tokens \in Nat
    BY <1>1 DEF BlockOK, Tokens
  <2> DEFINE s == t - i_token[w]
  <2>4. s \in Rows /\ i_token[w] + s = t
    BY <2>2, <2>3 DEF Rows
  <2>5. Holds(writes, StartAt(e) + Named(e, t), Entry(t, TopkIdOf(t, e)))
    <3> HIDE DEF s
    <3> QED BY <1>2, <1>6, <2>4
  <2> QED BY <1>2, <2>5, StoredHolds
<1>7. ASSUME NEW u \in Waves PROVE OutBy(u)'
  <2>1. OutBy(u)
    BY DEF AllOut
  <2>2. CASE u # w
    BY <1>1, <1>4, <1>5, <2>1, <2>2, StillOut
  <2>3. CASE u = w
    <3>1. PositionsOut(w)'
      <4>1. FillExpertsOf(w)' = FillExpertsOf(w)
        BY SameBlock, SameProblem DEF FillExpertsOf
      <4> QED BY <1>3, <4>1, SameBlock DEF PositionsOut, Holds
    <3>2. pc'[w] = "done" => pc[w] = "done"
      BY <1>5
    <3> QED BY <1>1, <1>4, <1>5, <1>6, <2>1, <2>3, <3>1, <3>2, OutRetained
  <2> QED BY <2>2, <2>3
<1>8. TotalOut'
  <2>1. 0 \in Waves
    BY RowSizes DEF Waves
  <2>2. TotalOut /\ (Scanned(0)' => Scanned(0))
    BY <1>5, <2>1 DEF AllOut
  <2> QED BY <1>1, <2>2, SameReference DEF TotalOut
<1> QED BY <1>7, <1>8 DEF AllOut

\* What one block relies on, and what it has delivered.
ExactInv == path = <<>> => AllGot /\ AllOut

\* At first nothing is there to be shown, and nothing to be delivered.
LEMMA ExactInit == Init => ExactInv
<1> SUFFICES ASSUME Init, path = <<>> PROVE AllGot /\ AllOut
  BY DEF ExactInv
<1>1. \A w \in Waves : pc[w] = "clear"
  BY DEF Init, StartOfBlock
<1>2. 0 \in Waves
  BY RowSizes DEF Waves
<1>3. \A w \in Waves : GotInv(w)
  BY <1>1 DEF GotInv, CellsShow, Found, StartsExact, NumbersKept, StartsCopied, AfterScan
<1>4. \A w \in Waves : OutBy(w)
  BY <1>1 DEF OutBy, CountsOut, UnitsOut, ListsOut, PaddingOut, PositionsOut,
              HasCounted, UnitsNamed, Listed, Filled, AfterScan
<1>5. TotalOut
  BY <1>1, <1>2 DEF TotalOut, Scanned, AfterScan
<1> QED BY <1>3, <1>4, <1>5 DEF AllGot, AllOut

\* Each step keeps it.
LEMMA ExactStep ==
  WavesInv /\ OutOK /\ BlockInv /\ OneRoundSmall /\ ExactInv /\ [Next]_vars => ExactInv'
<1> SUFFICES ASSUME WavesInv, OutOK, BlockInv, OneRoundSmall, ExactInv, [Next]_vars
             PROVE  ExactInv'
  OBVIOUS
<1> SUFFICES ASSUME path = <<>> PROVE AllGot' /\ AllOut'
  <2>1. path' = path
    <3>1. MpNext => path' = path
      BY DEF MpNext, P0, P1, P01Mesh, P01Inc, P01Count, P2, P3, P23, NextKernel
    <3>2. UNCHANGED <<mpVars, sorts>> => path' = path
      BY DEF mpVars
    <3>3. UNCHANGED vars => path' = path
      BY DEF vars, mpVars
    <3>4. Again => path' = path
      BY DEF Again
    <3> QED BY <3>1, <3>2, <3>3, <3>4 DEF Next, Terminated
  <2> QED BY <2>1 DEF ExactInv
<1>1. BlockSound /\ AllGot /\ AllOut
  BY DEF BlockInv, ExactInv
<1>2. AllGot'
  BY <1>1, GotStep
<1>3. CASE ExNext
  <2>1. UNCHANGED <<input, sub_tokens>>
    BY <1>3 DEF ExNext
  <2>2. \/ \E w \in Waves :
             \/ (\E point \in {"clear", "clear2"} : Clear(w, point)) /\ UNCHANGED out
             \/ (Load(w) \/ Load2(w)) /\ UNCHANGED out
             \/ Count(w) \/ Scan(w) \/ Ids(w) \/ Fill(w) \/ Pad(w)
        \/ Syncthreads \/ ClearMoeBuf
    BY <1>3 DEF ExNext
  <2>3. ASSUME NEW w \in Waves, Count(w) \/ Scan(w) PROVE AllOut'
    BY <1>1, <2>1, <2>3, CountOut, ScanOut
  <2>4. ASSUME NEW w \in Waves, Ids(w) \/ Fill(w) \/ Pad(w) PROVE AllOut'
    BY <1>1, <2>1, <2>4, IdsOut, FillOut, PadOut
  <2>5. ASSUME UNCHANGED out,
               \E w \in Waves : \/ \E point \in {"clear", "clear2"} : Clear(w, point)
                                \/ Load(w) \/ Load2(w)
        PROVE  AllOut'
    BY <1>1, <2>1, <2>5, OutUntouched
  <2>6. ASSUME Syncthreads \/ ClearMoeBuf PROVE AllOut'
    BY <1>1, <2>1, <2>6, OutUntouched
  <2> QED BY <1>2, <2>2, <2>3, <2>4, <2>5, <2>6
<1>4. CASE MpNext
  <2>1. stage \in DOMAIN path
    BY <1>4 DEF MpNext, P0, P1, P01Mesh, P01Inc, P01Count, P2, P3, P23, NextKernel, Running
  <2> QED BY <2>1
<1>5. CASE Again
  BY <1>1, <1>2, <1>5, AgainOut
<1>6. CASE UNCHANGED vars
  <2>1. UNCHANGED <<out, exVars>> /\ UNCHANGED <<input, sub_tokens>>
    BY <1>6 DEF vars, exVars
  <2> QED BY <1>1, <1>2, <2>1, OutUntouched
<1> QED BY <1>3, <1>4, <1>5, <1>6 DEF Next, Terminated

\* When the waves are done, their parts make up what the reference says.
LEMMA BlockDone ==
  ASSUME WavesInv, AllOut, path = <<>>, Finished
  PROVE  SortedOnExit
<1>1. /\ input \in Inputs /\ 0 \in Waves /\ input.experts \in Nat \ {0} /\ input.tokens \in Nat
      /\ \A w \in Waves : pc[w] = "done"
      /\ out.cleared = 0..(BufWords - 1)
  BY RowSizes, Problem DEF WavesInv, Finished, Waves
<1>2. \A w \in Waves : OutBy(w)
  BY DEF AllOut
<1>3. \A w \in Waves :
        /\ HasCounted(w) /\ Scanned(w) /\ UnitsNamed(w) /\ Filled(w)
        /\ \A t \in Tokens : Listed(w, t)
  BY <1>1 DEF HasCounted, Scanned, UnitsNamed, Filled, Listed, ListedBy, AfterScan, Tokens
<1>4. out.total = StartAt(input.experts)
  BY <1>1, <1>3 DEF AllOut, TotalOut
<1>5. ASSUME NEW e \in Experts, Enabled(e) PROVE UnitsSorted(e) /\ ListSorted(e)
  <2>1. PICK v \in Waves : e \in GroupExpertsOf(v)
    BY <1>1, WavesCover
  <2>2. PICK u \in Waves : e \in ThreadExpertsOf(u)
    BY <1>1, WavesCover
  <2>3. UnitsSorted(e)
    BY <1>2, <1>3, <1>5, <2>2 DEF OutBy, UnitsOut
  <2>4. \A t \in Tokens : Names(t, e) =>
          Holds(out.sorted, StartAt(e) + Named(e, t), Entry(t, TopkIdOf(t, e)))
    <3>1. e \in FillExpertsOf(v)
      BY <1>5, <2>1 DEF FillExpertsOf
    <3> QED BY <1>2, <1>3, <3>1 DEF OutBy, ListsOut
  <2>5. \A x \in (StartAt(e) + TokensOf(e))..(StartAt(e + 1) - 1) : Holds(out.sorted, x, PadEntry)
    BY <1>1, <1>2, <1>5, <2>2 DEF OutBy, PaddingOut
  <2> QED BY <2>3, <2>4, <2>5 DEF ListSorted
<1>6. ListsAreReference
  <2>1. ListsSorted
    BY <1>4, <1>5 DEF ListsSorted
  <2> QED BY <1>1, <2>1, SortedIsReference
<1>7. CountsAreReference
  <2> SUFFICES ASSUME NEW e \in Experts
               PROVE  e \in DOMAIN out.counts /\ out.counts[e] = Len(EntriesOf(e))
    BY DEF CountsAreReference
  <2>1. PICK v \in Waves : e \in GroupExpertsOf(v)
    BY <1>1, WavesCover
  <2>2. Holds(out.counts, e, TokensOf(e))
    BY <1>2, <1>3, <2>1 DEF OutBy, CountsOut
  <2>3. Len(EntriesOf(e)) = TokensOf(e)
    BY <1>1, EntriesAre
  <2> QED BY <2>2, <2>3 DEF Holds
<1>8. ASSUME SubTokenOneShot, NEW e \in Experts, Kept(e) PROVE out.positions[e] = RefStart(e)
  <2>1. PICK v \in Waves : e \in GroupExpertsOf(v)
    BY <1>1, WavesCover
  <2>2. e \in FillExpertsOf(v)
    BY <1>8, <2>1 DEF FillExpertsOf, Kept
  <2>3. Holds(out.positions, e, StartAt(e))
    BY <1>2, <1>3, <1>8, <2>2 DEF OutBy, PositionsOut
  <2>4. RefStart(e) = StartAt(e)
    <3>1. e \in 0..input.experts
      BY <1>1 DEF Experts
    <3> QED BY <1>1, <3>1, ReferenceIs
  <2> QED BY <2>3, <2>4 DEF Holds
<1>9. "P23" \notin Range(path)
  <2>1. DOMAIN path = {}
    OBVIOUS
  <2> QED BY <2>1 DEF Range
<1> QED BY <1>1, <1>6, <1>7, <1>8, <1>9 DEF SortedOnExit

(* Whatever the problem, the waves of a block and their order, in one      *)
(* round or in several, a single block leaves the outputs of the           *)
(* reference: the waves share the starts of the lists, and no barrier      *)
(* keeps the one that still reads them from the one that moves them; a     *)
(* block of one round has few enough experts for its first wave alone.     *)
THEOREM OneBlockSorts ==
  ASSUME FewIfOneRound
  PROVE  Spec => [](path = <<>> => SortedOnExit)
<1>1. Init => OneRoundSmall /\ ExactInv
  BY RoundsStay, ExactInit
<1>2. WavesInv /\ OutOK /\ BlockInv /\ OneRoundSmall /\ ExactInv /\ [Next]_vars
        => OneRoundSmall' /\ ExactInv'
  BY RoundsStep, ExactStep
<1>3. WavesInv /\ ExactInv => (path = <<>> => SortedOnExit)
  BY BlockDone DEF SortedOnExit, ExactInv
<1> QED BY <1>1, <1>2, <1>3, SortInvariance, PTL DEF Spec

(* The sort leaves the outputs of the reference, whichever way the host    *)
(* takes, the multi-phase kernels or one block, for the problems of both   *)
(* theorems: in particular all that are sorted with experts skipped and    *)
(* with few enough of them for a block of one round.                       *)
THEOREM SortIsReference ==
  ASSUME FewIfOneRound, NoEmptyLists, NoIdleUnits
  PROVE  Spec => []SortedOnExit
<1>1. (path = <<>> => SortedOnExit) /\ (path # <<>> => SortedOnExit) => SortedOnExit
  OBVIOUS
<1> QED BY <1>1, OneBlockSorts, MultiPhaseSorts, PTL
==============================================================================
