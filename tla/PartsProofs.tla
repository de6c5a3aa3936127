----------------------------- MODULE PartsProofs -----------------------------
(***************************************************************************)
(* Theorems about path keys and about allocations in the port registry,    *)
(* for every set of names, every root, and any number of clients and       *)
(* requests.                                                               *)
(*                                                                         *)
(* Both are folds over sequences.  A fold is first turned into the         *)
(* sequence of its intermediate results; what holds of the last one is     *)
(* then shown for all of them, from one to the next.                       *)
(***************************************************************************)
EXTENDS PathKeys, PortRegistry, FiniteSetTheorems, WellFoundedInduction, TLAPS

(***************************************************************************)
(* Induction, by the least counterexample                                  *)
(***************************************************************************)

LEMMA LeastExists ==
  ASSUME NEW S \in SUBSET Nat, S # {}
  PROVE  \E n \in S : \A m \in S : n <= m
<1>1. PICK n \in S : \A m \in S : ~(<<m, n>> \in OpToRel(<, Nat))
  BY NatLessThanWellFounded, WFMin
<1>2. \A m \in S : ~(m < n)
  <2> SUFFICES ASSUME NEW m \in S
               PROVE  ~(m < n)
    OBVIOUS
  <2>1. <<m, n>> \in Nat \X Nat /\ <<m, n>>[1] = m /\ <<m, n>>[2] = n
    OBVIOUS
  <2>2. <<m, n>> \notin {ss \in Nat \X Nat : ss[1] < ss[2]}
    BY <1>1 DEF OpToRel
  <2>. QED
    BY <2>1, <2>2
<1>. QED
  BY <1>2

(* A set that holds 0 and with each number below N the next one.           *)
LEMMA UpTo ==
  ASSUME NEW N \in Nat, NEW S, 0 \in S,
         \A n \in 0 .. N : n \in S /\ n # N => n + 1 \in S
  PROVE  \A n \in 0 .. N : n \in S
<1> SUFFICES ASSUME {n \in 0 .. N : n \notin S} # {}
             PROVE  FALSE
  OBVIOUS
<1>1. PICK m \in {n \in 0 .. N : n \notin S} : \A k \in {n \in 0 .. N : n \notin S} : m <= k
  <2>1. {n \in 0 .. N : n \notin S} \in SUBSET Nat
    OBVIOUS
  <2>. QED
    BY <2>1, LeastExists
<1>2. m # 0 /\ m - 1 \in 0 .. N /\ m - 1 # N
  BY <1>1
<1>3. m - 1 \in S
  BY <1>1, <1>2
<1>. QED
  BY <1>1, <1>2, <1>3

LEMMA LeastIsMin ==
  ASSUME NEW S \in SUBSET Nat, S # {}
  PROVE  Min(S) \in S /\ \A m \in S : Min(S) <= m
<1>1. \E n \in S : \A m \in S : n <= m
  BY LeastExists
<1>. QED
  BY <1>1 DEF Min

LEMMA GreatestIsMax ==
  ASSUME NEW N \in Nat, NEW S \in SUBSET (1 .. N), S # {}
  PROVE  Max(S) \in S /\ \A m \in S : m <= Max(S)
<1>1. {N - x : x \in S} \in SUBSET Nat /\ {N - x : x \in S} # {}
  <2>1. \A x \in S : x \in Int /\ N - x \in Nat
    OBVIOUS
  <2>2. PICK x : x \in S
    OBVIOUS
  <2>3. N - x \in {N - y : y \in S}
    BY <2>2
  <2>. QED
    BY <2>1, <2>3
<1>2. PICK n \in {N - x : x \in S} : \A m \in {N - x : x \in S} : n <= m
  BY <1>1, LeastExists
<1>3. PICK x \in S : n = N - x
  BY <1>2
<1>4. \A y \in S : x >= y
  <2> SUFFICES ASSUME NEW y \in S
               PROVE  x >= y
    OBVIOUS
  <2>1. n <= N - y /\ x \in 1 .. N /\ y \in 1 .. N
    BY <1>2
  <2>. QED
    BY <1>3, <2>1
<1>5. Max(S) \in S /\ \A y \in S : Max(S) >= y
  BY <1>4 DEF Max
<1>. QED
  BY <1>5

(***************************************************************************)
(* Folds from the left.  `step` is the operator that is folded, as a       *)
(* function of a position and of what was folded before it.                *)
(***************************************************************************)

LEMMA Cut ==
  ASSUME NEW k \in Nat, NEW N \in Nat, k < N
  PROVE  /\ 1 .. k + 1 \in SUBSET (1 .. N) /\ 1 .. k + 1 # {}
         /\ Max(1 .. k + 1) = k + 1
         /\ (1 .. k + 1) \ {k + 1} = 1 .. k
<1>1. k + 1 \in 1 .. k + 1 /\ \A y \in 1 .. k + 1 : k + 1 >= y
  OBVIOUS
<1>2. \A x \in 1 .. k + 1 : (\A y \in 1 .. k + 1 : x >= y) => x = k + 1
  OBVIOUS
<1>3. Max(1 .. k + 1) = k + 1
  BY <1>1, <1>2 DEF Max
<1>. QED
  BY <1>3

IsFold(step, base, N, g) ==
  g = [s \in SUBSET (1 .. N) |->
         IF s = {} THEN base ELSE step[Max(s)][g[s \ {Max(s)}]]]

LEMMA FoldExists ==
  ASSUME NEW N \in Nat, NEW V, NEW base \in V, NEW step,
         \A i \in 1 .. N : \A v \in V : step[i][v] \in V
  PROVE  \E g : IsFold(step, base, N, g) /\ \A s \in SUBSET (1 .. N) : g[s] \in V
<1> DEFINE Good(g, n) == IsFold(step, base, n, g) /\ \A s \in SUBSET (1 .. n) : g[s] \in V
           S == {n \in 0 .. N : \E g : Good(g, n)}
<1>1. 0 \in S
  <2> DEFINE g == [s \in SUBSET (1 .. 0) |-> base]
  <2>0. \A s \in SUBSET (1 .. 0) : s = {}
    OBVIOUS
  <2>1. \A s \in SUBSET (1 .. 0) : g[s] = IF s = {} THEN base ELSE step[Max(s)][g[s \ {Max(s)}]]
    BY <2>0
  <2>2. g = [s \in SUBSET (1 .. 0) |-> IF s = {} THEN base ELSE step[Max(s)][g[s \ {Max(s)}]]]
    BY <2>1
  <2>3. Good(g, 0)
    BY <2>2 DEF IsFold
  <2>. HIDE DEF Good
  <2>. QED
    BY <2>3
<1>2. ASSUME NEW n \in 0 .. N, n \in S, n # N
      PROVE  n + 1 \in S
  <2>1. PICK g : Good(g, n)
    BY <1>2
  <2>2. \A s \in SUBSET (1 .. n) :
          g[s] \in V /\ g[s] = IF s = {} THEN base ELSE step[Max(s)][g[s \ {Max(s)}]]
    BY <2>1 DEF IsFold
  <2> DEFINE h == [s \in SUBSET (1 .. n + 1) |->
                     IF n + 1 \in s THEN step[n + 1][g[s \ {n + 1}]] ELSE g[s]]
  <2>3. n + 1 \in 1 .. N /\ n + 1 \in 0 .. N
    BY <1>2
  <2>4. ASSUME NEW s \in SUBSET (1 .. n + 1)
        PROVE  h[s] \in V /\ h[s] = IF s = {} THEN base ELSE step[Max(s)][h[s \ {Max(s)}]]
    <3>1. CASE n + 1 \in s
      <4>1. Max(s) = n + 1
        <5>1. \A y \in s : n + 1 >= y
          OBVIOUS
        <5>2. \A x \in s : (\A y \in s : x >= y) => x = n + 1
          BY <3>1
        <5>. QED
          BY <3>1, <5>1, <5>2 DEF Max
      <4>2. s \ {n + 1} \in SUBSET (1 .. n) /\ s \ {n + 1} \in SUBSET (1 .. n + 1)
        OBVIOUS
      <4>3. h[s \ {n + 1}] = g[s \ {n + 1}]
        BY <4>2
      <4>4. h[s] = step[n + 1][g[s \ {n + 1}]]
        BY <3>1
      <4>5. h[s] \in V
        BY <2>2, <2>3, <4>2, <4>4
      <4> HIDE DEF h
      <4>. QED
        BY <3>1, <4>1, <4>3, <4>4, <4>5
    <3>2. CASE n + 1 \notin s
      <4>1. s \in SUBSET (1 .. n)
        BY <3>2
      <4>2. s \ {Max(s)} \in SUBSET (1 .. n) /\ s \ {Max(s)} \in SUBSET (1 .. n + 1)
            /\ n + 1 \notin s \ {Max(s)}
        BY <3>2, <4>1
      <4>3. h[s] = g[s]
        BY <3>2
      <4>4. h[s \ {Max(s)}] = g[s \ {Max(s)}]
        BY <4>2
      <4> HIDE DEF h
      <4>. QED
        BY <2>2, <4>1, <4>3, <4>4
    <3>. QED
      BY <3>1, <3>2
  <2>5. h = [s \in SUBSET (1 .. n + 1) |->
               IF s = {} THEN base ELSE step[Max(s)][h[s \ {Max(s)}]]]
    BY <2>4
  <2>6. Good(h, n + 1)
    BY <2>4, <2>5 DEF IsFold
  <2>. QED
    BY <2>3, <2>6
<1>3. \A n \in 0 .. N : n \in S
  <2> HIDE DEF S
  <2>. QED
    BY <1>1, <1>2, UpTo
<1>. QED
  BY <1>3

Chars == STRING \cup {"/", "."}

LEMMA NamesAreChars ==
  ASSUME NEW n \in FileNames
  PROVE  /\ n \in Seq(Chars) /\ Len(n) \in Nat \ {0}
         /\ \A i \in 1 .. Len(n) : n[i] # "/"
         /\ n # CurDir
<1>1. n \in Seq(STRING) /\ n # <<>> /\ "/" \notin Range(n) /\ n # CurDir
  BY PathKeysAssumption
<1>2. n \in Seq(Chars)
  BY <1>1 DEF Chars
<1>. QED
  BY <1>1, <1>2 DEF Range

(***************************************************************************)
(* The two normalisations                                                  *)
(***************************************************************************)

(* a[k] is what the first k components leave.                              *)
LexicallyBy(abs, a) ==
  /\ a[0] = <<>>
  /\ \A k \in 0 .. Len(abs) : k # Len(abs) => a[k + 1] = StepLexically(a[k], abs[k + 1])

UnderRootBy(arg, a) ==
  /\ a[0] = <<>>
  /\ \A k \in 0 .. Len(arg) : k # Len(arg) => a[k + 1] = StepUnderRoot(a[k], arg[k + 1])

RenderedBy(path, a) ==
  /\ a[0] = Head(path)
  /\ \A k \in 0 .. Len(Tail(path)) : k # Len(Tail(path)) =>
       a[k + 1] = a[k] \o <<"/">> \o Tail(path)[k + 1]

LEMMA NormalizeLexicallySteps ==
  ASSUME NEW abs \in Seq(Components)
  PROVE  \E a : LexicallyBy(abs, a) /\ NormalizeLexically(abs) = a[Len(abs)]
<1> DEFINE N == Len(abs)
           V == Seq(FileNames)
           Iter(g) == g = [s \in SUBSET (DOMAIN abs) |->
                        IF s = {} THEN <<>>
                        ELSE StepLexically(g[s \ {Max(s)}], abs[Max(s)])]
           step == [i \in 1 .. N |-> [v \in V |-> StepLexically(v, abs[i])]]
           g == CHOOSE g : Iter(g)
<1>1. N \in Nat /\ DOMAIN abs = 1 .. N
  OBVIOUS
<1>2. <<>> \in V
  OBVIOUS
<1>3. \A v \in V : \A i \in 1 .. N : StepLexically(v, abs[i]) \in V
  BY DEF StepLexically, Front
<1> HIDE DEF V, N
<1>4. \E h : Iter(h)
  <2>1. \A i \in 1 .. N : \A v \in V : step[i][v] = StepLexically(v, abs[i]) /\ step[i][v] \in V
    BY <1>3
  <2> HIDE DEF step
  <2>2. PICK h : IsFold(step, <<>>, N, h) /\ \A s \in SUBSET (1 .. N) : h[s] \in V
    BY <1>1, <1>2, <2>1, FoldExists
  <2>3. ASSUME NEW s \in SUBSET (1 .. N), s # {}
        PROVE  step[Max(s)][h[s \ {Max(s)}]] = StepLexically(h[s \ {Max(s)}], abs[Max(s)])
    <3>1. Max(s) \in 1 .. N /\ s \ {Max(s)} \in SUBSET (1 .. N)
      BY <1>1, <2>3, GreatestIsMax
    <3>. QED
      BY <2>1, <2>2, <3>1
  <2>4. Iter(h)
    BY <1>1, <2>2, <2>3 DEF IsFold
  <2>. HIDE DEF Iter
  <2>. QED
    BY <2>4
<1>5. Iter(g)
  <2>. HIDE DEF Iter
  <2>. QED
    BY <1>4
<1>6. NormalizeLexically(abs) = g[DOMAIN abs]
  BY DEF NormalizeLexically, FoldLeft, MapThenFoldSet
<1> HIDE DEF g
<1>7. \A s \in SUBSET (1 .. N) :
        g[s] = IF s = {} THEN <<>>
               ELSE StepLexically(g[s \ {Max(s)}], abs[Max(s)])
  BY <1>1, <1>5
<1> DEFINE a == [k \in 0 .. N |-> g[1 .. k]]
<1>8. a[0] = <<>>
  <2>1. 1 .. 0 = {} /\ {} \in SUBSET (1 .. N) /\ 0 \in 0 .. N
    BY <1>1
  <2>. QED
    BY <1>7, <2>1
<1>9. ASSUME NEW k \in 0 .. N, k # N
      PROVE  a[k + 1] = StepLexically(a[k], abs[k + 1])
  <2>1. k < N /\ k \in Nat /\ k + 1 \in 0 .. N
    BY <1>1, <1>9
  <2>2. /\ 1 .. k + 1 \in SUBSET (1 .. N) /\ 1 .. k + 1 # {}
        /\ Max(1 .. k + 1) = k + 1
        /\ (1 .. k + 1) \ {k + 1} = 1 .. k
    BY <1>1, <2>1, Cut
  <2>3. g[1 .. k + 1] = StepLexically(g[1 .. k], abs[k + 1])
    BY <1>7, <2>2
  <2>. QED
    BY <2>1, <2>3
<1>10. LexicallyBy(abs, a)
  BY <1>8, <1>9 DEF LexicallyBy, N
<1>11. a[N] = g[DOMAIN abs]
  BY <1>1
<1>. QED
  BY <1>6, <1>10, <1>11 DEF N

LEMMA UnderRootSteps ==
  ASSUME NEW arg \in Seq(Components)
  PROVE  \E a : UnderRootBy(arg, a) /\ FoldLeft(StepUnderRoot, <<>>, arg) = a[Len(arg)]
<1> DEFINE N == Len(arg)
           V == Seq(FileNames)
           Iter(g) == g = [s \in SUBSET (DOMAIN arg) |->
                        IF s = {} THEN <<>>
                        ELSE StepUnderRoot(g[s \ {Max(s)}], arg[Max(s)])]
           step == [i \in 1 .. N |-> [v \in V |-> StepUnderRoot(v, arg[i])]]
           g == CHOOSE g : Iter(g)
<1>1. N \in Nat /\ DOMAIN arg = 1 .. N
  OBVIOUS
<1>2. <<>> \in V
  OBVIOUS
<1>3. \A v \in V : \A i \in 1 .. N : StepUnderRoot(v, arg[i]) \in V
  BY DEF StepUnderRoot, Front, Components
<1> HIDE DEF V, N
<1>4. \E h : Iter(h)
  <2>1. \A i \in 1 .. N : \A v \in V : step[i][v] = StepUnderRoot(v, arg[i]) /\ step[i][v] \in V
    BY <1>3
  <2> HIDE DEF step
  <2>2. PICK h : IsFold(step, <<>>, N, h) /\ \A s \in SUBSET (1 .. N) : h[s] \in V
    BY <1>1, <1>2, <2>1, FoldExists
  <2>3. ASSUME NEW s \in SUBSET (1 .. N), s # {}
        PROVE  step[Max(s)][h[s \ {Max(s)}]] = StepUnderRoot(h[s \ {Max(s)}], arg[Max(s)])
    <3>1. Max(s) \in 1 .. N /\ s \ {Max(s)} \in SUBSET (1 .. N)
      BY <1>1, <2>3, GreatestIsMax
    <3>. QED
      BY <2>1, <2>2, <3>1
  <2>4. Iter(h)
    BY <1>1, <2>2, <2>3 DEF IsFold
  <2>. HIDE DEF Iter
  <2>. QED
    BY <2>4
<1>5. Iter(g)
  <2>. HIDE DEF Iter
  <2>. QED
    BY <1>4
<1>6. FoldLeft(StepUnderRoot, <<>>, arg) = g[DOMAIN arg]
  BY DEF StepUnderRoot, FoldLeft, MapThenFoldSet
<1> HIDE DEF g
<1>7. \A s \in SUBSET (1 .. N) :
        g[s] = IF s = {} THEN <<>>
               ELSE StepUnderRoot(g[s \ {Max(s)}], arg[Max(s)])
  BY <1>1, <1>5
<1> DEFINE a == [k \in 0 .. N |-> g[1 .. k]]
<1>8. a[0] = <<>>
  <2>1. 1 .. 0 = {} /\ {} \in SUBSET (1 .. N) /\ 0 \in 0 .. N
    BY <1>1
  <2>. QED
    BY <1>7, <2>1
<1>9. ASSUME NEW k \in 0 .. N, k # N
      PROVE  a[k + 1] = StepUnderRoot(a[k], arg[k + 1])
  <2>1. k < N /\ k \in Nat /\ k + 1 \in 0 .. N
    BY <1>1, <1>9
  <2>2. /\ 1 .. k + 1 \in SUBSET (1 .. N) /\ 1 .. k + 1 # {}
        /\ Max(1 .. k + 1) = k + 1
        /\ (1 .. k + 1) \ {k + 1} = 1 .. k
    BY <1>1, <2>1, Cut
  <2>3. g[1 .. k + 1] = StepUnderRoot(g[1 .. k], arg[k + 1])
    BY <1>7, <2>2
  <2>. QED
    BY <2>1, <2>3
<1>10. UnderRootBy(arg, a)
  BY <1>8, <1>9 DEF UnderRootBy, N
<1>11. a[N] = g[DOMAIN arg]
  BY <1>1
<1>. QED
  BY <1>6, <1>10, <1>11 DEF N

LEMMA RenderSteps ==
  ASSUME NEW path \in Seq(FileNames), path # <<>>
  PROVE  \E a : RenderedBy(path, a) /\ Render(path) = a[Len(Tail(path))]
<1> DEFINE N == Len(Tail(path))
           V == Seq(Chars)
           Iter(g) == g = [s \in SUBSET (DOMAIN Tail(path)) |->
                        IF s = {} THEN Head(path)
                        ELSE g[s \ {Max(s)}] \o <<"/">> \o Tail(path)[Max(s)]]
           step == [i \in 1 .. N |-> [v \in V |-> v \o <<"/">> \o Tail(path)[i]]]
           g == CHOOSE g : Iter(g)
<1>1. N \in Nat /\ DOMAIN Tail(path) = 1 .. N
  OBVIOUS
<1>2. Head(path) \in V
  BY NamesAreChars
<1>3. \A v \in V : \A i \in 1 .. N : v \o <<"/">> \o Tail(path)[i] \in V
  <2> SUFFICES ASSUME NEW v \in V, NEW i \in 1 .. N
               PROVE  v \o <<"/">> \o Tail(path)[i] \in V
    OBVIOUS
  <2>1. Tail(path)[i] \in FileNames
    BY <1>1
  <2>2. Tail(path)[i] \in Seq(Chars)
    BY <2>1, NamesAreChars
  <2>3. <<"/">> \in Seq(Chars)
    BY DEF Chars
  <2>. QED
    BY <2>2, <2>3
<1> HIDE DEF V, N
<1>4. \E h : Iter(h)
  <2>1. \A i \in 1 .. N : \A v \in V : step[i][v] = v \o <<"/">> \o Tail(path)[i] /\ step[i][v] \in V
    BY <1>3
  <2> HIDE DEF step
  <2>2. PICK h : IsFold(step, Head(path), N, h) /\ \A s \in SUBSET (1 .. N) : h[s] \in V
    BY <1>1, <1>2, <2>1, FoldExists
  <2>3. ASSUME NEW s \in SUBSET (1 .. N), s # {}
        PROVE  step[Max(s)][h[s \ {Max(s)}]] = h[s \ {Max(s)}] \o <<"/">> \o Tail(path)[Max(s)]
    <3>1. Max(s) \in 1 .. N /\ s \ {Max(s)} \in SUBSET (1 .. N)
      BY <1>1, <2>3, GreatestIsMax
    <3>. QED
      BY <2>1, <2>2, <3>1
  <2>4. Iter(h)
    BY <1>1, <2>2, <2>3 DEF IsFold
  <2>. HIDE DEF Iter
  <2>. QED
    BY <2>4
<1>5. Iter(g)
  <2>. HIDE DEF Iter
  <2>. QED
    BY <1>4
<1>6. Render(path) = g[DOMAIN Tail(path)]
  BY DEF Render, FoldLeft, MapThenFoldSet
<1> HIDE DEF g
<1>7. \A s \in SUBSET (1 .. N) :
        g[s] = IF s = {} THEN Head(path)
               ELSE g[s \ {Max(s)}] \o <<"/">> \o Tail(path)[Max(s)]
  BY <1>1, <1>5
<1> DEFINE a == [k \in 0 .. N |-> g[1 .. k]]
<1>8. a[0] = Head(path)
  <2>1. 1 .. 0 = {} /\ {} \in SUBSET (1 .. N) /\ 0 \in 0 .. N
    BY <1>1
  <2>. QED
    BY <1>7, <2>1
<1>9. ASSUME NEW k \in 0 .. N, k # N
      PROVE  a[k + 1] = a[k] \o <<"/">> \o Tail(path)[k + 1]
  <2>1. k < N /\ k \in Nat /\ k + 1 \in 0 .. N
    BY <1>1, <1>9
  <2>2. /\ 1 .. k + 1 \in SUBSET (1 .. N) /\ 1 .. k + 1 # {}
        /\ Max(1 .. k + 1) = k + 1
        /\ (1 .. k + 1) \ {k + 1} = 1 .. k
    BY <1>1, <2>1, Cut
  <2>3. g[1 .. k + 1] = g[1 .. k] \o <<"/">> \o Tail(path)[k + 1]
    BY <1>7, <2>2
  <2>. QED
    BY <2>1, <2>3
<1>10. RenderedBy(path, a)
  BY <1>8, <1>9 DEF RenderedBy, N
<1>11. a[N] = g[DOMAIN Tail(path)]
  BY <1>1
<1>. QED
  BY <1>6, <1>10, <1>11 DEF N

(***************************************************************************)
(* Rendered keys                                                           *)
(***************************************************************************)

LEMMA PrefixByPosition ==
  ASSUME NEW S, NEW s \in Seq(S), NEW t \in Seq(S)
  PROVE  IsPrefix(s, t) <=> Len(s) <= Len(t) /\ \A i \in 1 .. Len(s) : s[i] = t[i]
<1>1. ASSUME Len(s) <= Len(t)
      PROVE  SubSeq(s, 1, Len(s)) = SubSeq(t, 1, Len(s)) <=> \A i \in 1 .. Len(s) : s[i] = t[i]
  <2>1. /\ SubSeq(s, 1, Len(s)) \in Seq(S)
        /\ Len(SubSeq(s, 1, Len(s))) = Len(s)
        /\ \A i \in 1 .. Len(s) : SubSeq(s, 1, Len(s))[i] = s[i]
    OBVIOUS
  <2>2. /\ SubSeq(t, 1, Len(s)) \in Seq(S)
        /\ Len(SubSeq(t, 1, Len(s))) = Len(s)
        /\ \A i \in 1 .. Len(s) : SubSeq(t, 1, Len(s))[i] = t[i]
    BY <1>1
  <2>. QED
    BY <2>1, <2>2
<1>. QED
  BY <1>1 DEF IsPrefix

(* `long` is `short`, or `short` and a slash and more.                     *)
Continues(long, short) ==
  /\ Len(short) <= Len(long)
  /\ \A i \in 1 .. Len(short) : long[i] = short[i]
  /\ Len(short) < Len(long) => long[Len(short) + 1] = "/"

LEMMA ContinuesIsTest ==
  ASSUME NEW long \in Seq(Chars), NEW short \in Seq(Chars)
  PROVE  Continues(long, short) <=> long = short \/ StripsToSlash(long, short)
<1>1. Len(long) = Len(short) /\ (\A i \in 1 .. Len(short) : long[i] = short[i]) => long = short
  OBVIOUS
<1>. QED
  BY <1>1, PrefixByPosition DEF Continues, StripsToSlash

LEMMA ContinuesOn ==
  ASSUME NEW a \in Seq(Chars), NEW b \in Seq(Chars), NEW c \in Seq(Chars),
         Continues(a, b), Continues(b, c)
  PROVE  Continues(a, c)
<1>1. Len(c) <= Len(a) /\ \A i \in 1 .. Len(c) : a[i] = c[i]
  BY DEF Continues
<1>2. ASSUME Len(c) < Len(a)
      PROVE  a[Len(c) + 1] = "/"
  <2>1. CASE Len(c) < Len(b)
    <3>1. Len(c) + 1 \in 1 .. Len(b)
      BY <2>1
    <3>. QED
      BY <2>1, <3>1 DEF Continues
  <2>2. CASE Len(c) = Len(b)
    BY <1>2, <2>2 DEF Continues
  <2>. QED
    BY <2>1, <2>2 DEF Continues
<1>. QED
  BY <1>1, <1>2 DEF Continues

(* What the renderings of the first components are.                        *)
KeysOf(path, r) ==
  /\ \A j \in 1 .. Len(path) : r[j] \in Seq(Chars)
  /\ r[1] = path[1]
  /\ \A j \in 1 .. Len(path) - 1 : r[j + 1] = r[j] \o <<"/">> \o path[j + 1]
  /\ Render(path) = r[Len(path)]

LEMMA KeysExist ==
  ASSUME NEW path \in Seq(FileNames), path # <<>>
  PROVE  \E r : KeysOf(path, r)
<1>1. PICK a : RenderedBy(path, a) /\ Render(path) = a[Len(Tail(path))]
  BY RenderSteps
<1> DEFINE N == Len(path)
           r == [j \in 1 .. N |-> a[j - 1]]
<1>2. /\ N \in Nat \ {0} /\ Len(Tail(path)) = N - 1 /\ Head(path) = path[1]
      /\ \A j \in 1 .. N - 1 : Tail(path)[j] = path[j + 1]
      /\ \A j \in 1 .. N : path[j] \in FileNames
  OBVIOUS
<1> HIDE DEF N
<1>3. /\ a[0] = path[1]
      /\ \A k \in 0 .. N - 1 : k # N - 1 => a[k + 1] = a[k] \o <<"/">> \o path[k + 2]
  <2>1. a[0] = path[1]
    BY <1>1, <1>2 DEF RenderedBy
  <2>2. ASSUME NEW k \in 0 .. N - 1, k # N - 1
        PROVE  a[k + 1] = a[k] \o <<"/">> \o path[k + 2]
    <3>1. k + 1 \in 1 .. N - 1 /\ (k + 1) + 1 = k + 2
      BY <1>2, <2>2
    <3>. QED
      BY <1>1, <1>2, <2>2, <3>1 DEF RenderedBy
  <2>. QED
    BY <2>1, <2>2
<1>4. \A k \in 0 .. N - 1 : a[k] \in Seq(Chars)
  <2> DEFINE S == {k \in 0 .. N - 1 : a[k] \in Seq(Chars)}
  <2>1. 0 \in S
    <3>1. 0 \in 0 .. N - 1 /\ path[1] \in FileNames
      BY <1>2
    <3>. QED
      BY <1>3, <3>1, NamesAreChars
  <2>2. ASSUME NEW k \in 0 .. N - 1, k \in S, k # N - 1
        PROVE  k + 1 \in S
    <3>1. k + 2 \in 1 .. N /\ k + 1 \in 0 .. N - 1
      BY <1>2, <2>2
    <3>2. path[k + 2] \in Seq(Chars) /\ <<"/">> \in Seq(Chars) /\ a[k] \in Seq(Chars)
      <4>1. path[k + 2] \in Seq(Chars)
        BY <1>2, <3>1, NamesAreChars
      <4>. QED
        BY <2>2, <4>1 DEF Chars
    <3>3. a[k] \o <<"/">> \o path[k + 2] \in Seq(Chars)
      BY <3>2
    <3>. QED
      BY <1>3, <2>2, <3>1, <3>3
  <2>3. N - 1 \in Nat
    BY <1>2
  <2>. HIDE DEF S
  <2>4. \A k \in 0 .. N - 1 : k \in S
    BY <2>1, <2>2, <2>3, UpTo
  <2>. QED
    BY <2>4 DEF S
<1>5. \A j \in 1 .. N : r[j] = a[j - 1] /\ j - 1 \in 0 .. N - 1
  BY <1>2
<1>6. r[1] = path[1] /\ r[N] = Render(path)
  BY <1>1, <1>2, <1>3
<1>7. ASSUME NEW j \in 1 .. N - 1
      PROVE  r[j + 1] = r[j] \o <<"/">> \o path[j + 1]
  <2>1. /\ j - 1 \in 0 .. N - 1 /\ j - 1 # N - 1 /\ (j - 1) + 1 = j /\ (j - 1) + 2 = j + 1
        /\ j \in 1 .. N /\ j + 1 \in 1 .. N /\ (j + 1) - 1 = j
    BY <1>2
  <2>2. a[j] = a[j - 1] \o <<"/">> \o path[j + 1]
    BY <1>3, <2>1
  <2>. QED
    BY <2>1, <2>2
<1>8. KeysOf(path, r)
  BY <1>4, <1>5, <1>6, <1>7 DEF KeysOf, N
<1>. QED
  BY <1>8

(* Each rendering continues the ones before it.                            *)
LEMMA KeysContinue ==
  ASSUME NEW path \in Seq(FileNames), NEW r, KeysOf(path, r),
         NEW j \in 1 .. Len(path), NEW k \in j .. Len(path)
  PROVE  Continues(r[k], r[j])
<1> DEFINE N == Len(path)
           S == {n \in 0 .. N - j : Continues(r[j + n], r[j])}
<1>1. N \in Nat /\ \A n \in 1 .. N : r[n] \in Seq(Chars)
  BY DEF KeysOf
<1>2. 0 \in S
  <2>1. Continues(r[j], r[j])
    BY <1>1 DEF Continues
  <2>. QED
    BY <1>1, <2>1
<1>3. ASSUME NEW n \in 0 .. N - j, n \in S, n # N - j
      PROVE  n + 1 \in S
  <2>1. j + n \in 1 .. N - 1 /\ (j + n) + 1 = j + (n + 1) /\ n + 1 \in 0 .. N - j
        /\ j + n \in 1 .. N /\ (j + n) + 1 \in 1 .. N
    BY <1>1, <1>3
  <2>2. path[(j + n) + 1] \in Seq(Chars)
    BY <2>1, NamesAreChars
  <2>3. r[(j + n) + 1] = r[j + n] \o <<"/">> \o path[(j + n) + 1]
    BY <2>1 DEF KeysOf
  <2>4. <<"/">> \in Seq(Chars)
    BY DEF Chars
  <2> DEFINE u == r[j + n]
             c == path[(j + n) + 1]
             w == r[(j + n) + 1]
  <2>5. u \in Seq(Chars) /\ c \in Seq(Chars) /\ w = u \o <<"/">> \o c
    BY <1>1, <2>1, <2>2, <2>3
  <2> HIDE DEF u, c, w
  <2>6. Continues(w, u)
    BY <2>4, <2>5 DEF Continues
  <2> USE DEF u, c, w
  <2>7. Continues(r[(j + n) + 1], r[j])
    BY <1>1, <1>3, <2>1, <2>6, ContinuesOn
  <2>. QED
    BY <2>1, <2>7
<1>4. k - j \in S
  <2>1. N - j \in Nat /\ k - j \in 0 .. N - j
    BY <1>1
  <2>. HIDE DEF S, N
  <2>. QED
    BY <1>2, <1>3, <2>1, UpTo
<1>. QED
  BY <1>4

(* Two names at one place of a string, each up to a slash or the end, are  *)
(* one name.                                                               *)
NameAt(text, o, n) ==
  /\ o + Len(n) <= Len(text)
  /\ \A i \in 1 .. Len(n) : text[o + i] = n[i]
  /\ o + Len(n) < Len(text) => text[o + Len(n) + 1] = "/"

LEMMA OneNameAt ==
  ASSUME NEW text \in Seq(Chars), NEW o \in Nat, NEW m \in FileNames, NEW n \in FileNames,
         NameAt(text, o, m), NameAt(text, o, n)
  PROVE  m = n
<1>1. /\ m \in Seq(Chars) /\ n \in Seq(Chars)
      /\ \A i \in 1 .. Len(m) : m[i] # "/"
      /\ \A i \in 1 .. Len(n) : n[i] # "/"
  BY NamesAreChars
<1>2. ~(Len(m) < Len(n))
  <2> SUFFICES ASSUME Len(m) < Len(n)
               PROVE  FALSE
    OBVIOUS
  <2>1. Len(m) + 1 \in 1 .. Len(n) /\ o + Len(m) < Len(text) /\ o + (Len(m) + 1) = o + Len(m) + 1
    BY <1>1 DEF NameAt
  <2>. QED
    BY <1>1, <2>1 DEF NameAt
<1>3. ~(Len(n) < Len(m))
  <2> SUFFICES ASSUME Len(n) < Len(m)
               PROVE  FALSE
    OBVIOUS
  <2>1. Len(n) + 1 \in 1 .. Len(m) /\ o + Len(n) < Len(text) /\ o + (Len(n) + 1) = o + Len(n) + 1
    BY <1>1 DEF NameAt
  <2>. QED
    BY <1>1, <2>1 DEF NameAt
<1>4. Len(m) = Len(n) /\ \A i \in 1 .. Len(n) : m[i] = n[i]
  BY <1>1, <1>2, <1>3 DEF NameAt
<1>. QED
  BY <1>1, <1>4

(* The name that a rendering adds stands after its slash.                  *)
LEMMA NameOfKey ==
  ASSUME NEW path \in Seq(FileNames), NEW r, KeysOf(path, r),
         NEW j \in 1 .. Len(path) - 1, NEW text \in Seq(Chars), Continues(text, r[j + 1])
  PROVE  /\ NameAt(text, Len(r[j]) + 1, path[j + 1])
         /\ Len(r[j]) \in Nat /\ Len(r[j]) < Len(text)
<1> DEFINE u == r[j]
           c == path[j + 1]
           w == r[j + 1]
<1>1. j \in 1 .. Len(path) /\ j + 1 \in 1 .. Len(path)
  OBVIOUS
<1>2. u \in Seq(Chars) /\ w = u \o <<"/">> \o c /\ c \in Seq(Chars)
  <2>1. c \in FileNames
    BY <1>1
  <2>2. c \in Seq(Chars)
    BY <2>1, NamesAreChars
  <2>. QED
    BY <1>1, <2>2 DEF KeysOf
<1>3. <<"/">> \in Seq(Chars) /\ Continues(text, w)
  BY DEF Chars
<1> HIDE DEF u, c, w
<1>4. /\ Len(w) = Len(u) + 1 + Len(c) /\ Len(u) \in Nat /\ Len(c) \in Nat
      /\ \A i \in 1 .. Len(c) : w[Len(u) + 1 + i] = c[i]
  BY <1>2, <1>3
<1>5. \A i \in 1 .. Len(c) : Len(u) + 1 + i \in 1 .. Len(w)
  BY <1>4
<1>6. NameAt(text, Len(u) + 1, c) /\ Len(u) \in Nat /\ Len(u) < Len(text)
  <2>1. \A i \in 1 .. Len(c) : text[Len(u) + 1 + i] = c[i]
    BY <1>3, <1>4, <1>5 DEF Continues
  <2>2. Len(text) \in Nat
    OBVIOUS
  <2>3. Len(w) < Len(text) => text[Len(w) + 1] = "/"
    BY <1>3 DEF Continues
  <2>4. Len(w) <= Len(text)
    BY <1>3 DEF Continues
  <2>. QED
    BY <1>4, <2>1, <2>2, <2>3, <2>4 DEF NameAt
<1>. QED
  BY <1>6 DEF u, c

LEMMA FirstName ==
  ASSUME NEW path \in Seq(FileNames), NEW r, KeysOf(path, r), path # <<>>,
         NEW text \in Seq(Chars), Continues(text, r[1])
  PROVE  NameAt(text, 0, path[1])
<1>1. path[1] \in FileNames /\ r[1] = path[1]
  BY DEF KeysOf
<1>2. path[1] \in Seq(Chars)
  BY <1>1, NamesAreChars
<1>. QED
  BY <1>1, <1>2 DEF NameAt, Continues

LEMMA ContinuesIsPrefix ==
  ASSUME NEW p \in Seq(FileNames), p # <<>>, NEW q \in Seq(FileNames), q # <<>>
  PROVE  /\ Render(p) \in Seq(Chars)
         /\ Continues(Render(q), Render(p)) <=> IsPrefix(p, q)
<1>1. PICK r : KeysOf(p, r)
  BY KeysExist
<1>2. PICK t : KeysOf(q, t)
  BY KeysExist
<1> DEFINE M == Len(p)
           N == Len(q)
<1>3. M \in Nat \ {0} /\ N \in Nat \ {0}
  OBVIOUS
<1>4. Render(p) = r[M] /\ Render(q) = t[N] /\ r[M] \in Seq(Chars) /\ t[N] \in Seq(Chars)
  BY <1>1, <1>2, <1>3 DEF KeysOf
<1>5. ASSUME IsPrefix(p, q)
      PROVE  Continues(t[N], r[M])
  <2>1. M <= N /\ \A i \in 1 .. M : p[i] = q[i]
    BY <1>5, PrefixByPosition
  <2> DEFINE S == {n \in 0 .. M - 1 : r[n + 1] = t[n + 1]}
  <2>2. 0 \in S
    BY <1>1, <1>2, <1>3, <2>1 DEF KeysOf
  <2>3. ASSUME NEW n \in 0 .. M - 1, n \in S, n # M - 1
        PROVE  n + 1 \in S
    <3>1. n + 1 \in 1 .. M - 1 /\ n + 1 \in 1 .. N - 1 /\ (n + 1) + 1 \in 1 .. M
          /\ n + 1 \in 0 .. M - 1
      BY <1>3, <2>1, <2>3
    <3>2. /\ r[(n + 1) + 1] = r[n + 1] \o <<"/">> \o p[(n + 1) + 1]
          /\ t[(n + 1) + 1] = t[n + 1] \o <<"/">> \o q[(n + 1) + 1]
      BY <1>1, <1>2, <3>1 DEF KeysOf
    <3>3. r[(n + 1) + 1] = t[(n + 1) + 1]
      BY <2>1, <2>3, <3>1, <3>2
    <3>. QED
      BY <3>1, <3>3
  <2>4. M - 1 \in S
    <3>1. M - 1 \in Nat /\ M - 1 \in 0 .. M - 1
      BY <1>3
    <3>. HIDE DEF S, M, N
    <3>2. \A n \in 0 .. M - 1 : n \in S
      BY <2>2, <2>3, <3>1, UpTo
    <3>. QED
      BY <3>1, <3>2
  <2>5. r[M] = t[M]
    <3>1. (M - 1) + 1 = M
      BY <1>3
    <3>. QED
      BY <2>4, <3>1
  <2>. QED
    BY <1>2, <1>3, <2>1, <2>5, KeysContinue
<1>6. ASSUME Continues(t[N], r[M])
      PROVE  IsPrefix(p, q)
  <2> DEFINE text == t[N]
             S == {n \in 0 .. M - 1 : n + 1 <= N /\ p[n + 1] = q[n + 1] /\ r[n + 1] = t[n + 1]}
  <2>1. text \in Seq(Chars)
    BY <1>4
  <2>2. \A j \in 1 .. N : t[j] \in Seq(Chars) /\ Continues(text, t[j])
    <3> SUFFICES ASSUME NEW j \in 1 .. N
                 PROVE  t[j] \in Seq(Chars) /\ Continues(text, t[j])
      OBVIOUS
    <3>1. N \in j .. N
      BY <1>3
    <3>. QED
      BY <1>2, <3>1, KeysContinue DEF KeysOf
  <2>3. \A j \in 1 .. M : r[j] \in Seq(Chars) /\ Continues(text, r[j])
    <3> SUFFICES ASSUME NEW j \in 1 .. M
                 PROVE  r[j] \in Seq(Chars) /\ Continues(text, r[j])
      OBVIOUS
    <3>1. M \in j .. M /\ r[j] \in Seq(Chars)
      BY <1>1, <1>3 DEF KeysOf
    <3>2. Continues(r[M], r[j])
      BY <1>1, <3>1, KeysContinue
    <3>. QED
      BY <1>4, <1>6, <3>1, <3>2, ContinuesOn
  <2> HIDE DEF text
  <2>4. 0 \in S
    <3>1. Continues(text, r[1]) /\ Continues(text, t[1])
      BY <1>3, <2>2, <2>3
    <3>2. NameAt(text, 0, p[1]) /\ NameAt(text, 0, q[1])
      BY <1>1, <1>2, <2>1, <3>1, FirstName
    <3>3. p[1] \in FileNames /\ q[1] \in FileNames
      OBVIOUS
    <3>4. p[1] = q[1]
      BY <2>1, <3>2, <3>3, OneNameAt
    <3>. QED
      BY <1>1, <1>2, <1>3, <3>4 DEF KeysOf
  <2>5. ASSUME NEW n \in 0 .. M - 1, n \in S, n # M - 1
        PROVE  n + 1 \in S
    <3> DEFINE j == n + 1
    <3>1. /\ j \in 1 .. M - 1 /\ j \in 1 .. M /\ j + 1 \in 1 .. M /\ j \in 0 .. M - 1
          /\ j \in 1 .. N
      BY <1>3, <2>5
    <3>2. p[j] = q[j] /\ r[j] = t[j]
      BY <2>5
    <3> HIDE DEF j
    <3>3. NameAt(text, Len(r[j]) + 1, p[j + 1]) /\ Len(r[j]) \in Nat /\ Len(r[j]) < Len(text)
      <4>1. Continues(text, r[j + 1])
        BY <2>3, <3>1
      <4>2. j \in 1 .. Len(p) - 1
        BY <3>1
      <4>. QED
        BY <1>1, <2>1, <4>1, <4>2, NameOfKey
    <3>4. j # N
      BY <3>2, <3>3 DEF text
    <3>5. j \in 1 .. N - 1 /\ j + 1 \in 1 .. N
      BY <1>3, <3>1, <3>4
    <3>6. NameAt(text, Len(t[j]) + 1, q[j + 1])
      <4>1. Continues(text, t[j + 1])
        BY <2>2, <3>5
      <4>2. j \in 1 .. Len(q) - 1
        BY <3>5
      <4>. QED
        BY <1>2, <2>1, <4>1, <4>2, NameOfKey
    <3>7. p[j + 1] \in FileNames /\ q[j + 1] \in FileNames
      BY <3>1, <3>5
    <3>8. p[j + 1] = q[j + 1]
      <4>1. Len(r[j]) + 1 \in Nat
        BY <3>3
      <4>2. NameAt(text, Len(r[j]) + 1, q[j + 1])
        BY <3>2, <3>6
      <4>. QED
        BY <2>1, <3>3, <3>7, <4>1, <4>2, OneNameAt
    <3>9. /\ r[j + 1] = r[j] \o <<"/">> \o p[j + 1]
          /\ t[j + 1] = t[j] \o <<"/">> \o q[j + 1]
      BY <1>1, <1>2, <3>1, <3>5 DEF KeysOf
    <3>10. r[j + 1] = t[j + 1]
      BY <3>2, <3>8, <3>9
    <3>. QED
      BY <3>1, <3>5, <3>8, <3>10 DEF j
  <2>6. \A n \in 0 .. M - 1 : n \in S
    <3>. M - 1 \in Nat
      BY <1>3
    <3>. HIDE DEF S, M, N
    <3>. QED
      BY <2>4, <2>5, UpTo
  <2>7. \A i \in 1 .. M : i <= N /\ p[i] = q[i]
    <3> SUFFICES ASSUME NEW i \in 1 .. M
                 PROVE  i <= N /\ p[i] = q[i]
      OBVIOUS
    <3>1. i - 1 \in 0 .. M - 1 /\ (i - 1) + 1 = i
      BY <1>3
    <3>. QED
      BY <2>6, <3>1
  <2>8. M <= N
    BY <1>3, <2>7
  <2>. QED
    BY <2>7, <2>8, PrefixByPosition
<1>. QED
  BY <1>4, <1>5, <1>6

LEMMA RootKey ==
  ASSUME NEW p \in Seq(FileNames), p # <<>>
  PROVE  Render(p) # CurDir /\ Len(Render(p)) >= 1 /\ Render(p) \in Seq(Chars)
<1>1. PICK r : KeysOf(p, r)
  BY KeysExist
<1>2. Len(p) \in 1 .. Len(p) /\ 1 \in 1 .. Len(p) /\ Len(p) \in 1 .. Len(p)
  OBVIOUS
<1>3. Continues(r[Len(p)], r[1])
  BY <1>1, <1>2, KeysContinue
<1>4. Render(p) = r[Len(p)] /\ r[1] = p[1] /\ r[Len(p)] \in Seq(Chars)
  BY <1>1, <1>2 DEF KeysOf
<1>5. p[1] \in Seq(Chars) /\ Len(p[1]) \in Nat \ {0} /\ p[1] # CurDir
  <2>1. p[1] \in FileNames
    OBVIOUS
  <2>. QED
    BY <2>1, NamesAreChars
<1>6. Len(Render(p)) >= 1 /\ Continues(Render(p), p[1])
  BY <1>3, <1>4, <1>5 DEF Continues
<1>7. ASSUME Render(p) = CurDir
      PROVE  FALSE
  <2>1. Len(p[1]) = 1 /\ p[1][1] = "."
    BY <1>5, <1>6, <1>7 DEF Continues, CurDir
  <2>2. p[1] = <<".">>
    BY <1>5, <2>1
  <2>. QED
    BY <1>5, <2>2 DEF CurDir
<1>. QED
  BY <1>4, <1>6, <1>7

(***************************************************************************)
(* Arguments                                                               *)
(***************************************************************************)

ArgsOK == left \in Seq(Components) /\ right \in Seq(Components)

LEMMA ArgsHold == PathSpec => []ArgsOK
<1>1. PathInit => ArgsOK
  BY DEF PathInit, ArgsOK
<1>2. ArgsOK /\ [PathNext]_pathVars => ArgsOK'
  <2> SUFFICES ASSUME ArgsOK, [PathNext]_pathVars
               PROVE  ArgsOK'
    OBVIOUS
  <2>1. ASSUME NEW c \in Components, ExtendLeft(c)
        PROVE  ArgsOK'
    BY <2>1 DEF ArgsOK, ExtendLeft
  <2>2. ASSUME NEW c \in Components, ExtendRight(c)
        PROVE  ArgsOK'
    BY <2>2 DEF ArgsOK, ExtendRight
  <2>3. CASE UNCHANGED pathVars
    BY <2>3 DEF ArgsOK, pathVars
  <2>. QED
    BY <2>1, <2>2, <2>3 DEF PathNext
<1>. QED
  BY <1>1, <1>2, PTL DEF PathSpec

LEMMA NormalizeArgSteps ==
  ASSUME NEW arg \in Seq(Components)
  PROVE  \E a : /\ UnderRootBy(arg, a) /\ \A k \in 0 .. Len(arg) : a[k] \in Seq(FileNames)
                /\ NormalizeArg(arg).path = a[Len(arg)]
<1>1. Root \in Seq(FileNames) /\ Root \in Seq(Components)
  BY PathKeysAssumption DEF Components
<1>2. /\ Root \o arg \in Seq(Components) /\ Len(Root \o arg) = Len(Root) + Len(arg)
      /\ \A i \in 1 .. Len(Root) : (Root \o arg)[i] = Root[i]
      /\ SubSeq(Root \o arg, Len(Root) + 1, Len(Root \o arg)) = arg
  BY <1>1
<1>3. IsPrefix(Root, Root \o arg)
  <2>1. Len(Root) <= Len(Root \o arg)
    BY <1>1, <1>2
  <2>. HIDE DEF Components
  <2>2. IsPrefix(Root, Root \o arg) <=>
          /\ Len(Root) <= Len(Root \o arg)
          /\ \A i \in 1 .. Len(Root) : Root[i] = (Root \o arg)[i]
    BY <1>1, <1>2, PrefixByPosition
  <2>. QED
    BY <1>2, <2>1, <2>2
<1>4. NormalizeArg(arg).path = FoldLeft(StepUnderRoot, <<>>, arg)
  BY <1>2, <1>3 DEF NormalizeArg, NormalizeUnderRoot
<1>5. PICK a : UnderRootBy(arg, a) /\ FoldLeft(StepUnderRoot, <<>>, arg) = a[Len(arg)]
  BY UnderRootSteps
<1> DEFINE S == {k \in 0 .. Len(arg) : a[k] \in Seq(FileNames)}
<1>6. 0 \in S
  <2>1. 0 \in 0 .. Len(arg) /\ <<>> \in Seq(FileNames)
    OBVIOUS
  <2>2. a[0] = <<>>
    BY <1>5 DEF UnderRootBy
  <2>. QED
    BY <2>1, <2>2
<1>7. ASSUME NEW k \in 0 .. Len(arg), k \in S, k # Len(arg)
      PROVE  k + 1 \in S
  <2>1. k + 1 \in 1 .. Len(arg) /\ arg[k + 1] \in Components /\ a[k] \in Seq(FileNames)
    BY <1>7
  <2>2. a[k + 1] = StepUnderRoot(a[k], arg[k + 1])
    BY <1>5, <1>7 DEF UnderRootBy
  <2>3. StepUnderRoot(a[k], arg[k + 1]) \in Seq(FileNames)
    BY <2>1 DEF StepUnderRoot, Front, Components
  <2>. QED
    BY <2>1, <2>2, <2>3
<1>8. \A k \in 0 .. Len(arg) : k \in S
  <2>. Len(arg) \in Nat
    OBVIOUS
  <2>. HIDE DEF S
  <2>. QED
    BY <1>6, <1>7, UpTo
<1>. QED
  BY <1>4, <1>5, <1>8

LEMMA PathOfArg ==
  ASSUME NEW arg \in Seq(Components)
  PROVE  NormalizeArg(arg).path \in Seq(FileNames)
<1>1. Len(arg) \in 0 .. Len(arg)
  OBVIOUS
<1>. QED
  BY <1>1, NormalizeArgSteps

LEMMA TextTestsOf ==
  ASSUME NEW p \in Seq(FileNames), NEW q \in Seq(FileNames)
  PROVE  /\ PathsOverlapText(Render(p), Render(q)) <=> (IsPrefix(p, q) \/ IsPrefix(q, p))
         /\ CoversChildrenText(Render(p), Render(q)) <=> IsPrefix(p, q)
         /\ p # <<>> /\ q # <<>> =>
              (IsAncestorOrSelfText(Render(p), Render(q)) <=> IsPrefix(p, q))
<1>1. \A s \in Seq(FileNames) : IsPrefix(<<>>, s) /\ (s # <<>> => ~IsPrefix(s, <<>>))
  <2> SUFFICES ASSUME NEW s \in Seq(FileNames)
               PROVE  IsPrefix(<<>>, s) /\ (s # <<>> => ~IsPrefix(s, <<>>))
    OBVIOUS
  <2>1. <<>> \in Seq(FileNames) /\ Len(<<>>) = 0 /\ Len(s) \in Nat /\ (s # <<>> => Len(s) # 0)
    OBVIOUS
  <2>2. IsPrefix(<<>>, s)
    <3>1. SubSeq(s, 1, 0) = <<>> /\ SubSeq(<<>>, 1, 0) = <<>>
      OBVIOUS
    <3>. QED
      BY <2>1, <3>1 DEF IsPrefix
  <2>3. IsPrefix(s, <<>>) => Len(s) <= 0
    BY <2>1 DEF IsPrefix
  <2>. QED
    BY <2>1, <2>2, <2>3
<1>2. CASE p = <<>>
  BY <1>1, <1>2 DEF Render, PathsOverlapText, CoversChildrenText
<1>3. CASE p # <<>> /\ q = <<>>
  <2>1. Render(q) = CurDir
    BY <1>3 DEF Render
  <2>2. Render(p) # CurDir /\ Len(Render(p)) >= 1 /\ Render(p) \in Seq(Chars)
    BY <1>3, RootKey
  <2>3. Len(CurDir) = 1
    BY DEF CurDir
  <2>4. ~StripsToSlash(CurDir, Render(p))
    BY <2>2, <2>3 DEF StripsToSlash
  <2>. QED
    BY <1>1, <1>3, <2>1, <2>2, <2>4 DEF PathsOverlapText, CoversChildrenText
<1>4. CASE p # <<>> /\ q # <<>>
  <2> DEFINE a == Render(p)
             b == Render(q)
  <2>1. a \in Seq(Chars) /\ b \in Seq(Chars) /\ a # CurDir /\ b # CurDir
    BY <1>4, RootKey
  <2>2. /\ Continues(b, a) <=> IsPrefix(p, q)
        /\ Continues(a, b) <=> IsPrefix(q, p)
    BY <1>4, ContinuesIsPrefix
  <2> HIDE DEF a, b
  <2>3. /\ Continues(b, a) <=> b = a \/ StripsToSlash(b, a)
        /\ Continues(a, b) <=> a = b \/ StripsToSlash(a, b)
    BY <2>1, ContinuesIsTest
  <2>4. /\ StripsToSlash(b, a) => Len(a) <= Len(b)
        /\ StripsToSlash(a, b) => ~(Len(a) <= Len(b))
    BY <2>1 DEF StripsToSlash
  <2>5. PathsOverlapText(a, b) <=> (IsPrefix(p, q) \/ IsPrefix(q, p))
    BY <2>1, <2>2, <2>3, <2>4 DEF PathsOverlapText
  <2>6. CoversChildrenText(a, b) <=> IsPrefix(p, q)
    BY <2>1, <2>2, <2>3 DEF CoversChildrenText
  <2>7. IsAncestorOrSelfText(a, b) <=> IsPrefix(p, q)
    BY <2>2, <2>3 DEF IsAncestorOrSelfText
  <2>. QED
    BY <2>5, <2>6, <2>7 DEF a, b
<1>. QED
  BY <1>2, <1>3, <1>4

LEMMA KeysIdentifyPaths ==
  ASSUME NEW p \in Seq(FileNames), NEW q \in Seq(FileNames), Render(p) = Render(q)
  PROVE  p = q
<1>1. p # <<>> => Render(p) # CurDir
  BY RootKey
<1>2. q # <<>> => Render(q) # CurDir
  BY RootKey
<1>3. p = <<>> <=> q = <<>>
  BY <1>1, <1>2 DEF Render
<1>4. CASE p # <<>> /\ q # <<>>
  <2>1. Render(p) \in Seq(Chars)
    BY <1>4, RootKey
  <2>2. Continues(Render(p), Render(p))
    BY <2>1 DEF Continues
  <2>3. IsPrefix(p, q) /\ IsPrefix(q, p)
    BY <1>4, <2>2, ContinuesIsPrefix
  <2>4. Len(p) = Len(q) /\ \A i \in 1 .. Len(p) : p[i] = q[i]
    BY <2>3, PrefixByPosition
  <2>. QED
    BY <2>4
<1>. QED
  BY <1>3, <1>4

(*************************************************************************)
(* Comparing the text of two keys, as overlaps, is_parent and            *)
(* release_prefix do, decides exactly whether one path lies below the    *)
(* other: for roots of any depth and names of any characters but the     *)
(* separator, a name that continues another (ab and abc) is never taken  *)
(* for a child of it.                                                    *)
(*************************************************************************)
THEOREM TextTestsArePrefixTestsHold == PathSpec => []TextTestsArePrefixTests
<1>1. ArgsOK => TextTestsArePrefixTests
  BY PathOfArg, TextTestsOf DEF ArgsOK, TextTestsArePrefixTests
<1>. QED
  BY <1>1, ArgsHold, PTL

LEMMA DotsAreNoNames ==
  CurDir \notin FileNames /\ ParentDir \notin FileNames /\ CurDir # ParentDir
BY PathKeysAssumption DEF CurDir, ParentDir

LEMMA LexicallyUnique ==
  ASSUME NEW s \in Seq(Components), NEW t \in Seq(Components), Len(s) <= Len(t),
         \A i \in 1 .. Len(s) : s[i] = t[i],
         NEW a, LexicallyBy(s, a), NEW b, LexicallyBy(t, b)
  PROVE  a[Len(s)] = b[Len(s)]
<1> DEFINE S == {k \in 0 .. Len(s) : a[k] = b[k]}
<1>1. 0 \in S
  <2>. 0 \in 0 .. Len(s)
    OBVIOUS
  <2>. QED
    BY DEF LexicallyBy
<1>2. ASSUME NEW k \in 0 .. Len(s), k \in S, k # Len(s)
      PROVE  k + 1 \in S
  <2>1. k + 1 \in 1 .. Len(s) /\ k \in 0 .. Len(t) /\ k # Len(t) /\ k + 1 \in 0 .. Len(s)
    BY <1>2
  <2>2. a[k + 1] = StepLexically(a[k], s[k + 1]) /\ b[k + 1] = StepLexically(b[k], t[k + 1])
    BY <1>2, <2>1 DEF LexicallyBy
  <2>3. a[k + 1] = b[k + 1]
    BY <1>2, <2>1, <2>2
  <2>. QED
    BY <2>1, <2>3
<1>3. Len(s) \in S
  <2>1. Len(s) \in Nat /\ Len(s) \in 0 .. Len(s)
    OBVIOUS
  <2>. HIDE DEF S
  <2>2. \A k \in 0 .. Len(s) : k \in S
    BY <1>1, <1>2, <2>1, UpTo
  <2>. QED
    BY <2>1, <2>2
<1>. QED
  BY <1>3

(* Below the root the two loops do the same.                               *)
LEMMA StepsAgree ==
  ASSUME NEW u \in Seq(FileNames), NEW c \in Components,
         IsPrefix(Root, StepLexically(Root \o u, c))
  PROVE  StepLexically(Root \o u, c) = Root \o StepUnderRoot(u, c)
<1>1. Root \in Seq(FileNames)
  BY PathKeysAssumption
<1>2. CASE c = CurDir
  BY <1>2, DotsAreNoNames DEF StepLexically, StepUnderRoot
<1>3. CASE c \in FileNames
  <2>1. c # CurDir /\ c # ParentDir
    BY <1>3, DotsAreNoNames
  <2>2. StepLexically(Root \o u, c) = Append(Root \o u, c) /\ StepUnderRoot(u, c) = Append(u, c)
    BY <1>3, <2>1 DEF StepLexically, StepUnderRoot
  <2>3. Append(Root \o u, c) = Root \o Append(u, c)
    BY <1>1, <1>3
  <2>. QED
    BY <2>2, <2>3
<1>4. CASE c = ParentDir /\ u # <<>>
  <2>1. Root \o u # <<>>
    BY <1>1, <1>4
  <2>2. StepLexically(Root \o u, c) = Front(Root \o u) /\ StepUnderRoot(u, c) = Front(u)
    BY <1>4, <2>1, DotsAreNoNames DEF StepLexically, StepUnderRoot
  <2>3. Front(Root \o u) = Root \o Front(u)
    BY <1>1, <1>4 DEF Front
  <2>. QED
    BY <2>2, <2>3
<1>5. CASE c = ParentDir /\ u = <<>>
  <2>1. Root \o u = Root /\ StepUnderRoot(u, c) = <<>> /\ Root \o <<>> = Root
    BY <1>1, <1>5, DotsAreNoNames DEF StepUnderRoot
  <2>2. CASE Root = <<>>
    BY <1>5, <2>1, <2>2, DotsAreNoNames DEF StepLexically
  <2>3. CASE Root # <<>>
    <3>1. StepLexically(Root, c) = Front(Root)
      BY <1>5, <2>3, DotsAreNoNames DEF StepLexically
    <3>2. Len(Front(Root)) < Len(Root) /\ Len(Front(Root)) \in Nat
      BY <1>1, <2>3 DEF Front
    <3>3. ~IsPrefix(Root, Front(Root))
      BY <1>1, <3>2 DEF IsPrefix
    <3>. QED
      BY <2>1, <3>1, <3>3
  <2>. QED
    BY <2>2, <2>3
<1>. QED
  BY <1>2, <1>3, <1>4, <1>5 DEF Components

LEMMA LoopsAgree ==
  ASSUME NEW arg \in Seq(Components), ~Climbs(arg)
  PROVE  NormalizeLexically(Root \o arg) = Root \o NormalizeArg(arg).path
<1> DEFINE abs == Root \o arg
           R == Len(Root)
           N == Len(arg)
<1>1. Root \in Seq(FileNames) /\ Root \in Seq(Components) /\ R \in Nat /\ N \in Nat
  BY PathKeysAssumption DEF Components
<1>2. /\ abs \in Seq(Components) /\ Len(abs) = R + N
      /\ \A i \in 1 .. R : abs[i] = Root[i]
      /\ \A i \in 1 .. N : abs[R + i] = arg[i]
  BY <1>1
<1>3. PICK L : LexicallyBy(abs, L) /\ NormalizeLexically(abs) = L[R + N]
  BY <1>2, NormalizeLexicallySteps
<1>4. PICK U : /\ UnderRootBy(arg, U) /\ \A k \in 0 .. N : U[k] \in Seq(FileNames)
               /\ NormalizeArg(arg).path = U[N]
  BY NormalizeArgSteps
<1>5. L[R] = Root
  <2> DEFINE S == {k \in 0 .. R : L[k] = SubSeq(Root, 1, k)}
  <2>1. 0 \in S
    <3>1. L[0] = <<>> /\ 0 \in 0 .. R /\ SubSeq(Root, 1, 0) = <<>>
      BY <1>1, <1>3 DEF LexicallyBy
    <3>. QED
      BY <3>1
  <2>2. ASSUME NEW k \in 0 .. R, k \in S, k # R
        PROVE  k + 1 \in S
    <3>1. k + 1 \in 1 .. R /\ k + 1 \in 0 .. R /\ k \in 0 .. Len(abs) /\ k # Len(abs)
      BY <1>1, <1>2, <2>2
    <3>2. L[k + 1] = StepLexically(L[k], abs[k + 1])
      BY <1>3, <3>1 DEF LexicallyBy
    <3>3. abs[k + 1] = Root[k + 1] /\ Root[k + 1] \in FileNames
      BY <1>1, <1>2, <3>1
    <3>4. L[k + 1] = Append(SubSeq(Root, 1, k), Root[k + 1])
      BY <2>2, <3>2, <3>3 DEF StepLexically
    <3>5. Append(SubSeq(Root, 1, k), Root[k + 1]) = SubSeq(Root, 1, k + 1)
      BY <1>1, <3>1
    <3>. QED
      BY <3>1, <3>4, <3>5
  <2>3. \A k \in 0 .. R : k \in S
    <3> HIDE DEF S, R
    <3>. QED
      BY <1>1, <2>1, <2>2, UpTo
  <2>4. R \in 0 .. R /\ SubSeq(Root, 1, R) = Root
    BY <1>1
  <2>. QED
    BY <2>3, <2>4
<1>6. ASSUME NEW n \in 0 .. N
      PROVE  IsPrefix(Root, L[R + n])
  <2> DEFINE part == Root \o SubSeq(arg, 1, n)
  <2>1. /\ part \in Seq(Components) /\ Len(part) = R + n /\ Len(part) <= Len(abs)
        /\ \A i \in 1 .. Len(part) : part[i] = abs[i]
    BY <1>1, <1>2
  <2>2. PICK b : LexicallyBy(part, b) /\ NormalizeLexically(part) = b[R + n]
    BY <2>1, NormalizeLexicallySteps
  <2> HIDE DEF part, abs, R
  <2>3. b[R + n] = L[R + n]
    BY <1>2, <1>3, <2>1, <2>2, LexicallyUnique
  <2>4. IsPrefix(Root, NormalizeLexically(part))
    BY DEF Climbs, part
  <2>. QED
    BY <2>2, <2>3, <2>4
<1> DEFINE S == {n \in 0 .. N : L[R + n] = Root \o U[n]}
<1>7. 0 \in S
  <2>1. U[0] = <<>> /\ 0 \in 0 .. N /\ R + 0 = R
    BY <1>1, <1>4 DEF UnderRootBy
  <2>2. Root \o <<>> = Root
    BY <1>1
  <2>. QED
    BY <1>5, <2>1, <2>2
<1>8. ASSUME NEW n \in 0 .. N, n \in S, n # N
      PROVE  n + 1 \in S
  <2>1. /\ n + 1 \in 0 .. N /\ n + 1 \in 1 .. N /\ R + n \in 0 .. Len(abs) /\ R + n # Len(abs)
        /\ (R + n) + 1 = R + (n + 1)
    BY <1>1, <1>2, <1>8
  <2>2. abs[R + (n + 1)] = arg[n + 1] /\ arg[n + 1] \in Components
    BY <1>2, <2>1
  <2>3. L[R + (n + 1)] = StepLexically(L[R + n], arg[n + 1])
    BY <1>3, <2>1, <2>2 DEF LexicallyBy
  <2>4. U[n + 1] = StepUnderRoot(U[n], arg[n + 1]) /\ U[n] \in Seq(FileNames)
    BY <1>4, <1>8 DEF UnderRootBy
  <2>5. L[R + n] = Root \o U[n] /\ IsPrefix(Root, L[R + (n + 1)])
    BY <1>6, <1>8, <2>1
  <2>6. L[R + (n + 1)] = Root \o U[n + 1]
    BY <2>2, <2>3, <2>4, <2>5, StepsAgree
  <2>. QED
    BY <2>1, <2>6
<1>9. N \in S
  <2>1. \A n \in 0 .. N : n \in S
    <3> HIDE DEF S, N
    <3>. QED
      BY <1>1, <1>7, <1>8, UpTo
  <2>2. N \in 0 .. N
    BY <1>1
  <2>. QED
    BY <2>1, <2>2
<1>. QED
  BY <1>3, <1>4, <1>9

(*************************************************************************)
(* Two paths written below a root, however many '.' and '..' they        *)
(* contain, get one key exactly where they name one file                 *)
(* (normalize_under_root, lib.rs).                                       *)
(*************************************************************************)
THEOREM OneKeyPerFileHolds == PathSpec => []OneKeyPerFile
<1>1. ASSUME ArgsOK
      PROVE  OneKeyPerFile
  <2> SUFFICES ASSUME ~Climbs(left), ~Climbs(right)
               PROVE  Render(NormalizeArg(left).path) = Render(NormalizeArg(right).path)
                      <=> NormalizeLexically(Root \o left) = NormalizeLexically(Root \o right)
    BY DEF OneKeyPerFile
  <2> DEFINE p == NormalizeArg(left).path
             q == NormalizeArg(right).path
  <2>1. /\ p \in Seq(FileNames) /\ q \in Seq(FileNames)
        /\ NormalizeLexically(Root \o left) = Root \o p
        /\ NormalizeLexically(Root \o right) = Root \o q
    BY <1>1, PathOfArg, LoopsAgree DEF ArgsOK
  <2> HIDE DEF p, q
  <2>2. Root \o p = Root \o q => p = q
    <3>1. Root \in Seq(FileNames)
      BY PathKeysAssumption
    <3> SUFFICES ASSUME Root \o p = Root \o q
                 PROVE  p = q
      OBVIOUS
    <3>2. /\ Len(p) = Len(Root \o p) - Len(Root) /\ Len(q) = Len(Root \o q) - Len(Root)
          /\ \A i \in 1 .. Len(p) : p[i] = (Root \o p)[Len(Root) + i]
          /\ \A i \in 1 .. Len(q) : q[i] = (Root \o q)[Len(Root) + i]
      BY <2>1, <3>1
    <3>3. Len(p) = Len(q) /\ \A i \in 1 .. Len(p) : p[i] = q[i]
      BY <3>2
    <3>. QED
      BY <2>1, <3>3
  <2>3. Render(p) = Render(q) => p = q
    BY <2>1, KeysIdentifyPaths
  <2>4. Render(p) = Render(q) <=> NormalizeLexically(Root \o left) = NormalizeLexically(Root \o right)
    BY <2>1, <2>2, <2>3
  <2>. QED
    BY <2>4 DEF p, q
<1>. QED
  BY <1>1, ArgsHold, PTL

(***************************************************************************)
(* One allocation                                                          *)
(***************************************************************************)

RowsOver(vals) == UNION {[D -> vals] : D \in SUBSET Nat}

LEMMA RowsOverAre ==
  ASSUME NEW vals, NEW d
  PROVE  d \in RowsOver(vals) <=>
           /\ DOMAIN d \in SUBSET Nat /\ d = [p \in DOMAIN d |-> d[p]]
           /\ \A p \in DOMAIN d : d[p] \in vals
<1>1. ASSUME d \in RowsOver(vals)
      PROVE  /\ DOMAIN d \in SUBSET Nat /\ d = [p \in DOMAIN d |-> d[p]]
             /\ \A p \in DOMAIN d : d[p] \in vals
  <2>1. PICK D \in SUBSET Nat : d \in [D -> vals]
    BY <1>1 DEF RowsOver
  <2>. QED
    BY <2>1
<1>2. ASSUME /\ DOMAIN d \in SUBSET Nat /\ d = [p \in DOMAIN d |-> d[p]]
             /\ \A p \in DOMAIN d : d[p] \in vals
      PROVE  d \in RowsOver(vals)
  <2>1. d \in [DOMAIN d -> vals]
    BY <1>2
  <2>. QED
    BY <1>2, <2>1 DEF RowsOver
<1>. QED
  BY <1>1, <1>2

(* The row that stood there is handed out, or a new one where none stood.  *)
Grants(d, key, now, a) ==
  \/ Holds(d, key) # {} /\ a.rows = d /\ a.port \in Holds(d, key)
  \/ /\ Holds(d, key) = {} /\ a.port \notin DOMAIN d
     /\ a.rows = WithRow(d, a.port, Reservation(key, now))

LEMMA AllocOneGrants ==
  ASSUME NEW d, DOMAIN d \in SUBSET Nat, NEW key, NEW base \in Nat, NEW open, NEW now
  PROVE  LET a == AllocOne(d, key, base, open, now)
         IN  /\ a = [port |-> a.port, rows |-> a.rows]
             /\ a.port \in Nat
             /\ a.rows = d \/ a.rows = WithRow(d, a.port, Reservation(key, now))
             /\ a.port # NoPort => Grants(d, key, now, a)
<1> DEFINE a == AllocOne(d, key, base, open, now)
           free == {p \in base..MaxPort : p \notin DOMAIN d /\ p \notin open}
<1>1. NoPort \in Nat /\ MaxPort \in Nat
  BY PortModelAssumption DEF NoPort
<1>2. CASE Holds(d, key) # {}
  <2>1. a = [port |-> Min(Holds(d, key)), rows |-> d]
    BY <1>2 DEF AllocOne
  <2>2. Holds(d, key) \in SUBSET Nat
    BY DEF Holds
  <2>3. Min(Holds(d, key)) \in Holds(d, key)
    BY <1>2, <2>2, LeastIsMin
  <2>. QED
    BY <1>2, <2>1, <2>2, <2>3 DEF Grants
<1>3. CASE Holds(d, key) = {}
  <2> DEFINE p == NextFree(d, base, open)
  <2>1. a = [port |-> p, rows |-> WithRow(d, p, Reservation(key, now))]
    BY <1>3 DEF AllocOne
  <2>2. p \in Nat /\ (p # NoPort => p \notin DOMAIN d)
    <3>1. CASE free = {}
      BY <1>1, <3>1 DEF NextFree
    <3>2. CASE free # {}
      <4>1. free \in SUBSET Nat
        BY <1>1
      <4>2. Min(free) \in free
        BY <3>2, <4>1, LeastIsMin
      <4>3. p = Min(free)
        BY <3>2 DEF NextFree
      <4>. QED
        BY <4>1, <4>2, <4>3
    <3>. QED
      BY <3>1, <3>2
  <2>. HIDE DEF p, a
  <2>. QED
    BY <1>3, <2>1, <2>2 DEF Grants, a
<1>. QED
  BY <1>2, <1>3

LEMMA CommitOneGrants ==
  ASSUME NEW d, DOMAIN d \in SUBSET Nat, NEW key, NEW base \in Nat, NEW port \in Nat, NEW open, NEW now
  PROVE  LET a == CommitOne(d, key, base, port, open, now)
         IN  /\ a = [port |-> a.port, rows |-> a.rows]
             /\ a.port \in Nat
             /\ a.rows = d \/ a.rows = WithRow(d, a.port, Reservation(key, now))
             /\ a.port # NoPort => Grants(d, key, now, a)
<1>1. CASE Holds(d, key) # {} \/ port \in DOMAIN d
  BY <1>1, AllocOneGrants DEF CommitOne
<1>2. CASE Holds(d, key) = {} /\ port \notin DOMAIN d
  BY <1>2 DEF CommitOne, Grants
<1>. QED
  BY <1>1, <1>2

(***************************************************************************)
(* The two folds                                                           *)
(***************************************************************************)

ChooseStep(acc, r, open, now) ==
  LET a == AllocOne(acc.rows, r.key, r.base, open, now)
  IN  [rows |-> a.rows, ports |-> Append(acc.ports, a.port)]

CommitStep(acc, i, reqs, chosen, open, now) ==
  LET a == CommitOne(acc.rows, reqs[i].key, reqs[i].base, chosen[i], open, now)
  IN  [rows |-> a.rows, ports |-> Append(acc.ports, a.port)]

(* The values of rows while the fold runs.                                 *)
FoldedRows(d, reqs, now) ==
  [rows : RowsOver({d[p] : p \in DOMAIN d}
                     \cup {Reservation(reqs[i].key, now) : i \in 1 .. Len(reqs)}),
   ports : Seq(Nat)]

IsPorts(d) == DOMAIN d \in SUBSET Nat /\ d = [p \in DOMAIN d |-> d[p]]

LEMMA FoldedRowsStart ==
  ASSUME NEW d, IsPorts(d), NEW reqs, NEW now
  PROVE  [rows |-> d, ports |-> <<>>] \in FoldedRows(d, reqs, now)
<1>1. d \in RowsOver({d[p] : p \in DOMAIN d} \cup {Reservation(reqs[i].key, now) : i \in 1 .. Len(reqs)})
  BY RowsOverAre DEF IsPorts
<1>. QED
  BY <1>1 DEF FoldedRows

LEMMA FoldedRowsAdd ==
  ASSUME NEW d, NEW reqs, NEW now, NEW acc \in FoldedRows(d, reqs, now), NEW p \in Nat,
         NEW i \in 1 .. Len(reqs),
         NEW next, next = acc.rows \/ next = WithRow(acc.rows, p, Reservation(reqs[i].key, now))
  PROVE  [rows |-> next, ports |-> Append(acc.ports, p)] \in FoldedRows(d, reqs, now)
<1> DEFINE vals == {d[q] : q \in DOMAIN d} \cup {Reservation(reqs[k].key, now) : k \in 1 .. Len(reqs)}
<1>1. acc.rows \in RowsOver(vals) /\ acc.ports \in Seq(Nat) /\ Reservation(reqs[i].key, now) \in vals
  BY DEF FoldedRows
<1> HIDE DEF vals
<1>2. next \in RowsOver(vals)
  <2>1. DOMAIN acc.rows \in SUBSET Nat /\ \A q \in DOMAIN acc.rows : acc.rows[q] \in vals
    BY <1>1, RowsOverAre
  <2>2. WithRow(acc.rows, p, Reservation(reqs[i].key, now)) \in RowsOver(vals)
    <3> DEFINE w == WithRow(acc.rows, p, Reservation(reqs[i].key, now))
    <3>1. /\ DOMAIN w = DOMAIN acc.rows \cup {p}
          /\ w = [q \in DOMAIN w |-> w[q]]
          /\ \A q \in DOMAIN w : w[q] \in vals
      BY <1>1, <2>1 DEF WithRow
    <3>. HIDE DEF w
    <3>. QED
      BY <2>1, <3>1, RowsOverAre DEF w
  <2>. QED
    BY <1>1, <2>2
<1>. QED
  BY <1>1, <1>2 DEF FoldedRows, vals

LEMMA FoldedRowsAre ==
  ASSUME NEW d, NEW reqs, NEW now, NEW acc \in FoldedRows(d, reqs, now)
  PROVE  IsPorts(acc.rows) /\ acc.ports \in Seq(Nat)
BY RowsOverAre DEF FoldedRows, IsPorts

LEMMA FoldedRowsChoose ==
  ASSUME NEW d, NEW reqs \in Seq(Requests), NEW open, NEW now,
         NEW acc \in FoldedRows(d, reqs, now), NEW i \in 1 .. Len(reqs)
  PROVE  ChooseStep(acc, reqs[i], open, now) \in FoldedRows(d, reqs, now)
<1>1. reqs[i] \in Requests
  OBVIOUS
<1>2. reqs[i].base \in Nat
  BY <1>1 DEF Requests
<1>3. DOMAIN acc.rows \in SUBSET Nat
  BY FoldedRowsAre DEF IsPorts
<1> DEFINE a == AllocOne(acc.rows, reqs[i].key, reqs[i].base, open, now)
<1>4. a.port \in Nat /\ (a.rows = acc.rows \/ a.rows = WithRow(acc.rows, a.port, Reservation(reqs[i].key, now)))
  BY <1>2, <1>3, AllocOneGrants
<1> HIDE DEF a
<1>5. [rows |-> a.rows, ports |-> Append(acc.ports, a.port)] \in FoldedRows(d, reqs, now)
  BY <1>4, FoldedRowsAdd
<1>. QED
  BY <1>5 DEF ChooseStep, a

LEMMA FoldedRowsCommit ==
  ASSUME NEW d, NEW reqs \in Seq(Requests), NEW chosen, NEW open, NEW now,
         NEW acc \in FoldedRows(d, reqs, now), NEW i \in 1 .. Len(reqs), chosen[i] \in Nat
  PROVE  CommitStep(acc, i, reqs, chosen, open, now) \in FoldedRows(d, reqs, now)
<1>1. reqs[i] \in Requests
  OBVIOUS
<1>2. reqs[i].base \in Nat
  BY <1>1 DEF Requests
<1>3. DOMAIN acc.rows \in SUBSET Nat
  BY FoldedRowsAre DEF IsPorts
<1> DEFINE a == CommitOne(acc.rows, reqs[i].key, reqs[i].base, chosen[i], open, now)
<1>4. a.port \in Nat /\ (a.rows = acc.rows \/ a.rows = WithRow(acc.rows, a.port, Reservation(reqs[i].key, now)))
  BY <1>2, <1>3, CommitOneGrants
<1> HIDE DEF a
<1>5. [rows |-> a.rows, ports |-> Append(acc.ports, a.port)] \in FoldedRows(d, reqs, now)
  BY <1>4, FoldedRowsAdd
<1>. QED
  BY <1>5 DEF CommitStep, a

Positions(reqs) == [i \in DOMAIN reqs |-> i]

LEMMA PositionsAre ==
  ASSUME NEW reqs \in Seq(Requests)
  PROVE  /\ DOMAIN Positions(reqs) = 1 .. Len(reqs) /\ Len(Positions(reqs)) = Len(reqs)
         /\ \A i \in 1 .. Len(reqs) : Positions(reqs)[i] = i
<1>1. Positions(reqs) \in Seq(Nat)
  BY DEF Positions
<1>2. Positions(reqs) \in [1 .. Len(reqs) -> Nat]
  BY DEF Positions
<1>. QED
  BY <1>1, <1>2 DEF Positions

(* a[k] is what the first k requests leave and answer.                     *)
ChosenBy(d, reqs, open, now, a) ==
  /\ a[0] = [rows |-> d, ports |-> <<>>]
  /\ \A k \in 0 .. Len(reqs) : k # Len(reqs) => a[k + 1] = ChooseStep(a[k], reqs[k + 1], open, now)

CommittedBy(d, reqs, chosen, open, now, a) ==
  /\ a[0] = [rows |-> d, ports |-> <<>>]
  /\ \A k \in 0 .. Len(Positions(reqs)) : k # Len(Positions(reqs)) =>
       a[k + 1] = CommitStep(a[k], Positions(reqs)[k + 1], reqs, chosen, open, now)

LEMMA ChooseSteps ==
  ASSUME NEW d, IsPorts(d), NEW reqs \in Seq(Requests), NEW open, NEW now
  PROVE  \E a : ChosenBy(d, reqs, open, now, a) /\ ChoosePorts(d, reqs, open, now) = a[Len(reqs)].ports
<1> DEFINE N == Len(reqs)
           V == FoldedRows(d, reqs, now)
           Iter(g) == g = [s \in SUBSET (DOMAIN reqs) |->
                        IF s = {} THEN [rows |-> d, ports |-> <<>>]
                        ELSE ChooseStep(g[s \ {Max(s)}], reqs[Max(s)], open, now)]
           step == [i \in 1 .. N |-> [v \in V |-> ChooseStep(v, reqs[i], open, now)]]
           g == CHOOSE g : Iter(g)
<1>1. N \in Nat /\ DOMAIN reqs = 1 .. N
  OBVIOUS
<1>2. [rows |-> d, ports |-> <<>>] \in V
  BY FoldedRowsStart
<1>3. \A v \in V : \A i \in 1 .. N : ChooseStep(v, reqs[i], open, now) \in V
  BY FoldedRowsChoose
<1> HIDE DEF V, N
<1>4. \E h : Iter(h)
  <2>1. \A i \in 1 .. N : \A v \in V : step[i][v] = ChooseStep(v, reqs[i], open, now) /\ step[i][v] \in V
    BY <1>3
  <2> HIDE DEF step
  <2>2. PICK h : IsFold(step, [rows |-> d, ports |-> <<>>], N, h) /\ \A s \in SUBSET (1 .. N) : h[s] \in V
    BY <1>1, <1>2, <2>1, FoldExists
  <2>3. ASSUME NEW s \in SUBSET (1 .. N), s # {}
        PROVE  step[Max(s)][h[s \ {Max(s)}]] = ChooseStep(h[s \ {Max(s)}], reqs[Max(s)], open, now)
    <3>1. Max(s) \in 1 .. N /\ s \ {Max(s)} \in SUBSET (1 .. N)
      BY <1>1, <2>3, GreatestIsMax
    <3>. QED
      BY <2>1, <2>2, <3>1
  <2>4. Iter(h)
    BY <1>1, <2>2, <2>3 DEF IsFold
  <2>. HIDE DEF Iter
  <2>. QED
    BY <2>4
<1>5. Iter(g)
  <2>. HIDE DEF Iter
  <2>. QED
    BY <1>4
<1>6. ChoosePorts(d, reqs, open, now) = g[DOMAIN reqs].ports
  BY DEF ChoosePorts, ChooseStep, FoldLeft, MapThenFoldSet
<1> HIDE DEF g
<1>7. \A s \in SUBSET (1 .. N) :
        g[s] = IF s = {} THEN [rows |-> d, ports |-> <<>>]
               ELSE ChooseStep(g[s \ {Max(s)}], reqs[Max(s)], open, now)
  BY <1>1, <1>5
<1> DEFINE a == [k \in 0 .. N |-> g[1 .. k]]
<1>8. a[0] = [rows |-> d, ports |-> <<>>]
  <2>1. 1 .. 0 = {} /\ {} \in SUBSET (1 .. N) /\ 0 \in 0 .. N
    BY <1>1
  <2>. QED
    BY <1>7, <2>1
<1>9. ASSUME NEW k \in 0 .. N, k # N
      PROVE  a[k + 1] = ChooseStep(a[k], reqs[k + 1], open, now)
  <2>1. k < N /\ k \in Nat /\ k + 1 \in 0 .. N
    BY <1>1, <1>9
  <2>2. /\ 1 .. k + 1 \in SUBSET (1 .. N) /\ 1 .. k + 1 # {}
        /\ Max(1 .. k + 1) = k + 1
        /\ (1 .. k + 1) \ {k + 1} = 1 .. k
    BY <1>1, <2>1, Cut
  <2>3. g[1 .. k + 1] = ChooseStep(g[1 .. k], reqs[k + 1], open, now)
    BY <1>7, <2>2
  <2>. QED
    BY <2>1, <2>3
<1>10. ChosenBy(d, reqs, open, now, a)
  BY <1>8, <1>9 DEF ChosenBy, N
<1>11. a[N] = g[DOMAIN reqs]
  BY <1>1
<1>. QED
  BY <1>6, <1>10, <1>11 DEF N

LEMMA CommitSteps ==
  ASSUME NEW d, IsPorts(d), NEW reqs \in Seq(Requests), NEW chosen,
         \A i \in 1 .. Len(reqs) : chosen[i] \in Nat, NEW open, NEW now
  PROVE  \E a : CommittedBy(d, reqs, chosen, open, now, a) /\ CommitPorts(d, reqs, chosen, open, now) = a[Len(Positions(reqs))]
<1> DEFINE N == Len(Positions(reqs))
           V == FoldedRows(d, reqs, now)
           Iter(g) == g = [s \in SUBSET (DOMAIN Positions(reqs)) |->
                        IF s = {} THEN [rows |-> d, ports |-> <<>>]
                        ELSE CommitStep(g[s \ {Max(s)}], Positions(reqs)[Max(s)], reqs, chosen, open, now)]
           step == [i \in 1 .. N |-> [v \in V |-> CommitStep(v, Positions(reqs)[i], reqs, chosen, open, now)]]
           g == CHOOSE g : Iter(g)
<1>1. N \in Nat /\ DOMAIN Positions(reqs) = 1 .. N
  BY PositionsAre
<1>2. [rows |-> d, ports |-> <<>>] \in V
  BY FoldedRowsStart
<1>3. \A v \in V : \A i \in 1 .. N : CommitStep(v, Positions(reqs)[i], reqs, chosen, open, now) \in V
   <2> SUFFICES ASSUME NEW v \in V, NEW i \in 1 .. N
               PROVE  CommitStep(v, Positions(reqs)[i], reqs, chosen, open, now) \in V
    OBVIOUS
  <2>1. i \in 1 .. Len(reqs) /\ Positions(reqs)[i] = i /\ chosen[i] \in Nat
    BY PositionsAre
  <2>. QED
    BY <2>1, FoldedRowsCommit
<1> HIDE DEF V, N
<1>4. \E h : Iter(h)
  <2>1. \A i \in 1 .. N : \A v \in V : step[i][v] = CommitStep(v, Positions(reqs)[i], reqs, chosen, open, now) /\ step[i][v] \in V
    BY <1>3
  <2> HIDE DEF step
  <2>2. PICK h : IsFold(step, [rows |-> d, ports |-> <<>>], N, h) /\ \A s \in SUBSET (1 .. N) : h[s] \in V
    BY <1>1, <1>2, <2>1, FoldExists
  <2>3. ASSUME NEW s \in SUBSET (1 .. N), s # {}
        PROVE  step[Max(s)][h[s \ {Max(s)}]] = CommitStep(h[s \ {Max(s)}], Positions(reqs)[Max(s)], reqs, chosen, open, now)
    <3>1. Max(s) \in 1 .. N /\ s \ {Max(s)} \in SUBSET (1 .. N)
      BY <1>1, <2>3, GreatestIsMax
    <3>. QED
      BY <2>1, <2>2, <3>1
  <2>4. Iter(h)
    BY <1>1, <2>2, <2>3 DEF IsFold
  <2>. HIDE DEF Iter
  <2>. QED
    BY <2>4
<1>5. Iter(g)
  <2>. HIDE DEF Iter
  <2>. QED
    BY <1>4
<1>6. CommitPorts(d, reqs, chosen, open, now) = g[DOMAIN Positions(reqs)]
  BY DEF CommitPorts, CommitStep, Positions, FoldLeft, MapThenFoldSet
<1> HIDE DEF g
<1>7. \A s \in SUBSET (1 .. N) :
        g[s] = IF s = {} THEN [rows |-> d, ports |-> <<>>]
               ELSE CommitStep(g[s \ {Max(s)}], Positions(reqs)[Max(s)], reqs, chosen, open, now)
  BY <1>1, <1>5
<1> DEFINE a == [k \in 0 .. N |-> g[1 .. k]]
<1>8. a[0] = [rows |-> d, ports |-> <<>>]
  <2>1. 1 .. 0 = {} /\ {} \in SUBSET (1 .. N) /\ 0 \in 0 .. N
    BY <1>1
  <2>. QED
    BY <1>7, <2>1
<1>9. ASSUME NEW k \in 0 .. N, k # N
      PROVE  a[k + 1] = CommitStep(a[k], Positions(reqs)[k + 1], reqs, chosen, open, now)
  <2>1. k < N /\ k \in Nat /\ k + 1 \in 0 .. N
    BY <1>1, <1>9
  <2>2. /\ 1 .. k + 1 \in SUBSET (1 .. N) /\ 1 .. k + 1 # {}
        /\ Max(1 .. k + 1) = k + 1
        /\ (1 .. k + 1) \ {k + 1} = 1 .. k
    BY <1>1, <2>1, Cut
  <2>3. g[1 .. k + 1] = CommitStep(g[1 .. k], Positions(reqs)[k + 1], reqs, chosen, open, now)
    BY <1>7, <2>2
  <2>. QED
    BY <2>1, <2>3
<1>10. CommittedBy(d, reqs, chosen, open, now, a)
  BY <1>8, <1>9 DEF CommittedBy, N
<1>11. a[N] = g[DOMAIN Positions(reqs)]
  BY <1>1
<1>. QED
  BY <1>6, <1>10, <1>11 DEF N

LEMMA ChosenAreNumbers ==
  ASSUME NEW d, IsPorts(d), NEW reqs \in Seq(Requests), NEW open, NEW now
  PROVE  /\ ChoosePorts(d, reqs, open, now) \in Seq(Nat)
         /\ Len(ChoosePorts(d, reqs, open, now)) = Len(reqs)
<1> DEFINE N == Len(reqs)
<1>1. PICK a : ChosenBy(d, reqs, open, now, a) /\ ChoosePorts(d, reqs, open, now) = a[N].ports
  BY ChooseSteps
<1> DEFINE S == {k \in 0 .. N : a[k] \in FoldedRows(d, reqs, now) /\ Len(a[k].ports) = k}
<1>2. 0 \in S
  <2>1. a[0] = [rows |-> d, ports |-> <<>>] /\ 0 \in 0 .. N /\ Len(<<>>) = 0
    BY <1>1 DEF ChosenBy
  <2>. QED
    BY <2>1, FoldedRowsStart
<1>3. ASSUME NEW k \in 0 .. N, k \in S, k # N
      PROVE  k + 1 \in S
  <2>1. k + 1 \in 1 .. N /\ k + 1 \in 0 .. N /\ a[k + 1] = ChooseStep(a[k], reqs[k + 1], open, now)
        /\ a[k] \in FoldedRows(d, reqs, now) /\ Len(a[k].ports) = k
    BY <1>1, <1>3 DEF ChosenBy
  <2>2. a[k + 1] \in FoldedRows(d, reqs, now)
    BY <2>1, FoldedRowsChoose
  <2>3. Len(a[k + 1].ports) = k + 1
    <3>1. a[k].ports \in Seq(Nat)
      BY <2>1, FoldedRowsAre
    <3> DEFINE q == AllocOne(a[k].rows, reqs[k + 1].key, reqs[k + 1].base, open, now).port
    <3>2. a[k + 1].ports = Append(a[k].ports, q)
      BY <2>1 DEF ChooseStep
    <3>. HIDE DEF q
    <3>3. Len(Append(a[k].ports, q)) = Len(a[k].ports) + 1
      BY <3>1
    <3>. QED
      BY <2>1, <3>2, <3>3
  <2>. QED
    BY <2>1, <2>2, <2>3
<1>4. N \in S
  <2>1. N \in Nat /\ N \in 0 .. N
    OBVIOUS
  <2>. HIDE DEF S, N
  <2>2. \A k \in 0 .. N : k \in S
    BY <1>2, <1>3, <2>1, UpTo
  <2>. QED
    BY <2>1, <2>2
<1>. QED
  BY <1>1, <1>4, FoldedRowsAre

LEMMA HoldsOfNewRow ==
  ASSUME NEW d, NEW q, q \notin DOMAIN d, NEW r, NEW now, NEW key
  PROVE  Holds(WithRow(d, q, Reservation(r, now)), key)
           = Holds(d, key) \cup (IF key = r THEN {q} ELSE {})
BY DEF Holds, WithRow, Reservation

(* What the first k requests were answered, and what they left.            *)
Served(d, reqs, acc, k) ==
  /\ \A p \in DOMAIN d : p \in DOMAIN acc.rows /\ acc.rows[p] = d[p]
  /\ \A i \in 1 .. k : acc.ports[i] \in Holds(acc.rows, reqs[i].key)
  /\ \A key : Holds(d, key) # {} => Holds(acc.rows, key) = Holds(d, key)
  /\ \A key : Holds(d, key) = {} => \A x, y \in Holds(acc.rows, key) : x = y

LEMMA ServedNext ==
  ASSUME NEW d, NEW reqs, NEW now, NEW acc, IsPorts(acc.rows), acc.ports \in Seq(Nat),
         NEW k \in Nat, Len(acc.ports) = k, Served(d, reqs, acc, k),
         NEW a, a.port \in Nat, Grants(acc.rows, reqs[k + 1].key, now, a)
  PROVE  Served(d, reqs, [rows |-> a.rows, ports |-> Append(acc.ports, a.port)], k + 1)
<1> DEFINE r == reqs[k + 1].key
           q == a.port
           new == [rows |-> a.rows, ports |-> Append(acc.ports, q)]
<1>1. /\ \A i \in 1 .. k : new.ports[i] = acc.ports[i]
      /\ new.ports[k + 1] = q
      /\ \A i \in 1 .. k + 1 : i \in 1 .. k \/ i = k + 1
  OBVIOUS
<1>2. CASE Holds(acc.rows, r) # {} /\ a.rows = acc.rows /\ q \in Holds(acc.rows, r)
  BY <1>1, <1>2 DEF Served
<1>3. CASE /\ Holds(acc.rows, r) = {} /\ q \notin DOMAIN acc.rows
           /\ a.rows = WithRow(acc.rows, q, Reservation(r, now))
  <2>1. \A key : Holds(a.rows, key) = Holds(acc.rows, key) \cup (IF key = r THEN {q} ELSE {})
    BY <1>3, HoldsOfNewRow
  <2>2. \A p \in DOMAIN acc.rows : p \in DOMAIN a.rows /\ a.rows[p] = acc.rows[p]
    BY <1>3 DEF WithRow
  <2>3. Holds(d, r) = {}
    BY <1>3 DEF Served
  <2> HIDE DEF q, r
  <2>4. \A p \in DOMAIN d : p \in DOMAIN a.rows /\ a.rows[p] = d[p]
    BY <2>2 DEF Served
  <2>5. \A i \in 1 .. k + 1 : new.ports[i] \in Holds(a.rows, reqs[i].key)
    BY <1>1, <2>1 DEF Served, r
  <2>6. \A key : Holds(d, key) # {} => Holds(a.rows, key) = Holds(d, key)
    <3> SUFFICES ASSUME NEW key, Holds(d, key) # {}
                 PROVE  Holds(a.rows, key) = Holds(d, key)
      OBVIOUS
    <3>1. key # r
      BY <2>3
    <3>2. Holds(a.rows, key) = Holds(acc.rows, key)
      BY <2>1, <3>1
    <3>3. Holds(acc.rows, key) = Holds(d, key)
      BY DEF Served
    <3>. QED
      BY <3>2, <3>3
  <2>7. \A key : Holds(d, key) = {} => \A x, y \in Holds(a.rows, key) : x = y
    BY <1>3, <2>1 DEF Served
  <2>8. new.rows = a.rows
    OBVIOUS
  <2>. HIDE DEF new
  <2>9. Served(d, reqs, new, k + 1)
    BY <2>4, <2>5, <2>6, <2>7, <2>8 DEF Served
  <2>. QED
    BY <2>9 DEF new, q
<1>. QED
  BY <1>2, <1>3 DEF Grants

LEMMA CommitServes ==
  ASSUME NEW d, IsPorts(d), NEW reqs \in Seq(Requests), NEW chosen \in Seq(Nat),
         Len(chosen) = Len(reqs), NEW open, NEW now
  PROVE  LET g == CommitPorts(d, reqs, chosen, open, now)
         IN  /\ IsPorts(g.rows) /\ g.ports \in Seq(Nat) /\ Len(g.ports) = Len(reqs)
             /\ NoPort \notin Range(g.ports) => Served(d, reqs, g, Len(reqs))
<1> DEFINE N == Len(reqs)
           Fine(acc, k) == \A i \in 1 .. k : acc.ports[i] # NoPort
<1>0. N \in Nat /\ \A i \in 1 .. N : chosen[i] \in Nat /\ reqs[i] \in Requests
  OBVIOUS
<1>1. PICK a : /\ CommittedBy(d, reqs, chosen, open, now, a)
               /\ CommitPorts(d, reqs, chosen, open, now) = a[N]
  BY <1>0, CommitSteps, PositionsAre, SMTT(30)
<1>2. /\ a[0] = [rows |-> d, ports |-> <<>>]
      /\ \A k \in 0 .. N : k # N => a[k + 1] = CommitStep(a[k], k + 1, reqs, chosen, open, now)
  <2>1. \A k \in 0 .. N : k # N => k + 1 \in 1 .. N
    BY <1>0
  <2>. QED
    BY <1>1, <2>1, PositionsAre DEF CommittedBy
<1> DEFINE S == {k \in 0 .. N : /\ a[k] \in FoldedRows(d, reqs, now) /\ Len(a[k].ports) = k
                                /\ Fine(a[k], k) => Served(d, reqs, a[k], k)}
<1>3. 0 \in S
  <2>1. Served(d, reqs, a[0], 0)
    BY <1>2 DEF Served, Holds
  <2>2. a[0] \in FoldedRows(d, reqs, now) /\ Len(a[0].ports) = 0 /\ 0 \in 0 .. N
    BY <1>2, FoldedRowsStart
  <2>. QED
    BY <2>1, <2>2
<1>4. ASSUME NEW k \in 0 .. N, k \in S, k # N
      PROVE  k + 1 \in S
  <2>1. /\ k + 1 \in 1 .. N /\ k + 1 \in 0 .. N /\ k \in Nat
        /\ a[k] \in FoldedRows(d, reqs, now) /\ Len(a[k].ports) = k
        /\ Fine(a[k], k) => Served(d, reqs, a[k], k)
        /\ a[k + 1] = CommitStep(a[k], k + 1, reqs, chosen, open, now)
    BY <1>2, <1>4
  <2>2. IsPorts(a[k].rows) /\ a[k].ports \in Seq(Nat)
    BY <2>1, FoldedRowsAre
  <2> DEFINE r == reqs[k + 1]
             b == CommitOne(a[k].rows, r.key, r.base, chosen[k + 1], open, now)
  <2>3. /\ b.port \in Nat
        /\ b.port # NoPort => Grants(a[k].rows, r.key, now, b)
    <3>1. r.base \in Nat /\ chosen[k + 1] \in Nat
      BY <1>0, <2>1 DEF Requests
    <3>. HIDE DEF r
    <3>. QED
      BY <2>2, <3>1, CommitOneGrants DEF IsPorts
  <2>4. a[k + 1] = [rows |-> b.rows, ports |-> Append(a[k].ports, b.port)]
    BY <2>1 DEF CommitStep
  <2>5. a[k + 1] \in FoldedRows(d, reqs, now)
    <3>1. chosen[k + 1] \in Nat
      BY <1>0, <2>1
    <3>. QED
      BY <2>1, <3>1, FoldedRowsCommit
  <2> HIDE DEF b
  <2>6. /\ Len(a[k + 1].ports) = k + 1
        /\ \A i \in 1 .. k : a[k + 1].ports[i] = a[k].ports[i]
        /\ a[k + 1].ports[k + 1] = b.port
    <3>1. a[k + 1].ports = Append(a[k].ports, b.port)
      BY <2>4
    <3>2. /\ Len(Append(a[k].ports, b.port)) = Len(a[k].ports) + 1
          /\ \A i \in 1 .. Len(a[k].ports) : Append(a[k].ports, b.port)[i] = a[k].ports[i]
          /\ Append(a[k].ports, b.port)[Len(a[k].ports) + 1] = b.port
      BY <2>2, <2>3
    <3>. QED
      BY <2>1, <3>1, <3>2
  <2>7. ASSUME Fine(a[k + 1], k + 1)
        PROVE  Served(d, reqs, a[k + 1], k + 1)
    <3>1. Fine(a[k], k) /\ b.port # NoPort
      <4>1. k + 1 \in 1 .. k + 1 /\ \A i \in 1 .. k : i \in 1 .. k + 1
        BY <2>1
      <4>. QED
        BY <2>6, <2>7, <4>1
    <3>2. Served(d, reqs, a[k], k)
      BY <2>1, <3>1
    <3>. QED
      BY <2>1, <2>2, <2>3, <2>4, <3>1, <3>2, ServedNext
  <2>. QED
    BY <2>1, <2>5, <2>6, <2>7
<1>5. N \in S
  <2>1. N \in Nat /\ N \in 0 .. N
    BY <1>0
  <2>. HIDE DEF S, N
  <2>2. \A k \in 0 .. N : k \in S
    BY <1>3, <1>4, <2>1, UpTo
  <2>. QED
    BY <2>1, <2>2
<1>6. NoPort \notin Range(a[N].ports) => Fine(a[N], N)
  <2>1. a[N].ports \in Seq(Nat) /\ Len(a[N].ports) = N
    BY <1>5, FoldedRowsAre
  <2>2. DOMAIN a[N].ports = 1 .. N
    BY <2>1
  <2>. QED
    BY <2>2 DEF Range
<1>. QED
  BY <1>1, <1>5, <1>6, FoldedRowsAre

(***************************************************************************)
(* What the registry's clients are doing                                   *)
(***************************************************************************)

Labels == {"idle", "alloc", "grant", "read", "prune", "spawn", "record", "down", "release"}

Allocating(c) == job[c] \in Jobs /\ job[c].op \in {"up", "alloc"}

(* A client in the middle of a launch or an allocation.                    *)
Launching(c) ==
  \/ pc[c] \in {"grant", "spawn", "record"}
  \/ pc[c] \in {"read", "prune"} /\ job[c].op = "up"

PortsOK ==
  /\ IsPorts(rows)
  /\ pc \in [Clients -> Labels]
  /\ job \in [Clients -> Jobs \cup {None}]
  /\ picked \in [Clients -> Seq(Nat)]
  /\ todo \in [Clients -> SUBSET Nat]
  /\ dead \in [Clients -> SUBSET Nat]
  /\ child = [c \in Clients |-> child[c]]
  /\ \A c \in Clients :
       /\ pc[c] = "alloc" => Allocating(c)
       /\ Launching(c) => Allocating(c) /\ Len(picked[c]) = Len(job[c].reqs)
       /\ pc[c] \in {"spawn", "record"} => todo[c] \subseteq DOMAIN job[c].reqs
       /\ pc[c] = "record" => todo[c] # {}

LEMMA PortsOKInit == Init => PortsOK
<1> SUFFICES ASSUME Init
             PROVE  PortsOK
  OBVIOUS
<1>1. IsPorts(rows)
  BY DEF Init, NoRows, IsPorts
<1>2. \A c \in Clients : pc[c] = "idle"
  BY DEF Init
<1>3. pc \in [Clients -> Labels] /\ picked \in [Clients -> Seq(Nat)]
  BY DEF Init, Labels
<1>. QED
  BY <1>1, <1>2, <1>3 DEF Init, PortsOK, Launching

(* A job that is over leaves nothing behind.                               *)
LEMMA FinishKeepsPortsOK ==
  ASSUME PortsOK, NEW c \in Clients, NEW from, Finish(c, from), IsPorts(rows')
  PROVE  PortsOK'
<1>1. /\ pc' = [pc EXCEPT ![c] = "idle"] /\ job' = [job EXCEPT ![c] = None]
      /\ picked' = [picked EXCEPT ![c] = <<>>] /\ dead' = [dead EXCEPT ![c] = {}]
      /\ todo' = [todo EXCEPT ![c] = {}] /\ child' = [child EXCEPT ![c] = NoPid]
  BY DEF Finish
<1>2. /\ pc' \in [Clients -> Labels] /\ job' \in [Clients -> Jobs \cup {None}]
      /\ picked' \in [Clients -> Seq(Nat)] /\ todo' \in [Clients -> SUBSET Nat]
      /\ dead' \in [Clients -> SUBSET Nat] /\ child' = [u \in Clients |-> child'[u]]
  <2>1. "idle" \in Labels /\ <<>> \in Seq(Nat)
    BY DEF Labels
  <2>. QED
    BY <1>1, <2>1 DEF PortsOK
<1>3. ASSUME NEW u \in Clients
      PROVE  /\ pc'[u] = "alloc" => Allocating(u)'
             /\ Launching(u)' => Allocating(u)' /\ Len(picked'[u]) = Len(job'[u].reqs)
             /\ pc'[u] \in {"spawn", "record"} => todo'[u] \subseteq DOMAIN job'[u].reqs
             /\ pc'[u] = "record" => todo'[u] # {}
  <2>1. CASE u = c
    <3>1. pc'[u] = "idle"
      BY <1>1, <2>1 DEF PortsOK
    <3>. QED
      BY <3>1 DEF Launching
  <2>2. CASE u # c
    <3>1. pc'[u] = pc[u] /\ job'[u] = job[u] /\ picked'[u] = picked[u] /\ todo'[u] = todo[u]
      BY <1>1, <2>2 DEF PortsOK
    <3>. QED
      BY <3>1 DEF Launching, Allocating, PortsOK
  <2>. QED
    BY <2>1, <2>2
<1>. QED
  BY <1>2, <1>3 DEF PortsOK

(* A step of one client that leaves the others alone.                      *)
OneMoved(c) ==
  /\ pc' \in [Clients -> Labels] /\ job' \in [Clients -> Jobs \cup {None}]
  /\ picked' \in [Clients -> Seq(Nat)] /\ todo' \in [Clients -> SUBSET Nat]
  /\ dead' \in [Clients -> SUBSET Nat] /\ child' = [u \in Clients |-> child'[u]]
  /\ \A u \in Clients \ {c} :
       pc'[u] = pc[u] /\ job'[u] = job[u] /\ picked'[u] = picked[u] /\ todo'[u] = todo[u]
  /\ pc'[c] = "alloc" => Allocating(c)'
  /\ Launching(c)' => Allocating(c)' /\ Len(picked'[c]) = Len(job'[c].reqs)
  /\ pc'[c] \in {"spawn", "record"} => todo'[c] \subseteq DOMAIN job'[c].reqs
  /\ pc'[c] = "record" => todo'[c] # {}

LEMMA OneMovedKeepsPortsOK ==
  ASSUME PortsOK, NEW c \in Clients, OneMoved(c), IsPorts(rows')
  PROVE  PortsOK'
<1>1. ASSUME NEW u \in Clients
      PROVE  /\ pc'[u] = "alloc" => Allocating(u)'
             /\ Launching(u)' => Allocating(u)' /\ Len(picked'[u]) = Len(job'[u].reqs)
             /\ pc'[u] \in {"spawn", "record"} => todo'[u] \subseteq DOMAIN job'[u].reqs
             /\ pc'[u] = "record" => todo'[u] # {}
  <2>1. CASE u = c
    BY <2>1 DEF OneMoved
  <2>2. CASE u # c
    <3>1. pc'[u] = pc[u] /\ job'[u] = job[u] /\ picked'[u] = picked[u] /\ todo'[u] = todo[u]
      BY <2>2 DEF OneMoved
    <3>. QED
      BY <3>1 DEF Launching, Allocating, PortsOK
  <2>. QED
    BY <2>1, <2>2
<1>. QED
  BY <1>1 DEF OneMoved, PortsOK

LEMMA RestrictIsPorts ==
  ASSUME NEW d, IsPorts(d), NEW ps
  PROVE  IsPorts(ReleasePorts(d, ps))
BY DEF IsPorts, ReleasePorts, Restrict

LEMMA WithRowIsPorts ==
  ASSUME NEW d, IsPorts(d), NEW p \in Nat, NEW row
  PROVE  IsPorts(WithRow(d, p, row))
BY DEF IsPorts, WithRow

LEMMA StartKeepsPortsOK ==
  ASSUME PortsOK, NEW c \in Clients, NEW j \in Jobs, Start(c, j)
  PROVE  PortsOK'
<1>1. /\ pc' = [pc EXCEPT ![c] = FirstLabel[j.op]] /\ job' = [job EXCEPT ![c] = j]
      /\ rows' = rows /\ picked' = picked /\ dead' = dead /\ todo' = todo /\ child' = child
  BY DEF Start, Goto
<1>2. /\ FirstLabel[j.op] \in Labels
      /\ FirstLabel[j.op] \notin {"grant", "spawn", "record", "prune"}
      /\ FirstLabel[j.op] = "alloc" => j.op \in {"up", "alloc"}
      /\ FirstLabel[j.op] = "read" => j.op # "up"
  <2>1. j.op \in {"up", "alloc", "prune", "down", "downports", "release", "releaseports"}
    BY PortRegistryAssumption DEF FirstLabel
  <2>. QED
    BY <2>1 DEF FirstLabel, Labels
<1>3. pc'[c] = FirstLabel[j.op] /\ job'[c] = j
  BY <1>1 DEF PortsOK
<1>4. OneMoved(c)
  <2>1. /\ pc' \in [Clients -> Labels] /\ job' \in [Clients -> Jobs \cup {None}]
        /\ \A u \in Clients \ {c} : pc'[u] = pc[u] /\ job'[u] = job[u]
    BY <1>1, <1>2 DEF PortsOK
  <2>2. pc'[c] = "alloc" => Allocating(c)'
    BY <1>2, <1>3 DEF Allocating
  <2>3. ~Launching(c)'
    BY <1>2, <1>3 DEF Launching
  <2>. QED
    BY <1>1, <1>2, <1>3, <2>1, <2>2, <2>3 DEF OneMoved, PortsOK
<1>. QED
  BY <1>1, <1>4, OneMovedKeepsPortsOK DEF PortsOK

LEMMA AllocChooseKeepsPortsOK ==
  ASSUME PortsOK, NEW c \in Clients, AllocChoose(c)
  PROVE  PortsOK'
<1> DEFINE ps == ChoosePorts(rows, job[c].reqs, Open, clock)
<1>1. /\ pc[c] = "alloc" /\ pc' = [pc EXCEPT ![c] = "grant"]
      /\ picked' = [picked EXCEPT ![c] = ps]
      /\ rows' = rows /\ job' = job /\ dead' = dead /\ todo' = todo /\ child' = child
  BY DEF AllocChoose, Goto
<1>2. Allocating(c) /\ job[c].reqs \in Seq(Requests)
  BY <1>1, PortRegistryAssumption DEF PortsOK, Allocating
<1>3. ps \in Seq(Nat) /\ Len(ps) = Len(job[c].reqs)
  BY <1>2, ChosenAreNumbers DEF PortsOK
<1> HIDE DEF ps
<1>4. OneMoved(c)
  <2>1. /\ pc' \in [Clients -> Labels] /\ picked' \in [Clients -> Seq(Nat)]
        /\ pc'[c] = "grant" /\ picked'[c] = ps
        /\ \A u \in Clients \ {c} : pc'[u] = pc[u] /\ picked'[u] = picked[u]
    BY <1>1, <1>3 DEF PortsOK, Labels
  <2>2. Allocating(c)'
    BY <1>1, <1>2 DEF Allocating
  <2>. QED
    BY <1>1, <1>3, <2>1, <2>2 DEF OneMoved, PortsOK
<1>. QED
  BY <1>1, <1>4, OneMovedKeepsPortsOK DEF PortsOK

(* What a commit is given, for the step and for what it promises.          *)
LEMMA GrantedServes ==
  ASSUME PortsOK, NEW c \in Clients, pc[c] = "grant"
  PROVE  /\ job[c].reqs \in Seq(Requests)
         /\ IsPorts(Granted(c).rows) /\ Granted(c).ports \in Seq(Nat)
         /\ Len(Granted(c).ports) = Len(job[c].reqs)
         /\ NoPort \notin Range(Granted(c).ports)
              => Served(rows, job[c].reqs, Granted(c), Len(job[c].reqs))
<1>1. Allocating(c) /\ Len(picked[c]) = Len(job[c].reqs) /\ picked[c] \in Seq(Nat) /\ IsPorts(rows)
  BY DEF PortsOK, Launching
<1>2. job[c].reqs \in Seq(Requests)
  BY <1>1, PortRegistryAssumption DEF Allocating
<1>. QED
  BY <1>1, <1>2, CommitServes DEF Granted

LEMMA AllocCommitKeepsPortsOK ==
  ASSUME PortsOK, NEW c \in Clients, AllocCommit(c)
  PROVE  PortsOK'
<1>1. pc[c] = "grant" /\ rows' = Granted(c).rows
  BY DEF AllocCommit
<1>2. IsPorts(rows')
  BY <1>1, GrantedServes
<1>3. CASE Finish(c, "grant")
  BY <1>2, <1>3, FinishKeepsPortsOK
<1>4. CASE /\ job[c].op = "up" /\ Goto(c, "grant", "read")
           /\ picked' = [picked EXCEPT ![c] = Granted(c).ports]
           /\ UNCHANGED <<job, dead, todo, child>>
  <2>1. /\ pc' \in [Clients -> Labels] /\ picked' \in [Clients -> Seq(Nat)]
        /\ pc'[c] = "read" /\ picked'[c] = Granted(c).ports
        /\ \A u \in Clients \ {c} : pc'[u] = pc[u] /\ picked'[u] = picked[u]
    BY <1>1, <1>4, GrantedServes DEF PortsOK, Labels, Goto
  <2>2. Allocating(c)
    BY <1>1 DEF PortsOK, Launching
  <2>3. Allocating(c)'
    BY <1>4, <2>2 DEF Allocating
  <2>4. Len(picked'[c]) = Len(job'[c].reqs)
    BY <1>1, <1>4, <2>1, GrantedServes
  <2>5. OneMoved(c)
    BY <1>4, <2>1, <2>3, <2>4 DEF OneMoved, PortsOK
  <2>. QED
    BY <1>2, <2>5, OneMovedKeepsPortsOK
<1>. QED
  BY <1>3, <1>4 DEF AllocCommit

LEMMA AfterReadKeepsPortsOK ==
  ASSUME PortsOK, NEW c \in Clients, NEW from \in {"read", "prune"}, NEW d,
         AfterRead(c, from, d), IsPorts(rows')
  PROVE  PortsOK'
<1>1. CASE job[c].op # "up"
  BY <1>1, FinishKeepsPortsOK DEF AfterRead
<1>2. CASE job[c].op = "up"
  <2>1. /\ pc[c] = from /\ pc' = [pc EXCEPT ![c] = "spawn"]
        /\ todo' = [todo EXCEPT ![c] = Unlaunched(c, d)]
        /\ job' = job /\ picked' = picked /\ dead' = dead /\ child' = child
    BY <1>2 DEF AfterRead, Goto
  <2>2. Allocating(c) /\ Len(picked[c]) = Len(job[c].reqs)
    BY <1>2, <2>1 DEF PortsOK, Launching
  <2>3. Unlaunched(c, d) \subseteq DOMAIN job[c].reqs /\ DOMAIN job[c].reqs \subseteq Nat
    <3>1. job[c].reqs \in Seq(Requests)
      BY <2>2, PortRegistryAssumption DEF Allocating
    <3>. QED
      BY <3>1 DEF Unlaunched
  <2>4. /\ pc' \in [Clients -> Labels] /\ todo' \in [Clients -> SUBSET Nat]
        /\ pc'[c] = "spawn" /\ todo'[c] = Unlaunched(c, d)
        /\ \A u \in Clients \ {c} : pc'[u] = pc[u] /\ todo'[u] = todo[u]
    BY <2>1, <2>3 DEF PortsOK, Labels
  <2>5. Allocating(c)'
    BY <2>1, <2>2 DEF Allocating
  <2>6. OneMoved(c)
    BY <2>1, <2>2, <2>3, <2>4, <2>5 DEF OneMoved, PortsOK
  <2>. QED
    BY <2>6, OneMovedKeepsPortsOK
<1>. QED
  BY <1>1, <1>2

LEMMA ReadProbeKeepsPortsOK ==
  ASSUME PortsOK, NEW c \in Clients, ReadProbe(c)
  PROVE  PortsOK'
<1> DEFINE found == DeadPorts(rows, clock, dirs, Alive, Open)
<1>1. rows' = rows /\ IsPorts(rows')
  BY DEF ReadProbe, PortsOK
<1>2. CASE AfterRead(c, "read", rows)
  BY <1>1, <1>2, AfterReadKeepsPortsOK
<1>3. CASE /\ Goto(c, "read", "prune") /\ dead' = [dead EXCEPT ![c] = found]
           /\ UNCHANGED <<job, picked, todo, child>>
  <2>1. found \in SUBSET Nat
    BY DEF DeadPorts, PortsOK, IsPorts
  <2> HIDE DEF found
  <2>2. /\ pc' \in [Clients -> Labels] /\ dead' \in [Clients -> SUBSET Nat]
        /\ pc[c] = "read" /\ pc'[c] = "prune"
        /\ \A u \in Clients \ {c} : pc'[u] = pc[u]
    BY <1>3, <2>1 DEF PortsOK, Labels, Goto
  <2>3. Launching(c)' => Launching(c)
    BY <1>3, <2>2 DEF Launching
  <2>4. Allocating(c) => Allocating(c)'
    BY <1>3 DEF Allocating
  <2>5. OneMoved(c)
    BY <1>3, <2>2, <2>3, <2>4 DEF OneMoved, PortsOK
  <2>. QED
    BY <1>1, <2>5, OneMovedKeepsPortsOK
<1>. QED
  BY <1>2, <1>3 DEF ReadProbe

LEMMA SpawnKeepsPortsOK ==
  ASSUME PortsOK, NEW c \in Clients, Spawn(c)
  PROVE  PortsOK'
<1> DEFINE q == Min(UnusedPids)
<1>1. /\ pc[c] = "spawn" /\ pc' = [pc EXCEPT ![c] = "record"] /\ todo[c] # {}
      /\ child' = [child EXCEPT ![c] = q]
      /\ rows' = rows /\ job' = job /\ picked' = picked /\ dead' = dead /\ todo' = todo
  BY DEF Spawn, Goto
<1> HIDE DEF q
<1>2. Launching(c) /\ todo[c] \subseteq DOMAIN job[c].reqs
  BY <1>1 DEF Launching, PortsOK
<1>3. /\ pc' \in [Clients -> Labels] /\ pc'[c] = "record"
      /\ child' = [u \in Clients |-> child'[u]]
      /\ \A u \in Clients \ {c} : pc'[u] = pc[u]
  BY <1>1 DEF PortsOK, Labels
<1>4. Allocating(c) /\ Len(picked[c]) = Len(job[c].reqs)
  BY <1>2 DEF PortsOK
<1>5. Allocating(c)'
  BY <1>1, <1>4 DEF Allocating
<1>6. OneMoved(c)
  BY <1>1, <1>2, <1>3, <1>4, <1>5 DEF OneMoved, PortsOK
<1>. QED
  BY <1>1, <1>6, OneMovedKeepsPortsOK DEF PortsOK

LEMMA RecordKeepsPortsOK ==
  ASSUME PortsOK, NEW c \in Clients, RecordSpawned(c)
  PROVE  PortsOK'
<1> DEFINE i == Min(todo[c])
<1>1. /\ pc[c] = "record" /\ pc' = [pc EXCEPT ![c] = "spawn"]
      /\ rows' = RecordPid(rows, picked[c][i], job[c].reqs[i].key, child[c], clock)
      /\ todo' = [todo EXCEPT ![c] = @ \ {i}] /\ child' = [child EXCEPT ![c] = NoPid]
      /\ job' = job /\ picked' = picked /\ dead' = dead
  BY DEF RecordSpawned, Goto
<1>2. /\ Allocating(c) /\ Len(picked[c]) = Len(job[c].reqs) /\ picked[c] \in Seq(Nat)
      /\ todo[c] \subseteq DOMAIN job[c].reqs /\ todo[c] # {} /\ todo[c] \in SUBSET Nat
  BY <1>1 DEF Launching, PortsOK
<1>3. i \in todo[c]
  BY <1>2, LeastIsMin
<1> HIDE DEF i
<1>4. picked[c][i] \in Nat
  <2>1. job[c].reqs \in Seq(Requests)
    BY <1>2, PortRegistryAssumption DEF Allocating
  <2>2. i \in 1 .. Len(picked[c])
    BY <1>2, <1>3, <2>1
  <2>. QED
    BY <1>2, <2>2
<1>5. IsPorts(rows')
  BY <1>1, <1>4, WithRowIsPorts DEF RecordPid, PortsOK
<1>6. /\ pc' \in [Clients -> Labels] /\ pc'[c] = "spawn"
      /\ todo' \in [Clients -> SUBSET Nat] /\ todo'[c] = todo[c] \ {i}
      /\ child' = [u \in Clients |-> child'[u]]
      /\ \A u \in Clients \ {c} : pc'[u] = pc[u] /\ todo'[u] = todo[u]
  BY <1>1, <1>2 DEF PortsOK, Labels
<1>7. Allocating(c)'
  BY <1>1, <1>2 DEF Allocating
<1>8. OneMoved(c)
  BY <1>1, <1>2, <1>6, <1>7 DEF OneMoved, PortsOK
<1>. QED
  BY <1>5, <1>8, OneMovedKeepsPortsOK

LEMMA PortsOKStep == PortsOK /\ [Next]_vars => PortsOK'
<1> SUFFICES ASSUME PortsOK, [Next]_vars
             PROVE  PortsOK'
  OBVIOUS
<1>1. CASE rows' = rows /\ UNCHANGED locals
  BY <1>1 DEF locals, PortsOK, Launching, Allocating
<1>2. ASSUME NEW c \in Clients, NEW from, Finish(c, from),
             rows' = rows \/ \E ps : rows' = ReleasePorts(rows, ps)
      PROVE  PortsOK'
  <2>1. IsPorts(rows')
    BY <1>2, RestrictIsPorts DEF PortsOK
  <2>. QED
    BY <1>2, <2>1, FinishKeepsPortsOK
<1>3. ASSUME NEW c \in Clients, PruneCommit(c)
      PROVE  PortsOK'
  <2>1. PICK d : AfterRead(c, "prune", d)
    BY <1>3 DEF PruneCommit
  <2>2. IsPorts(rows')
    BY <1>3, RestrictIsPorts DEF PruneCommit, PortsOK
  <2>. QED
    BY <2>1, <2>2, AfterReadKeepsPortsOK
<1>4. ASSUME NEW c \in Clients, Work(c)
      PROVE  PortsOK'
  <2>1. CASE SpawnFails(c) \/ LaunchDone(c)
    BY <1>2, <2>1 DEF SpawnFails, LaunchDone
  <2>2. CASE BringDown(c) \/ ReleaseRows(c)
    BY <1>2, <2>2 DEF BringDown, ReleaseRows
  <2>. QED
    BY <1>3, <1>4, <2>1, <2>2, AllocChooseKeepsPortsOK, AllocCommitKeepsPortsOK,
       ReadProbeKeepsPortsOK, SpawnKeepsPortsOK, RecordKeepsPortsOK DEF Work
<1>5. ASSUME NEW c \in Clients, ClientDies(c)
      PROVE  PortsOK'
  BY <1>2, <1>5 DEF ClientDies
<1>6. ASSUME NEW q \in Pids, Bind(q) \/ Hang(q) \/ Exit(q)
      PROVE  PortsOK'
  BY <1>1, <1>6 DEF Bind, Hang, Exit
<1>7. ASSUME NEW h \in Worktrees, RemoveWorktree(h)
      PROVE  PortsOK'
  BY <1>1, <1>7 DEF RemoveWorktree
<1>8. CASE Tick
  BY <1>1, <1>8 DEF Tick
<1>9. CASE UNCHANGED vars
  BY <1>1, <1>9 DEF vars, locals
<1>. QED
  BY <1>4, <1>5, <1>6, <1>7, <1>8, <1>9, StartKeepsPortsOK DEF Next

(*************************************************************************)
(* The rows are a function from ports to rows, a client at its second    *)
(* lock is one that runs an up or an alloc, and one that launches        *)
(* servers holds a port for each of its requests (registry.rs            *)
(* alloc_with, run.rs launch).                                           *)
(*************************************************************************)
THEOREM PortsOKHolds == Spec => []PortsOK
BY PortsOKInit, PortsOKStep, PTL DEF Spec

(*************************************************************************)
(* A commit of alloc never overwrites, drops or moves a row that stands: *)
(* whatever other clients committed between its two locks (registry.rs   *)
(* alloc_with chooses again where a chosen port was taken), for any      *)
(* number of clients, requests and ports.                                *)
(*************************************************************************)
THEOREM AllocKeepsRowsHolds == Spec => AllocKeepsRows
<1>1. ASSUME PortsOK, NEW c \in Clients, pc[c] = "grant", AllocCommit(c),
             NEW p \in DOMAIN rows
      PROVE  p \in DOMAIN rows' /\ rows'[p] = rows[p]
  <2>1. rows' = Granted(c).rows /\ NoPort \notin Range(Granted(c).ports)
    BY <1>1 DEF AllocCommit
  <2>2. Served(rows, job[c].reqs, Granted(c), Len(job[c].reqs))
    BY <1>1, <2>1, GrantedServes
  <2>. QED
    BY <2>1, <2>2 DEF Served
<1>2. PortsOK /\ [Next]_vars =>
        [\A c \in Clients : pc[c] = "grant" /\ AllocCommit(c) =>
           \A p \in DOMAIN rows : p \in DOMAIN rows' /\ rows'[p] = rows[p]]_vars
  BY <1>1
<1>. QED
  BY <1>2, PortsOKHolds, PTL DEF Spec, AllocKeepsRows

(*************************************************************************)
(* What a commit of alloc answers stands in the registry for its caller, *)
(* a port for each request, and a key that had a row gets no second one: *)
(* for any number of clients that chose ports for one key at the same    *)
(* time, and any number of requests in a batch.                          *)
(*************************************************************************)
THEOREM AllocIsIdempotentHolds == Spec => AllocIsIdempotent
<1>1. ASSUME PortsOK, NEW c \in Clients, pc[c] = "grant", AllocCommit(c),
             NEW i \in DOMAIN job[c].reqs
      PROVE  LET key == job[c].reqs[i].key
             IN  /\ Granted(c).ports[i] \in Holds(rows', key)
                 /\ Holds(rows', key) \subseteq Holds(rows, key) \cup {Granted(c).ports[i]}
                 /\ Holds(rows, key) # {} => Holds(rows', key) = Holds(rows, key)
  <2>1. rows' = Granted(c).rows /\ NoPort \notin Range(Granted(c).ports)
    BY <1>1 DEF AllocCommit
  <2>2. Served(rows, job[c].reqs, Granted(c), Len(job[c].reqs))
    BY <1>1, <2>1, GrantedServes
  <2>3. i \in 1 .. Len(job[c].reqs)
    BY <1>1, GrantedServes
  <2> DEFINE key == job[c].reqs[i].key
             port == Granted(c).ports[i]
  <2>4. port \in Holds(rows', key)
    BY <2>1, <2>2, <2>3 DEF Served
  <2>5. Holds(rows, key) # {} => Holds(rows', key) = Holds(rows, key)
    BY <2>1, <2>2 DEF Served
  <2>6. Holds(rows, key) = {} => Holds(rows', key) \subseteq {port}
    <3>1. Holds(rows, key) = {} => \A x, y \in Holds(rows', key) : x = y
      BY <2>1, <2>2 DEF Served
    <3>. HIDE DEF key, port
    <3>. QED
      BY <2>4, <3>1
  <2>. HIDE DEF key, port
  <2>7. Holds(rows', key) \subseteq Holds(rows, key) \cup {port}
    BY <2>5, <2>6
  <2>. QED
    BY <2>4, <2>5, <2>7 DEF key, port
<1>2. PortsOK /\ [Next]_vars =>
        [\A c \in Clients : pc[c] = "grant" /\ AllocCommit(c) =>
           \A i \in DOMAIN job[c].reqs :
             LET key == job[c].reqs[i].key
             IN  /\ Granted(c).ports[i] \in Holds(rows', key)
                 /\ Holds(rows', key) \subseteq Holds(rows, key) \cup {Granted(c).ports[i]}
                 /\ Holds(rows, key) # {} => Holds(rows', key) = Holds(rows, key)]_vars
  BY <1>1
<1>. QED
  BY <1>2, PortsOKHolds, PTL DEF Spec, AllocIsIdempotent
==============================================================================
