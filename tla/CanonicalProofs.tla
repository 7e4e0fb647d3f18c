-------------------------- MODULE CanonicalProofs ---------------------------
(* OneTextEach, for any values, documents and MAX_SAFE_INTEGER: a document has a
   canonical text exactly if the profile allows it, and two have the same text
   exactly if they are the same but for the order of their members.
   1. What recurs on the parts of a value is the function it is meant to be: the
      lemma Recursion, by induction on the depth of values.
   2. A text can be told from whatever follows it: of escaped characters, of a
      string, of digits, of texts in brackets with commas between them.
   3. The names of a mapping have one order by their code units, and members of the
      same names in another order are sorted to the same.
   4. By induction on the depth, values that the profile allows have texts, which
      tell them apart; the others have none.
   Cat is \o under another name: an operator of this module stays as it is written
   until it is expanded, where \o would be taken apart in each obligation. *)
EXTENDS Canonical, FiniteSets, FiniteSetTheorems, SequenceTheorems, TLAPS

-----------------------------------------------------------------------------
(* Induction. *)

(* Induction for a set: what holds of 0, and of n + 1 if it holds of n, holds of
   every natural number.  Otherwise, if m were the number left out, the numbers up to
   m that are left out would go into themselves without m, each to the one before
   it, and a finite set has no such map. *)
LEMMA EveryNumber ==
    ASSUME NEW T, 0 \in T, \A n \in Nat : n \in T => n + 1 \in T
    PROVE  \A n \in Nat : n \in T
<1> SUFFICES ASSUME NEW m \in Nat, m \notin T PROVE FALSE
    OBVIOUS
<1> DEFINE S == {n \in 0..m : n \notin T}
           before == [n \in S |-> n - 1]
<1>1. IsFiniteSet(S) /\ m \in S
    <2>1. IsFiniteSet(0..m)
        BY FS_Interval
    <2> QED
        BY <2>1, FS_Subset
<1>2. IsFiniteSet(S \ {m}) /\ Cardinality(S \ {m}) = Cardinality(S) - 1 /\ Cardinality(S) \in Nat
    BY <1>1, FS_RemoveElement, FS_CardinalityType
<1>3. before \in [S -> S \ {m}]
    <2> SUFFICES ASSUME NEW n \in S PROVE n - 1 \in S \ {m}
        OBVIOUS
    <2>1. n # 0
        OBVIOUS
    <2>2. n - 1 \in 0..m /\ n - 1 \in Nat /\ n - 1 # m /\ (n - 1) + 1 = n
        BY <2>1
    <2> QED
        BY <2>2
<1>4. PICK x \in S, y \in S : x # y /\ before[x] = before[y]
    <2>1. Cardinality(S \ {m}) < Cardinality(S)
        BY <1>2
    <2> HIDE DEF S, before
    <2> QED
        BY <1>1, <1>2, <1>3, <2>1, FS_PigeonHole
<1> QED
    BY <1>4

-----------------------------------------------------------------------------
(* Recursion over what has a depth. *)
Solves(h, V, depth, step, d) == \A v \in V : depth[v] < d => h[v] = step[v][h]

(* A step for each v looks only at what is less deep. *)
GoesDown(V, R, depth, step) ==
    /\ R # {}
    /\ depth \in [V -> Nat]
    /\ step \in [V -> [[V -> R] -> R]]
    /\ \A v \in V : \A f, g \in [V -> R] :
        (\A w \in V : depth[w] < depth[v] => f[w] = g[w]) => step[v][f] = step[v][g]

Recurs(f, V, R, step) == f \in [V -> R] /\ \A v \in V : f[v] = step[v][f]

(* There is then a function that is its own recursion: one that is right up to a depth
   makes one that is right one deeper, two
   of them are equal where they are right, and together they make one function. *)
LEMMA Recursion ==
    ASSUME NEW V, NEW R, NEW depth, NEW step, GoesDown(V, R, depth, step)
    PROVE  \E f : Recurs(f, V, R, step)
<1> USE DEF GoesDown
<1> DEFINE Right(h, d) == Solves(h, V, depth, step, d)
           Some == {d \in Nat : \E h \in [V -> R] : Right(h, d)}
           Equal == {d \in Nat : \A f, g \in [V -> R] :
                        Right(f, d) /\ Right(g, d) => \A v \in V : depth[v] < d => f[v] = g[v]}
<1>0. \A v \in V : depth[v] \in Nat
    OBVIOUS
<1>1. \A d \in Nat : d \in Some
    <2>1. 0 \in Some
        <3>1. PICK r \in R : TRUE
            OBVIOUS
        <3>2. [v \in V |-> r] \in [V -> R] /\ Right([v \in V |-> r], 0)
            BY DEF Solves
        <3> QED
            BY <3>2
    <2>2. ASSUME NEW d \in Nat, d \in Some PROVE d + 1 \in Some
        <3>1. PICK h \in [V -> R] : Right(h, d)
            BY <2>2
        <3> DEFINE g == [v \in V |-> IF depth[v] < d THEN h[v] ELSE step[v][h]]
        <3>2. g \in [V -> R]
            OBVIOUS
        <3>3. \A v \in V : depth[v] < d + 1 => g[v] = step[v][h]
            BY <3>1 DEF Solves
        <3>4. ASSUME NEW v \in V, depth[v] < d + 1 PROVE step[v][h] = step[v][g]
            <4>1. \A w \in V : depth[w] < depth[v] => h[w] = g[w]
                BY <3>4
            <4> HIDE DEF g
            <4> QED
                BY <3>2, <4>1
        <3>5. Right(g, d + 1)
            BY <3>3, <3>4 DEF Solves
        <3> HIDE DEF g
        <3> QED
            BY <3>2, <3>5
    <2> HIDE DEF Some
    <2> QED
        BY <2>1, <2>2, EveryNumber
<1>2. \A d \in Nat : d \in Equal
    <2>1. 0 \in Equal
        OBVIOUS
    <2>2. ASSUME NEW d \in Nat, d \in Equal PROVE d + 1 \in Equal
        <3>1. ASSUME NEW f \in [V -> R], NEW g \in [V -> R], Right(f, d + 1), Right(g, d + 1),
                     NEW v \in V, depth[v] < d + 1
              PROVE  f[v] = g[v]
            <4>1. Right(f, d) /\ Right(g, d)
                <5>1. \A w \in V : depth[w] < d => depth[w] < d + 1
                    BY <1>0
                <5> QED
                    BY <3>1, <5>1 DEF Solves
            <4>2. \A w \in V : depth[w] < depth[v] => f[w] = g[w]
                <5>1. \A w \in V : depth[w] < depth[v] => depth[w] < d
                    BY <1>0, <3>1
                <5> QED
                    BY <2>2, <4>1, <5>1
            <4>3. step[v][f] = step[v][g]
                <5> HIDE DEF Equal, Right
                <5> QED
                    BY <4>2
            <4> QED
                BY <3>1, <4>3 DEF Solves
        <3>2. d + 1 \in Nat
            OBVIOUS
        <3> HIDE DEF Right
        <3> QED
            BY <3>1, <3>2, Zenon
    <2> HIDE DEF Equal
    <2> QED
        BY <2>1, <2>2, EveryNumber
<1> DEFINE H == [d \in Nat |-> CHOOSE h \in [V -> R] : Right(h, d)]
           f == [v \in V |-> H[depth[v] + 1][v]]
<1>3. \A d \in Nat : H[d] \in [V -> R] /\ Right(H[d], d)
    BY <1>1
<1>4. ASSUME NEW v \in V PROVE f[v] \in R /\ f[v] = step[v][f]
    <2> DEFINE g == H[depth[v] + 1]
    <2>1. depth[v] \in Nat /\ depth[v] + 1 \in Nat
        OBVIOUS
    <2>2. g \in [V -> R] /\ Right(g, depth[v] + 1)
        BY <1>3, <2>1
    <2>3. ASSUME NEW w \in V, depth[w] < depth[v] PROVE f[w] = g[w]
        <3> DEFINE e == depth[w] + 1
        <3>1. e \in Nat /\ depth[w] < e /\ e < depth[v] + 1
            BY <2>1, <2>3
        <3>2. H[e] \in [V -> R] /\ Right(H[e], e)
            BY <1>3, <3>1
        <3>3. Right(g, e)
            <4>1. \A x \in V : depth[x] < e => depth[x] < depth[v] + 1
                BY <1>0, <3>1
            <4> HIDE DEF H, g, e
            <4> QED
                BY <2>2, <4>1 DEF Solves
        <3>4. H[e][w] = g[w]
            <4> HIDE DEF H, g, e
            <4> QED
                BY <1>2, <2>2, <3>1, <3>2, <3>3
        <3> QED
            BY <3>4
    <2>4. f[v] = g[v] /\ g[v] = step[v][g]
        <3>1. g[v] = step[v][g]
            <4> HIDE DEF H
            <4> QED
                BY <2>1, <2>2 DEF Solves
        <3> QED
            BY <3>1
    <2>5. f \in [V -> R]
        <3> SUFFICES ASSUME NEW w \in V PROVE f[w] \in R
            OBVIOUS
        <3>1. depth[w] + 1 \in Nat
            OBVIOUS
        <3> HIDE DEF H
        <3> QED
            BY <1>3, <3>1
    <2>6. step[v][f] = step[v][g]
        <3> HIDE DEF f, g
        <3> QED
            BY <2>2, <2>3, <2>5
    <2> HIDE DEF f, g
    <2> QED
        BY <2>2, <2>4, <2>5, <2>6
<1> HIDE DEF H
<1>5. f \in [V -> R] /\ \A v \in V : f[v] = step[v][f]
    BY <1>4
<1> QED
    BY <1>5 DEF Recurs

-----------------------------------------------------------------------------
(* Texts put side by side. *)

(* A concatenation of many is made of the partial ones. *)
LEMMA Flattened ==
    ASSUME NEW A, NEW ss \in Seq(Seq(A))
    PROVE  \E f \in [0..Len(ss) -> Seq(A)] :
              /\ f[0] = <<>>
              /\ \A i \in 1..Len(ss) : f[i] = f[i - 1] \o ss[i]
              /\ FlattenSeq(ss) = f[Len(ss)]
<1> DEFINE n == Len(ss)
           V == 1..n
           R == Seq(A)
           depth == [i \in V |-> i]
           step == [i \in V |-> [f \in [V -> R] |-> IF i = 1 THEN ss[i] ELSE f[i - 1] \o ss[i]]]
           Equation(f) == f = [i \in V |-> IF i = 1 THEN ss[i] ELSE f[i - 1] \o ss[i]]
<1>1. n \in Nat /\ \A i \in V : ss[i] \in R
    OBVIOUS
<1>2. R # {} /\ <<>> \in R
    OBVIOUS
<1>3. depth \in [V -> Nat] /\ \A i \in V : depth[i] = i
    OBVIOUS
<1>4. step \in [V -> [[V -> R] -> R]]
    <2> SUFFICES ASSUME NEW i \in V, NEW f \in [V -> R]
                 PROVE  (IF i = 1 THEN ss[i] ELSE f[i - 1] \o ss[i]) \in R
        OBVIOUS
    <2>1. i # 1 => i - 1 \in V
        BY <1>1
    <2>2. \A x, y \in Seq(A) : x \o y \in Seq(A)
        BY ConcatProperties
    <2> HIDE DEF V
    <2> QED
        BY <1>1, <2>1, <2>2
<1>5. ASSUME NEW i \in V, NEW f \in [V -> R], NEW g \in [V -> R],
             \A j \in V : depth[j] < depth[i] => f[j] = g[j]
      PROVE  step[i][f] = step[i][g]
    <2>1. i # 1 => i - 1 \in V /\ depth[i - 1] < depth[i]
        BY <1>1
    <2>2. i # 1 => f[i - 1] = g[i - 1]
        BY <1>5, <2>1
    <2> QED
        BY <2>2
<1>6. GoesDown(V, R, depth, step)
    BY <1>2, <1>3, <1>4, <1>5 DEF GoesDown
<1>7. PICK f \in [V -> R] : Equation(f)
    <2> HIDE DEF V, R, depth, step
    <2>1. PICK f : Recurs(f, V, R, step)
        BY <1>6, Recursion
    <2>2. f \in [V -> R] /\ \A i \in V : f[i] = step[i][f]
        BY <2>1 DEF Recurs
    <2>3. \A i \in V : f[i] = IF i = 1 THEN ss[i] ELSE f[i - 1] \o ss[i]
        BY <2>2 DEF step
    <2> QED
        BY <2>2, <2>3
<1> DEFINE c == CHOOSE g : Equation(g)
<1>8. Equation(c)
    BY <1>7
<1> HIDE DEF c
<1>9. c = f
    <2> DEFINE T == {k \in Nat : \A i \in V : i <= k => c[i] = f[i]}
    <2>1. 0 \in T
        OBVIOUS
    <2>2. ASSUME NEW k \in Nat, k \in T PROVE k + 1 \in T
        <3> SUFFICES ASSUME NEW i \in V, i <= k + 1 PROVE c[i] = f[i]
            OBVIOUS
        <3>1. i # 1 => i - 1 \in V /\ c[i - 1] = f[i - 1]
            <4>1. i - 1 <= k /\ (i # 1 => i - 1 \in V)
                BY <1>1
            <4> QED
                BY <2>2, <4>1
        <3>2. c[i] = IF i = 1 THEN ss[i] ELSE c[i - 1] \o ss[i]
            BY <1>8
        <3>3. f[i] = IF i = 1 THEN ss[i] ELSE f[i - 1] \o ss[i]
            BY <1>7
        <3> QED
            BY <3>1, <3>2, <3>3
    <2>3. n \in T
        <3> HIDE DEF T
        <3> QED
            BY <1>1, <2>1, <2>2, EveryNumber
    <2>4. \A i \in V : c[i] = f[i]
        BY <2>3
    <2> QED
        BY <1>7, <1>8, <2>4
<1> DEFINE h == [i \in 0..n |-> IF i = 0 THEN <<>> ELSE f[i]]
<1>10. h \in [0..n -> Seq(A)] /\ h[0] = <<>>
    BY <1>1
<1>11. ASSUME NEW i \in 1..n PROVE h[i] = h[i - 1] \o ss[i]
    <2>1. f[i] = IF i = 1 THEN ss[i] ELSE f[i - 1] \o ss[i]
        BY <1>7
    <2>2. <<>> \o ss[i] = ss[i]
        BY <1>1, ConcatEmptySeq
    <2>3. i - 1 \in 0..n /\ i \in 0..n
        BY <1>1
    <2>4. CASE i = 1
        <3>1. h[i - 1] = <<>> /\ h[i] = ss[i]
            BY <2>1, <2>3, <2>4
        <3> QED
            BY <2>2, <3>1
    <2>5. CASE i # 1
        <3>1. h[i - 1] = f[i - 1] /\ h[i] = f[i]
            BY <1>1, <2>3, <2>5
        <3> QED
            BY <2>1, <2>5, <3>1
    <2> QED
        BY <2>4, <2>5
<1>12. FlattenSeq(ss) = h[n]
    <2>1. CASE n = 0
        <3>1. ss = <<>>
            BY <2>1
        <3> QED
            BY <2>1, <3>1 DEF FlattenSeq
    <2>2. CASE n # 0
        <3>1. FlattenSeq(ss) = c[n]
            BY <2>2 DEF FlattenSeq, c
        <3>2. h[n] = f[n]
            BY <1>1, <2>2
        <3> QED
            BY <1>9, <3>1, <3>2
    <2> QED
        BY <2>1, <2>2
<1> HIDE DEF h
<1> QED
    BY <1>10, <1>11, <1>12

(* Concatenation as one operator that the provers do not look into, with the facts
   about it that are used. *)
Cat(x, y) == x \o y

(* Two texts one after the other are a text. *)
LEMMA CatType ==
    ASSUME NEW A
    PROVE  \A x, y \in Seq(A) : Cat(x, y) \in Seq(A)
BY ConcatProperties DEF Cat

(* The empty text adds nothing. *)
LEMMA CatEmpty ==
    ASSUME NEW A
    PROVE  \A x \in Seq(A) : Cat(x, <<>>) = x /\ Cat(<<>>, x) = x
BY ConcatEmptySeq DEF Cat

(* Of three texts, it does not matter which two are put together first. *)
LEMMA CatAssociative ==
    ASSUME NEW A
    PROVE  \A x, y, z \in Seq(A) : Cat(Cat(x, y), z) = Cat(x, Cat(y, z))
BY ConcatAssociative DEF Cat

(* What follows one text is read off the whole. *)
LEMMA CatCancel ==
    ASSUME NEW A
    PROVE  \A x, y, z \in Seq(A) : Cat(x, y) = Cat(x, z) => y = z
BY ConcatSimplifications DEF Cat

(* Where the elements of a concatenation are. *)
LEMMA CatElements ==
    ASSUME NEW A, NEW x \in Seq(A), NEW y \in Seq(A)
    PROVE  /\ Len(Cat(x, y)) = Len(x) + Len(y)
           /\ \A i \in 1..Len(x) : Cat(x, y)[i] = x[i]
           /\ \A i \in 1..Len(y) : Cat(x, y)[Len(x) + i] = y[i]
BY ConcatProperties DEF Cat

(* FlattenSeq is the first and then the rest of them. *)
LEMMA FlattenedType ==
    ASSUME NEW A, NEW ss \in Seq(Seq(A))
    PROVE  FlattenSeq(ss) \in Seq(A) /\ (ss = <<>> => FlattenSeq(ss) = <<>>)
<1>1. PICK f \in [0..Len(ss) -> Seq(A)] : f[0] = <<>> /\ FlattenSeq(ss) = f[Len(ss)]
    BY Flattened
<1>2. Len(ss) \in 0..Len(ss) /\ (ss = <<>> => Len(ss) = 0)
    OBVIOUS
<1> QED
    BY <1>1, <1>2

(* A list of texts put side by side begins with the first of them. *)
LEMMA FlattenedFirst ==
    ASSUME NEW A, NEW ss \in Seq(Seq(A)), ss # <<>>
    PROVE  FlattenSeq(ss) = Cat(ss[1], FlattenSeq(Tail(ss)))
<1> DEFINE tt == Tail(ss)
           n == Len(tt)
<1>1. tt \in Seq(Seq(A)) /\ n \in Nat /\ Len(ss) = n + 1 /\ \A i \in 1..n : tt[i] = ss[i + 1]
    BY HeadTailProperties, LenProperties
<1> HIDE DEF tt
<1>2. \A i \in 1..(n + 1) : ss[i] \in Seq(A)
    BY <1>1
<1>3. PICK f \in [0..Len(ss) -> Seq(A)] :
        /\ f[0] = <<>>
        /\ \A i \in 1..Len(ss) : f[i] = Cat(f[i - 1], ss[i])
        /\ FlattenSeq(ss) = f[Len(ss)]
    BY Flattened DEF Cat
<1>4. PICK g \in [0..n -> Seq(A)] :
        /\ g[0] = <<>>
        /\ \A i \in 1..n : g[i] = Cat(g[i - 1], tt[i])
        /\ FlattenSeq(tt) = g[n]
    BY <1>1, Flattened DEF Cat
<1> DEFINE T == {k \in Nat : k <= n => f[k + 1] = Cat(ss[1], g[k])}
<1>5. 0 \in T
    <2>1. f[1] = Cat(f[0], ss[1])
        <3>1. 1 \in 1..Len(ss) /\ 1 - 1 = 0
            BY <1>1
        <3> QED
            BY <1>3, <3>1
    <2>2. Cat(<<>>, ss[1]) = ss[1] /\ Cat(ss[1], <<>>) = ss[1]
        <3>1. ss[1] \in Seq(A)
            BY <1>1, <1>2
        <3> QED
            BY <3>1, CatEmpty
    <2>3. f[1] = Cat(ss[1], g[0]) /\ 0 + 1 = 1
        BY <1>3, <1>4, <2>1, <2>2
    <2> HIDE DEF n
    <2> QED
        BY <2>3
<1>6. ASSUME NEW k \in Nat, k \in T PROVE k + 1 \in T
    <2>1. ASSUME k + 1 <= n PROVE f[(k + 1) + 1] = Cat(ss[1], g[k + 1])
        <3>1. k <= n /\ k \in 0..n /\ k + 1 \in 1..n /\ (k + 1) + 1 \in 1..Len(ss)
                  /\ 1 \in 1..Len(ss)
            BY <1>1, <2>1
        <3>2. f[k + 1] = Cat(ss[1], g[k])
            BY <1>6, <3>1
        <3>3. f[(k + 1) + 1] = Cat(f[k + 1], ss[(k + 1) + 1])
            <4>1. ((k + 1) + 1) - 1 = k + 1
                OBVIOUS
            <4> QED
                BY <1>3, <3>1, <4>1
        <3>4. g[k + 1] = Cat(g[k], ss[(k + 1) + 1])
            <4>1. (k + 1) - 1 = k
                OBVIOUS
            <4> QED
                BY <1>1, <1>4, <3>1, <4>1
        <3> DEFINE x == ss[1]
                   y == g[k]
                   z == ss[(k + 1) + 1]
        <3>5. x \in Seq(A) /\ y \in Seq(A) /\ z \in Seq(A)
            BY <1>1, <1>2, <3>1
        <3>6. Cat(Cat(x, y), z) = Cat(x, Cat(y, z))
            <4> HIDE DEF x, y, z
            <4> QED
                BY ONLY <3>5, CatAssociative
        <3> QED
            BY <3>2, <3>3, <3>4, <3>6
    <2>2. k + 1 \in Nat
        OBVIOUS
    <2> HIDE DEF n
    <2> QED
        BY <2>1, <2>2
<1>7. n \in T
    <2> HIDE DEF T
    <2> QED
        BY <1>1, <1>5, <1>6, EveryNumber
<1>8. f[Len(ss)] = Cat(ss[1], g[n])
    BY <1>1, <1>7
<1> QED
    BY <1>3, <1>4, <1>8 DEF tt

-----------------------------------------------------------------------------
(* Words that can be told from what follows them. *)

(* Of two words from W with a tail from T each, equal as a whole: the words are equal,
   and the tails. *)
Told(W, T) ==
    \A w, x \in W : \A t, u \in T : Cat(w, t) = Cat(x, u) => w = x /\ t = u

(* W is a code for lists that end in e, with tails from T. *)
Code(A, W, T, e) ==
    /\ W \subseteq Seq(A) /\ T \subseteq Seq(A) /\ <<e>> \in Seq(A)
    /\ Told(W, T)
    /\ \A w \in W : \A t \in T : Cat(w, t) \in T
    /\ \A t \in T : Cat(<<e>>, t) \in T
    /\ \A w \in W : \A t, u \in T : Cat(w, t) # Cat(<<e>>, u)

(* A list, its end, and a tail. *)
Listed(p, e, t) == Cat(FlattenSeq(p), Cat(<<e>>, t))

(* After no words the end mark comes at once. *)
LEMMA ListedNone ==
    ASSUME NEW A, NEW W, NEW T, NEW e, Code(A, W, T, e), NEW t \in T
    PROVE  Listed(<<>>, e, t) = Cat(<<e>>, t)
<1>1. <<>> \in Seq(Seq(A)) /\ <<e>> \in Seq(A) /\ t \in Seq(A)
    BY DEF Code
<1>2. Cat(<<e>>, t) \in Seq(A)
    BY <1>1, CatType
<1>3. FlattenSeq(<<>>) = <<>>
    BY <1>1, FlattenedType
<1> QED
    BY <1>2, <1>3, CatEmpty DEF Listed

(* Words of a code begin with the first, and the others follow it. *)
LEMMA ListedFirst ==
    ASSUME NEW A, NEW W, NEW T, NEW e, Code(A, W, T, e), NEW p \in Seq(W), NEW t \in T, p # <<>>
    PROVE  Listed(p, e, t) = Cat(p[1], Listed(Tail(p), e, t))
<1>1. p \in Seq(Seq(A)) /\ Tail(p) \in Seq(Seq(A)) /\ p[1] \in Seq(A)
    BY DEF Code
<1>2. Cat(<<e>>, t) \in Seq(A)
    BY CatType DEF Code
<1>3. FlattenSeq(p) = Cat(p[1], FlattenSeq(Tail(p)))
    BY <1>1, FlattenedFirst
<1>4. FlattenSeq(Tail(p)) \in Seq(A)
    BY <1>1, FlattenedType
<1> DEFINE x == p[1]
           y == FlattenSeq(Tail(p))
           z == Cat(<<e>>, t)
<1>5. x \in Seq(A) /\ y \in Seq(A) /\ z \in Seq(A)
    BY <1>1, <1>2, <1>4
<1> HIDE DEF x, y, z
<1>6. Cat(Cat(x, y), z) = Cat(x, Cat(y, z))
    BY ONLY <1>5, CatAssociative
<1> QED
    BY <1>3, <1>6 DEF Listed, x, y, z

(* The rest of a list is a shorter list. *)
LEMMA RestOfList ==
    ASSUME NEW W, NEW p \in Seq(W), p # <<>>
    PROVE  /\ Tail(p) \in Seq(W) /\ p[1] \in W
           /\ \A n \in Nat : Len(p) = n + 1 => Len(Tail(p)) = n
OBVIOUS

(* What follows a word in a list is a tail. *)
LEMMA ListIsTail ==
    ASSUME NEW A, NEW W, NEW T, NEW e, Code(A, W, T, e), NEW t \in T
    PROVE  \A p \in Seq(W) : Listed(p, e, t) \in T
<1> DEFINE N == {n \in Nat : \A p \in Seq(W) : Len(p) = n => Listed(p, e, t) \in T}
<1>1. 0 \in N
    <2>1. Listed(<<>>, e, t) \in T
        BY ListedNone DEF Code
    <2>2. \A p \in Seq(W) : Len(p) = 0 => p = <<>>
        OBVIOUS
    <2> QED
        BY <2>1, <2>2
<1>2. ASSUME NEW n \in Nat, n \in N PROVE n + 1 \in N
    <2>1. ASSUME NEW p \in Seq(W), Len(p) = n + 1 PROVE Listed(p, e, t) \in T
        <3>1. p # <<>>
            BY <2>1
        <3>2. Listed(p, e, t) = Cat(p[1], Listed(Tail(p), e, t))
            BY <3>1, ListedFirst
        <3>3. Tail(p) \in Seq(W) /\ p[1] \in W /\ Len(Tail(p)) = n
            BY <2>1, <3>1, RestOfList
        <3>4. Listed(Tail(p), e, t) \in T
            BY <1>2, <3>3
        <3> QED
            BY <3>2, <3>3, <3>4 DEF Code
    <2>2. n + 1 \in Nat
        OBVIOUS
    <2> QED
        BY <2>1, <2>2
<1> HIDE DEF N
<1>3. \A n \in Nat : n \in N
    BY <1>1, <1>2, EveryNumber
<1>4. \A p \in Seq(W) : Len(p) \in N
    BY <1>3
<1> QED
    BY <1>4 DEF N

(* A list is told from what follows it, word by word. *)
LEMMA ListIsTold ==
    ASSUME NEW A, NEW W, NEW T, NEW e, Code(A, W, T, e)
    PROVE  \A p, q \in Seq(W) : \A t, u \in T :
            Listed(p, e, t) = Listed(q, e, u) => p = q /\ t = u
<1> DEFINE N == {n \in Nat : \A p, q \in Seq(W) : \A t, u \in T :
                    Len(p) = n /\ Listed(p, e, t) = Listed(q, e, u) => p = q /\ t = u}
<1>1. 0 \in N
    <2>1. ASSUME NEW q \in Seq(W), NEW t \in T, NEW u \in T,
                 Listed(<<>>, e, t) = Listed(q, e, u)
          PROVE  q = <<>> /\ t = u
        <3>1. Listed(q, e, u) = Cat(<<e>>, t)
            BY <2>1, ListedNone
        <3>2. CASE q = <<>>
            <4>1. Cat(<<e>>, t) = Cat(<<e>>, u)
                BY <3>1, <3>2, ListedNone
            <4>2. <<e>> \in Seq(A) /\ t \in Seq(A) /\ u \in Seq(A)
                BY DEF Code
            <4>3. t = u
                BY <4>1, <4>2, CatCancel
            <4> QED
                BY <3>2, <4>3
        <3>3. CASE q # <<>>
            <4>1. Cat(q[1], Listed(Tail(q), e, u)) = Cat(<<e>>, t)
                BY <3>1, <3>3, ListedFirst
            <4>2. q[1] \in W /\ Tail(q) \in Seq(W)
                BY <3>3, RestOfList
            <4>3. Listed(Tail(q), e, u) \in T
                BY <4>2, ListIsTail
            <4> QED
                BY <4>1, <4>2, <4>3 DEF Code
        <3> QED
            BY <3>2, <3>3
    <2>2. \A p \in Seq(W) : Len(p) = 0 => p = <<>>
        OBVIOUS
    <2> QED
        BY <2>1, <2>2
<1>2. ASSUME NEW n \in Nat, n \in N PROVE n + 1 \in N
    <2>1. ASSUME NEW p \in Seq(W), NEW q \in Seq(W), NEW t \in T, NEW u \in T,
                 Len(p) = n + 1, Listed(p, e, t) = Listed(q, e, u)
          PROVE  p = q /\ t = u
        <3>1. p # <<>>
            BY <2>1
        <3> DEFINE w == p[1]
                   x == q[1]
                   r == Tail(p)
                   s == Tail(q)
                   y == Listed(r, e, t)
                   z == Listed(s, e, u)
        <3>2. w \in W /\ r \in Seq(W) /\ Len(r) = n
            BY <2>1, <3>1, RestOfList
        <3>3. Listed(p, e, t) = Cat(w, y)
            BY <3>1, ListedFirst
        <3>4. y \in T
            BY <3>2, ListIsTail
        <3>5. q # <<>>
            <4>1. Cat(w, y) # Cat(<<e>>, u)
                BY <3>2, <3>4 DEF Code
            <4>2. Listed(<<>>, e, u) = Cat(<<e>>, u)
                BY ListedNone
            <4> QED
                BY <2>1, <3>3, <4>1, <4>2
        <3>6. x \in W /\ s \in Seq(W)
            BY <3>5, RestOfList
        <3>7. Listed(q, e, u) = Cat(x, z)
            BY <3>5, ListedFirst
        <3>8. z \in T
            BY <3>6, ListIsTail
        <3>9. w = x /\ y = z
            <4> HIDE DEF w, x, y, z
            <4>1. Cat(w, y) = Cat(x, z)
                BY <2>1, <3>3, <3>7
            <4>2. Told(W, T)
                BY DEF Code
            <4> QED
                BY ONLY <3>2, <3>4, <3>6, <3>8, <4>1, <4>2 DEF Told
        <3>10. r = s /\ t = u
            <4> HIDE DEF w, x, r, s
            <4> QED
                BY <1>2, <3>2, <3>6, <3>9
        <3>11. p = <<p[1]>> \o Tail(p) /\ q = <<q[1]>> \o Tail(q)
            <4>1. \A a \in Seq(W) : a # <<>> => a = <<a[1]>> \o Tail(a)
                OBVIOUS
            <4> QED
                BY <3>1, <3>5, <4>1
        <3> QED
            BY <3>9, <3>10, <3>11
    <2>2. n + 1 \in Nat
        OBVIOUS
    <2> QED
        BY <2>1, <2>2
<1> HIDE DEF N
<1>3. \A n \in Nat : n \in N
    BY <1>1, <1>2, EveryNumber
<1>4. \A p \in Seq(W) : Len(p) \in N
    BY <1>3
<1> QED
    BY <1>4 DEF N

(* The word w begins x. *)
Begins(w, x) == Len(w) <= Len(x) /\ \A i \in 1..Len(w) : w[i] = x[i]

(* What follows w is not as x goes on. *)
GoesOnElse(w, x, T) == Len(w) < Len(x) /\ \A t \in T : t # <<>> => t[1] # x[Len(w) + 1]

(* Words are told from any tail if none begins another, or else no tail goes on as the
   longer one does. *)
LEMMA ToldIf ==
    ASSUME NEW A, NEW W \in SUBSET Seq(A), NEW T \in SUBSET Seq(A),
           \A w, x \in W : Begins(w, x) => w = x \/ GoesOnElse(w, x, T)
    PROVE  Told(W, T)
<1>1. ASSUME NEW w \in W, NEW x \in W, NEW t \in T, NEW u \in T, Len(w) <= Len(x),
             Cat(w, t) = Cat(x, u)
      PROVE  w = x /\ t = u
    <2>1. w \in Seq(A) /\ x \in Seq(A) /\ t \in Seq(A) /\ u \in Seq(A)
        OBVIOUS
    <2>2. Len(w) + Len(t) = Len(x) + Len(u)
        <3>1. Len(Cat(w, t)) = Len(w) + Len(t) /\ Len(Cat(x, u)) = Len(x) + Len(u)
            BY <2>1, CatElements
        <3> QED
            BY <1>1, <3>1
    <2>3. \A i \in 1..Len(w) : Cat(w, t)[i] = w[i]
        BY <2>1, CatElements
    <2>4. \A i \in 1..Len(x) : Cat(x, u)[i] = x[i]
        BY <2>1, CatElements
    <2>5. Len(w) \in Nat /\ Len(x) \in Nat /\ Len(t) \in Nat /\ Len(u) \in Nat
        BY <2>1, LenProperties
    <2>6. Begins(w, x)
        <3>1. \A i \in 1..Len(w) : i \in 1..Len(x)
            BY <1>1, <2>5
        <3> QED
            BY <1>1, <2>3, <2>4, <3>1 DEF Begins
    <2>7. w = x
        <3>1. ASSUME GoesOnElse(w, x, T) PROVE FALSE
            <4>1. t # <<>> /\ 1 \in 1..Len(t) /\ Len(w) + 1 \in 1..Len(x)
                <5>1. Len(w) < Len(x)
                    BY <3>1 DEF GoesOnElse
                <5>2. Len(t) # 0 /\ 1 <= Len(t)
                    BY <2>2, <2>5, <5>1
                <5> QED
                    BY <2>1, <2>5, <5>1, <5>2
            <4>2. Cat(w, t)[Len(w) + 1] = t[1]
                BY <2>1, <4>1, CatElements
            <4>3. Cat(x, u)[Len(w) + 1] = x[Len(w) + 1]
                BY <2>4, <4>1
            <4>4. t[1] # x[Len(w) + 1]
                BY <3>1, <4>1 DEF GoesOnElse
            <4> QED
                BY <1>1, <4>2, <4>3, <4>4
        <3> QED
            BY <2>6, <3>1
    <2>8. t = u
        BY <1>1, <2>1, <2>7, CatCancel
    <2> QED
        BY <2>7, <2>8
<1>2. ASSUME NEW w \in W, NEW x \in W, NEW t \in T, NEW u \in T, Cat(w, t) = Cat(x, u)
      PROVE  w = x /\ t = u
    <2>1. Len(w) \in Nat /\ Len(x) \in Nat
        <3>1. w \in Seq(A) /\ x \in Seq(A)
            OBVIOUS
        <3> QED
            BY <3>1, LenProperties
    <2>2. Len(w) <= Len(x) \/ Len(x) <= Len(w)
        BY <2>1
    <2> QED
        BY <1>1, <1>2, <2>2
<1> QED
    BY <1>2 DEF Told

(* A concatenation begins with the first of what is not empty. *)
LEMMA CatFirst ==
    ASSUME NEW A, NEW w \in Seq(A), NEW t \in Seq(A), w # <<>>
    PROVE  Cat(w, t) \in Seq(A) /\ Cat(w, t) # <<>> /\ Cat(w, t)[1] = w[1]
<1>1. Cat(w, t) \in Seq(A)
    BY CatType
<1>2. Len(w) \in Nat /\ Len(t) \in Nat /\ Len(w) # 0 /\ 1 \in 1..Len(w)
    OBVIOUS
<1>3. Len(Cat(w, t)) = Len(w) + Len(t)
    BY CatElements
<1>4. Cat(w, t) # <<>>
    BY <1>2, <1>3
<1>5. Cat(w, t)[1] = w[1]
    BY <1>2, CatElements
<1> QED
    BY <1>1, <1>4, <1>5

(* A mark before a text. *)
LEMMA CatMark ==
    ASSUME NEW A, NEW o \in A
    PROVE  /\ <<o>> \in Seq(A)
           /\ \A t \in Seq(A) : Cat(<<o>>, t) \in Seq(A) /\ Cat(<<o>>, t) # <<>> /\ Cat(<<o>>, t)[1] = o
           /\ \A t, u \in Seq(A) : Cat(<<o>>, t) = Cat(<<o>>, u) => t = u
<1> DEFINE x == <<o>>
<1>1. x \in Seq(A) /\ x # <<>> /\ x[1] = o
    OBVIOUS
<1> HIDE DEF x
<1>2. \A t \in Seq(A) : Cat(x, t) \in Seq(A) /\ Cat(x, t) # <<>> /\ Cat(x, t)[1] = o
    BY <1>1, CatFirst
<1>3. \A t, u \in Seq(A) : Cat(x, t) = Cat(x, u) => t = u
    BY <1>1, CatCancel
<1> QED
    BY <1>1, <1>2, <1>3 DEF x

(* CatAssociative, of three given texts. *)
LEMMA CatShift ==
    ASSUME NEW A, NEW x \in Seq(A), NEW y \in Seq(A), NEW z \in Seq(A)
    PROVE  Cat(Cat(x, y), z) = Cat(x, Cat(y, z))
BY CatAssociative

(* A sequence is one of what its elements are in. *)
Consists(q, P) == \A i \in 1..Len(q) : q[i] \in P

(* A sequence that consists of members of P is one of P. *)
LEMMA ConsistsSeq ==
    ASSUME NEW X, NEW q \in Seq(X), NEW P, Consists(q, P)
    PROVE  q \in Seq(P)
BY DEF Consists

(* What is at a place behind the first text is in the second. *)
LEMMA CatSecond ==
    ASSUME NEW A, NEW x \in Seq(A), NEW y \in Seq(A), NEW j \in 1..(Len(x) + Len(y)), j > Len(x)
    PROVE  Cat(x, y)[j] = y[j - Len(x)]
BY DEF Cat

-----------------------------------------------------------------------------
(* Names, and strings. *)
Chars == DOMAIN Units

(* The code units of each character, row by row. *)
Row(ch) ==
    \/ ch = "newline" /\ Units[ch][1] = 10 /\ Len(Units[ch]) = 1
    \/ ch = "control" /\ Units[ch][1] = 1 /\ Len(Units[ch]) = 1
    \/ ch = "quote" /\ Units[ch][1] = 34 /\ Len(Units[ch]) = 1
    \/ ch = "backslash" /\ Units[ch][1] = 92 /\ Len(Units[ch]) = 1
    \/ ch = "n" /\ Units[ch][1] = 110 /\ Len(Units[ch]) = 1
    \/ ch = "angstrom" /\ Units[ch][1] = 8491 /\ Len(Units[ch]) = 1
    \/ ch = "surrogate" /\ Units[ch][1] = 55296 /\ Len(Units[ch]) = 1
    \/ ch = "private" /\ Units[ch][1] = 57344 /\ Len(Units[ch]) = 1
    \/ ch = "astral" /\ Units[ch][1] = 55296 /\ Len(Units[ch]) = 2
    \/ ch = "artifact_id" /\ Units[ch][1] = 97 /\ Len(Units[ch]) = 1

(* Units, character by character. *)
LEMMA UnitsRows == \A ch \in Chars : Row(ch)
<1> SUFFICES ASSUME NEW ch \in Chars PROVE Row(ch)
    OBVIOUS
<1> USE DEF Row
<1>1. CASE ch = "newline"
    BY <1>1 DEF Units
<1>2. CASE ch = "control"
    BY <1>2 DEF Units
<1>3. CASE ch = "quote"
    BY <1>3 DEF Units
<1>4. CASE ch = "backslash"
    BY <1>4 DEF Units
<1>5. CASE ch = "n"
    BY <1>5 DEF Units
<1>6. CASE ch = "angstrom"
    BY <1>6 DEF Units
<1>7. CASE ch = "surrogate"
    BY <1>7 DEF Units
<1>8. CASE ch = "private"
    BY <1>8 DEF Units
<1>9. CASE ch = "astral"
    BY <1>9 DEF Units
<1>10. CASE ch = "artifact_id"
    BY <1>10 DEF Units
<1> QED
    BY <1>1, <1>2, <1>3, <1>4, <1>5, <1>6, <1>7, <1>8, <1>9, <1>10 DEF Chars, Units

(* The code units of a character are numbers. *)
LEMMA UnitsSeq ==
    ASSUME NEW ch \in Chars
    PROVE  Units[ch] \in Seq(Nat)
<1>1. CASE ch = "newline"
    BY <1>1 DEF Units
<1>2. CASE ch = "control"
    BY <1>2 DEF Units
<1>3. CASE ch = "quote"
    BY <1>3 DEF Units
<1>4. CASE ch = "backslash"
    BY <1>4 DEF Units
<1>5. CASE ch = "n"
    BY <1>5 DEF Units
<1>6. CASE ch = "angstrom"
    BY <1>6 DEF Units
<1>7. CASE ch = "surrogate"
    BY <1>7 DEF Units
<1>8. CASE ch = "private"
    BY <1>8 DEF Units
<1>9. CASE ch = "astral"
    BY <1>9 DEF Units
<1>10. CASE ch = "artifact_id"
    BY <1>10 DEF Units
<1> QED
    BY <1>1, <1>2, <1>3, <1>4, <1>5, <1>6, <1>7, <1>8, <1>9, <1>10 DEF Chars, Units

(* Only the astral character has two units, and what it goes on with no character
   begins with. *)
LEMMA UnitsType ==
    /\ \A ch \in Chars : Units[ch] \in Seq(Nat) /\ Units[ch] # <<>>
    /\ \A ch \in Chars : Units[ch][1] # 0 /\ Units[ch][1] # 56320
    /\ \A ch \in Chars : ch # "astral" => Len(Units[ch]) = 1
    /\ Len(Units["astral"]) = 2 /\ Units["astral"][2] = 56320
<1>1. \A ch \in Chars : Len(Units[ch]) # 0
    BY UnitsRows DEF Row
<1>2. \A ch \in Chars : Units[ch] \in Seq(Nat) /\ Units[ch] # <<>>
    BY <1>1, UnitsSeq
<1>3. \A ch \in Chars : Units[ch][1] # 0 /\ Units[ch][1] # 56320
    BY UnitsRows DEF Row
<1>4. \A ch \in Chars : ch # "astral" => Len(Units[ch]) = 1
    BY UnitsRows DEF Row
<1>5. Len(Units["astral"]) = 2 /\ Units["astral"][2] = 56320
    BY DEF Units
<1> QED
    BY <1>2, <1>3, <1>4, <1>5

(* Of the characters that begin alike one is astral and the other half of it. *)
LEMMA UnitsDiffer ==
    \A ch, other_ch \in Chars : Units[ch][1] = Units[other_ch][1] =>
        \/ ch = other_ch
        \/ ch = "surrogate" /\ other_ch = "astral"
        \/ ch = "astral" /\ other_ch = "surrogate"
<1> SUFFICES ASSUME NEW ch \in Chars, NEW other_ch \in Chars, Units[ch][1] = Units[other_ch][1]
             PROVE  \/ ch = other_ch
                    \/ ch = "surrogate" /\ other_ch = "astral"
                    \/ ch = "astral" /\ other_ch = "surrogate"
    OBVIOUS
<1>1. Row(ch) /\ Row(other_ch)
    BY UnitsRows
<1> QED
    BY <1>1 DEF Row

(* Different names have different keys. *)
LEMMA KeyTells ==
    ASSUME NEW a \in Seq(Chars), NEW b \in Seq(Chars), _member_sort_key(a) = _member_sort_key(b)
    PROVE  a = b
<1> DEFINE W == {Units[ch] : ch \in Chars}
           T == {t \in Seq(Nat) : t = <<>> \/ t[1] # 56320}
<1>1. W \in SUBSET Seq(Nat) /\ T \in SUBSET Seq(Nat) /\ <<0>> \in Seq(Nat) /\ <<>> \in T
    BY UnitsType
<1>2. Told(W, T)
    <2>1. ASSUME NEW c \in Chars, NEW d \in Chars, Begins(Units[c], Units[d])
          PROVE  Units[c] = Units[d] \/ GoesOnElse(Units[c], Units[d], T)
        <3>1. Len(Units[c]) \in Nat /\ 1 \in 1..Len(Units[c])
            BY UnitsType
        <3>2. Units[c][1] = Units[d][1]
            BY <2>1, <3>1 DEF Begins
        <3>3. CASE c = d
            BY <3>3
        <3>4. CASE c = "surrogate" /\ d = "astral"
            <4>1. Len(Units[c]) = 1 /\ Len(Units[d]) = 2 /\ Units[d][2] = 56320
                BY <3>4, UnitsType
            <4> QED
                BY <4>1 DEF GoesOnElse
        <3>5. ASSUME c = "astral", d = "surrogate" PROVE FALSE
            <4>1. Len(Units[c]) = 2 /\ Len(Units[d]) = 1
                BY <3>5, UnitsType
            <4> QED
                BY <2>1, <4>1 DEF Begins
        <3> QED
            BY <3>2, <3>3, <3>4, <3>5, UnitsDiffer
    <2>2. \A w, x \in W : Begins(w, x) => w = x \/ GoesOnElse(w, x, T)
        <3> HIDE DEF T
        <3> QED
            BY <2>1
    <2> HIDE DEF W, T
    <2> QED
        BY <1>1, <2>2, ToldIf
<1>3. ASSUME NEW w \in W, NEW t \in T PROVE Cat(w, t) \in T
    <2>1. w \in Seq(Nat) /\ w # <<>> /\ w[1] # 56320 /\ t \in Seq(Nat)
        BY UnitsType
    <2>2. 1 \in 1..Len(w)
        BY <2>1
    <2>3. Cat(w, t) \in Seq(Nat) /\ Cat(w, t)[1] = w[1]
        BY <2>1, <2>2, CatType, CatElements
    <2> QED
        BY <2>1, <2>3
<1> DEFINE e == <<0>>
<1>0. e \in Seq(Nat) /\ 1 \in 1..Len(e) /\ e[1] = 0
    OBVIOUS
<1> HIDE DEF e
<1>4. ASSUME NEW t \in T PROVE Cat(e, t) \in T
    <2>1. t \in Seq(Nat)
        OBVIOUS
    <2>2. Cat(e, t) \in Seq(Nat) /\ Cat(e, t)[1] = 0
        <3>1. e \in Seq(Nat) /\ e # <<>> /\ t \in Seq(Nat)
            BY <1>0, <2>1
        <3>2. Cat(e, t) \in Seq(Nat) /\ Cat(e, t)[1] = e[1]
            BY ONLY <3>1, CatFirst
        <3> QED
            BY <1>0, <3>2
    <2> QED
        BY <2>2
<1>5. ASSUME NEW w \in W, NEW t \in T, NEW u \in T PROVE Cat(w, t) # Cat(e, u)
    <2>1. w \in Seq(Nat) /\ w[1] # 0 /\ t \in Seq(Nat) /\ u \in Seq(Nat)
        BY UnitsType
    <2>2. 1 \in 1..Len(w)
        BY UnitsType
    <2>3. Cat(w, t)[1] = w[1]
        BY <2>1, <2>2, CatElements
    <2>4. Cat(e, u)[1] = 0
        <3>1. e \in Seq(Nat) /\ e # <<>> /\ u \in Seq(Nat)
            BY <1>0, <2>1
        <3>2. Cat(e, u)[1] = e[1]
            BY ONLY <3>1, CatFirst
        <3> QED
            BY <1>0, <3>2
    <2> QED
        BY <2>1, <2>3, <2>4
<1>6. Code(Nat, W, T, 0)
    <2> HIDE DEF W, T
    <2> QED
        BY <1>0, <1>1, <1>2, <1>3, <1>4, <1>5 DEF Code, e
<1> DEFINE p == [i \in DOMAIN a |-> Units[a[i]]]
           q == [i \in DOMAIN b |-> Units[b[i]]]
<1>7. p \in Seq(W) /\ q \in Seq(W)
    OBVIOUS
<1>8. p = q
    <2>1. Listed(p, 0, <<>>) = Listed(q, 0, <<>>)
        BY DEF Listed, _member_sort_key
    <2> HIDE DEF W, T, p, q
    <2> QED
        BY <1>1, <1>6, <1>7, <2>1, ListIsTold
<1>9. Len(a) = Len(b)
    <2>1. Len(p) = Len(a) /\ Len(q) = Len(b)
        OBVIOUS
    <2> HIDE DEF p, q
    <2> QED
        BY <1>8, <2>1
<1>10. ASSUME NEW i \in 1..Len(a) PROVE a[i] = b[i]
    <2>1. i \in DOMAIN a /\ i \in DOMAIN b /\ a[i] \in Chars /\ b[i] \in Chars
        BY <1>9
    <2>2. p[i] = Units[a[i]] /\ q[i] = Units[b[i]]
        BY <2>1
    <2>3. Units[a[i]] = Units[b[i]]
        <3> HIDE DEF p, q
        <3> QED
            BY <1>8, <2>2
    <2>4. \A c, d \in Chars : Units[c] = Units[d] => c = d
        <3>1. Len(Units["surrogate"]) # Len(Units["astral"])
            BY UnitsType DEF Chars, Units
        <3> QED
            BY <3>1, UnitsDiffer
    <2> QED
        BY <2>1, <2>3, <2>4
<1> QED
    BY <1>9, <1>10, SeqEqual

-----------------------------------------------------------------------------
(* What texts are made of. *)
Letters ==
    Chars \cup {"u", "0001", "comma", "colon", "left_bracket", "right_bracket", "left_brace",
    "right_brace", "null", "true", "false",
              "0", "1", "2", "3", "4", "5", "6", "7", "8", "9"}

(* The letters of which a text can consist. *)
LEMMA LettersAre ==
    {"newline", "control", "quote", "backslash", "n", "angstrom", "surrogate", "private", "astral",
     "artifact_id", "u", "0001", "comma", "colon", "left_bracket", "right_bracket", "left_brace",
     "right_brace", "null", "true", "false",
     "0", "1", "2", "3", "4", "5", "6", "7", "8", "9"} \subseteq Letters
BY DEF Letters, Chars, Units

(* Strings.  A character is escaped as another one, as a letter after a backslash, or
   as its number. *)
EscapeRow(ch) ==
    \/ ch = "newline" /\ EscapedChar(ch) = <<"backslash", "n">>
    \/ ch = "control" /\ EscapedChar(ch) = <<"backslash", "u", "0001">>
    \/ ch = "quote" /\ EscapedChar(ch) = <<"backslash", "quote">>
    \/ ch = "backslash" /\ EscapedChar(ch) = <<"backslash", "backslash">>
    \/ ch \in {"n", "angstrom", "surrogate", "private", "astral", "artifact_id"} /\ EscapedChar(ch) = <<ch>>

(* EscapedChar, character by character. *)
LEMMA EscapeRows == \A ch \in Chars : EscapeRow(ch)
<1> SUFFICES ASSUME NEW ch \in Chars PROVE EscapeRow(ch)
    OBVIOUS
<1>1. ASSUME Units[ch][1] >= 32, ch \notin {"newline", "quote", "backslash"} PROVE EscapedChar(ch)
          = <<ch>>
    <2>1. ch \notin DOMAIN _SHORT
        BY <1>1 DEF _SHORT
    <2>2. ~(Units[ch][1] < 32)
        BY <1>1, UnitsRows DEF Row
    <2> QED
        BY <2>1, <2>2 DEF EscapedChar
<1>2. CASE ch = "newline"
    BY <1>2 DEF EscapeRow, EscapedChar, _SHORT
<1>3. CASE ch = "quote"
    BY <1>3 DEF EscapeRow, EscapedChar, _SHORT
<1>4. CASE ch = "backslash"
    BY <1>4 DEF EscapeRow, EscapedChar, _SHORT
<1>5. CASE ch = "control"
    <2>1. ch \notin DOMAIN _SHORT
        BY <1>5 DEF _SHORT
    <2>2. Units[ch][1] < 32 /\ Hex[ch] = "0001"
        BY <1>5 DEF Units, Hex
    <2> QED
        BY <1>5, <2>1, <2>2 DEF EscapeRow, EscapedChar
<1>6. CASE ch \in {"n", "angstrom", "surrogate", "private", "astral", "artifact_id"}
    <2>1. Units[ch][1] >= 32 /\ ch \notin {"newline", "quote", "backslash"}
        BY <1>6, UnitsRows DEF Row
    <2> QED
        BY <1>1, <1>6, <2>1 DEF EscapeRow
<1>7. ch \in {"n", "angstrom", "surrogate", "private", "astral", "artifact_id"}
          \/ ch \in {"newline", "quote", "backslash", "control"}
    BY UnitsRows DEF Row
<1> QED
    BY <1>2, <1>3, <1>4, <1>5, <1>6, <1>7

(* A character is escaped to some letters, of which a quote is never the first. *)
LEMMA EscapeType ==
    ASSUME NEW ch \in Chars
    PROVE  /\ EscapedChar(ch) \in Seq(Letters) /\ EscapedChar(ch) # <<>>
           /\ EscapedChar(ch)[1] # "quote"
<1>1. EscapeRow(ch)
    BY EscapeRows
<1>2. \A x, y, z \in Letters : /\ <<x>> \in Seq(Letters) /\ <<x, y>> \in Seq(Letters)
                               /\ <<x, y, z>> \in Seq(Letters)
    OBVIOUS
<1>3. {"newline", "quote", "n", "backslash", "u", "0001"} \subseteq Letters
    BY LettersAre
<1>4. CASE ch \in {"n", "angstrom", "surrogate", "private", "astral", "artifact_id"}
    <2>1. ch \in Letters
        BY DEF Letters
    <2>2. EscapedChar(ch) = <<ch>>
        BY <1>1, <1>4 DEF EscapeRow
    <2>3. ch # "quote"
        BY <1>4
    <2> QED
        BY <1>2, <2>1, <2>2, <2>3
<1>5. CASE ch = "newline"
    <2>1. EscapedChar(ch) = <<"backslash", "n">>
        BY <1>1, <1>5 DEF EscapeRow
    <2> QED
        BY <1>2, <1>3, <2>1
<1>6. CASE ch = "control"
    <2>1. EscapedChar(ch) = <<"backslash", "u", "0001">>
        BY <1>1, <1>6 DEF EscapeRow
    <2> QED
        BY <1>2, <1>3, <2>1
<1>7. CASE ch = "quote"
    <2>1. EscapedChar(ch) = <<"backslash", "quote">>
        BY <1>1, <1>7 DEF EscapeRow
    <2> QED
        BY <1>2, <1>3, <2>1
<1>8. CASE ch = "backslash"
    <2>1. EscapedChar(ch) = <<"backslash", "backslash">>
        BY <1>1, <1>8 DEF EscapeRow
    <2> QED
        BY <1>2, <1>3, <2>1
<1> QED
    BY <1>1, <1>4, <1>5, <1>6, <1>7, <1>8 DEF EscapeRow

(* No escape begins that of another character. *)
LEMMA EscapesApart ==
    ASSUME NEW c \in Chars, NEW d \in Chars, Begins(EscapedChar(c), EscapedChar(d))
    PROVE  c = d
<1> DEFINE w == EscapedChar(c)
           x == EscapedChar(d)
<1>1. EscapeRow(c) /\ EscapeRow(d)
    BY EscapeRows
<1>2. w[1] = x[1] /\ (Len(w) > 1 => w[2] = x[2])
    <2>1. Len(w) \in Nat /\ Len(w) # 0
        BY EscapeType
    <2> HIDE DEF w, x
    <2>2. \A i \in 1..Len(w) : w[i] = x[i]
        BY DEF Begins, w, x
    <2> QED
        BY <2>1, <2>2
<1>3. CASE c \in {"n", "angstrom", "surrogate", "private", "astral", "artifact_id"}
    BY <1>1, <1>2, <1>3 DEF EscapeRow
<1>4. CASE c \in {"newline", "quote", "backslash", "control"}
    <2>1. w[1] = "backslash" /\ Len(w) > 1
        BY <1>1, <1>4 DEF EscapeRow
    <2>2. d \in {"newline", "quote", "backslash", "control"}
        <3>1. ASSUME EscapedChar(d) = <<d>>, d # "backslash" PROVE FALSE
            <4>1. x[1] = "backslash"
                BY <1>2, <2>1
            <4> QED
                BY <3>1, <4>1
        <3> QED
            BY <1>1, <3>1 DEF EscapeRow
    <2> DEFINE Follows(ch) == CASE ch = "newline" -> "n" [] ch = "quote" -> "quote"
                              [] ch = "backslash" -> "backslash" [] OTHER -> "u"
    <2>3. w[2] = Follows(c)
        BY <1>1, <1>4 DEF EscapeRow
    <2>4. x[2] = Follows(d)
        BY <1>1, <2>2 DEF EscapeRow
    <2> QED
        BY <1>2, <1>4, <2>1, <2>2, <2>3, <2>4
<1>5. c \in {"n", "angstrom", "surrogate", "private", "astral", "artifact_id"}
          \/ c \in {"newline", "quote", "backslash", "control"}
    BY <1>1 DEF EscapeRow
<1> QED
    BY <1>3, <1>4, <1>5

EscapeWords == {EscapedChar(ch) : ch \in Chars}

(* Escaped characters are told apart, and from the quote that ends a string. *)
LEMMA EscapeCode == Code(Letters, EscapeWords, Seq(Letters), "quote")
<1> DEFINE e == <<"quote">>
           T == Seq(Letters)
<1>1. EscapeWords \in SUBSET T /\ T \in SUBSET Seq(Letters)
    BY EscapeType DEF EscapeWords
<1>0. e \in T /\ 1 \in 1..Len(e) /\ e[1] = "quote"
    <2>1. "quote" \in Letters
        BY LettersAre
    <2> QED
        BY <2>1
<1>2. Told(EscapeWords, T)
    <2>1. \A w, x \in EscapeWords : Begins(w, x) => w = x
        BY EscapesApart DEF EscapeWords
    <2> HIDE DEF T
    <2> QED
        BY <1>1, <2>1, ToldIf
<1>3. \A w \in EscapeWords : \A t \in T : Cat(w, t) \in T
    BY <1>1, CatType
<1>4. \A t \in T : Cat(e, t) \in T
    BY <1>0, CatType
<1>5. ASSUME NEW w \in EscapeWords, NEW t \in T, NEW u \in T PROVE Cat(w, t) # Cat(e, u)
    <2>1. w \in Seq(Letters) /\ 1 \in 1..Len(w) /\ w[1] # "quote"
        BY EscapeType DEF EscapeWords
    <2>2. Cat(w, t)[1] = w[1]
        BY <2>1, CatElements
    <2> HIDE DEF e
    <2>3. Cat(e, u)[1] = e[1]
        BY ONLY <1>0, CatElements
    <2> QED
        BY <1>0, <2>1, <2>2, <2>3
<1> HIDE DEF e, T
<1>6. EscapeWords \subseteq Seq(Letters) /\ T \subseteq Seq(Letters)
    BY <1>1 DEF T
<1> QED
    BY <1>0, <1>2, <1>3, <1>4, <1>5, <1>6 DEF Code, e, T

-----------------------------------------------------------------------------
(* A text in two marks is told from what follows it like the list in it. *)
LEMMA InMarks ==
    ASSUME NEW A, NEW p \in Seq(Seq(A)), NEW o \in A, NEW e \in A, NEW t \in Seq(A)
    PROVE  /\ <<o>> \o FlattenSeq(p) \o <<e>> \in Seq(A)
           /\ Cat(<<o>> \o FlattenSeq(p) \o <<e>>, t) = Cat(<<o>>, Listed(p, e, t))
<1> DEFINE x == <<o>>
           y == FlattenSeq(p)
           z == <<e>>
<1>1. x \in Seq(A) /\ y \in Seq(A) /\ z \in Seq(A)
    BY FlattenedType
<1>2. <<o>> \o FlattenSeq(p) \o <<e>> = Cat(Cat(x, y), z) /\ Listed(p, e, t) = Cat(y, Cat(z, t))
    BY DEF Cat, Listed
<1> HIDE DEF x, y, z
<1>3. Cat(x, y) \in Seq(A) /\ Cat(z, t) \in Seq(A)
    BY <1>1, CatType
<1>4. Cat(Cat(x, y), z) \in Seq(A)
    BY <1>1, <1>3, CatType
<1>5. Cat(Cat(Cat(x, y), z), t) = Cat(Cat(x, y), Cat(z, t))
    BY ONLY <1>1, <1>3, CatAssociative
<1>6. Cat(Cat(x, y), Cat(z, t)) = Cat(x, Cat(y, Cat(z, t)))
    BY ONLY <1>1, <1>3, CatAssociative
<1> QED
    BY <1>2, <1>4, <1>5, <1>6 DEF x

(* A string has a text exactly if it is in the profile, and that is told from whatever
   follows it. *)
Good(s) == Range(s) \cap {"surrogate", "angstrom"} = {}

EscapedOf(s) == [i \in DOMAIN s |-> EscapedChar(s[i])]

(* _string of any string: escaped between quotes, or no text at all. *)
LEMMA StringText ==
    ASSUME NEW s \in Seq(Chars)
    PROVE  /\ EscapedOf(s) \in Seq(EscapeWords)
           /\ Good(s) => _string(s) = <<"quote">> \o FlattenSeq(EscapedOf(s)) \o <<"quote">>
           /\ ~Good(s) => _string(s) = NoText
<1>1. EscapedOf(s) \in Seq(EscapeWords)
    BY DEF EscapedOf, EscapeWords
<1>2. Good(s) <=> Encodable(s) /\ NFC(s)
    BY DEF Good, Encodable, NFC
<1> QED
    BY <1>1, <1>2 DEF _string, EscapedOf

(* The text of a string begins with a quote. *)
LEMMA StringFirst ==
    ASSUME NEW s \in Seq(Chars), Good(s)
    PROVE  _string(s) \in Seq(Letters) /\ _string(s) # NoText /\ _string(s)[1] = "quote"
<1> DEFINE p == EscapedOf(s)
           w == _string(s)
           x == <<"quote">>
           y == Listed(p, "quote", <<>>)
<1>1. p \in Seq(Seq(Letters)) /\ p \in Seq(EscapeWords)
    BY StringText, EscapeCode DEF Code
<1>2. "quote" \in Letters /\ <<>> \in Seq(Letters)
    <2>1. "quote" \in Letters
        BY LettersAre
    <2> QED
        BY <2>1
<1>3. x \in Seq(Letters)
    BY <1>2
<1>4. w = <<"quote">> \o FlattenSeq(p) \o <<"quote">>
    BY StringText
<1> HIDE DEF p, w
<1>5. w \in Seq(Letters) /\ Cat(w, <<>>) = Cat(x, y)
    <2> DEFINE none == <<>>
    <2>1. none \in Seq(Letters)
        BY <1>2
    <2> HIDE DEF none
    <2>2. w \in Seq(Letters) /\ Cat(w, none) = Cat(<<"quote">>, Listed(p, "quote", none))
        BY ONLY <1>1, <1>2, <1>4, <2>1, InMarks
    <2> QED
        BY <2>2 DEF none
<1>6. y \in Seq(Letters)
    BY <1>1, <1>2, EscapeCode, ListIsTail
<1>7. w = Cat(x, y)
    BY <1>5, CatEmpty
<1>8. w[1] = "quote" /\ w # <<>>
    <2> HIDE DEF y
    <2> QED
        BY <1>2, <1>6, <1>7, CatMark
<1> QED
    BY <1>5, <1>8 DEF w, NoText

(* Two strings with the same text, whatever follows it, are the same string,
   and the same follows. *)
LEMMA StringTold ==
    ASSUME NEW r \in Seq(Chars), NEW s \in Seq(Chars), Good(r), Good(s),
           NEW t \in Seq(Letters), NEW u \in Seq(Letters), Cat(_string(r), t) = Cat(_string(s), u)
    PROVE  r = s /\ t = u
<1> DEFINE p == EscapedOf(r)
           q == EscapedOf(s)
           x == <<"quote">>
           y == Listed(p, "quote", t)
           z == Listed(q, "quote", u)
<1>1. p \in Seq(Seq(Letters)) /\ q \in Seq(Seq(Letters)) /\ p \in Seq(EscapeWords)
          /\ q \in Seq(EscapeWords)
    BY StringText, EscapeCode DEF Code
<1>2. "quote" \in Letters
    BY LettersAre
<1>3. x \in Seq(Letters)
    BY <1>2
<1>4. _string(r) = <<"quote">> \o FlattenSeq(p) \o <<"quote">>
    BY StringText
<1>5. _string(s) = <<"quote">> \o FlattenSeq(q) \o <<"quote">>
    BY StringText
<1> HIDE DEF p, q
<1>6. Cat(_string(r), t) = Cat(x, y) /\ Cat(_string(s), u) = Cat(x, z)
    BY <1>1, <1>2, <1>4, <1>5, InMarks
<1>7. y \in Seq(Letters) /\ z \in Seq(Letters)
    BY <1>1, EscapeCode, ListIsTail
<1>8. y = z
    <2> HIDE DEF x, y, z
    <2> QED
        BY <1>3, <1>6, <1>7, CatCancel
<1>9. p = q /\ t = u
    BY <1>1, <1>8, EscapeCode, ListIsTold
<1>10. Len(r) = Len(s) /\ \A i \in 1..Len(r) : EscapedChar(r[i]) = EscapedChar(s[i])
    <2>1. Len(p) = Len(r) /\ \A i \in 1..Len(r) : p[i] = EscapedChar(r[i])
        BY DEF p, EscapedOf
    <2>2. Len(q) = Len(s) /\ \A i \in 1..Len(s) : q[i] = EscapedChar(s[i])
        BY DEF q, EscapedOf
    <2> QED
        BY <1>9, <2>1, <2>2
<1>11. ASSUME NEW i \in 1..Len(r) PROVE r[i] = s[i]
    <2>1. r[i] \in Chars /\ s[i] \in Chars
        BY <1>10
    <2>2. EscapedChar(r[i]) \in Seq(Letters)
        BY <2>1, EscapeType
    <2>3. Begins(EscapedChar(r[i]), EscapedChar(s[i]))
        BY <1>10, <2>2, LenProperties DEF Begins
    <2> QED
        BY <2>1, <2>3, EscapesApart
<1> QED
    BY <1>9, <1>10, <1>11, SeqEqual

-----------------------------------------------------------------------------
(* Brackets.  A word in one is followed by a comma or by the bracket's other half. *)
EndMarks == {"comma", "right_bracket", "right_brace"}
Tails == {t \in Seq(Letters) : t = <<>> \/ t[1] \in EndMarks}

Words(W) ==
    /\ W \subseteq Seq(Letters)
    /\ Told(W, Tails)
    /\ \A w \in W : w # <<>> /\ w[1] \notin EndMarks

After(W) == {Cat(<<"comma">>, w) : w \in W}

(* What can follow the text of a value is a text, or nothing. *)
LEMMA EndsAre == EndMarks \subseteq Letters /\ Tails \subseteq Seq(Letters) /\ <<>> \in Tails
<1>1. "comma" \in Letters /\ "right_bracket" \in Letters /\ "right_brace" \in Letters
    BY LettersAre
<1>2. EndMarks \subseteq Letters
    BY <1>1 DEF EndMarks
<1>3. <<>> \in Tails
    BY DEF Tails
<1> QED
    BY <1>2, <1>3 DEF Tails

(* What begins with an end is a tail. *)
LEMMA EndIsTail ==
    ASSUME NEW o \in EndMarks, NEW t \in Seq(Letters)
    PROVE  Cat(<<o>>, t) \in Tails
<1>1. o \in Letters
    BY EndsAre
<1>2. Cat(<<o>>, t) \in Seq(Letters) /\ Cat(<<o>>, t)[1] = o
    BY <1>1, CatMark
<1> QED
    BY <1>2 DEF Tails

(* Texts that come after a comma are told apart, and from the bracket that ends them. *)
LEMMA AfterCode ==
    ASSUME NEW W, Words(W), NEW close \in {"right_bracket", "right_brace"}
    PROVE  Code(Letters, After(W), Tails, close)
<1> DEFINE m == <<"comma">>
           e == <<close>>
<1>1. "comma" \in EndMarks /\ close \in EndMarks /\ close # "comma"
    BY DEF EndMarks
<1>2. "comma" \in Letters /\ close \in Letters
    BY <1>1, EndsAre
<1>3. m \in Seq(Letters) /\ e \in Seq(Letters)
    BY <1>2, CatMark
<1>4. /\ \A w \in Seq(Letters) : Cat(m, w) \in Seq(Letters) /\ Cat(m, w)[1] = "comma"
      /\ \A w, x \in Seq(Letters) : Cat(m, w) = Cat(m, x) => w = x
    BY <1>2, CatMark
<1>5. \A t \in Seq(Letters) : Cat(e, t) \in Seq(Letters) /\ Cat(e, t)[1] = close
    BY <1>2, CatMark
<1>6. \A t \in Seq(Letters) : Cat(m, t) \in Tails /\ Cat(e, t) \in Tails
    BY <1>1, EndIsTail
<1>7. After(W) = {Cat(m, w) : w \in W}
    BY DEF After
<1> HIDE DEF m, e
<1>8. W \subseteq Seq(Letters) /\ Tails \subseteq Seq(Letters)
    BY EndsAre DEF Words
<1>9. \A w \in W : \A t \in Tails :
        Cat(Cat(m, w), t) = Cat(m, Cat(w, t)) /\ Cat(w, t) \in Seq(Letters)
    <2> SUFFICES ASSUME NEW w \in W, NEW t \in Tails
                 PROVE  Cat(Cat(m, w), t) = Cat(m, Cat(w, t)) /\ Cat(w, t) \in Seq(Letters)
        OBVIOUS
    <2>1. w \in Seq(Letters) /\ t \in Seq(Letters)
        BY <1>8
    <2>2. Cat(w, t) \in Seq(Letters)
        BY <2>1, CatType
    <2>3. Cat(Cat(m, w), t) = Cat(m, Cat(w, t))
        BY ONLY <1>3, <2>1, CatShift
    <2> QED
        BY <2>2, <2>3
<1>10. Told(After(W), Tails)
    <2>1. ASSUME NEW w \in W, NEW x \in W, NEW t \in Tails, NEW u \in Tails,
                 Cat(Cat(m, w), t) = Cat(Cat(m, x), u)
          PROVE  Cat(m, w) = Cat(m, x) /\ t = u
        <3> DEFINE y == Cat(w, t)
                   z == Cat(x, u)
        <3>1. y \in Seq(Letters) /\ z \in Seq(Letters) /\ Cat(m, y) = Cat(m, z)
            BY <1>9, <2>1
        <3>2. y = z
            <4> HIDE DEF y, z
            <4> QED
                BY <1>4, <3>1
        <3>3. Told(W, Tails)
            BY DEF Words
        <3>4. w = x /\ t = u
            BY ONLY <3>2, <3>3 DEF Told
        <3> QED
            BY <3>4
    <2>2. ASSUME NEW a \in After(W), NEW b \in After(W), NEW t \in Tails, NEW u \in Tails,
                 Cat(a, t) = Cat(b, u)
          PROVE  a = b /\ t = u
        <3>1. PICK w \in W : a = Cat(m, w)
            BY <1>7
        <3>2. PICK x \in W : b = Cat(m, x)
            BY <1>7
        <3> QED
            BY <2>1, <2>2, <3>1, <3>2
    <2> QED
        BY <2>2 DEF Told
<1>11. \A w \in After(W) : \A t \in Tails : Cat(w, t) \in Tails
    <2>1. \A w \in W : \A t \in Tails : Cat(Cat(m, w), t) \in Tails
        <3> SUFFICES ASSUME NEW w \in W, NEW t \in Tails PROVE Cat(Cat(m, w), t) \in Tails
            OBVIOUS
        <3>1. Cat(Cat(m, w), t) = Cat(m, Cat(w, t)) /\ Cat(w, t) \in Seq(Letters)
            BY <1>9
        <3> QED
            BY <1>6, <3>1
    <2> QED
        BY <1>7, <2>1
<1>12. \A t \in Tails : Cat(e, t) \in Tails
    BY <1>6, <1>8
<1>13. \A w \in After(W) : \A t, u \in Tails : Cat(w, t) # Cat(e, u)
    <2>1. ASSUME NEW w \in W, NEW t \in Tails, NEW u \in Tails PROVE Cat(Cat(m, w), t) # Cat(e, u)
        <3>1. Cat(Cat(m, w), t)[1] = "comma"
            <4>1. Cat(Cat(m, w), t) = Cat(m, Cat(w, t)) /\ Cat(w, t) \in Seq(Letters)
                BY <1>9
            <4> QED
                BY <1>4, <4>1
        <3>2. Cat(e, u)[1] = close
            BY <1>5, <1>8
        <3> QED
            BY <1>1, <3>1, <3>2
    <2> QED
        BY <1>7, <2>1
<1>14. After(W) \subseteq Seq(Letters)
    BY <1>4, <1>7, <1>8
<1> QED
    BY <1>3, <1>8, <1>10, <1>11, <1>12, <1>13, <1>14 DEF Code, e

(* ListedFirst, of any texts. *)
LEMMA ListedHead ==
    ASSUME NEW A, NEW p \in Seq(Seq(A)), NEW e \in A, NEW t \in Seq(A), p # <<>>
    PROVE  Listed(p, e, t) = Cat(p[1], Listed(Tail(p), e, t))
<1>1. Tail(p) \in Seq(Seq(A)) /\ p[1] \in Seq(A)
    OBVIOUS
<1> DEFINE x == p[1]
           y == FlattenSeq(Tail(p))
           z == Cat(<<e>>, t)
<1>2. FlattenSeq(p) = Cat(x, y)
    BY FlattenedFirst
<1>3. x \in Seq(A) /\ y \in Seq(A)
    BY <1>1, FlattenedType
<1>4. z \in Seq(A)
    BY CatMark
<1> HIDE DEF x, y, z
<1>5. Cat(Cat(x, y), z) = Cat(x, Cat(y, z))
    BY ONLY <1>3, <1>4, CatAssociative
<1> QED
    BY <1>2, <1>5 DEF Listed, x, y, z

(* ListedNone, of any texts. *)
LEMMA ListedEmpty ==
    ASSUME NEW A, NEW e \in A, NEW t \in Seq(A)
    PROVE  Listed(<<>>, e, t) = Cat(<<e>>, t)
<1>1. <<>> \in Seq(Seq(A))
    OBVIOUS
<1>2. FlattenSeq(<<>>) = <<>>
    BY <1>1, FlattenedType
<1>3. Cat(<<e>>, t) \in Seq(A)
    BY CatMark
<1> QED
    BY <1>2, <1>3, CatEmpty DEF Listed

-----------------------------------------------------------------------------
(* Words in brackets, with commas between them. *)
Commas(ps) == [i \in DOMAIN ps |-> IF i = 1 THEN ps[i] ELSE Cat(<<"comma">>, ps[i])]

Closes == {"right_bracket", "right_brace"}

(* Bracketed puts a comma before every text but the first. *)
LEMMA CommasType ==
    ASSUME NEW W, Words(W), NEW ps \in Seq(W)
    PROVE  /\ Commas(ps) \in Seq(Seq(Letters)) /\ Len(Commas(ps)) = Len(ps)
           /\ \A i \in 1..Len(ps) : i # 1 => Commas(ps)[i] = Cat(<<"comma">>, ps[i])
           /\ ps # <<>> => Commas(ps) # <<>> /\ Commas(ps)[1] = ps[1]
           /\ ps = <<>> => Commas(ps) = <<>>
<1>1. W \subseteq Seq(Letters) /\ "comma" \in Letters
    BY LettersAre DEF Words
<1>2. \A i \in 1..Len(ps) : ps[i] \in Seq(Letters) /\ Cat(<<"comma">>, ps[i]) \in Seq(Letters)
    BY <1>1, CatMark
<1>3. DOMAIN ps = 1..Len(ps) /\ Len(ps) \in Nat
    OBVIOUS
<1>4. Commas(ps) \in [1..Len(ps) -> Seq(Letters)]
    BY <1>2, <1>3 DEF Commas
<1>5. Commas(ps) \in Seq(Seq(Letters)) /\ Len(Commas(ps)) = Len(ps)
    BY <1>3, <1>4
<1>6. \A i \in 1..Len(ps) : i # 1 => Commas(ps)[i] = Cat(<<"comma">>, ps[i])
    BY <1>3 DEF Commas
<1>7. ps # <<>> => Commas(ps) # <<>> /\ Commas(ps)[1] = ps[1]
    <2> HAVE ps # <<>>
    <2>1. Len(ps) # 0 /\ 1 \in DOMAIN ps
        BY <1>3
    <2>2. Commas(ps)[1] = ps[1]
        BY <2>1 DEF Commas
    <2>3. Commas(ps) # <<>>
        BY <1>5, <2>1
    <2> QED
        BY <2>2, <2>3
<1>8. ps = <<>> => Commas(ps) = <<>>
    <2> HAVE ps = <<>>
    <2>1. Len(Commas(ps)) = 0
        BY <1>5
    <2> QED
        BY <1>5, <2>1
<1> QED
    BY <1>5, <1>6, <1>7, <1>8

(* Behind the first text, each comes after a comma. *)
LEMMA CommasRest ==
    ASSUME NEW W, Words(W), NEW ps \in Seq(W), ps # <<>>
    PROVE  Tail(Commas(ps)) \in Seq(After(W))
<1> DEFINE cs == Commas(ps)
<1>1. cs \in Seq(Seq(Letters)) /\ Len(cs) = Len(ps) /\ Len(ps) \in Nat /\ cs # <<>>
    BY CommasType
<1>2. \A i \in 1..Len(ps) : i # 1 => cs[i] = Cat(<<"comma">>, ps[i])
    BY CommasType
<1> HIDE DEF cs
<1>3. Len(Tail(cs)) = Len(ps) - 1 /\ Len(ps) - 1 \in Nat
    BY <1>1
<1>4. \A i \in 1..(Len(ps) - 1) : Tail(cs)[i] = cs[i + 1]
    BY <1>1
<1>5. \A i \in 1..(Len(ps) - 1) : Tail(cs)[i] \in After(W)
    <2> TAKE i \in 1..(Len(ps) - 1)
    <2>1. i + 1 \in 1..Len(ps) /\ i + 1 # 1
        BY <1>1
    <2>2. Tail(cs)[i] = cs[i + 1]
        BY <1>4
    <2> DEFINE j == i + 1
    <2> HIDE DEF j
    <2>3. j \in 1..Len(ps) /\ j # 1
        BY <2>1 DEF j
    <2>4. cs[j] = Cat(<<"comma">>, ps[j]) /\ ps[j] \in W
        BY <1>2, <2>3
    <2> QED
        BY <2>2, <2>4 DEF After, j
<1>6. Tail(cs) \in Seq(Seq(Letters))
    BY <1>1
<1>7. Tail(cs) \in Seq(After(W))
    <2> DEFINE r == Tail(cs)
    <2>1. r \in Seq(Seq(Letters)) /\ Consists(r, After(W))
        BY <1>3, <1>5, <1>6 DEF Consists
    <2> HIDE DEF r
    <2>2. r \in Seq(After(W))
        BY <2>1, ConsistsSeq
    <2> QED
        BY <2>2 DEF r
<1> QED
    BY <1>7 DEF cs

(* Bracketed of texts: the one bracket, the texts, the other bracket. *)
LEMMA BracketText ==
    ASSUME NEW W, Words(W), NEW ps \in Seq(W), NEW open \in Letters, NEW close \in Closes,
           NEW t \in Seq(Letters)
    PROVE  LET text == Bracketed(open, ps, close)
           IN  /\ text \in Seq(Letters) /\ text # NoText /\ text[1] = open
               /\ Cat(text, t) = Cat(<<open>>, Listed(Commas(ps), close, t))
<1> DEFINE text == Bracketed(open, ps, close)
           cs == Commas(ps)
<1>1. NoText \notin Range(ps)
    BY DEF Words, NoText, Range
<1>2. text = <<open>> \o FlattenSeq(cs) \o <<close>>
    BY <1>1 DEF Bracketed, Commas, Cat
<1>3. cs \in Seq(Seq(Letters))
    BY CommasType
<1>4. close \in Letters
    BY LettersAre DEF Closes
<1>5. \A u \in Seq(Letters) : text \in Seq(Letters) /\ Cat(text, u)
          = Cat(<<open>>, Listed(cs, close, u))
    <2> HIDE DEF text, cs
    <2> QED
        BY <1>2, <1>3, <1>4, InMarks
<1>6. text \in Seq(Letters) /\ Cat(text, <<>>) = Cat(<<open>>, Listed(cs, close, <<>>))
    <2>1. <<>> \in Seq(Letters)
        OBVIOUS
    <2> HIDE DEF text, cs
    <2> QED
        BY <1>5, <2>1
<1>7. Listed(cs, close, <<>>) \in Seq(Letters)
    <2>1. FlattenSeq(cs) \in Seq(Letters)
        BY <1>3, FlattenedType
    <2>2. <<>> \in Seq(Letters)
        OBVIOUS
    <2>3. Cat(<<close>>, <<>>) \in Seq(Letters)
        BY <1>4, <2>2, CatMark
    <2> HIDE DEF cs
    <2> QED
        BY <2>1, <2>3, CatType DEF Listed
<1>8. text = Cat(<<open>>, Listed(cs, close, <<>>))
    <2> HIDE DEF text, cs
    <2> QED
        BY <1>6, CatEmpty
<1>9. text # <<>> /\ text[1] = open
    <2> HIDE DEF text, cs
    <2> QED
        BY <1>7, <1>8, CatMark
<1> HIDE DEF text, cs
<1>10. Cat(text, t) = Cat(<<open>>, Listed(cs, close, t))
    BY <1>5
<1> QED
    BY <1>6, <1>9, <1>10 DEF text, cs, NoText

(* What is in brackets begins with their end, if nothing is in them, and otherwise with
   a word, that a tail follows. *)
LEMMA BracketNone ==
    ASSUME NEW close \in Closes, NEW t \in Tails
    PROVE  /\ Listed(Commas(<<>>), close, t) = Cat(<<close>>, t)
           /\ Cat(<<close>>, t)[1] = close
<1>1. t \in Seq(Letters) /\ close \in Letters
    BY EndsAre, LettersAre DEF Closes
<1>2. Commas(<<>>) = <<>>
    <2>1. <<>> \in Seq({})
        OBVIOUS
    <2>2. Words({})
        BY DEF Words, Told
    <2> QED
        BY <2>1, <2>2, CommasType
<1>3. Listed(<<>>, close, t) = Cat(<<close>>, t)
    BY <1>1, ListedEmpty
<1>4. Cat(<<close>>, t)[1] = close
    BY <1>1, CatMark
<1> QED
    BY <1>2, <1>3, <1>4

Rest(ps, close, t) == Listed(Tail(Commas(ps)), close, t)

(* If there are texts the first comes at once, and is not the closing bracket. *)
LEMMA BracketFirst ==
    ASSUME NEW W, Words(W), NEW ps \in Seq(W), NEW close \in Closes, NEW t \in Tails, ps # <<>>
    PROVE  /\ Listed(Commas(ps), close, t) = Cat(ps[1], Rest(ps, close, t))
           /\ ps[1] \in W /\ Rest(ps, close, t) \in Tails
           /\ Cat(ps[1], Rest(ps, close, t))[1] # close
<1> DEFINE cs == Commas(ps)
           r == Tail(cs)
           first == ps[1]
           v == Listed(r, close, t)
<1>1. t \in Seq(Letters) /\ close \in Letters /\ close \in EndMarks
    BY EndsAre, LettersAre DEF Closes, EndMarks
<1>2. cs \in Seq(Seq(Letters)) /\ cs # <<>> /\ cs[1] = first
    BY CommasType
<1>3. r \in Seq(After(W))
    BY CommasRest
<1>4. first \in W
    OBVIOUS
<1> HIDE DEF cs, first
<1>5. Listed(cs, close, t) = Cat(first, v)
    BY <1>1, <1>2, ListedHead
<1> HIDE DEF r
<1>6. v \in Tails
    BY <1>3, AfterCode, ListIsTail DEF Closes
<1> HIDE DEF v
<1>7. first \in Seq(Letters) /\ first # <<>> /\ first[1] \notin EndMarks /\ v \in Seq(Letters)
    BY <1>4, <1>6, EndsAre DEF Words
<1>8. Cat(first, v)[1] = first[1]
    BY <1>7, CatFirst
<1>9. Cat(first, v)[1] # close
    BY <1>1, <1>7, <1>8
<1> QED
    BY <1>4, <1>5, <1>6, <1>9 DEF Rest, cs, r, first, v

(* What is behind the opening bracket is a text. *)
LEMMA BracketInner ==
    ASSUME NEW W, Words(W), NEW ps \in Seq(W), NEW close \in Closes, NEW t \in Tails
    PROVE  Listed(Commas(ps), close, t) \in Seq(Letters)
<1> DEFINE cs == Commas(ps)
<1>1. t \in Seq(Letters) /\ close \in Letters
    BY EndsAre, LettersAre DEF Closes
<1>2. cs \in Seq(Seq(Letters))
    BY CommasType
<1>3. FlattenSeq(cs) \in Seq(Letters)
    BY <1>2, FlattenedType
<1>4. Cat(<<close>>, t) \in Seq(Letters)
    BY <1>1, CatMark
<1> HIDE DEF cs
<1>5. Listed(cs, close, t) \in Seq(Letters)
    BY <1>3, <1>4, CatType DEF Listed
<1> QED
    BY <1>5 DEF cs

(* What is in brackets is told word by word, and from what follows. *)
LEMMA BracketTold ==
    ASSUME NEW W, Words(W), NEW ps \in Seq(W), NEW qs \in Seq(W), NEW open \in Letters,
           NEW close \in Closes, NEW t \in Tails, NEW u \in Tails,
           Cat(Bracketed(open, ps, close), t) = Cat(Bracketed(open, qs, close), u)
    PROVE  ps = qs /\ t = u
<1> DEFINE y == Listed(Commas(ps), close, t)
           z == Listed(Commas(qs), close, u)
<1>1. t \in Seq(Letters) /\ u \in Seq(Letters) /\ close \in Letters /\ close \in EndMarks
    BY EndsAre, LettersAre DEF Closes, EndMarks
<1>2. y = z
    <2>1. Cat(Bracketed(open, ps, close), t) = Cat(<<open>>, y)
        BY <1>1, BracketText
    <2>2. Cat(Bracketed(open, qs, close), u) = Cat(<<open>>, z)
        BY <1>1, BracketText
    <2>3. Cat(<<open>>, y) = Cat(<<open>>, z)
        BY <2>1, <2>2
    <2>4. y \in Seq(Letters) /\ z \in Seq(Letters)
        BY BracketInner
    <2> HIDE DEF y, z
    <2> QED
        BY <2>3, <2>4, CatMark
<1>3. CASE ps = <<>> /\ qs = <<>>
    <2>1. y = Cat(<<close>>, t) /\ z = Cat(<<close>>, u)
        BY <1>3, BracketNone
    <2> HIDE DEF y, z
    <2>2. t = u
        BY <1>1, <1>2, <2>1, CatMark
    <2> QED
        BY <1>3, <2>2
<1>4. CASE ps = <<>> /\ qs # <<>>
    <2>1. y = Cat(<<close>>, t) /\ Cat(<<close>>, t)[1] = close
        BY <1>4, BracketNone
    <2>2. z = Cat(qs[1], Rest(qs, close, u)) /\ Cat(qs[1], Rest(qs, close, u))[1] # close
        BY <1>4, BracketFirst
    <2> HIDE DEF y, z
    <2> QED
        BY <1>2, <2>1, <2>2
<1>5. CASE ps # <<>> /\ qs = <<>>
    <2>1. z = Cat(<<close>>, u) /\ Cat(<<close>>, u)[1] = close
        BY <1>5, BracketNone
    <2>2. y = Cat(ps[1], Rest(ps, close, t)) /\ Cat(ps[1], Rest(ps, close, t))[1] # close
        BY <1>5, BracketFirst
    <2> HIDE DEF y, z
    <2> QED
        BY <1>2, <2>1, <2>2
<1>6. CASE ps # <<>> /\ qs # <<>>
    <2> DEFINE v == Rest(ps, close, t)
               w == Rest(qs, close, u)
               r == Tail(Commas(ps))
               s == Tail(Commas(qs))
    <2>1. y = Cat(ps[1], v) /\ ps[1] \in W /\ v \in Tails
        BY <1>6, BracketFirst
    <2>2. z = Cat(qs[1], w) /\ qs[1] \in W /\ w \in Tails
        BY <1>6, BracketFirst
    <2>3. ps[1] = qs[1] /\ v = w
        <3> DEFINE a == ps[1]
                   b == qs[1]
        <3>1. Told(W, Tails)
            BY DEF Words
        <3>2. Cat(a, v) = Cat(b, w) /\ a \in W /\ b \in W /\ v \in Tails /\ w \in Tails
            BY <1>2, <2>1, <2>2
        <3> HIDE DEF a, b, v, w
        <3>3. a = b /\ v = w
            BY ONLY <3>1, <3>2 DEF Told
        <3> QED
            BY <3>3 DEF a, b
    <2>4. r \in Seq(After(W)) /\ s \in Seq(After(W))
        BY <1>6, CommasRest
    <2>5. Listed(r, close, t) = Listed(s, close, u)
        BY <2>3 DEF Rest
    <2>6. r = s /\ t = u
        <3> HIDE DEF r, s
        <3>1. Code(Letters, After(W), Tails, close)
            BY AfterCode DEF Closes
        <3> QED
            BY <2>4, <2>5, <3>1, ListIsTold
    <2> DEFINE cs == Commas(ps)
               ds == Commas(qs)
    <2>7. cs = ds
        <3>1. cs \in Seq(Seq(Letters)) /\ cs # <<>> /\ cs[1] = ps[1]
            BY <1>6, CommasType
        <3>2. ds \in Seq(Seq(Letters)) /\ ds # <<>> /\ ds[1] = qs[1]
            BY <1>6, CommasType
        <3> HIDE DEF cs, ds
        <3>3. cs = <<cs[1]>> \o Tail(cs)
            BY <3>1
        <3>4. ds = <<ds[1]>> \o Tail(ds)
            BY <3>2
        <3> QED
            BY <2>3, <2>6, <3>1, <3>2, <3>3, <3>4 DEF cs, ds
    <2>8. Len(ps) = Len(qs)
        <3>1. Len(cs) = Len(ps) /\ Len(ds) = Len(qs)
            BY CommasType
        <3> HIDE DEF cs, ds
        <3> QED
            BY <2>7, <3>1
    <2>9. ASSUME NEW i \in 1..Len(ps) PROVE ps[i] = qs[i]
        <3>1. CASE i = 1
            BY <2>3, <3>1
        <3>2. CASE i # 1
            <4>1. cs[i] = Cat(<<"comma">>, ps[i])
                BY <3>2, CommasType
            <4>2. ds[i] = Cat(<<"comma">>, qs[i])
                BY <2>8, <3>2, CommasType
            <4>3. ps[i] \in Seq(Letters) /\ qs[i] \in Seq(Letters) /\ "comma" \in Letters
                BY <2>8, LettersAre DEF Words
            <4> HIDE DEF cs, ds
            <4> QED
                BY <2>7, <4>1, <4>2, <4>3, CatMark
        <3> QED
            BY <3>1, <3>2
    <2> QED
        BY <2>6, <2>8, <2>9, SeqEqual
<1> QED
    BY <1>3, <1>4, <1>5, <1>6

-----------------------------------------------------------------------------
(* Numbers. *)
LEMMA CatOne ==
    ASSUME NEW A, NEW x \in Seq(A), NEW a \in A
    PROVE  /\ Cat(x, <<a>>) \in Seq(A)
           /\ Len(Cat(x, <<a>>)) = Len(x) + 1
           /\ Cat(x, <<a>>)[Len(x) + 1] = a
           /\ \A i \in 1..Len(x) : Cat(x, <<a>>)[i] = x[i]
<1> DEFINE m == <<a>>
<1>1. m \in Seq(A) /\ Len(m) = 1 /\ m[1] = a /\ 1 \in 1..Len(m)
    OBVIOUS
<1> HIDE DEF m
<1>2. Cat(x, m) \in Seq(A)
    BY <1>1, CatType
<1>3. Len(Cat(x, m)) = Len(x) + Len(m)
    BY <1>1, CatElements
<1>4. Cat(x, m)[Len(x) + 1] = m[1]
    <2> DEFINE j == Len(x) + 1
    <2>1. j \in 1..(Len(x) + Len(m)) /\ j > Len(x) /\ j - Len(x) = 1
        BY <1>1
    <2> HIDE DEF j
    <2>2. Cat(x, m)[j] = m[j - Len(x)]
        BY <1>1, <2>1, CatSecond
    <2> QED
        BY <2>1, <2>2 DEF j
<1>5. \A i \in 1..Len(x) : Cat(x, m)[i] = x[i]
    BY <1>1, CatElements
<1>6. Cat(x, m)[Len(x) + 1] = a
    BY <1>1, <1>4
<1>7. Len(Cat(x, m)) = Len(x) + 1
    BY <1>1, <1>3
<1> QED
    BY <1>2, <1>5, <1>6, <1>7 DEF m

(* The last letter of a text, and what is before it, are read off the text. *)
LEMMA CatLast ==
    ASSUME NEW A, NEW x \in Seq(A), NEW y \in Seq(A), NEW a \in A, NEW b \in A,
           Cat(x, <<a>>) = Cat(y, <<b>>)
    PROVE  x = y /\ a = b
<1> DEFINE v == Cat(x, <<a>>)
           w == Cat(y, <<b>>)
<1>1. Len(v) = Len(x) + 1
    BY CatOne
<1>1a. v[Len(x) + 1] = a
    BY CatOne
<1>1b. \A i \in 1..Len(x) : v[i] = x[i]
    BY CatOne
<1>2. Len(w) = Len(y) + 1
    BY CatOne
<1>2a. w[Len(y) + 1] = b
    BY CatOne
<1>2b. \A i \in 1..Len(y) : w[i] = y[i]
    BY ONLY CatOne
<1>3. v = w
    OBVIOUS
<1> HIDE DEF v, w
<1>4. Len(x) = Len(y)
    BY <1>1, <1>2, <1>3
<1>5. a = b
    BY <1>1a, <1>2a, <1>3, <1>4
<1>6. x = y
    BY <1>1b, <1>2b, <1>3, <1>4, SeqEqual
<1> QED
    BY <1>5, <1>6

DigitMarks == {"0", "1", "2", "3", "4", "5", "6", "7", "8", "9"}

(* The ten digits are different letters. *)
LEMMA DigitIs ==
    /\ \A i \in 0..9 : Digit[i + 1] \in DigitMarks
    /\ \A i, j \in 0..9 : Digit[i + 1] = Digit[j + 1] => i = j
<1>1. ASSUME NEW i \in 1..10
      PROVE  \/ i = 1 /\ Digit[i] = "0"
             \/ i = 2 /\ Digit[i] = "1"
             \/ i = 3 /\ Digit[i] = "2"
             \/ i = 4 /\ Digit[i] = "3"
             \/ i = 5 /\ Digit[i] = "4"
             \/ i = 6 /\ Digit[i] = "5"
             \/ i = 7 /\ Digit[i] = "6"
             \/ i = 8 /\ Digit[i] = "7"
             \/ i = 9 /\ Digit[i] = "8"
             \/ i = 10 /\ Digit[i] = "9"
    BY DEF Digit
<1>2. \A i \in 1..10 : Digit[i] \in DigitMarks
    BY <1>1 DEF DigitMarks
<1>3. ASSUME NEW i \in 1..10, NEW j \in 1..10, Digit[i] = Digit[j] PROVE i = j
    BY <1>1, <1>3
<1>4. ASSUME NEW i \in 0..9 PROVE Digit[i + 1] \in DigitMarks
    <2>1. i + 1 \in 1..10
        OBVIOUS
    <2> QED
        BY <1>2, <2>1
<1>5. ASSUME NEW i \in 0..9, NEW j \in 0..9, Digit[i + 1] = Digit[j + 1] PROVE i = j
    <2>1. i + 1 \in 1..10 /\ j + 1 \in 1..10
        OBVIOUS
    <2>2. i + 1 = j + 1
        BY <1>3, <1>5, <2>1
    <2> QED
        BY <2>2
<1> QED
    BY <1>4, <1>5

(* A number is written as its tens are, with one more digit. *)
LEMMA DigitsAre ==
    /\ \A n \in Nat : Digits[n] \in Seq(DigitMarks)
    /\ \A n \in Nat : n < 10 => Digits[n] = <<Digit[n + 1]>>
    /\ \A n \in Nat : ~(n < 10) => Digits[n] = Cat(Digits[n \div 10], <<Digit[(n % 10) + 1]>>)
<1> DEFINE R == Seq(DigitMarks)
           depth == [n \in Nat |-> n]
           Step(n, f) == IF n < 10 THEN <<Digit[n + 1]>> ELSE f[n \div 10] \o <<Digit[(n % 10) + 1]>>
           step == [n \in Nat |-> [f \in [Nat -> R] |-> Step(n, f)]]
<1>1. \A n \in Nat : n < 10 => <<Digit[n + 1]>> \in R
    <2> TAKE n \in Nat
    <2> HAVE n < 10
    <2>1. n \in 0..9
        OBVIOUS
    <2>2. Digit[n + 1] \in DigitMarks
        BY <2>1, DigitIs
    <2> QED
        BY <2>2
<1>2. \A n \in Nat : n % 10 \in 0..9 /\ n \div 10 \in Nat /\ (~(n < 10) => n \div 10 < n)
    OBVIOUS
<1>3. \A n \in Nat : <<Digit[(n % 10) + 1]>> \in R
    <2> TAKE n \in Nat
    <2>1. Digit[(n % 10) + 1] \in DigitMarks
        BY <1>2, DigitIs
    <2> QED
        BY <2>1
<1>4. \A n \in Nat : \A f \in [Nat -> R] : Step(n, f) \in R
    <2> TAKE n \in Nat
    <2> TAKE f \in [Nat -> R]
    <2>1. CASE n < 10
        BY <1>1, <2>1
    <2>2. CASE ~(n < 10)
        <3>1. f[n \div 10] \in R /\ <<Digit[(n % 10) + 1]>> \in R
            BY <1>2, <1>3
        <3>2. f[n \div 10] \o <<Digit[(n % 10) + 1]>> \in R
            BY <3>1, ConcatProperties
        <3> QED
            BY <2>2, <3>2
    <2> QED
        BY <2>1, <2>2
<1>5. step \in [Nat -> [[Nat -> R] -> R]] /\ \A n \in Nat : \A f \in [Nat -> R] : step[n][f] = Step(n, f)
    <2> HIDE DEF R, Step
    <2> QED
        BY <1>4
<1>6. depth \in [Nat -> Nat] /\ \A n \in Nat : depth[n] = n
    OBVIOUS
<1>7. R # {}
    <2>1. <<>> \in R
        OBVIOUS
    <2> QED
        BY <2>1
<1> HIDE DEF step, depth, R
<1>8. ASSUME NEW n \in Nat, NEW f \in [Nat -> R], NEW g \in [Nat -> R],
             \A k \in Nat : depth[k] < depth[n] => f[k] = g[k]
      PROVE  step[n][f] = step[n][g]
    <2>1. ~(n < 10) => f[n \div 10] = g[n \div 10]
        BY <1>2, <1>6, <1>8
    <2>2. Step(n, f) = Step(n, g)
        BY <2>1
    <2>3. step[n][f] = Step(n, f) /\ step[n][g] = Step(n, g)
        BY ONLY <1>5, n \in Nat, f \in [Nat -> R], g \in [Nat -> R]
    <2> QED
        BY ONLY <2>2, <2>3
<1>9. GoesDown(Nat, R, depth, step)
    BY <1>5, <1>6, <1>7, <1>8 DEF GoesDown
<1>10. PICK f : Recurs(f, Nat, R, step)
    BY <1>9, Recursion
<1>11. f \in [Nat -> R] /\ \A n \in Nat : f[n] = Step(n, f)
    BY <1>5, <1>10 DEF Recurs
<1>12. f = [n \in Nat |-> Step(n, f)]
    BY <1>11
<1> HIDE DEF Step
<1>13. Digits = [n \in Nat |-> Step(n, Digits)]
    BY <1>12 DEF Digits, Step
<1>14. \A n \in Nat : Digits[n] = Step(n, Digits)
    BY <1>13
<1>15. \A n \in Nat : Digits[n] \in R
    <2> DEFINE N == {n \in Nat : \A k \in Nat : k <= n => Digits[k] \in R}
    <2>1. ASSUME NEW k \in Nat, ~(k < 10) => Digits[k \div 10] \in R PROVE Digits[k] \in R
        <3>1. CASE k < 10
            BY <1>1, <1>14, <3>1 DEF Step
        <3>2. CASE ~(k < 10)
            <4>1. Digits[k] = Digits[k \div 10] \o <<Digit[(k % 10) + 1]>>
                BY <1>14, <3>2 DEF Step
            <4>2. Digits[k \div 10] \in R /\ <<Digit[(k % 10) + 1]>> \in R
                BY <1>3, <2>1, <3>2
            <4> QED
                BY <4>1, <4>2, ConcatProperties DEF R
        <3> QED
            BY <3>1, <3>2
    <2>2. 0 \in N
        <3>1. \A k \in Nat : k <= 0 => k < 10
            OBVIOUS
        <3> QED
            BY <2>1, <3>1
    <2>3. ASSUME NEW n \in Nat, n \in N PROVE n + 1 \in N
        <3>1. ASSUME NEW k \in Nat, k <= n + 1 PROVE Digits[k] \in R
            <4>1. ~(k < 10) => k \div 10 \in Nat /\ k \div 10 <= n
                BY <3>1
            <4>2. ~(k < 10) => Digits[k \div 10] \in R
                BY <2>3, <4>1
            <4> QED
                BY <2>1, <4>2
        <3>2. n + 1 \in Nat
            OBVIOUS
        <3> QED
            BY <3>1, <3>2
    <2> HIDE DEF N
    <2>4. \A n \in Nat : n \in N
        BY <2>2, <2>3, EveryNumber
    <2> QED
        BY <2>4 DEF N
<1> QED
    BY <1>14, <1>15 DEF R, Step, Cat

(* A number below ten has one digit, and any other has more. *)
LEMMA DigitsLength ==
    ASSUME NEW n \in Nat
    PROVE  /\ Len(Digits[n]) \in Nat
           /\ n < 10 => Len(Digits[n]) = 1
           /\ ~(n < 10) => Len(Digits[n]) > 1
<1> DEFINE Long == {k \in Nat : \A m \in Nat : m <= k => Len(Digits[m]) \in Nat /\ Len(Digits[m]) > 0}
<1>1. \A m \in Nat : m < 10 => Len(Digits[m]) = 1
    <2> TAKE m \in Nat
    <2> HAVE m < 10
    <2>1. Digits[m] = <<Digit[m + 1]>>
        BY DigitsAre
    <2> QED
        BY <2>1
<1>2. \A m \in Nat : m % 10 \in 0..9 /\ m \div 10 \in Nat /\ (~(m < 10) => m \div 10 < m)
    OBVIOUS
<1>3. \A m \in Nat : ~(m < 10) => Len(Digits[m]) = Len(Digits[m \div 10]) + 1
    <2> TAKE m \in Nat
    <2> HAVE ~(m < 10)
    <2> DEFINE x == Digits[m \div 10]
               a == Digit[(m % 10) + 1]
    <2>1. Digits[m] = Cat(x, <<a>>)
        BY DigitsAre
    <2>2. x \in Seq(DigitMarks) /\ a \in DigitMarks
        BY <1>2, DigitsAre, DigitIs
    <2> HIDE DEF x, a
    <2>3. Len(Cat(x, <<a>>)) = Len(x) + 1
        BY <2>2, CatOne
    <2> QED
        BY <2>1, <2>3 DEF x
<1>4. 0 \in Long
    BY <1>1
<1>5. ASSUME NEW k \in Nat, k \in Long PROVE k + 1 \in Long
    <2>1. ASSUME NEW m \in Nat, m <= k + 1 PROVE Len(Digits[m]) \in Nat /\ Len(Digits[m]) > 0
        <3>1. CASE m < 10
            <4>1. Len(Digits[m]) = 1
                BY <1>1, <3>1
            <4> QED
                BY ONLY <4>1
        <3>2. CASE ~(m < 10)
            <4> DEFINE j == m \div 10
            <4>1. j \in Nat /\ j <= k
                BY <1>2, <2>1, <3>2
            <4> HIDE DEF j
            <4>2. Len(Digits[j]) \in Nat /\ Len(Digits[j]) > 0
                BY <1>5, <4>1
            <4> QED
                BY <1>3, <3>2, <4>2 DEF j
        <3> QED
            BY <3>1, <3>2
    <2> QED
        BY <2>1
<1> HIDE DEF Long
<1>6. \A k \in Nat : k \in Long
    BY <1>4, <1>5, EveryNumber
<1>7. \A k \in Nat : Len(Digits[k]) \in Nat /\ Len(Digits[k]) > 0
    BY <1>6 DEF Long
<1>8. n \div 10 \in Nat
    BY <1>2
<1> QED
    BY <1>1, <1>3, <1>7, <1>8

(* No two numbers are written alike. *)
LEMMA DigitsDiffer ==
    \A m, n \in Nat : Digits[m] = Digits[n] => m = n
<1> DEFINE N == {k \in Nat : \A m, n \in Nat : m < k /\ Digits[m] = Digits[n] => m = n}
<1>1. 0 \in N
    OBVIOUS
<1>2. ASSUME NEW k \in Nat, k \in N PROVE k + 1 \in N
    <2>1. ASSUME NEW m \in Nat, NEW n \in Nat, m < k + 1, Digits[m] = Digits[n] PROVE m = n
        <3> DEFINE v == Len(Digits[m])
                   w == Len(Digits[n])
        <3>3. v = w
            BY <2>1, Zenon
        <3>4. /\ v \in Nat /\ w \in Nat
              /\ n < 10 => w = 1
              /\ ~(n < 10) => w > 1
            BY DigitsLength
        <3>5. /\ m < 10 => v = 1
              /\ ~(m < 10) => v > 1
            BY DigitsLength
        <3> HIDE DEF v, w
        <3>1. CASE m < 10
            <4>1. n < 10
                BY <3>3, <3>4, <3>5, <3>1
            <4>2. Digits[m] = <<Digit[m + 1]>> /\ Digits[n] = <<Digit[n + 1]>>
                BY <3>1, <4>1, DigitsAre
            <4>3. Digit[m + 1] = Digit[n + 1]
                <5>1. <<Digit[m + 1]>> = <<Digit[n + 1]>>
                    BY <2>1, <4>2, Zenon
                <5>2. \A i, j : <<i>> = <<j>> => i = j
                    OBVIOUS
                <5> QED
                    BY <5>1, <5>2, Zenon
            <4>4. m \in 0..9 /\ n \in 0..9
                BY <3>1, <4>1
            <4> QED
                BY <4>3, <4>4, DigitIs
        <3>2. CASE ~(m < 10)
            <4>1. ~(n < 10)
                BY <3>3, <3>4, <3>5, <3>2
            <4> DEFINE i == m \div 10
                       j == n \div 10
                       a == m % 10
                       b == n % 10
            <4>2. i \in Nat /\ j \in Nat /\ a \in 0..9 /\ b \in 0..9 /\ i < m
                BY <3>2
            <4>3. Digits[m] = Cat(Digits[i], <<Digit[a + 1]>>) /\ Digits[n]
                      = Cat(Digits[j], <<Digit[b + 1]>>)
                BY <3>2, <4>1, DigitsAre
            <4>4. i = j /\ a = b => m = n
                OBVIOUS
            <4> HIDE DEF i, j, a, b
            <4>5. Digits[i] \in Seq(DigitMarks) /\ Digits[j] \in Seq(DigitMarks)
                  /\ Digit[a + 1] \in DigitMarks /\ Digit[b + 1] \in DigitMarks
                BY <4>2, DigitsAre, DigitIs
            <4>6. Digits[i] = Digits[j] /\ Digit[a + 1] = Digit[b + 1]
                <5> DEFINE x == Digits[i]
                           y == Digits[j]
                           p == Digit[a + 1]
                           q == Digit[b + 1]
                <5>1. Cat(x, <<p>>) = Cat(y, <<q>>)
                    BY <2>1, <4>3, Zenon
                <5>2. x \in Seq(DigitMarks) /\ y \in Seq(DigitMarks) /\ p \in DigitMarks
                          /\ q \in DigitMarks
                    BY <4>5
                <5> HIDE DEF x, y, p, q
                <5>3. x = y /\ p = q
                    BY ONLY <5>1, <5>2, CatLast
                <5> QED
                    BY <5>3 DEF x, y, p, q
            <4>7. i < k
                BY <2>1, <4>2
            <4>8. i = j
                BY <1>2, <4>2, <4>6, <4>7
            <4>9. a = b
                BY <4>2, <4>6, DigitIs
            <4> QED
                BY <4>4, <4>8, <4>9
        <3> QED
            BY <3>1, <3>2
    <2> QED
        BY <2>1
<1> HIDE DEF N
<1>3. \A k \in Nat : k \in N
    BY <1>1, <1>2, EveryNumber
<1>4. \A m \in Nat : m + 1 \in N /\ m < m + 1
    BY <1>3
<1> QED
    BY <1>4 DEF N

(* A number goes on with digits only, and no tail begins with one. *)
LEMMA DigitsWords ==
    ASSUME NEW n \in Nat
    PROVE  /\ Digits[n] \in Seq(Letters) /\ Digits[n] # <<>> /\ Digits[n][1] \in DigitMarks
<1>1. Digits[n] \in Seq(DigitMarks) /\ Len(Digits[n]) > 0 /\ Len(Digits[n]) \in Nat
    <2>1. Digits[n] \in Seq(DigitMarks)
        BY DigitsAre
    <2>2. Len(Digits[n]) > 0 /\ Len(Digits[n]) \in Nat
        <3>1. Len(Digits[n]) = 1 \/ Len(Digits[n]) > 1
            BY DigitsLength
        <3>2. Len(Digits[n]) \in Nat
            BY DigitsLength
        <3> QED
            BY <3>1, <3>2
    <2> QED
        BY <2>1, <2>2
<1>2. DigitMarks \subseteq Letters
    BY LettersAre DEF DigitMarks
<1> QED
    BY <1>1, <1>2

(* The digits of a number are told from those of any other, whatever follows. *)
LEMMA DigitsTold == Told({Digits[n] : n \in Nat}, Tails)
<1> DEFINE W == {Digits[n] : n \in Nat}
<1>1. W \in SUBSET Seq(Letters) /\ Tails \in SUBSET Seq(Letters)
    BY DigitsWords, EndsAre
<1>2. ASSUME NEW m \in Nat, NEW n \in Nat, Begins(Digits[m], Digits[n])
      PROVE  Digits[m] = Digits[n] \/ GoesOnElse(Digits[m], Digits[n], Tails)
    <2> DEFINE w == Digits[m]
               x == Digits[n]
    <2>1. w \in Seq(DigitMarks) /\ x \in Seq(DigitMarks)
        BY DigitsAre
    <2> HIDE DEF w, x
    <2>2. Len(w) <= Len(x) /\ \A i \in 1..Len(w) : w[i] = x[i]
        BY <1>2 DEF Begins, w, x
    <2>3. CASE Len(w) = Len(x)
        <3>1. w = x
            BY <2>1, <2>2, <2>3, SeqEqual
        <3> QED
            BY <3>1 DEF w, x
    <2>4. CASE Len(w) # Len(x)
        <3>1. Len(w) < Len(x) /\ Len(w) + 1 \in 1..Len(x)
            BY <2>1, <2>2, <2>4
        <3>2. x[Len(w) + 1] \in DigitMarks
            BY <2>1, <3>1
        <3>3. \A t \in Tails : t # <<>> => t[1] # x[Len(w) + 1]
            BY <3>2 DEF Tails, EndMarks, DigitMarks
        <3> QED
            BY <3>1, <3>3 DEF GoesOnElse, w, x
    <2> QED
        BY <2>3, <2>4
<1>3. \A w, x \in W : Begins(w, x) => w = x \/ GoesOnElse(w, x, Tails)
    BY <1>2
<1> HIDE DEF W
<1> QED
    BY <1>1, <1>3, ToldIf DEF W

-----------------------------------------------------------------------------
(* The order of the names. *)
LEMMA BeforeNotItself ==
    ASSUME NEW a \in Seq(Nat)
    PROVE  ~Before(a, a)
<1>1. \A i \in DOMAIN a : ~(a[i] < a[i])
    OBVIOUS
<1> QED
    BY <1>1 DEF Before

(* Before is an order: what is before the second is before the third ... *)
LEMMA BeforeTransitive ==
    ASSUME NEW a \in Seq(Nat), NEW b \in Seq(Nat), NEW c \in Seq(Nat), Before(a, b), Before(b, c)
    PROVE  Before(a, c)
<1>1. PICK i \in DOMAIN b : (\A j \in 1..(i - 1) : j \in DOMAIN a /\ a[j] = b[j])
          /\ (i \in DOMAIN a => a[i] < b[i])
    BY DEF Before
<1>2. PICK k \in DOMAIN c : (\A j \in 1..(k - 1) : j \in DOMAIN b /\ b[j] = c[j])
          /\ (k \in DOMAIN b => b[k] < c[k])
    BY DEF Before
<1>3. /\ DOMAIN a = 1..Len(a) /\ DOMAIN b = 1..Len(b) /\ DOMAIN c = 1..Len(c)
      /\ Len(a) \in Nat /\ Len(b) \in Nat /\ Len(c) \in Nat
    OBVIOUS
<1>4. /\ \A j \in DOMAIN a : a[j] \in Nat
      /\ \A j \in DOMAIN b : b[j] \in Nat
      /\ \A j \in DOMAIN c : c[j] \in Nat
    OBVIOUS
<1>5. i \in Nat /\ k \in Nat
    BY <1>3
<1>6. CASE i < k
    <2>1. i \in 1..(k - 1) /\ i \in DOMAIN c
        BY <1>3, <1>6
    <2>2. \A j \in 1..(i - 1) : j \in DOMAIN a /\ a[j] = c[j]
        BY <1>1, <1>2, <1>5, <1>6
    <2>3. i \in DOMAIN a => a[i] < c[i]
        BY <1>1, <1>2, <2>1
    <2> QED
        BY <2>1, <2>2, <2>3 DEF Before
<1>7. CASE i = k
    <2>1. \A j \in 1..(k - 1) : j \in DOMAIN a /\ a[j] = c[j]
        BY <1>1, <1>2, <1>7
    <2>2. k \in DOMAIN a => a[k] < c[k]
        <3>1. k \in DOMAIN b
            BY <1>7
        <3> QED
            BY <1>1, <1>2, <1>4, <1>7, <3>1
    <2> QED
        BY <2>1, <2>2 DEF Before
<1>8. CASE k < i
    <2>1. k \in 1..(i - 1) /\ k \in DOMAIN b
        BY <1>3, <1>8
    <2>2. \A j \in 1..(k - 1) : j \in DOMAIN a /\ a[j] = c[j]
        <3> TAKE j \in 1..(k - 1)
        <3>1. j \in 1..(i - 1)
            BY <1>5, <1>8
        <3>2. j \in DOMAIN a /\ a[j] = b[j]
            BY <1>1, <3>1
        <3>3. b[j] = c[j]
            BY <1>2
        <3> QED
            BY <3>2, <3>3
    <2>3. k \in DOMAIN a => a[k] < c[k]
        BY <1>1, <1>2, <2>1
    <2> QED
        BY <2>2, <2>3 DEF Before
<1> QED
    BY <1>5, <1>6, <1>7, <1>8

(* ... and of two tuples that differ, one is before the other. *)
LEMMA BeforeTotal ==
    ASSUME NEW a \in Seq(Nat), NEW b \in Seq(Nat), a # b
    PROVE  Before(a, b) \/ Before(b, a)
<1> SUFFICES ASSUME ~Before(a, b), ~Before(b, a) PROVE FALSE
    OBVIOUS
<1> DEFINE T == {k \in Nat : k <= Len(a) /\ k <= Len(b) => \A j \in 1..k : a[j] = b[j]}
<1>1. /\ DOMAIN a = 1..Len(a) /\ DOMAIN b = 1..Len(b)
      /\ Len(a) \in Nat /\ Len(b) \in Nat
    OBVIOUS
<1>2. 0 \in T
    OBVIOUS
<1>3. ASSUME NEW k \in Nat, k \in T PROVE k + 1 \in T
    <2>1. ASSUME k + 1 <= Len(a), k + 1 <= Len(b) PROVE \A j \in 1..(k + 1) : a[j] = b[j]
        <3> DEFINE i == k + 1
        <3>1. i \in DOMAIN a /\ i \in DOMAIN b /\ i - 1 = k /\ a[i] \in Nat /\ b[i] \in Nat
            BY <1>1, <2>1
        <3>2. \A j \in 1..k : a[j] = b[j]
            BY <1>3, <2>1
        <3>3. \A j \in 1..k : j \in DOMAIN a /\ j \in DOMAIN b
            BY <1>1, <2>1
        <3>4. \A j \in 1..(k + 1) : j \in 1..k \/ j = i
            OBVIOUS
        <3> HIDE DEF i
        <3>5. ~(a[i] < b[i])
            BY <3>1, <3>2, <3>3 DEF Before
        <3>6. ~(b[i] < a[i])
            BY <3>1, <3>2, <3>3 DEF Before
        <3>7. a[i] = b[i]
            BY <3>1, <3>5, <3>6
        <3> QED
            BY <3>2, <3>4, <3>7
    <2>2. k + 1 \in Nat
        OBVIOUS
    <2> QED
        BY <2>1, <2>2
<1> HIDE DEF T
<1>4. \A k \in Nat : k \in T
    BY <1>2, <1>3, EveryNumber
<1>5. ~(Len(a) < Len(b))
    <2> SUFFICES ASSUME Len(a) < Len(b) PROVE FALSE
        OBVIOUS
    <2> DEFINE i == Len(a) + 1
    <2>1. i \in DOMAIN b /\ i \notin DOMAIN a /\ i - 1 = Len(a)
        BY <1>1
    <2>2. \A j \in 1..Len(a) : j \in DOMAIN a /\ a[j] = b[j]
        BY <1>1, <1>4 DEF T
    <2> HIDE DEF i
    <2> QED
        BY <2>1, <2>2 DEF Before
<1>6. ~(Len(b) < Len(a))
    <2> SUFFICES ASSUME Len(b) < Len(a) PROVE FALSE
        OBVIOUS
    <2> DEFINE i == Len(b) + 1
    <2>1. i \in DOMAIN a /\ i \notin DOMAIN b /\ i - 1 = Len(b)
        BY <1>1
    <2>2. \A j \in 1..Len(b) : j \in DOMAIN b /\ b[j] = a[j]
        BY <1>1, <1>4 DEF T
    <2> HIDE DEF i
    <2> QED
        BY <2>1, <2>2 DEF Before
<1>7. Len(a) = Len(b)
    <2> DEFINE k == Len(a)
               l == Len(b)
    <2>1. k \in Nat /\ l \in Nat /\ ~(k < l) /\ ~(l < k)
        BY <1>1, <1>5, <1>6
    <2> HIDE DEF k, l
    <2>2. k = l
        BY <2>1
    <2> QED
        BY <2>2 DEF k, l
<1>8. \A j \in 1..Len(a) : a[j] = b[j]
    BY <1>1, <1>4, <1>7 DEF T
<1> QED
    BY <1>7, <1>8, SeqEqual

-----------------------------------------------------------------------------
(* Putting names in order. *)
LEMMA OneEach ==
    ASSUME NEW n \in Nat, NEW f \in [1..n -> 1..n], \A i, j \in 1..n : f[i] = f[j] => i = j
    PROVE  \A k \in 1..n : \E i \in 1..n : f[i] = k
<1> SUFFICES ASSUME NEW k \in 1..n, \A i \in 1..n : f[i] # k PROVE FALSE
    OBVIOUS
<1> DEFINE S == 1..n
           T == S \ {k}
<1>1. IsFiniteSet(S)
    BY FS_Interval
<1>2. IsFiniteSet(T) /\ Cardinality(T) = Cardinality(S) - 1 /\ Cardinality(S) \in Nat
    BY <1>1, FS_RemoveElement, FS_CardinalityType
<1>3. f \in [S -> T]
    OBVIOUS
<1>4. Cardinality(T) < Cardinality(S)
    BY <1>2
<1>5. \A i, j \in S : f[i] = f[j] => i = j
    OBVIOUS
<1> HIDE DEF S, T
<1>6. \E x, y \in S : x # y /\ f[x] = f[y]
    BY <1>1, <1>2, <1>3, <1>4, FS_PigeonHole
<1> QED
    BY <1>5, <1>6

Increasing(key, n) == \A i, j \in 1..n : i < j => Before(key[i], key[j])

(* There is an order: the place of a key is after those of all that are before it. *)
LEMMA OrderExists ==
    ASSUME NEW n \in Nat, NEW key \in [1..n -> Seq(Nat)], \A i, j \in 1..n : key[i] = key[j] => i
        = j
    PROVE  \E place \in [1..n -> 1..n] : Increasing([i \in 1..n |-> key[place[i]]], n)
<1> DEFINE S == 1..n
           below(i) == {j \in S : Before(key[j], key[i])}
           rank == [i \in S |-> Cardinality(below(i)) + 1]
<1>1. IsFiniteSet(S) /\ Cardinality(S) = n
    BY FS_Interval
<1>2. \A i \in S : key[i] \in Seq(Nat)
    OBVIOUS
<1>3. \A i \in S : i \notin below(i) /\ below(i) \subseteq S \ {i}
    BY <1>2, BeforeNotItself
<1>4. \A i \in S : IsFiniteSet(below(i)) /\ Cardinality(below(i)) \in Nat
          /\ Cardinality(below(i)) + 1 <= n
    <2> TAKE i \in S
    <2>1. IsFiniteSet(S \ {i}) /\ Cardinality(S \ {i}) = n - 1
        <3> HIDE DEF S
        <3> QED
            BY <1>1, FS_RemoveElement
    <2> DEFINE B == below(i)
    <2>2. B \in SUBSET (S \ {i})
        BY <1>3
    <2> HIDE DEF S, B
    <2>3. IsFiniteSet(B) /\ Cardinality(B) <= Cardinality(S \ {i})
        BY <2>1, <2>2, FS_Subset
    <2>4. Cardinality(B) \in Nat
        BY <2>3, FS_CardinalityType
    <2>5. Cardinality(B) + 1 <= n
        BY <2>1, <2>3, <2>4
    <2> QED
        BY <2>3, <2>4, <2>5 DEF B
<1>5. \A i \in S : rank[i] \in S
    <2> TAKE i \in S
    <2> DEFINE c == Cardinality(below(i))
    <2>1. c \in Nat /\ c + 1 <= n /\ rank[i] = c + 1
        BY <1>4
    <2> HIDE DEF c, rank
    <2> QED
        BY <2>1
<1>6. ASSUME NEW i \in S, NEW j \in S, Before(key[i], key[j]) PROVE rank[i] < rank[j]
    <2> DEFINE B == below(i)
               C == below(j)
    <2>1. i \in C /\ i \notin B
        BY <1>3, <1>6
    <2>2. B \subseteq C
        <3> SUFFICES ASSUME NEW k \in S, Before(key[k], key[i]) PROVE Before(key[k], key[j])
            OBVIOUS
        <3>1. key[k] \in Seq(Nat) /\ key[i] \in Seq(Nat) /\ key[j] \in Seq(Nat)
            BY <1>2
        <3> QED
            BY <1>6, <3>1, BeforeTransitive
    <2>3. IsFiniteSet(C) /\ Cardinality(C) \in Nat /\ Cardinality(B) \in Nat
        BY <1>4
    <2>4. rank[i] = Cardinality(B) + 1 /\ rank[j] = Cardinality(C) + 1
        OBVIOUS
    <2> HIDE DEF B, C, rank
    <2>5. Cardinality(B) <= Cardinality(C) /\ Cardinality(B) # Cardinality(C)
        BY <2>1, <2>2, <2>3, FS_Subset
    <2> QED
        BY <2>3, <2>4, <2>5
<1>7. rank \in [S -> S]
    BY <1>5
<1>8. \A i \in S : rank[i] \in Nat
    BY <1>5
<1> HIDE DEF rank
<1>9. ASSUME NEW i \in S, NEW j \in S, rank[i] = rank[j] PROVE i = j
    <2> SUFFICES ASSUME i # j PROVE FALSE
        OBVIOUS
    <2>1. key[i] # key[j]
        OBVIOUS
    <2>2. Before(key[i], key[j]) \/ Before(key[j], key[i])
        BY <1>2, <2>1, BeforeTotal
    <2> QED
        BY <1>6, <1>8, <1>9, <2>2
<1>10. \A k \in S : \E i \in S : rank[i] = k
    BY <1>7, <1>9, OneEach
<1> DEFINE place == [k \in S |-> CHOOSE i \in S : rank[i] = k]
<1>11. \A k \in S : place[k] \in S /\ rank[place[k]] = k
    BY <1>10
<1>12. place \in [S -> S]
    BY <1>11
<1> HIDE DEF place
<1>13. ASSUME NEW k \in S, NEW l \in S, k < l PROVE Before(key[place[k]], key[place[l]])
    <2> DEFINE x == place[k]
               y == place[l]
    <2>1. x \in S /\ y \in S /\ rank[x] = k /\ rank[y] = l
        BY <1>11
    <2> HIDE DEF x, y
    <2>2. k \in Nat /\ l \in Nat
        OBVIOUS
    <2>3. x # y
        BY <1>13, <2>1, <2>2
    <2>4. key[x] # key[y] /\ key[x] \in Seq(Nat) /\ key[y] \in Seq(Nat)
        BY <1>2, <2>1, <2>3
    <2>5. ~Before(key[y], key[x])
        BY <1>6, <1>13, <2>1, <2>2
    <2> QED
        BY <2>4, <2>5, BeforeTotal DEF x, y
<1>14. Increasing([i \in S |-> key[place[i]]], n)
    BY <1>13 DEF Increasing
<1> QED
    BY <1>12, <1>14

(* Each key of the one is a key of the other. *)
Among(p, n, q, l) == \A i \in 1..n : \E j \in 1..l : p[i] = q[j]

(* And only one: two orders of the same keys are the same. *)
LEMMA SameOrder ==
    ASSUME NEW n \in Nat, NEW l \in Nat, NEW p \in [1..n -> Seq(Nat)], NEW q \in [1..l -> Seq(Nat)],
           Increasing(p, n), Increasing(q, l), Among(p, n, q, l), Among(q, l, p, n)
    PROVE  n = l /\ \A i \in 1..n : p[i] = q[i]
<1> DEFINE T == {k \in Nat : k <= n /\ k <= l => \A i \in 1..k : p[i] = q[i]}
<1>1. 0 \in T
    OBVIOUS
<1>2. \A i \in 1..n : p[i] \in Seq(Nat)
    OBVIOUS
<1>3. \A i \in 1..l : q[i] \in Seq(Nat)
    OBVIOUS
<1>4. ASSUME NEW i \in 1..n, NEW j \in 1..n, p[i] = p[j] PROVE i = j
    <2>1. ~(i < j) /\ ~(j < i)
        BY <1>2, <1>4, BeforeNotItself DEF Increasing
    <2> QED
        BY <2>1
<1>5. ASSUME NEW i \in 1..l, NEW j \in 1..l, q[i] = q[j] PROVE i = j
    <2>1. ~(i < j) /\ ~(j < i)
        BY <1>3, <1>5, BeforeNotItself DEF Increasing
    <2> QED
        BY <2>1
<1>6. ASSUME NEW k \in Nat, k \in T PROVE k + 1 \in T
    <2>1. ASSUME k + 1 <= n, k + 1 <= l PROVE \A i \in 1..(k + 1) : p[i] = q[i]
        <3> DEFINE i == k + 1
        <3>1. i \in 1..n /\ i \in 1..l /\ \A j \in 1..(k + 1) : j \in 1..k \/ j = i
            BY <2>1
        <3>2. \A j \in 1..k : p[j] = q[j] /\ j \in 1..n /\ j \in 1..l /\ j # i
            BY <1>6, <2>1
        <3>3. \A j \in Int : j >= 1 => j \in 1..k \/ j = i \/ i < j
            OBVIOUS
        <3> HIDE DEF i
        <3>4. PICK j \in 1..l : p[i] = q[j]
            BY <3>1 DEF Among
        <3>5. PICK h \in 1..n : p[h] = q[i]
            BY <3>1 DEF Among
        <3>6. j \notin 1..k
            BY <1>4, <3>1, <3>2, <3>4
        <3>7. h \notin 1..k
            BY <1>5, <3>1, <3>2, <3>5
        <3>8. ASSUME i < j, i < h PROVE FALSE
            <4>1. Before(q[i], q[j]) /\ Before(p[i], p[h])
                BY <3>1, <3>8 DEF Increasing
            <4>2. Before(q[i], p[i]) /\ Before(p[i], q[i])
                BY <3>4, <3>5, <4>1
            <4>3. p[i] \in Seq(Nat) /\ q[i] \in Seq(Nat)
                BY <1>2, <1>3, <3>1
            <4> QED
                BY <4>2, <4>3, BeforeTransitive, BeforeNotItself
        <3>9. p[i] = q[i]
            <4>1. j = i \/ i < j
                BY <3>3, <3>6
            <4>2. h = i \/ i < h
                BY <3>3, <3>7
            <4> QED
                BY <3>4, <3>5, <3>8, <4>1, <4>2
        <3> QED
            BY <3>1, <3>2, <3>9
    <2>2. k + 1 \in Nat
        OBVIOUS
    <2> QED
        BY <2>1, <2>2
<1> HIDE DEF T
<1>7. \A k \in Nat : k \in T
    BY <1>1, <1>6, EveryNumber
<1>8. /\ n <= l => \A i \in 1..n : p[i] = q[i]
      /\ l <= n => \A i \in 1..l : p[i] = q[i]
    <2>1. n \in T /\ l \in T
        BY <1>7
    <2>2. n <= n /\ l <= l
        OBVIOUS
    <2>3. n <= l => \A i \in 1..n : p[i] = q[i]
        BY <2>1, <2>2 DEF T
    <2>4. l <= n => \A i \in 1..l : p[i] = q[i]
        BY <2>1, <2>2 DEF T
    <2> QED
        BY <2>3, <2>4
<1>9. ASSUME n < l PROVE FALSE
    <2> DEFINE i == n + 1
    <2>1. i \in 1..l /\ \A j \in 1..n : j \in 1..l /\ j # i
        BY <1>9
    <2>2. \A j \in 1..n : p[j] = q[j]
        <3>1. n <= l
            BY <1>9
        <3> QED
            BY <1>8, <3>1
    <2> HIDE DEF i
    <2>3. PICK j \in 1..n : p[j] = q[i]
        BY <2>1 DEF Among
    <2> QED
        BY <1>5, <2>1, <2>2, <2>3
<1>10. ASSUME l < n PROVE FALSE
    <2> DEFINE i == l + 1
    <2>1. i \in 1..n /\ \A j \in 1..l : j \in 1..n /\ j # i
        BY <1>10
    <2>2. \A j \in 1..l : p[j] = q[j]
        <3>1. l <= n
            BY <1>10
        <3> QED
            BY <1>8, <3>1
    <2> HIDE DEF i
    <2>3. PICK j \in 1..l : p[i] = q[j]
        BY <2>1 DEF Among
    <2> QED
        BY <1>4, <2>1, <2>2, <2>3
<1>11. n = l
    BY <1>9, <1>10
<1>12. n <= l
    BY <1>11
<1> QED
    BY <1>8, <1>11, <1>12

-----------------------------------------------------------------------------
(* The members of an object in the order of their names. *)
Pairs == [name : Seq(Chars), value : Values]
Named(m) == m \in Seq(Pairs) /\ \A i, j \in DOMAIN m : m[i].name = m[j].name => i = j

(* A pair has a name and a value. *)
LEMMA PairIs == \A pair \in Pairs : pair.name \in Seq(Chars) /\ pair.value \in Values
BY DEF Pairs

(* A mapping is a sequence of pairs. *)
LEMMA NamedIs ==
    ASSUME NEW m, Named(m)
    PROVE  /\ m \in Seq(Pairs) /\ Len(m) \in Nat /\ DOMAIN m = 1..Len(m)
           /\ \A i \in 1..Len(m) : m[i] \in Pairs
BY DEF Named

(* The key by which a name is sorted is a tuple of numbers. *)
LEMMA KeyType ==
    ASSUME NEW a \in Seq(Chars)
    PROVE  _member_sort_key(a) \in Seq(Nat)
<1> DEFINE p == [i \in DOMAIN a |-> Units[a[i]]]
<1>1. p \in Seq(Seq(Nat))
    BY UnitsSeq
<1> HIDE DEF p
<1>2. FlattenSeq(p) \in Seq(Nat)
    BY <1>1, FlattenedType
<1> QED
    BY <1>2 DEF _member_sort_key, p

(* Sorted has the members of the mapping, all of them and no other, with the keys
   of their names increasing. *)
LEMMA SortedIs ==
    ASSUME NEW m, Named(m)
    PROVE  /\ Sorted(m) \in Seq(Pairs) /\ Len(Sorted(m)) = Len(m)
           /\ \A i \in 1..Len(m) : \E j \in 1..Len(m) : Sorted(m)[i] = m[j]
           /\ \A j \in 1..Len(m) : \E i \in 1..Len(m) : Sorted(m)[i] = m[j]
           /\ Increasing([i \in 1..Len(m) |-> _member_sort_key(Sorted(m)[i].name)], Len(m))
<1> DEFINE n == Len(m)
           key == [i \in 1..n |-> _member_sort_key(m[i].name)]
<1>1. n \in Nat /\ DOMAIN m = 1..n /\ m \in Seq(Pairs) /\ \A i \in 1..n : m[i] \in Pairs
          /\ m[i].name \in Seq(Chars)
    BY NamedIs, PairIs
<1> HIDE DEF n
<1>2. \A i \in 1..n : key[i] \in Seq(Nat) /\ key[i] = _member_sort_key(m[i].name)
    BY <1>1, KeyType
<1>3. \A i, j \in 1..n : key[i] = key[j] => i = j
    <2> SUFFICES ASSUME NEW i \in 1..n, NEW j \in 1..n, key[i] = key[j] PROVE i = j
        OBVIOUS
    <2>1. m[i].name = m[j].name
        BY <1>1, <1>2, KeyTells
    <2> QED
        BY <1>1, <2>1 DEF Named
<1>4. key \in [1..n -> Seq(Nat)]
    BY <1>2
<1> HIDE DEF key
<1>5. PICK some \in [1..n -> 1..n] : Increasing([i \in 1..n |-> key[some[i]]], n)
    BY <1>1, <1>3, <1>4, OrderExists
<1>6. \A place \in [1..n -> 1..n] : InOrder(m, place) <=> \A i, j \in 1..n : i < j
          => Before(key[place[i]], key[place[j]])
    <2> TAKE place \in [1..n -> 1..n]
    <2>1. \A i \in 1..n : key[place[i]] = _member_sort_key(m[place[i]].name)
        BY <1>2
    <2> QED
        BY <1>1, <2>1 DEF InOrder
<1>7. InOrder(m, some)
    BY <1>5, <1>6 DEF Increasing
<1> DEFINE place == CHOOSE place \in [DOMAIN m -> DOMAIN m] : InOrder(m, place)
<1>8. place \in [1..n -> 1..n] /\ InOrder(m, place)
    BY <1>1, <1>7
<1>9. Sorted(m) = [i \in 1..n |-> m[place[i]]]
    BY <1>1 DEF Sorted
<1> HIDE DEF place
<1>10. \A i \in 1..n : place[i] \in 1..n /\ Sorted(m)[i] = m[place[i]]
    BY <1>8, <1>9
<1>11. \A i, j \in 1..n : i < j => Before(key[place[i]], key[place[j]])
    BY <1>6, <1>8
<1>12. \A i, j \in 1..n : place[i] = place[j] => i = j
    <2> SUFFICES ASSUME NEW i \in 1..n, NEW j \in 1..n, place[i] = place[j] PROVE i = j
        OBVIOUS
    <2>1. key[place[i]] \in Seq(Nat)
        BY <1>2, <1>10
    <2>2. ~(i < j) /\ ~(j < i)
        BY <1>11, <2>1, BeforeNotItself
    <2> QED
        BY <2>2
<1>13. \A j \in 1..n : \E i \in 1..n : place[i] = j
    BY <1>1, <1>8, <1>12, OneEach
<1>14. Sorted(m) \in Seq(Pairs) /\ Len(Sorted(m)) = n
    <2>1. Sorted(m) \in [1..n -> Pairs]
        BY <1>1, <1>9, <1>10
    <2> QED
        BY <1>1, <2>1
<1>15. Increasing([i \in 1..n |-> _member_sort_key(Sorted(m)[i].name)], n)
    <2>1. \A i \in 1..n : _member_sort_key(Sorted(m)[i].name) = key[place[i]]
        BY <1>2, <1>10
    <2> QED
        BY <1>11, <2>1 DEF Increasing
<1>16. \A i \in 1..n : \E j \in 1..n : Sorted(m)[i] = m[j]
    BY <1>10
<1>17. \A j \in 1..n : \E i \in 1..n : Sorted(m)[i] = m[j]
    BY <1>10, <1>13
<1> QED
    BY <1>14, <1>15, <1>16, <1>17 DEF n

(* Objects with the same names have them in the same order. *)
LEMMA SameNames ==
    ASSUME NEW m, NEW w, Named(m), Named(w)
    PROVE  MemberNames(m) = MemberNames(w) <=>
               /\ Len(m) = Len(w)
               /\ \A i \in 1..Len(m) : Sorted(m)[i].name = Sorted(w)[i].name
<1> DEFINE n == Len(m)
           l == Len(w)
           r == Sorted(m)
           s == Sorted(w)
           p == [i \in 1..n |-> _member_sort_key(r[i].name)]
           q == [i \in 1..l |-> _member_sort_key(s[i].name)]
<1>1. /\ n \in Nat /\ l \in Nat /\ DOMAIN m = 1..n /\ DOMAIN w = 1..l
      /\ r \in Seq(Pairs) /\ Len(r) = n /\ s \in Seq(Pairs) /\ Len(s) = l
    <2>1. n \in Nat /\ l \in Nat /\ DOMAIN m = 1..n /\ DOMAIN w = 1..l
        BY NamedIs
    <2>2. r \in Seq(Pairs) /\ Len(r) = n
        BY SortedIs
    <2>3. s \in Seq(Pairs) /\ Len(s) = l
        BY SortedIs
    <2> QED
        BY <2>1, <2>2, <2>3
<1>2. /\ \A i \in 1..n : \E j \in 1..n : r[i] = m[j]
      /\ \A j \in 1..n : \E i \in 1..n : r[i] = m[j]
    BY SortedIs
<1>3. /\ \A i \in 1..l : \E j \in 1..l : s[i] = w[j]
      /\ \A j \in 1..l : \E i \in 1..l : s[i] = w[j]
    BY SortedIs
<1>4. Increasing(p, n) /\ Increasing(q, l)
    BY SortedIs
<1> HIDE DEF n, l, r, s
<1>5. \A i \in 1..n : r[i].name \in Seq(Chars)
    <2>1. \A i \in 1..n : r[i] \in Pairs
        BY <1>1
    <2> QED
        BY <2>1, PairIs
<1>6. \A i \in 1..l : s[i].name \in Seq(Chars)
    <2>1. \A i \in 1..l : s[i] \in Pairs
        BY <1>1
    <2> QED
        BY <2>1, PairIs
<1>7. MemberNames(m) = {r[i].name : i \in 1..n}
    <2>1. MemberNames(m) = {m[i].name : i \in 1..n}
        BY <1>1 DEF MemberNames
    <2> DEFINE M == {m[i].name : i \in 1..n}
               R == {r[i].name : i \in 1..n}
    <2>2. R \subseteq M
        BY <1>2
    <2>3. M \subseteq R
        BY <1>2
    <2> HIDE DEF M, R
    <2> QED
        BY <2>1, <2>2, <2>3 DEF M, R
<1>8. MemberNames(w) = {s[i].name : i \in 1..l}
    <2>1. MemberNames(w) = {w[i].name : i \in 1..l}
        BY <1>1 DEF MemberNames
    <2> DEFINE M == {w[i].name : i \in 1..l}
               R == {s[i].name : i \in 1..l}
    <2>2. R \subseteq M
        BY <1>3
    <2>3. M \subseteq R
        BY <1>3
    <2> HIDE DEF M, R
    <2> QED
        BY <2>1, <2>2, <2>3 DEF M, R
<1>9. p \in [1..n -> Seq(Nat)] /\ q \in [1..l -> Seq(Nat)]
    BY <1>5, <1>6, KeyType
<1>10. /\ \A i \in 1..n : p[i] = _member_sort_key(r[i].name)
       /\ \A i \in 1..l : q[i] = _member_sort_key(s[i].name)
    OBVIOUS
<1> HIDE DEF p, q
<1>11. ASSUME MemberNames(m) = MemberNames(w) PROVE n = l /\ \A i \in 1..n : r[i].name = s[i].name
    <2>1. Among(p, n, q, l)
        <3> SUFFICES \A i \in 1..n : \E j \in 1..l : p[i] = q[j]
            BY DEF Among
        <3> TAKE i \in 1..n
        <3>1. r[i].name \in MemberNames(w)
            BY <1>7, <1>11
        <3>2. PICK j \in 1..l : r[i].name = s[j].name
            BY <1>8, <3>1
        <3> QED
            BY <1>10, <3>2
    <2>2. Among(q, l, p, n)
        <3> SUFFICES \A j \in 1..l : \E i \in 1..n : q[j] = p[i]
            BY DEF Among
        <3> TAKE j \in 1..l
        <3>1. s[j].name \in MemberNames(m)
            BY <1>8, <1>11
        <3>2. PICK i \in 1..n : r[i].name = s[j].name
            BY <1>7, <3>1
        <3> QED
            BY <1>10, <3>2
    <2>3. n = l /\ \A i \in 1..n : p[i] = q[i]
        <3>1. n \in Nat /\ l \in Nat
            BY <1>1
        <3> QED
            BY ONLY <1>4, <1>9, <2>1, <2>2, <3>1, SameOrder
    <2>4. \A i \in 1..n : r[i].name = s[i].name
        BY <1>5, <1>6, <1>10, <2>3, KeyTells
    <2> QED
        BY <2>3, <2>4
<1>12. ASSUME n = l, \A i \in 1..n : r[i].name = s[i].name PROVE MemberNames(m) = MemberNames(w)
    BY <1>7, <1>8, <1>12
<1> QED
    BY <1>11, <1>12 DEF n, l, r, s

-----------------------------------------------------------------------------
(* What is written for a value, and that it is a text. *)
LEMMA ValueIs ==
    ASSUME NEW v \in Values
    PROVE  /\ Depth[v] \in Nat
           /\ v.kind = "constant" => v.of \in {"null", "true", "false"}
           /\ v.kind = "integer" => v.of \in Int
           /\ v.kind = "string" => v.of \in Seq(Chars)
           /\ v.kind = "array" => v.of \in Seq(Values)
           /\ v.kind = "object" => Named(v.of)
           /\ \A part \in Parts(v) : Depth[part] < Depth[v]
BY CanonicalAssumption DEF Chars, Pairs, Named

(* An array is of values less deep than itself. *)
LEMMA ArrayIs ==
    ASSUME NEW v \in Values, v.kind = "array"
    PROVE  /\ v.of \in Seq(Values) /\ Len(v.of) \in Nat /\ DOMAIN v.of = 1..Len(v.of)
           /\ \A i \in 1..Len(v.of) : v.of[i] \in Values /\ Depth[v.of[i]] < Depth[v]
<1>1. v.of \in Seq(Values)
    BY ValueIs
<1>2. Parts(v) = Range(v.of)
    BY DEF Parts
<1>3. \A i \in DOMAIN v.of : v.of[i] \in Range(v.of)
    BY DEF Range
<1>4. \A i \in DOMAIN v.of : Depth[v.of[i]] < Depth[v]
    BY <1>2, <1>3, ValueIs
<1> QED
    BY <1>1, <1>4

(* An object is a mapping to values less deep than itself. *)
LEMMA ObjectIs ==
    ASSUME NEW v \in Values, v.kind = "object"
    PROVE  /\ Named(v.of) /\ Len(v.of) \in Nat /\ DOMAIN v.of = 1..Len(v.of)
           /\ \A i \in 1..Len(v.of) : v.of[i] \in Pairs /\ v.of[i].value \in Values
                                      /\ Depth[v.of[i].value] < Depth[v]
<1>1. Named(v.of)
    BY ValueIs
<1>2. Parts(v) = {v.of[i].value : i \in DOMAIN v.of}
    BY DEF Parts
<1>3. \A i \in DOMAIN v.of : v.of[i].value \in Parts(v)
    BY <1>2
<1>4. \A i \in DOMAIN v.of : Depth[v.of[i].value] < Depth[v]
    BY <1>3, ValueIs
<1>5. Len(v.of) \in Nat /\ DOMAIN v.of = 1..Len(v.of) /\ \A i \in 1..Len(v.of) : v.of[i] \in Pairs
    BY <1>1, NamedIs
<1> QED
    BY <1>1, <1>4, <1>5, PairIs

(* Serialized, kind by kind. *)
LEMMA SerializedIs ==
    ASSUME NEW v, NEW f
    PROVE  /\ v.kind = "constant" => Serialized(v, f) = <<v.of>>
           /\ v.kind = "integer" =>
                  Serialized(v, f) = IF v.of \in 0..MAX_SAFE_INTEGER THEN Digits[v.of] ELSE NoText
           /\ v.kind = "string" => Serialized(v, f) = _string(v.of)
           /\ v.kind = "object" => Serialized(v, f) = _object(v.of, f)
           /\ v.kind = "array" =>
                  Serialized(v, f) = Bracketed("left_bracket", [i \in DOMAIN v.of |-> f[v.of[i]]], "right_bracket")
           /\ v.kind \notin {"constant", "integer", "string", "object", "array"} => Serialized(v, f) = NoText
BY DEF Serialized

(* _string answers a text. *)
LEMMA StringType ==
    ASSUME NEW s \in Seq(Chars)
    PROVE  _string(s) \in Seq(Letters)
<1>1. NoText \in Seq(Letters)
    BY DEF NoText
<1> QED
    BY <1>1, StringText, StringFirst

(* A function on 1..n is a sequence. *)
LEMMA FunctionIsSeq ==
    ASSUME NEW n \in Nat, NEW S, NEW c \in [1..n -> S]
    PROVE  c \in Seq(S) /\ Len(c) = n
OBVIOUS

(* Bracketed answers a text. *)
LEMMA BracketedType ==
    ASSUME NEW ts \in Seq(Seq(Letters)), NEW open \in Letters, NEW close \in Letters
    PROVE  Bracketed(open, ts, close) \in Seq(Letters)
<1> DEFINE cs == [i \in DOMAIN ts |-> IF i = 1 THEN ts[i] ELSE <<"comma">> \o ts[i]]
           none == <<>>
<1>1. \A i \in DOMAIN ts : ts[i] \in Seq(Letters) /\ <<"comma">> \o ts[i] \in Seq(Letters)
    <2> TAKE i \in DOMAIN ts
    <2>1. ts[i] \in Seq(Letters)
        OBVIOUS
    <2> DEFINE m == <<"comma">>
    <2>2. m \in Seq(Letters)
        <3>1. "comma" \in Letters
            BY LettersAre
        <3> QED
            BY <3>1
    <2> HIDE DEF m
    <2>3. m \o ts[i] \in Seq(Letters)
        BY <2>1, <2>2, ConcatProperties
    <2> QED
        BY <2>1, <2>3 DEF m
<1>2. cs \in Seq(Seq(Letters))
    <2>1. DOMAIN ts = 1..Len(ts) /\ Len(ts) \in Nat
        OBVIOUS
    <2>2. cs \in [1..Len(ts) -> Seq(Letters)]
        BY <1>1, <2>1
    <2> HIDE DEF cs
    <2> QED
        BY ONLY <2>1, <2>2, FunctionIsSeq
<1>3. none \in Seq(Letters)
    OBVIOUS
<1> HIDE DEF cs, none
<1>4. <<open>> \o FlattenSeq(cs) \o <<close>> \in Seq(Letters)
    BY <1>2, <1>3, InMarks
<1>5. Bracketed(open, ts, close) = NoText \/ Bracketed(open, ts, close)
          = <<open>> \o FlattenSeq(cs) \o <<close>>
    BY DEF Bracketed, cs
<1>6. NoText \in Seq(Letters)
    BY <1>3 DEF none, NoText
<1> QED
    BY <1>4, <1>5, <1>6

(* Member answers a text, if the values have texts. *)
LEMMA MemberType ==
    ASSUME NEW pair \in Pairs, NEW f \in [Values -> Seq(Letters)]
    PROVE  Member(pair, f) \in Seq(Letters)
<1>1. pair.name \in Seq(Chars) /\ pair.value \in Values
    BY PairIs
<1> DEFINE x == _string(pair.name)
           y == f[pair.value]
           m == <<"colon">>
<1>2. x \in Seq(Letters) /\ y \in Seq(Letters)
    BY <1>1, StringType
<1>3. m \in Seq(Letters)
    <2>1. "colon" \in Letters
        BY LettersAre
    <2> QED
        BY <2>1
<1>4. Member(pair, f) = NoText \/ Member(pair, f) = Cat(Cat(x, m), y)
    BY DEF Member, Cat
<1>5. NoText \in Seq(Letters)
    BY DEF NoText
<1> HIDE DEF x, y, m
<1>6. Cat(x, m) \in Seq(Letters)
    BY <1>2, <1>3, CatType
<1>7. Cat(Cat(x, m), y) \in Seq(Letters)
    BY <1>2, <1>6, CatType
<1> QED
    BY <1>4, <1>5, <1>7

(* Brackets are letters. *)
LEMMA BracketsAre ==
    /\ "left_bracket" \in Letters /\ "right_bracket" \in Letters /\ "left_brace" \in Letters
    /\ "right_brace" \in Letters
BY LettersAre

Members(m, f) == [i \in DOMAIN m |-> Member(Sorted(m)[i], f)]

(* _object answers a text, if the values have texts. *)
LEMMA ObjectType ==
    ASSUME NEW m, Named(m), NEW f \in [Values -> Seq(Letters)]
    PROVE  _object(m, f) \in Seq(Letters)
<1> DEFINE ts == Members(m, f)
<1>1. Len(m) \in Nat /\ DOMAIN m = 1..Len(m)
    BY NamedIs
<1>2. \A i \in 1..Len(m) : Sorted(m)[i] \in Pairs
    <2> DEFINE s == Sorted(m)
    <2>1. s \in Seq(Pairs) /\ Len(s) = Len(m)
        BY SortedIs
    <2> HIDE DEF s
    <2>2. \A i \in 1..Len(m) : s[i] \in Pairs
        BY <2>1
    <2> QED
        BY <2>2 DEF s
<1>3. \A i \in 1..Len(m) : Member(Sorted(m)[i], f) \in Seq(Letters)
    BY <1>2, MemberType
<1>4. ts \in Seq(Seq(Letters))
    BY <1>1, <1>3 DEF Members
<1>5. _object(m, f) = Bracketed("left_brace", ts, "right_brace")
    BY DEF _object, Members
<1> HIDE DEF ts
<1> QED
    BY <1>4, <1>5, BracketedType, BracketsAre

(* Serialized answers a text, if the values have texts. *)
LEMMA SerializedType ==
    ASSUME NEW v \in Values, NEW f \in [Values -> Seq(Letters)]
    PROVE  Serialized(v, f) \in Seq(Letters)
<1>0. NoText \in Seq(Letters)
    BY DEF NoText
<1>1. CASE v.kind = "constant"
    <2>1. v.of \in Letters
        <3>1. v.of \in {"null", "true", "false"}
            BY <1>1, ValueIs
        <3> QED
            BY <3>1, LettersAre
    <2>2. <<v.of>> \in Seq(Letters)
        BY <2>1
    <2> QED
        BY <1>1, <2>2, SerializedIs
<1>2. CASE v.kind = "integer"
    <2>1. CASE v.of \in 0..MAX_SAFE_INTEGER
        <3>1. v.of \in Nat
            BY <2>1, CanonicalAssumption
        <3>2. Digits[v.of] \in Seq(Letters)
            BY <3>1, DigitsWords
        <3> QED
            BY <1>2, <2>1, <3>2, SerializedIs
    <2>2. CASE ~(v.of \in 0..MAX_SAFE_INTEGER)
        BY <1>0, <1>2, <2>2, SerializedIs
    <2> QED
        BY <2>1, <2>2
<1>3. CASE v.kind = "string"
    BY <1>3, ValueIs, StringType, SerializedIs
<1>4. CASE v.kind = "object"
    <2>1. _object(v.of, f) \in Seq(Letters)
        BY <1>4, ValueIs, ObjectType
    <2> QED
        BY <1>4, <2>1, SerializedIs
<1>5. CASE v.kind = "array"
    <2> DEFINE ts == [i \in DOMAIN v.of |-> f[v.of[i]]]
    <2>1. ts \in Seq(Seq(Letters))
        <3>1. Len(v.of) \in Nat /\ DOMAIN v.of = 1..Len(v.of)
                  /\ \A i \in 1..Len(v.of) : v.of[i] \in Values
            BY <1>5, ArrayIs
        <3>2. \A i \in 1..Len(v.of) : f[v.of[i]] \in Seq(Letters)
            BY <3>1
        <3>3. ts \in [1..Len(v.of) -> Seq(Letters)]
            BY <3>1, <3>2
        <3> HIDE DEF ts
        <3> QED
            BY ONLY <3>1, <3>3, FunctionIsSeq
    <2>2. Serialized(v, f) = Bracketed("left_bracket", ts, "right_bracket")
        BY <1>5, SerializedIs
    <2> HIDE DEF ts
    <2> QED
        BY <2>1, <2>2, BracketedType, BracketsAre
<1>6. CASE v.kind \notin {"constant", "integer", "string", "object", "array"}
    BY <1>0, <1>6, SerializedIs
<1> QED
    BY <1>1, <1>2, <1>3, <1>4, <1>5, <1>6

-----------------------------------------------------------------------------
(* The functions that recur on the parts of a value are what they say. *)

(* What is written for a value depends on what is written for its parts only. *)
LEMMA SerializedLooksDown ==
    ASSUME NEW v \in Values, NEW f, NEW g,
           \A w \in Values : Depth[w] < Depth[v] => f[w] = g[w]
    PROVE  Serialized(v, f) = Serialized(v, g)
<1>1. CASE v.kind = "object"
    <2>1. Named(v.of) /\ DOMAIN v.of = 1..Len(v.of)
        BY <1>1, ObjectIs
    <2> DEFINE m == v.of
    <2>2. \A i \in 1..Len(m) : Member(Sorted(m)[i], f) = Member(Sorted(m)[i], g)
        <3> TAKE i \in 1..Len(m)
        <3>1. PICK j \in 1..Len(m) : Sorted(m)[i] = m[j]
            BY <2>1, SortedIs
        <3>2. f[m[j].value] = g[m[j].value]
            BY <1>1, ObjectIs
        <3> QED
            BY <3>1, <3>2 DEF Member
    <2>3. Members(m, f) = Members(m, g)
        BY <2>1, <2>2 DEF Members
    <2>4. _object(m, f) = Bracketed("left_brace", Members(m, f), "right_brace")
        BY DEF _object, Members
    <2>5. _object(m, g) = Bracketed("left_brace", Members(m, g), "right_brace")
        BY DEF _object, Members
    <2> QED
        BY <1>1, <2>3, <2>4, <2>5, SerializedIs
<1>2. CASE v.kind = "array"
    <2>1. \A i \in DOMAIN v.of : f[v.of[i]] = g[v.of[i]]
        BY <1>2, ArrayIs
    <2>2. [i \in DOMAIN v.of |-> f[v.of[i]]] = [i \in DOMAIN v.of |-> g[v.of[i]]]
        BY <2>1
    <2> QED
        BY <1>2, <2>2, SerializedIs
<1>3. CASE v.kind \notin {"object", "array"}
    <2>1. v.kind = "constant" => Serialized(v, f) = Serialized(v, g)
        BY SerializedIs, Zenon
    <2>2. v.kind = "integer" => Serialized(v, f) = Serialized(v, g)
        <3> DEFINE x == IF v.of \in 0..MAX_SAFE_INTEGER THEN Digits[v.of] ELSE NoText
        <3>1. v.kind = "integer" => Serialized(v, f) = x /\ Serialized(v, g) = x
            BY SerializedIs, Zenon
        <3> HIDE DEF x
        <3> QED
            BY <3>1
    <2>3. v.kind = "string" => Serialized(v, f) = Serialized(v, g)
        BY SerializedIs, Zenon
    <2>4. v.kind \notin {"constant", "integer", "string", "object", "array"} => Serialized(v, f)
              = Serialized(v, g)
        BY SerializedIs, Zenon
    <2> QED
        BY <1>3, <2>1, <2>2, <2>3, <2>4
<1> QED
    BY <1>1, <1>2, <1>3

(* _value is its own recursion, and answers a text for every value. *)
LEMMA TextIs ==
    \A v \in Values : _value[v] = Serialized(v, _value) /\ _value[v] \in Seq(Letters)
<1> DEFINE R == Seq(Letters)
           step == [v \in Values |-> [f \in [Values -> R] |-> Serialized(v, f)]]
<1>1. \A v \in Values : \A f \in [Values -> R] : Serialized(v, f) \in R
    BY SerializedType
<1>2. \A v \in Values : \A f \in [Values -> R] : step[v][f] = Serialized(v, f)
    OBVIOUS
<1>3. step \in [Values -> [[Values -> R] -> R]]
    BY <1>1
<1>4. Depth \in [Values -> Nat]
    BY CanonicalAssumption
<1>5. R # {}
    <2>1. <<>> \in R
        OBVIOUS
    <2> QED
        BY <2>1
<1> HIDE DEF step, R
<1>6. ASSUME NEW v \in Values, NEW f \in [Values -> R], NEW g \in [Values -> R],
             \A w \in Values : Depth[w] < Depth[v] => f[w] = g[w]
      PROVE  step[v][f] = step[v][g]
    <2>1. Serialized(v, f) = Serialized(v, g)
        BY ONLY <1>6, SerializedLooksDown
    <2> QED
        BY <1>2, <2>1
<1>7. GoesDown(Values, R, Depth, step)
    BY <1>3, <1>4, <1>5, <1>6 DEF GoesDown
<1>8. PICK f : Recurs(f, Values, R, step)
    BY <1>7, Recursion
<1>9. f \in [Values -> R] /\ \A v \in Values : f[v] = Serialized(v, f)
    BY <1>2, <1>8 DEF Recurs
<1>10. f = [v \in Values |-> Serialized(v, f)]
    BY <1>9
<1>11. _value = [v \in Values |-> Serialized(v, _value)]
    BY <1>10 DEF _value
<1>12. \A v \in Values : _value[v] = Serialized(v, _value)
    BY <1>11
<1>13. \A v \in Values : _value[v] \in R
    <2> DEFINE D == {d \in Nat : \A v \in Values : Depth[v] < d => _value[v] \in R}
    <2>1. \A v \in Values : Depth[v] \in Nat
        BY <1>4
    <2>2. 0 \in D
        BY <2>1
    <2>3. ASSUME NEW d \in Nat, d \in D PROVE d + 1 \in D
        <3>1. PICK r \in R : TRUE
            BY <1>5
        <3> DEFINE g == [w \in Values |-> IF Depth[w] < d THEN _value[w] ELSE r]
        <3>2. g \in [Values -> R]
            BY <2>3
        <3>3. \A w \in Values : Depth[w] < d => g[w] = _value[w]
            OBVIOUS
        <3> HIDE DEF g
        <3>4. ASSUME NEW v \in Values, Depth[v] < d + 1 PROVE _value[v] \in R
            <4>1. \A w \in Values : Depth[w] < Depth[v] => g[w] = _value[w]
                BY <2>1, <3>3, <3>4
            <4>2. Serialized(v, g) = Serialized(v, _value)
                BY ONLY <4>1, SerializedLooksDown
            <4>3. Serialized(v, g) \in R
                BY <1>1, <3>2
            <4> QED
                BY <1>12, <4>2, <4>3
        <3>5. d + 1 \in Nat
            OBVIOUS
        <3> QED
            BY <3>4, <3>5
    <2> HIDE DEF D
    <2>4. \A d \in Nat : d \in D
        BY <2>2, <2>3, EveryNumber
    <2>5. \A v \in Values : Depth[v] + 1 \in D /\ Depth[v] < Depth[v] + 1
        BY <2>1, <2>4
    <2> QED
        BY <2>5 DEF D
<1> QED
    BY <1>12, <1>13 DEF R

-----------------------------------------------------------------------------
(* The reference functions. *)
LEMMA AlikeIs ==
    ASSUME NEW v, NEW w, NEW f
    PROVE  /\ Alike(v, w, f) => v.kind = w.kind
           /\ v.kind = "object" /\ w.kind = "object" =>
                (Alike(v, w, f) <=>
                    /\ MemberNames(v.of) = MemberNames(w.of)
                    /\ \A i \in DOMAIN v.of, j \in DOMAIN w.of :
                        v.of[i].name = w.of[j].name => w.of[j].value \in f[v.of[i].value])
           /\ v.kind = "array" /\ w.kind = "array" =>
                (Alike(v, w, f) <=>
                    Len(v.of) = Len(w.of) /\ \A i \in DOMAIN v.of : w.of[i] \in f[v.of[i]])
           /\ v.kind \notin {"object", "array"} /\ v.kind = w.kind =>
                (Alike(v, w, f) <=> v.of = w.of)
BY DEF Alike

(* Alike asks only about values less deep than the first. *)
LEMMA AlikeLooksDown ==
    ASSUME NEW v \in Values, NEW w \in Values, NEW f, NEW g,
           \A x \in Values : Depth[x] < Depth[v] => f[x] = g[x]
    PROVE  Alike(v, w, f) <=> Alike(v, w, g)
<1>1. CASE v.kind = "object" /\ w.kind = "object"
    <2>1. \A i \in DOMAIN v.of : f[v.of[i].value] = g[v.of[i].value]
        BY <1>1, ObjectIs
    <2> QED
        BY <1>1, <2>1, AlikeIs
<1>2. CASE v.kind = "array" /\ w.kind = "array"
    <2>1. \A i \in DOMAIN v.of : f[v.of[i]] = g[v.of[i]]
        BY <1>2, ArrayIs
    <2> QED
        BY <1>2, <2>1, AlikeIs
<1>3. CASE v.kind \notin {"object", "array"} /\ v.kind = w.kind
    BY <1>3, AlikeIs
<1>4. CASE v.kind # w.kind
    BY <1>4, AlikeIs
<1> QED
    BY <1>1, <1>2, <1>3, <1>4

(* SameAs is its own recursion. *)
LEMMA SameIs ==
    \A v, w \in Values : w \in SameAs[v] <=> Alike(v, w, SameAs)
<1> DEFINE R == SUBSET Values
           Step(v, f) == {w \in Values : Alike(v, w, f)}
           step == [v \in Values |-> [f \in [Values -> R] |-> Step(v, f)]]
<1>1. \A v \in Values : \A f \in [Values -> R] : Step(v, f) \in R
    OBVIOUS
<1>2. \A v \in Values : \A f \in [Values -> R] : step[v][f] = Step(v, f)
    OBVIOUS
<1>3. step \in [Values -> [[Values -> R] -> R]]
    <2> HIDE DEF Step, R
    <2> QED
        BY <1>1
<1>4. Depth \in [Values -> Nat]
    BY CanonicalAssumption
<1>5. R # {}
    OBVIOUS
<1> HIDE DEF step, R
<1>6. ASSUME NEW v \in Values, NEW f \in [Values -> R], NEW g \in [Values -> R],
             \A w \in Values : Depth[w] < Depth[v] => f[w] = g[w]
      PROVE  step[v][f] = step[v][g]
    <2>1. \A w \in Values : Alike(v, w, f) <=> Alike(v, w, g)
        BY ONLY <1>6, AlikeLooksDown
    <2>2. Step(v, f) = Step(v, g)
        BY <2>1
    <2> QED
        BY <1>2, <2>2
<1>7. GoesDown(Values, R, Depth, step)
    BY <1>3, <1>4, <1>5, <1>6 DEF GoesDown
<1>8. PICK f : Recurs(f, Values, R, step)
    BY <1>7, Recursion
<1>9. f \in [Values -> R] /\ \A v \in Values : f[v] = Step(v, f)
    BY <1>2, <1>8 DEF Recurs
<1>10. f = [v \in Values |-> Step(v, f)]
    <2> HIDE DEF Step
    <2> QED
        BY <1>9
<1>11. SameAs = [v \in Values |-> {w \in Values : Alike(v, w, SameAs)}]
    BY <1>10 DEF SameAs
<1>12. \A v \in Values : SameAs[v] = {w \in Values : Alike(v, w, SameAs)}
    BY <1>11
<1> QED
    BY <1>12

(* Allowed, kind by kind. *)
LEMMA AllowedIs ==
    ASSUME NEW v, NEW f
    PROVE  /\ v.kind = "constant" => Allowed(v, f)
           /\ v.kind = "integer" => (Allowed(v, f) <=> 0 <= v.of /\ v.of <= MAX_SAFE_INTEGER)
           /\ v.kind = "string" => (Allowed(v, f) <=> Good(v.of))
           /\ v.kind = "array" => (Allowed(v, f) <=> \A i \in DOMAIN v.of : f[v.of[i]])
           /\ v.kind = "object" =>
                (Allowed(v, f) <=> \A i \in DOMAIN v.of : f[v.of[i].value] /\ Good(v.of[i].name))
           /\ v.kind \notin {"constant", "integer", "string", "object", "array"} => ~Allowed(v, f)
BY DEF Allowed, Good

(* Allowed asks only about values less deep. *)
LEMMA AllowedLooksDown ==
    ASSUME NEW v \in Values, NEW f, NEW g,
           \A x \in Values : Depth[x] < Depth[v] => (f[x] <=> g[x])
    PROVE  Allowed(v, f) <=> Allowed(v, g)
<1>1. CASE v.kind = "object"
    <2>1. \A i \in DOMAIN v.of : f[v.of[i].value] <=> g[v.of[i].value]
        BY <1>1, ObjectIs
    <2> QED
        BY <1>1, <2>1, AllowedIs
<1>2. CASE v.kind = "array"
    <2>1. \A i \in DOMAIN v.of : f[v.of[i]] <=> g[v.of[i]]
        BY <1>2, ArrayIs
    <2> QED
        BY <1>2, <2>1, AllowedIs
<1>3. CASE v.kind \notin {"object", "array"}
    BY <1>3, AllowedIs
<1> QED
    BY <1>1, <1>2, <1>3

-----------------------------------------------------------------------------
(* Allowed is true or false. *)
LEMMA AllowedType ==
    ASSUME NEW v, NEW f
    PROVE  Allowed(v, f) \in BOOLEAN
BY DEF Allowed

(* InProfile is its own recursion. *)
LEMMA ProfileIs ==
    \A v \in Values : InProfile[v] <=> Allowed(v, InProfile)
<1> DEFINE R == BOOLEAN
           step == [v \in Values |-> [f \in [Values -> R] |-> Allowed(v, f)]]
<1>1. \A v \in Values : \A f \in [Values -> R] : Allowed(v, f) \in R
    BY AllowedType
<1>2. \A v \in Values : \A f \in [Values -> R] : step[v][f] = Allowed(v, f)
    OBVIOUS
<1>3. step \in [Values -> [[Values -> R] -> R]]
    BY <1>1
<1>4. Depth \in [Values -> Nat]
    BY CanonicalAssumption
<1>5. R # {}
    OBVIOUS
<1> HIDE DEF step
<1>6. ASSUME NEW v \in Values, NEW f \in [Values -> R], NEW g \in [Values -> R],
             \A w \in Values : Depth[w] < Depth[v] => f[w] = g[w]
      PROVE  step[v][f] = step[v][g]
    <2>1. \A w \in Values : Depth[w] < Depth[v] => (f[w] <=> g[w])
        BY <1>6
    <2>2. Allowed(v, f) <=> Allowed(v, g)
        BY ONLY <2>1, AllowedLooksDown
    <2>3. Allowed(v, f) = Allowed(v, g)
        BY <2>2, AllowedType
    <2> QED
        BY <1>2, <2>3
<1> HIDE DEF R
<1>7. GoesDown(Values, R, Depth, step)
    BY <1>3, <1>4, <1>5, <1>6 DEF GoesDown
<1>8. PICK f : Recurs(f, Values, R, step)
    BY <1>7, Recursion
<1>9. f \in [Values -> R] /\ \A v \in Values : f[v] = Allowed(v, f)
    BY <1>2, <1>8 DEF Recurs
<1>10. f = [v \in Values |-> Allowed(v, f)]
    BY <1>9
<1>11. InProfile = [v \in Values |-> Allowed(v, InProfile)]
    BY <1>10 DEF InProfile
<1>12. \A v \in Values : InProfile[v] = Allowed(v, InProfile)
    BY <1>11
<1> QED
    BY <1>12

-----------------------------------------------------------------------------
(* Up to a depth: what the profile allows has a text that is told from what follows it,
   and two values have the same text exactly if they are the same. *)
Fit(d) == {v \in Values : Depth[v] < d /\ InProfile[v]}

ValueTexts(d) == {_value[v] : v \in Fit(d)}

TextsTell(d) ==
    /\ \A v \in Values : Depth[v] < d /\ ~InProfile[v] => _value[v] = NoText
    /\ Words(ValueTexts(d))
    /\ \A v, w \in Fit(d) : w \in SameAs[v] <=> _value[v] = _value[w]

(* The members with such values. *)
FitPairs(d) == {pair \in Pairs : Good(pair.name) /\ pair.value \in Fit(d)}

MemberTexts(d) == {Member(pair, _value) : pair \in FitPairs(d)}

(* A value that the profile allows has a text, if those of its depth are told. *)
LEMMA FitText ==
    ASSUME NEW d \in Nat, TextsTell(d), NEW v \in Fit(d)
    PROVE  _value[v] \in Seq(Letters) /\ _value[v] # NoText /\ _value[v] \in ValueTexts(d)
<1>1. _value[v] \in ValueTexts(d)
    BY DEF ValueTexts
<1>2. _value[v] \in Seq(Letters) /\ _value[v] # <<>>
    BY <1>1 DEF TextsTell, Words
<1> QED
    BY <1>1, <1>2 DEF NoText

(* The text of a member: the name between quotes, a colon, the text of the value. *)
LEMMA MemberText ==
    ASSUME NEW d \in Nat, TextsTell(d), NEW pair \in FitPairs(d), NEW t \in Seq(Letters)
    PROVE  LET text == Member(pair, _value)
               rest == Cat(<<"colon">>, Cat(_value[pair.value], t))
           IN  /\ text \in Seq(Letters) /\ text # NoText /\ text[1] = "quote"
               /\ Cat(text, t) = Cat(_string(pair.name), rest)
               /\ rest \in Seq(Letters) /\ Cat(_value[pair.value], t) \in Seq(Letters)
<1> DEFINE x == _string(pair.name)
           y == _value[pair.value]
           m == <<"colon">>
           text == Member(pair, _value)
<1>1. pair.name \in Seq(Chars) /\ Good(pair.name) /\ pair.value \in Fit(d)
    BY PairIs DEF FitPairs
<1>2. x \in Seq(Letters) /\ x # NoText /\ x[1] = "quote"
    BY <1>1, StringFirst
<1>3. y \in Seq(Letters) /\ y # NoText
    BY <1>1, FitText
<1>4. m \in Seq(Letters)
    <2>1. "colon" \in Letters
        BY LettersAre
    <2> QED
        BY <2>1
<1>5. text = Cat(Cat(x, m), y)
    BY <1>2, <1>3 DEF Member, Cat
<1> HIDE DEF x, y, m, text
<1>6. Cat(x, m) \in Seq(Letters) /\ Cat(y, t) \in Seq(Letters)
    BY <1>2, <1>3, <1>4, CatType
<1>7. text \in Seq(Letters) /\ Cat(m, Cat(y, t)) \in Seq(Letters)
    BY <1>3, <1>4, <1>5, <1>6, CatType
<1>8. Cat(text, t) = Cat(Cat(x, m), Cat(y, t))
    BY ONLY <1>3, <1>5, <1>6, CatAssociative
<1>9. Cat(Cat(x, m), Cat(y, t)) = Cat(x, Cat(m, Cat(y, t)))
    BY ONLY <1>2, <1>4, <1>6, CatAssociative
<1>10. text # <<>> /\ text[1] = "quote"
    <2>1. Cat(x, m) # <<>> /\ Cat(x, m)[1] = "quote"
        BY <1>2, <1>4, CatFirst DEF NoText
    <2>2. Cat(Cat(x, m), y) # <<>> /\ Cat(Cat(x, m), y)[1] = Cat(x, m)[1]
        BY ONLY <1>3, <1>6, <2>1, CatFirst
    <2> QED
        BY <1>5, <2>1, <2>2
<1>11. Cat(text, t) = Cat(x, Cat(m, Cat(y, t)))
    BY <1>8, <1>9
<1> QED
    BY <1>6, <1>7, <1>10, <1>11 DEF NoText, x, y, m, text

(* Two members with the same text have the same name, and values of the same text. *)
LEMMA MemberTold ==
    ASSUME NEW d \in Nat, TextsTell(d), NEW p \in FitPairs(d), NEW q \in FitPairs(d),
           NEW t \in Tails, NEW u \in Tails,
           Cat(Member(p, _value), t) = Cat(Member(q, _value), u)
    PROVE  p.name = q.name /\ _value[p.value] = _value[q.value] /\ t = u
<1> DEFINE x == _value[p.value]
           y == _value[q.value]
           m == <<"colon">>
<1>1. t \in Seq(Letters) /\ u \in Seq(Letters) /\ "colon" \in Letters
    BY EndsAre, LettersAre
<1>2. p.name \in Seq(Chars) /\ Good(p.name) /\ p.value \in Fit(d)
    BY PairIs DEF FitPairs
<1>3. q.name \in Seq(Chars) /\ Good(q.name) /\ q.value \in Fit(d)
    BY PairIs DEF FitPairs
<1>4. /\ Cat(Member(p, _value), t) = Cat(_string(p.name), Cat(m, Cat(x, t)))
      /\ Cat(m, Cat(x, t)) \in Seq(Letters) /\ Cat(x, t) \in Seq(Letters)
    BY <1>1, MemberText
<1>5. /\ Cat(Member(q, _value), u) = Cat(_string(q.name), Cat(m, Cat(y, u)))
      /\ Cat(m, Cat(y, u)) \in Seq(Letters) /\ Cat(y, u) \in Seq(Letters)
    BY <1>1, MemberText
<1>6. x \in ValueTexts(d) /\ y \in ValueTexts(d)
    BY <1>2, <1>3, FitText
<1> HIDE DEF x, y
<1>7. p.name = q.name /\ Cat(m, Cat(x, t)) = Cat(m, Cat(y, u))
    <2> DEFINE r == Cat(m, Cat(x, t))
               s == Cat(m, Cat(y, u))
    <2>1. r \in Seq(Letters) /\ s \in Seq(Letters) /\ Cat(_string(p.name), r)
              = Cat(_string(q.name), s)
        BY <1>4, <1>5
    <2> HIDE DEF r, s
    <2>2. p.name = q.name /\ r = s
        BY <1>2, <1>3, <2>1, StringTold
    <2> QED
        BY <2>2 DEF r, s
<1>8. Cat(x, t) = Cat(y, u)
    <2> DEFINE r == Cat(x, t)
               s == Cat(y, u)
    <2>1. r \in Seq(Letters) /\ s \in Seq(Letters) /\ Cat(<<"colon">>, r) = Cat(<<"colon">>, s)
        BY <1>4, <1>5, <1>7
    <2> HIDE DEF r, s
    <2>2. r = s
        BY <1>1, <2>1, CatMark
    <2> QED
        BY <2>2 DEF r, s
<1>9. x = y /\ t = u
    BY <1>6, <1>8 DEF TextsTell, Words, Told
<1> QED
    BY <1>7, <1>9 DEF x, y

(* The texts of members are told apart, and none begins as what can follow it. *)
LEMMA MemberWords ==
    ASSUME NEW d \in Nat, TextsTell(d)
    PROVE  Words(MemberTexts(d))
<1> DEFINE word(pair) == Member(pair, _value)
<1>1. <<>> \in Seq(Letters)
    OBVIOUS
<1>2. \A pair \in FitPairs(d) : word(pair) \in Seq(Letters) /\ word(pair) # <<>> /\ word(pair)[1]
          = "quote"
    BY <1>1, MemberText DEF NoText
<1>3. ASSUME NEW p \in FitPairs(d), NEW q \in FitPairs(d), NEW t \in Tails, NEW u \in Tails,
             Cat(word(p), t) = Cat(word(q), u)
      PROVE  word(p) = word(q) /\ t = u
    <2>1. p.name = q.name /\ _value[p.value] = _value[q.value] /\ t = u
        BY <1>3, MemberTold
    <2> QED
        BY <2>1 DEF Member
<1>4. MemberTexts(d) = {word(pair) : pair \in FitPairs(d)}
    BY DEF MemberTexts
<1>5. "quote" \notin EndMarks
    BY DEF EndMarks
<1> HIDE DEF word
<1>6. Told(MemberTexts(d), Tails)
    BY <1>3, <1>4 DEF Told
<1>7. MemberTexts(d) \subseteq Seq(Letters) /\ \A w \in MemberTexts(d) : w # <<>>
          /\ w[1] \notin EndMarks
    BY <1>2, <1>4, <1>5
<1> QED
    BY <1>6, <1>7 DEF Words

-----------------------------------------------------------------------------
(* What is in an array, and in an object, one deeper. *)
PartTexts(v) == [i \in DOMAIN v.of |-> _value[v.of[i]]]

(* The text of an array one level deeper, which it has if the profile allows it. *)
LEMMA ArrayStep ==
    ASSUME NEW d \in Nat, TextsTell(d), NEW v \in Values, Depth[v] < d + 1, v.kind = "array"
    PROVE  /\ _value[v] = Bracketed("left_bracket", PartTexts(v), "right_bracket")
           /\ Len(v.of) \in Nat /\ DOMAIN v.of = 1..Len(v.of)
           /\ InProfile[v] => /\ PartTexts(v) \in Seq(ValueTexts(d)) /\ Len(PartTexts(v)) = Len(v.of)
                              /\ \A i \in 1..Len(v.of) : v.of[i] \in Fit(d)
           /\ ~InProfile[v] => _value[v] = NoText
<1> DEFINE n == Len(v.of)
<1>1. n \in Nat /\ DOMAIN v.of = 1..n /\ \A i \in 1..n : v.of[i] \in Values
          /\ Depth[v.of[i]] < Depth[v]
    BY ArrayIs
<1>2. \A i \in 1..n : Depth[v.of[i]] < d
    <2>1. Depth[v] \in Nat /\ \A i \in 1..n : Depth[v.of[i]] \in Nat
        BY <1>1, ValueIs
    <2> HIDE DEF n
    <2> QED
        BY <1>1, <2>1
<1>3. InProfile[v] <=> \A i \in 1..n : InProfile[v.of[i]]
    <2>1. InProfile[v] <=> Allowed(v, InProfile)
        BY ProfileIs
    <2>2. Allowed(v, InProfile) <=> \A i \in DOMAIN v.of : InProfile[v.of[i]]
        BY AllowedIs
    <2> QED
        BY <1>1, <2>1, <2>2
<1>4. _value[v] = Bracketed("left_bracket", PartTexts(v), "right_bracket")
    BY TextIs, SerializedIs DEF PartTexts
<1>5. DOMAIN PartTexts(v) = 1..n /\ \A i \in 1..n : PartTexts(v)[i] = _value[v.of[i]]
    BY <1>1 DEF PartTexts
<1>6. ASSUME InProfile[v]
      PROVE  /\ PartTexts(v) \in Seq(ValueTexts(d)) /\ Len(PartTexts(v)) = n
             /\ \A i \in 1..n : v.of[i] \in Fit(d)
    <2>1. \A i \in 1..n : v.of[i] \in Fit(d)
        BY <1>1, <1>2, <1>3, <1>6 DEF Fit
    <2>2. \A i \in 1..n : PartTexts(v)[i] \in ValueTexts(d)
        BY <1>5, <2>1 DEF ValueTexts
    <2>3. PartTexts(v) \in [1..n -> ValueTexts(d)]
        <3>1. PartTexts(v) = [i \in 1..n |-> PartTexts(v)[i]]
            BY <1>1 DEF PartTexts
        <3> QED
            BY <2>2, <3>1
    <2>4. PartTexts(v) \in Seq(ValueTexts(d)) /\ Len(PartTexts(v)) = n
        <3> HIDE DEF n
        <3> QED
            BY ONLY <1>1, <2>3, FunctionIsSeq
    <2> QED
        BY <2>1, <2>4
<1>7. ASSUME ~InProfile[v] PROVE _value[v] = NoText
    <2>1. PICK i \in 1..n : ~InProfile[v.of[i]]
        BY <1>3, <1>7
    <2>2. PartTexts(v)[i] = NoText
        BY <1>1, <1>2, <1>5, <2>1 DEF TextsTell
    <2>3. NoText \in Range(PartTexts(v))
        BY <1>5, <2>2 DEF Range
    <2> QED
        BY <1>4, <2>3 DEF Bracketed
<1> QED
    BY <1>1, <1>4, <1>6, <1>7

(* The text of an object one level deeper, which it has if the profile allows it. *)
LEMMA ObjectStep ==
    ASSUME NEW d \in Nat, TextsTell(d), NEW v \in Values, Depth[v] < d + 1, v.kind = "object"
    PROVE  /\ _value[v] = Bracketed("left_brace", Members(v.of, _value), "right_brace")
           /\ Named(v.of) /\ Len(v.of) \in Nat /\ DOMAIN v.of = 1..Len(v.of)
           /\ \A i \in 1..Len(v.of) : Members(v.of, _value)[i] = Member(Sorted(v.of)[i], _value)
           /\ InProfile[v] => /\ Members(v.of, _value) \in Seq(MemberTexts(d))
                              /\ Len(Members(v.of, _value)) = Len(v.of)
                              /\ \A i \in 1..Len(v.of) : Sorted(v.of)[i] \in FitPairs(d)
           /\ ~InProfile[v] => _value[v] = NoText
<1> DEFINE n == Len(v.of)
           m == v.of
           ts == Members(m, _value)
<1>1. /\ Named(m) /\ n \in Nat /\ DOMAIN m = 1..n
      /\ \A i \in 1..n : m[i] \in Pairs /\ m[i].value \in Values /\ Depth[m[i].value] < Depth[v]
    BY ObjectIs
<1>2. \A i \in 1..n : Depth[m[i].value] < d
    <2>1. Depth[v] \in Nat /\ \A i \in 1..n : Depth[m[i].value] \in Nat
        BY <1>1, ValueIs
    <2> HIDE DEF n, m
    <2> QED
        BY <1>1, <2>1
<1>3. InProfile[v] <=> \A i \in 1..n : InProfile[m[i].value] /\ Good(m[i].name)
    <2>1. InProfile[v] <=> Allowed(v, InProfile)
        BY ProfileIs
    <2>2. Allowed(v, InProfile) <=> \A i \in DOMAIN m : InProfile[m[i].value] /\ Good(m[i].name)
        BY AllowedIs
    <2> QED
        BY <1>1, <2>1, <2>2
<1>4. _value[v] = Bracketed("left_brace", ts, "right_brace")
    <2>1. _value[v] = _object(m, _value)
        BY TextIs, SerializedIs
    <2> QED
        BY <2>1 DEF _object, Members
<1>5. DOMAIN ts = 1..n /\ \A i \in 1..n : ts[i] = Member(Sorted(m)[i], _value)
    BY <1>1 DEF Members
<1>6. /\ \A i \in 1..n : \E j \in 1..n : Sorted(m)[i] = m[j]
      /\ \A j \in 1..n : \E i \in 1..n : Sorted(m)[i] = m[j]
    BY <1>1, SortedIs
<1>7. ts = [i \in 1..n |-> ts[i]]
    BY <1>1 DEF Members
<1> HIDE DEF n, m, ts
<1>8. ASSUME InProfile[v]
      PROVE  /\ ts \in Seq(MemberTexts(d)) /\ Len(ts) = n
             /\ \A i \in 1..n : Sorted(m)[i] \in FitPairs(d)
    <2>1. \A i \in 1..n : m[i] \in FitPairs(d)
        BY <1>1, <1>2, <1>3, <1>8 DEF Fit, FitPairs
    <2>2. \A i \in 1..n : Sorted(m)[i] \in FitPairs(d)
        BY <1>6, <2>1
    <2>3. \A i \in 1..n : ts[i] \in MemberTexts(d)
        BY <1>5, <2>2 DEF MemberTexts
    <2>4. ts \in [1..n -> MemberTexts(d)]
        BY <1>7, <2>3
    <2>5. ts \in Seq(MemberTexts(d)) /\ Len(ts) = n
        BY ONLY <1>1, <2>4, FunctionIsSeq
    <2> QED
        BY <2>2, <2>5
<1>9. ASSUME ~InProfile[v] PROVE _value[v] = NoText
    <2>1. PICK j \in 1..n : ~InProfile[m[j].value] \/ ~Good(m[j].name)
        BY <1>3, <1>9
    <2>2. PICK i \in 1..n : Sorted(m)[i] = m[j]
        BY <1>6
    <2>3. _value[m[j].value] = NoText \/ _string(m[j].name) = NoText
        <3>1. m[j].name \in Seq(Chars)
            BY <1>1, PairIs
        <3>2. ~Good(m[j].name) => _string(m[j].name) = NoText
            BY <3>1, StringText
        <3>3. ~InProfile[m[j].value] => _value[m[j].value] = NoText
            BY <1>1, <1>2 DEF TextsTell
        <3> QED
            BY <2>1, <3>2, <3>3
    <2>4. ts[i] = NoText
        BY <1>5, <2>2, <2>3 DEF Member
    <2>5. NoText \in Range(ts)
        BY <1>5, <2>4 DEF Range
    <2> QED
        BY <1>4, <2>5 DEF Bracketed
<1> QED
    BY <1>1, <1>4, <1>5, <1>8, <1>9 DEF n, m, ts

-----------------------------------------------------------------------------
(* How a text begins tells what kind of value it is of. *)
FirstRow(kind, mark) ==
    \/ kind = "constant" /\ mark \in {"null", "true", "false"}
    \/ kind = "integer" /\ mark \in DigitMarks
    \/ kind = "string" /\ mark = "quote"
    \/ kind = "object" /\ mark = "left_brace"
    \/ kind = "array" /\ mark = "left_bracket"

(* The first letter of a text tells the kind of the value. *)
LEMMA FirstTells ==
    /\ \A kind, other_kind, mark : FirstRow(kind, mark) /\ FirstRow(other_kind, mark) => kind = other_kind
    /\ \A kind, mark : FirstRow(kind, mark) =>
        mark \notin EndMarks /\ kind \in {"constant", "integer", "string", "object", "array"}
<1>1. ASSUME NEW kind, NEW other_kind, NEW mark, FirstRow(kind, mark), FirstRow(other_kind, mark)
      PROVE  kind = other_kind
    BY <1>1 DEF FirstRow, DigitMarks
<1>2. ASSUME NEW kind, NEW mark, FirstRow(kind, mark)
      PROVE  mark \notin EndMarks /\ kind \in {"constant", "integer", "string", "object", "array"}
    BY <1>2 DEF FirstRow, DigitMarks, EndMarks
<1> QED
    BY <1>1, <1>2

(* A constant, a number or a string is what it is. *)
LEMMA PlainStep ==
    ASSUME NEW v \in Values, InProfile[v], v.kind \in {"constant", "integer", "string"}
    PROVE  /\ v.kind = "constant" => _value[v] = <<v.of>> /\ v.of \in {"null", "true", "false"} /\ v.of \in Letters
           /\ v.kind = "integer" => _value[v] = Digits[v.of] /\ v.of \in Nat
           /\ v.kind = "string" => _value[v] = _string(v.of) /\ v.of \in Seq(Chars) /\ Good(v.of)
<1>1. Allowed(v, InProfile)
    BY ProfileIs
<1>2. _value[v] = Serialized(v, _value)
    BY TextIs
<1>3. ASSUME v.kind = "constant"
      PROVE  _value[v] = <<v.of>> /\ v.of \in {"null", "true", "false"} /\ v.of \in Letters
    <2>1. _value[v] = <<v.of>>
        BY <1>2, <1>3, SerializedIs
    <2>2. v.of \in {"null", "true", "false"}
        BY <1>3, ValueIs
    <2>3. v.of \in Letters
        BY <2>2, LettersAre
    <2> QED
        BY <2>1, <2>2, <2>3
<1>4. ASSUME v.kind = "integer"
      PROVE  _value[v] = Digits[v.of] /\ v.of \in Nat
    <2>1. v.of \in Int /\ 0 <= v.of /\ v.of <= MAX_SAFE_INTEGER
        BY <1>1, <1>4, ValueIs, AllowedIs
    <2>2. v.of \in 0..MAX_SAFE_INTEGER /\ v.of \in Nat
        BY <2>1, CanonicalAssumption
    <2>3. _value[v] = IF v.of \in 0..MAX_SAFE_INTEGER THEN Digits[v.of] ELSE NoText
        BY <1>2, <1>4, SerializedIs
    <2> QED
        BY <2>2, <2>3
<1>5. ASSUME v.kind = "string"
      PROVE  _value[v] = _string(v.of) /\ v.of \in Seq(Chars) /\ Good(v.of)
    <2>1. _value[v] = _string(v.of)
        BY <1>2, <1>5, SerializedIs
    <2>2. v.of \in Seq(Chars)
        BY <1>5, ValueIs
    <2>3. Good(v.of)
        BY <1>1, <1>5, AllowedIs
    <2> QED
        BY <2>1, <2>2, <2>3
<1> QED
    BY <1>3, <1>4, <1>5

(* What the profile does not allow has no text. *)
LEMMA PlainNone ==
    ASSUME NEW v \in Values, ~InProfile[v], v.kind \notin {"object", "array"}
    PROVE  _value[v] = NoText
<1>1. ~Allowed(v, InProfile)
    BY ProfileIs
<1>2. _value[v] = Serialized(v, _value)
    BY TextIs
<1>3. v.kind # "constant"
    BY <1>1, AllowedIs
<1>4. CASE v.kind = "integer"
    <2>1. ~(0 <= v.of /\ v.of <= MAX_SAFE_INTEGER) /\ v.of \in Int
        BY <1>1, <1>4, AllowedIs, ValueIs
    <2>2. v.of \notin 0..MAX_SAFE_INTEGER
        BY <2>1, CanonicalAssumption
    <2>3. _value[v] = IF v.of \in 0..MAX_SAFE_INTEGER THEN Digits[v.of] ELSE NoText
        BY <1>2, <1>4, SerializedIs
    <2> QED
        BY <2>2, <2>3
<1>5. CASE v.kind = "string"
    <2>1. ~Good(v.of) /\ v.of \in Seq(Chars)
        BY <1>1, <1>5, AllowedIs, ValueIs
    <2>2. _string(v.of) = NoText
        BY <2>1, StringText
    <2> QED
        BY <1>2, <1>5, <2>2, SerializedIs
<1>6. CASE v.kind \notin {"constant", "integer", "string", "object", "array"}
    BY <1>2, <1>6, SerializedIs
<1> QED
    BY <1>3, <1>4, <1>5, <1>6

(* A text in brackets begins with the opening one. *)
LEMMA BracketBegins ==
    ASSUME NEW W, Words(W), NEW ps \in Seq(W), NEW open \in Letters, NEW close \in Closes
    PROVE  Bracketed(open, ps, close) # <<>> /\ Bracketed(open, ps, close)[1] = open
<1> DEFINE none == <<>>
<1>1. none \in Seq(Letters)
    OBVIOUS
<1> HIDE DEF none
<1>2. Bracketed(open, ps, close) # NoText /\ Bracketed(open, ps, close)[1] = open
    BY <1>1, BracketText
<1> QED
    BY <1>2 DEF NoText

(* The text of every value that the profile allows begins as its kind says. *)
LEMMA ValueFirst ==
    ASSUME NEW d \in Nat, TextsTell(d), NEW v \in Fit(d + 1)
    PROVE  _value[v] \in Seq(Letters) /\ _value[v] # <<>> /\ FirstRow(v.kind, _value[v][1])
<1>1. v \in Values /\ Depth[v] < d + 1 /\ InProfile[v]
    BY DEF Fit
<1>2. Allowed(v, InProfile)
    BY <1>1, ProfileIs
<1>3. v.kind \in {"constant", "integer", "string", "object", "array"}
    BY <1>2, AllowedIs
<1>4. _value[v] \in Seq(Letters)
    BY <1>1, TextIs
<1>5. CASE v.kind = "constant"
    <2>1. _value[v] = <<v.of>> /\ v.of \in {"null", "true", "false"}
        BY <1>1, <1>5, PlainStep
    <2>2. _value[v] # <<>> /\ _value[v][1] \in {"null", "true", "false"}
        BY <2>1
    <2> QED
        BY <1>4, <1>5, <2>2 DEF FirstRow
<1>6. CASE v.kind = "integer"
    <2>1. _value[v] = Digits[v.of] /\ v.of \in Nat
        BY <1>1, <1>6, PlainStep
    <2>2. _value[v] # <<>> /\ _value[v][1] \in DigitMarks
        BY <2>1, DigitsWords
    <2> QED
        BY <1>4, <1>6, <2>2 DEF FirstRow
<1>7. CASE v.kind = "string"
    <2>1. _value[v] = _string(v.of) /\ v.of \in Seq(Chars) /\ Good(v.of)
        BY <1>1, <1>7, PlainStep
    <2>2. _value[v] # <<>> /\ _value[v][1] = "quote"
        BY <2>1, StringFirst DEF NoText
    <2> QED
        BY <1>4, <1>7, <2>2 DEF FirstRow
<1>8. CASE v.kind = "object"
    <2> DEFINE ts == Members(v.of, _value)
    <2>1. _value[v] = Bracketed("left_brace", ts, "right_brace") /\ ts \in Seq(MemberTexts(d))
        BY <1>1, <1>8, ObjectStep
    <2>2. Words(MemberTexts(d)) /\ "right_brace" \in Closes
        <3>1. Words(MemberTexts(d))
            BY MemberWords
        <3>2. "right_brace" \in Closes
            BY DEF Closes
        <3> QED
            BY <3>1, <3>2
    <2> HIDE DEF ts
    <2>3. _value[v] # <<>> /\ _value[v][1] = "left_brace"
        BY <2>1, <2>2, BracketBegins, BracketsAre
    <2> QED
        BY <1>4, <1>8, <2>3 DEF FirstRow
<1>9. CASE v.kind = "array"
    <2> DEFINE ts == PartTexts(v)
    <2>1. _value[v] = Bracketed("left_bracket", ts, "right_bracket") /\ ts \in Seq(ValueTexts(d))
        BY <1>1, <1>9, ArrayStep
    <2>2. Words(ValueTexts(d)) /\ "right_bracket" \in Closes
        <3>1. Words(ValueTexts(d))
            BY DEF TextsTell
        <3>2. "right_bracket" \in Closes
            BY DEF Closes
        <3> QED
            BY <3>1, <3>2
    <2> HIDE DEF ts
    <2>3. _value[v] # <<>> /\ _value[v][1] = "left_bracket"
        BY <2>1, <2>2, BracketBegins, BracketsAre
    <2> QED
        BY <1>4, <1>9, <2>3 DEF FirstRow
<1> QED
    BY <1>3, <1>5, <1>6, <1>7, <1>8, <1>9

-----------------------------------------------------------------------------
(* Two values whose texts, with a tail each, are equal are the same; kind by kind. *)
LEMMA PlainTold ==
    ASSUME NEW v \in Values, NEW w \in Values, InProfile[v], InProfile[w], v.kind = w.kind,
           v.kind \in {"constant", "integer", "string"},
           NEW t \in Tails, NEW u \in Tails, Cat(_value[v], t) = Cat(_value[w], u)
    PROVE  t = u /\ w \in SameAs[v]
<1>1. t \in Seq(Letters) /\ u \in Seq(Letters)
    BY EndsAre
<1>2. t = u /\ v.of = w.of
    <2>1. CASE v.kind = "constant"
        <3>1. _value[v] = <<v.of>> /\ v.of \in Letters
            BY <2>1, PlainStep
        <3>2. _value[w] = <<w.of>> /\ w.of \in Letters
            BY <2>1, PlainStep
        <3> DEFINE a == v.of
                   b == w.of
        <3>3. Cat(<<a>>, t) = Cat(<<b>>, u) /\ a \in Letters /\ b \in Letters
            BY <3>1, <3>2
        <3> HIDE DEF a, b
        <3>4. a = b
            <4>1. Cat(<<a>>, t)[1] = a /\ Cat(<<b>>, u)[1] = b
                BY <1>1, <3>3, CatMark
            <4> QED
                BY <3>3, <4>1
        <3>5. t = u
            BY <1>1, <3>3, <3>4, CatMark
        <3> QED
            BY <3>4, <3>5 DEF a, b
    <2>2. CASE v.kind = "integer"
        <3>1. _value[v] = Digits[v.of] /\ v.of \in Nat
            BY <2>2, PlainStep
        <3>2. _value[w] = Digits[w.of] /\ w.of \in Nat
            BY <2>2, PlainStep
        <3> DEFINE x == Digits[v.of]
                   y == Digits[w.of]
                   W == {Digits[n] : n \in Nat}
        <3>3. x \in W /\ y \in W /\ Cat(x, t) = Cat(y, u)
            BY <3>1, <3>2
        <3>4. Told(W, Tails)
            BY DigitsTold
        <3> HIDE DEF W, x, y
        <3>5. x = y /\ t = u
            BY ONLY <3>3, <3>4 DEF Told
        <3>6. v.of = w.of
            <4>1. Digits[v.of] = Digits[w.of]
                BY <3>5 DEF x, y
            <4> QED
                BY <3>1, <3>2, <4>1, DigitsDiffer
        <3> QED
            BY <3>5, <3>6
    <2>3. CASE v.kind = "string"
        <3>1. _value[v] = _string(v.of) /\ v.of \in Seq(Chars) /\ Good(v.of)
            BY <2>3, PlainStep
        <3>2. _value[w] = _string(w.of) /\ w.of \in Seq(Chars) /\ Good(w.of)
            BY <2>3, PlainStep
        <3>3. Cat(_string(v.of), t) = Cat(_string(w.of), u)
            BY <3>1, <3>2
        <3> QED
            BY <1>1, <3>1, <3>2, <3>3, StringTold
    <2> QED
        BY <2>1, <2>2, <2>3
<1>3. Alike(v, w, SameAs)
    BY <1>2, AlikeIs
<1> QED
    BY <1>2, <1>3, SameIs

(* Two arrays with the same text, whatever follows it, are the same. *)
LEMMA ArrayTold ==
    ASSUME NEW d \in Nat, TextsTell(d), NEW v \in Fit(d + 1), NEW w \in Fit(d + 1),
           v.kind = "array", w.kind = "array",
           NEW t \in Tails, NEW u \in Tails, Cat(_value[v], t) = Cat(_value[w], u)
    PROVE  t = u /\ w \in SameAs[v]
<1> DEFINE p == PartTexts(v)
           q == PartTexts(w)
<1>0. v \in Values /\ w \in Values /\ Depth[v] < d + 1 /\ Depth[w] < d + 1 /\ InProfile[v]
          /\ InProfile[w]
    BY DEF Fit
<1>1. /\ _value[v] = Bracketed("left_bracket", p, "right_bracket") /\ DOMAIN v.of = 1..Len(v.of)
      /\ p \in Seq(ValueTexts(d)) /\ Len(p) = Len(v.of)
      /\ \A i \in 1..Len(v.of) : v.of[i] \in Fit(d)
    BY <1>0, ArrayStep
<1>2. /\ _value[w] = Bracketed("left_bracket", q, "right_bracket") /\ DOMAIN w.of = 1..Len(w.of)
      /\ q \in Seq(ValueTexts(d)) /\ Len(q) = Len(w.of)
      /\ \A i \in 1..Len(w.of) : w.of[i] \in Fit(d)
    BY <1>0, ArrayStep
<1>3. Words(ValueTexts(d)) /\ "right_bracket" \in Closes
    BY DEF TextsTell, Closes
<1>4. (\A i \in 1..Len(v.of) : p[i] = _value[v.of[i]])
          /\ (\A i \in 1..Len(w.of) : q[i] = _value[w.of[i]])
    BY <1>1, <1>2 DEF PartTexts
<1> HIDE DEF p, q
<1>5. Cat(Bracketed("left_bracket", p, "right_bracket"), t)
          = Cat(Bracketed("left_bracket", q, "right_bracket"), u)
    BY <1>1, <1>2
<1>6. p = q /\ t = u
    <2>1. p \in Seq(ValueTexts(d)) /\ q \in Seq(ValueTexts(d)) /\ "left_bracket" \in Letters
        BY <1>1, <1>2, BracketsAre
    <2> QED
        BY ONLY <1>3, <1>5, <2>1, t \in Tails, u \in Tails, BracketTold
<1>7. Len(v.of) = Len(w.of)
    BY <1>1, <1>2, <1>6
<1>8. \A i \in DOMAIN v.of : w.of[i] \in SameAs[v.of[i]]
    <2> TAKE i \in DOMAIN v.of
    <2>1. i \in 1..Len(v.of) /\ i \in 1..Len(w.of)
        BY <1>1, <1>7
    <2>2. _value[v.of[i]] = _value[w.of[i]]
        BY <1>4, <1>6, <2>1
    <2>3. v.of[i] \in Fit(d) /\ w.of[i] \in Fit(d)
        BY <1>1, <1>2, <2>1
    <2> QED
        BY <2>2, <2>3 DEF TextsTell
<1>9. Alike(v, w, SameAs)
    BY <1>7, <1>8, AlikeIs
<1> QED
    BY <1>0, <1>6, <1>9, SameIs

(* Two objects with the same text, whatever follows it, are the same. *)
LEMMA ObjectTold ==
    ASSUME NEW d \in Nat, TextsTell(d), NEW v \in Fit(d + 1), NEW w \in Fit(d + 1),
           v.kind = "object", w.kind = "object",
           NEW t \in Tails, NEW u \in Tails, Cat(_value[v], t) = Cat(_value[w], u)
    PROVE  t = u /\ w \in SameAs[v]
<1> DEFINE m == v.of
           l == w.of
           p == Members(m, _value)
           q == Members(l, _value)
           r == Sorted(m)
           s == Sorted(l)
<1>0. v \in Values /\ w \in Values /\ Depth[v] < d + 1 /\ Depth[w] < d + 1 /\ InProfile[v]
          /\ InProfile[w]
    BY DEF Fit
<1>1. /\ _value[v] = Bracketed("left_brace", p, "right_brace") /\ DOMAIN m = 1..Len(m) /\ Named(m)
      /\ p \in Seq(MemberTexts(d)) /\ Len(p) = Len(m)
      /\ \A i \in 1..Len(m) : p[i] = Member(r[i], _value)
      /\ \A i \in 1..Len(m) : r[i] \in FitPairs(d)
    BY <1>0, ObjectStep
<1>2. /\ _value[w] = Bracketed("left_brace", q, "right_brace") /\ DOMAIN l = 1..Len(l) /\ Named(l)
      /\ q \in Seq(MemberTexts(d)) /\ Len(q) = Len(l)
      /\ \A i \in 1..Len(l) : q[i] = Member(s[i], _value)
      /\ \A i \in 1..Len(l) : s[i] \in FitPairs(d)
    BY <1>0, ObjectStep
<1>3. Words(MemberTexts(d)) /\ "right_brace" \in Closes
    BY MemberWords DEF Closes
<1> HIDE DEF p, q
<1>5. Cat(Bracketed("left_brace", p, "right_brace"), t)
          = Cat(Bracketed("left_brace", q, "right_brace"), u)
    BY <1>1, <1>2
<1>6. p = q /\ t = u
    <2>1. p \in Seq(MemberTexts(d)) /\ q \in Seq(MemberTexts(d)) /\ "left_brace" \in Letters
        BY <1>1, <1>2, BracketsAre
    <2> QED
        BY ONLY <1>3, <1>5, <2>1, t \in Tails, u \in Tails, BracketTold
<1>7. Len(m) = Len(l)
    BY <1>1, <1>2, <1>6
<1>8. \A i \in 1..Len(m) : r[i].name = s[i].name /\ _value[r[i].value] = _value[s[i].value]
    <2> TAKE i \in 1..Len(m)
    <2> DEFINE x == r[i]
               y == s[i]
               none == <<>>
    <2>1. x \in FitPairs(d) /\ y \in FitPairs(d) /\ Member(x, _value) = Member(y, _value)
        BY <1>1, <1>2, <1>6, <1>7
    <2>2. none \in Tails
        BY EndsAre
    <2> HIDE DEF x, y, none
    <2>3. Cat(Member(x, _value), none) = Cat(Member(y, _value), none)
        BY <2>1
    <2>4. x.name = y.name /\ _value[x.value] = _value[y.value]
        BY <2>1, <2>2, <2>3, MemberTold
    <2> QED
        BY <2>4 DEF x, y
<1>9. MemberNames(m) = MemberNames(l)
    BY <1>1, <1>2, <1>7, <1>8, SameNames
<1>10. \A i \in 1..Len(m) : \E k \in 1..Len(m) : r[k] = m[i]
    BY <1>1, SortedIs
<1>11. \A i \in 1..Len(l) : \E k \in 1..Len(l) : s[i] = l[k]
    BY <1>2, SortedIs
<1>12. ASSUME NEW i \in 1..Len(m), NEW j \in 1..Len(l), m[i].name = l[j].name
       PROVE  l[j].value \in SameAs[m[i].value]
    <2>1. PICK k \in 1..Len(m) : r[k] = m[i]
        BY <1>10
    <2>2. k \in 1..Len(l)
        BY <1>7
    <2>3. PICK h \in 1..Len(l) : s[k] = l[h]
        BY <1>11, <2>2
    <2>4. l[h].name = l[j].name
        BY <1>8, <1>12, <2>1, <2>3
    <2>5. h = j
        BY <1>2, <2>4 DEF Named
    <2>6. _value[m[i].value] = _value[l[j].value]
        BY <1>8, <2>1, <2>3, <2>5
    <2>7. m[i].value \in Fit(d) /\ l[j].value \in Fit(d)
        BY <1>1, <1>2, <2>1, <2>2, <2>3, <2>5 DEF FitPairs
    <2> QED
        BY <2>6, <2>7 DEF TextsTell
<1>13. Alike(v, w, SameAs)
    BY <1>1, <1>2, <1>9, <1>12, AlikeIs
<1> QED
    BY <1>0, <1>6, <1>13, SameIs

-----------------------------------------------------------------------------
(* And two that are the same have the same text. *)
LEMMA SameText ==
    ASSUME NEW d \in Nat, TextsTell(d), NEW v \in Fit(d + 1), NEW w \in Fit(d + 1), w \in SameAs[v]
    PROVE  _value[v] = _value[w]
<1>1. v \in Values /\ w \in Values /\ Depth[v] < d + 1 /\ Depth[w] < d + 1 /\ InProfile[v]
          /\ InProfile[w]
    BY DEF Fit
<1>2. Alike(v, w, SameAs)
    BY <1>1, SameIs
<1>3. v.kind = w.kind
    BY <1>2, AlikeIs
<1>4. v.kind \in {"constant", "integer", "string", "object", "array"}
    BY ValueFirst, FirstTells
<1>5. CASE v.kind \in {"constant", "integer", "string"}
    <2>1. v.of = w.of
        BY <1>2, <1>3, <1>5, AlikeIs
    <2>2. v.kind = "constant" => _value[v] = <<v.of>> /\ _value[w] = <<w.of>>
        BY <1>1, <1>3, PlainStep
    <2>3. v.kind = "integer" => _value[v] = Digits[v.of] /\ _value[w] = Digits[w.of]
        BY <1>1, <1>3, PlainStep
    <2>4. v.kind = "string" => _value[v] = _string(v.of) /\ _value[w] = _string(w.of)
        BY <1>1, <1>3, PlainStep
    <2> QED
        BY <1>5, <2>1, <2>2, <2>3, <2>4
<1>6. CASE v.kind = "array"
    <2> DEFINE p == PartTexts(v)
               q == PartTexts(w)
    <2>1. /\ _value[v] = Bracketed("left_bracket", p, "right_bracket") /\ DOMAIN v.of = 1..Len(v.of)
          /\ \A i \in 1..Len(v.of) : v.of[i] \in Fit(d)
        BY <1>1, <1>6, ArrayStep
    <2>2. /\ _value[w] = Bracketed("left_bracket", q, "right_bracket") /\ DOMAIN w.of = 1..Len(w.of)
          /\ \A i \in 1..Len(w.of) : w.of[i] \in Fit(d)
        BY <1>1, <1>3, <1>6, ArrayStep
    <2>3. Len(v.of) = Len(w.of) /\ \A i \in DOMAIN v.of : w.of[i] \in SameAs[v.of[i]]
        BY <1>2, <1>3, <1>6, AlikeIs
    <2>4. \A i \in DOMAIN v.of : _value[v.of[i]] = _value[w.of[i]]
        BY <2>1, <2>2, <2>3 DEF TextsTell
    <2>5. p = q
        BY <2>1, <2>2, <2>3, <2>4 DEF PartTexts
    <2> QED
        BY <2>1, <2>2, <2>5
<1>7. CASE v.kind = "object"
    <2> DEFINE m == v.of
               l == w.of
               p == Members(m, _value)
               q == Members(l, _value)
               r == Sorted(m)
               s == Sorted(l)
    <2>1. /\ _value[v] = Bracketed("left_brace", p, "right_brace") /\ DOMAIN m = 1..Len(m)
              /\ Named(m)
          /\ \A i \in 1..Len(m) : r[i] \in FitPairs(d)
        BY <1>1, <1>7, ObjectStep
    <2>2. /\ _value[w] = Bracketed("left_brace", q, "right_brace") /\ DOMAIN l = 1..Len(l)
              /\ Named(l)
          /\ \A i \in 1..Len(l) : s[i] \in FitPairs(d)
        BY <1>1, <1>3, <1>7, ObjectStep
    <2>3. /\ MemberNames(m) = MemberNames(l)
          /\ \A i \in DOMAIN m, j \in DOMAIN l : m[i].name = l[j].name => l[j].value \in SameAs[m[i].value]
        BY <1>2, <1>3, <1>7, AlikeIs
    <2>4. Len(m) = Len(l) /\ \A i \in 1..Len(m) : r[i].name = s[i].name
        BY <2>1, <2>2, <2>3, SameNames
    <2>5. \A i \in 1..Len(m) : \E k \in 1..Len(m) : r[i] = m[k]
        BY <2>1, SortedIs
    <2>6. \A i \in 1..Len(l) : \E k \in 1..Len(l) : s[i] = l[k]
        BY <2>2, SortedIs
    <2>7. ASSUME NEW i \in 1..Len(m) PROVE Member(r[i], _value) = Member(s[i], _value)
        <3>1. PICK k \in 1..Len(m) : r[i] = m[k]
            BY <2>5
        <3>2. i \in 1..Len(l)
            BY <2>4
        <3>3. PICK j \in 1..Len(l) : s[i] = l[j]
            BY <2>6, <3>2
        <3>4. m[k].name = l[j].name
            BY <2>4, <3>1, <3>3
        <3>5. l[j].value \in SameAs[m[k].value]
            BY <2>1, <2>2, <2>3, <3>4
        <3>6. m[k].value \in Fit(d) /\ l[j].value \in Fit(d)
            BY <2>1, <2>2, <3>1, <3>2, <3>3 DEF FitPairs
        <3>7. _value[m[k].value] = _value[l[j].value]
            BY <3>5, <3>6 DEF TextsTell
        <3> QED
            BY <3>1, <3>3, <3>4, <3>7 DEF Member
    <2>8. p = q
        BY <2>1, <2>2, <2>4, <2>7 DEF Members
    <2> QED
        BY <2>1, <2>2, <2>8
<1> QED
    BY <1>4, <1>5, <1>6, <1>7

(* If texts tell all values of a depth apart, they do so one level deeper. *)
LEMMA TextsTellDeeper ==
    ASSUME NEW d \in Nat, TextsTell(d)
    PROVE  TextsTell(d + 1)
<1>1. ASSUME NEW v \in Values, Depth[v] < d + 1, ~InProfile[v] PROVE _value[v] = NoText
    <2>1. CASE v.kind = "object"
        BY <1>1, <2>1, ObjectStep
    <2>2. CASE v.kind = "array"
        BY <1>1, <2>2, ArrayStep
    <2>3. CASE v.kind \notin {"object", "array"}
        BY <1>1, <2>3, PlainNone
    <2> QED
        BY <2>1, <2>2, <2>3
<1>2. ASSUME NEW v \in Fit(d + 1), NEW w \in Fit(d + 1), NEW t \in Tails, NEW u \in Tails,
             Cat(_value[v], t) = Cat(_value[w], u)
      PROVE  t = u /\ w \in SameAs[v]
    <2>1. v \in Values /\ w \in Values /\ InProfile[v] /\ InProfile[w]
        BY DEF Fit
    <2>2. v.kind = w.kind /\ v.kind \in {"constant", "integer", "string", "object", "array"}
        <3> DEFINE x == _value[v]
                   y == _value[w]
        <3>1. x \in Seq(Letters) /\ x # <<>> /\ FirstRow(v.kind, x[1])
            BY ValueFirst
        <3>2. y \in Seq(Letters) /\ y # <<>> /\ FirstRow(w.kind, y[1])
            BY ValueFirst
        <3>3. t \in Seq(Letters) /\ u \in Seq(Letters)
            BY EndsAre
        <3> HIDE DEF x, y
        <3>4. Cat(x, t)[1] = x[1] /\ Cat(y, u)[1] = y[1]
            BY <3>1, <3>2, <3>3, CatFirst
        <3>5. x[1] = y[1]
            BY <1>2, <3>4 DEF x, y
        <3> QED
            BY <3>1, <3>2, <3>5, FirstTells
    <2>3. CASE v.kind \in {"constant", "integer", "string"}
        BY <1>2, <2>1, <2>2, <2>3, PlainTold
    <2>4. CASE v.kind = "object"
        BY <1>2, <2>2, <2>4, ObjectTold
    <2>5. CASE v.kind = "array"
        BY <1>2, <2>2, <2>5, ArrayTold
    <2> QED
        BY <2>2, <2>3, <2>4, <2>5
<1>3. ASSUME NEW v \in Fit(d + 1), NEW w \in Fit(d + 1), _value[v] = _value[w] PROVE w \in SameAs[v]
    <2> DEFINE none == <<>>
    <2>1. none \in Tails
        BY EndsAre
    <2> HIDE DEF none
    <2>2. Cat(_value[v], none) = Cat(_value[w], none)
        BY <1>3
    <2> QED
        BY <1>2, <2>1, <2>2
<1>4. Words(ValueTexts(d + 1))
    <2>1. \A x \in ValueTexts(d + 1) : x \in Seq(Letters) /\ x # <<>> /\ x[1] \notin EndMarks
        <3> SUFFICES ASSUME NEW v \in Fit(d + 1)
                     PROVE  _value[v] \in Seq(Letters) /\ _value[v] # <<>>
                         /\ _value[v][1] \notin EndMarks
            BY DEF ValueTexts
        <3> QED
            BY ValueFirst, FirstTells
    <2>2. Told(ValueTexts(d + 1), Tails)
        <3>1. ASSUME NEW v \in Fit(d + 1), NEW w \in Fit(d + 1), NEW t \in Tails, NEW u \in Tails,
                     Cat(_value[v], t) = Cat(_value[w], u)
              PROVE  _value[v] = _value[w] /\ t = u
            BY <1>2, <3>1, SameText
        <3> QED
            BY <3>1 DEF Told, ValueTexts
    <2> QED
        BY <2>1, <2>2 DEF Words
<1> QED
    BY <1>1, <1>3, <1>4, SameText DEF TextsTell

(* Texts tell values of every depth apart. *)
LEMMA TextsTellAll == \A d \in Nat : TextsTell(d)
<1> DEFINE T == {d \in Nat : TextsTell(d)}
<1>1. 0 \in T
    <2>1. \A v \in Values : ~(Depth[v] < 0)
        BY ValueIs
    <2>2. Fit(0) = {}
        BY <2>1 DEF Fit
    <2>3. ValueTexts(0) = {}
        BY <2>2 DEF ValueTexts
    <2>4. Words({})
        BY DEF Words, Told
    <2> QED
        BY <2>1, <2>2, <2>3, <2>4 DEF TextsTell
<1>2. ASSUME NEW d \in Nat, d \in T PROVE d + 1 \in T
    BY <1>2, TextsTellDeeper
<1> HIDE DEF T
<1>3. \A d \in Nat : d \in T
    BY <1>1, <1>2, EveryNumber
<1> QED
    BY <1>3 DEF T

-----------------------------------------------------------------------------
(* What is the same as a value that the profile allows is allowed by it. *)
LEMMA SameFits ==
    ASSUME NEW v \in Values, NEW w \in SameAs[v], InProfile[v], w \in Values
    PROVE  InProfile[w]
<1> DEFINE T == {d \in Nat : \A x, y \in Values : Depth[x] < d /\ InProfile[x] /\ y \in SameAs[x] => InProfile[y]}
<1>1. 0 \in T
    BY ValueIs
<1>2. ASSUME NEW d \in Nat, d \in T PROVE d + 1 \in T
    <2>1. ASSUME NEW x \in Values, NEW y \in Values, Depth[x] < d + 1, InProfile[x], y \in SameAs[x]
          PROVE  InProfile[y]
        <3>1. Alike(x, y, SameAs) /\ Allowed(x, InProfile)
                  /\ (InProfile[y] <=> Allowed(y, InProfile))
            BY <2>1, SameIs, ProfileIs
        <3>2. x.kind = y.kind
            BY <3>1, AlikeIs
        <3>3. \A z \in Values : Depth[z] < Depth[x] => Depth[z] < d
            BY <2>1, ValueIs
        <3>4. CASE x.kind = "object"
            <4>1. /\ MemberNames(x.of) = MemberNames(y.of)
                  /\ \A i \in DOMAIN x.of, j \in DOMAIN y.of :
                        x.of[i].name = y.of[j].name => y.of[j].value \in SameAs[x.of[i].value]
                BY <3>1, <3>2, <3>4, AlikeIs
            <4>2. \A i \in DOMAIN x.of : InProfile[x.of[i].value] /\ Good(x.of[i].name)
                BY <3>1, <3>4, AllowedIs
            <4>3. ASSUME NEW j \in DOMAIN y.of PROVE InProfile[y.of[j].value] /\ Good(y.of[j].name)
                <5>1. y.of[j].name \in MemberNames(x.of)
                    BY <4>1 DEF MemberNames
                <5>2. PICK i \in DOMAIN x.of : x.of[i].name = y.of[j].name
                    BY <5>1 DEF MemberNames
                <5>3. x.of[i].value \in Values /\ Depth[x.of[i].value] < d
                    BY <3>3, <3>4, ObjectIs
                <5>4. y.of[j].value \in Values
                    BY <3>2, <3>4, ObjectIs
                <5>5. y.of[j].value \in SameAs[x.of[i].value] /\ InProfile[x.of[i].value]
                    BY <4>1, <4>2, <5>2
                <5>6. InProfile[y.of[j].value]
                    BY <1>2, <5>3, <5>4, <5>5
                <5> QED
                    BY <4>2, <5>2, <5>6
            <4> QED
                BY <3>1, <3>2, <3>4, <4>3, AllowedIs
        <3>5. CASE x.kind = "array"
            <4>1. Len(x.of) = Len(y.of) /\ \A i \in DOMAIN x.of : y.of[i] \in SameAs[x.of[i]]
                BY <3>1, <3>2, <3>5, AlikeIs
            <4>2. \A i \in DOMAIN x.of : InProfile[x.of[i]]
                BY <3>1, <3>5, AllowedIs
            <4>3. DOMAIN x.of = 1..Len(x.of) /\ DOMAIN y.of = 1..Len(y.of)
                BY <3>2, <3>5, ArrayIs
            <4>4. ASSUME NEW i \in DOMAIN y.of PROVE InProfile[y.of[i]]
                <5>1. i \in DOMAIN x.of
                    BY <4>1, <4>3
                <5>2. x.of[i] \in Values /\ Depth[x.of[i]] < d
                    BY <3>3, <3>5, <5>1, ArrayIs
                <5>3. y.of[i] \in Values
                    BY <3>2, <3>5, ArrayIs
                <5> QED
                    BY <1>2, <4>1, <4>2, <5>1, <5>2, <5>3
            <4> QED
                BY <3>1, <3>2, <3>5, <4>4, AllowedIs
        <3>6. CASE x.kind \notin {"object", "array"}
            <4>1. x.of = y.of
                BY <3>1, <3>2, <3>6, AlikeIs
            <4> QED
                BY <3>1, <3>2, <3>6, <4>1, AllowedIs
        <3> QED
            BY <3>4, <3>5, <3>6
    <2>2. d + 1 \in Nat
        OBVIOUS
    <2> QED
        BY <2>1, <2>2
<1> HIDE DEF T
<1>3. \A d \in Nat : d \in T
    BY <1>1, <1>2, EveryNumber
<1>4. Depth[v] \in Nat
    BY ValueIs
<1>5. Depth[v] + 1 \in T /\ Depth[v] < Depth[v] + 1
    BY <1>3, <1>4
<1> QED
    BY <1>5 DEF T

(* One text for each value: a value has a text exactly if the profile allows all of it,
   and two have the same one exactly if they are the same. *)
LEMMA OneText ==
    ASSUME NEW v \in Values, NEW w \in Values
    PROVE  /\ _value[v] # NoText <=> InProfile[v]
           /\ InProfile[v] => (w \in SameAs[v] <=> _value[v] = _value[w])
<1> DEFINE d == Depth[v] + Depth[w] + 1
<1>1. d \in Nat /\ Depth[v] < d /\ Depth[w] < d
    BY ValueIs
<1> HIDE DEF d
<1>2. TextsTell(d)
    BY <1>1, TextsTellAll
<1>3. \A x \in {v, w} : _value[x] # NoText <=> InProfile[x]
    <2>1. ASSUME NEW x \in {v, w}, InProfile[x] PROVE _value[x] # NoText
        <3>1. x \in Fit(d)
            BY <1>1, <2>1 DEF Fit
        <3> QED
            BY <1>1, <1>2, <3>1, FitText
    <2>2. ASSUME NEW x \in {v, w}, ~InProfile[x] PROVE _value[x] = NoText
        BY <1>1, <1>2, <2>2 DEF TextsTell
    <2> QED
        BY <2>1, <2>2
<1>4. ASSUME InProfile[v], w \in SameAs[v] PROVE _value[v] = _value[w]
    <2>1. InProfile[w]
        BY <1>4, SameFits
    <2>2. v \in Fit(d) /\ w \in Fit(d)
        BY <1>1, <1>4, <2>1 DEF Fit
    <2> QED
        BY <1>2, <1>4, <2>2 DEF TextsTell
<1>5. ASSUME InProfile[v], _value[v] = _value[w] PROVE w \in SameAs[v]
    <2>1. InProfile[w]
        BY <1>3, <1>5
    <2>2. v \in Fit(d) /\ w \in Fit(d)
        BY <1>1, <1>5, <2>1 DEF Fit
    <2> QED
        BY <1>2, <1>5, <2>2 DEF TextsTell
<1> QED
    BY <1>3, <1>4, <1>5

(* The canonical bytes of a document are the text of the object it is. *)
LEMMA DocumentText ==
    ASSUME NEW m \in Documents \cup {<<>>}
    PROVE  Object(m) \in Values /\ canonical_bytes(m) = _value[Object(m)]
<1>1. Object(m) \in Values
    BY CanonicalAssumption
<1>2. Object(m).kind = "object" /\ Object(m).of = m
    BY DEF Object
<1>3. _value[Object(m)] = _object(m, _value)
    BY <1>1, <1>2, TextIs, SerializedIs
<1> QED
    BY <1>1, <1>3 DEF canonical_bytes

CanonicalTypeOK == document \in Documents \cup {<<>>} /\ other \in Documents \cup {<<>>}

(* What is sent, and what comes with it, are documents. *)
THEOREM CanonicalTypeCorrect == CanonicalSpec => []CanonicalTypeOK
<1>1. CanonicalInit => CanonicalTypeOK
    BY DEF CanonicalInit, CanonicalTypeOK
<1>2. CanonicalTypeOK /\ [CanonicalNext]_canonicalVars => CanonicalTypeOK'
    BY DEF CanonicalTypeOK, CanonicalNext, Put, Swap, canonicalVars
<1> QED
    BY <1>1, <1>2, PTL DEF CanonicalSpec

(* Each document has one text, whatever its values, however deep: the id that
   submission.py makes of it stands for it alone, among all that the profile allows. *)
THEOREM OneTextOnly == CanonicalSpec => []OneTextEach
<1>1. CanonicalTypeOK => OneTextEach
    <2> SUFFICES ASSUME CanonicalTypeOK PROVE OneTextEach
        OBVIOUS
    <2> DEFINE v == Object(document)
               w == Object(other)
    <2>1. v \in Values /\ canonical_bytes(document) = _value[v]
        BY DocumentText DEF CanonicalTypeOK
    <2>2. w \in Values /\ canonical_bytes(other) = _value[w]
        BY DocumentText DEF CanonicalTypeOK
    <2>3. v.kind = "object" /\ w.kind = "object" /\ v.of = document /\ w.of = other
        BY DEF Object
    <2> HIDE DEF v, w
    <2>4. w \in SameAs[v] => MemberNames(document) = MemberNames(other)
        BY <2>1, <2>2, <2>3, SameIs, AlikeIs
    <2>5. /\ _value[v] # NoText <=> InProfile[v]
          /\ InProfile[v] => (w \in SameAs[v] <=> _value[v] = _value[w])
        BY <2>1, <2>2, OneText
    <2>6. verify_route_artifact_id(submission_artifact_id(document), other) <=>
                w \in SameAs[v] /\ InProfile[v] /\ <<"artifact_id">> \notin MemberNames(document)
        <3>1. CASE <<"artifact_id">> \in MemberNames(document)
            BY <3>1 DEF verify_route_artifact_id, submission_artifact_id
        <3>2. CASE <<"artifact_id">> \notin MemberNames(document)
            <4>1. submission_artifact_id(document) = _value[v]
                BY <2>1, <3>2 DEF submission_artifact_id
            <4>2. CASE <<"artifact_id">> \in MemberNames(other)
                <5>1. submission_artifact_id(other) = NoText
                    BY <4>2 DEF submission_artifact_id
                <5> QED
                    BY <2>4, <3>2, <4>1, <4>2, <5>1 DEF verify_route_artifact_id
            <4>3. CASE <<"artifact_id">> \notin MemberNames(other)
                <5>1. submission_artifact_id(other) = _value[w]
                    BY <2>2, <4>3 DEF submission_artifact_id
                <5> QED
                    BY <2>5, <3>2, <4>1, <5>1 DEF verify_route_artifact_id
            <4> QED
                BY <4>2, <4>3
        <3> QED
            BY <3>1, <3>2
    <2> QED
        BY <2>1, <2>2, <2>5, <2>6 DEF OneTextEach, v, w
<1> QED
    BY <1>1, CanonicalTypeCorrect, PTL

=============================================================================
