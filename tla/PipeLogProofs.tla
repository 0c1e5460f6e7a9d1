--------------------------- MODULE PipeLogProofs ---------------------------
(***************************************************************************)
(* Proofs about the console log files (PipeLog): a follower of a whole     *)
(* file misses no line, the file stays below maxsize, and tailN sends      *)
(* exactly the last lines of it.                                           *)
(*                                                                         *)
(* The invariant PipeInv adds to the two invariants the runs check what    *)
(* makes them inductive: writers and followers hold what their step needs  *)
(* (Shape), a follower that is still reading has been sent what it has     *)
(* passed (Complete), and the one handle with an open file counts the      *)
(* bytes of the file that has the name (Counted).                          *)
(***************************************************************************)
EXTENDS PipeLog, FiniteSetTheorems, TLAPS

(* Numbers.  Induction is by the least counterexample. *)

\* The order of the naturals, as a relation.
Below == {p \in Nat \X Nat : p[1] < p[2]}

\* A set of numbers that is not empty has a least one.
LEMMA LeastNumber ==
    ASSUME NEW T \in SUBSET Nat, T # {}
    PROVE  \E n \in T : \A m \in T : n <= m
<1>1. IsWellFoundedOn(Below, Nat)
  BY NatLessThanWellFounded, Zenon DEF OpToRel, Below
<1>2. \E x \in T : \A y \in T : ~(<<y, x>> \in Below)
  BY <1>1, WFMin
<1>3. PICK x \in T : \A y \in T : ~(<<y, x>> \in Below)
  BY <1>2
<1>4. \A y \in T : ~(y < x)
  BY <1>3 DEF Below
<1> QED BY <1>4

\* The constants.
LEMMA Bounds ==
    /\ MaxLines \in Nat /\ MaxSize \in Nat /\ Block \in Nat /\ MaxRemoves \in Nat
    /\ MaxFaults \in Nat /\ MaxSize > 0 /\ Block > 0
    /\ Size \in [Line -> Nat \ {0}] /\ Asked \subseteq Int
  BY PipeAssumption
-----------------------------------------------------------------------------
(* Bytes. *)

\* f sums the sizes of the first n pieces of c.
Sums(f, c, n) ==
    f = [k \in 0..n |-> IF k = 0 THEN 0 ELSE f[k - 1] + c[k].bytes]

\* The function that Bytes defines exists,
LEMMA SumsExist ==
    ASSUME NEW c \in Seq(Piece)
    PROVE  \E f : Sums(f, c, Len(c))
<1> DEFINE T == {n \in 0..Len(c) : ~\E f : Sums(f, c, n)}
<1>1. T = {}
  <2> SUFFICES ASSUME T # {} PROVE FALSE
    OBVIOUS
  <2>0. T \in SUBSET Nat /\ Len(c) \in Nat
    OBVIOUS
  <2>1. PICK n \in T : \A m \in T : n <= m
    <3> HIDE DEF T
    <3> QED BY <2>0, LeastNumber
  <2>2. n # 0
    <3>1. Sums([k \in 0..0 |-> 0], c, 0)
      BY DEF Sums
    <3> QED BY <3>1
  <2>3. n - 1 \in 0..Len(c) /\ n - 1 \notin T /\ n \in Nat
    BY <2>1, <2>2
  <2>4. PICK g : Sums(g, c, n - 1)
    BY <2>3
  <2> DEFINE f == [k \in 0..n |-> IF k < n THEN g[k] ELSE g[n - 1] + c[n].bytes]
  <2>5. \A k \in 0..n - 1 : g[k] = IF k = 0 THEN 0 ELSE g[k - 1] + c[k].bytes
    BY <2>3, <2>4 DEF Sums
  <2>6. \A k \in 0..n : f[k] = IF k = 0 THEN 0 ELSE f[k - 1] + c[k].bytes
    BY <2>2, <2>3, <2>5
  <2>7. f = [k \in 0..n |-> f[k]]
    OBVIOUS
  <2>8. \E h : Sums(h, c, n)
    <3> HIDE DEF f
    <3>1. Sums(f, c, n)
      BY <2>6, <2>7 DEF Sums
    <3> QED BY <3>1
  <2>9. ~\E h : Sums(h, c, n)
    BY <2>1, Zenon
  <2> QED BY <2>8, <2>9, Zenon
<1>2. Len(c) \in 0..Len(c)
  OBVIOUS
<1> QED BY <1>1, <1>2, Zenon

\* so Bytes is its last value.
LEMMA BytesIs ==
    ASSUME NEW c \in Seq(Piece)
    PROVE  \E f : Sums(f, c, Len(c)) /\ Bytes(c) = f[Len(c)]
<1>1. Bytes(c) = (CHOOSE f : Sums(f, c, Len(c)))[Len(c)]
  BY DEF Bytes, Sums
<1> QED BY <1>1, SumsExist

\* A size is a natural number, and nothing has none.
LEMMA BytesFacts ==
    ASSUME NEW c \in Seq(Piece)
    PROVE  Bytes(c) \in Nat /\ (c = <<>> => Bytes(c) = 0)
<1>1. PICK f : Sums(f, c, Len(c)) /\ Bytes(c) = f[Len(c)]
  BY BytesIs
<1>2. \A k \in 0..Len(c) : f[k] = IF k = 0 THEN 0 ELSE f[k - 1] + c[k].bytes
  BY <1>1 DEF Sums
<1>3. \A k \in 1..Len(c) : c[k].bytes \in Nat \ {0}
  <2>1. \A k \in 1..Len(c) : c[k] \in Piece
    OBVIOUS
  <2>2. \A x \in Piece : x.bytes \in Nat \ {0}
    BY DEF Piece
  <2> QED BY <2>1, <2>2
<1> DEFINE T == {k \in 0..Len(c) : f[k] \notin Nat}
<1>4. T = {}
  <2> SUFFICES ASSUME T # {} PROVE FALSE
    OBVIOUS
  <2>1. T \in SUBSET Nat /\ Len(c) \in Nat
    OBVIOUS
  <2>2. PICK k \in T : \A m \in T : k <= m
    <3> HIDE DEF T
    <3> QED BY <2>1, LeastNumber
  <2>3. k # 0
    BY <1>2
  <2>4. k - 1 \in 0..Len(c) /\ k - 1 \notin T /\ k \in 1..Len(c)
    BY <2>2, <2>3
  <2> QED BY <1>2, <1>3, <2>2, <2>4
<1> QED BY <1>1, <1>2, <1>4

\* A piece adds its bytes to the file it is appended to.
LEMMA BytesAppend ==
    ASSUME NEW c \in Seq(Piece), NEW x \in Piece
    PROVE  Bytes(Append(c, x)) = Bytes(c) + x.bytes
<1> DEFINE d == Append(c, x)
<1>0. d \in Seq(Piece) /\ Len(d) = Len(c) + 1 /\ Len(c) \in Nat /\ d[Len(d)] = x
      /\ \A k \in 1..Len(c) : d[k] = c[k]
  OBVIOUS
<1> HIDE DEF d
<1>1. PICK f : Sums(f, c, Len(c)) /\ Bytes(c) = f[Len(c)]
  BY BytesIs
<1>2. PICK g : Sums(g, d, Len(d)) /\ Bytes(d) = g[Len(d)]
  BY <1>0, BytesIs
<1>3. /\ \A k \in 0..Len(c) : f[k] = IF k = 0 THEN 0 ELSE f[k - 1] + c[k].bytes
      /\ \A k \in 0..Len(d) : g[k] = IF k = 0 THEN 0 ELSE g[k - 1] + d[k].bytes
  BY <1>1, <1>2 DEF Sums
<1> DEFINE T == {k \in 0..Len(c) : f[k] # g[k]}
<1>4. T = {}
  <2> SUFFICES ASSUME T # {} PROVE FALSE
    OBVIOUS
  <2>1. T \in SUBSET Nat
    OBVIOUS
  <2>2. PICK k \in T : \A m \in T : k <= m
    <3> HIDE DEF T
    <3> QED BY <2>1, LeastNumber
  <2>3. k # 0
    BY <1>0, <1>3
  <2>4. k - 1 \in 0..Len(c) /\ k - 1 \notin T /\ k \in 1..Len(c) /\ k \in 0..Len(d)
    BY <1>0, <2>2, <2>3
  <2> QED BY <1>0, <1>3, <2>2, <2>3, <2>4
<1>5. f[Len(c)] = g[Len(c)]
  BY <1>0, <1>4
<1>6. Bytes(d) = g[Len(c)] + x.bytes
  BY <1>0, <1>2, <1>3
<1> QED BY <1>1, <1>5, <1>6 DEF d
-----------------------------------------------------------------------------
(* tailN. *)

\* A piece starts at some byte, the first one at none.
LEMMA OffsetFacts ==
    ASSUME NEW c \in Seq(Piece)
    PROVE  Offset(c, 1) = 0 /\ \A k \in 1..Len(c) : Offset(c, k) \in Nat
<1>1. Offset(c, 1) = 0
  <2>1. SubSeq(c, 1, 1 - 1) = <<>> /\ <<>> \in Seq(Piece)
    OBVIOUS
  <2> QED BY <2>1, BytesFacts DEF Offset
<1>2. ASSUME NEW k \in 1..Len(c) PROVE Offset(c, k) \in Nat
  <2>1. SubSeq(c, 1, k - 1) \in Seq(Piece)
    OBVIOUS
  <2> QED BY <2>1, BytesFacts DEF Offset
<1> QED BY <1>1, <1>2

\* A file has finitely many lines, and the first begins with it.
LEMMA LinesFacts ==
    ASSUME NEW c \in Seq(Piece)
    PROVE  /\ Lines(c) \in SUBSET Nat /\ IsFiniteSet(Lines(c))
           /\ c = <<>> => Lines(c) = {}
           /\ c # <<>> => 0 \in Lines(c)
<1> DEFINE K == {j \in 1..Len(c) : j = 1 \/ Whole(c[j - 1])}
           f == [k \in 1..Len(c) |-> Offset(c, k)]
<1>1. Lines(c) = {Offset(c, k) : k \in K}
  BY DEF Lines
<1>2. Lines(c) \in SUBSET Nat
  BY <1>1, OffsetFacts
<1>3. IsFiniteSet(Lines(c))
  <2>1. Len(c) \in Nat
    OBVIOUS
  <2>2. IsFiniteSet(1..Len(c))
    BY <2>1, FS_Interval
  <2> DEFINE T == {Offset(c, k) : k \in 1..Len(c)}
  <2>3. f \in Surjection(1..Len(c), T)
    BY DEF Surjection
  <2>4. IsFiniteSet(T)
    <3> HIDE DEF T, f
    <3> QED BY <2>2, <2>3, FS_Surjection
  <2>5. Lines(c) \subseteq T
    BY <1>1
  <2> HIDE DEF T
  <2> QED BY <2>4, <2>5, FS_Subset
<1>4. c = <<>> => Lines(c) = {}
  BY <1>1
<1>5. c # <<>> => 0 \in Lines(c)
  <2>1. SUFFICES ASSUME c # <<>> PROVE 0 \in Lines(c)
    OBVIOUS
  <2>2. 1 \in 1..Len(c)
    BY <2>1
  <2>3. 1 \in K
    BY <2>2
  <2>4. Offset(c, 1) = 0
    BY OffsetFacts
  <2> HIDE DEF K
  <2> QED BY <1>1, <2>3, <2>4
<1> QED BY <1>2, <1>3, <1>4, <1>5

\* Max is the element that no other exceeds,
LEMMA MaxIs ==
    ASSUME NEW S \in SUBSET Int, NEW x \in S, \A y \in S : y <= x
    PROVE  Max(S) = x
<1>1. PICK m : m = Max(S)
  OBVIOUS
<1>2. m \in S /\ \A y \in S : m >= y
  <2>1. \E z \in S : \A y \in S : z >= y
    OBVIOUS
  <2> QED BY <1>1, <2>1 DEF Max
<1> QED BY <1>1, <1>2

\* and a set of numbers up to b that is not empty has one.
LEMMA MaxExists ==
    ASSUME NEW b \in Nat, NEW S \in SUBSET (0..b), S # {}
    PROVE  Max(S) \in S
<1> DEFINE T == {b - x : x \in S}
<1>1. T \in SUBSET Nat /\ T # {}
  <2>1. \A x \in S : x \in 0..b
    OBVIOUS
  <2>2. \A x \in S : b - x \in Nat
    BY <2>1
  <2>3. PICK x \in S : TRUE
    OBVIOUS
  <2>4. b - x \in T
    BY <2>3
  <2> QED BY <2>2, <2>4
<1>2. PICK n \in T : \A m \in T : n <= m
  <2> HIDE DEF T
  <2> QED BY <1>1, LeastNumber
<1>3. PICK x \in S : n = b - x
  BY <1>2
<1>4. \A y \in S : y <= x
  BY <1>2, <1>3
<1>5. S \in SUBSET Int
  OBVIOUS
<1> QED BY <1>4, <1>5, MaxIs

\* tailN's buffer: it starts with the file, or it holds more than n line starts.
LEMMA BufferStart ==
    ASSUME NEW c \in Seq(Piece), NEW n \in Nat
    PROVE  LET p == Max({q \in {Bytes(c) - j * Block : j \in 1..Bytes(c)} :
                            q > 0 /\ Cardinality(LineStarts(c, q)) > n} \cup {0})
           IN p \in Nat /\ (p = 0 \/ Cardinality(LineStarts(c, p)) > n)
<1> DEFINE Q == {q \in {Bytes(c) - j * Block : j \in 1..Bytes(c)} :
                    q > 0 /\ Cardinality(LineStarts(c, q)) > n} \cup {0}
<1>1. Bytes(c) \in Nat
  BY BytesFacts
<1>2. Q \in SUBSET (0..Bytes(c))
  <2>1. ASSUME NEW j \in 1..Bytes(c), Bytes(c) - j * Block > 0
        PROVE  Bytes(c) - j * Block \in 0..Bytes(c)
    <3>1. j * Block \in Nat
      BY <1>1, Bounds
    <3> QED BY <1>1, <2>1, <3>1
  <2> QED BY <1>1, <2>1
<1>3. Max(Q) \in Q
  <2>1. Q # {}
    OBVIOUS
  <2> HIDE DEF Q
  <2> QED BY <1>1, <1>2, <2>1, MaxExists
<1>4. \A q \in Q : q \in Nat /\ (q = 0 \/ Cardinality(LineStarts(c, q)) > n)
  <2>1. \A q \in Q : q \in Nat
    <3> HIDE DEF Q
    <3> QED BY <1>1, <1>2
  <2>2. \A q \in Q : q = 0 \/ Cardinality(LineStarts(c, q)) > n
    BY Zenon
  <2> QED BY <2>1, <2>2, Zenon
<1>5. Max(Q) \in Nat /\ (Max(Q) = 0 \/ Cardinality(LineStarts(c, Max(Q))) > n)
  <2> HIDE DEF Q
  <2> QED BY <1>3, <1>4, Zenon
<1> QED BY <1>5, Zenon

\* The elements of a set from o on.
From(S, o) == {x \in S : x >= o}

\* Leaving out the first of them leaves one less.
LEMMA FromLess ==
    ASSUME NEW S \in SUBSET Nat, IsFiniteSet(S), NEW o \in S
    PROVE  /\ IsFiniteSet(From(S, o)) /\ Cardinality(From(S, o)) \in Nat \ {0}
           /\ IsFiniteSet({x \in S : x > o})
           /\ Cardinality({x \in S : x > o}) = Cardinality(From(S, o)) - 1
<1>1. From(S, o) \subseteq S /\ o \in From(S, o)
  BY DEF From
<1>2. IsFiniteSet(From(S, o)) /\ Cardinality(From(S, o)) \in Nat
  BY <1>1, FS_Subset, FS_CardinalityType
<1>3. {x \in S : x > o} = From(S, o) \ {o}
  <2>1. \A x \in S : x \in Nat
    OBVIOUS
  <2>2. \A x \in S : x > o <=> x >= o /\ x # o
    BY <2>1
  <2> QED BY <2>2 DEF From
<1>4. IsFiniteSet(From(S, o) \ {o}) /\ Cardinality(From(S, o) \ {o}) = Cardinality(From(S, o)) - 1
  BY <1>1, <1>2, FS_RemoveElement
<1>5. Cardinality(From(S, o) \ {o}) \in Nat
  BY <1>4, FS_CardinalityType
<1> QED BY <1>2, <1>3, <1>4, <1>5

\* Of a finite set of at least n numbers, the last element with at least n from it on has
\* exactly n.
LEMMA LastN ==
    ASSUME NEW S \in SUBSET Nat, IsFiniteSet(S), NEW n \in Nat \ {0}, NEW p \in S,
           \A x \in S : x >= p, Cardinality(S) >= n
    PROVE  LET m == Max({o \in S : Cardinality(From(S, o)) >= n} \cup {p})
           IN m \in S /\ Cardinality(From(S, m)) = n
<1> DEFINE G == {o \in S : Cardinality(From(S, o)) >= n}
           T == {Cardinality(From(S, o)) : o \in G}
<1>1. From(S, p) = S /\ p \in G
  BY DEF From
<1>2. \A o \in S : IsFiniteSet(From(S, o)) /\ Cardinality(From(S, o)) \in Nat \ {0}
  BY FromLess
<1>3. T \in SUBSET Nat /\ T # {}
  BY <1>1, <1>2
<1>4. PICK b \in T : \A x \in T : b <= x
  <2> HIDE DEF T
  <2> QED BY <1>3, LeastNumber
<1>5. PICK t \in G : b = Cardinality(From(S, t))
  BY <1>4
<1>6. t \in S /\ t \in Nat /\ Cardinality(From(S, t)) >= n
  BY <1>5
<1>7. \A o \in G : Cardinality(From(S, t)) <= Cardinality(From(S, o))
  BY <1>4, <1>5
<1> HIDE DEF T
<1>8. ASSUME NEW o \in S, o > t PROVE o \notin G
  <2>1. From(S, o) \subseteq {x \in S : x > t}
    <3>1. \A x \in S : x \in Nat
      OBVIOUS
    <3>2. \A x \in S : x >= o => x > t
      BY <1>6, <1>8, <3>1
    <3> QED BY <3>2 DEF From
  <2>2. IsFiniteSet({x \in S : x > t}) /\ Cardinality({x \in S : x > t}) = Cardinality(From(S, t)) - 1
    BY <1>6, FromLess
  <2>3. Cardinality(From(S, o)) <= Cardinality({x \in S : x > t})
    BY <2>1, <2>2, FS_Subset
  <2>4. Cardinality(From(S, o)) \in Nat /\ Cardinality(From(S, t)) \in Nat
    BY <1>2, <1>6
  <2>5. Cardinality(From(S, o)) < Cardinality(From(S, t))
    BY <2>2, <2>3, <2>4
  <2> HIDE DEF G
  <2> QED BY <1>7, <2>4, <2>5
<1>9. Max(G \cup {p}) = t
  <2>0. G \subseteq S /\ p \in G
    BY <1>1, Zenon
  <2>1. G \cup {p} = G /\ G \in SUBSET Int
    <3> HIDE DEF G
    <3> QED BY <2>0
  <2>2. \A o \in G : o <= t
    <3>1. \A o \in G : o \in S /\ o \in Nat
      OBVIOUS
    <3> HIDE DEF G
    <3> QED BY <1>6, <1>8, <3>1
  <2> HIDE DEF G
  <2> QED BY <1>5, <2>1, <2>2, MaxIs
<1>10. Cardinality(From(S, t)) = n
  <2> SUFFICES ASSUME Cardinality(From(S, t)) # n PROVE FALSE
    OBVIOUS
  <2> DEFINE U == {x \in S : x > t}
  <2>1. IsFiniteSet(U) /\ Cardinality(U) = Cardinality(From(S, t)) - 1 /\ Cardinality(From(S, t)) \in Nat
    BY <1>2, <1>6, FromLess
  <2>2. Cardinality(U) >= n
    BY <1>6, <2>1
  <2>3. U # {} /\ U \in SUBSET Nat
    <3>1. U \in SUBSET Nat
      OBVIOUS
    <3>2. Cardinality({}) = 0
      BY FS_EmptySet
    <3> HIDE DEF U
    <3> QED BY <2>2, <3>1, <3>2
  <2>4. PICK u \in U : \A x \in U : u <= x
    <3> HIDE DEF U
    <3> QED BY <2>3, LeastNumber
  <2>5. From(S, u) = U
    <3>1. u \in S /\ u > t /\ u \in Nat
      BY <2>4
    <3>2. \A x \in S : x >= u <=> x > t
      BY <1>6, <2>4, <3>1
    <3> QED BY <3>2 DEF From
  <2>6. u \in G
    BY <2>2, <2>4, <2>5
  <2> HIDE DEF U, G
  <2> QED BY <1>7, <2>1, <2>5, <2>6
<1> QED BY <1>6, <1>9, <1>10

\* Of fewer than n it is the first.
LEMMA LastFew ==
    ASSUME NEW S \in SUBSET Nat, IsFiniteSet(S), NEW n \in Nat, NEW p \in S, Cardinality(S) < n
    PROVE  Max({o \in S : Cardinality(From(S, o)) >= n} \cup {p}) = p
<1>1. ASSUME NEW o \in S PROVE ~(Cardinality(From(S, o)) >= n)
  <2>1. From(S, o) \subseteq S
    BY DEF From
  <2>2. Cardinality(From(S, o)) <= Cardinality(S) /\ IsFiniteSet(From(S, o))
    BY <2>1, FS_Subset
  <2>3. Cardinality(S) \in Nat /\ Cardinality(From(S, o)) \in Nat
    BY <2>2, FS_CardinalityType
  <2> QED BY <2>2, <2>3
<1>2. {o \in S : Cardinality(From(S, o)) >= n} \cup {p} = {p}
  BY <1>1
<1>3. Max({p}) = p
  <2>1. {p} \in SUBSET Int /\ p \in {p} /\ \A y \in {p} : y <= p
    OBVIOUS
  <2> QED BY <2>1, MaxIs
<1> QED BY <1>2, <1>3

\* tailN sends the whole of a file of at most n lines, and else from where exactly n lines
\* begin: no line of them is cut or left out wherever its blocks begin.
LEMMA TailFromExact ==
    ASSUME NEW c \in Seq(Piece), NEW n \in Nat \ {0}
    PROVE  IF Cardinality(Lines(c)) <= n THEN TailFrom(c, n) = 0
           ELSE /\ TailFrom(c, n) \in Lines(c)
                /\ Cardinality({o \in Lines(c) : o >= TailFrom(c, n)}) = n
<1>1. PICK p \in Nat :
         /\ TailFrom(c, n) = Max({o \in LineStarts(c, p) : Cardinality(From(LineStarts(c, p), o)) >= n} \cup {p})
         /\ p = 0 \/ Cardinality(LineStarts(c, p)) > n
  BY BufferStart, Zenon DEF TailFrom, From
<1> DEFINE S == LineStarts(c, p)
           N == Lines(c)
           m == TailFrom(c, n)
<1>2. /\ N \in SUBSET Nat /\ IsFiniteSet(N) /\ Cardinality(N) \in Nat
      /\ c = <<>> => N = {}
      /\ c # <<>> => 0 \in N
  BY LinesFacts, FS_CardinalityType
<1>3. S = {p} \cup {o \in N : o > p}
  BY DEF LineStarts
<1>4. m = Max({o \in S : Cardinality(From(S, o)) >= n} \cup {p})
  BY <1>1
<1>5. Cardinality(From(N, m)) = n => Cardinality({o \in N : o >= m}) = n
  BY DEF From
<1> HIDE DEF S, N, m
<1>6. S \in SUBSET Nat /\ p \in S /\ \A x \in S : x >= p
  <2>1. S \in SUBSET Nat /\ p \in S
    BY <1>2, <1>3
  <2>2. \A x \in S : x = p \/ x > p
    BY <1>3
  <2> QED BY <2>1, <2>2
<1>7. IsFiniteSet(S) /\ Cardinality(S) \in Nat
  <2>1. {o \in N : o > p} \subseteq N
    OBVIOUS
  <2>2. IsFiniteSet({o \in N : o > p})
    BY <1>2, <2>1, FS_Subset
  <2>3. IsFiniteSet({o \in N : o > p} \cup {p})
    BY <2>2, FS_AddElement
  <2>4. S = {o \in N : o > p} \cup {p}
    BY <1>3
  <2> QED BY <2>3, <2>4, FS_CardinalityType
<1>8. CASE p = 0 /\ c = <<>>
  <2>1. S = {0} /\ N = {}
    BY <1>2, <1>3, <1>8
  <2>2. Cardinality(N) = 0
    BY <2>1, FS_EmptySet
  <2>3. m = 0
    <3>1. {o \in S : Cardinality(From(S, o)) >= n} \cup {p} = {0}
      BY <1>8, <2>1
    <3>2. Max({0}) = 0
      <4>1. {0} \in SUBSET Int /\ 0 \in {0} /\ \A y \in {0} : y <= 0
        OBVIOUS
      <4> QED BY <4>1, MaxIs
    <3> QED BY <1>4, <3>1, <3>2
  <2> QED BY <2>2, <2>3 DEF N, m
<1>9. CASE p = 0 /\ c # <<>>
  <2>1. S = N
    <3>1. 0 \in N /\ \A o \in N : o = 0 \/ o > 0
      BY <1>2, <1>9
    <3> QED BY <1>3, <1>9, <3>1
  <2>2. CASE Cardinality(N) < n
    <3>1. m = p
      BY <1>4, <1>6, <1>7, <2>1, <2>2, LastFew
    <3> QED BY <1>2, <1>9, <2>2, <3>1 DEF N, m
  <2>3. CASE ~(Cardinality(N) < n)
    <3>1. m \in S /\ Cardinality(From(S, m)) = n
      <4>1. Cardinality(S) >= n
        BY <1>2, <2>1, <2>3
      <4> QED BY <1>4, <1>6, <1>7, <4>1, LastN
    <3>2. CASE Cardinality(N) > n
      BY <1>2, <1>5, <2>1, <3>1, <3>2 DEF N, m
    <3>3. CASE Cardinality(N) = n
      <4>1. From(S, m) \subseteq S
        BY DEF From
      <4>2. From(S, m) = S
        BY <1>7, <2>1, <3>1, <3>3, <4>1, FS_Subset
      <4>3. m = 0
        <5>1. 0 \in From(S, m) /\ m \in Nat
          BY <1>6, <1>9, <3>1, <4>2
        <5>2. 0 >= m
          BY <5>1 DEF From
        <5> QED BY <5>1, <5>2
      <4> QED BY <3>3, <4>3 DEF N, m
    <3> QED BY <1>2, <2>3, <3>2, <3>3
  <2> QED BY <2>2, <2>3
<1>10. CASE p # 0
  <2>1. Cardinality(S) > n
    BY <1>1, <1>10 DEF S
  <2>2. m \in S /\ Cardinality(From(S, m)) = n
    <3>1. Cardinality(S) >= n
      BY <1>7, <2>1
    <3> QED BY <1>4, <1>6, <1>7, <3>1, LastN
  <2>3. From(S, p) = S
    BY <1>6 DEF From
  <2>4. m # p /\ m \in N /\ m > p
    <3>1. m # p
      BY <1>7, <2>1, <2>2, <2>3
    <3> QED BY <1>3, <2>2, <3>1
  <2>5. From(N, m) = From(S, m)
    <3>1. m \in Nat /\ p \in Nat /\ \A o \in N : o \in Nat
      BY <1>2, <2>4
    <3>2. ~(p >= m) /\ \A o \in N : o >= m => o > p
      BY <2>4, <3>1
    <3>3. \A o : o \in N /\ o >= m <=> o \in S /\ o >= m
      BY <1>3, <3>2
    <3> QED BY <3>3 DEF From
  <2>6. Cardinality(N) > n
    <3>1. c # <<>> /\ 0 \in N
      BY <1>2, <2>4
    <3>2. /\ IsFiniteSet(S \ {p}) /\ Cardinality(S \ {p}) = Cardinality(S) - 1
          /\ IsFiniteSet(N \ {0}) /\ Cardinality(N \ {0}) = Cardinality(N) - 1
      BY <1>2, <1>6, <1>7, <3>1, FS_RemoveElement
    <3>3. S \ {p} \subseteq N \ {0}
      BY <1>3, <1>10
    <3>4. Cardinality(S \ {p}) <= Cardinality(N \ {0})
      BY <3>2, <3>3, FS_Subset
    <3> QED BY <1>2, <1>7, <2>1, <3>2, <3>4
  <2> QED BY <1>2, <1>5, <2>2, <2>4, <2>5, <2>6 DEF N, m
<1> QED BY <1>8, <1>9, <1>10
-----------------------------------------------------------------------------
(* The inductive invariant. *)

\* A request that writes has a handle and a line.
WriterHasFile ==
    \A w \in Writers :
        /\ wpc[w] = "open" => wfile[w] \in Handle
        /\ wpc[w] # "idle" => wline[w] \in Line

\* Inodes are made one after the other, each after an unlink, and start empty.
InodesFresh ==
    /\ \A i \in Inode : i > inodes => content[i] = <<>>
    /\ path <= inodes /\ \A h \in Handle : fd[h] <= inodes
    /\ inodes + (IF path = NoInode THEN 1 ELSE 0) + (IF removing THEN 1 ELSE 0) <= removes + 1

\* A follower is registered before it reads, and reads an inode.
Registered ==
    \A r \in Readers :
        /\ rpc[r] \in {"subscribed", "tailall", "tailn", "torn", "streaming"} => r \in submap
        /\ rpc[r] \in {"tailall", "tailn", "torn"} => rfd[r] \in Inode
        /\ rpc[r] \in {"tailn", "torn"} => asked[r] >= 0
        /\ rpc[r] = "tailn" => rpos[r] <= Len(content[rfd[r]])

\* The lines that were sent to follower r or are about to be,
Heard(r) == {l \in Line : l \in got[r] \/ Pending(l, r)}

\* and the pieces of a file that it misses nothing of.
Sent(r) == {x \in Piece : Whole(x) => x.line \in Heard(r)}

\* What follower r has passed of the file it reads, and all of a file that has taken its
\* place, was sent to it or is about to be; so is the whole file once it only streams, if
\* its reading did not fail.
Complete(r) ==
    /\ rpc[r] = "tailall" =>
          /\ \A k \in 1..Len(content[rfd[r]]) : k > rpos[r] \/ content[rfd[r]][k] \in Sent(r)
          /\ path \notin {NoInode, rfd[r]} =>
                \A k \in 1..Len(content[path]) : content[path][k] \in Sent(r)
    /\ rpc[r] = "streaming" /\ r \notin cut /\ asked[r] < 0 /\ path # NoInode =>
          \A k \in 1..Len(content[path]) : content[path][k] \in Sent(r)

\* Only the handle in the map has its file open, that file has the name, and the handle's
\* count is its size.
Counted ==
    /\ removing => files = NoHandle
    /\ ~crossed /\ faults = 0 =>
          \A h \in Handle : fd[h] # NoInode =>
             h = files /\ fd[h] = path /\ filesize[h] = Bytes(content[path])

\* What the others rest on.
Shape == TypeOK /\ WriterHasFile /\ InodesFresh /\ Registered

\* The inductive invariant: the shape, both properties, and what they need.
PipeInv ==
    /\ Shape
    /\ \A r \in Readers : Complete(r)
    /\ Counted /\ SizeBound

\* limitedFile.open gives an inode there is, or the next one, which is empty.
LEMMA OpenInodeFacts ==
    ASSUME Shape, NEW h \in Handle
    PROVE  /\ OpenInode(h) \in Inode /\ OpenInode(h) <= inodes + 1
           /\ OpenInode(h) > inodes => fd[h] = NoInode /\ path = NoInode /\ content[OpenInode(h)] = <<>>
           /\ fd[h] = NoInode /\ path # NoInode => OpenInode(h) = path
           /\ fd[h] # NoInode => OpenInode(h) = fd[h]
           /\ OpenSize(h) \in Nat
<1> USE DEF Shape, NoInode, Inode
<1>1. inodes \in Nat /\ removes \in 0..MaxRemoves /\ path \in Nat /\ fd[h] \in Nat
      /\ fd[h] <= inodes /\ path <= inodes
  BY Bounds DEF TypeOK, InodesFresh
<1>2. path = NoInode => inodes <= removes
  BY <1>1, Bounds DEF InodesFresh
<1>3. OpenInode(h) \in Inode /\ OpenInode(h) <= inodes + 1
  BY <1>1, <1>2, Bounds DEF OpenInode, TypeOK
<1>4. OpenInode(h) > inodes => fd[h] = NoInode /\ path = NoInode
  BY <1>1 DEF OpenInode
<1>5. OpenInode(h) > inodes => content[OpenInode(h)] = <<>>
  BY <1>3 DEF InodesFresh
<1>6. OpenSize(h) \in Nat
  BY BytesFacts DEF OpenSize, TypeOK
<1> QED BY <1>3, <1>4, <1>5, <1>6 DEF OpenInode

\* It keeps the inodes in order.
LEMMA OpenFileStep ==
    ASSUME Shape, NEW h \in Handle, OpenFile(h), UNCHANGED <<removing, removes>>,
           \A i \in Inode : i > inodes /\ i # OpenInode(h) => content'[i] = <<>>
    PROVE  /\ fd' \in [Handle -> Inode \cup {NoInode}] /\ path' \in Inode \cup {NoInode}
           /\ inodes' \in 0..(MaxRemoves + 1) /\ InodesFresh'
<1> USE DEF Shape
<1> DEFINE i == OpenInode(h)
<1>1. /\ i \in Inode /\ i <= inodes + 1
      /\ i > inodes => fd[h] = NoInode /\ path = NoInode
      /\ fd[h] = NoInode /\ path # NoInode => i = path
  BY OpenInodeFacts
<1>2. /\ fd' = [fd EXCEPT ![h] = i] /\ path' = IF fd[h] = NoInode THEN i ELSE path
      /\ inodes' = IF i > inodes THEN i ELSE inodes
  BY DEF OpenFile
<1> HIDE DEF i
<1>3. inodes \in Nat /\ removes \in 0..MaxRemoves /\ path \in Nat /\ path <= inodes
  BY Bounds DEF TypeOK, InodesFresh, Inode, NoInode
<1>4. fd' \in [Handle -> Inode \cup {NoInode}] /\ path' \in Inode \cup {NoInode}
  BY <1>1, <1>2 DEF TypeOK
<1>5. inodes' \in 0..(MaxRemoves + 1) /\ i <= inodes' /\ inodes <= inodes' /\ i \in Nat \ {0}
  BY <1>1, <1>2, <1>3, Bounds DEF TypeOK, Inode
<1>6. path' <= inodes' /\ \A x \in Handle : fd'[x] <= inodes'
  <2>1. \A x \in Handle : fd[x] \in Nat /\ fd[x] <= inodes
    BY Bounds DEF TypeOK, InodesFresh, Inode, NoInode
  <2> QED BY <1>1, <1>2, <1>3, <1>5, <2>1 DEF TypeOK
<1>7. \A x \in Inode : x > inodes' => content'[x] = <<>>
  BY <1>2, <1>3, <1>5, Bounds DEF Inode, i
<1>8. inodes' + (IF path' = NoInode THEN 1 ELSE 0) + (IF removing' THEN 1 ELSE 0) <= removes' + 1
  <2>1. CASE i > inodes
    BY <1>1, <1>2, <1>3, <1>5, <2>1, Bounds DEF InodesFresh, NoInode
  <2>2. CASE ~(i > inodes)
    BY <1>1, <1>2, <1>3, <1>5, <2>2, Bounds DEF InodesFresh, NoInode
  <2> QED BY <2>1, <2>2
<1> QED BY <1>4, <1>5, <1>6, <1>7, <1>8 DEF InodesFresh

\* limitedFile.write, the bytes of a whole or a short write stored: the types of what it
\* changes, and the followers in the middle of tailN.
LEMMA StoreShape ==
    ASSUME Shape, NEW h \in Handle, OpenFile(h), NEW c \in Seq(Piece), NEW size \in Nat, NEW ok \in BOOLEAN,
           \/ c = content[OpenInode(h)]
           \/ \E x \in Piece : c = Append(content[OpenInode(h)], x),
           Truncate(h, OpenInode(h), c, size, ok),
           UNCHANGED <<removing, removes, submap, asked, rfd, rpos>>
    PROVE  /\ content' \in [Inode -> Seq(Piece)] /\ filesize' \in [Handle -> Nat]
           /\ rpc' \in [Readers -> {"idle", "opened", "subscribed", "tailall", "tailn", "torn", "streaming"}]
           /\ fd' \in [Handle -> Inode \cup {NoInode}] /\ path' \in Inode \cup {NoInode}
           /\ inodes' \in 0..(MaxRemoves + 1) /\ InodesFresh' /\ Registered'
<1> USE DEF Shape
<1> DEFINE i == OpenInode(h)
<1>1. i \in Inode
  BY OpenInodeFacts
<1>2. \/ content' = [content EXCEPT ![i] = <<>>] /\ rpc' = Torn(i)
      \/ content' = [content EXCEPT ![i] = c] /\ rpc' = rpc
  BY DEF Truncate
<1>3. filesize' \in [Handle -> Nat]
  BY DEF Truncate, TypeOK
<1>4. (c = content[i] \/ \E x \in Piece : c = Append(content[i], x)) /\ content[i] \in Seq(Piece)
  BY <1>1 DEF TypeOK
<1>5. Len(c) \in Nat /\ Len(c) >= Len(content[i])
  BY <1>4
<1>6. \A x \in Inode : x > inodes /\ x # OpenInode(h) => content'[x] = <<>>
  BY <1>1, <1>2 DEF InodesFresh, TypeOK
<1>7. /\ fd' \in [Handle -> Inode \cup {NoInode}] /\ path' \in Inode \cup {NoInode}
      /\ inodes' \in 0..(MaxRemoves + 1) /\ InodesFresh'
  BY <1>6, OpenFileStep
<1> HIDE DEF i
<1>8. content' \in [Inode -> Seq(Piece)] /\ \A x \in Inode : x # i => content'[x] = content[x]
  <2>1. <<>> \in Seq(Piece)
    OBVIOUS
  <2>2. CASE content' = [content EXCEPT ![i] = <<>>]
    BY <1>1, <2>1, <2>2 DEF TypeOK
  <2>3. CASE content' = [content EXCEPT ![i] = c]
    BY <1>1, <2>3 DEF TypeOK
  <2> QED BY <1>2, <2>2, <2>3
<1>9. \A r \in Readers : rpc'[r] = rpc[r] \/ (rpc[r] = "tailn" /\ rpc'[r] = "torn")
  BY <1>2 DEF Torn
<1>10. rpc' \in [Readers -> {"idle", "opened", "subscribed", "tailall", "tailn", "torn", "streaming"}]
  BY <1>2 DEF TypeOK, Torn
<1>11. Registered'
  <2>1. ASSUME NEW r \in Readers, rpc'[r] = "tailn"
        PROVE  rpos[r] <= Len(content'[rfd[r]])
    <3>1. rpc[r] = "tailn" /\ rfd[r] \in Inode /\ rpos[r] \in Nat /\ rpos[r] <= Len(content[rfd[r]])
      BY <1>9, <2>1 DEF Registered, TypeOK
    <3>2. rfd[r] # i => content'[rfd[r]] = content[rfd[r]]
      BY <1>8, <3>1
    <3>3. rfd[r] = i => content'[i] = c
      BY <1>1, <1>2, <2>1, <3>1 DEF Torn, TypeOK
    <3>4. Len(content[i]) \in Nat
      BY <1>4
    <3> QED BY <1>5, <3>1, <3>2, <3>3, <3>4
  <2> QED BY <1>9, <2>1 DEF Registered
<1> QED BY <1>3, <1>7, <1>8, <1>10, <1>11

\* pipeFS.Open gives a handle.
LEMMA OpenHandle ==
    ASSUME TypeOK, NEW h \in Handle, Open(h)
    PROVE  files' \in Handle \cup {NoHandle} /\ ~removing
  BY DEF Open, TypeOK

\* What a write stores.
LEMMA WriteFacts ==
    ASSUME Shape, NEW w \in Writers, Write(w)
    PROVE  LET h == wfile[w]  l == wline[w]  x == [line |-> l, bytes |-> Size[l]] IN
           /\ h \in Handle /\ l \in Line /\ x \in Piece /\ OpenSize(h) + Size[l] \in Nat
           /\ content[OpenInode(h)] \in Seq(Piece) /\ Append(content[OpenInode(h)], x) \in Seq(Piece)
<1> USE DEF Shape
<1>1. wfile[w] \in Handle /\ wline[w] \in Line
  BY DEF Write, WriterHasFile
<1>2. Size[wline[w]] \in Nat \ {0}
  BY <1>1, Bounds
<1>3. [line |-> wline[w], bytes |-> Size[wline[w]]] \in Piece
  BY <1>1, <1>2 DEF Piece
<1>4. OpenInode(wfile[w]) \in Inode /\ OpenSize(wfile[w]) \in Nat
  BY <1>1, OpenInodeFacts
<1>5. content[OpenInode(wfile[w])] \in Seq(Piece)
  BY <1>4 DEF TypeOK
<1>6. \A x \in Piece, d \in Seq(Piece) : Append(d, x) \in Seq(Piece)
  OBVIOUS
<1> QED BY <1>1, <1>2, <1>3, <1>4, <1>5, <1>6

\* A write that fails after the file was opened, with c in the file and size counted: c is what
\* was there and perhaps a piece that is not the whole line.
ShortWrite(w, c, size, ok) ==
    /\ OpenFile(wfile[w])
    /\ \/ c = content[OpenInode(wfile[w])]
       \/ \E x \in Piece : ~Whole(x) /\ c = Append(content[OpenInode(wfile[w])], x)
    /\ Truncate(wfile[w], OpenInode(wfile[w]), c, size, ok)
    /\ crossed' = (crossed \/ wfile[w] # files)

\* A failing write is one of these or leaves the disk as it was.
LEMMA WriteFailsFacts ==
    ASSUME Shape, NEW w \in Writers, WriteFails(w),
           ~UNCHANGED <<fd, path, inodes, content, filesize, crossed, rpc>>
    PROVE  \E c \in Seq(Piece), size \in Nat, ok \in BOOLEAN : ShortWrite(w, c, size, ok)
<1> USE DEF Shape
<1> DEFINE h == wfile[w]
           i == OpenInode(h)
           l == wline[w]
           C(n) == IF n = 0 THEN content[i] ELSE Append(content[i], [line |-> l, bytes |-> n])
<1>1. h \in Handle /\ l \in Line
  BY DEF WriteFails, WriterHasFile
<1>2. Size[l] \in Nat \ {0}
  BY <1>1, Bounds
<1>3. i \in Inode /\ OpenSize(h) \in Nat
  BY <1>1, OpenInodeFacts
<1>4. content[i] \in Seq(Piece)
  BY <1>3 DEF TypeOK
<1>5. OpenFile(h) /\ crossed' = (crossed \/ h # files)
  BY DEF WriteFails
<1>6. PICK n \in 0..(Size[l] - 1), ok \in BOOLEAN : Truncate(h, i, C(n), OpenSize(h) + n, ok)
  BY DEF WriteFails
<1> HIDE DEF h, i, l
<1>7. n \in Nat /\ n # Size[l] /\ OpenSize(h) + n \in Nat
  BY <1>2, <1>3
<1>8. CASE n = 0
  <2>1. C(n) = content[i]
    BY <1>8
  <2> HIDE DEF C
  <2>2. ShortWrite(w, C(n), OpenSize(h) + n, ok)
    BY <1>5, <1>6, <2>1 DEF ShortWrite, h, i
  <2> QED BY <1>4, <1>7, <2>1, <2>2
<1>9. CASE n # 0
  <2> DEFINE x == [line |-> l, bytes |-> n]
  <2>1. x \in Piece /\ ~Whole(x)
    BY <1>1, <1>7, <1>9 DEF Piece, Whole
  <2>2. C(n) = Append(content[i], x)
    BY <1>9
  <2> HIDE DEF C, x
  <2>3. C(n) \in Seq(Piece)
    BY <1>4, <2>1, <2>2
  <2>4. ShortWrite(w, C(n), OpenSize(h) + n, ok)
    BY <1>5, <1>6, <2>1, <2>2 DEF ShortWrite, h, i
  <2> QED BY <1>7, <2>3, <2>4
<1> QED BY <1>8, <1>9

\* The steps of a writer keep the shape.
LEMMA WriterShape ==
    ASSUME Shape, NEW w \in Writers, WOpen(w) \/ Write(w) \/ WriteFails(w) \/ Snapshot(w) \/ Notify(w)
    PROVE  Shape'
<1> USE DEF Shape
<1>1. CASE WOpen(w)
  <2>1. PICK h \in Handle : Open(h) /\ wfile' = [wfile EXCEPT ![w] = h]
    BY <1>1 DEF WOpen
  <2>2. /\ wpc' = [wpc EXCEPT ![w] = "open"] /\ wline' = [wline EXCEPT ![w] = lines + 1]
        /\ lines' = lines + 1 /\ lines + 1 \in Line
        /\ UNCHANGED <<removing, removes, diskVars, targets, readerVars, faults>>
    BY <1>1, Bounds DEF WOpen, TypeOK, Line
  <2>3. wpc' \in [Writers -> {"idle", "open", "written", "notify"}]
        /\ wfile' \in [Writers -> Handle \cup {NoHandle}]
        /\ wline' \in [Writers -> Line \cup {0}] /\ lines' \in 0..MaxLines
    BY <2>1, <2>2, Bounds DEF TypeOK, Line
  <2>4. TypeOK'
    BY <2>1, <2>2, <2>3, OpenHandle DEF TypeOK, diskVars, readerVars
  <2>5. WriterHasFile'
    BY <2>1, <2>2 DEF WriterHasFile, TypeOK
  <2> QED BY <2>2, <2>4, <2>5 DEF InodesFresh, Registered, diskVars, readerVars
<1>2. CASE Write(w)
  <2> DEFINE h == wfile[w]
             l == wline[w]
             x == [line |-> l, bytes |-> Size[l]]
             size == OpenSize(h) + Size[l]
  <2>1. /\ h \in Handle /\ l \in Line /\ x \in Piece /\ size \in Nat
        /\ Append(content[OpenInode(h)], x) \in Seq(Piece)
    BY <1>2, WriteFacts
  <2>2. /\ OpenFile(h) /\ wpc' = [wpc EXCEPT ![w] = "written"]
        /\ UNCHANGED <<fsVars, wfile, wline, targets, lines, submap, asked, rfd, rpos, got, cut>>
        /\ crossed' = (crossed \/ h # files) /\ wpc[w] = "open"
    BY <1>2 DEF Write
  <2>3. PICK ok \in BOOLEAN : Truncate(h, OpenInode(h), Append(content[OpenInode(h)], x), size, ok)
    BY <1>2 DEF Write
  <2>4. faults' \in 0..MaxFaults
    <3>1. faults' = faults \/ Fault
      BY <1>2 DEF Write
    <3> QED BY <3>1, Bounds DEF Fault, TypeOK
  <2> HIDE DEF h, l, x, size
  <2>5. /\ content' \in [Inode -> Seq(Piece)] /\ filesize' \in [Handle -> Nat]
        /\ rpc' \in [Readers -> {"idle", "opened", "subscribed", "tailall", "tailn", "torn", "streaming"}]
        /\ fd' \in [Handle -> Inode \cup {NoInode}] /\ path' \in Inode \cup {NoInode}
        /\ inodes' \in 0..(MaxRemoves + 1) /\ InodesFresh' /\ Registered'
    BY <2>1, <2>2, <2>3, StoreShape DEF fsVars
  <2>6. wpc' \in [Writers -> {"idle", "open", "written", "notify"}] /\ crossed' \in BOOLEAN
    BY <2>2 DEF TypeOK
  <2>7. TypeOK'
    BY <2>2, <2>4, <2>5, <2>6 DEF TypeOK, fsVars
  <2>8. WriterHasFile'
    BY <2>1, <2>2 DEF WriterHasFile, TypeOK, l
  <2> QED BY <2>5, <2>7, <2>8
<1>3. CASE WriteFails(w)
  <2>1. /\ Answer(w) /\ UNCHANGED <<fsVars, targets, lines, submap, asked, rfd, rpos, got, cut>>
        /\ faults' \in 0..MaxFaults
    BY <1>3, Bounds DEF WriteFails, Fault, TypeOK
  <2>2. /\ content' \in [Inode -> Seq(Piece)] /\ filesize' \in [Handle -> Nat]
        /\ rpc' \in [Readers -> {"idle", "opened", "subscribed", "tailall", "tailn", "torn", "streaming"}]
        /\ fd' \in [Handle -> Inode \cup {NoInode}] /\ path' \in Inode \cup {NoInode}
        /\ inodes' \in 0..(MaxRemoves + 1) /\ InodesFresh' /\ Registered' /\ crossed' \in BOOLEAN
    <3>1. CASE UNCHANGED <<fd, path, inodes, content, filesize, crossed, rpc>>
      BY <2>1, <3>1 DEF TypeOK, InodesFresh, Registered, fsVars
    <3>2. CASE ~UNCHANGED <<fd, path, inodes, content, filesize, crossed, rpc>>
      <4>1. PICK c \in Seq(Piece), size \in Nat, ok \in BOOLEAN : ShortWrite(w, c, size, ok)
        BY <1>3, <3>2, WriteFailsFacts
      <4>2. wfile[w] \in Handle
        BY <1>3 DEF WriteFails, WriterHasFile
      <4>3. crossed' \in BOOLEAN
        BY <4>1 DEF ShortWrite, TypeOK
      <4> QED BY <2>1, <4>1, <4>2, <4>3, StoreShape DEF fsVars, ShortWrite
    <3> QED BY <3>1, <3>2
  <2>3. /\ wpc' \in [Writers -> {"idle", "open", "written", "notify"}]
        /\ wfile' \in [Writers -> Handle \cup {NoHandle}] /\ wline' \in [Writers -> Line \cup {0}]
        /\ WriterHasFile'
    BY <2>1 DEF Answer, TypeOK, WriterHasFile
  <2>4. TypeOK'
    BY <2>1, <2>2, <2>3 DEF TypeOK, fsVars
  <2> QED BY <2>2, <2>3, <2>4
<1>4. CASE Snapshot(w)
  BY <1>4 DEF Snapshot, TypeOK, WriterHasFile, InodesFresh, Registered, fsVars, diskVars, readerVars
<1>5. CASE Notify(w)
  <2>1. UNCHANGED <<fsVars, diskVars, lines, submap, rpc, asked, rfd, rpos, cut, faults>>
    BY <1>5 DEF Notify
  <2>2. /\ got' \in [Readers -> SUBSET Line] /\ targets' \in [Writers -> SUBSET Readers]
        /\ wpc' \in [Writers -> {"idle", "open", "written", "notify"}]
        /\ wfile' \in [Writers -> Handle \cup {NoHandle}] /\ wline' \in [Writers -> Line \cup {0}]
        /\ WriterHasFile'
    <3>1. ASSUME NEW r \in targets[w], got' = [got EXCEPT ![r] = @ \cup {wline[w]}],
                 targets' = [targets EXCEPT ![w] = @ \ {r}], UNCHANGED <<wpc, wfile, wline>>
          PROVE  got' \in [Readers -> SUBSET Line] /\ targets' \in [Writers -> SUBSET Readers]
      <4>1. r \in Readers /\ wline[w] \in Line
        BY <1>5 DEF TypeOK, Notify, WriterHasFile
      <4> QED BY <3>1, <4>1 DEF TypeOK
    <3>2. CASE targets[w] = {} /\ Answer(w) /\ UNCHANGED <<got, targets>>
      BY <3>2 DEF Answer, TypeOK, WriterHasFile
    <3> QED BY <1>5, <3>1, <3>2 DEF Notify, TypeOK, WriterHasFile
  <2>3. TypeOK'
    BY <2>1, <2>2 DEF TypeOK, fsVars, diskVars
  <2> QED BY <2>1, <2>2, <2>3 DEF InodesFresh, Registered, fsVars, diskVars
<1> QED BY <1>1, <1>2, <1>3, <1>4, <1>5

\* The lines among the pieces of a file are lines.
LEMMA WrittenLines ==
    ASSUME NEW c \in Seq(Piece), NEW ks, ks \subseteq 1..Len(c)
    PROVE  Written(c, ks) \subseteq Line
<1>1. \A k \in ks : c[k] \in Piece
  OBVIOUS
<1>2. \A x \in Piece : x.line \in Line
  BY DEF Piece
<1> QED BY <1>1, <1>2 DEF Written

\* The follower whose reading fails, or ends, streams.
LEMMA ReadStops ==
    ASSUME TypeOK, NEW r \in Readers, ReadFails(r) \/ ReadEnds(r)
    PROVE  /\ rpc'[r] = "streaming"
           /\ \A q \in Readers \ {r} : rpc'[q] = rpc[q] /\ rfd'[q] = rfd[q] /\ rpos'[q] = rpos[q]
           /\ rpc' \in [Readers -> {"idle", "opened", "subscribed", "tailall", "tailn", "torn", "streaming"}]
           /\ rfd' \in [Readers -> Inode \cup {NoInode}] /\ rpos' \in [Readers -> Nat]
           /\ cut' \subseteq Readers /\ faults' \in 0..MaxFaults
<1>1. /\ rpc' = [rpc EXCEPT ![r] = "streaming"]
      /\ rpos' = [rpos EXCEPT ![r] = 0] /\ rfd' = [rfd EXCEPT ![r] = NoInode]
  BY DEF ReadFails, ReadEnds
<1>2. cut' \subseteq Readers
  BY DEF ReadFails, ReadEnds, TypeOK
<1>3. faults' \in 0..MaxFaults
  <2>1. faults' = faults \/ Fault
    BY DEF ReadFails, ReadEnds
  <2> QED BY <2>1, Bounds DEF Fault, TypeOK
<1>4. 0 \in Nat
  OBVIOUS
<1> QED BY <1>1, <1>2, <1>3, <1>4 DEF TypeOK

\* What a follower asks for is a number.
LEMMA AskedNumber ==
    ASSUME TypeOK, NEW r \in Readers
    PROVE  asked[r] \in Int
<1>1. \A a \in Asked : a \in Int
  BY Bounds, Zenon
<1>2. asked[r] = 0 \/ asked[r] \in Asked
  BY Zenon DEF TypeOK
<1> QED BY <1>1, <1>2

\* What the steps of readN do to a follower's state.
LEMMA ReadSteps ==
    ASSUME Shape, NEW r \in Readers, ReadN(r) \/ TailAll(r) \/ TailN(r)
    PROVE  /\ got' \in [Readers -> SUBSET Line]
           /\ \A q \in Readers \ {r} : rpc'[q] = rpc[q] /\ rfd'[q] = rfd[q] /\ rpos'[q] = rpos[q] /\ got'[q] = got[q]
           /\ rpc' \in [Readers -> {"idle", "opened", "subscribed", "tailall", "tailn", "torn", "streaming"}]
           /\ rfd' \in [Readers -> Inode \cup {NoInode}] /\ rpos' \in [Readers -> Nat]
           /\ cut' \subseteq Readers /\ faults' \in 0..MaxFaults
           /\ r \in submap /\ rpc'[r] \in {"tailall", "tailn", "streaming"}
           /\ rpc'[r] \in {"tailall", "tailn"} => rfd'[r] \in Inode
           /\ rpc'[r] = "tailn" => asked[r] >= 0 /\ rpos'[r] <= Len(content[rfd'[r]])
<1> USE DEF Shape
<1>1. r \in submap
  BY DEF ReadN, TailAll, TailN, Registered
<1>2. CASE ReadN(r)
  <2>1. got' = got
    BY <1>2 DEF ReadN
  <2>2. CASE rpc' = [rpc EXCEPT ![r] = "streaming"] /\ UNCHANGED <<rfd, rpos, cut, faults>>
    BY <1>1, <2>1, <2>2 DEF TypeOK
  <2>3. CASE ReadFails(r)
    <3>1. got' \in [Readers -> SUBSET Line]
      BY <2>1 DEF TypeOK
    <3> QED BY <1>1, <2>1, <2>3, <3>1, ReadStops
  <2>4. CASE /\ asked[r] # 0 /\ path # NoInode
             /\ rfd' = [rfd EXCEPT ![r] = path]
             /\ rpos' = [rpos EXCEPT ![r] = IF asked[r] < 0 THEN 0 ELSE Len(content[path])]
             /\ rpc' = [rpc EXCEPT ![r] = IF asked[r] < 0 THEN "tailall" ELSE "tailn"]
             /\ UNCHANGED <<cut, faults>>
    <3>1. path \in Inode /\ Len(content[path]) \in Nat
      BY <2>4 DEF TypeOK
    <3>2. asked[r] \in Int
      BY AskedNumber
    <3>3. rpos' \in [Readers -> Nat]
      BY <2>4, <3>1 DEF TypeOK
    <3>4. rfd'[r] = path /\ rpc'[r] = (IF asked[r] < 0 THEN "tailall" ELSE "tailn")
          /\ rpos'[r] = (IF asked[r] < 0 THEN 0 ELSE Len(content[path]))
      BY <2>4 DEF TypeOK
    <3>5. rfd' \in [Readers -> Inode \cup {NoInode}]
          /\ rpc' \in [Readers -> {"idle", "opened", "subscribed", "tailall", "tailn", "torn", "streaming"}]
      BY <2>4, <3>1 DEF TypeOK
    <3>6. cut' \subseteq Readers /\ faults' \in 0..MaxFaults /\ got' \in [Readers -> SUBSET Line]
      BY <2>1, <2>4 DEF TypeOK
    <3>7. \A q \in Readers \ {r} : rpc'[q] = rpc[q] /\ rfd'[q] = rfd[q] /\ rpos'[q] = rpos[q] /\ got'[q] = got[q]
      BY <2>1, <2>4 DEF TypeOK
    <3> QED BY <1>1, <3>1, <3>2, <3>3, <3>4, <3>5, <3>6, <3>7
  <2> QED BY <1>2, <2>2, <2>3, <2>4 DEF ReadN
<1>3. ASSUME TailAll(r) \/ TailN(r)
      PROVE  rfd[r] \in Inode /\ content[rfd[r]] \in Seq(Piece) /\ rpos[r] \in Nat /\ Len(content[rfd[r]]) \in Nat
  BY <1>3 DEF TailAll, TailN, Registered, TypeOK
<1>4. ASSUME NEW new \in SUBSET Line, got' = [got EXCEPT ![r] = @ \cup new]
      PROVE  got' \in [Readers -> SUBSET Line] /\ \A q \in Readers \ {r} : got'[q] = got[q]
  BY <1>4 DEF TypeOK
<1>5. CASE TailAll(r)
  <2> DEFINE c == content[rfd[r]]
  <2>1. ASSUME NEW to \in (rpos[r] + 1)..Len(c),
               got' = [got EXCEPT ![r] = @ \cup Written(c, (rpos[r] + 1)..to)],
               rpos' = [rpos EXCEPT ![r] = to], UNCHANGED <<rpc, rfd, cut, faults>>
        PROVE  /\ got' \in [Readers -> SUBSET Line] /\ \A q \in Readers \ {r} : got'[q] = got[q]
               /\ rpos' \in [Readers -> Nat]
    <3>1. to \in Nat /\ (rpos[r] + 1)..to \subseteq 1..Len(c)
      BY <1>3, <1>5
    <3>2. Written(c, (rpos[r] + 1)..to) \subseteq Line
      BY <1>3, <1>5, <3>1, WrittenLines
    <3>3. rpos' \in [Readers -> Nat]
      BY <2>1, <3>1 DEF TypeOK
    <3> QED BY <1>4, <2>1, <3>2, <3>3
  <2>2. CASE \E to \in (rpos[r] + 1)..Len(c) :
                /\ got' = [got EXCEPT ![r] = @ \cup Written(c, (rpos[r] + 1)..to)]
                /\ rpos' = [rpos EXCEPT ![r] = to] /\ UNCHANGED <<rpc, rfd, cut, faults>>
    <3>1. rpc[r] = "tailall" /\ UNCHANGED <<rpc, rfd, cut, faults>>
      BY <1>5, <2>2 DEF TailAll
    <3>2. /\ got' \in [Readers -> SUBSET Line] /\ \A q \in Readers \ {r} : got'[q] = got[q]
          /\ rpos' \in [Readers -> Nat] /\ \A q \in Readers \ {r} : rpos'[q] = rpos[q]
      BY <2>1, <2>2 DEF TypeOK
    <3> QED BY <1>1, <1>3, <1>5, <3>1, <3>2 DEF TypeOK
  <2>3. CASE (ReadEnds(r) \/ ReadFails(r)) /\ UNCHANGED got
    <3>1. got' \in [Readers -> SUBSET Line] /\ got' = got
      BY <2>3 DEF TypeOK
    <3> QED BY <1>1, <2>3, <3>1, ReadStops
  <2> QED BY <1>5, <2>2, <2>3 DEF TailAll
<1>6. CASE TailN(r)
  <2> DEFINE c == content[rfd[r]]
             found == IF rpc[r] = "tailn" THEN TailLines(SubSeq(c, 1, rpos[r]), asked[r])
                      ELSE Written(c, 1..Len(c))
  <2>1. found \subseteq Line
    <3>1. CASE rpc[r] = "tailn"
      <4> DEFINE d == SubSeq(c, 1, rpos[r])
      <4>1. rpos[r] <= Len(c)
        BY <3>1 DEF Registered
      <4>2. d \in Seq(Piece)
        BY <1>3, <1>6, <4>1
      <4> HIDE DEF d
      <4>3. TailLines(d, asked[r]) \subseteq Line
        <5>1. {j \in 1..Len(d) : Offset(d, j) >= TailFrom(d, asked[r])} \subseteq 1..Len(d)
          OBVIOUS
        <5> QED BY <4>2, <5>1, WrittenLines DEF TailLines
      <4> QED BY <3>1, <4>3 DEF d
    <3>2. CASE rpc[r] # "tailn"
      BY <1>3, <1>6, <3>2, WrittenLines
    <3> QED BY <3>1, <3>2
  <2>2. PICK new \in SUBSET found : got' = [got EXCEPT ![r] = @ \cup new] /\ (ReadEnds(r) \/ ReadFails(r))
    BY <1>6 DEF TailN
  <2> HIDE DEF found
  <2>3. got' \in [Readers -> SUBSET Line] /\ \A q \in Readers \ {r} : got'[q] = got[q]
    BY <1>4, <2>1, <2>2
  <2> QED BY <1>1, <2>2, <2>3, ReadStops
<1> QED BY <1>2, <1>5, <1>6

\* So do those of a follower,
LEMMA ReaderShape ==
    ASSUME Shape, NEW r \in Readers,
           \/ ROpen(r) \/ (\E n \in Asked : Subscriber(r, n))
           \/ ReadN(r) \/ TailAll(r) \/ TailN(r) \/ Unsubscriber(r)
    PROVE  Shape'
<1> USE DEF Shape
<1>1. CASE ROpen(r)
  BY <1>1, OpenHandle DEF ROpen, TypeOK, WriterHasFile, InodesFresh, Registered, diskVars, writerVars
<1>2. ASSUME NEW n \in Asked, Subscriber(r, n) PROVE Shape'
  BY <1>2 DEF Subscriber, TypeOK, WriterHasFile, InodesFresh, Registered, fsVars, diskVars, writerVars
<1>3. CASE ReadN(r) \/ TailAll(r) \/ TailN(r)
  <2>1. UNCHANGED <<fsVars, diskVars, writerVars, submap, asked>>
    BY <1>3 DEF ReadN, TailAll, TailN
  <2>2. /\ got' \in [Readers -> SUBSET Line]
        /\ \A q \in Readers \ {r} : rpc'[q] = rpc[q] /\ rfd'[q] = rfd[q] /\ rpos'[q] = rpos[q] /\ got'[q] = got[q]
        /\ rpc' \in [Readers -> {"idle", "opened", "subscribed", "tailall", "tailn", "torn", "streaming"}]
        /\ rfd' \in [Readers -> Inode \cup {NoInode}] /\ rpos' \in [Readers -> Nat]
        /\ cut' \subseteq Readers /\ faults' \in 0..MaxFaults
        /\ r \in submap /\ rpc'[r] \in {"tailall", "tailn", "streaming"}
        /\ rpc'[r] \in {"tailall", "tailn"} => rfd'[r] \in Inode
        /\ rpc'[r] = "tailn" => asked[r] >= 0 /\ rpos'[r] <= Len(content[rfd'[r]])
    BY <1>3, ReadSteps
  <2>3. TypeOK'
    BY <2>1, <2>2 DEF TypeOK, fsVars, diskVars, writerVars
  <2>4. Registered'
    BY <2>1, <2>2 DEF Registered, diskVars
  <2> QED BY <2>1, <2>3, <2>4 DEF WriterHasFile, InodesFresh, fsVars, diskVars, writerVars
<1>4. CASE Unsubscriber(r)
  <2>1. TypeOK'
    BY <1>4 DEF Unsubscriber, TypeOK, fsVars, diskVars
  <2> QED BY <1>4, <2>1 DEF Unsubscriber, TypeOK, WriterHasFile, InodesFresh, Registered, fsVars, diskVars
<1> QED BY <1>1, <1>2, <1>3, <1>4

\* and the timer and the removals.
LEMMA FileShape ==
    ASSUME Shape, (\E h \in Handle : AutoClose(h)) \/ RemoveClose \/ RemoveUnlink \/ RemoveOnly
    PROVE  Shape'
<1> USE DEF Shape
<1>0. /\ removes \in Nat /\ inodes \in Nat /\ path \in Nat /\ path <= inodes
      /\ \A h \in Handle : fd[h] \in Nat /\ fd[h] <= inodes
  BY Bounds DEF TypeOK, InodesFresh, Inode, NoInode
<1>1. ASSUME NEW h \in Handle, AutoClose(h) PROVE Shape'
  <2>1. TypeOK'
    BY <1>1 DEF AutoClose, TypeOK, fsVars, writerVars, readerVars
  <2>2. InodesFresh'
    BY <1>0, <1>1 DEF AutoClose, InodesFresh, TypeOK, NoInode, fsVars
  <2> QED BY <1>1, <2>1, <2>2 DEF AutoClose, WriterHasFile, Registered, writerVars, readerVars
<1>2. CASE RemoveClose
  <2>1. TypeOK'
    BY <1>2, Bounds DEF RemoveClose, TypeOK, writerVars, readerVars
  <2>2. InodesFresh'
    BY <1>0, <1>2, Bounds DEF RemoveClose, InodesFresh, TypeOK, NoInode
  <2> QED BY <1>2, <2>1, <2>2 DEF RemoveClose, WriterHasFile, Registered, writerVars, readerVars
<1>3. CASE RemoveUnlink \/ RemoveOnly
  <2>1. TypeOK'
    <3>1. /\ path' \in {NoInode, path}
          /\ UNCHANGED <<files, inodes, content, fd, filesize, crossed, writerVars, readerVars>>
      BY <1>3 DEF RemoveUnlink, RemoveOnly, Unlink
    <3>2. removing' \in BOOLEAN
      BY <1>3 DEF RemoveUnlink, RemoveOnly, TypeOK
    <3>3. removes' \in 0..MaxRemoves
      BY <1>3, Bounds DEF RemoveUnlink, RemoveOnly, TypeOK
    <3>4. faults' \in 0..MaxFaults
      <4>1. faults' = faults \/ Fault
        BY <1>3 DEF RemoveUnlink, RemoveOnly, Unlink
      <4> QED BY <4>1, Bounds DEF Fault, TypeOK
    <3> QED BY <3>1, <3>2, <3>3, <3>4 DEF TypeOK, writerVars, readerVars
  <2>2. InodesFresh'
    <3>1. path' \in {NoInode, path} /\ UNCHANGED <<inodes, content, fd>>
      BY <1>3 DEF RemoveUnlink, RemoveOnly, Unlink
    <3>2. \/ removes' = removes /\ removing /\ removing' = FALSE
          \/ removes' = removes + 1 /\ removing = removing'
      BY <1>3, Zenon DEF RemoveUnlink, RemoveOnly
    <3> QED BY <1>0, <3>1, <3>2, Bounds DEF InodesFresh, NoInode
  <2> QED BY <1>3, <2>1, <2>2 DEF RemoveUnlink, RemoveOnly, WriterHasFile, Registered, writerVars, readerVars
<1> QED BY <1>1, <1>2, <1>3
-----------------------------------------------------------------------------
(* No gap. *)

\* A line sent, or about to be sent, to a registered follower stays so: a step of a writer
\* takes no line back,
LEMMA HeardByWriter ==
    ASSUME Shape, NEW w \in Writers, WOpen(w) \/ Write(w) \/ WriteFails(w) \/ Snapshot(w) \/ Notify(w),
           NEW r \in submap, NEW l \in Line, l \in Heard(r)
    PROVE  l \in Heard(r)'
<1> USE DEF Shape
<1>0. r \in Readers
  BY DEF TypeOK
<1>1. CASE WOpen(w)
  BY <1>1 DEF WOpen, Heard, Pending, TypeOK, readerVars
<1>2. CASE Write(w)
  BY <1>2 DEF Write, Heard, Pending, TypeOK
<1>3. CASE WriteFails(w)
  BY <1>3 DEF WriteFails, Answer, Heard, Pending, TypeOK
<1>4. CASE Snapshot(w)
  BY <1>4 DEF Snapshot, Heard, Pending, TypeOK, readerVars
<1>5. CASE Notify(w)
  <2>1. CASE l \in got[r]
    <3>1. ASSUME NEW q \in targets[w], got' = [got EXCEPT ![q] = @ \cup {wline[w]}]
          PROVE  l \in got'[r]
      BY <1>0, <2>1, <3>1 DEF TypeOK
    <3>2. l \in got'[r]
      BY <1>5, <2>1, <3>1 DEF Notify
    <3> QED BY <3>2 DEF Heard
  <2>2. CASE Pending(l, r)
    <3>1. PICK v \in Writers : wline[v] = l /\ (wpc[v] = "written" \/ (wpc[v] = "notify" /\ r \in targets[v]))
      BY <2>2 DEF Pending
    <3>2. ASSUME NEW q \in targets[w], got' = [got EXCEPT ![q] = @ \cup {wline[w]}],
                 targets' = [targets EXCEPT ![w] = @ \ {q}], UNCHANGED <<wpc, wfile, wline>>
          PROVE  l \in Heard(r)'
      <4>1. CASE v = w /\ q = r
        <5>1. l \in got'[r]
          BY <1>0, <3>1, <3>2, <4>1 DEF TypeOK
        <5> QED BY <5>1 DEF Heard
      <4>2. CASE ~(v = w /\ q = r)
        <5>1. wpc[v] = "notify" /\ r \in targets[v] => r \in targets'[v]
          BY <3>2, <4>2 DEF TypeOK
        <5>2. Pending(l, r)'
          BY <3>1, <3>2, <5>1 DEF Pending
        <5> QED BY <5>2 DEF Heard
      <4> QED BY <4>1, <4>2
    <3>3. ASSUME targets[w] = {}, Answer(w), UNCHANGED <<got, targets>>
          PROVE  l \in Heard(r)'
      <4>1. v # w
        BY <1>5, <3>1, <3>3 DEF Notify
      <4>2. wpc'[v] = wpc[v] /\ wline'[v] = wline[v]
        BY <3>3, <4>1 DEF Answer, TypeOK
      <4>3. Pending(l, r)'
        BY <3>1, <3>3, <4>2 DEF Pending
      <4> QED BY <4>3 DEF Heard
    <3> QED BY <1>5, <3>2, <3>3 DEF Notify
  <2> QED BY <2>1, <2>2 DEF Heard
<1> QED BY <1>1, <1>2, <1>3, <1>4, <1>5

\* and neither does a step of a follower, unless it is this one that hangs up.
LEMMA HeardByReader ==
    ASSUME Shape, NEW q \in Readers,
           \/ ROpen(q) \/ (\E n \in Asked : Subscriber(q, n))
           \/ ReadN(q) \/ TailAll(q) \/ TailN(q) \/ Unsubscriber(q),
           NEW r \in Readers, Unsubscriber(q) => q # r, NEW l \in Line, l \in Heard(r)
    PROVE  l \in Heard(r)'
<1> USE DEF Shape
<1>1. CASE ROpen(q) \/ (\E n \in Asked : Subscriber(q, n)) \/ ReadN(q)
  <2>1. UNCHANGED <<got, wpc, wline, targets>>
    BY <1>1 DEF ROpen, Subscriber, ReadN, writerVars
  <2> QED BY <2>1 DEF Heard, Pending
<1>2. CASE TailAll(q) \/ TailN(q)
  <2>1. UNCHANGED <<wpc, wline, targets>>
    BY <1>2 DEF TailAll, TailN, writerVars
  <2>2. got[r] \subseteq got'[r]
    <3>1. CASE TailAll(q)
      BY <3>1 DEF TailAll, TypeOK
    <3>2. CASE TailN(q)
      <4>1. PICK new : got' = [got EXCEPT ![q] = @ \cup new]
        BY <3>2 DEF TailN
      <4> QED BY <4>1 DEF TypeOK
    <3> QED BY <1>2, <3>1, <3>2
  <2> QED BY <2>1, <2>2 DEF Heard, Pending
<1>3. CASE Unsubscriber(q)
  BY <1>3 DEF Unsubscriber, Heard, Pending, TypeOK
<1> QED BY <1>1, <1>2, <1>3

\* Follower r itself does nothing, lines stay sent, and files are emptied or grow by lines
\* that are about to be sent: it still misses none.
LEMMA CompleteKept ==
    ASSUME Shape, Shape', NEW r \in Readers, Complete(r),
           rpc'[r] = rpc[r], asked'[r] = asked[r], rfd'[r] = rfd[r], rpos'[r] = rpos[r],
           r \in cut => r \in cut',
           r \in submap => \A l \in Line : l \in Heard(r) => l \in Heard(r)',
           \A i \in Inode : \/ content'[i] = content[i]
                            \/ content'[i] = <<>>
                            \/ \E x \in Piece : x \in Sent(r)' /\ content'[i] = Append(content[i], x),
           \/ path' \in {NoInode, path}
           \/ path' \in Inode /\ content[path'] = <<>>
    PROVE  Complete(r)'
<1> USE DEF Shape
<1>0. \A i \in Inode : content[i] \in Seq(Piece) /\ content'[i] \in Seq(Piece)
  BY DEF TypeOK
<1>00. /\ path \in Inode \cup {NoInode} /\ path' \in Inode \cup {NoInode}
       /\ rpc[r] \in {"tailall", "streaming"} => r \in submap
       /\ rpc[r] = "tailall" => rfd[r] \in Inode
       /\ rpos[r] \in Nat
  BY DEF TypeOK, Registered
<1>1. ASSUME NEW i \in Inode, NEW k \in 1..Len(content'[i]), r \in submap
      PROVE  \/ k \in 1..Len(content[i]) /\ content'[i][k] = content[i][k]
             \/ k = Len(content[i]) + 1 /\ content'[i][k] \in Sent(r)'
  <2>1. CASE content'[i] = content[i]
    BY <2>1
  <2>2. CASE content'[i] = <<>>
    BY <2>2
  <2>3. ASSUME NEW x \in Piece, x \in Sent(r)', content'[i] = Append(content[i], x)
        PROVE  \/ k \in 1..Len(content[i]) /\ content'[i][k] = content[i][k]
               \/ k = Len(content[i]) + 1 /\ content'[i][k] \in Sent(r)'
    <3>1. CASE k = Len(content[i]) + 1
      <4>1. content'[i][k] = x
        BY <1>0, <2>3, <3>1
      <4> QED BY <2>3, <3>1, <4>1, Zenon
    <3>2. CASE k # Len(content[i]) + 1
      BY <1>0, <2>3, <3>2
    <3> QED BY <3>1, <3>2
  <2> QED BY <2>1, <2>2, <2>3
<1>2. ASSUME NEW i \in Inode, NEW k \in 1..Len(content[i]), r \in submap, content[i][k] \in Sent(r)
      PROVE  content[i][k] \in Sent(r)'
  <2>1. content[i][k] \in Piece
    BY <1>0
  <2>2. ASSUME NEW x \in Piece, x \in Sent(r) PROVE x \in Sent(r)'
    <3>1. Whole(x) => x.line \in Heard(r)
      BY <2>2, Zenon DEF Sent
    <3>2. x.line \in Line
      BY DEF Piece
    <3>3. Whole(x) => x.line \in Heard(r)'
      BY <1>2, <3>1, <3>2, Zenon
    <3> QED BY <3>3, Zenon DEF Sent, Whole
  <2> QED BY <1>2, <2>1, <2>2, Zenon
<1>3. ASSUME path' # NoInode, r \in submap,
             path # NoInode => \A k \in 1..Len(content[path]) : content[path][k] \in Sent(r)
      PROVE  \A k \in 1..Len(content'[path']) : content'[path'][k] \in Sent(r)'
  <2>0. path' \in Inode
    BY <1>00, <1>3
  <2>1. CASE path' = path
    BY <1>1, <1>2, <1>3, <2>0, <2>1
  <2>2. CASE content[path'] = <<>>
    BY <1>1, <1>3, <2>0, <2>2
  <2> QED BY <1>3, <2>1, <2>2
<1>4. ASSUME rpc[r] = "tailall"
      PROVE  /\ \A k \in 1..Len(content'[rfd[r]]) : k > rpos[r] \/ content'[rfd[r]][k] \in Sent(r)'
             /\ path' \notin {NoInode, rfd[r]} =>
                   \A k \in 1..Len(content'[path']) : content'[path'][k] \in Sent(r)'
  <2>1. r \in submap /\ rfd[r] \in Inode
    BY <1>00, <1>4
  <2>2. \A k \in 1..Len(content[rfd[r]]) : k > rpos[r] \/ content[rfd[r]][k] \in Sent(r)
    BY <1>4 DEF Complete
  <2>3. ASSUME NEW k \in 1..Len(content'[rfd[r]]) PROVE k > rpos[r] \/ content'[rfd[r]][k] \in Sent(r)'
    BY <1>1, <1>2, <2>1, <2>2
  <2>4. ASSUME path' \notin {NoInode, rfd[r]}
        PROVE  \A k \in 1..Len(content'[path']) : content'[path'][k] \in Sent(r)'
    <3>0. path' \in Inode
      BY <1>00, <2>4
    <3>1. CASE path' = path
      <4>1. path # NoInode /\ \A k \in 1..Len(content[path]) : content[path][k] \in Sent(r)
        BY <1>4, <2>4, <3>1 DEF Complete
      <4> QED BY <1>3, <2>1, <2>4, <4>1
    <3>2. CASE content[path'] = <<>>
      BY <1>1, <2>1, <3>0, <3>2
    <3> QED BY <2>4, <3>1, <3>2
  <2> QED BY <2>3, <2>4
<1>5. ASSUME rpc[r] = "streaming", r \notin cut, asked[r] < 0, path' # NoInode
      PROVE  \A k \in 1..Len(content'[path']) : content'[path'][k] \in Sent(r)'
  <2>1. r \in submap
    BY <1>00, <1>5
  <2>2. path # NoInode => \A k \in 1..Len(content[path]) : content[path][k] \in Sent(r)
    BY <1>5 DEF Complete
  <2> QED BY <1>3, <1>5, <2>1, <2>2
<1> QED BY <1>4, <1>5 DEF Complete

\* A writer's step.
LEMMA CompleteWriter ==
    ASSUME Shape, Shape', NEW w \in Writers, WOpen(w) \/ Write(w) \/ WriteFails(w) \/ Snapshot(w) \/ Notify(w),
           NEW r \in Readers, Complete(r)
    PROVE  Complete(r)'
<1> USE DEF Shape
<1>1. (r \in submap => \A l \in Line : l \in Heard(r) => l \in Heard(r)') /\ cut' = cut
  BY HeardByWriter DEF WOpen, Write, WriteFails, Snapshot, Notify, readerVars
<1>2. CASE WOpen(w) \/ Snapshot(w) \/ Notify(w)
  <2>1. UNCHANGED <<rpc, asked, rfd, rpos, content, path>>
    BY <1>2 DEF WOpen, Snapshot, Notify, diskVars, readerVars
  <2> QED BY <1>1, <2>1, CompleteKept
<1>3. ASSUME NEW h \in Handle, OpenFile(h)
      PROVE  path' \in {NoInode, path} \/ (path' \in Inode /\ content[path'] = <<>>)
  <2> DEFINE i == OpenInode(h)
  <2>1. i \in Inode /\ (fd[h] = NoInode /\ path # NoInode => i = path)
    BY OpenInodeFacts
  <2>2. fd[h] = NoInode /\ path = NoInode => i > inodes
    BY Bounds DEF OpenInode, TypeOK
  <2>3. i > inodes => content[i] = <<>>
    BY OpenInodeFacts
  <2>4. path' = IF fd[h] = NoInode THEN i ELSE path
    BY <1>3 DEF OpenFile
  <2> HIDE DEF i
  <2> QED BY <2>1, <2>2, <2>3, <2>4
<1>4. ASSUME NEW h \in Handle, OpenFile(h), NEW c, NEW size, NEW ok, NEW i, i = OpenInode(h),
             Truncate(h, i, c, size, ok),
             c = content[i] \/ \E x \in Piece : x \in Sent(r)' /\ c = Append(content[i], x),
             UNCHANGED <<asked, rfd, rpos>>
      PROVE  Complete(r)'
  <2>1. i \in Inode
    BY <1>4, OpenInodeFacts
  <2>2. \/ content' = [content EXCEPT ![i] = <<>>] /\ rpc' = Torn(i)
        \/ content' = [content EXCEPT ![i] = c] /\ rpc' = rpc
    BY <1>4 DEF Truncate
  <2>3. \A x \in Inode : \/ content'[x] = content[x]
                         \/ content'[x] = <<>>
                         \/ \E y \in Piece : y \in Sent(r)' /\ content'[x] = Append(content[x], y)
    BY <1>4, <2>1, <2>2 DEF TypeOK
  <2>4. path' \in {NoInode, path} \/ (path' \in Inode /\ content[path'] = <<>>)
    BY <1>3, <1>4
  <2>5. CASE rpc'[r] = rpc[r]
    BY <1>1, <1>4, <2>3, <2>4, <2>5, CompleteKept
  <2>6. CASE rpc'[r] # rpc[r]
    <3>1. rpc'[r] = "torn"
      BY <2>2, <2>6 DEF Torn
    <3> QED BY <3>1 DEF Complete
  <2> QED BY <2>5, <2>6
<1>5. CASE WriteFails(w)
  <2>1. UNCHANGED <<asked, rfd, rpos>> /\ wfile[w] \in Handle
    BY <1>5 DEF WriteFails, WriterHasFile
  <2>2. CASE UNCHANGED <<fd, path, inodes, content, filesize, crossed, rpc>>
    BY <1>1, <2>1, <2>2, CompleteKept
  <2>3. CASE ~UNCHANGED <<fd, path, inodes, content, filesize, crossed, rpc>>
    <3>1. PICK c \in Seq(Piece), size \in Nat, ok \in BOOLEAN : ShortWrite(w, c, size, ok)
      BY <1>5, <2>3, WriteFailsFacts
    <3>2. \A x \in Piece : ~Whole(x) => x \in Sent(r)'
      BY Zenon DEF Sent, Whole
    <3>3. \/ c = content[OpenInode(wfile[w])]
          \/ \E x \in Piece : x \in Sent(r)' /\ c = Append(content[OpenInode(wfile[w])], x)
      BY <3>1, <3>2, Zenon DEF ShortWrite
    <3>4. OpenFile(wfile[w]) /\ Truncate(wfile[w], OpenInode(wfile[w]), c, size, ok)
      BY <3>1 DEF ShortWrite
    <3> QED BY <1>4, <2>1, <3>3, <3>4
  <2> QED BY <2>2, <2>3
<1>6. CASE Write(w)
  <2> DEFINE h == wfile[w]
             l == wline[w]
             x == [line |-> l, bytes |-> Size[l]]
             size == OpenSize(h) + Size[l]
             c == Append(content[OpenInode(h)], x)
  <2>1. h \in Handle /\ l \in Line /\ x \in Piece
    BY <1>6, WriteFacts
  <2>2. /\ UNCHANGED <<asked, rfd, rpos>> /\ OpenFile(h)
        /\ wpc' = [wpc EXCEPT ![w] = "written"] /\ wline' = wline
    BY <1>6 DEF Write
  <2>3. \E ok : Truncate(h, OpenInode(h), c, size, ok)
    BY <1>6 DEF Write
  <2>4. x \in Sent(r)'
    <3>1. wpc'[w] = "written" /\ wline'[w] = l
      BY <2>2 DEF TypeOK
    <3>2. l \in Heard(r)'
      BY <2>1, <3>1 DEF Heard, Pending
    <3>3. x.line = l
      OBVIOUS
    <3> HIDE DEF x, l
    <3> QED BY <2>1, <3>2, <3>3, Zenon DEF Sent, Whole
  <2> HIDE DEF h, x, size
  <2> QED BY <1>4, <2>1, <2>2, <2>3, <2>4
<1> QED BY <1>2, <1>5, <1>6

\* A follower whose reading fails misses what it misses.
LEMMA CutShort ==
    ASSUME TypeOK, NEW r \in Readers, ReadFails(r)
    PROVE  Complete(r)'
<1>1. rpc'[r] = "streaming" /\ r \in cut'
  BY DEF ReadFails, TypeOK
<1> QED BY <1>1 DEF Complete

\* A follower's step.
LEMMA CompleteReader ==
    ASSUME Shape, Shape', NEW q \in Readers,
           \/ ROpen(q) \/ (\E n \in Asked : Subscriber(q, n))
           \/ ReadN(q) \/ TailAll(q) \/ TailN(q) \/ Unsubscriber(q),
           NEW r \in Readers, Complete(r)
    PROVE  Complete(r)'
<1> USE DEF Shape
<1>0. UNCHANGED <<content, path>>
  BY DEF ROpen, Subscriber, ReadN, TailAll, TailN, Unsubscriber, diskVars
<1>1. CASE q # r
  <2>1. \A l \in Line : l \in Heard(r) => l \in Heard(r)'
    BY <1>1, HeardByReader
  <2>2. /\ rpc'[r] = rpc[r] /\ asked'[r] = asked[r] /\ rfd'[r] = rfd[r] /\ rpos'[r] = rpos[r]
        /\ r \in cut => r \in cut'
    <3>1. CASE ROpen(q) \/ (\E n \in Asked : Subscriber(q, n))
      BY <1>1, <3>1 DEF ROpen, Subscriber, TypeOK
    <3>2. CASE ReadN(q) \/ TailAll(q) \/ TailN(q)
      <4>1. asked' = asked
        BY <3>2 DEF ReadN, TailAll, TailN
      <4>2. cut \subseteq cut'
        BY <3>2 DEF ReadN, TailAll, TailN, ReadFails, ReadEnds
      <4> QED BY <1>1, <3>2, <4>1, <4>2, ReadSteps
    <3>3. CASE Unsubscriber(q)
      BY <1>1, <3>3 DEF Unsubscriber, TypeOK
    <3> QED BY <3>1, <3>2, <3>3
  <2> QED BY <1>0, <2>1, <2>2, CompleteKept
<1>2. CASE q = r
  <2>1. CASE ROpen(r) \/ (\E n \in Asked : Subscriber(r, n)) \/ Unsubscriber(r)
    <3>1. rpc'[r] \in {"opened", "subscribed", "idle"}
      BY <2>1 DEF ROpen, Subscriber, Unsubscriber, TypeOK
    <3> QED BY <3>1 DEF Complete
  <2>2. CASE ReadN(r)
    <3>1. CASE rpc' = [rpc EXCEPT ![r] = "streaming"] /\ (asked[r] = 0 \/ path = NoInode)
      <4>1. rpc'[r] = "streaming" /\ asked' = asked
        BY <2>2, <3>1 DEF ReadN, TypeOK
      <4> QED BY <1>0, <3>1, <4>1 DEF Complete
    <3>2. CASE /\ rfd' = [rfd EXCEPT ![r] = path]
               /\ rpos' = [rpos EXCEPT ![r] = IF asked[r] < 0 THEN 0 ELSE Len(content[path])]
               /\ rpc' = [rpc EXCEPT ![r] = IF asked[r] < 0 THEN "tailall" ELSE "tailn"]
      <4>1. rfd'[r] = path /\ rpc'[r] \in {"tailall", "tailn"}
            /\ (rpc'[r] = "tailall" => rpos'[r] = 0)
        BY <3>2 DEF TypeOK
      <4> QED BY <1>0, <4>1 DEF Complete
    <3>3. CASE ReadFails(r)
      BY <3>3, CutShort
    <3> QED BY <2>2, <3>1, <3>2, <3>3 DEF ReadN
  <2>3. CASE TailAll(r)
    <3> DEFINE c == content[rfd[r]]
    <3>0. rfd[r] \in Inode /\ c \in Seq(Piece) /\ rpos[r] \in Nat /\ r \in submap /\ rpc[r] = "tailall"
      BY <2>3 DEF TailAll, Registered, TypeOK
    <3>1. \A k \in 1..Len(c) : k > rpos[r] \/ c[k] \in Sent(r)
      BY <3>0 DEF Complete
    <3>2. path \notin {NoInode, rfd[r]} =>
             \A k \in 1..Len(content[path]) : content[path][k] \in Sent(r)
      BY <3>0 DEF Complete
    <3>3. ASSUME NEW x \in Piece, x \in Sent(r) PROVE x \in Sent(r)'
      <4>1. Unsubscriber(r) => r # r
        BY <3>0 DEF Unsubscriber
      <4>2. \A l \in Line : l \in Heard(r) => l \in Heard(r)'
        BY <2>3, <4>1, HeardByReader
      <4>3. x.line \in Line
        BY DEF Piece
      <4> QED BY <3>3, <4>2, <4>3, Zenon DEF Sent, Whole
    <3>4. \A i \in Inode : \A k \in 1..Len(content[i]) : content[i][k] \in Piece
      BY DEF TypeOK
    <3>5. path \in Inode \cup {NoInode}
      BY DEF TypeOK
    <3>6. ASSUME NEW to \in (rpos[r] + 1)..Len(c),
                 got' = [got EXCEPT ![r] = @ \cup Written(c, (rpos[r] + 1)..to)],
                 rpos' = [rpos EXCEPT ![r] = to], UNCHANGED <<rpc, rfd>>
          PROVE  Complete(r)'
      <4>1. rpos'[r] = to /\ to \in Nat
        BY <3>0, <3>6 DEF TypeOK
      <4>2. ASSUME NEW k \in 1..Len(c) PROVE k > to \/ c[k] \in Sent(r)'
        <5>1. c[k] \in Piece
          BY <3>0
        <5>2. CASE k \in (rpos[r] + 1)..to
          <6>1. Whole(c[k]) => c[k].line \in Written(c, (rpos[r] + 1)..to)
            BY <5>2 DEF Written
          <6>2. got'[r] = got[r] \cup Written(c, (rpos[r] + 1)..to)
            BY <3>6 DEF TypeOK
          <6> DEFINE x == c[k]
          <6>3. Whole(x) => x.line \in got'[r]
            BY <6>1, <6>2
          <6>4. x \in Piece /\ x.line \in Line
            BY <5>1 DEF Piece
          <6>5. x \in Sent(r)'
            <7> HIDE DEF x
            <7> QED BY <6>3, <6>4, Zenon DEF Sent, Heard, Whole
          <6> QED BY <6>5
        <5>3. CASE ~(k > rpos[r])
          <6>1. c[k] \in Sent(r)
            BY <3>1, <5>3
          <6> HIDE DEF c
          <6> QED BY <3>3, <5>1, <6>1
        <5> QED BY <3>0, <4>1, <5>2, <5>3
      <4>3. path \notin {NoInode, rfd[r]} =>
               \A k \in 1..Len(content[path]) : content[path][k] \in Sent(r)'
        BY <3>2, <3>3, <3>4, <3>5
      <4>4. rpc'[r] = "tailall" /\ rfd'[r] = rfd[r]
        BY <3>0, <3>6
      <4> QED BY <1>0, <4>1, <4>2, <4>3, <4>4 DEF Complete
    <3>7. CASE /\ rpos[r] >= Len(c)
               /\ ReadEnds(r)
               /\ UNCHANGED got
      <4>1. rpc'[r] = "streaming"
        BY <3>7, ReadStops
      <4>2. ASSUME path # NoInode PROVE \A k \in 1..Len(content[path]) : content[path][k] \in Sent(r)'
        <5>1. CASE path = rfd[r]
          <6>1. \A k \in 1..Len(c) : c[k] \in Sent(r)
            BY <3>0, <3>1, <3>7
          <6> QED BY <3>0, <3>3, <3>4, <5>1, <6>1
        <5>2. CASE path # rfd[r]
          BY <3>2, <3>3, <3>4, <3>5, <4>2, <5>2
        <5> QED BY <5>1, <5>2
      <4> QED BY <1>0, <4>1, <4>2 DEF Complete
    <3>8. CASE ReadFails(r)
      BY <3>8, CutShort
    <3> QED BY <2>3, <3>6, <3>7, <3>8 DEF TailAll
  <2>4. CASE TailN(r)
    <3>1. asked[r] >= 0 /\ asked[r] \in Int
      BY <2>4, AskedNumber DEF TailN, Registered
    <3>2. rpc'[r] = "streaming" /\ asked'[r] = asked[r]
      BY <2>4, ReadStops DEF TailN
    <3>3. ~(asked'[r] < 0)
      BY <3>1, <3>2
    <3> QED BY <3>2, <3>3 DEF Complete
  <2> QED BY <1>2, <2>1, <2>2, <2>3, <2>4
<1> QED BY <1>1, <1>2

\* The timer and the removals.
LEMMA CompleteFile ==
    ASSUME Shape, Shape',
           (\E h \in Handle : AutoClose(h)) \/ RemoveClose \/ RemoveUnlink \/ RemoveOnly,
           NEW r \in Readers, Complete(r)
    PROVE  Complete(r)'
<1>1. UNCHANGED <<content, rpc, asked, rfd, rpos, got, cut, wpc, wline, targets>> /\ path' \in {NoInode, path}
  BY DEF AutoClose, RemoveClose, RemoveUnlink, RemoveOnly, Unlink, writerVars, readerVars
<1>2. \A l \in Line : l \in Heard(r) => l \in Heard(r)'
  BY <1>1 DEF Heard, Pending
<1> QED BY <1>1, <1>2, CompleteKept
-----------------------------------------------------------------------------
(* The size. *)

\* A step that leaves the disk alone, and at most fills an empty place in the map.
LEMMA SizeKept ==
    ASSUME Shape, Counted, SizeBound, UNCHANGED <<diskVars, removing>>, faults' = faults \/ Fault,
           files' = files \/ (files = NoHandle /\ ~removing)
    PROVE  Counted' /\ SizeBound'
<1> USE DEF Shape
<1>1. \A h \in Handle : h # NoHandle
  BY Bounds DEF Handle, NoHandle
<1>2. faults' = 0 => faults = 0
  BY Bounds DEF Fault, TypeOK
<1>3. Counted'
  BY <1>1, <1>2 DEF Counted, diskVars
<1> QED BY <1>2, <1>3 DEF SizeBound, diskVars

\* limitedFile.write keeps the count of what it appends, starts with the size of the file it
\* finds, and empties a file that has become too large.
LEMMA SizeWrite ==
    ASSUME Shape, Counted, SizeBound, NEW w \in Writers, Write(w)
    PROVE  Counted' /\ SizeBound'
<1> USE DEF Shape
<1> DEFINE h == wfile[w]
           i == OpenInode(h)
           l == wline[w]
           x == [line |-> l, bytes |-> Size[l]]
           size == OpenSize(h) + Size[l]
<1>1. h \in Handle /\ l \in Line /\ x \in Piece /\ i \in Inode
  BY WriteFacts, OpenInodeFacts
<1>2. /\ OpenFile(h) /\ UNCHANGED <<files, removing>>
      /\ crossed' = (crossed \/ h # files)
  BY DEF Write, fsVars
<1>3. removing' => files' = NoHandle
  BY <1>2 DEF Counted
<1>4. ASSUME ~crossed', faults' = 0
      PROVE  /\ \A y \in Handle : fd'[y] # NoInode =>
                   y = files' /\ fd'[y] = path' /\ filesize'[y] = Bytes(content'[path'])
             /\ path' # NoInode => Bytes(content'[path']) < MaxSize
  <2>0. faults \in Nat
    BY Bounds DEF TypeOK
  <2>1. ~crossed /\ h = files /\ faults \in Nat
    BY <1>2, <1>4, <2>0, Zenon
  <2>2. /\ content' = [content EXCEPT ![i] = IF size >= MaxSize THEN <<>> ELSE Append(content[i], x)]
        /\ filesize' = [filesize EXCEPT ![h] = IF size >= MaxSize THEN 0 ELSE size]
        /\ faults' = faults
    BY <1>4, <2>1 DEF Write, Fault, Truncate
  <2>3. \A y \in Handle : fd[y] # NoInode =>
           y = files /\ fd[y] = path /\ filesize[y] = Bytes(content[path])
    BY <1>4, <2>1, <2>2 DEF Counted
  <2>4. fd' = [fd EXCEPT ![h] = i] /\ path' = IF fd[h] = NoInode THEN i ELSE path
    BY <1>2 DEF OpenFile
  <2>5. path' = i
    BY <1>1, <2>3, <2>4 DEF OpenInode
  <2>6. content[i] \in Seq(Piece) /\ Bytes(content[i]) \in Nat /\ (content[i] = <<>> => Bytes(content[i]) = 0)
    <3>1. content[i] \in Seq(Piece)
      BY <1>1 DEF TypeOK
    <3> QED BY <3>1, BytesFacts
  <2>7. OpenSize(h) = Bytes(content[i])
    <3>1. CASE fd[h] # NoInode
      BY <1>1, <2>3, <3>1 DEF OpenInode, OpenSize
    <3>2. CASE fd[h] = NoInode /\ path # NoInode
      BY <3>2 DEF OpenInode, OpenSize
    <3>3. CASE fd[h] = NoInode /\ path = NoInode
      <4>1. i > inodes
        BY <3>3, Bounds DEF OpenInode, TypeOK
      <4>2. content[i] = <<>>
        BY <1>1, <4>1 DEF InodesFresh
      <4> QED BY <2>6, <3>3, <4>2 DEF OpenSize
    <3> QED BY <3>1, <3>2, <3>3
  <2>8. Bytes(Append(content[i], x)) = size /\ size \in Nat
    <3>1. Size[l] \in Nat /\ x.bytes = Size[l]
      BY <1>1, Bounds
    <3> QED BY <1>1, <2>6, <2>7, <3>1, BytesAppend
  <2>9. Bytes(<<>>) = 0
    <3>1. <<>> \in Seq(Piece)
      OBVIOUS
    <3> QED BY <3>1, BytesFacts, Zenon
  <2> HIDE DEF i, l, x, size
  <2>10. Bytes(content'[i]) = (IF size >= MaxSize THEN 0 ELSE size)
    <3>1. CASE size >= MaxSize
      <4>1. content'[i] = <<>>
        BY <1>1, <2>2, <3>1 DEF TypeOK
      <4> QED BY <2>9, <3>1, <4>1
    <3>2. CASE ~(size >= MaxSize)
      <4>1. content'[i] = Append(content[i], x)
        BY <1>1, <2>2, <3>2 DEF TypeOK
      <4> QED BY <2>8, <3>2, <4>1
    <3> QED BY <3>1, <3>2
  <2>11. filesize'[h] = Bytes(content'[i]) /\ fd'[h] = i
    BY <1>1, <2>2, <2>4, <2>10 DEF TypeOK
  <2>12. \A y \in Handle : fd'[y] # NoInode => y = h
    BY <2>1, <2>3, <2>4 DEF TypeOK
  <2>13. Bytes(content'[i]) < MaxSize
    BY <2>8, <2>10, Bounds
  <2> QED BY <1>2, <2>1, <2>5, <2>11, <2>12, <2>13
<1> QED BY <1>3, <1>4 DEF Counted, SizeBound

\* The timer and the removals close the file before another one can take its name.
LEMMA SizeFile ==
    ASSUME Shape, Counted, SizeBound,
           (\E h \in Handle : AutoClose(h)) \/ RemoveClose \/ RemoveUnlink \/ RemoveOnly
    PROVE  Counted' /\ SizeBound'
<1> USE DEF Shape
<1>0. \A h \in Handle : h # NoHandle
  BY Bounds DEF Handle, NoHandle
<1>1. UNCHANGED <<content, crossed>>
  BY DEF AutoClose, RemoveClose, RemoveUnlink, RemoveOnly
<1>2. ASSUME NEW h \in Handle, AutoClose(h) PROVE Counted' /\ SizeBound'
  BY <1>2 DEF AutoClose, Counted, SizeBound, fsVars, TypeOK
<1>3. CASE RemoveClose
  BY <1>3 DEF RemoveClose, Counted, SizeBound, TypeOK
<1>4. CASE RemoveUnlink \/ RemoveOnly
  <2>1. files = NoHandle /\ files' = files /\ fd' = fd /\ (removing' => removing)
    BY <1>4 DEF RemoveUnlink, RemoveOnly, Counted
  <2>2. ~crossed /\ faults = 0 => \A h \in Handle : fd[h] = NoInode
    BY <1>0, <2>1 DEF Counted
  <2>3. CASE path' = NoInode /\ faults' = faults
    BY <1>1, <2>1, <2>2, <2>3 DEF Counted, SizeBound
  <2>4. CASE Fault
    <3>1. faults' # 0
      BY <2>4, Bounds DEF Fault, TypeOK
    <3> QED BY <2>1, <3>1 DEF Counted, SizeBound
  <2> QED BY <1>4, <2>3, <2>4 DEF RemoveUnlink, RemoveOnly, Unlink
<1> QED BY <1>2, <1>3, <1>4
-----------------------------------------------------------------------------
(* The theorems. *)

\* The invariant holds initially,
LEMMA PipeInit == Init => PipeInv
<1> SUFFICES ASSUME Init PROVE PipeInv
  OBVIOUS
<1> USE DEF Init
<1>1. TypeOK
  <2>1. \A i \in Inode : <<>> \in Seq(Piece)
    OBVIOUS
  <2>2. content \in [Inode -> Seq(Piece)]
    BY <2>1
  <2>3. /\ removes \in 0..MaxRemoves /\ inodes \in 0..(MaxRemoves + 1) /\ lines \in 0..MaxLines
        /\ faults \in 0..MaxFaults /\ filesize \in [Handle -> Nat] /\ rpos \in [Readers -> Nat]
    BY Bounds
  <2>4. asked \in [Readers -> Asked \cup {0}] /\ wline \in [Writers -> Line \cup {0}]
    OBVIOUS
  <2> QED BY <2>2, <2>3, <2>4 DEF TypeOK
<1>2. WriterHasFile /\ Registered
  BY DEF WriterHasFile, Registered
<1>3. InodesFresh
  <2>1. path <= inodes /\ \A h \in Handle : fd[h] <= inodes
    BY DEF NoInode
  <2>2. inodes + (IF path = NoInode THEN 1 ELSE 0) + (IF removing THEN 1 ELSE 0) <= removes + 1
    OBVIOUS
  <2> QED BY <2>1, <2>2 DEF InodesFresh
<1>4. \A r \in Readers : Complete(r)
  BY DEF Complete
<1>5. Counted /\ SizeBound
  BY DEF Counted, SizeBound
<1> QED BY <1>1, <1>2, <1>3, <1>4, <1>5 DEF PipeInv, Shape

\* and every step keeps it.
LEMMA PipeStep == PipeInv /\ [Next]_vars => PipeInv'
<1> SUFFICES ASSUME PipeInv, [Next]_vars PROVE PipeInv'
  OBVIOUS
<1> USE DEF PipeInv
<1>1. ASSUME NEW w \in Writers, WOpen(w) \/ Write(w) \/ WriteFails(w) \/ Snapshot(w) \/ Notify(w)
      PROVE  PipeInv'
  <2>1. Shape'
    BY <1>1, WriterShape
  <2>2. \A r \in Readers : Complete(r)'
    BY <1>1, <2>1, CompleteWriter
  <2>3. Counted' /\ SizeBound'
    <3>1. CASE WOpen(w)
      <4>1. UNCHANGED <<diskVars, removing, faults>>
        BY <3>1 DEF WOpen
      <4>2. files' = files \/ (files = NoHandle /\ ~removing)
        BY <3>1 DEF WOpen, Open
      <4> QED BY <4>1, <4>2, SizeKept
    <3>2. CASE Write(w)
      BY <3>2, SizeWrite
    <3>3. CASE WriteFails(w)
      <4>1. faults' # 0 /\ UNCHANGED fsVars
        BY <3>3, Bounds DEF WriteFails, Fault, Shape, TypeOK
      <4> QED BY <4>1 DEF Counted, SizeBound, fsVars
    <3>4. CASE Snapshot(w) \/ Notify(w)
      <4>1. UNCHANGED <<fsVars, diskVars, faults>>
        BY <3>4 DEF Snapshot, Notify
      <4> QED BY <4>1, SizeKept DEF fsVars
    <3> QED BY <1>1, <3>1, <3>2, <3>3, <3>4
  <2> QED BY <2>1, <2>2, <2>3
<1>2. ASSUME NEW q \in Readers,
             \/ ROpen(q) \/ (\E n \in Asked : Subscriber(q, n))
             \/ ReadN(q) \/ TailAll(q) \/ TailN(q) \/ Unsubscriber(q)
      PROVE  PipeInv'
  <2>1. Shape'
    BY <1>2, ReaderShape
  <2>2. \A r \in Readers : Complete(r)'
    BY <1>2, <2>1, CompleteReader
  <2>3. UNCHANGED <<diskVars, removing>> /\ (faults' = faults \/ Fault)
    BY <1>2 DEF ROpen, Subscriber, ReadN, TailAll, TailN, Unsubscriber, ReadFails, ReadEnds, fsVars
  <2>4. files' = files \/ (files = NoHandle /\ ~removing)
    BY <1>2 DEF ROpen, Open, Subscriber, ReadN, TailAll, TailN, Unsubscriber, fsVars
  <2>5. Counted' /\ SizeBound'
    BY <2>3, <2>4, SizeKept
  <2> QED BY <2>1, <2>2, <2>5
<1>3. CASE (\E h \in Handle : AutoClose(h)) \/ RemoveClose \/ RemoveUnlink \/ RemoveOnly
  <2>1. Shape'
    BY <1>3, FileShape
  <2>2. \A r \in Readers : Complete(r)'
    BY <1>3, <2>1, CompleteFile
  <2>3. Counted' /\ SizeBound'
    BY <1>3, SizeFile
  <2> QED BY <2>1, <2>2, <2>3
<1>4. CASE UNCHANGED vars
  <2>1. UNCHANGED <<fsVars, diskVars, writerVars, readerVars, faults>>
    BY <1>4 DEF vars
  <2>2. Shape'
    BY <2>1 DEF Shape, TypeOK, WriterHasFile, InodesFresh, Registered, fsVars, diskVars, writerVars, readerVars
  <2>3. \A r \in Readers : Complete(r)'
    BY <2>1 DEF Complete, Sent, Heard, Pending, diskVars, writerVars, readerVars
  <2>4. Counted' /\ SizeBound'
    BY <2>1 DEF Counted, SizeBound, fsVars, diskVars
  <2> QED BY <2>2, <2>3, <2>4
<1> QED BY <1>1, <1>2, <1>3, <1>4 DEF Next

\* So it always holds.
LEMMA PipeInvariant == Spec => []PipeInv
  BY PipeInit, PipeStep, PTL DEF Spec

\* The variables of pipelog keep their types.
THEOREM PipeTypeCorrect == Spec => []TypeOK
<1>1. PipeInv => TypeOK
  BY DEF PipeInv, Shape
<1> QED BY <1>1, PipeInvariant, PTL

\* A follower of a whole console file misses no line of it, whatever writes are cut short,
\* truncations and removals fail, unless its own reading fails: Subscriber registers it before
\* readN opens the file, and notifyAll looks at the followers after the line is in the file.
THEOREM NoGapProved == Spec => []NoGap
<1>1. PipeInv => NoGap
  <2> SUFFICES ASSUME PipeInv, NEW r \in Readers \ cut,
                      rpc[r] = "streaming", asked[r] < 0, path # NoInode,
                      NEW l \in Written(content[path], 1..Len(content[path]))
               PROVE  l \in got[r] \/ Pending(l, r)
    BY DEF NoGap
  <2>1. PICK k \in 1..Len(content[path]) : Whole(content[path][k]) /\ l = content[path][k].line
    BY DEF Written
  <2>2. content[path][k] \in Sent(r)
    BY <2>1 DEF PipeInv, Complete
  <2>3. l \in Heard(r)
    BY <2>1, <2>2 DEF Sent
  <2> QED BY <2>3 DEF Heard
<1> QED BY <1>1, PipeInvariant, PTL

\* limitedFile keeps the file below maxsize, whatever opens, closes, timers and removals come
\* in between, as long as no file operation fails and no request outlives a Remove.
THEOREM SizeBoundProved == Spec => []SizeBound
<1>1. PipeInv => SizeBound
  BY DEF PipeInv
<1> QED BY <1>1, PipeInvariant, PTL

\* pipelog's tailN sends exactly the last n lines of a console file, from where the first of
\* them begins, whatever whole lines and broken-off ones the writers left in it.
THEOREM TailNProved == Spec => []TailNExact
<1>1. TypeOK => TailNExact
  <2> SUFFICES ASSUME TypeOK, NEW i \in Inode, NEW n \in Line
               PROVE  IF Cardinality(Lines(content[i])) <= n THEN TailFrom(content[i], n) = 0
                      ELSE /\ TailFrom(content[i], n) \in Lines(content[i])
                           /\ Cardinality({o \in Lines(content[i]) : o >= TailFrom(content[i], n)}) = n
    BY Zenon DEF TailNExact
  <2>1. content[i] \in Seq(Piece)
    BY DEF TypeOK
  <2>2. n \in Nat \ {0}
    BY Bounds DEF Line
  <2> QED BY <2>1, <2>2, TailFromExact
<1> QED BY <1>1, PipeTypeCorrect, PTL
=============================================================================
