---------------------------- MODULE SharedProofs ----------------------------
(***************************************************************************)
(* What the operators that several components share do, for any values: the *)
(* write path of the managed files, the lists that the pages sort, the wire *)
(* of one hook and the query cache.                                        *)
(***************************************************************************)
EXTENDS ManagedFile, LiveQuery, CachedQuery, Sorting, Integers, FiniteSetsExt,
        SequenceTheorems, FiniteSetTheorems, WellFoundedInduction, TLAPS

-----------------------------------------------------------------------------
(* The managed files.                                                      *)

\* A text that is not empty holds a configuration.
LEMMA TextFacts ==
    ASSUME NEW C, NEW t \in Text(C)
    PROVE  /\ t = EmptyText \/ (t.state \in {"whole", "torn"} /\ t.cfg \in C)
           /\ t.state = "whole" => t # EmptyText /\ t = Whole(t.cfg)
BY DEF Text, EmptyText, Whole

\* Making a whole or a torn text.
LEMMA MakeText ==
    ASSUME NEW C, NEW c \in C
    PROVE  /\ EmptyText \in Text(C)
           /\ Whole(c) \in Text(C) /\ Whole(c) # EmptyText
           /\ Whole(c).cfg = c /\ Whole(c).state = "whole"
           /\ Torn(c) \in Text(C) /\ Torn(c) # EmptyText
           /\ Torn(c).cfg = c
BY DEF Text, EmptyText, Whole, Torn

\* Opening the temporary path creates or truncates a file other than the
\* managed one;
LEMMA OpensOther ==
    ASSUME NEW f, NEW held, NEW i \in Inode, NoFile \notin Inode,
           f.live # NoFile => f.live # f.tmp,
           OpensTmp(f, held, i)
    PROVE  i # f.live
BY DEF OpensTmp, Free

\* the managed path stays, and of the texts one changes.
LEMMA OpeningTmp ==
    ASSUME NEW C, NEW f \in FileSystem(C), NEW i \in Inode
    PROVE  /\ Opened(f, i) \in FileSystem(C)
           /\ Opened(f, i).live = f.live
           /\ Opened(f, i).tmp = i
           /\ Opened(f, i).text[i] = EmptyText
           /\ \A j \in Inode \ {i} : Opened(f, i).text[j] = f.text[j]
BY DEF FileSystem, Opened, Text

\* Writing changes the text of one inode only, and a text that finds the
\* inode empty is whole.
LEMMA Writes ==
    ASSUME NEW C, NEW f \in FileSystem(C), NEW i \in Inode, NEW c \in C,
           NEW g \in Written(f, i, c)
    PROVE  /\ g \in FileSystem(C)
           /\ g.live = f.live /\ g.tmp = f.tmp
           /\ \A j \in Inode \ {i} : g.text[j] = f.text[j]
           /\ g.text[i] # EmptyText /\ g.text[i].cfg = c
           /\ f.text[i] = EmptyText => g.text[i] = Whole(c) /\ g.text[i].state = "whole"
<1>1. g \in {[f EXCEPT !.text[i] = Whole(c)], [f EXCEPT !.text[i] = Torn(c)]}
  BY DEF Written
<1>2. f.text[i] = EmptyText => g = [f EXCEPT !.text[i] = Whole(c)]
  BY DEF Written
<1> QED BY <1>1, <1>2, MakeText DEF FileSystem

\* Renaming puts the temporary file in the place of the managed one.
LEMMA Renames ==
    ASSUME NEW C, NEW f \in FileSystem(C), f.tmp # NoFile
    PROVE  /\ Renamed(f) \in FileSystem(C)
           /\ Renamed(f).live = f.tmp /\ Renamed(f).tmp = NoFile
           /\ Renamed(f).text = f.text
BY DEF FileSystem, Renamed

\* A write that fails leaves the paths as they are, and the text of one inode
\* changed at most.
LEMMA WritesPartly ==
    ASSUME NEW C, NEW f \in FileSystem(C), NEW i \in Inode, NEW c \in C,
           NEW g \in PartlyWritten(f, i, c)
    PROVE  /\ g \in FileSystem(C)
           /\ g.live = f.live /\ g.tmp = f.tmp
           /\ \A j \in Inode \ {i} : g.text[j] = f.text[j]
           /\ g.text[i] = f.text[i] \/ (g.text[i] # EmptyText /\ g.text[i].cfg = c)
<1>1. g = f \/ g = [f EXCEPT !.text[i] = Torn(c)]
  BY DEF PartlyWritten
<1> QED BY <1>1, MakeText DEF FileSystem

\* Seeding puts the complete text in place or leaves the managed path alone.
LEMMA Seeds ==
    ASSUME NEW C, NEW f \in FileSystem(C), NoFile \notin Inode, f.live = NoFile,
           NEW c \in C, NEW g \in Seedings(f, c)
    PROVE  /\ g \in FileSystem(C)
           /\ \A j \in Inode :
                \/ g.text[j] \in {f.text[j], EmptyText}
                \/ g.text[j] # EmptyText /\ g.text[j].cfg = c
           /\ g.live # NoFile => /\ g.live # g.tmp
                                 /\ g.text[g.live] = Whole(c)
                                 /\ g.text[g.live].state = "whole"
<1>1. CASE g = f
  BY <1>1
<1>2. ASSUME NEW i \in Inode, OpensTmp(f, {}, i),
             g \in PartlyWritten(Opened(f, i), i, c)
      PROVE  /\ g \in FileSystem(C) /\ g.live = NoFile
             /\ \A j \in Inode :
                  \/ g.text[j] \in {f.text[j], EmptyText}
                  \/ g.text[j] # EmptyText /\ g.text[j].cfg = c
  <2>0. /\ Opened(f, i) \in FileSystem(C) /\ Opened(f, i).live = f.live
        /\ Opened(f, i).text[i] = EmptyText
        /\ \A j \in Inode \ {i} : Opened(f, i).text[j] = f.text[j]
    BY OpeningTmp
  <2> DEFINE o == Opened(f, i)
  <2>1. /\ o \in FileSystem(C) /\ o.live = f.live
        /\ o.text[i] = EmptyText /\ \A j \in Inode \ {i} : o.text[j] = f.text[j]
    BY <2>0
  <2>2. g \in PartlyWritten(o, i, c)
    BY <1>2
  <2> HIDE DEF o
  <2> QED BY <2>1, <2>2, WritesPartly
<1>3. ASSUME NEW i \in Inode, OpensTmp(f, {}, i),
             NEW w \in Written(Opened(f, i), i, c), g = Renamed(w)
      PROVE  /\ g \in FileSystem(C)
             /\ \A j \in Inode :
                  \/ g.text[j] \in {f.text[j], EmptyText}
                  \/ g.text[j] # EmptyText /\ g.text[j].cfg = c
             /\ g.live # NoFile => /\ g.live # g.tmp
                                   /\ g.text[g.live] = Whole(c)
                                   /\ g.text[g.live].state = "whole"
  <2>0. /\ Opened(f, i) \in FileSystem(C) /\ Opened(f, i).tmp = i
        /\ Opened(f, i).text[i] = EmptyText
        /\ \A j \in Inode \ {i} : Opened(f, i).text[j] = f.text[j]
    BY OpeningTmp
  <2> DEFINE o == Opened(f, i)
  <2>1. /\ o \in FileSystem(C) /\ o.tmp = i
        /\ o.text[i] = EmptyText /\ \A j \in Inode \ {i} : o.text[j] = f.text[j]
    BY <2>0
  <2>2. w \in Written(o, i, c)
    BY <1>3
  <2> HIDE DEF o
  <2>3. /\ w \in FileSystem(C) /\ w.tmp = i
        /\ \A j \in Inode \ {i} : w.text[j] = f.text[j]
        /\ w.text[i] = Whole(c) /\ w.text[i].state = "whole" /\ w.text[i].cfg = c
        /\ w.text[i] # EmptyText
    BY <2>1, <2>2, Writes
  <2>4. /\ g \in FileSystem(C)
        /\ g.live = i /\ g.tmp = NoFile /\ g.text = w.text
    BY <1>3, <2>3, Renames
  <2> QED BY <2>3, <2>4
<1> QED BY <1>1, <1>2, <1>3 DEF Seedings

\* Reading gives the fallback, or a configuration that was written; of a whole
\* text it gives that configuration and nothing else.
LEMMA ParsedFacts ==
    ASSUME NEW C, NEW f \in FileSystem(C), NEW fallback, NEW unreadable,
           NEW c \in Parsed(f, fallback, unreadable), c # unreadable
    PROVE  \/ c = fallback /\ (f.live = NoFile \/ f.text[f.live] = EmptyText)
           \/ /\ f.live \in Inode /\ f.text[f.live] # EmptyText
              /\ c = f.text[f.live].cfg /\ c \in C
<1>1. CASE f.live = NoFile \/ f.text[f.live] = EmptyText
  BY <1>1 DEF Parsed
<1>2. CASE ~(f.live = NoFile \/ f.text[f.live] = EmptyText)
  <2>1. f.live \in Inode /\ f.text[f.live] \in Text(C)
    BY <1>2 DEF FileSystem
  <2>2. c = f.text[f.live].cfg
    BY <1>2 DEF Parsed
  <2> QED BY <1>2, <2>1, <2>2, TextFacts
<1> QED BY <1>1, <1>2

\* A whole text parses to its configuration.
LEMMA ParsedWhole ==
    ASSUME NEW C, NEW f \in FileSystem(C), NEW fallback, NEW unreadable,
           f.live # NoFile, f.text[f.live].state = "whole",
           NEW c \in Parsed(f, fallback, unreadable)
    PROVE  c = f.text[f.live].cfg
<1>1. f.text[f.live] # EmptyText
  BY DEF EmptyText, FileSystem
<1> QED BY <1>1 DEF Parsed

-----------------------------------------------------------------------------
(* Sorted lists.                                                           *)

\* The place of x among the members of D, in the order R.
Place(D, R, x) == Cardinality({y \in D : <<y, x>> \in R})

TotalOrder(D, R) ==
    /\ \A x \in D : <<x, x>> \in R
    /\ \A x, y \in D : <<x, y>> \in R \/ <<y, x>> \in R
    /\ \A x, y \in D : <<x, y>> \in R /\ <<y, x>> \in R => x = y
    /\ \A x, y, z \in D : <<x, y>> \in R /\ <<y, z>> \in R => <<x, z>> \in R

\* A finite set in a total order has one member for every place, in that order.
LEMMA Places ==
    ASSUME NEW D, IsFiniteSet(D), NEW R, TotalOrder(D, R)
    PROVE  /\ Cardinality(D) \in Nat
           /\ \A x \in D : Place(D, R, x) \in 1..Cardinality(D)
           /\ \A n \in 1..Cardinality(D) : \E x \in D : Place(D, R, x) = n
           /\ \A x, y \in D : Place(D, R, x) = Place(D, R, y) => x = y
           /\ \A x, y \in D : Place(D, R, x) < Place(D, R, y) => <<x, y>> \in R /\ x # y
  <1> DEFINE Upto(x) == {y \in D : <<y, x>> \in R}
             at(x) == Place(D, R, x)
  <1>1. Cardinality(D) \in Nat
    BY FS_CardinalityType
  <1>2. ASSUME NEW x \in D
        PROVE  IsFiniteSet(Upto(x)) /\ at(x) \in 1..Cardinality(D)
    <2>1. Upto(x) \in SUBSET D /\ x \in Upto(x)
      BY DEF TotalOrder
    <2>2. IsFiniteSet(Upto(x)) /\ Cardinality(Upto(x)) <= Cardinality(D)
      BY <2>1, FS_Subset
    <2>3. Cardinality(Upto(x)) \in Nat
      BY <2>2, FS_CardinalityType
    <2>4. Cardinality(Upto(x)) # 0
      BY <2>1, <2>2, FS_EmptySet
    <2> QED
      BY <1>1, <2>2, <2>3, <2>4 DEF Place
  <1>3. ASSUME NEW x \in D, NEW y \in D, <<x, y>> \in R
        PROVE  at(x) <= at(y) /\ (at(x) = at(y) => x = y)
    <2>1. Upto(x) \in SUBSET Upto(y)
      BY <1>3 DEF TotalOrder
    <2>2. IsFiniteSet(Upto(y))
      BY <1>2
    <2>3. /\ Cardinality(Upto(x)) <= Cardinality(Upto(y))
          /\ Cardinality(Upto(y)) = Cardinality(Upto(x)) => Upto(y) = Upto(x)
      BY <2>1, <2>2, FS_Subset
    <2>4. Upto(y) = Upto(x) => <<y, x>> \in R
      BY DEF TotalOrder
    <2>5. <<y, x>> \in R => x = y
      BY <1>3 DEF TotalOrder
    <2> QED
      BY <2>3, <2>4, <2>5 DEF Place
  <1> HIDE DEF Upto, at
  <1>4. \A x, y \in D : at(x) = at(y) => x = y
    BY <1>3 DEF TotalOrder
  <1>5. \A x, y \in D : at(x) < at(y) => <<x, y>> \in R /\ x # y
    <2> SUFFICES ASSUME NEW x \in D, NEW y \in D, at(x) < at(y)
                 PROVE  <<x, y>> \in R /\ x # y
      OBVIOUS
    <2>1. at(x) \in Int /\ at(y) \in Int
      BY <1>1, <1>2
    <2>2. <<y, x>> \notin R
      BY <1>3, <2>1
    <2> QED
      BY <2>1, <2>2 DEF TotalOrder
  <1>6. \A n \in 1..Cardinality(D) : \E x \in D : at(x) = n
    <2> DEFINE f == [x \in D |-> at(x)]
    <2>1. IsFiniteSet(1..Cardinality(D)) /\ Cardinality(1..Cardinality(D)) = Cardinality(D)
      BY <1>1, FS_Interval
    <2>2. f \in Injection(D, 1..Cardinality(D))
      BY <1>2, <1>4 DEF Injection, IsInjective
    <2>3. f \in Surjection(D, 1..Cardinality(D))
      BY <2>1, <2>2, FS_Injection
    <2> QED
      BY <2>3 DEF Surjection
  <1> QED
    BY <1>1, <1>2, <1>4, <1>5, <1>6 DEF at

\* The list falls strictly.
Falls(s) == \A i, j \in DOMAIN s : i < j => s[i] > s[j]

\* Descending lists a finite set of numbers, each member once and in order.
LEMMA DescendingFacts ==
    ASSUME NEW S \in SUBSET Int, IsFiniteSet(S)
    PROVE  /\ Descending(S) \in Seq(S)
           /\ Len(Descending(S)) = Cardinality(S)
           /\ Falls(Descending(S))
           /\ Range(Descending(S)) = S
  <1> DEFINE R == {p \in S \X S : p[1] >= p[2]}
             at(x) == Place(S, R, x)
             s == Descending(S)
  <1>1. \A x \in S : at(x) = Cardinality({d \in S : d >= x})
    <2> SUFFICES ASSUME NEW x \in S
                 PROVE  {y \in S : <<y, x>> \in R} = {d \in S : d >= x}
      BY DEF Place
    <2> QED
      OBVIOUS
  <1>2. TotalOrder(S, R)
    BY DEF TotalOrder
  <1>3. /\ Cardinality(S) \in Nat
        /\ \A n \in 1..Cardinality(S) : \E x \in S : at(x) = n
        /\ \A x \in S : at(x) \in 1..Cardinality(S)
        /\ \A x, y \in S : at(x) = at(y) => x = y
        /\ \A x, y \in S : at(x) < at(y) => <<x, y>> \in R /\ x # y
    <2> HIDE DEF R, at
    <2>1. /\ Cardinality(S) \in Nat
          /\ \A x \in S : Place(S, R, x) \in 1..Cardinality(S)
          /\ \A n \in 1..Cardinality(S) : \E x \in S : Place(S, R, x) = n
          /\ \A x, y \in S : Place(S, R, x) = Place(S, R, y) => x = y
          /\ \A x, y \in S : Place(S, R, x) < Place(S, R, y) => <<x, y>> \in R /\ x # y
      BY <1>2, Places
    <2> QED
      BY <2>1 DEF at
  <1>4. \A x, y \in S : at(x) < at(y) => x > y
    <2> SUFFICES ASSUME NEW x \in S, NEW y \in S, at(x) < at(y)
                 PROVE  x > y
      OBVIOUS
    <2>1. <<x, y>> \in R /\ x # y
      BY <1>3
    <2> QED
      BY <2>1
  <1> HIDE DEF at
  <1>5. s = [n \in 1..Cardinality(S) |-> CHOOSE e \in S : at(e) = n]
    <2>1. ASSUME NEW n \in 1..Cardinality(S)
          PROVE  (CHOOSE e \in S : Cardinality({d \in S : d >= e}) = n) = CHOOSE e \in S : at(e) = n
      BY <1>1
    <2> QED
      BY <2>1 DEF Descending
  <1> HIDE DEF s
  <1>6. \A n \in 1..Cardinality(S) : s[n] \in S /\ at(s[n]) = n
    BY <1>3, <1>5
  <1>7. s \in [1..Cardinality(S) -> S]
    BY <1>5, <1>6
  <1>8. s \in Seq(S) /\ Len(s) = Cardinality(S) /\ DOMAIN s = 1..Cardinality(S)
    BY <1>3, <1>7
  <1>9. Falls(s)
    BY <1>4, <1>6, <1>8 DEF Falls
  <1>10. \A e \in S : \E n \in DOMAIN s : s[n] = e
    <2> SUFFICES ASSUME NEW e \in S PROVE s[at(e)] = e /\ at(e) \in DOMAIN s
      OBVIOUS
    <2>1. at(e) \in 1..Cardinality(S)
      BY <1>3
    <2> QED
      BY <1>3, <1>6, <1>8, <2>1
  <1>11. Range(s) = S
    BY <1>6, <1>8, <1>10 DEF Range
  <1> QED
    BY <1>8, <1>9, <1>11 DEF s

\* What a list holds, and that it falls, says what the list is.
LEMMA FallingIsDescending ==
    ASSUME NEW s \in Seq(Int), Falls(s)
    PROVE  /\ IsFiniteSet(Range(s)) /\ Range(s) \in SUBSET Int
           /\ s = Descending(Range(s))
  <1> DEFINE S == Range(s)
             N == Len(s)
  <1>1. N \in Nat /\ DOMAIN s = 1..N /\ \A i \in 1..N : s[i] \in Int
    OBVIOUS
  <1>2. S = {s[i] : i \in 1..N}
    BY <1>1 DEF Range
  <1>3. \A i, j \in 1..N : i < j => s[i] > s[j]
    BY <1>1 DEF Falls
  <1> HIDE DEF N
  <1>4. ASSUME NEW n \in 0..N
        PROVE  /\ IsFiniteSet({s[i] : i \in 1..n})
               /\ Cardinality({s[i] : i \in 1..n}) = n
    <2> DEFINE T == {s[i] : i \in 1..n}
               f == [i \in 1..n |-> s[i]]
    <2>1. IsFiniteSet(1..n) /\ Cardinality(1..n) = n
      BY <1>1, FS_Interval
    <2>2. f \in Surjection(1..n, T)
      BY DEF Surjection
    <2>3. \A i, j \in 1..n : s[i] = s[j] => i = j
      BY <1>1, <1>3
    <2>4. f \in Injection(1..n, T)
      BY <2>3 DEF Injection, IsInjective
    <2> HIDE DEF f, T
    <2> QED
      BY <2>1, <2>2, <2>4, FS_Surjection DEF T
  <1>5. IsFiniteSet(S) /\ Cardinality(S) = N /\ S \in SUBSET Int
    <2>1. N \in 0..N
      BY <1>1
    <2>2. IsFiniteSet({s[i] : i \in 1..N}) /\ Cardinality({s[i] : i \in 1..N}) = N
      BY <1>4, <2>1
    <2>3. ASSUME NEW x \in S
          PROVE  x \in Int
      BY <1>1, <1>2
    <2> QED
      BY <1>2, <2>2, <2>3
  <1>6. ASSUME NEW n \in 1..N
        PROVE  Cardinality({d \in S : d >= s[n]}) = n
    <2>1. {d \in S : d >= s[n]} = {s[i] : i \in 1..n}
      <3>1. ASSUME NEW i \in 1..N
            PROVE  s[i] >= s[n] <=> i <= n
        BY <1>1, <1>3
      <3>2. ASSUME NEW i \in 1..n
            PROVE  s[i] \in S /\ s[i] >= s[n]
        BY <1>1, <1>2, <3>1
      <3>3. ASSUME NEW d \in S, d >= s[n]
            PROVE  d \in {s[i] : i \in 1..n}
        <4>1. PICK i \in 1..N : d = s[i]
          BY <1>2
        <4> QED
          BY <1>1, <3>1, <3>3, <4>1
      <3> QED
        BY <3>2, <3>3
    <2>2. n \in 0..N
      BY <1>1
    <2> QED
      BY <1>4, <2>1, <2>2
  <1> DEFINE t == Descending(S)
  <1>7. /\ t \in Seq(S) /\ Len(t) = N
        /\ \A n \in 1..N : t[n] = CHOOSE e \in S : Cardinality({d \in S : d >= e}) = n
    BY <1>5, DescendingFacts DEF Descending
  <1>8. ASSUME NEW n \in 1..N
        PROVE  t[n] = s[n]
    <2>1. s[n] \in S
      BY <1>2
    <2>2. ASSUME NEW e \in S, Cardinality({d \in S : d >= e}) = n
          PROVE  e = s[n]
      <3>1. PICK i \in 1..N : e = s[i]
        BY <1>2
      <3> QED
        BY <1>6, <2>2, <3>1
    <2> QED
      BY <1>6, <1>7, <2>1, <2>2
  <1>9. t \in Seq(Int)
    BY <1>5, <1>7
  <1> QED
    BY <1>5, <1>7, <1>8, <1>9, SeqEqual DEF N

\* NewestFirst keeps what a list of numbers holds; without repetitions, it falls.
LEMMA NewestFirstFacts ==
    ASSUME NEW T \in SUBSET Int, NEW s \in Seq(T)
    PROVE  /\ NewestFirst(s) \in Seq(T)
           /\ Len(NewestFirst(s)) = Len(s)
           /\ Range(NewestFirst(s)) = Range(s)
           /\ (\A i, j \in DOMAIN s : s[i] = s[j] => i = j) => Falls(NewestFirst(s))
  <1> DEFINE D == DOMAIN s
             R == {p \in D \X D : s[p[1]] > s[p[2]] \/ (s[p[1]] = s[p[2]] /\ p[1] <= p[2])}
             at(k) == Place(D, R, k)
             t == NewestFirst(s)
  <1>1. /\ Len(s) \in Nat /\ D = 1..Len(s)
        /\ \A k \in D : s[k] \in T /\ s[k] \in Int /\ k \in Int
    <2>1. Len(s) \in Nat /\ D = 1..Len(s)
      BY LenProperties
    <2>2. ASSUME NEW k \in D
          PROVE  s[k] \in T
      BY <2>1, ElementOfSeq
    <2>3. \A x \in T : x \in Int
      OBVIOUS
    <2>4. \A k \in D : k \in Int
      BY <2>1
    <2> HIDE DEF D
    <2> QED
      BY <2>1, <2>2, <2>3, <2>4
  <1>2. IsFiniteSet(D) /\ Cardinality(D) = Len(s)
    <2>1. IsFiniteSet(1..Len(s)) /\ Cardinality(1..Len(s)) = IF 1 > Len(s) THEN 0 ELSE Len(s) - 1 + 1
      BY <1>1, FS_Interval
    <2> QED
      BY <1>1, <2>1
  <1> HIDE DEF D
  <1>3. \A k \in D : at(k) = Cardinality({j \in D : s[j] > s[k] \/ (s[j] = s[k] /\ j <= k)})
    <2> SUFFICES ASSUME NEW k \in D
                 PROVE  {j \in D : <<j, k>> \in R}
                          = {j \in D : s[j] > s[k] \/ (s[j] = s[k] /\ j <= k)}
      BY DEF Place
    <2> QED
      OBVIOUS
  <1>4. TotalOrder(D, R)
    <2>1. \A x, y \in D : <<x, y>> \in R <=> s[x] > s[y] \/ (s[x] = s[y] /\ x <= y)
      OBVIOUS
    <2> HIDE DEF R
    <2> QED
      BY <1>1, <2>1 DEF TotalOrder
  <1>5. /\ \A n \in D : \E k \in D : at(k) = n
        /\ \A k \in D : at(k) \in D
        /\ \A x, y \in D : at(x) = at(y) => x = y
        /\ \A x, y \in D : at(x) < at(y) => <<x, y>> \in R /\ x # y
    <2> HIDE DEF R, at
    <2>1. /\ \A x \in D : Place(D, R, x) \in 1..Cardinality(D)
          /\ \A n \in 1..Cardinality(D) : \E x \in D : Place(D, R, x) = n
          /\ \A x, y \in D : Place(D, R, x) = Place(D, R, y) => x = y
          /\ \A x, y \in D : Place(D, R, x) < Place(D, R, y) => <<x, y>> \in R /\ x # y
      BY <1>2, <1>4, Places
    <2> QED
      BY <1>1, <1>2, <2>1 DEF at
  <1>6. \A x, y \in D : at(x) < at(y) => s[x] >= s[y] /\ x # y
    <2> SUFFICES ASSUME NEW x \in D, NEW y \in D, at(x) < at(y)
                 PROVE  s[x] >= s[y] /\ x # y
      OBVIOUS
    <2>1. <<x, y>> \in R /\ x # y
      BY <1>5
    <2>2. s[x] > s[y] \/ s[x] = s[y]
      BY <2>1
    <2> QED
      BY <1>1, <2>1, <2>2
  <1> HIDE DEF at, R
  <1> DEFINE from == [n \in D |-> CHOOSE k \in D : at(k) = n]
  <1>7. \A n \in D : from[n] \in D /\ at(from[n]) = n
    BY <1>5
  <1>8. t = [n \in D |-> s[from[n]]]
    <2> DEFINE place(k) == Cardinality({j \in D : s[j] > s[k] \/ (s[j] = s[k] /\ j <= k)})
    <2>1. t = [n \in D |-> s[CHOOSE k \in D : place(k) = n]]
      BY DEF NewestFirst, D
    <2>2. \A k \in D : at(k) = place(k)
      BY <1>3
    <2> HIDE DEF place
    <2>3. ASSUME NEW n \in D
          PROVE  (CHOOSE k \in D : place(k) = n) = CHOOSE k \in D : at(k) = n
      BY <2>2
    <2>4. ASSUME NEW n \in D
          PROVE  s[CHOOSE k \in D : place(k) = n] = s[from[n]]
      <3>1. from[n] = CHOOSE k \in D : at(k) = n
        OBVIOUS
      <3>2. from[n] = CHOOSE k \in D : place(k) = n
        BY <2>3, <3>1
      <3> HIDE DEF from
      <3> QED
        BY <3>2
    <2> HIDE DEF from
    <2> QED
      BY <2>1, <2>4
  <1> HIDE DEF from, t
  <1>9. t \in [1..Len(s) -> T] /\ DOMAIN t = D
    BY <1>1, <1>7, <1>8
  <1>10. t \in Seq(T) /\ Len(t) = Len(s)
    BY <1>1, <1>9
  <1>11. Range(t) = Range(s)
    <2>1. ASSUME NEW n \in D
          PROVE  t[n] \in Range(s)
      BY <1>7, <1>8 DEF Range, D
    <2>2. ASSUME NEW k \in D
          PROVE  s[k] \in Range(t)
      <3>1. at(k) \in D /\ from[at(k)] = k
        BY <1>5, <1>7
      <3> QED
        BY <1>8, <1>9, <3>1 DEF Range
    <2> QED
      BY <1>9, <2>1, <2>2 DEF Range, D
  <1>12. ASSUME \A i, j \in DOMAIN s : s[i] = s[j] => i = j
         PROVE  Falls(t)
    <2> SUFFICES ASSUME NEW i \in D, NEW j \in D, i < j
                 PROVE  t[i] > t[j]
      BY <1>9 DEF Falls
    <2>1. from[i] \in D /\ from[j] \in D /\ at(from[i]) < at(from[j])
      BY <1>7
    <2>2. s[from[i]] >= s[from[j]] /\ from[i] # from[j]
      BY <1>6, <2>1
    <2>3. s[from[i]] # s[from[j]]
      BY <1>12, <2>1, <2>2 DEF D
    <2> QED
      BY <1>1, <1>8, <2>1, <2>2, <2>3
  <1> QED
    BY <1>10, <1>11, <1>12 DEF t

-----------------------------------------------------------------------------
(* The wire of one hook.                                                   *)

Messages(S, D) == [kind : {"snapshot"}, data : S] \cup [kind : {"delta"}, data : D]

\* A new hook, and what the steps of one make of it.
LEMMA NewHook ==
    ASSUME NEW Names, NEW S, NEW D, NEW key \in Names
    PROVE  NewSub(key) \in Subscriptions(Names, S, D)
<1>1. <<>> \in Seq(Messages(S, D))
  OBVIOUS
<1> QED BY <1>1 DEF NewSub, Subscriptions, Messages

\* New params: the hook keeps its data and waits for another snapshot.
LEMMA AgainHook ==
    ASSUME NEW Names, NEW S, NEW D, NEW s \in Subscriptions(Names, S, D), NEW key \in Names,
           NEW t, t = Resubscribed(s, key)
    PROVE  /\ t \in Subscriptions(Names, S, D) /\ t.key = key /\ t.stage = "asked"
           /\ t.wire = <<>> /\ t.delta = s.delta /\ t.snapshot = s.snapshot
<1>1. <<>> \in Seq(Messages(S, D))
  OBVIOUS
<1>2. t \in Subscriptions(Names, S, D)
  BY <1>1 DEF Resubscribed, Subscriptions, Messages
<1>3. /\ t.key = key /\ t.stage = "asked"
      /\ t.wire = <<>> /\ t.delta = s.delta /\ t.snapshot = s.snapshot
  BY DEF Resubscribed, Subscriptions
<1> QED BY <1>2, <1>3

\* The snapshot is the first message of a subscription.
LEMMA ReadHook ==
    ASSUME NEW Names, NEW S, NEW D, NEW s \in Subscriptions(Names, S, D), NEW data \in S,
           NEW t, t = SnapshotRead(s, data)
    PROVE  /\ t \in Subscriptions(Names, S, D)
           /\ t.key = s.key /\ t.stage = "read" /\ t.delta = s.delta /\ t.snapshot = s.snapshot
           /\ t.wire # <<>> /\ DOMAIN t.wire = {1}
           /\ t.wire[1] = [kind |-> "snapshot", data |-> data]
<1> DEFINE m == [kind |-> "snapshot", data |-> data]
<1>1. m \in Messages(S, D)
  BY DEF Messages
<1>2. t = [s EXCEPT !.stage = "read", !.wire = <<m>>]
  BY DEF SnapshotRead
<1>3. m = [kind |-> "snapshot", data |-> data]
  OBVIOUS
<1> HIDE DEF m
<1>4. <<m>> \in Seq(Messages(S, D)) /\ DOMAIN <<m>> = {1} /\ <<m>>[1] = m /\ <<m>> # <<>>
  BY <1>1
<1>5. t \in Subscriptions(Names, S, D)
  BY <1>2, <1>4 DEF Subscriptions, Messages
<1>6. t.wire = <<m>>
  BY <1>2 DEF Subscriptions
<1>7. t.key = s.key /\ t.stage = "read" /\ t.delta = s.delta /\ t.snapshot = s.snapshot
  BY <1>2 DEF Subscriptions
<1> QED BY <1>3, <1>4, <1>5, <1>6, <1>7

\* Registering sends nothing.
LEMMA RegisteredHook ==
    ASSUME NEW Names, NEW S, NEW D, NEW s \in Subscriptions(Names, S, D),
           NEW t, t = Registered(s)
    PROVE  /\ t \in Subscriptions(Names, S, D)
           /\ t.key = s.key /\ t.stage = "live" /\ t.delta = s.delta /\ t.snapshot = s.snapshot
           /\ t.wire = s.wire
  BY DEF Registered, Subscriptions

\* Nor does a snapshot that could not be read.
LEMMA FailedHook ==
    ASSUME NEW Names, NEW S, NEW D, NEW s \in Subscriptions(Names, S, D),
           NEW t, t = Failed(s)
    PROVE  /\ t \in Subscriptions(Names, S, D)
           /\ t.key = s.key /\ t.stage = "failed" /\ t.delta = s.delta
           /\ t.snapshot = s.snapshot /\ t.wire = s.wire
  BY DEF Failed, Subscriptions

\* One delta goes to the end of the wire of a registered subscription.
LEMMA PublishedOne ==
    ASSUME NEW Names, NEW S, NEW D, NEW s \in Subscriptions(Names, S, D), NEW d \in D,
           NEW t, t = Published(s, <<d>>)
    PROVE  /\ t \in Subscriptions(Names, S, D)
           /\ t.key = s.key /\ t.stage = s.stage /\ t.error = s.error
           /\ t.snapshot = s.snapshot /\ t.delta = s.delta
           /\ s.stage = "live" =>
                /\ Len(s.wire) \in Nat /\ DOMAIN s.wire = 1..Len(s.wire)
                /\ DOMAIN t.wire = 1..(Len(s.wire) + 1)
                /\ \A j \in DOMAIN s.wire : t.wire[j] = s.wire[j]
                /\ t.wire[Len(s.wire) + 1] = [kind |-> "delta", data |-> d]
           /\ s.stage # "live" => t.wire = s.wire
<1> DEFINE m == [kind |-> "delta", data |-> d]
           w == s.wire \o <<m>>
<1>1. m \in Messages(S, D)
  BY DEF Messages
<1>2. [k \in DOMAIN <<d>> |-> [kind |-> "delta", data |-> <<d>>[k]]] = <<m>>
  OBVIOUS
<1>3. s.wire \in Seq(Messages(S, D))
  BY DEF Subscriptions, Messages
<1> HIDE DEF m
<1>4. /\ w \in Seq(Messages(S, D)) /\ DOMAIN w = 1..(Len(s.wire) + 1)
      /\ w[Len(s.wire) + 1] = m /\ \A j \in 1..Len(s.wire) : w[j] = s.wire[j]
  BY <1>1, <1>3
<1>5. DOMAIN s.wire = 1..Len(s.wire) /\ Len(s.wire) \in Nat
  BY <1>3
<1>6. t = IF s.stage # "live" THEN s ELSE [s EXCEPT !.wire = w]
  BY <1>2 DEF Published
<1> HIDE DEF w
<1>7. CASE s.stage = "live"
  <2>1. [s EXCEPT !.wire = w] \in Subscriptions(Names, S, D)
    BY <1>4 DEF Subscriptions, Messages
  <2>2. /\ t.key = s.key /\ t.stage = s.stage /\ t.error = s.error
        /\ t.snapshot = s.snapshot /\ t.delta = s.delta /\ t.wire = w
    BY <1>6, <1>7 DEF Subscriptions
  <2> QED BY <1>4, <1>5, <1>6, <1>7, <2>1, <2>2 DEF m
<1> QED BY <1>6, <1>7

\* The oldest message leaves the wire and replaces what the hook held of its kind.
LEMMA DeliveredOne ==
    ASSUME NEW Names, NEW S, NEW D, NEW s \in Subscriptions(Names, S, D), Deliverable(s),
           NEW t, t = Delivered(s)
    PROVE  /\ t \in Subscriptions(Names, S, D)
           /\ t.key = s.key /\ t.stage = "live" /\ t.error = s.error
           /\ 1 \in DOMAIN s.wire /\ Head(s.wire) = s.wire[1]
           /\ Arriving(s) = s.wire[1].kind /\ Arriving(s) \in {"snapshot", "delta"}
           /\ Arriving(s) = "snapshot" => t.snapshot = s.wire[1].data /\ t.delta = s.delta
           /\ Arriving(s) = "delta" => t.delta = s.wire[1].data /\ t.snapshot = s.snapshot
           /\ Len(t.wire) \in Nat /\ DOMAIN t.wire = 1..Len(t.wire)
           /\ DOMAIN s.wire = 1..(Len(t.wire) + 1)
           /\ \A i \in DOMAIN t.wire : t.wire[i] = s.wire[i + 1]
<1> DEFINE m == Head(s.wire)
           w == Tail(s.wire)
<1>1. s.wire \in Seq(Messages(S, D)) /\ s.wire # <<>> /\ s.stage = "live"
  BY DEF Subscriptions, Messages, Deliverable
<1>2. m \in Messages(S, D) /\ w \in Seq(Messages(S, D)) /\ m = s.wire[1]
  BY <1>1
<1>3. /\ Len(w) = Len(s.wire) - 1 /\ \A i \in 1..Len(w) : w[i] = s.wire[i + 1]
      /\ Len(s.wire) \in Nat /\ DOMAIN s.wire = 1..Len(s.wire)
      /\ Len(w) \in Nat /\ DOMAIN w = 1..Len(w)
  BY <1>1
<1>4. t = [s EXCEPT !.wire = w, ![m.kind] = m.data]
  BY DEF Delivered, Arriving
<1> HIDE DEF m, w
<1>5. CASE m.kind = "snapshot"
  <2>1. m.data \in S
    BY <1>2, <1>5 DEF Messages
  <2>2. t = [s EXCEPT !.wire = w, !["snapshot"] = m.data]
    BY <1>4, <1>5
  <2>3. t \in Subscriptions(Names, S, D)
    BY <1>2, <2>1, <2>2 DEF Subscriptions, Messages
  <2>4. /\ t.key = s.key /\ t.stage = "live" /\ t.error = s.error /\ t.wire = w
        /\ t.snapshot = m.data /\ t.delta = s.delta
    BY <1>1, <2>2 DEF Subscriptions
  <2>5. Arriving(s) = "snapshot" /\ Head(s.wire) = s.wire[1] /\ s.wire[1].kind = "snapshot"
    BY <1>1, <1>2, <1>5 DEF Arriving, m
  <2> QED BY <1>2, <1>3, <2>3, <2>4, <2>5
<1>6. CASE m.kind = "delta"
  <2>1. m.data \in D
    BY <1>2, <1>6 DEF Messages
  <2>2. t = [s EXCEPT !.wire = w, !["delta"] = m.data]
    BY <1>4, <1>6
  <2>3. t \in Subscriptions(Names, S, D)
    BY <1>2, <2>1, <2>2 DEF Subscriptions, Messages
  <2>4. /\ t.key = s.key /\ t.stage = "live" /\ t.error = s.error /\ t.wire = w
        /\ t.delta = m.data /\ t.snapshot = s.snapshot
    BY <1>1, <2>2 DEF Subscriptions
  <2> QED BY <1>2, <1>3, <1>6, <2>3, <2>4 DEF Arriving, m
<1> QED BY <1>2, <1>5, <1>6 DEF Messages

-----------------------------------------------------------------------------
(* The query cache.                                                        *)

CacheFields == {"data", "error", "fetch", "got"}


\* What the operators of the query cache make of an entry: a fetch that starts,
LEMMA StartedEntry ==
    ASSUME NEW e, DOMAIN e = CacheFields
    PROVE  Started(e).fetch = "asked" /\ DOMAIN Started(e) = CacheFields
  BY DEF Started, CacheFields

\* an entry that is replaced or added,
LEMMA WithFacts ==
    ASSUME NEW c, NEW k, NEW y
    PROVE  /\ DOMAIN With(c, k, y) = DOMAIN c \cup {k} /\ With(c, k, y)[k] = y
           /\ \A j \in DOMAIN c \ {k} : With(c, k, y)[j] = c[j]
  BY DEF With

\* A key that was not in the cache is fetched when it is observed.
LEMMA ObservedEntry ==
    ASSUME NEW c, NEW k, NEW fresh \in BOOLEAN, \A j \in DOMAIN c : DOMAIN c[j] = CacheFields
    PROVE  /\ k \in DOMAIN Observed(c, k, fresh)
           /\ \A j \in DOMAIN Observed(c, k, fresh) : DOMAIN Observed(c, k, fresh)[j] = CacheFields
           /\ k \notin DOMAIN c => Observed(c, k, fresh)[k].fetch = "asked"
<1> DEFINE e == EntryOf(c, k)
<1>1. DOMAIN NewEntry = CacheFields /\ NewEntry.fetch = "idle" /\ NewEntry.data = NoData
  BY DEF NewEntry, CacheFields
<1>2. DOMAIN e = CacheFields /\ (k \notin DOMAIN c => e = NewEntry)
  BY <1>1 DEF EntryOf
<1>3. DOMAIN Started(e) = CacheFields /\ Started(e).fetch = "asked"
  BY <1>2, StartedEntry
<1>4. \/ Observed(c, k, fresh) = With(c, k, e) /\ ~(e.fetch = "idle" /\ e.data = NoData)
      \/ Observed(c, k, fresh) = With(c, k, Started(e))
  BY DEF Observed
<1> HIDE DEF e
<1>5. ASSUME NEW y, DOMAIN y = CacheFields, NEW d, d = With(c, k, y)
      PROVE  k \in DOMAIN d /\ d[k] = y /\ \A j \in DOMAIN d : DOMAIN d[j] = CacheFields
  <2>1. DOMAIN d = DOMAIN c \cup {k} /\ d[k] = y /\ \A j \in DOMAIN c \ {k} : d[j] = c[j]
    BY <1>5 DEF With
  <2> QED BY <1>5, <2>1
<1>6. CASE Observed(c, k, fresh) = With(c, k, e) /\ ~(e.fetch = "idle" /\ e.data = NoData)
  BY <1>1, <1>2, <1>5, <1>6
<1>7. CASE Observed(c, k, fresh) = With(c, k, Started(e))
  BY <1>3, <1>5, <1>7
<1> QED BY <1>4, <1>6, <1>7

\* An update of one entry leaves the others:
LEMMA EntryStep ==
    ASSUME NEW c, NEW k \in DOMAIN c, \A j \in DOMAIN c : DOMAIN c[j] = CacheFields,
           NEW y, DOMAIN y = CacheFields, NEW d, d = [c EXCEPT ![k] = y]
    PROVE  /\ DOMAIN d = DOMAIN c /\ d[k] = y /\ \A j \in DOMAIN c \ {k} : d[j] = c[j]
           /\ \A j \in DOMAIN d : DOMAIN d[j] = CacheFields
  OBVIOUS

\* a refetch,
LEMMA RefetchedEntry ==
    ASSUME NEW c, NEW k \in DOMAIN c, \A j \in DOMAIN c : DOMAIN c[j] = CacheFields
    PROVE  /\ DOMAIN Refetched(c, k) = DOMAIN c /\ Refetched(c, k)[k].fetch = "asked"
           /\ \A j \in DOMAIN c : DOMAIN Refetched(c, k)[j] = CacheFields
<1>1. DOMAIN Started(c[k]) = CacheFields /\ Started(c[k]).fetch = "asked"
  BY StartedEntry
<1> QED BY <1>1, EntryStep DEF Refetched

\* an answer of the server,
LEMMA ServedEntry ==
    ASSUME NEW c, NEW k \in DOMAIN c, \A j \in DOMAIN c : DOMAIN c[j] = CacheFields, NEW r
    PROVE  /\ DOMAIN Served(c, k, r) = DOMAIN c
           /\ Served(c, k, r)[k].fetch = "answered" /\ Served(c, k, r)[k].got = r
           /\ \A j \in DOMAIN c \ {k} : Served(c, k, r)[j] = c[j]
           /\ \A j \in DOMAIN c : DOMAIN Served(c, k, r)[j] = CacheFields
<1> DEFINE y == [c[k] EXCEPT !.fetch = "answered", !.got = r]
<1>1. DOMAIN y = CacheFields /\ y.fetch = "answered" /\ y.got = r
  BY DEF CacheFields
<1>2. Served(c, k, r) = [c EXCEPT ![k] = y]
  BY DEF Served
<1> HIDE DEF y
<1> QED BY <1>1, <1>2, EntryStep

\* its arrival,
LEMMA ArrivedEntry ==
    ASSUME NEW c, NEW k \in DOMAIN c, \A j \in DOMAIN c : DOMAIN c[j] = CacheFields
    PROVE  /\ DOMAIN Arrived(c, k) = DOMAIN c
           /\ Arrived(c, k)[k].fetch = "idle" /\ Arrived(c, k)[k].data = c[k].got
           /\ \A j \in DOMAIN c \ {k} : Arrived(c, k)[j] = c[j]
           /\ \A j \in DOMAIN c : DOMAIN Arrived(c, k)[j] = CacheFields
<1> DEFINE y == [NewEntry EXCEPT !.data = c[k].got]
<1>1. DOMAIN y = CacheFields /\ y.fetch = "idle" /\ y.data = c[k].got
  BY DEF CacheFields, NewEntry
<1> HIDE DEF y
<1>2. Arrived(c, k) = [c EXCEPT ![k] = y]
  BY DEF Arrived, y
<1> QED BY <1>1, <1>2, EntryStep

\* and a fetch that failed.
LEMMA GivenUpEntry ==
    ASSUME NEW c, NEW k \in DOMAIN c, \A j \in DOMAIN c : DOMAIN c[j] = CacheFields
    PROVE  /\ DOMAIN GivenUp(c, k) = DOMAIN c
           /\ \A j \in DOMAIN c : DOMAIN GivenUp(c, k)[j] = CacheFields
<1> DEFINE y == [c[k] EXCEPT !.fetch = "idle", !.got = NoData, !.error = TRUE]
<1>1. DOMAIN y = CacheFields
  BY DEF CacheFields
<1>2. GivenUp(c, k) = [c EXCEPT ![k] = y]
  BY DEF GivenUp
<1> HIDE DEF y
<1> QED BY <1>1, <1>2, EntryStep

\* A set of numbers has a least one.
LEMMA LeastNat ==
    ASSUME NEW S \in SUBSET Nat, S # {}
    PROVE  \E x \in S : \A y \in S : x <= y
<1>1. PICK x \in S : \A y \in S : ~(<<y, x>> \in OpToRel(<, Nat))
  BY NatLessThanWellFounded, WFMin
<1>2. \A m, n \in Nat : m < n => <<m, n>> \in OpToRel(<, Nat)
  BY DEF OpToRel
<1>3. \A y \in S : ~(y < x)
  BY <1>1, <1>2
<1> QED BY <1>3

\* The smallest page size is one of them.
LEMMA SmallestIsIn ==
    ASSUME NEW S \in SUBSET Nat, S # {}
    PROVE  Min(S) \in S
BY LeastNat DEF Min

-----------------------------------------------------------------------------
\* The entries of a cache whose answers are in D.
Entry(D) ==
    [data : D \cup {NoData}, error : BOOLEAN, fetch : {"idle", "asked", "answered"},
     got : D \cup {NoData}]

Caches(c, D) == \A k \in DOMAIN c : c[k] \in Entry(D)

\* d is the cache c but for the entry of k.
Touched(c, k, d) == DOMAIN d = DOMAIN c /\ \A j \in DOMAIN c \ {k} : d[j] = c[j]

\* d is the cache c with k observed: what was not there is fetched.
Watched(c, k, d) ==
    /\ DOMAIN d = DOMAIN c \cup {k} /\ \A j \in DOMAIN c \ {k} : d[j] = c[j]
    /\ k \notin DOMAIN c => d[k].fetch = "asked"

\* A cache of which one entry changes.
LEMMA EntryChanged ==
    ASSUME NEW D, NEW c, Caches(c, D), NEW k \in DOMAIN c, NEW y \in Entry(D),
           NEW d, d = [c EXCEPT ![k] = y]
    PROVE  Caches(d, D) /\ Touched(c, k, d)
  BY DEF Caches, Touched

\* A fetch that starts,
LEMMA EntryStarted ==
    ASSUME NEW D, NEW e \in Entry(D)
    PROVE  Started(e) \in Entry(D) /\ Started(e).fetch = "asked"
  BY DEF Started, Entry

\* and an entry that holds nothing.
LEMMA EntryNew ==
    ASSUME NEW D
    PROVE  NewEntry \in Entry(D) /\ NewEntry.fetch = "idle" /\ NewEntry.data = NoData
  BY DEF NewEntry, Entry

\* The operations of the query cache keep it a cache: a refetch,
LEMMA CacheRefetched ==
    ASSUME NEW D, NEW c, Caches(c, D), NEW k \in DOMAIN c, NEW d, d = Refetched(c, k)
    PROVE  Caches(d, D) /\ Touched(c, k, d) /\ d[k].fetch = "asked"
<1>1. Started(c[k]) \in Entry(D) /\ Started(c[k]).fetch = "asked"
  BY EntryStarted DEF Caches
<1>2. d = [c EXCEPT ![k] = Started(c[k])]
  BY DEF Refetched
<1>3. Caches(d, D) /\ Touched(c, k, d)
  BY <1>1, <1>2, EntryChanged
<1>4. d[k] = Started(c[k])
  BY <1>2
<1> QED BY <1>1, <1>3, <1>4

\* an answer of the server,
LEMMA CacheServed ==
    ASSUME NEW D, NEW c, Caches(c, D), NEW k \in DOMAIN c, NEW r \in D, NEW d, d = Served(c, k, r)
    PROVE  Caches(d, D) /\ Touched(c, k, d) /\ d[k].fetch = "answered" /\ d[k].got = r
<1> DEFINE y == [c[k] EXCEPT !.fetch = "answered", !.got = r]
<1>0. c[k] \in Entry(D)
  BY DEF Caches
<1>1. y \in Entry(D) /\ y.fetch = "answered" /\ y.got = r
  BY <1>0 DEF Entry
<1>2. d = [c EXCEPT ![k] = y]
  BY DEF Served
<1> HIDE DEF y
<1>3. Caches(d, D) /\ Touched(c, k, d)
  BY <1>1, <1>2, EntryChanged
<1>4. d[k] = y
  BY <1>2
<1> QED BY <1>1, <1>3, <1>4

\* its arrival,
LEMMA CacheArrived ==
    ASSUME NEW D, NEW c, Caches(c, D), NEW k \in DOMAIN c, NEW d, d = Arrived(c, k)
    PROVE  Caches(d, D) /\ Touched(c, k, d) /\ d[k].fetch = "idle" /\ d[k].data = c[k].got
<1> DEFINE y == [NewEntry EXCEPT !.data = c[k].got]
<1>0. c[k] \in Entry(D)
  BY DEF Caches
<1>1. y \in Entry(D) /\ y.fetch = "idle" /\ y.data = c[k].got
  BY <1>0 DEF Entry, NewEntry
<1>2. d = [c EXCEPT ![k] = y]
  BY DEF Arrived
<1> HIDE DEF y
<1>3. Caches(d, D) /\ Touched(c, k, d)
  BY <1>1, <1>2, EntryChanged
<1>4. d[k] = y
  BY <1>2
<1> QED BY <1>1, <1>3, <1>4

\* a fetch that failed,
LEMMA CacheGivenUp ==
    ASSUME NEW D, NEW c, Caches(c, D), NEW k \in DOMAIN c, NEW d, d = GivenUp(c, k)
    PROVE  Caches(d, D) /\ Touched(c, k, d)
<1> DEFINE y == [c[k] EXCEPT !.fetch = "idle", !.got = NoData, !.error = TRUE]
<1>0. c[k] \in Entry(D)
  BY DEF Caches
<1>1. y \in Entry(D)
  BY <1>0 DEF Entry
<1>2. d = [c EXCEPT ![k] = y]
  BY DEF GivenUp
<1> HIDE DEF y
<1> QED BY <1>1, <1>2, EntryChanged

\* and a component that observes k.
LEMMA CacheObserved ==
    ASSUME NEW D, NEW c, Caches(c, D), NEW k, NEW fresh, NEW d, d = Observed(c, k, fresh)
    PROVE  Caches(d, D) /\ Watched(c, k, d)
<1>1. PICK e : e = EntryOf(c, k)
  OBVIOUS
<1>2. e \in Entry(D) /\ (k \notin DOMAIN c => e.fetch = "idle" /\ e.data = NoData)
  BY <1>1, EntryNew DEF EntryOf, Caches
<1>3. Started(e) \in Entry(D) /\ Started(e).fetch = "asked"
  BY <1>2, EntryStarted
<1>4. PICK y \in Entry(D) : d = With(c, k, y) /\ (k \notin DOMAIN c => y.fetch = "asked")
  BY <1>1, <1>2, <1>3 DEF Observed
<1>5. DOMAIN d = DOMAIN c \cup {k} /\ d[k] = y /\ \A j \in DOMAIN c \ {k} : d[j] = c[j]
  BY <1>4 DEF With
<1>6. Caches(d, D)
  <2> SUFFICES ASSUME NEW j \in DOMAIN d
               PROVE  d[j] \in Entry(D)
    BY DEF Caches
  <2>1. CASE j = k
    BY <1>4, <1>5, <2>1
  <2>2. CASE j # k
    BY <1>5, <2>2 DEF Caches
  <2> QED BY <2>1, <2>2
<1> QED BY <1>4, <1>5, <1>6 DEF Watched
=============================================================================
