----------------------------- MODULE PageProofs -----------------------------
(***************************************************************************)
(* Proofs about the two pages of the browser that join answers of the      *)
(* server with a live feed: the list of live events and the cards of one   *)
(* charger.  They hold for any logs, page sizes, filters and numbers of    *)
(* faults.                                                                 *)
(***************************************************************************)
EXTENDS EventPanel, ChargerCards, SharedProofs

-----------------------------------------------------------------------------
(* The lists of the event panel.                                           *)

\* S holds what T has between its members.
Solid(S, T) == S \subseteq T /\ \A a, b \in S, e \in T : a < e /\ e < b => e \in S

\* A list that falls, and has what T has between its ends.
Block(s, T) == Falls(s) /\ Solid(Range(s), T)

\* A list and the set of its entries.
LEMMA ListEntries ==
    ASSUME NEW T, NEW s \in Seq(T)
    PROVE  /\ Len(s) \in Nat /\ DOMAIN s = 1..Len(s) /\ \A i \in 1..Len(s) : s[i] \in T
           /\ Range(s) = {s[i] : i \in 1..Len(s)} /\ Range(s) \subseteq T
           /\ s = <<>> <=> Range(s) = {}
           /\ s = <<>> <=> Len(s) = 0
  <1>1. Len(s) \in Nat /\ DOMAIN s = 1..Len(s) /\ \A i \in 1..Len(s) : s[i] \in T
    OBVIOUS
  <1>2. Range(s) = {s[i] : i \in 1..Len(s)}
    BY <1>1 DEF Range
  <1>3. s = <<>> <=> Len(s) = 0
    OBVIOUS
  <1>4. Len(s) # 0 => s[1] \in Range(s)
    BY <1>1, <1>2
  <1>5. Len(s) = 0 => Range(s) = {}
    BY <1>1, <1>2
  <1> QED
    BY <1>1, <1>2, <1>3, <1>4, <1>5

\* Lists of numbers and their sets.
LEMMA Retyped ==
    ASSUME NEW s, NEW T, NEW U, s \in Seq(T), Range(s) \subseteq U
    PROVE  s \in Seq(U)
  <1>1. /\ Len(s) \in Nat /\ DOMAIN s = 1..Len(s) /\ Range(s) = {s[i] : i \in 1..Len(s)}
        /\ s = [i \in 1..Len(s) |-> s[i]]
    BY ListEntries
  <1>2. \A i \in 1..Len(s) : s[i] \in U
    BY <1>1
  <1> QED
    BY <1>1, <1>2

\* The first entry of a list that falls is the largest, the last one the smallest.
LEMMA FallingEnds ==
    ASSUME NEW s \in Seq(Int), Falls(s), s # <<>>
    PROVE  /\ s[1] \in Range(s) /\ \A x \in Range(s) : x <= s[1]
           /\ s[Len(s)] \in Range(s) /\ \A x \in Range(s) : x >= s[Len(s)]
  <1>1. Len(s) \in Nat /\ DOMAIN s = 1..Len(s) /\ Len(s) # 0 /\ Range(s) = {s[i] : i \in 1..Len(s)}
    BY ListEntries
  <1>2. \A i \in 1..Len(s) : s[i] \in Int
    BY ListEntries
  <1>3. \A i, j \in 1..Len(s) : i < j => s[i] > s[j]
    BY <1>1 DEF Falls
  <1>4. 1 \in 1..Len(s) /\ Len(s) \in 1..Len(s)
    BY <1>1
  <1>5. ASSUME NEW x \in Range(s)
        PROVE  x <= s[1] /\ x >= s[Len(s)]
    <2>1. PICK i \in 1..Len(s) : x = s[i]
      BY <1>1
    <2> QED
      BY <1>1, <1>2, <1>3, <1>4, <2>1
  <1> QED
    BY <1>1, <1>4, <1>5

\* The first n entries of s.
Firsts(s, n) == {s[i] : i \in 1..n}

\* The first m of N numbers that fall.
LEMMA FirstOf ==
    ASSUME NEW N \in Nat, NEW m \in Nat, m <= N, NEW s, NEW c,
           \A i \in 1..N : s[i] \in Int, \A i, j \in 1..N : i < j => s[i] > s[j],
           \A i \in 1..m : c[i] = s[i]
    PROVE  /\ \A i, j \in 1..m : i < j => c[i] > c[j]
           /\ Firsts(c, m) \subseteq Firsts(s, N)
           /\ \A x \in Firsts(s, N), y \in Firsts(c, m) :
                 x >= y => x \in Firsts(c, m)
           /\ m > 0 => \A x \in Firsts(s, N) : \E y \in Firsts(c, m) : y >= x
  <1>1. \A i \in 1..m : i \in 1..N
    OBVIOUS
  <1>2. \A i, j \in 1..m : i < j => c[i] > c[j]
    BY <1>1
  <1>3. ASSUME NEW i \in 1..N, NEW j \in 1..m, s[i] >= c[j]
        PROVE  i \in 1..m /\ s[i] = c[i]
    <2>1. i <= j
      BY <1>1, <1>3
    <2> QED
      BY <2>1
  <1>4. ASSUME m > 0, NEW i \in 1..N
        PROVE  1 \in 1..m /\ c[1] >= s[i]
    <2>1. 1 \in 1..m /\ 1 \in 1..N /\ c[1] = s[1]
      BY <1>4
    <2>2. CASE i = 1
      BY <2>1, <2>2
    <2>3. CASE i # 1
      BY <2>1, <2>3
    <2> QED
      BY <2>2, <2>3
  <1> QED
    BY <1>1, <1>2, <1>3, <1>4 DEF Firsts

\* A list that is cut is no longer than it may be.
LEMMA CutTyped ==
    ASSUME NEW T, NEW s \in Seq(T), NEW n \in Nat \ {0}
    PROVE  /\ Cut(s, n) \in Seq(T) /\ Len(Cut(s, n)) <= n
           /\ \A i \in 1..Len(Cut(s, n)) : Cut(s, n)[i] = s[i]
           /\ Len(Cut(s, n)) = IF Len(s) > n THEN n ELSE Len(s)
  <1> DEFINE N == Len(s)
             m == IF N > n THEN n ELSE N
  <1>1. N \in Nat /\ \A i \in 1..N : s[i] \in T
    BY ListEntries
  <1>2. Cut(s, n) = SubSeq(s, 1, m)
    BY DEF Cut
  <1>3. m \in Nat /\ m <= N /\ m <= n
    BY <1>1
  <1> HIDE DEF m
  <1>4. \A i \in 1..m : s[i] \in T
    BY <1>1, <1>3
  <1>5. /\ SubSeq(s, 1, m) \in Seq(T)
        /\ Len(SubSeq(s, 1, m)) = IF 1 <= m THEN m - 1 + 1 ELSE 0
        /\ \A i \in 1..(m - 1 + 1) : SubSeq(s, 1, m)[i] = s[1 + i - 1]
    BY <1>3, <1>4, SubSeqProperties
  <1>6. Len(SubSeq(s, 1, m)) = m /\ \A i \in 1..m : SubSeq(s, 1, m)[i] = s[i]
    BY <1>3, <1>5
  <1> QED
    BY <1>2, <1>3, <1>5, <1>6 DEF m

\* What is cut off a list that falls lies below the rest.
LEMMA CutFacts ==
    ASSUME NEW s \in Seq(Int), Falls(s), NEW n \in Nat \ {0}
    PROVE  /\ Cut(s, n) \in Seq(Int) /\ Falls(Cut(s, n)) /\ Len(Cut(s, n)) <= n
           /\ Range(Cut(s, n)) \subseteq Range(s)
           /\ \A x \in Range(s), y \in Range(Cut(s, n)) : x >= y => x \in Range(Cut(s, n))
           /\ \A x \in Range(s) : \E y \in Range(Cut(s, n)) : y >= x
           /\ Len(Cut(s, n)) < n => Cut(s, n) = s
  <1> DEFINE N == Len(s)
             m == IF N > n THEN n ELSE N
             c == Cut(s, n)
  <1>1. /\ N \in Nat /\ DOMAIN s = 1..N /\ Range(s) = Firsts(s, N)
        /\ \A i \in 1..N : s[i] \in Int
    BY ListEntries DEF Firsts
  <1>2. \A i, j \in 1..N : i < j => s[i] > s[j]
    BY <1>1 DEF Falls
  <1> HIDE DEF N
  <1>3. m \in Nat /\ m <= N /\ m <= n /\ (N > 0 => m > 0) /\ (m < n => m = N)
    BY <1>1
  <1>4. Len(c) = IF N > n THEN n ELSE N
    BY CutTyped DEF N
  <1>5. c \in Seq(Int) /\ Len(c) = m /\ \A i \in 1..m : c[i] = s[i]
    BY <1>4, CutTyped DEF m
  <1> HIDE DEF m, c
  <1>6. DOMAIN c = 1..m /\ Range(c) = Firsts(c, m)
    BY <1>5, ListEntries DEF Firsts
  <1>7. /\ \A i, j \in 1..m : i < j => c[i] > c[j]
        /\ Range(c) \subseteq Range(s)
        /\ \A x \in Range(s), y \in Range(c) : x >= y => x \in Range(c)
        /\ m > 0 => \A x \in Range(s) : \E y \in Range(c) : y >= x
    <2>1. \A i \in 1..N : s[i] \in Int
      BY <1>1
    <2>2. \A i \in 1..m : c[i] = s[i]
      BY <1>5
    <2>3. /\ \A i, j \in 1..m : i < j => c[i] > c[j]
          /\ Firsts(c, m) \subseteq Firsts(s, N)
          /\ \A x \in Firsts(s, N), y \in Firsts(c, m) :
                x >= y => x \in Firsts(c, m)
          /\ m > 0 => \A x \in Firsts(s, N) : \E y \in Firsts(c, m) : y >= x
      BY <1>1, <1>2, <1>3, <2>1, <2>2, FirstOf
    <2> QED
      BY <1>1, <1>6, <2>3
  <1>8. Falls(c)
    BY <1>6, <1>7 DEF Falls
  <1>9. m = 0 => Range(s) = {}
    BY <1>1, <1>3 DEF Firsts
  <1>10. Len(c) < n => c = s
    <2>1. m < n => N = m /\ \A i \in 1..N : c[i] = s[i]
      BY <1>3, <1>5
    <2>2. c = [i \in 1..m |-> c[i]] /\ s = [i \in 1..N |-> s[i]]
      BY <1>1, <1>5, <1>6
    <2> QED
      BY <1>5, <2>1, <2>2
  <1> QED
    BY <1>3, <1>5, <1>7, <1>8, <1>9, <1>10 DEF c

\* u has the N entries of s, and then the M entries of t.
Follows(u, s, N, t, M) ==
    /\ N \in Nat /\ M \in Nat
    /\ \A i \in 1..N : u[i] = s[i]
    /\ \A j \in 1..M : u[N + j] = t[j]

\* Where an entry of two lists comes from, one of N entries and one of M.
LEMMA Whence ==
    ASSUME NEW N, NEW M, NEW s, NEW t, NEW u, Follows(u, s, N, t, M),
           NEW i \in 1..(N + M)
    PROVE  \/ i \in 1..N /\ u[i] = s[i]
           \/ i - N \in 1..M /\ u[i] = t[i - N] /\ i > N
  <1> USE DEF Follows
  <1>1. CASE i <= N
    BY <1>1
  <1>2. CASE i > N
    <2>1. i - N \in 1..M /\ i = N + (i - N)
      BY <1>2
    <2>2. u[N + (i - N)] = t[i - N]
      BY <2>1
    <2> QED
      BY <1>2, <2>1, <2>2
  <1> QED
    BY <1>1, <1>2

\* What two lists hold together.
LEMMA Together ==
    ASSUME NEW N, NEW M, NEW s, NEW t, NEW u, Follows(u, s, N, t, M)
    PROVE  Firsts(u, N + M) = Firsts(s, N) \cup Firsts(t, M)
  <1>0. /\ N \in Nat /\ M \in Nat
        /\ \A i \in 1..N : u[i] = s[i]
        /\ \A j \in 1..M : u[N + j] = t[j]
    BY DEF Follows
  <1>1. \A i \in 1..N : i \in 1..(N + M)
    BY <1>0
  <1>2. \A j \in 1..M : N + j \in 1..(N + M)
    BY <1>0
  <1>3. ASSUME NEW i \in 1..(N + M)
        PROVE  u[i] \in Firsts(s, N) \cup Firsts(t, M)
    <2>1. \/ i \in 1..N /\ u[i] = s[i]
          \/ i - N \in 1..M /\ u[i] = t[i - N] /\ i > N
      BY Whence
    <2> QED
      BY <2>1 DEF Firsts
  <1>4. ASSUME NEW i \in 1..N
        PROVE  s[i] \in Firsts(u, N + M)
    BY <1>0, <1>1 DEF Firsts
  <1>5. ASSUME NEW j \in 1..M
        PROVE  t[j] \in Firsts(u, N + M)
    BY <1>0, <1>2 DEF Firsts
  <1>6. Firsts(u, N + M) \subseteq Firsts(s, N) \cup Firsts(t, M)
    BY <1>3 DEF Firsts
  <1>7. Firsts(s, N) \subseteq Firsts(u, N + M) /\ Firsts(t, M) \subseteq Firsts(u, N + M)
    BY <1>4, <1>5 DEF Firsts
  <1> QED
    BY <1>6, <1>7

\* Numbers that fall, above numbers that do.
LEMMA FallTogether ==
    ASSUME NEW N, NEW M, NEW s, NEW t, NEW u, Follows(u, s, N, t, M),
           \A i, j \in 1..N : i < j => s[i] > s[j],
           \A i, j \in 1..M : i < j => t[i] > t[j],
           \A i \in 1..N, j \in 1..M : s[i] > t[j]
    PROVE  \A i, j \in 1..(N + M) : i < j => u[i] > u[j]
  <1> SUFFICES ASSUME NEW i \in 1..(N + M), NEW j \in 1..(N + M), i < j
               PROVE  u[i] > u[j]
    OBVIOUS
  <1>0. N \in Nat /\ M \in Nat
    BY DEF Follows
  <1>1. \/ i \in 1..N /\ u[i] = s[i]
        \/ i - N \in 1..M /\ u[i] = t[i - N] /\ i > N
    BY Whence
  <1>2. \/ j \in 1..N /\ u[j] = s[j]
        \/ j - N \in 1..M /\ u[j] = t[j - N] /\ j > N
    BY Whence
  <1>3. i > N => j \notin 1..N
    BY <1>0
  <1>4. i - N < j - N
    BY <1>0
  <1> QED
    BY <1>1, <1>2, <1>3, <1>4

\* Numbers that differ, and differ from others that do.
LEMMA DifferTogether ==
    ASSUME NEW N, NEW M, NEW s, NEW t, NEW u, Follows(u, s, N, t, M),
           \A i, j \in 1..N : s[i] = s[j] => i = j,
           \A i, j \in 1..M : t[i] = t[j] => i = j,
           \A i \in 1..N, j \in 1..M : s[i] # t[j]
    PROVE  \A i, j \in 1..(N + M) : u[i] = u[j] => i = j
  <1> SUFFICES ASSUME NEW i \in 1..(N + M), NEW j \in 1..(N + M), u[i] = u[j]
               PROVE  i = j
    OBVIOUS
  <1>0. N \in Nat /\ M \in Nat
    BY DEF Follows
  <1>1. \/ i \in 1..N /\ u[i] = s[i]
        \/ i - N \in 1..M /\ u[i] = t[i - N] /\ i > N
    BY Whence
  <1>2. \/ j \in 1..N /\ u[j] = s[j]
        \/ j - N \in 1..M /\ u[j] = t[j - N] /\ j > N
    BY Whence
  <1>3. i - N = j - N => i = j
    BY <1>0
  <1> QED
    BY <1>1, <1>2, <1>3

\* The indices of a list that is made of two.
LEMMA LaidTogether ==
    ASSUME NEW s \in Seq(Int), NEW t \in Seq(Int), NEW u, u = s \o t
    PROVE  /\ u \in Seq(Int) /\ Len(u) = Len(s) + Len(t)
           /\ \A i \in 1..Len(s) : u[i] = s[i]
           /\ \A j \in 1..Len(t) : u[Len(s) + j] = t[j]
  <1>1. Len(s) \in Nat /\ Len(t) \in Nat
    BY ListEntries
  <1>2. /\ u \in Seq(Int) /\ Len(u) = Len(s) + Len(t)
        /\ \A i \in 1..(Len(s) + Len(t)) : u[i] = IF i <= Len(s) THEN s[i] ELSE t[i - Len(s)]
    BY ConcatProperties
  <1> DEFINE N == Len(s)
             M == Len(t)
  <1>3. /\ N \in Nat /\ M \in Nat
        /\ \A i \in 1..(N + M) : u[i] = IF i <= N THEN s[i] ELSE t[i - N]
    BY <1>1, <1>2
  <1> HIDE DEF N, M
  <1>4. ASSUME NEW i \in 1..N
        PROVE  u[i] = s[i]
    <2>1. i \in 1..(N + M) /\ i <= N
      BY <1>3
    <2> QED
      BY <1>3, <2>1
  <1>5. ASSUME NEW j \in 1..M
        PROVE  u[N + j] = t[j]
    <2>1. N + j \in 1..(N + M) /\ ~(N + j <= N) /\ (N + j) - N = j
      BY <1>3
    <2>2. u[N + j] = t[(N + j) - N]
      BY <1>3, <2>1
    <2> QED
      BY <2>1, <2>2
  <1> QED
    BY <1>2, <1>4, <1>5 DEF N, M

\* One list above another.
LEMMA JoinFacts ==
    ASSUME NEW s \in Seq(Int), NEW t \in Seq(Int)
    PROVE  /\ s \o t \in Seq(Int) /\ Range(s \o t) = Range(s) \cup Range(t)
           /\ Len(s \o t) = Len(s) + Len(t)
           /\ Falls(s) /\ Falls(t) /\ (\A x \in Range(s), y \in Range(t) : x > y)
                => Falls(s \o t)
           /\ /\ \A i, j \in DOMAIN s : s[i] = s[j] => i = j
              /\ \A i, j \in DOMAIN t : t[i] = t[j] => i = j
              /\ Range(s) \cap Range(t) = {}
              => \A i, j \in DOMAIN (s \o t) : (s \o t)[i] = (s \o t)[j] => i = j
  <1> DEFINE u == s \o t
             N == Len(s)
             M == Len(t)
  <1>1. /\ N \in Nat /\ DOMAIN s = 1..N /\ Range(s) = Firsts(s, N)
        /\ M \in Nat /\ DOMAIN t = 1..M /\ Range(t) = Firsts(t, M)
    BY ListEntries DEF Firsts
  <1>2. /\ u \in Seq(Int) /\ Len(u) = N + M
        /\ \A i \in 1..N : u[i] = s[i]
        /\ \A j \in 1..M : u[N + j] = t[j]
    BY LaidTogether
  <1> HIDE DEF u
  <1>3. DOMAIN u = 1..(N + M) /\ Range(u) = Firsts(u, N + M)
    <2>1. DOMAIN u = 1..Len(u) /\ Range(u) = {u[i] : i \in 1..Len(u)}
      BY <1>2, ListEntries
    <2> QED
      BY <1>2, <2>1 DEF Firsts
  <1> HIDE DEF N, M
  <1>4. Follows(u, s, N, t, M)
    BY <1>1, <1>2 DEF Follows
  <1>5. Range(u) = Range(s) \cup Range(t)
    <2>1. Firsts(u, N + M) = Firsts(s, N) \cup Firsts(t, M)
      BY <1>4, Together
    <2> QED
      BY <1>1, <1>3, <2>1
  <1>6. ASSUME Falls(s), Falls(t), \A x \in Range(s), y \in Range(t) : x > y
        PROVE  Falls(u)
    <2>1. \A i \in 1..N, j \in 1..M : s[i] > t[j]
      BY <1>1, <1>6 DEF Firsts
    <2>2. \A i, j \in 1..N : i < j => s[i] > s[j]
      BY <1>1, <1>6 DEF Falls
    <2>3. \A i, j \in 1..M : i < j => t[i] > t[j]
      BY <1>1, <1>6 DEF Falls
    <2>4. \A i, j \in 1..(N + M) : i < j => u[i] > u[j]
      BY <1>4, <2>1, <2>2, <2>3, FallTogether
    <2> QED
      BY <1>3, <2>4 DEF Falls
  <1>7. ASSUME \A i, j \in DOMAIN s : s[i] = s[j] => i = j,
               \A i, j \in DOMAIN t : t[i] = t[j] => i = j, Range(s) \cap Range(t) = {}
        PROVE  \A i, j \in DOMAIN u : u[i] = u[j] => i = j
    <2>1. ASSUME NEW i \in 1..N, NEW j \in 1..M
          PROVE  s[i] # t[j]
      <3>1. s[i] \in Range(s) /\ t[j] \in Range(t)
        BY <1>1 DEF Firsts
      <3> QED
        BY <1>7, <3>1
    <2>2. \A i, j \in 1..N : s[i] = s[j] => i = j
      BY <1>1, <1>7
    <2>3. \A i, j \in 1..M : t[i] = t[j] => i = j
      BY <1>1, <1>7
    <2>4. \A i, j \in 1..(N + M) : u[i] = u[j] => i = j
      BY <1>4, <2>1, <2>2, <2>3, DifferTogether
    <2> QED
      BY <1>3, <2>4
  <1> QED
    BY <1>2, <1>5, <1>6, <1>7 DEF u, N, M

\* Nothing stands twice in a list that falls.
LEMMA FallsOnce ==
    ASSUME NEW s \in Seq(Int), Falls(s)
    PROVE  \A i, j \in DOMAIN s : s[i] = s[j] => i = j
  <1> DEFINE N == Len(s)
  <1>1. N \in Nat /\ DOMAIN s = 1..N /\ \A i \in 1..N : s[i] \in Int
    BY ListEntries
  <1>2. \A i, j \in 1..N : i < j => s[i] > s[j]
    BY <1>1 DEF Falls
  <1> HIDE DEF N
  <1> QED
    BY <1>1, <1>2

\* A list has finitely many entries.
LEMMA FiniteRange ==
    ASSUME NEW T, NEW s \in Seq(T)
    PROVE  IsFiniteSet(Range(s))
  <1>1. Len(s) \in Nat /\ DOMAIN s = 1..Len(s) /\ Range(s) = {s[i] : i \in 1..Len(s)}
    BY ListEntries
  <1>2. IsFiniteSet(1..Len(s))
    <2>1. PICK e : e = Len(s)
      OBVIOUS
    <2>2. e \in Int /\ 1 \in Int
      BY <1>1, <2>1
    <2>3. IsFiniteSet(1..e)
      BY <2>2, FS_Interval
    <2> QED BY <2>1, <2>3
  <1> DEFINE f == [i \in 1..Len(s) |-> s[i]]
  <1>3. f \in Surjection(1..Len(s), Range(s))
    BY <1>1 DEF Surjection
  <1> HIDE DEF f
  <1> QED
    BY <1>2, <1>3, FS_Surjection

\* The new rows of a merge.
LEMMA NewRows ==
    ASSUME NEW s \in Seq(Int), NEW t \in Seq(Int),
           NEW d, d = Descending(Range(t) \ Range(s))
    PROVE  d \in Seq(Int) /\ Falls(d) /\ Range(d) = Range(t) \ Range(s)
  <1> DEFINE D == Range(t) \ Range(s)
  <1>1. IsFiniteSet(D)
    <2>1. IsFiniteSet(Range(t))
      BY FiniteRange
    <2> QED
      BY <2>1, FS_Subset
  <1>2. D \in SUBSET Int
    <2>1. Range(t) \subseteq Int
      BY ListEntries
    <2> QED
      BY <2>1
  <1>3. d = Descending(D)
    OBVIOUS
  <1> HIDE DEF D
  <1>4. d \in Seq(D) /\ Falls(d) /\ Range(d) = D
    BY <1>1, <1>2, <1>3, DescendingFacts
  <1>5. d \in Seq(Int)
    BY <1>2, <1>4, Retyped
  <1> QED
    BY <1>4, <1>5 DEF D

\* A merged list has the entries of both, each once if the first has each once.
LEMMA MergedFacts ==
    ASSUME NEW s \in Seq(Int), NEW t \in Seq(Int)
    PROVE  /\ Merged(s, t) \in Seq(Int)
           /\ Range(Merged(s, t)) = Range(s) \cup Range(t)
           /\ Falls(s) => Falls(Merged(s, t))
  <1> DEFINE d == Descending(Range(t) \ Range(s))
             u == s \o d
  <1>1. d \in Seq(Int) /\ Falls(d) /\ Range(d) = Range(t) \ Range(s)
    BY NewRows
  <1> HIDE DEF d
  <1>2. /\ u \in Seq(Int) /\ Range(u) = Range(s) \cup Range(d)
        /\ /\ \A i, j \in DOMAIN s : s[i] = s[j] => i = j
           /\ \A i, j \in DOMAIN d : d[i] = d[j] => i = j
           /\ Range(s) \cap Range(d) = {}
           => \A i, j \in DOMAIN u : u[i] = u[j] => i = j
    BY <1>1, JoinFacts
  <1>3. \A i, j \in DOMAIN d : d[i] = d[j] => i = j
    BY <1>1, FallsOnce
  <1> HIDE DEF u
  <1>4. ASSUME Falls(s)
        PROVE  \A i, j \in DOMAIN u : u[i] = u[j] => i = j
    <2>1. \A i, j \in DOMAIN s : s[i] = s[j] => i = j
      BY <1>4, FallsOnce
    <2> QED
      BY <1>1, <1>2, <1>3, <2>1
  <1>5. Int \in SUBSET Int
    OBVIOUS
  <1>6. /\ NewestFirst(u) \in Seq(Int) /\ Range(NewestFirst(u)) = Range(u)
        /\ (\A i, j \in DOMAIN u : u[i] = u[j] => i = j) => Falls(NewestFirst(u))
    BY <1>2, <1>5, NewestFirstFacts
  <1>7. Merged(s, t) = NewestFirst(u)
    BY DEF Merged, u, d
  <1> QED
    BY <1>1, <1>2, <1>4, <1>6, <1>7

\* The newest rows of a log.
LEMMA NewestRows ==
    ASSUME NEW S \in SUBSET Stamp, NEW n \in Nat \ {0}, NEW c, c = Cut(Descending(S), n)
    PROVE  /\ c \in Seq(Int) /\ Falls(c) /\ Range(c) \subseteq S
           /\ \A x \in S, y \in Range(c) : x >= y => x \in Range(c)
           /\ \A x \in S : \E y \in Range(c) : y >= x
  <1> DEFINE d == Descending(S)
  <1>1. S \in SUBSET Int
    BY DEF Stamp
  <1>2. IsFiniteSet(S)
    <2>1. IsFiniteSet(1..MaxEvents)
      BY EventPanelAssumption, FS_Interval
    <2> QED
      BY <2>1, FS_Subset DEF Stamp
  <1>3. d \in Seq(S) /\ Falls(d) /\ Range(d) = S
    BY <1>1, <1>2, DescendingFacts
  <1>4. c = Cut(d, n)
    OBVIOUS
  <1> HIDE DEF d
  <1>5. d \in Seq(Int)
    BY <1>1, <1>3, Retyped
  <1>6. /\ c \in Seq(Int) /\ Falls(c)
        /\ Range(c) \subseteq Range(d)
        /\ \A x \in Range(d), y \in Range(c) : x >= y => x \in Range(c)
        /\ \A x \in Range(d) : \E y \in Range(c) : y >= x
    BY <1>3, <1>4, <1>5, CutFacts
  <1> QED
    BY <1>3, <1>6

\* A list that falls and leaves out nothing of the log between its ends.
LEMMA TidyBlock ==
    ASSUME NEW s \in Seq(Int), log[cpId] \in SUBSET Int, Block(s, log[cpId])
    PROVE  Tidy(s)
  <1> SUFFICES ASSUME s # <<>>
               PROVE  /\ s = Descending(Range(s))
                      /\ Range(s) = {e \in log[cpId] : s[Len(s)] <= e /\ e <= s[1]}
    BY DEF Tidy
  <1>1. Falls(s) /\ Range(s) \subseteq log[cpId]
    BY DEF Block, Solid
  <1>2. s = Descending(Range(s))
    BY <1>1, FallingIsDescending
  <1>3. /\ s[1] \in Range(s) /\ \A x \in Range(s) : x <= s[1]
        /\ s[Len(s)] \in Range(s) /\ \A x \in Range(s) : x >= s[Len(s)]
    BY <1>1, FallingEnds
  <1>4. ASSUME NEW e \in log[cpId], s[Len(s)] <= e, e <= s[1]
        PROVE  e \in Range(s)
    <2>1. e \in Int /\ s[1] \in Int /\ s[Len(s)] \in Int
      BY <1>1, <1>3
    <2>2. e = s[1] \/ e = s[Len(s)] \/ (s[Len(s)] < e /\ e < s[1])
      BY <1>4, <2>1
    <2> QED
      BY <1>3, <2>2 DEF Block, Solid
  <1> QED
    BY <1>1, <1>2, <1>3, <1>4

\* Nothing in a log is newer than the clock.
Past == \A c \in Charger : log[c] \subseteq 1..clock

\* What is rendered next is there.
Heard ==
    /\ "snapshot" \in unrendered => feed.snapshot \in Seq(Stamp)
    /\ "delta" \in unrendered => feed.delta \in Stamp

PanelTyped == PanelTypeOK /\ Past /\ Heard

\* What the feed can be.
Feeds == Subscriptions(Charger, Seq(Stamp), Stamp)

-----------------------------------------------------------------------------
\* An event on the wire of the feed.
LEMMA FeedPublished ==
    ASSUME NEW f \in Feeds, NEW e \in Stamp, NEW g, g = Published(f, <<e>>)
    PROVE  /\ g \in Feeds
           /\ g.key = f.key /\ g.stage = f.stage /\ g.snapshot = f.snapshot /\ g.delta = f.delta
           /\ f.stage = "live" =>
                /\ Len(f.wire) \in Nat /\ DOMAIN f.wire = 1..Len(f.wire)
                /\ DOMAIN g.wire = 1..(Len(f.wire) + 1)
                /\ \A j \in DOMAIN f.wire : g.wire[j] = f.wire[j]
                /\ g.wire[Len(f.wire) + 1].kind = "delta"
                /\ g.wire[Len(f.wire) + 1].data = e
           /\ f.stage # "live" => g.wire = f.wire
  <1>1. PICK S, D : S = Seq(Stamp) /\ D = Stamp
    OBVIOUS
  <1>2. f \in Subscriptions(Charger, S, D) /\ e \in D
    BY <1>1 DEF Feeds
  <1>3. /\ g \in Subscriptions(Charger, S, D)
        /\ g.key = f.key /\ g.stage = f.stage /\ g.snapshot = f.snapshot /\ g.delta = f.delta
        /\ f.stage = "live" =>
             /\ Len(f.wire) \in Nat /\ DOMAIN f.wire = 1..Len(f.wire)
             /\ DOMAIN g.wire = 1..(Len(f.wire) + 1)
             /\ \A j \in DOMAIN f.wire : g.wire[j] = f.wire[j]
             /\ g.wire[Len(f.wire) + 1] = [kind |-> "delta", data |-> e]
        /\ f.stage # "live" => g.wire = f.wire
    BY <1>2, PublishedOne
  <1> QED
    BY <1>1, <1>3 DEF Feeds

\* A snapshot on it.
LEMMA FeedRead ==
    ASSUME NEW f \in Feeds, NEW rows \in Seq(Stamp), NEW g, g = SnapshotRead(f, rows)
    PROVE  /\ g \in Feeds
           /\ g.key = f.key /\ g.stage = "read" /\ g.snapshot = f.snapshot /\ g.delta = f.delta
           /\ g.wire # <<>> /\ DOMAIN g.wire = {1}
           /\ g.wire[1].kind = "snapshot" /\ g.wire[1].data = rows
  <1>1. PICK S, D : S = Seq(Stamp) /\ D = Stamp
    OBVIOUS
  <1>2. f \in Subscriptions(Charger, S, D) /\ rows \in S
    BY <1>1 DEF Feeds
  <1>3. /\ g \in Subscriptions(Charger, S, D)
        /\ g.key = f.key /\ g.stage = "read" /\ g.snapshot = f.snapshot /\ g.delta = f.delta
        /\ g.wire # <<>> /\ DOMAIN g.wire = {1}
        /\ g.wire[1] = [kind |-> "snapshot", data |-> rows]
    BY <1>2, ReadHook
  <1> QED
    BY <1>1, <1>3 DEF Feeds

\* A message off it.
LEMMA FeedDelivered ==
    ASSUME NEW f \in Feeds, Deliverable(f), NEW g, g = Delivered(f)
    PROVE  /\ g \in Feeds /\ g.key = f.key /\ g.stage = "live"
           /\ 1 \in DOMAIN f.wire
           /\ Arriving(f) = f.wire[1].kind /\ Arriving(f) \in {"snapshot", "delta"}
           /\ Arriving(f) = "snapshot" =>
                /\ g.snapshot = f.wire[1].data /\ g.delta = f.delta
                /\ f.wire[1].data \in Seq(Stamp)
           /\ Arriving(f) = "delta" =>
                /\ g.delta = f.wire[1].data /\ g.snapshot = f.snapshot
                /\ f.wire[1].data \in Stamp
           /\ Len(g.wire) \in Nat /\ DOMAIN g.wire = 1..Len(g.wire)
           /\ DOMAIN f.wire = 1..(Len(g.wire) + 1)
           /\ \A i \in DOMAIN g.wire : g.wire[i] = f.wire[i + 1]
  <1>1. PICK S, D : S = Seq(Stamp) /\ D = Stamp
    OBVIOUS
  <1>2. f \in Subscriptions(Charger, S, D)
    BY <1>1 DEF Feeds
  <1>3. /\ g \in Subscriptions(Charger, S, D) /\ g.key = f.key /\ g.stage = "live"
        /\ 1 \in DOMAIN f.wire
        /\ Arriving(f) = f.wire[1].kind /\ Arriving(f) \in {"snapshot", "delta"}
        /\ Arriving(f) = "snapshot" => g.snapshot = f.wire[1].data /\ g.delta = f.delta
        /\ Arriving(f) = "delta" => g.delta = f.wire[1].data /\ g.snapshot = f.snapshot
        /\ Len(g.wire) \in Nat /\ DOMAIN g.wire = 1..Len(g.wire)
        /\ DOMAIN f.wire = 1..(Len(g.wire) + 1)
        /\ \A i \in DOMAIN g.wire : g.wire[i] = f.wire[i + 1]
    BY <1>2, DeliveredOne
  <1>4. f.wire[1] \in Messages(S, D)
    BY <1>2, <1>3 DEF Subscriptions, Messages
  <1>5. /\ f.wire[1].kind = "snapshot" => f.wire[1].data \in S
        /\ f.wire[1].kind = "delta" => f.wire[1].data \in D
    BY <1>4 DEF Messages
  <1> QED
    BY <1>1, <1>3, <1>5 DEF Feeds
\* The rows of a page or a snapshot are stamps.
LEMMA RowsTyped ==
    ASSUME NEW S \in SUBSET Stamp, NEW n \in Nat \ {0}
    PROVE  Cut(Descending(S), n) \in Seq(Stamp)
  <1> DEFINE c == Cut(Descending(S), n)
  <1>1. c \in Seq(Int) /\ Range(c) \subseteq S
    BY NewestRows
  <1> HIDE DEF c
  <1>2. Range(c) \subseteq Stamp
    BY <1>1
  <1>3. c \in Seq(Stamp)
    BY <1>1, <1>2, Retyped
  <1> QED
    BY <1>3 DEF c

\* So are those of a merged list,
LEMMA MergeTyped ==
    ASSUME NEW s \in Seq(Stamp), NEW t \in Seq(Stamp)
    PROVE  Merged(s, t) \in Seq(Stamp)
  <1>0. Range(s) \subseteq Stamp /\ Range(t) \subseteq Stamp
    BY ListEntries
  <1>1. Range(s) \subseteq Stamp /\ Range(t) \subseteq Stamp /\ Stamp \subseteq Int
    BY <1>0 DEF Stamp
  <1>2. s \in Seq(Int) /\ t \in Seq(Int)
    <2>1. Range(s) \subseteq Int /\ Range(t) \subseteq Int
      BY <1>1
    <2> QED
      BY <2>1, Retyped
  <1>3. Merged(s, t) \in Seq(Int) /\ Range(Merged(s, t)) \subseteq Stamp
    <2>1. Merged(s, t) \in Seq(Int) /\ Range(Merged(s, t)) = Range(s) \cup Range(t)
      BY <1>2, MergedFacts
    <2> QED
      BY <1>1, <2>1
  <1> QED
    BY <1>3, Retyped

\* and of one with a delta on top.
LEMMA PrependTyped ==
    ASSUME PanelTypeOK, NEW s \in Seq(Stamp)
    PROVE  Prepended(s) \in Seq(Stamp) /\ (Len(s) <= PanelRing => Len(Prepended(s)) <= PanelRing)
  <1>1. PanelRing \in Nat \ {0}
    BY EventPanelAssumption
  <1>2. CASE NewDelta
    <2>1. feed.delta \in Stamp
      BY <1>2 DEF NewDelta, PanelTypeOK, Subscriptions
    <2>2. <<feed.delta>> \o s \in Seq(Stamp)
      BY <2>1
    <2>3. Prepended(s) = Cut(<<feed.delta>> \o s, PanelRing)
      BY <1>2 DEF Prepended
    <2> QED
      BY <1>1, <2>2, <2>3, CutTyped
  <1>3. CASE ~NewDelta
    BY <1>3 DEF Prepended
  <1> QED
    BY <1>2, <1>3

\* The ring after the effect of a snapshot.
LEMMA AfterTyped ==
    ASSUME PanelTyped
    PROVE  AfterSnapshot \in Seq(Stamp)
  <1>1. PanelRing \in Nat \ {0} /\ events \in Seq(Stamp)
    BY EventPanelAssumption DEF PanelTyped, PanelTypeOK
  <1>2. CASE "snapshot" \in unrendered /\ feed.snapshot # <<>>
    <2>1. Merged(events, feed.snapshot) \in Seq(Stamp)
      BY <1>1, <1>2, MergeTyped DEF PanelTyped, Heard
    <2>2. AfterSnapshot = Cut(Merged(events, feed.snapshot), PanelRing)
      BY <1>2 DEF AfterSnapshot
    <2> QED
      BY <1>1, <2>1, <2>2, CutTyped
  <1>3. CASE ~("snapshot" \in unrendered /\ feed.snapshot # <<>>)
    BY <1>1, <1>3 DEF AfterSnapshot
  <1> QED
    BY <1>2, <1>3

\* A step that leaves the logs and what is rendered next alone.
LEMMA PastStays ==
    ASSUME PanelTyped, UNCHANGED <<log, clock, unrendered>>,
           feed'.snapshot = feed.snapshot, feed'.delta = feed.delta
    PROVE  Past' /\ Heard'
  BY DEF PanelTyped, Past, Heard

\* Every step of the panel keeps its types.
LEMMA PanelTypedStep == PanelTyped /\ [PanelNext]_panelVars => PanelTyped'
  <1> SUFFICES ASSUME PanelTyped, [PanelNext]_panelVars
               PROVE  PanelTyped'
    OBVIOUS
  <1>a. PanelTypeOK /\ Past /\ Heard
    BY DEF PanelTyped
  <1>b. feed \in Feeds /\ feed.key = cpId /\ cpId \in Charger /\ log \in [Charger -> SUBSET Stamp]
    BY <1>a DEF PanelTypeOK, Feeds
  <1>c. PanelRing \in Nat \ {0} /\ SnapshotLimit \in Nat \ {0} /\ PageLimit \in Nat \ {0}
    BY EventPanelAssumption
  <1>1. ASSUME NEW c \in Charger, Happen(c)
        PROVE  PanelTyped'
    <2>1. clock \in 0..MaxEvents /\ clock < MaxEvents /\ clock' = clock + 1 /\ MaxEvents \in Nat
      BY <1>1, <1>a, EventPanelAssumption DEF Happen, PanelTypeOK
    <2>2. clock' \in Stamp /\ clock' \in 0..MaxEvents
      BY <2>1 DEF Stamp
    <2>3. log' = [log EXCEPT ![c] = @ \cup {clock'}]
      BY <1>1 DEF Happen
    <2>4. log' \in [Charger -> SUBSET Stamp] /\ \A d \in Charger : log'[d] \subseteq log[d] \cup {clock'}
      BY <1>b, <2>2, <2>3
    <2>5. Past'
      <3>1. \A d \in Charger : log[d] \subseteq 1..clock
        BY <1>a DEF Past
      <3>2. 1..clock \subseteq 1..clock' /\ clock' \in 1..clock'
        BY <2>1
      <3> QED
        BY <2>4, <3>1, <3>2 DEF Past
    <2>6. feed' \in Feeds /\ feed'.key = feed.key /\ feed'.snapshot = feed.snapshot /\ feed'.delta = feed.delta
      <3>1. feed' = feed \/ feed' = Published(feed, <<clock'>>)
        BY <1>1 DEF Happen
      <3>2. CASE feed' = Published(feed, <<clock'>>)
        <4>1. PICK e \in Stamp : feed' = Published(feed, <<e>>)
          BY <2>2, <3>2
        <4> QED
          BY <1>b, <4>1, FeedPublished
      <3> QED
        BY <1>b, <3>1, <3>2
    <2>7. Heard'
      BY <1>1, <1>a, <2>6 DEF Happen, Heard
    <2>8. broken' \in BOOLEAN
      BY <1>1, <1>a DEF Happen, PanelTypeOK
    <2> QED
      BY <1>1, <1>a, <1>b, <2>2, <2>4, <2>5, <2>6, <2>7, <2>8 DEF PanelTyped, PanelTypeOK, Happen, Feeds
  <1>2. ASSUME NEW c \in Charger, Visit(c)
        PROVE  PanelTyped'
    <2>1. feed' \in Feeds /\ feed'.key = c /\ feed'.snapshot = feed.snapshot /\ feed'.delta = feed.delta
      BY <1>2, <1>b, AgainHook DEF Visit, Feeds
    <2>2. Past' /\ Heard'
      BY <1>2, <2>1, PastStays DEF Visit
    <2>3. visits' \in 0..MaxVisits
      BY <1>2, <1>a, EventPanelAssumption DEF Visit, PanelTypeOK
    <2>4. \/ older' = [older EXCEPT !.cursor = NoStamp] /\ older'.cursor = NoStamp
          \/ older.cursor = older'.cursor
      BY <1>2 DEF Visit
    <2>5. older'.cursor \in Stamp \cup {NoStamp} /\ older'.load = older.load
      BY <1>2, <1>a DEF Visit, PanelTypeOK
    <2>6. <<>> \in Seq(Stamp) /\ Len(<<>>) <= PanelRing
      BY <1>c
    <2>7. broken' \in BOOLEAN
      BY <1>2 DEF Visit, LoadingOlder
    <2> QED
      BY <1>2, <1>a, <1>b, <2>1, <2>2, <2>3, <2>5, <2>6, <2>7 DEF PanelTyped, PanelTypeOK, Visit, Feeds
  <1>3. ASSUME ServeSnapshot
        PROVE  PanelTyped'
    <2>1. TailLastN(log[feed.key]) \in Seq(Stamp)
      <3>1. log[feed.key] \in SUBSET Stamp
        BY <1>b
      <3> QED
        BY <1>c, <3>1, RowsTyped DEF TailLastN
    <2>2. feed' = SnapshotRead(feed, TailLastN(log[feed.key]))
      BY <1>3 DEF ServeSnapshot
    <2>3. feed' \in Feeds /\ feed'.key = feed.key /\ feed'.snapshot = feed.snapshot /\ feed'.delta = feed.delta
      <3>1. PICK rows \in Seq(Stamp) : feed' = SnapshotRead(feed, rows)
        BY <2>1, <2>2
      <3> QED
        BY <1>b, <3>1, FeedRead
    <2>4. Past' /\ Heard'
      BY <1>3, <2>3, PastStays DEF ServeSnapshot
    <2>5. broken' \in BOOLEAN
      BY <1>3, <1>a DEF ServeSnapshot, PanelTypeOK
    <2> QED
      BY <1>3, <1>a, <1>b, <2>3, <2>4, <2>5 DEF PanelTyped, PanelTypeOK, ServeSnapshot, Feeds
  <1>4. ASSUME Register
        PROVE  PanelTyped'
    <2>1. feed' \in Feeds /\ feed'.key = feed.key /\ feed'.snapshot = feed.snapshot /\ feed'.delta = feed.delta
      BY <1>4, <1>b, RegisteredHook DEF Register, Feeds
    <2>2. Past' /\ Heard'
      BY <1>4, <2>1, PastStays DEF Register
    <2> QED
      BY <1>4, <1>a, <1>b, <2>1, <2>2 DEF PanelTyped, PanelTypeOK, Register, Feeds
  <1>5. ASSUME ServeOlder
        PROVE  PanelTyped'
    <2>1. SearchEvents(log[cpId], older.load.to) \in Seq(Stamp)
      <3>1. {e \in log[cpId] : e < older.load.to} \in SUBSET Stamp
        BY <1>b
      <3> QED
        BY <1>c, <3>1, RowsTyped DEF SearchEvents
    <2>2. /\ older'.cursor = older.cursor
          /\ older'.load \in [stage : {"idle", "asked", "answered"}, to : Stamp \cup {NoStamp},
                              page : Seq(Stamp)]
      BY <1>5, <1>a, <2>1 DEF ServeOlder, PanelTypeOK
    <2>3. Past' /\ Heard'
      BY <1>5, PastStays DEF ServeOlder
    <2> QED
      BY <1>5, <1>a, <1>b, <2>2, <2>3 DEF PanelTyped, PanelTypeOK, ServeOlder, Feeds
  <1>6. ASSUME DeliverMessage
        PROVE  PanelTyped'
    <2>1. Deliverable(feed) /\ feed' = Delivered(feed) /\ unrendered' = unrendered \cup {Arriving(feed)}
      BY <1>6 DEF DeliverMessage
    <2>2. /\ feed' \in Feeds /\ feed'.key = feed.key /\ Arriving(feed) \in {"snapshot", "delta"}
          /\ Arriving(feed) = "snapshot" => feed'.snapshot \in Seq(Stamp) /\ feed'.delta = feed.delta
          /\ Arriving(feed) = "delta" => feed'.delta \in Stamp /\ feed'.snapshot = feed.snapshot
      BY <1>b, <2>1, FeedDelivered
    <2>5. Heard'
      BY <1>a, <2>1, <2>2 DEF Heard
    <2>6. Past'
      BY <1>6, <1>a DEF DeliverMessage, Past
    <2>7. unrendered' \subseteq {"snapshot", "delta"} /\ broken' \in BOOLEAN
      BY <1>6, <1>a, <2>1, <2>2 DEF PanelTypeOK, DeliverMessage
    <2> QED
      BY <1>6, <1>a, <1>b, <2>2, <2>5, <2>6, <2>7 DEF PanelTyped, PanelTypeOK, DeliverMessage, Feeds
  <1>7. ASSUME Render
        PROVE  PanelTyped'
    <2>1. AfterSnapshot \in Seq(Stamp)
      BY AfterTyped
    <2>2. Prepended(AfterSnapshot) \in Seq(Stamp)
      BY <1>a, <2>1, PrependTyped
    <2>3. buffer \in Seq(Stamp) /\ Len(buffer) <= PanelRing /\ seen \in Stamp \cup {NoData}
      BY <1>a DEF PanelTypeOK
    <2>4. Prepended(buffer) \in Seq(Stamp) /\ Len(Prepended(buffer)) <= PanelRing
      BY <1>a, <2>3, PrependTyped
    <2>5. /\ events' \in Seq(Stamp) /\ buffer' \in Seq(Stamp) /\ Len(buffer') <= PanelRing
          /\ ~paused => buffer' = buffer
      BY <1>7, <2>1, <2>2, <2>3, <2>4 DEF Render
    <2>6. seen' \in Stamp \cup {NoData}
      BY <1>7, <1>b, <2>3 DEF Render, Feeds, Subscriptions
    <2>7. Past' /\ Heard'
      BY <1>7, <1>a DEF Render, Past, Heard
    <2>8. broken' \in BOOLEAN
      BY <1>7, <1>a DEF Render, PanelTypeOK, Damaged
    <2> QED
      BY <1>7, <1>a, <1>b, <2>5, <2>6, <2>7, <2>8 DEF PanelTyped, PanelTypeOK, Render, Feeds
  <1>8. ASSUME PauseFeed
        PROVE  PanelTyped'
    <2>1. Prepended(buffer) \in Seq(Stamp) /\ Len(Prepended(buffer)) <= PanelRing
      BY <1>a, PrependTyped DEF PanelTypeOK
    <2>2. seen' \in Stamp \cup {NoData}
      BY <1>8, <1>b DEF PauseFeed, Feeds, Subscriptions
    <2>3. Past' /\ Heard'
      BY <1>8, PastStays DEF PauseFeed
    <2>4. broken' \in BOOLEAN
      BY <1>8, <1>a DEF PauseFeed, PanelTypeOK, NewDelta
    <2> QED
      BY <1>8, <1>a, <1>b, <2>1, <2>2, <2>3, <2>4 DEF PanelTyped, PanelTypeOK, PauseFeed, Feeds
  <1>9. ASSUME ResumeFeed
        PROVE  PanelTyped'
    <2>1. Flushed \in Seq(Stamp)
      <3>1. buffer \o events \in Seq(Stamp) /\ events \in Seq(Stamp)
        BY <1>a DEF PanelTypeOK
      <3>2. Cut(buffer \o events, PanelRing) \in Seq(Stamp)
        BY <1>c, <3>1, CutTyped
      <3> QED
        BY <3>1, <3>2 DEF Flushed
    <2>2. events' \in Seq(Stamp)
      BY <1>9, <1>a, <2>1, PrependTyped DEF ResumeFeed
    <2>3. seen' \in Stamp \cup {NoData}
      BY <1>9, <1>b DEF ResumeFeed, Feeds, Subscriptions
    <2>4. Past' /\ Heard'
      BY <1>9, PastStays DEF ResumeFeed
    <2>5. broken' \in BOOLEAN
      BY <1>9, <1>a DEF ResumeFeed, PanelTypeOK, NewDelta, Dropped, Anchored, LoadingOlder
    <2>6. <<>> \in Seq(Stamp) /\ Len(<<>>) <= PanelRing
      BY <1>c
    <2> QED
      BY <1>9, <1>a, <1>b, <2>2, <2>3, <2>4, <2>5, <2>6 DEF PanelTyped, PanelTypeOK, ResumeFeed, Feeds
  <1>10. ASSUME ClearList
         PROVE  PanelTyped'
    <2>1. Past' /\ Heard'
      BY <1>10, PastStays DEF ClearList
    <2>2. <<>> \in Seq(Stamp)
      OBVIOUS
    <2>3. broken' \in BOOLEAN
      BY <1>10, <1>a DEF ClearList, PanelTypeOK, Anchored, LoadingOlder
    <2> QED
      BY <1>10, <1>a, <1>b, <2>1, <2>2, <2>3 DEF PanelTyped, PanelTypeOK, ClearList, Feeds
  <1>11. ASSUME LoadOlder
         PROVE  PanelTyped'
    <2>1. PageBound \in Stamp
      <3>1. events \in Seq(Stamp) /\ VisibleEvents # {}
        BY <1>11, <1>a DEF PanelTypeOK, LoadOlder, CanLoadOlder
      <3>2. events # <<>>
        BY <3>1 DEF VisibleEvents
      <3>3. events[Len(events)] \in Stamp
        BY <3>1, <3>2
      <3> QED
        BY <1>a, <3>3 DEF PageBound, PanelTypeOK
    <2>2. older' = [older EXCEPT !.load = [PanelIdle EXCEPT !.stage = "asked", !.to = PageBound]]
      BY <1>11 DEF LoadOlder
    <2>3. <<>> \in Seq(Stamp)
      OBVIOUS
    <2>4. /\ older'.cursor \in {older.cursor, NoStamp}
          /\ older'.load \in [stage : {"idle", "asked", "answered"}, to : Stamp \cup {NoStamp},
                              page : Seq(Stamp)]
      BY <1>a, <2>1, <2>2, <2>3 DEF PanelTypeOK, PanelIdle
    <2>5. Past' /\ Heard'
      BY <1>11, PastStays DEF LoadOlder
    <2> QED
      BY <1>11, <1>a, <1>b, <2>4, <2>5 DEF PanelTyped, PanelTypeOK, LoadOlder, Feeds
  <1>12. ASSUME ArriveOlder
         PROVE  PanelTyped'
    <2> DEFINE page == older.load.page
    <2>1. page \in Seq(Stamp) /\ events \in Seq(Stamp)
      BY <1>a DEF PanelTypeOK
    <2>2. Merged(events, page) \in Seq(Stamp)
      BY <2>1, MergeTyped
    <2>3. page # <<>> => NextCursor(page) \in Stamp \cup {NoStamp}
      BY <2>1 DEF NextCursor
    <2>4. events' \in Seq(Stamp)
      BY <1>12, <2>1, <2>2 DEF ArriveOlder
    <2>5. <<>> \in Seq(Stamp)
      OBVIOUS
    <2>6. older'.cursor \in Stamp \cup {NoStamp} /\ older'.load = PanelIdle
      <3>1. CASE page = <<>>
        BY <1>12, <1>a, <3>1 DEF ArriveOlder, PanelTypeOK
      <3>2. CASE page # <<>>
        <4>1. older' = [cursor |-> NextCursor(page), load |-> PanelIdle]
          BY <1>12, <3>2 DEF ArriveOlder
        <4> QED
          BY <2>3, <3>2, <4>1
      <3> QED
        BY <3>1, <3>2
    <2>7. PanelIdle \in [stage : {"idle", "asked", "answered"}, to : Stamp \cup {NoStamp},
                         page : Seq(Stamp)]
      BY <2>5 DEF PanelIdle
    <2>8. Past' /\ Heard'
      BY <1>12, PastStays DEF ArriveOlder
    <2> QED
      BY <1>12, <1>a, <1>b, <2>4, <2>6, <2>7, <2>8 DEF PanelTyped, PanelTypeOK, ArriveOlder, Feeds
  <1>13. ASSUME FailOlder
         PROVE  PanelTyped'
    <2>1. <<>> \in Seq(Stamp)
      OBVIOUS
    <2>2. PanelIdle \in [stage : {"idle", "asked", "answered"}, to : Stamp \cup {NoStamp},
                         page : Seq(Stamp)]
      BY <2>1 DEF PanelIdle
    <2>3. Past' /\ Heard'
      BY <1>13, PastStays DEF FailOlder
    <2>4. \/ older'.cursor = older.cursor /\ older'.load = PanelIdle
          \/ older' = older
      BY <1>13 DEF FailOlder
    <2> QED
      BY <1>13, <1>a, <1>b, <2>2, <2>3 DEF PanelTyped, PanelTypeOK, FailOlder, Feeds
  <1>14. ASSUME NEW f \in LogFilter, SetFilter(f)
         PROVE  PanelTyped'
    <2>1. Past' /\ Heard'
      BY <1>14, PastStays DEF SetFilter
    <2> QED
      BY <1>14, <1>a, <1>b, <2>1 DEF PanelTyped, PanelTypeOK, SetFilter, Feeds
  <1>15. ASSUME Reconnect
         PROVE  PanelTyped'
    <2>1. feed' \in Feeds /\ feed'.key = feed.key /\ feed'.snapshot = feed.snapshot /\ feed'.delta = feed.delta
      BY <1>15, <1>b, AgainHook DEF Reconnect, Feeds
    <2>2. Past' /\ Heard'
      BY <1>15, <2>1, PastStays DEF Reconnect
    <2>3. reconnects' \in 0..MaxReconnects
      BY <1>15, <1>a, EventPanelAssumption DEF Reconnect, PanelTypeOK
    <2> QED
      BY <1>15, <1>a, <1>b, <2>1, <2>2, <2>3 DEF PanelTyped, PanelTypeOK, Reconnect, Feeds
  <1>16. ASSUME UNCHANGED panelVars
         PROVE  PanelTyped'
    BY <1>16, <1>a DEF PanelTyped, PanelTypeOK, Past, Heard, panelVars, Feeds
  <1> QED
    BY <1>1, <1>2, <1>3, <1>4, <1>5, <1>6, <1>7, <1>8, <1>9, <1>10, <1>11, <1>12, <1>13, <1>14,
       <1>15, <1>16 DEF PanelNext

PanelLog == log[cpId]

\* What the panel holds, and what is on its way to it: the rows of a snapshot, and
\* the deltas after it.
OnHand == IF Len(buffer) = PanelRing THEN Range(buffer) ELSE Range(buffer) \cup Range(events)

SnapshotSent == feed.wire # <<>> /\ feed.wire[1].kind = "snapshot"
SnapshotDue  == SnapshotSent \/ "snapshot" \in unrendered

DueRows ==
    IF SnapshotSent THEN Range(feed.wire[1].data)
    ELSE IF "snapshot" \in unrendered THEN Range(feed.snapshot) ELSE {}

DueDeltas ==
    {d \in Stamp :
        \/ \E j \in DOMAIN feed.wire : feed.wire[j].kind = "delta" /\ feed.wire[j].data = d
        \/ "delta" \in unrendered /\ feed.delta = d}

\* The snapshot comes first, the deltas in their order.
WireFits ==
    /\ feed.stage \in {"asked", "read", "live"}
    /\ feed.stage = "asked" => feed.wire = <<>> /\ unrendered = {}
    /\ feed.stage = "read" => unrendered = {} /\ SnapshotSent /\ DOMAIN feed.wire = {1}
    /\ SnapshotSent => unrendered = {}
    /\ \A j \in DOMAIN feed.wire : j > 1 => feed.wire[j].kind = "delta"
    /\ \A i, j \in DOMAIN feed.wire :
          i < j /\ feed.wire[i].kind = "delta" => feed.wire[i].data < feed.wire[j].data
    /\ "delta" \in unrendered =>
          \A j \in DOMAIN feed.wire : feed.wire[j].kind = "delta" /\ feed.delta < feed.wire[j].data

\* Ring and buffer have the events between their ends; together too, if the buffer
\* will not replace the ring.
ListsFit ==
    /\ Falls(events) /\ Falls(buffer)
    /\ Solid(Range(events), PanelLog) /\ Solid(Range(buffer), PanelLog)
    /\ Solid(OnHand, PanelLog)
    /\ \A b \in Range(buffer), e \in Range(events) : b > e

\* A snapshot reaches back to what the panel holds, and is not older.
SnapshotFits ==
    SnapshotDue =>
        /\ Solid(DueRows, PanelLog)
        /\ \A k \in OnHand : \E r \in DueRows : r >= k
        /\ \A k \in OnHand, r \in DueRows, e \in PanelLog :
              k < e /\ e < r => e \in OnHand \cup DueRows

\* The deltas are the newest events, and nothing is between them and the rest.
DeltasFit ==
    /\ DueDeltas \subseteq PanelLog
    /\ \A c \in DueDeltas, e \in PanelLog : e > c => e \in DueDeltas
    /\ \A c \in DueDeltas, b \in OnHand \cup DueRows : b < c
    /\ feed.stage # "asked" /\ OnHand \cup DueRows # {} =>
          \A e \in PanelLog : (\A b \in OnHand \cup DueRows : b < e) => e \in DueDeltas
    /\ seen # NoData => seen <= clock /\ \A c \in DueDeltas : seen < c

\* Older events are asked for below an event of the ring, and come without a hole.
OlderFits ==
    /\ older.cursor # NoStamp => older.cursor \in Range(events)
    /\ LoadingOlder => older.load.to \in Range(events)
    /\ older.load.stage = "answered" =>
          /\ Range(older.load.page) \subseteq PanelLog
          /\ \A p \in Range(older.load.page) : p < older.load.to
          /\ \A p \in Range(older.load.page), e \in PanelLog :
                p < e /\ e < older.load.to => e \in Range(older.load.page)

PanelSound == WireFits /\ ListsFit /\ SnapshotFits /\ DeltasFit /\ OlderFits

PanelInv == PanelTyped /\ (~broken => PanelSound)

-----------------------------------------------------------------------------
\* Numbers, and sets of them.
LEMMA PanelNumbers ==
    ASSUME PanelTyped
    PROVE  /\ PanelLog \subseteq Stamp /\ PanelLog \subseteq Int /\ clock \in Int
           /\ \A e \in PanelLog : e <= clock
           /\ Range(events) \subseteq Stamp /\ Range(buffer) \subseteq Stamp /\ OnHand \subseteq Stamp
           /\ Stamp \subseteq Int /\ NoData \notin Stamp /\ NoStamp \notin Stamp
           /\ PanelRing \in Nat \ {0} /\ feed \in Feeds /\ feed.key = cpId /\ cpId \in Charger
           /\ events \in Seq(Stamp) /\ buffer \in Seq(Stamp)
           /\ events \in Seq(Int) /\ buffer \in Seq(Int)
  <1>1. /\ PanelLog \subseteq Stamp /\ Stamp \subseteq Int /\ clock \in Int /\ PanelRing \in Nat \ {0}
        /\ NoStamp \notin Stamp
    BY EventPanelAssumption DEF PanelTyped, PanelTypeOK, PanelLog, Stamp, NoStamp
  <1>2. events \in Seq(Stamp) /\ buffer \in Seq(Stamp)
    BY DEF PanelTyped, PanelTypeOK
  <1>3. Range(events) \subseteq Stamp /\ Range(buffer) \subseteq Stamp
    BY <1>2, ListEntries
  <1>4. OnHand \subseteq Stamp
    BY <1>3 DEF OnHand
  <1>5. Range(events) \subseteq Int /\ Range(buffer) \subseteq Int
    BY <1>1, <1>3
  <1>6. events \in Seq(Int) /\ buffer \in Seq(Int)
    BY <1>2, <1>5, Retyped
  <1>7. PanelLog \subseteq 1..clock
    BY DEF PanelTyped, PanelTypeOK, Past, PanelLog
  <1>8. \A e \in PanelLog : e <= clock
    BY <1>1, <1>7
  <1>9. feed \in Feeds /\ feed.key = cpId /\ cpId \in Charger
    BY DEF PanelTyped, PanelTypeOK, Feeds
  <1>10. NoData \notin Stamp
    BY EventPanelAssumption DEF Stamp
  <1>11. PanelLog \subseteq Int
    BY <1>1
  <1> QED
    BY <1>1, <1>2, <1>3, <1>4, <1>6, <1>8, <1>9, <1>10, <1>11

\* What the panel holds, as a list.
LEMMA KnownFacts ==
    ASSUME PanelTyped, ListsFit
    PROVE  Known \in Seq(Int) /\ Range(Known) = OnHand /\ Falls(Known)
  <1>1. events \in Seq(Int) /\ buffer \in Seq(Int)
    BY PanelNumbers
  <1>2. /\ buffer \o events \in Seq(Int) /\ Range(buffer \o events) = Range(buffer) \cup Range(events)
        /\ Falls(buffer \o events)
    <2>1. Falls(buffer) /\ Falls(events) /\ \A x \in Range(buffer), y \in Range(events) : x > y
      BY DEF ListsFit
    <2> QED
      BY <1>1, <2>1, JoinFacts
  <1> QED
    BY <1>1, <1>2 DEF Known, OnHand, ListsFit

\* The end of the proof: what the property says.
LEMMA PanelSoundEnough == PanelInv => NoHoleNoRepeat
  <1> SUFFICES ASSUME PanelTyped, PanelSound
               PROVE  /\ Tidy(events) /\ Tidy(Known)
                      /\ UpToDate(feed) /\ RenderedEvents /\ Known # <<>> =>
                            \A e \in log[cpId] : e <= Known[1]
    BY DEF PanelInv, NoHoleNoRepeat
  <1>1. log[cpId] \in SUBSET Int /\ PanelLog = log[cpId] /\ events \in Seq(Int) /\ OnHand \subseteq Int
    BY PanelNumbers DEF PanelLog
  <1>2. Known \in Seq(Int) /\ Range(Known) = OnHand /\ Falls(Known)
    BY KnownFacts DEF PanelSound
  <1>3. Block(events, log[cpId]) /\ Block(Known, log[cpId])
    BY <1>1, <1>2 DEF PanelSound, ListsFit, Block
  <1>4. Tidy(events) /\ Tidy(Known)
    BY <1>1, <1>2, <1>3, TidyBlock
  <1>5. ASSUME UpToDate(feed), RenderedEvents, Known # <<>>, NEW e \in log[cpId]
        PROVE  e <= Known[1]
    <2>1. DueDeltas = {} /\ feed.stage # "asked" /\ DueRows = {}
      BY <1>5 DEF UpToDate, RenderedEvents, DueDeltas, DueRows, SnapshotSent
    <2>2. OnHand # {}
      BY <1>2, <1>5, ListEntries
    <2>3. ~ \A b \in OnHand : b < e
      BY <1>1, <2>1, <2>2 DEF PanelSound, DeltasFit
    <2>4. PICK b \in OnHand : ~(b < e)
      BY <2>3
    <2>5. b \in Range(Known) /\ b <= Known[1]
      BY <1>2, <1>5, <2>4, FallingEnds
    <2>6. b \in Int /\ e \in Int /\ Known[1] \in Int
      <3>1. Known[1] \in Range(Known)
        BY <1>2, <1>5, FallingEnds
      <3> QED
        BY <1>1, <1>2, <2>4, <3>1
    <2> QED
      BY <2>4, <2>5, <2>6
  <1> QED
    BY <1>4, <1>5

\* Sets that have what lies between their members.
LEMMA SolidTop ==
    ASSUME NEW T \in SUBSET Int, NEW S, Solid(S, T), NEW U \in SUBSET S,
           \A x \in S, y \in U : x >= y => x \in U
    PROVE  Solid(U, T)
  <1> SUFFICES ASSUME NEW a \in U, NEW b \in U, NEW e \in T, a < e, e < b
               PROVE  e \in U
    BY DEF Solid
  <1>1. e \in S
    BY DEF Solid
  <1>2. a \in Int /\ e \in Int
    BY DEF Solid
  <1> QED
    BY <1>1, <1>2

\* A newer event on top of a stretch without holes.
LEMMA SolidGrows ==
    ASSUME NEW T \in SUBSET Int, NEW S, Solid(S, T), NEW n \in Int, \A e \in T : e < n
    PROVE  Solid(S, T \cup {n})
  <1> SUFFICES ASSUME NEW a \in S, NEW b \in S, NEW e \in T \cup {n}, a < e, e < b
               PROVE  e \in S
    BY DEF Solid
  <1>1. b \in T /\ b < n /\ b \in Int
    BY DEF Solid
  <1>2. e # n
    BY <1>1
  <1> QED
    BY <1>2 DEF Solid

\* Two stretches that meet.
LEMMA SolidJoin ==
    ASSUME NEW T \in SUBSET Int, NEW S, Solid(S, T), NEW R, Solid(R, T),
           \A s \in S : \E r \in R : r >= s,
           \A s \in S, r \in R, e \in T : s < e /\ e < r => e \in S \cup R
    PROVE  Solid(S \cup R, T)
  <1>0. S \subseteq T /\ R \subseteq T
    BY DEF Solid
  <1> SUFFICES ASSUME NEW a \in S \cup R, NEW b \in S \cup R, NEW e \in T, a < e, e < b
               PROVE  e \in S \cup R
    BY <1>0 DEF Solid
  <1>1. a \in Int /\ b \in Int /\ e \in Int
    BY <1>0
  <1>2. CASE a \in R /\ b \in S
    <2>1. PICK r \in R : r >= b
      BY <1>2
    <2>2. r \in Int /\ e < r
      BY <1>0, <1>1, <2>1
    <2> QED
      BY <1>2, <2>2 DEF Solid
  <1>3. CASE a \in S /\ b \in S
    BY <1>3 DEF Solid
  <1>4. CASE a \in R /\ b \in R
    BY <1>4 DEF Solid
  <1>5. CASE a \in S /\ b \in R
    BY <1>5
  <1> QED
    BY <1>2, <1>3, <1>4, <1>5

\* The next entries below a stretch.
LEMMA SolidNext ==
    ASSUME NEW T \in SUBSET Int, NEW S, Solid(S, T), NEW c \in T, \A s \in S : s < c,
           S # {} => \A e \in T : (\A s \in S : s < e) => e >= c
    PROVE  Solid(S \cup {c}, T)
  <1>0. S \subseteq T
    BY DEF Solid
  <1> SUFFICES ASSUME NEW a \in S \cup {c}, NEW b \in S \cup {c}, NEW e \in T, a < e, e < b
               PROVE  e \in S \cup {c}
    BY <1>0 DEF Solid
  <1>1. a \in Int /\ b \in Int /\ e \in Int /\ c \in Int
    BY <1>0
  <1>2. a \in S
    BY <1>0, <1>1
  <1>3. CASE b \in S
    BY <1>2, <1>3 DEF Solid
  <1>4. CASE b = c
    <2>1. PICK s \in S : ~(s < e)
      BY <1>1, <1>2, <1>4
    <2>2. s \in Int
      BY <1>0
    <2>3. CASE e = s
      BY <2>3
    <2>4. CASE e < s
      BY <1>2, <2>4 DEF Solid
    <2> QED
      BY <1>1, <2>1, <2>2, <2>3, <2>4
  <1> QED
    BY <1>3, <1>4

\* The part of a stretch below a stamp.
LEMMA SolidBelow ==
    ASSUME NEW T \in SUBSET Int, NEW S, Solid(S, T), NEW t \in S, NEW P \in SUBSET T,
           \A p \in P : p < t, \A p \in P, e \in T : p < e /\ e < t => e \in P
    PROVE  Solid(S \cup P, T)
  <1>0. S \subseteq T
    BY DEF Solid
  <1> SUFFICES ASSUME NEW a \in S \cup P, NEW b \in S \cup P, NEW e \in T, a < e, e < b
               PROVE  e \in S \cup P
    BY <1>0 DEF Solid
  <1>1. a \in Int /\ b \in Int /\ e \in Int /\ t \in Int
    BY <1>0
  <1>2. CASE a \in S
    <2>1. CASE b \in S
      BY <1>2, <2>1 DEF Solid
    <2>2. CASE b \in P
      <3>1. e < t
        BY <1>1, <2>2
      <3> QED
        BY <1>2, <3>1 DEF Solid
    <2> QED
      BY <2>1, <2>2
  <1>3. CASE a \in P
    <2>1. CASE e < t
      BY <1>3, <2>1
    <2>2. CASE e > t
      <3>1. b \in S
        BY <1>1, <2>2
      <3>2. t < e
        BY <1>1, <2>2
      <3> QED
        BY <3>1, <3>2 DEF Solid
    <2> QED
      BY <1>1, <2>1, <2>2
  <1> QED
    BY <1>2, <1>3

\* Rows reach back to what is held, and are not older.
Reaches(R, S, T) ==
    /\ \A k \in S : \E r \in R : r >= k
    /\ \A k \in S, r \in R, e \in T : k < e /\ e < r => e \in S \cup R

NewestOfBoth(m, s, t, T, n) ==
    /\ m \in Seq(Int) /\ Falls(m) /\ Solid(Range(m), T)
    /\ Range(m) \subseteq Range(s) \cup Range(t)
    /\ \A x \in Range(s) \cup Range(t) : \E y \in Range(m) : y >= x
    /\ Len(m) < n => Range(m) = Range(s) \cup Range(t)

\* The newest of a list and the rows that are merged with it.
LEMMA MergedTop ==
    ASSUME NEW T \in SUBSET Int, NEW s \in Seq(Int), NEW t \in Seq(Int), Falls(s),
           Solid(Range(s), T), Solid(Range(t), T),
           Reaches(Range(t), Range(s), T),
           NEW n \in Nat \ {0}, NEW m, m = Cut(Merged(s, t), n)
    PROVE  NewestOfBoth(m, s, t, T, n)
  <1> DEFINE u == Merged(s, t)
  <1>1. u \in Seq(Int) /\ Falls(u) /\ Range(u) = Range(s) \cup Range(t)
    BY MergedFacts
  <1>3. m = Cut(u, n)
    OBVIOUS
  <1> HIDE DEF u
  <1>2. Solid(Range(u), T)
    <2>1. Solid(Range(s) \cup Range(t), T)
      BY SolidJoin DEF Reaches
    <2> QED
      BY <1>1, <2>1
  <1>4. /\ m \in Seq(Int) /\ Falls(m) /\ Range(m) \subseteq Range(u)
        /\ \A x \in Range(u), y \in Range(m) : x >= y => x \in Range(m)
        /\ \A x \in Range(u) : \E y \in Range(m) : y >= x
        /\ Len(m) < n => m = u
    BY <1>1, <1>3, CutFacts
  <1>5. Solid(Range(m), T)
    BY <1>2, <1>4, SolidTop
  <1> QED
    BY <1>1, <1>4, <1>5 DEF NewestOfBoth

\* The next event, and a list with it on top.
ComesNext(c, S, T) ==
    /\ \A x \in S : x < c
    /\ S # {} => \A e \in T : (\A x \in S : x < e) => e >= c

ToppedBy(m, s, c, T, n) ==
    /\ m \in Seq(Int) /\ Falls(m) /\ Solid(Range(m), T)
    /\ c \in Range(m) /\ Range(m) \subseteq Range(s) \cup {c} /\ Len(m) <= n
    /\ Len(m) < n => Range(m) = Range(s) \cup {c} /\ Len(s) < n

\* A list that a newer event tops.
LEMMA Topped ==
    ASSUME NEW T \in SUBSET Int, NEW s \in Seq(Int), Falls(s), Solid(Range(s), T),
           NEW c \in T, ComesNext(c, Range(s), T),
           NEW n \in Nat \ {0}, NEW m, m = Cut(<<c>> \o s, n)
    PROVE  ToppedBy(m, s, c, T, n)
  <1>00. /\ \A x \in Range(s) : x < c
         /\ Range(s) # {} => \A e \in T : (\A x \in Range(s) : x < e) => e >= c
    BY DEF ComesNext
  <1>0. PICK w : w = <<c>>
    OBVIOUS
  <1>1. w \in Seq(Int) /\ Range(w) = {c} /\ Falls(w) /\ Len(w) = 1
    <2>1. DOMAIN w = 1..1 /\ w[1] = c /\ w \in Seq(Int) /\ Len(w) = 1
      BY <1>0
    <2>2. Range(w) = {c}
      BY <2>1 DEF Range
    <2>3. Falls(w)
      BY <2>1 DEF Falls
    <2> QED
      BY <2>1, <2>2, <2>3
  <1>2. Range(s) \subseteq Int
    BY ListEntries
  <1> DEFINE u == w \o s
  <1>3. u \in Seq(Int) /\ Range(u) = Range(s) \cup {c} /\ Falls(u) /\ Len(u) = 1 + Len(s)
    <2>1. \A x \in Range(w), y \in Range(s) : x > y
      BY <1>00, <1>1, <1>2
    <2>2. u \in Seq(Int) /\ Range(u) = Range(w) \cup Range(s) /\ Len(u) = Len(w) + Len(s) /\ Falls(u)
      BY <1>1, <2>1, JoinFacts
    <2> HIDE DEF u
    <2> QED
      BY <1>1, <2>2
  <1>5. m = Cut(u, n)
    BY <1>0
  <1> HIDE DEF u
  <1>4. Solid(Range(u), T)
    <2>1. Solid(Range(s) \cup {c}, T)
      BY <1>00, SolidNext
    <2> QED
      BY <1>3, <2>1
  <1>6. /\ m \in Seq(Int) /\ Falls(m) /\ Range(m) \subseteq Range(u) /\ Len(m) <= n
        /\ \A x \in Range(u), y \in Range(m) : x >= y => x \in Range(m)
        /\ \A x \in Range(u) : \E y \in Range(m) : y >= x
        /\ Len(m) < n => m = u
    <2>1. u \in Seq(Int) /\ Falls(u) /\ m = Cut(u, n)
      BY <1>3, <1>5
    <2>2. u \in Seq(Int) /\ Falls(u) /\ n \in Nat \ {0} =>
            /\ Cut(u, n) \in Seq(Int) /\ Falls(Cut(u, n)) /\ Len(Cut(u, n)) <= n
            /\ Range(Cut(u, n)) \subseteq Range(u)
            /\ \A x \in Range(u), y \in Range(Cut(u, n)) : x >= y => x \in Range(Cut(u, n))
            /\ \A x \in Range(u) : \E y \in Range(Cut(u, n)) : y >= x
            /\ Len(Cut(u, n)) < n => Cut(u, n) = u
      BY CutFacts
    <2> QED
      BY <2>1, <2>2
  <1>7. Solid(Range(m), T)
    BY <1>4, <1>6, SolidTop
  <1>8. c \in Range(m)
    <2>1. PICK y \in Range(m) : y >= c
      BY <1>3, <1>6
    <2>2. c \in Range(u)
      BY <1>3
    <2>3. y \in Range(u) /\ y \in Int /\ c \in Int
      BY <1>2, <1>3, <1>6
    <2>4. y = c
      BY <1>00, <1>3, <2>1, <2>3
    <2> QED
      BY <2>4
  <1>9. Len(s) \in Nat /\ Len(m) \in Nat
    BY <1>6
  <1>10. Len(m) < n => Range(m) = Range(s) \cup {c} /\ Len(s) < n
    <2> SUFFICES ASSUME Len(m) < n
                 PROVE  Range(m) = Range(s) \cup {c} /\ Len(s) < n
      OBVIOUS
    <2>1. m = u
      BY <1>6
    <2>2. Len(u) < n /\ Len(u) = 1 + Len(s)
      BY <1>3, <2>1
    <2> QED
      BY <1>3, <1>9, <2>1, <2>2
  <1> QED
    BY <1>3, <1>6, <1>7, <1>8, <1>10 DEF ToppedBy

-----------------------------------------------------------------------------
\* Steps that leave the subscription alone.
LEMMA DueStays ==
    ASSUME UNCHANGED <<feed, unrendered>>
    PROVE  /\ DueRows' = DueRows /\ DueDeltas' = DueDeltas
           /\ SnapshotDue' = SnapshotDue /\ WireFits' = WireFits
  BY DEF DueRows, DueDeltas, SnapshotDue, SnapshotSent, WireFits

\* The subscription starts again: nothing is on its way.
LEMMA NothingDue ==
    ASSUME feed'.wire = <<>>, unrendered' = {}
    PROVE  DueRows' = {} /\ DueDeltas' = {} /\ ~SnapshotDue'
  BY DEF DueRows, DueDeltas, SnapshotDue, SnapshotSent

\* A step of the panel alone leaves the log as it was.
LEMMA AllStays ==
    ASSUME PanelSound, UNCHANGED <<log, clock, feed, unrendered, cpId, events, buffer, seen>>,
           OlderFits'
    PROVE  PanelSound'
  <1>1. OnHand' = OnHand /\ PanelLog' = PanelLog
    BY DEF OnHand, PanelLog
  <1>2. DueRows' = DueRows /\ DueDeltas' = DueDeltas /\ SnapshotDue' = SnapshotDue /\ WireFits'
    BY DueStays DEF PanelSound
  <1>3. ListsFit'
    BY <1>1 DEF PanelSound, ListsFit
  <1>4. SnapshotFits' /\ DeltasFit'
    BY <1>1, <1>2 DEF PanelSound, SnapshotFits, DeltasFit
  <1> QED
    BY <1>2, <1>3, <1>4 DEF PanelSound

\* The oldest of what the panel holds are dropped.
LEMMA HeldShrinks ==
    ASSUME PanelTyped, PanelSound,
           UNCHANGED <<log, clock, feed, unrendered, cpId>>, seen' \in {seen, NoData},
           ListsFit', OlderFits', OnHand' \subseteq OnHand,
           \A x \in OnHand, y \in OnHand' : x >= y => x \in OnHand'
    PROVE  PanelSound'
  <1>1. PanelLog' = PanelLog
    BY DEF PanelLog
  <1>2. DueRows' = DueRows /\ DueDeltas' = DueDeltas /\ SnapshotDue' = SnapshotDue /\ WireFits'
    BY DueStays DEF PanelSound
  <1>3. PanelLog \subseteq Int /\ OnHand \subseteq Int
    BY PanelNumbers
  <1>4. SnapshotFits'
    <2> SUFFICES ASSUME SnapshotDue
                 PROVE  /\ Solid(DueRows, PanelLog)
                        /\ \A k \in OnHand' : \E r \in DueRows : r >= k
                        /\ \A k \in OnHand', r \in DueRows, e \in PanelLog :
                              k < e /\ e < r => e \in OnHand' \cup DueRows
      BY <1>1, <1>2 DEF SnapshotFits
    <2>1. ASSUME NEW k \in OnHand', NEW r \in DueRows, NEW e \in PanelLog, k < e, e < r
          PROVE  e \in OnHand' \cup DueRows
      <3>1. e \in OnHand \cup DueRows
        BY <2>1 DEF PanelSound, SnapshotFits
      <3>2. e >= k
        BY <1>3, <2>1
      <3> QED
        BY <2>1, <3>1, <3>2
    <2> QED
      BY <2>1 DEF PanelSound, SnapshotFits
  <1>5. DeltasFit'
    <2>1. /\ DueDeltas \subseteq PanelLog
          /\ \A c \in DueDeltas, e \in PanelLog : e > c => e \in DueDeltas
          /\ \A c \in DueDeltas, b \in OnHand \cup DueRows : b < c
          /\ feed.stage # "asked" /\ OnHand \cup DueRows # {} =>
                \A e \in PanelLog : (\A b \in OnHand \cup DueRows : b < e) => e \in DueDeltas
          /\ seen # NoData => seen <= clock /\ \A c \in DueDeltas : seen < c
      BY DEF PanelSound, DeltasFit
    <2>2. ASSUME feed.stage # "asked", OnHand' \cup DueRows # {}, NEW e \in PanelLog,
                 \A b \in OnHand' \cup DueRows : b < e
          PROVE  e \in DueDeltas
      <3>1. ASSUME NEW k \in OnHand
            PROVE  k < e
        <4>1. CASE k \in OnHand'
          BY <2>2, <4>1
        <4>2. CASE k \notin OnHand' /\ OnHand' # {}
          <5>1. PICK y \in OnHand' : TRUE
            BY <4>2
          <5>2. ~(k >= y) /\ y < e /\ y \in Int
            BY <1>3, <2>2, <4>2, <5>1
          <5> QED
            BY <1>3, <5>2
        <4>3. CASE OnHand' = {}
          <5>1. DueRows # {}
            BY <2>2, <4>3
          <5>2. SnapshotDue
            BY <5>1 DEF DueRows, SnapshotDue
          <5>3. PICK r \in DueRows : r >= k
            BY <5>2 DEF PanelSound, SnapshotFits
          <5>4. r \in Int /\ r < e
            BY <1>3, <2>2, <5>2 DEF PanelSound, SnapshotFits, Solid
          <5> QED
            BY <1>3, <5>3, <5>4
        <4> QED
          BY <4>1, <4>2, <4>3
      <3>2. \A b \in OnHand \cup DueRows : b < e
        BY <2>2, <3>1
      <3> QED
        BY <2>1, <2>2, <3>2
    <2>3. \A c \in DueDeltas, b \in OnHand' \cup DueRows : b < c
      BY <2>1
    <2>4. seen' # NoData => seen' <= clock /\ \A c \in DueDeltas : seen' < c
      BY <2>1
    <2> QED
      BY <1>1, <1>2, <2>1, <2>2, <2>3, <2>4 DEF DeltasFit
  <1> QED
    BY <1>2, <1>4, <1>5 DEF PanelSound

\* The request for older events is not disturbed.
LEMMA OlderKept ==
    ASSUME PanelSound, UNCHANGED <<log, cpId, older>>,
           Range(events) \subseteq Range(events') \/ ~Anchored
    PROVE  OlderFits'
  <1>1. CASE ~Anchored
    BY <1>1 DEF Anchored, OlderFits, LoadingOlder
  <1>2. CASE Range(events) \subseteq Range(events')
    BY <1>2 DEF PanelSound, OlderFits, PanelLog, LoadingOlder
  <1> QED
    BY <1>1, <1>2

\* An event goes to the wire of the registered subscription.
LEMMA WireGrows ==
    ASSUME PanelTyped, WireFits, NEW e \in Stamp, feed.stage = "live",
           NEW f, f = Published(feed, <<e>>), feed' = f, unrendered' = unrendered,
           \A d \in DueDeltas : d < e
    PROVE  /\ WireFits' /\ DueRows' = DueRows /\ SnapshotDue' = SnapshotDue
           /\ DueDeltas' = DueDeltas \cup {e} /\ feed'.stage = "live"
  <1> DEFINE N == Len(feed.wire)
  <1>1. /\ f.stage = "live" /\ f.snapshot = feed.snapshot /\ f.delta = feed.delta
        /\ N \in Nat /\ DOMAIN feed.wire = 1..N /\ DOMAIN f.wire = 1..(N + 1)
        /\ \A j \in DOMAIN feed.wire : f.wire[j] = feed.wire[j]
        /\ f.wire[N + 1].kind = "delta" /\ f.wire[N + 1].data = e
    <2>1. feed \in Feeds
      BY PanelNumbers
    <2> QED
      BY <2>1, FeedPublished
  <1>2. feed.wire = <<>> <=> N = 0
    <2>1. feed.wire \in Seq(Messages(Seq(Stamp), Stamp))
      BY PanelNumbers DEF Feeds, Subscriptions, Messages
    <2> QED
      BY <2>1
  <1>3. f.wire # <<>>
    <2>1. N + 1 \in DOMAIN f.wire
      BY <1>1
    <2> QED
      BY <2>1
  <1> HIDE DEF N
  <1>4. SnapshotSent' = SnapshotSent
    <2>1. CASE N = 0
      BY <1>1, <1>2, <2>1 DEF SnapshotSent
    <2>2. CASE N # 0
      <3>1. 1 \in DOMAIN feed.wire
        BY <1>1, <2>2
      <3>2. f.wire[1] = feed.wire[1]
        BY <1>1, <3>1
      <3> QED
        BY <1>2, <1>3, <2>2, <3>2 DEF SnapshotSent
    <2> QED
      BY <2>1, <2>2
  <1>5. DueRows' = DueRows
    <2>1. CASE SnapshotSent
      <3>1. 1 \in DOMAIN feed.wire
        BY <1>1, <1>2, <2>1 DEF SnapshotSent
      <3>2. f.wire[1] = feed.wire[1]
        BY <1>1, <3>1
      <3> QED
        BY <1>4, <2>1, <3>2 DEF DueRows
    <2>2. CASE ~SnapshotSent
      BY <1>1, <1>4, <2>2 DEF DueRows
    <2> QED
      BY <2>1, <2>2
  <1>6. SnapshotDue' = SnapshotDue
    BY <1>4 DEF SnapshotDue
  <1>7. DueDeltas' = DueDeltas \cup {e}
    <2>1. ASSUME NEW d \in DueDeltas
          PROVE  d \in DueDeltas'
      <3>1. CASE \E j \in DOMAIN feed.wire : feed.wire[j].kind = "delta" /\ feed.wire[j].data = d
        <4>1. PICK j \in DOMAIN feed.wire : feed.wire[j].kind = "delta" /\ feed.wire[j].data = d
          BY <3>1
        <4>2. j \in DOMAIN f.wire /\ f.wire[j] = feed.wire[j]
          BY <1>1, <4>1
        <4> QED
          BY <2>1, <4>1, <4>2 DEF DueDeltas
      <3>2. CASE "delta" \in unrendered /\ feed.delta = d
        BY <1>1, <2>1, <3>2 DEF DueDeltas
      <3> QED
        BY <2>1, <3>1, <3>2 DEF DueDeltas
    <2>2. e \in DueDeltas'
      <3>1. N + 1 \in DOMAIN f.wire
        BY <1>1
      <3> QED
        BY <1>1, <3>1 DEF DueDeltas
    <2>3. ASSUME NEW d \in DueDeltas', d # e
          PROVE  d \in DueDeltas
      <3>1. CASE \E j \in DOMAIN f.wire : f.wire[j].kind = "delta" /\ f.wire[j].data = d
        <4>1. PICK j \in DOMAIN f.wire : f.wire[j].kind = "delta" /\ f.wire[j].data = d
          BY <3>1
        <4>2. j \in 1..(N + 1) /\ j # N + 1
          BY <1>1, <2>3, <4>1
        <4>3. j \in 1..N
          BY <1>1, <4>2
        <4>4. j \in DOMAIN feed.wire /\ f.wire[j] = feed.wire[j]
          BY <1>1, <4>3
        <4> QED
          BY <2>3, <4>1, <4>4 DEF DueDeltas
      <3>2. CASE "delta" \in unrendered /\ feed.delta = d
        BY <1>1, <2>3, <3>2 DEF DueDeltas
      <3> QED
        BY <1>1, <2>3, <3>1, <3>2 DEF DueDeltas
    <2> QED
      BY <2>1, <2>2, <2>3
  <1>8. WireFits'
    <2>1. \A j \in DOMAIN f.wire : j > 1 => f.wire[j].kind = "delta"
      <3> SUFFICES ASSUME NEW j \in DOMAIN f.wire, j > 1
                   PROVE  f.wire[j].kind = "delta"
        OBVIOUS
      <3>1. CASE j = N + 1
        BY <1>1, <3>1
      <3>2. CASE j # N + 1
        <4>1. j \in DOMAIN feed.wire
          BY <1>1, <3>2
        <4> QED
          BY <1>1, <4>1 DEF WireFits
      <3> QED
        BY <3>1, <3>2
    <2>2. ASSUME NEW i \in DOMAIN f.wire, NEW j \in DOMAIN f.wire, i < j, f.wire[i].kind = "delta"
          PROVE  f.wire[i].data < f.wire[j].data
      <3>1. i \in DOMAIN feed.wire /\ f.wire[i] = feed.wire[i]
        <4>1. i \in 1..N
          BY <1>1, <2>2
        <4> QED
          BY <1>1, <4>1
      <3>2. CASE j = N + 1
        <4>1. feed.wire[i].data \in DueDeltas
          <5>1. feed.wire[i] \in Messages(Seq(Stamp), Stamp)
            BY <3>1, PanelNumbers DEF Feeds, Subscriptions, Messages
          <5>2. feed.wire[i].kind = "delta" => feed.wire[i].data \in Stamp
            BY <5>1 DEF Messages
          <5> QED
            BY <2>2, <3>1, <5>2 DEF DueDeltas
        <4> QED
          BY <1>1, <3>1, <3>2, <4>1
      <3>3. CASE j # N + 1
        <4>1. j \in DOMAIN feed.wire /\ f.wire[j] = feed.wire[j]
          BY <1>1, <3>3
        <4> QED
          BY <2>2, <3>1, <4>1 DEF WireFits
      <3> QED
        BY <3>2, <3>3
    <2>3. ASSUME "delta" \in unrendered, NEW j \in DOMAIN f.wire
          PROVE  f.wire[j].kind = "delta" /\ feed.delta < f.wire[j].data
      <3>1. CASE j = N + 1
        <4>1. feed.delta \in DueDeltas
          BY <2>3 DEF DueDeltas, PanelTyped, Heard
        <4> QED
          BY <1>1, <3>1, <4>1
      <3>2. CASE j # N + 1
        <4>1. j \in DOMAIN feed.wire
          BY <1>1, <3>2
        <4> QED
          BY <1>1, <2>3, <4>1 DEF WireFits
      <3> QED
        BY <3>1, <3>2
    <2>4. SnapshotSent' => unrendered' = {}
      BY <1>4 DEF WireFits
    <2> QED
      BY <1>1, <2>1, <2>2, <2>3, <2>4 DEF WireFits
  <1> QED
    BY <1>1, <1>5, <1>6, <1>7, <1>8

-----------------------------------------------------------------------------
\* An event happens at some charger.
LEMMA HappenSound ==
    ASSUME PanelTyped, PanelTyped', PanelSound, NEW c \in Charger, Happen(c), ~broken'
    PROVE  PanelSound'
  <1> DEFINE n == clock'
  <1>0. /\ n = clock + 1 /\ clock < MaxEvents /\ log' = [log EXCEPT ![c] = @ \cup {n}]
        /\ UNCHANGED <<unrendered, cpId, events, buffer, seen, older>>
        /\ feed' = IF c = feed.key THEN Published(feed, <<n>>) ELSE feed
        /\ ~(c = feed.key /\ feed.stage = "read")
    BY DEF Happen
  <1>1. /\ PanelLog \subseteq Stamp /\ PanelLog \subseteq Int /\ clock \in Int
        /\ \A e \in PanelLog : e <= clock
        /\ feed.key = cpId /\ cpId \in Charger /\ Stamp \subseteq Int
    BY PanelNumbers
  <1>2. n \in Stamp /\ n \in Int /\ \A e \in PanelLog : e < n
    <2>1. n \in Int /\ clock \in 0..MaxEvents /\ MaxEvents \in Nat
      BY <1>0, <1>1, EventPanelAssumption DEF PanelTyped, PanelTypeOK
    <2>2. n \in Stamp
      BY <1>0, <2>1 DEF Stamp
    <2> QED
      BY <1>0, <1>1, <2>1, <2>2
  <1>3. OnHand' = OnHand
    BY <1>0 DEF OnHand
  <1>4. seen # NoData => seen <= clock'
    <2>1. seen # NoData => seen <= clock /\ seen \in Int
      BY <1>1 DEF PanelSound, DeltasFit, PanelTyped, PanelTypeOK
    <2> QED
      BY <1>0, <1>1, <2>1
  <1>5. CASE c # cpId
    <2>1. PanelLog' = PanelLog /\ feed' = feed
      BY <1>0, <1>1, <1>5 DEF PanelLog, PanelTyped, PanelTypeOK
    <2>2. DueRows' = DueRows /\ DueDeltas' = DueDeltas /\ SnapshotDue' = SnapshotDue /\ WireFits'
      BY <1>0, <2>1, DueStays DEF PanelSound
    <2>3. ListsFit' /\ SnapshotFits'
      BY <1>0, <1>3, <2>1, <2>2 DEF PanelSound, ListsFit, SnapshotFits
    <2>4. DeltasFit'
      BY <1>0, <1>3, <1>4, <2>1, <2>2 DEF PanelSound, DeltasFit
    <2>5. OlderFits'
      BY <1>0, <2>1 DEF PanelSound, OlderFits, LoadingOlder
    <2> QED
      BY <2>2, <2>3, <2>4, <2>5 DEF PanelSound
  <1>6. CASE c = cpId
    <2>1. PanelLog' = PanelLog \cup {n}
      BY <1>0, <1>1, <1>6 DEF PanelLog, PanelTyped, PanelTypeOK
    <2>2. feed.stage \in {"asked", "live"} /\ feed' = Published(feed, <<n>>)
      BY <1>0, <1>1, <1>6 DEF PanelSound, WireFits
    <2>3. /\ WireFits' /\ DueRows' = DueRows /\ SnapshotDue' = SnapshotDue
          /\ DueDeltas' = IF feed.stage = "live" THEN DueDeltas \cup {n} ELSE DueDeltas
          /\ feed'.stage = feed.stage
      <3>1. CASE feed.stage = "asked"
        <4>1. feed' = feed
          BY <2>2, <3>1 DEF Published
        <4> QED
          BY <1>0, <3>1, <4>1, DueStays DEF PanelSound
      <3>2. CASE feed.stage = "live"
        <4>1. \A d \in DueDeltas : d < n
          BY <1>2 DEF PanelSound, DeltasFit
        <4>2. PICK e \in Stamp : e = n
          BY <1>2
        <4>3. feed' = Published(feed, <<e>>) /\ (\A d \in DueDeltas : d < e) /\ unrendered' = unrendered
          BY <1>0, <2>2, <4>1, <4>2
        <4>4. WireFits
          BY DEF PanelSound
        <4>5. PICK f : f = Published(feed, <<e>>) /\ feed' = f
          BY <4>3
        <4>6. /\ WireFits' /\ DueRows' = DueRows /\ SnapshotDue' = SnapshotDue
              /\ DueDeltas' = DueDeltas \cup {e} /\ feed'.stage = "live"
          BY <3>2, <4>3, <4>4, <4>5, WireGrows
        <4> QED
          BY <3>2, <4>2, <4>6
      <3> QED
        BY <2>2, <3>1, <3>2
    <2> HIDE DEF n
    <2>4. ListsFit'
      <3>1. /\ Solid(Range(events), PanelLog \cup {n}) /\ Solid(Range(buffer), PanelLog \cup {n})
            /\ Solid(OnHand, PanelLog \cup {n})
        BY <1>1, <1>2, SolidGrows DEF PanelSound, ListsFit
      <3> QED
        BY <1>0, <1>3, <2>1, <3>1 DEF PanelSound, ListsFit
    <2>5. SnapshotFits'
      <3> SUFFICES ASSUME SnapshotDue
                   PROVE  /\ Solid(DueRows, PanelLog \cup {n})
                          /\ \A k \in OnHand : \E r \in DueRows : r >= k
                          /\ \A k \in OnHand, r \in DueRows, e \in PanelLog \cup {n} :
                                k < e /\ e < r => e \in OnHand \cup DueRows
        BY <1>3, <2>1, <2>3 DEF SnapshotFits
      <3>1. Solid(DueRows, PanelLog)
        BY DEF PanelSound, SnapshotFits
      <3>2. ASSUME NEW k \in OnHand, NEW r \in DueRows, NEW e \in PanelLog \cup {n}, k < e, e < r
            PROVE  e \in OnHand \cup DueRows
        <4>1. r < n /\ r \in Int
          BY <1>1, <1>2, <3>1 DEF Solid
        <4>2. e # n
          BY <1>2, <3>2, <4>1
        <4> QED
          BY <3>2, <4>2 DEF PanelSound, SnapshotFits
      <3> QED
        BY <1>1, <1>2, <3>1, <3>2, SolidGrows DEF PanelSound, SnapshotFits
    <2>6. DeltasFit'
      <3>0. OnHand \subseteq PanelLog /\ DueRows \subseteq PanelLog
        <4>1. SnapshotDue => DueRows \subseteq PanelLog
          BY DEF PanelSound, SnapshotFits, Solid
        <4>2. ~SnapshotDue => DueRows = {}
          BY DEF SnapshotDue, DueRows
        <4> QED
          BY <4>1, <4>2 DEF PanelSound, ListsFit, Solid
      <3>1. /\ DueDeltas \subseteq PanelLog
            /\ \A d \in DueDeltas, e \in PanelLog : e > d => e \in DueDeltas
            /\ \A d \in DueDeltas, b \in OnHand \cup DueRows : b < d
            /\ feed.stage # "asked" /\ OnHand \cup DueRows # {} =>
                  \A e \in PanelLog : (\A b \in OnHand \cup DueRows : b < e) => e \in DueDeltas
            /\ seen # NoData => seen <= clock /\ \A d \in DueDeltas : seen < d
        BY DEF PanelSound, DeltasFit
      <3>2. CASE feed.stage = "asked"
        <4>1. DueDeltas = {}
          BY <3>2 DEF PanelSound, WireFits, DueDeltas
        <4>2. DueDeltas' = {}
          BY <2>3, <3>2, <4>1
        <4> QED
          BY <1>0, <1>4, <2>3, <3>2, <4>2 DEF DeltasFit
      <3>3. CASE feed.stage = "live"
        <4>1. DueDeltas' = DueDeltas \cup {n}
          BY <2>3, <3>3
        <4>2. DueDeltas' \subseteq PanelLog'
          BY <2>1, <3>1, <4>1
        <4>3. ASSUME NEW d \in DueDeltas', NEW e \in PanelLog', e > d
              PROVE  e \in DueDeltas'
          <5>1. CASE d = n
            BY <1>1, <1>2, <2>1, <4>3, <5>1
          <5>2. CASE d # n
            BY <2>1, <3>1, <4>1, <4>3, <5>2
          <5> QED
            BY <5>1, <5>2
        <4>4. \A d \in DueDeltas', b \in OnHand \cup DueRows : b < d
          BY <1>2, <3>0, <3>1, <4>1
        <4>5. OnHand \cup DueRows # {} =>
                  \A e \in PanelLog' : (\A b \in OnHand \cup DueRows : b < e) => e \in DueDeltas'
          BY <2>1, <3>1, <3>3, <4>1
        <4>6. seen # NoData => \A d \in DueDeltas' : seen < d
          <5>1. seen # NoData => seen <= clock /\ seen \in Int
            BY <1>1, <3>1 DEF PanelTyped, PanelTypeOK
          <5>2. seen # NoData => seen < n
            BY <1>0, <1>1, <1>2, <5>1 DEF n
          <5> QED
            BY <3>1, <4>1, <5>2
        <4> QED
          BY <1>0, <1>3, <1>4, <2>3, <4>2, <4>3, <4>4, <4>5, <4>6 DEF DeltasFit
      <3> QED
        BY <2>2, <3>2, <3>3
    <2>7. OlderFits'
      <3>1. /\ older'.cursor # NoStamp => older'.cursor \in Range(events')
            /\ LoadingOlder' => older'.load.to \in Range(events')
        BY <1>0 DEF PanelSound, OlderFits, LoadingOlder
      <3>2. ASSUME older.load.stage = "answered"
            PROVE  /\ Range(older.load.page) \subseteq PanelLog'
                   /\ \A p \in Range(older.load.page) : p < older.load.to
                   /\ \A p \in Range(older.load.page), e \in PanelLog' :
                         p < e /\ e < older.load.to => e \in Range(older.load.page)
        <4>1. /\ Range(older.load.page) \subseteq PanelLog
              /\ \A p \in Range(older.load.page) : p < older.load.to
              /\ \A p \in Range(older.load.page), e \in PanelLog :
                    p < e /\ e < older.load.to => e \in Range(older.load.page)
              /\ older.load.to \in PanelLog
          BY <3>2 DEF PanelSound, OlderFits, LoadingOlder, ListsFit, Solid
        <4>2. ~(n < older.load.to)
          <5>1. PICK t \in PanelLog : t = older.load.to
            BY <4>1
          <5>2. t < n /\ t \in Int /\ n \in Int
            BY <1>1, <1>2, <5>1
          <5> QED
            BY <5>1, <5>2
        <4> QED
          BY <2>1, <4>1, <4>2
      <3> QED
        BY <1>0, <3>1, <3>2 DEF OlderFits
    <2> QED
      BY <2>3, <2>4, <2>5, <2>6, <2>7 DEF PanelSound
  <1> QED
    BY <1>5, <1>6

\* The empty list.
LEMMA NoEntries == Range(<<>>) = {} /\ DOMAIN <<>> = {} /\ Len(<<>>) = 0
  <1>0. <<>> \in Seq(Int)
    OBVIOUS
  <1>1. PICK b \in Seq(Int) : b = <<>>
    BY <1>0
  <1>2. Range(b) = {} /\ DOMAIN b = 1..Len(b) /\ Len(b) = 0
    BY <1>1, ListEntries
  <1> QED
    BY <1>1, <1>2

\* The server reads the tail of the log.
LEMMA ServeSnapshotSound ==
    ASSUME PanelTyped, PanelTyped', PanelSound, ServeSnapshot, ~broken'
    PROVE  PanelSound'
  <1>1. /\ PanelLog \subseteq Stamp /\ PanelLog \subseteq Int /\ OnHand \subseteq Int
        /\ feed.key = cpId /\ feed \in Feeds /\ SnapshotLimit \in Nat \ {0}
    BY PanelNumbers, EventPanelAssumption
  <1>2. PICK rows : rows = TailLastN(PanelLog)
    OBVIOUS
  <1>3. /\ feed.stage = "asked" /\ feed' = SnapshotRead(feed, rows)
        /\ ~ \E k \in DOMAIN Known, e \in PanelLog :
              /\ Known[k] < e /\ e < rows[Len(rows)]
              /\ \A n \in DOMAIN Known : Known[n] < e
        /\ UNCHANGED <<log, clock, unrendered, cpId, events, buffer, seen, older>>
    BY <1>1, <1>2 DEF ServeSnapshot, PanelLog
  <1>4. /\ rows \in Seq(Int) /\ Falls(rows) /\ Range(rows) \subseteq PanelLog
        /\ \A x \in PanelLog, y \in Range(rows) : x >= y => x \in Range(rows)
        /\ \A x \in PanelLog : \E y \in Range(rows) : y >= x
    BY <1>1, <1>2, NewestRows DEF TailLastN
  <1>5. rows \in Seq(Stamp)
    <2>1. Range(rows) \subseteq Stamp
      BY <1>1, <1>4
    <2> QED
      BY <1>4, <2>1, Retyped
  <1>6. /\ feed'.stage = "read" /\ feed'.wire # <<>> /\ DOMAIN feed'.wire = {1}
        /\ feed'.wire[1].kind = "snapshot" /\ feed'.wire[1].data = rows
    BY <1>1, <1>3, <1>5, FeedRead
  <1>7. unrendered' = {}
    BY <1>3 DEF PanelSound, WireFits
  <1>8. SnapshotSent' /\ DueRows' = Range(rows) /\ DueDeltas' = {} /\ WireFits'
    <2>1. SnapshotSent'
      BY <1>6 DEF SnapshotSent
    <2>2. DueRows' = Range(rows)
      BY <1>6, <2>1 DEF DueRows
    <2>3. DueDeltas' = {}
      BY <1>6, <1>7 DEF DueDeltas
    <2>4. WireFits'
      BY <1>6, <1>7, <2>1 DEF WireFits
    <2> QED
      BY <2>1, <2>2, <2>3, <2>4
  <1>9. PanelLog' = PanelLog /\ OnHand' = OnHand
    BY <1>3 DEF PanelLog, OnHand
  <1>10. ListsFit'
    BY <1>3, <1>9 DEF PanelSound, ListsFit
  <1>11. OnHand \subseteq PanelLog
    BY DEF PanelSound, ListsFit, Solid
  <1>12. SnapshotFits'
    <2>1. Solid(Range(rows), PanelLog)
      <3> SUFFICES ASSUME NEW a \in Range(rows), NEW e \in PanelLog, a < e
                   PROVE  e \in Range(rows)
        BY <1>4 DEF Solid
      <3>0. a \in Int /\ e \in Int
        BY <1>1, <1>4
      <3>1. e >= a
        BY <3>0
      <3> QED
        BY <1>4, <3>1
    <2>2. ASSUME NEW k \in OnHand, NEW r \in Range(rows), NEW e \in PanelLog, k < e, e < r
          PROVE  e \in OnHand \cup Range(rows)
      <3>1. rows # <<>> /\ Falls(rows) /\ rows \in Seq(Int)
        BY <1>4, <2>2, ListEntries
      <3>2. rows[Len(rows)] \in Range(rows)
        BY <3>1, FallingEnds
      <3>3. PICK y \in Range(rows) : y = rows[Len(rows)]
        BY <3>2
      <3>4. y \in Int /\ e \in Int
        BY <1>1, <1>4
      <3>5. CASE e >= y
        BY <1>4, <3>5
      <3>6. CASE e < y
        <4>1. Known \in Seq(Int) /\ Range(Known) = OnHand
          BY KnownFacts DEF PanelSound
        <4>2. PICK i \in DOMAIN Known : Known[i] = k
          BY <4>1, <2>2 DEF Range
        <4>3. PICK n \in DOMAIN Known : ~(Known[n] < e)
          BY <1>3, <2>2, <3>3, <3>6, <4>2
        <4>4. PICK h \in OnHand : h = Known[n]
          BY <4>1 DEF Range
        <4>5. h \in Int /\ e <= h /\ h \in OnHand
          BY <1>1, <3>4, <4>3, <4>4
        <4>6. CASE e = h
          BY <4>6
        <4>7. CASE e < h
          BY <2>2, <4>5, <4>7 DEF PanelSound, ListsFit, Solid
        <4> QED
          BY <3>4, <4>5, <4>6, <4>7
      <3> QED
        BY <3>4, <3>5, <3>6
    <2> QED
      BY <1>4, <1>8, <1>9, <1>11, <2>1, <2>2 DEF SnapshotFits
  <1>13. DeltasFit'
    <2>1. ASSUME NEW e \in PanelLog, \A b \in OnHand \cup Range(rows) : b < e
          PROVE  FALSE
      <3>1. PICK y \in Range(rows) : y >= e
        BY <1>4
      <3>2. y \in Int /\ e \in Int /\ y < e
        BY <1>1, <1>4, <2>1, <3>1
      <3> QED
        BY <3>1, <3>2
    <2>2. seen # NoData => seen <= clock
      BY DEF PanelSound, DeltasFit
    <2> QED
      BY <1>3, <1>8, <1>9, <2>1, <2>2 DEF DeltasFit
  <1>14. OlderFits'
    BY <1>3, <1>9 DEF PanelSound, OlderFits, LoadingOlder
  <1> QED
    BY <1>8, <1>10, <1>12, <1>13, <1>14 DEF PanelSound

\* The broker registers the subscription.
LEMMA RegisterSound ==
    ASSUME PanelTyped, PanelSound, Register
    PROVE  PanelSound'
  <1>1. /\ feed.stage = "read" /\ feed' = Registered(feed)
        /\ UNCHANGED <<log, clock, unrendered, cpId, events, buffer, seen, older>>
    BY DEF Register
  <1>2. /\ feed'.stage = "live" /\ feed'.delta = feed.delta /\ feed'.snapshot = feed.snapshot
        /\ feed'.wire = feed.wire
    <2>1. feed \in Feeds
      BY PanelNumbers
    <2> QED
      BY <1>1, <2>1, RegisteredHook DEF Feeds
  <1>3. /\ DueRows' = DueRows /\ DueDeltas' = DueDeltas
        /\ SnapshotSent' = SnapshotSent /\ SnapshotDue' = SnapshotDue
    BY <1>1, <1>2 DEF DueRows, DueDeltas, SnapshotSent, SnapshotDue
  <1>4. WireFits'
    BY <1>1, <1>2, <1>3 DEF PanelSound, WireFits
  <1>5. OnHand' = OnHand /\ PanelLog' = PanelLog
    BY <1>1 DEF OnHand, PanelLog
  <1>6. ListsFit' /\ SnapshotFits'
    BY <1>1, <1>3, <1>5 DEF PanelSound, ListsFit, SnapshotFits
  <1>7. DeltasFit'
    BY <1>1, <1>2, <1>3, <1>5 DEF PanelSound, DeltasFit
  <1>8. OlderFits'
    BY <1>1, <1>5 DEF PanelSound, OlderFits, LoadingOlder
  <1> QED
    BY <1>4, <1>6, <1>7, <1>8 DEF PanelSound

\* The socket was lost and is open again.
LEMMA ReconnectSound ==
    ASSUME PanelTyped, PanelSound, Reconnect
    PROVE  PanelSound'
  <1>1. /\ unrendered = {} /\ feed' = Resubscribed(feed, cpId)
        /\ UNCHANGED <<log, clock, unrendered, cpId, events, buffer, seen, older>>
    BY DEF Reconnect, RenderedEvents
  <1>2. feed'.stage = "asked" /\ feed'.wire = <<>>
    <2>1. feed \in Feeds /\ cpId \in Charger
      BY PanelNumbers
    <2> QED
      BY <1>1, <2>1, AgainHook DEF Feeds
  <1>3. DueRows' = {} /\ DueDeltas' = {} /\ ~SnapshotDue'
    BY <1>1, <1>2, NothingDue
  <1>4. WireFits'
    BY <1>1, <1>2, <1>3 DEF WireFits, SnapshotDue
  <1>5. OnHand' = OnHand /\ PanelLog' = PanelLog
    BY <1>1 DEF OnHand, PanelLog
  <1>6. ListsFit' /\ SnapshotFits'
    BY <1>1, <1>3, <1>5 DEF PanelSound, ListsFit, SnapshotFits
  <1>7. DeltasFit'
    BY <1>1, <1>2, <1>3, <1>5 DEF PanelSound, DeltasFit
  <1>8. OlderFits'
    BY <1>1, <1>5 DEF PanelSound, OlderFits, LoadingOlder
  <1> QED
    BY <1>4, <1>6, <1>7, <1>8 DEF PanelSound

\* The panel is rendered for another charger.
LEMMA VisitSound ==
    ASSUME PanelTyped, NEW c \in Charger, Visit(c), ~broken'
    PROVE  PanelSound'
  <1>1. /\ unrendered = {} /\ unrendered' = {} /\ feed' = Resubscribed(feed, c) /\ ~LoadingOlder
        /\ events' = <<>> /\ buffer' = <<>> /\ seen' = NoData
        /\ older' = [older EXCEPT !.cursor = NoStamp]
    BY DEF Visit, RenderedEvents
  <1>2. feed'.stage = "asked" /\ feed'.wire = <<>>
    <2>1. feed \in Feeds
      BY PanelNumbers
    <2> QED
      BY <1>1, <2>1, AgainHook DEF Feeds
  <1>3. DueRows' = {} /\ DueDeltas' = {} /\ ~SnapshotDue'
    BY <1>1, <1>2, NothingDue
  <1>4. WireFits'
    BY <1>1, <1>2, <1>3 DEF WireFits, SnapshotDue
  <1>5. events' = <<>> /\ Range(events') = {} /\ Range(buffer') = {}
    <2> QED
      BY <1>1, NoEntries
  <1>6. OnHand' = {}
    BY <1>5 DEF OnHand
  <1>7. ListsFit'
    BY <1>1, <1>5, <1>6 DEF ListsFit, Falls, Solid
  <1>8. SnapshotFits' /\ DeltasFit'
    BY <1>1, <1>2, <1>3, <1>6 DEF SnapshotFits, DeltasFit
  <1>9. older'.cursor = NoStamp /\ older'.load = older.load
    BY <1>1 DEF PanelTyped, PanelTypeOK
  <1>10. OlderFits'
    BY <1>1, <1>9 DEF OlderFits, LoadingOlder
  <1> QED
    BY <1>4, <1>7, <1>8, <1>10 DEF PanelSound

\* A message arrives.
LEMMA DeliverSound ==
    ASSUME PanelTyped, PanelTyped', PanelSound, DeliverMessage, ~broken'
    PROVE  PanelSound'
  <1> DEFINE N == Len(feed'.wire)
  <1>1. /\ Deliverable(feed) /\ feed' = Delivered(feed)
        /\ unrendered' = unrendered \cup {Arriving(feed)}
        /\ ~(Arriving(feed) = "delta" /\ "delta" \in unrendered)
        /\ UNCHANGED <<log, clock, cpId, events, buffer, seen, older>>
    BY DEF DeliverMessage
  <1>2. feed \in Feeds
    BY PanelNumbers
  <1>3. /\ feed'.stage = "live" /\ 1 \in DOMAIN feed.wire
        /\ Arriving(feed) = feed.wire[1].kind /\ Arriving(feed) \in {"snapshot", "delta"}
        /\ Arriving(feed) = "snapshot" => /\ feed'.snapshot = feed.wire[1].data
                                          /\ feed'.delta = feed.delta
        /\ Arriving(feed) = "delta" => /\ feed'.delta = feed.wire[1].data
                                       /\ feed'.snapshot = feed.snapshot
                                       /\ feed.wire[1].data \in Stamp
        /\ N \in Nat /\ DOMAIN feed'.wire = 1..N /\ DOMAIN feed.wire = 1..(N + 1)
        /\ \A i \in 1..N : feed'.wire[i] = feed.wire[i + 1]
    <2>1. PICK g : g = Delivered(feed) /\ feed' = g
      BY <1>1
    <2>2. /\ g.stage = "live" /\ 1 \in DOMAIN feed.wire
          /\ Arriving(feed) = feed.wire[1].kind /\ Arriving(feed) \in {"snapshot", "delta"}
          /\ Arriving(feed) = "snapshot" => g.snapshot = feed.wire[1].data /\ g.delta = feed.delta
          /\ Arriving(feed) = "delta" => /\ g.delta = feed.wire[1].data
                                         /\ g.snapshot = feed.snapshot
                                         /\ feed.wire[1].data \in Stamp
          /\ Len(g.wire) \in Nat /\ DOMAIN g.wire = 1..Len(g.wire)
          /\ DOMAIN feed.wire = 1..(Len(g.wire) + 1)
          /\ \A i \in DOMAIN g.wire : g.wire[i] = feed.wire[i + 1]
      BY <1>1, <1>2, <2>1, FeedDelivered
    <2> QED
      BY <2>1, <2>2
  <1>4. feed.wire # <<>>
    BY <1>1 DEF Deliverable
  <1> HIDE DEF N
  <1>5. ASSUME NEW i \in 1..N
        PROVE  i + 1 \in DOMAIN feed.wire /\ i + 1 > 1 /\ feed'.wire[i].kind = "delta"
    <2>1. i + 1 \in DOMAIN feed.wire /\ i + 1 > 1
      BY <1>3
    <2> QED
      BY <1>3, <2>1 DEF PanelSound, WireFits
  <1>6. ~SnapshotSent'
    <2>1. feed'.wire # <<>> => 1 \in DOMAIN feed'.wire
      <3>1. feed' \in Feeds
        BY <1>1, <1>2, FeedDelivered
      <3>2. feed'.wire \in Seq(Messages(Seq(Stamp), Stamp))
        BY <3>1 DEF Feeds, Subscriptions, Messages
      <3> QED
        BY <3>2
    <2> QED
      BY <1>3, <1>5, <2>1 DEF SnapshotSent
  <1>7. SnapshotSent <=> Arriving(feed) = "snapshot"
    BY <1>3, <1>4 DEF SnapshotSent
  <1>8. SnapshotDue' = SnapshotDue /\ DueRows' = DueRows
    <2>1. CASE Arriving(feed) = "snapshot"
      BY <1>1, <1>3, <1>6, <1>7, <2>1 DEF SnapshotDue, DueRows
    <2>2. CASE Arriving(feed) = "delta"
      BY <1>1, <1>3, <1>6, <1>7, <2>2 DEF SnapshotDue, DueRows
    <2> QED
      BY <1>3, <2>1, <2>2
  <1>9. Arriving(feed) = "snapshot" => unrendered = {} /\ unrendered' = {"snapshot"}
    BY <1>1, <1>7 DEF PanelSound, WireFits
  <1>10. \A i, j \in 1..(N + 1) : i < j /\ feed.wire[i].kind = "delta" =>
            feed.wire[i].data < feed.wire[j].data
    BY <1>3 DEF PanelSound, WireFits
  <1>11. DueDeltas' = DueDeltas
    <2>1. ASSUME NEW d \in DueDeltas
          PROVE  d \in DueDeltas'
      <3>1. CASE "delta" \in unrendered /\ feed.delta = d
        <4>1. Arriving(feed) = "snapshot" => FALSE
          BY <1>9, <3>1
        <4>2. FALSE
          BY <1>1, <1>3, <3>1, <4>1
        <4> QED
          BY <4>2
      <3>2. CASE \E j \in DOMAIN feed.wire : feed.wire[j].kind = "delta" /\ feed.wire[j].data = d
        <4>1. PICK j \in 1..(N + 1) : feed.wire[j].kind = "delta" /\ feed.wire[j].data = d
          BY <1>3, <3>2
        <4>2. CASE j = 1
          <5>1. "delta" \in unrendered' /\ feed'.delta = d
            BY <1>1, <1>3, <4>1, <4>2
          <5> QED
            BY <2>1, <5>1 DEF DueDeltas
        <4>3. CASE j # 1
          <5>0. j - 1 \in 1..N /\ (j - 1) + 1 = j
            BY <1>3, <4>3
          <5>1. PICK i \in 1..N : i + 1 = j
            BY <5>0
          <5>2. i \in DOMAIN feed'.wire /\ feed'.wire[i] = feed.wire[j]
            BY <1>3, <5>1
          <5> QED
            BY <2>1, <4>1, <5>2 DEF DueDeltas
        <4> QED
          BY <4>2, <4>3
      <3> QED
        BY <2>1, <3>1, <3>2 DEF DueDeltas
    <2>2. ASSUME NEW d \in DueDeltas'
          PROVE  d \in DueDeltas
      <3>1. CASE "delta" \in unrendered' /\ feed'.delta = d
        <4>1. Arriving(feed) = "delta"
          BY <1>3, <1>9, <3>1
        <4>2. feed.wire[1].kind = "delta" /\ feed.wire[1].data = d
          BY <1>3, <3>1, <4>1
        <4> QED
          BY <1>3, <2>2, <4>2 DEF DueDeltas
      <3>2. CASE \E j \in DOMAIN feed'.wire : feed'.wire[j].kind = "delta" /\ feed'.wire[j].data = d
        <4>1. PICK i \in 1..N : feed'.wire[i].kind = "delta" /\ feed'.wire[i].data = d
          BY <1>3, <3>2
        <4>2. i + 1 \in DOMAIN feed.wire /\ feed'.wire[i] = feed.wire[i + 1]
          BY <1>3, <1>5
        <4> QED
          BY <2>2, <4>1, <4>2 DEF DueDeltas
      <3> QED
        BY <2>2, <3>1, <3>2 DEF DueDeltas
    <2> QED
      BY <2>1, <2>2
  <1>12. WireFits'
    <2>1. \A j \in DOMAIN feed'.wire : feed'.wire[j].kind = "delta"
      BY <1>3, <1>5
    <2>2. ASSUME NEW i \in DOMAIN feed'.wire, NEW j \in DOMAIN feed'.wire, i < j
          PROVE  feed'.wire[i].data < feed'.wire[j].data
      <3>1. i \in 1..N /\ j \in 1..N
        BY <1>3
      <3>2. i + 1 \in 1..(N + 1) /\ j + 1 \in 1..(N + 1) /\ i + 1 < j + 1
        BY <1>3, <2>2, <3>1
      <3>3. feed'.wire[i] = feed.wire[i + 1] /\ feed'.wire[j] = feed.wire[j + 1]
        BY <1>3, <3>1
      <3>4. feed.wire[i + 1].kind = "delta"
        BY <2>1, <3>3
      <3> QED
        BY <1>10, <3>2, <3>3, <3>4
    <2>3. ASSUME "delta" \in unrendered', NEW j \in DOMAIN feed'.wire
          PROVE  feed'.delta < feed'.wire[j].data
      <3>1. Arriving(feed) = "delta" /\ feed.wire[1].kind = "delta" /\ feed'.delta = feed.wire[1].data
        BY <1>3, <1>9, <2>3
      <3>2. j \in 1..N /\ 1 \in 1..(N + 1) /\ j + 1 \in 1..(N + 1) /\ 1 < j + 1
        BY <1>3
      <3>3. feed'.wire[j] = feed.wire[j + 1]
        BY <1>3, <3>2
      <3> QED
        BY <1>10, <3>1, <3>2, <3>3
    <2> QED
      BY <1>3, <1>6, <2>1, <2>2, <2>3 DEF WireFits
  <1>13. OnHand' = OnHand /\ PanelLog' = PanelLog
    BY <1>1 DEF OnHand, PanelLog
  <1>14. ListsFit' /\ SnapshotFits'
    BY <1>1, <1>8, <1>13 DEF PanelSound, ListsFit, SnapshotFits
  <1>15. DeltasFit'
    <2>1. feed.stage # "asked" /\ feed'.stage # "asked"
      BY <1>1, <1>3 DEF Deliverable
    <2> QED
      BY <1>1, <1>8, <1>11, <1>13, <2>1 DEF PanelSound, DeltasFit
  <1>16. OlderFits'
    BY <1>1, <1>13 DEF PanelSound, OlderFits, LoadingOlder
  <1> QED
    BY <1>12, <1>14, <1>15, <1>16 DEF PanelSound

\* A render that finds no new delta prepends nothing.
LEMMA SameDelta ==
    ASSUME PanelTyped, ~NewDelta
    PROVE  feed.delta \in {seen, NoData} /\ \A s : Prepended(s) = s
  BY DEF NewDelta, Prepended

\* The controls: the list is paused,
LEMMA PauseSound ==
    ASSUME PanelTyped, PanelSound, PauseFeed, ~broken'
    PROVE  PanelSound'
  <1>1. /\ UNCHANGED <<log, clock, feed, unrendered, cpId, events, older>>
        /\ buffer' = Prepended(buffer) /\ seen' = feed.delta /\ ~NewDelta
    BY DEF PauseFeed
  <1>2. buffer' = buffer /\ seen' \in {seen, NoData}
    BY <1>1, SameDelta
  <1>3. OnHand' = OnHand /\ PanelLog' = PanelLog
    BY <1>1, <1>2 DEF OnHand, PanelLog
  <1>4. ListsFit'
    BY <1>1, <1>2, <1>3 DEF PanelSound, ListsFit
  <1>5. OlderFits'
    BY <1>1, OlderKept
  <1> QED
    BY <1>1, <1>2, <1>3, <1>4, <1>5, HeldShrinks

\* What is shown after a resume is what the panel held, or the newest of it.
LEMMA FlushedFacts ==
    ASSUME PanelTyped, PanelSound
    PROVE  /\ Flushed \in Seq(Int) /\ Falls(Flushed) /\ Range(Flushed) \subseteq OnHand
           /\ \A x \in OnHand, y \in Range(Flushed) : x >= y => x \in Range(Flushed)
           /\ Len(Flushed) < PanelRing => Range(events) \subseteq Range(Flushed)
  <1>1. /\ events \in Seq(Int) /\ buffer \in Seq(Int) /\ PanelRing \in Nat \ {0}
        /\ OnHand \subseteq Int /\ Stamp \subseteq Int /\ Range(events) \subseteq Stamp
        /\ Range(buffer) \subseteq Stamp
    BY PanelNumbers
  <1>2. Len(buffer) <= PanelRing /\ Len(buffer) \in Nat
    BY DEF PanelTyped, PanelTypeOK
  <1>3. /\ Falls(events) /\ Falls(buffer)
        /\ \A b \in Range(buffer), e \in Range(events) : b > e
    BY DEF PanelSound, ListsFit
  <1>4. CASE buffer = <<>>
    <2>1. Range(buffer) = {} /\ Len(buffer) = 0
      BY <1>1, <1>4, ListEntries
    <2>2. OnHand = Range(events)
      BY <1>1, <2>1 DEF OnHand
    <2> QED
      BY <1>1, <1>3, <1>4, <2>2 DEF Flushed
  <1>5. CASE buffer # <<>>
    <2> DEFINE u == buffer \o events
    <2>1. /\ u \in Seq(Int) /\ Range(u) = Range(buffer) \cup Range(events) /\ Falls(u)
          /\ Len(u) = Len(buffer) + Len(events)
      BY <1>1, <1>3, JoinFacts
    <2>2. Flushed = Cut(u, PanelRing)
      BY <1>5 DEF Flushed
    <2>3. \A i \in 1..Len(buffer) : u[i] = buffer[i]
      BY <1>1, LaidTogether
    <2> HIDE DEF u
    <2>4. PICK f : f = Cut(u, PanelRing)
      OBVIOUS
    <2>5. /\ f \in Seq(Int) /\ Falls(f) /\ Range(f) \subseteq Range(u)
          /\ \A x \in Range(u), y \in Range(f) : x >= y => x \in Range(f)
          /\ Len(f) < PanelRing => f = u
      <3>1. u \in Seq(Int) /\ Falls(u) /\ PanelRing \in Nat \ {0} =>
              /\ Cut(u, PanelRing) \in Seq(Int) /\ Falls(Cut(u, PanelRing))
              /\ Range(Cut(u, PanelRing)) \subseteq Range(u)
              /\ \A x \in Range(u), y \in Range(Cut(u, PanelRing)) :
                    x >= y => x \in Range(Cut(u, PanelRing))
              /\ Len(Cut(u, PanelRing)) < PanelRing => Cut(u, PanelRing) = u
        BY CutFacts
      <3> QED
        BY <1>1, <2>1, <2>4, <3>1
    <2>6. CASE Len(buffer) # PanelRing
      <3>1. OnHand = Range(u)
        BY <2>1, <2>6 DEF OnHand
      <3> QED
        BY <2>1, <2>2, <2>4, <2>5, <3>1
    <2>7. CASE Len(buffer) = PanelRing
      <3>1. OnHand = Range(buffer)
        BY <2>7 DEF OnHand
      <3>2. /\ Len(f) = PanelRing /\ \A i \in 1..Len(f) : f[i] = u[i]
        <4>1. /\ \A i \in 1..Len(Cut(u, PanelRing)) : Cut(u, PanelRing)[i] = u[i]
              /\ Len(Cut(u, PanelRing)) = IF Len(u) > PanelRing THEN PanelRing ELSE Len(u)
          BY <1>1, <2>1, CutTyped
        <4>2. Len(events) \in Nat
          BY <1>1
        <4>3. Len(u) >= PanelRing
          BY <1>1, <2>1, <2>7, <4>2
        <4>4. Len(u) \in Nat
          BY <2>1
        <4>5. Len(f) = PanelRing
          BY <1>1, <2>4, <4>1, <4>3, <4>4
        <4> QED
          BY <2>4, <4>1, <4>5
      <3>3. \A i \in 1..Len(buffer) : f[i] = buffer[i]
        BY <2>3, <2>7, <3>2
      <3>4. DOMAIN f = 1..PanelRing /\ DOMAIN buffer = 1..PanelRing
        BY <1>1, <2>5, <2>7, <3>2
      <3>5. Range(f) = Range(buffer)
        BY <2>7, <3>3, <3>4 DEF Range
      <3> QED
        BY <1>1, <2>1, <2>2, <2>4, <2>5, <3>1, <3>2, <3>5
    <2> QED
      BY <2>6, <2>7
  <1> QED
    BY <1>4, <1>5

\* it is resumed,
LEMMA ResumeSound ==
    ASSUME PanelTyped, PanelSound, ResumeFeed, ~broken'
    PROVE  PanelSound'
  <1>1. /\ UNCHANGED <<log, clock, feed, unrendered, cpId, older>>
        /\ buffer' = <<>> /\ events' = Prepended(Flushed) /\ seen' = feed.delta
        /\ ~NewDelta /\ ~Dropped(events')
    BY DEF ResumeFeed
  <1>2. events' = Flushed /\ seen' \in {seen, NoData}
    BY <1>1, SameDelta
  <1>3. /\ Flushed \in Seq(Int) /\ Falls(Flushed) /\ Range(Flushed) \subseteq OnHand
        /\ \A x \in OnHand, y \in Range(Flushed) : x >= y => x \in Range(Flushed)
        /\ Len(Flushed) < PanelRing => Range(events) \subseteq Range(Flushed)
    BY FlushedFacts
  <1>6. PanelRing \in Nat \ {0} /\ PanelLog \subseteq Int
    BY PanelNumbers
  <1>7. OnHand' = Range(Flushed) /\ PanelLog' = PanelLog /\ Range(buffer') = {}
    BY <1>1, <1>2, <1>6, NoEntries DEF OnHand, PanelLog
  <1>8. Solid(Range(Flushed), PanelLog)
    <2>1. Solid(OnHand, PanelLog)
      BY DEF PanelSound, ListsFit
    <2> QED
      BY <1>3, <1>6, <2>1, SolidTop
  <1>9. Falls(buffer') /\ Solid(Range(buffer'), PanelLog)
    BY <1>1, <1>7 DEF Falls, Solid
  <1>10. ListsFit'
    BY <1>2, <1>3, <1>7, <1>8, <1>9 DEF ListsFit
  <1>11. Range(events) \subseteq Range(events') \/ ~Anchored
    <2>1. Len(Flushed) \in Nat
      BY <1>3
    <2> QED
      BY <1>1, <1>2, <1>3, <1>6, <2>1 DEF Dropped
  <1>12. OlderFits'
    BY <1>1, <1>11, OlderKept
  <1>13. OnHand' \subseteq OnHand /\ \A x \in OnHand, y \in OnHand' : x >= y => x \in OnHand'
    BY <1>3, <1>7
  <1> QED
    BY <1>1, <1>2, <1>10, <1>12, <1>13, HeldShrinks

\* it is cleared,
LEMMA ClearSound ==
    ASSUME PanelTyped, PanelSound, ClearList, ~broken'
    PROVE  PanelSound'
  <1>1. /\ UNCHANGED <<log, clock, feed, unrendered, cpId, buffer, seen, older>>
        /\ events' = <<>> /\ ~Anchored
    BY DEF ClearList
  <1>2. Range(events') = {} /\ Falls(events')
    BY <1>1, NoEntries DEF Falls
  <1>3. OnHand' = Range(buffer) /\ PanelLog' = PanelLog /\ Range(buffer) \subseteq OnHand
    BY <1>1, <1>2 DEF OnHand, PanelLog
  <1>4. \A x \in OnHand, y \in Range(buffer) : x >= y => x \in Range(buffer)
    <2> SUFFICES ASSUME NEW x \in Range(events), NEW y \in Range(buffer)
                 PROVE  ~(x >= y)
      BY DEF OnHand
    <2>1. y > x
      BY DEF PanelSound, ListsFit
    <2>2. x \in Int /\ y \in Int
      BY PanelNumbers
    <2> QED
      BY <2>1, <2>2
  <1>5. ListsFit'
    BY <1>1, <1>2, <1>3 DEF PanelSound, ListsFit, Solid
  <1>6. OlderFits'
    BY <1>1, OlderKept
  <1> QED
    BY <1>1, <1>3, <1>4, <1>5, <1>6, HeldShrinks

-----------------------------------------------------------------------------
\* older events are asked for,
LEMMA LoadOlderSound ==
    ASSUME PanelTyped, PanelSound, LoadOlder
    PROVE  PanelSound'
  <1>1. /\ UNCHANGED <<log, clock, feed, unrendered, cpId, events, buffer, seen>>
        /\ older' = [older EXCEPT !.load = [PanelIdle EXCEPT !.stage = "asked", !.to = PageBound]]
        /\ VisibleEvents # {}
    BY DEF LoadOlder, CanLoadOlder
  <1>2. PageBound \in Range(events)
    <2>1. events # <<>>
      BY <1>1 DEF VisibleEvents
    <2>2. events \in Seq(Int) /\ Falls(events)
      BY PanelNumbers DEF PanelSound, ListsFit
    <2>3. events[Len(events)] \in Range(events)
      BY <2>1, <2>2, FallingEnds
    <2> QED
      BY <2>3 DEF PageBound, PanelSound, OlderFits
  <1>3. /\ older'.cursor = older.cursor /\ older'.load.stage = "asked"
        /\ older'.load.to = PageBound
    BY <1>1 DEF PanelTyped, PanelTypeOK, PanelIdle
  <1>4. OlderFits'
    BY <1>1, <1>2, <1>3 DEF PanelSound, OlderFits, LoadingOlder
  <1> QED
    BY <1>1, <1>4, AllStays

\* the server reads a page of them,
LEMMA ServeOlderSound ==
    ASSUME PanelTyped, PanelSound, ServeOlder
    PROVE  PanelSound'
  <1> DEFINE S == {e \in PanelLog : e < older.load.to}
  <1>1. /\ UNCHANGED <<log, clock, feed, unrendered, cpId, events, buffer, seen>>
        /\ older.load.stage = "asked"
        /\ older' = [older EXCEPT !.load.stage = "answered",
                                  !.load.page = SearchEvents(PanelLog, older.load.to)]
    BY DEF ServeOlder, PanelLog
  <1>2. /\ older'.cursor = older.cursor /\ older'.load.to = older.load.to
        /\ older'.load.stage = "answered"
        /\ older'.load.page = SearchEvents(PanelLog, older.load.to)
    BY <1>1 DEF PanelTyped, PanelTypeOK
  <1>3. PICK page : page = SearchEvents(PanelLog, older.load.to)
    OBVIOUS
  <1>4. /\ Range(page) \subseteq S
        /\ \A x \in S, y \in Range(page) : x >= y => x \in Range(page)
    <2>1. S \in SUBSET Stamp /\ PageLimit \in Nat \ {0}
      BY PanelNumbers, EventPanelAssumption
    <2>2. page = Cut(Descending(S), PageLimit)
      BY <1>3 DEF SearchEvents
    <2> HIDE DEF S
    <2> QED
      BY <2>1, <2>2, NewestRows
  <1>5. PanelLog' = PanelLog /\ PanelLog \subseteq Int
    BY <1>1, PanelNumbers DEF PanelLog
  <1>6. ASSUME NEW p \in Range(page), NEW e \in PanelLog, p < e, e < older.load.to
        PROVE  e \in Range(page)
    <2>1. e \in S /\ p \in Int /\ e \in Int
      BY <1>4, <1>5, <1>6
    <2>2. e >= p
      BY <1>6, <2>1
    <2> QED
      BY <1>4, <2>1, <2>2
  <1>7. Range(page) \subseteq PanelLog /\ \A p \in Range(page) : p < older.load.to
    BY <1>4
  <1>8. /\ older.cursor # NoStamp => older.cursor \in Range(events)
        /\ older.load.to \in Range(events)
    BY <1>1 DEF PanelSound, OlderFits, LoadingOlder
  <1> HIDE DEF S
  <1>9. OlderFits'
    BY <1>1, <1>2, <1>3, <1>5, <1>6, <1>7, <1>8 DEF OlderFits
  <1> QED
    BY <1>1, <1>9, AllStays

\* or fails to,
LEMMA FailOlderSound ==
    ASSUME PanelTyped, PanelSound, FailOlder
    PROVE  PanelSound'
  <1>1. /\ UNCHANGED <<log, clock, feed, unrendered, cpId, events, buffer, seen>>
        /\ older' = [older EXCEPT !.load = PanelIdle]
    BY DEF FailOlder
  <1>2. older'.cursor = older.cursor /\ older'.load.stage = "idle"
    BY <1>1 DEF PanelTyped, PanelTypeOK, PanelIdle
  <1>3. OlderFits'
    BY <1>1, <1>2 DEF PanelSound, OlderFits, LoadingOlder
  <1> QED
    BY <1>1, <1>3, AllStays

\* another filter is chosen,
LEMMA SetFilterSound ==
    ASSUME PanelSound, NEW f \in LogFilter, SetFilter(f)
    PROVE  PanelSound'
  <1>1. UNCHANGED <<log, clock, feed, unrendered, cpId, events, buffer, seen, older>>
    BY DEF SetFilter
  <1>2. OlderFits'
    BY <1>1 DEF PanelSound, OlderFits, LoadingOlder, PanelLog
  <1> QED
    BY <1>1, <1>2, AllStays

\* and the page of older events arrives.
LEMMA ArriveSound ==
    ASSUME PanelTyped, PanelSound, ArriveOlder
    PROVE  PanelSound'
  <1> DEFINE page == older.load.page
             to == older.load.to
             P == Range(page)
  <1>0. /\ UNCHANGED <<log, clock, feed, unrendered, cpId, buffer, seen>>
        /\ older.load.stage = "answered"
    BY DEF ArriveOlder
  <1>1. CASE page = <<>>
    <2>1. /\ UNCHANGED <<log, clock, feed, unrendered, cpId, events, buffer, seen>>
          /\ older' = [older EXCEPT !.load = PanelIdle]
      BY <1>0, <1>1 DEF ArriveOlder
    <2>2. older'.cursor = older.cursor /\ older'.load.stage = "idle"
      BY <2>1 DEF PanelTyped, PanelTypeOK, PanelIdle
    <2>3. OlderFits'
      BY <2>1, <2>2 DEF PanelSound, OlderFits, LoadingOlder
    <2> QED
      BY <2>1, <2>3, AllStays
  <1>2. CASE page # <<>>
    <2>1. events' = Merged(events, page) /\ older' = [cursor |-> NextCursor(page), load |-> PanelIdle]
      BY <1>2 DEF ArriveOlder
    <2>2. /\ P \subseteq PanelLog /\ \A p \in P : p < to
          /\ \A p \in P, e \in PanelLog : p < e /\ e < to => e \in P
          /\ to \in Range(events)
      BY <1>0 DEF PanelSound, OlderFits, LoadingOlder
    <2>3. /\ PanelLog \subseteq Int /\ OnHand \subseteq Int /\ Range(events) \subseteq Stamp
          /\ events \in Seq(Int) /\ Stamp \subseteq Int /\ page \in Seq(Stamp)
          /\ Range(buffer) \subseteq Stamp
      BY PanelNumbers DEF PanelTyped, PanelTypeOK
    <2>4. page \in Seq(Int)
      <3>1. Range(page) \subseteq Int
        BY <2>2, <2>3
      <3> QED
        BY <2>3, <3>1, Retyped
    <2>5. /\ Falls(events) /\ Falls(buffer)
          /\ Solid(Range(events), PanelLog) /\ Solid(Range(buffer), PanelLog)
          /\ Solid(OnHand, PanelLog)
          /\ \A b \in Range(buffer), e \in Range(events) : b > e
      BY DEF PanelSound, ListsFit
    <2>6. events' \in Seq(Int) /\ Range(events') = Range(events) \cup P /\ Falls(events')
      BY <2>1, <2>3, <2>4, <2>5, MergedFacts
    <2>7. NextCursor(page) \in P \cup {NoStamp}
      <3>1. page # <<>> => page[Len(page)] \in Range(page)
        <4>1. Len(page) \in Nat /\ DOMAIN page = 1..Len(page) /\ (page = <<>> <=> Len(page) = 0)
          BY <2>4, ListEntries
        <4>2. page # <<>> => Len(page) \in DOMAIN page
          BY <4>1
        <4> QED
          BY <4>2 DEF Range
      <3> QED
        BY <1>2, <3>1 DEF NextCursor
    <2> HIDE DEF page, to, P
    <2>8. Solid(Range(events'), PanelLog)
      <3>1. Solid(Range(events) \cup P, PanelLog)
        BY <2>2, <2>3, <2>5, SolidBelow
      <3> QED
        BY <2>6, <3>1
    <2>9. PanelLog' = PanelLog /\ DueRows' = DueRows /\ DueDeltas' = DueDeltas
          /\ SnapshotDue' = SnapshotDue /\ WireFits'
      BY <1>0, DueStays DEF PanelLog, PanelSound
    <2>10. OlderFits'
      <3>1. older'.cursor = NextCursor(page) /\ older'.load.stage = "idle"
        BY <2>1 DEF PanelIdle
      <3> QED
        BY <2>6, <2>7, <3>1 DEF OlderFits, LoadingOlder
    <2>11. \A b \in Range(buffer), e \in Range(events') : b > e
      <3> SUFFICES ASSUME NEW b \in Range(buffer), NEW p \in P
                   PROVE  b > p
        BY <2>5, <2>6
      <3>1. b > to /\ p < to /\ b \in Int /\ p \in Int /\ to \in Int
        BY <2>2, <2>3, <2>5
      <3> QED
        BY <3>1
    <2>12. CASE Len(buffer) = PanelRing
      <3>1. OnHand' = OnHand
        BY <1>0, <2>12 DEF OnHand
      <3>2. ListsFit'
        BY <1>0, <2>5, <2>6, <2>8, <2>9, <2>11, <3>1 DEF ListsFit
      <3>3. SnapshotFits' /\ DeltasFit'
        BY <1>0, <2>9, <3>1 DEF PanelSound, SnapshotFits, DeltasFit
      <3> QED
        BY <2>9, <2>10, <3>2, <3>3 DEF PanelSound
    <2>13. CASE Len(buffer) # PanelRing
      <3>1. OnHand' = OnHand \cup P /\ to \in OnHand
        BY <1>0, <2>2, <2>6, <2>13 DEF OnHand
      <3>2. Solid(OnHand', PanelLog)
        <4>1. Solid(OnHand \cup P, PanelLog)
          BY <2>2, <2>3, <2>5, <3>1, SolidBelow
        <4> QED
          BY <3>1, <4>1
      <3>3. ListsFit'
        BY <1>0, <2>5, <2>6, <2>8, <2>9, <2>11, <3>2 DEF ListsFit
      <3>4. SnapshotFits'
        <4> SUFFICES ASSUME SnapshotDue
                     PROVE  /\ Solid(DueRows, PanelLog)
                            /\ \A k \in OnHand \cup P : \E r \in DueRows : r >= k
                            /\ \A k \in OnHand \cup P, r \in DueRows, e \in PanelLog :
                                  k < e /\ e < r => e \in OnHand \cup P \cup DueRows
          BY <2>9, <3>1 DEF SnapshotFits
        <4>1. /\ Solid(DueRows, PanelLog)
              /\ \A k \in OnHand : \E r \in DueRows : r >= k
              /\ \A k \in OnHand, r \in DueRows, e \in PanelLog :
                    k < e /\ e < r => e \in OnHand \cup DueRows
          BY DEF PanelSound, SnapshotFits
        <4>2. ASSUME NEW k \in P
              PROVE  \E r \in DueRows : r >= k
          <5>1. PICK r \in DueRows : r >= to
            BY <3>1, <4>1
          <5>2. r \in Int /\ k \in Int /\ to \in Int /\ k < to
            BY <2>2, <2>3, <3>1, <4>1 DEF Solid
          <5>3. r >= k
            BY <5>1, <5>2
          <5> QED
            BY <5>3
        <4>3. ASSUME NEW k \in P, NEW r \in DueRows, NEW e \in PanelLog, k < e, e < r
              PROVE  e \in OnHand \cup P \cup DueRows
          <5>1. e \in Int /\ to \in Int
            BY <2>3, <3>1
          <5>2. CASE e < to
            BY <2>2, <4>3, <5>2
          <5>3. CASE e > to
            <6>1. to < e
              BY <5>1, <5>3
            <6> QED
              BY <3>1, <4>1, <4>3, <6>1
          <5>4. CASE e = to
            BY <3>1, <5>4
          <5> QED
            BY <5>1, <5>2, <5>3, <5>4
        <4> QED
          BY <4>1, <4>2, <4>3
      <3>5. DeltasFit'
        <4>1. /\ DueDeltas \subseteq PanelLog
              /\ \A c \in DueDeltas, e \in PanelLog : e > c => e \in DueDeltas
              /\ \A c \in DueDeltas, b \in OnHand \cup DueRows : b < c
              /\ feed.stage # "asked" /\ OnHand \cup DueRows # {} =>
                    \A e \in PanelLog : (\A b \in OnHand \cup DueRows : b < e) => e \in DueDeltas
              /\ seen # NoData => seen <= clock /\ \A c \in DueDeltas : seen < c
          BY DEF PanelSound, DeltasFit
        <4>2. ASSUME NEW c \in DueDeltas, NEW b \in P
              PROVE  b < c
          <5>1. to < c /\ b < to
            BY <2>2, <3>1, <4>1
          <5>2. c \in Int /\ b \in Int /\ to \in Int
            BY <2>2, <2>3, <3>1, <4>1
          <5> QED
            BY <5>1, <5>2
        <4>3. feed.stage # "asked" => \A e \in PanelLog :
                (\A b \in OnHand' \cup DueRows : b < e) => e \in DueDeltas
          BY <3>1, <4>1
        <4> QED
          BY <1>0, <2>9, <3>1, <4>1, <4>2, <4>3 DEF DeltasFit
      <3> QED
        BY <2>9, <2>10, <3>3, <3>4, <3>5 DEF PanelSound
    <2> QED
      BY <2>12, <2>13
  <1> QED
    BY <1>1, <1>2

-----------------------------------------------------------------------------
(* React renders. *)

\* The rows of a snapshot are not older than a buffer.
LEMMA RowsOnTop ==
    ASSUME PanelTyped, PanelSound, "snapshot" \in unrendered, feed.snapshot # <<>>,
           buffer # <<>>
    PROVE  \E y \in Range(AfterSnapshot), b \in Range(buffer) : y >= b
  <1>0. /\ events \in Seq(Int) /\ buffer \in Seq(Int) /\ PanelLog \subseteq Int /\ OnHand \subseteq Int
        /\ PanelRing \in Nat \ {0} /\ Stamp \subseteq Int
    BY PanelNumbers
  <1>1. ~SnapshotSent
    BY DEF PanelSound, WireFits
  <1>2. SnapshotDue /\ DueRows = Range(feed.snapshot)
    BY <1>1 DEF SnapshotDue, DueRows
  <1>3. /\ Solid(DueRows, PanelLog)
        /\ \A k \in OnHand : \E r \in DueRows : r >= k
    BY <1>2 DEF PanelSound, SnapshotFits
  <1>4. feed.snapshot \in Seq(Int)
    <2>1. feed.snapshot \in Seq(Stamp) /\ Range(feed.snapshot) \subseteq Int
      BY <1>0, <1>2, <1>3 DEF PanelTyped, Heard, Solid
    <2> QED
      BY <2>1, Retyped
  <1>5. PICK u : u = Merged(events, feed.snapshot)
    OBVIOUS
  <1>6. u \in Seq(Int) /\ Falls(u) /\ Range(u) = Range(events) \cup Range(feed.snapshot)
    BY <1>0, <1>4, <1>5, MergedFacts DEF PanelSound, ListsFit
  <1>7. AfterSnapshot = Cut(u, PanelRing)
    BY <1>5 DEF AfterSnapshot
  <1>8. \A x \in Range(u) : \E y \in Range(AfterSnapshot) : y >= x
    <2>1. u \in Seq(Int) /\ Falls(u) /\ PanelRing \in Nat \ {0} =>
            \A x \in Range(u) : \E y \in Range(Cut(u, PanelRing)) : y >= x
      BY CutFacts
    <2> QED
      BY <1>0, <1>6, <1>7, <2>1
  <1>9. PICK b \in Range(buffer) : TRUE
    BY <1>0, ListEntries
  <1>10. PICK r \in DueRows : r >= b
    BY <1>3, <1>9 DEF OnHand
  <1>11. PICK y \in Range(AfterSnapshot) : y >= r
    BY <1>2, <1>6, <1>8, <1>10
  <1>12. b \in Int /\ r \in Int
    BY <1>0, <1>3, <1>9, <1>10 DEF OnHand, Solid
  <1>13. y \in Int
    <2>1. AfterSnapshot \in Seq(Stamp)
      BY AfterTyped
    <2> QED
      BY <1>0, <1>11, <2>1, ListEntries
  <1>14. y >= b
    BY <1>10, <1>11, <1>12, <1>13
  <1> QED
    BY <1>14

\* Half of a render: the snapshot is merged.
Base == IF Len(buffer) = PanelRing THEN Range(buffer) ELSE Range(buffer) \cup Range(AfterSnapshot)

\* A render that finds a new snapshot merges it with the list.
LEMMA SnapshotRendered ==
    ASSUME PanelTyped, PanelSound, unrendered # {},
           AfterSnapshot # events => buffer = <<>>
    PROVE  /\ AfterSnapshot \in Seq(Int) /\ Falls(AfterSnapshot)
           /\ Solid(Range(AfterSnapshot), PanelLog) /\ Solid(Base, PanelLog)
           /\ \A b \in Range(buffer), e \in Range(AfterSnapshot) : b > e
           /\ Base \subseteq OnHand \cup DueRows
           /\ \A x \in OnHand \cup DueRows : \E y \in Base : y >= x
           /\ AfterSnapshot = events \/ Len(AfterSnapshot) < PanelRing
                 => Range(events) \subseteq Range(AfterSnapshot)
  <1>0. /\ events \in Seq(Int) /\ buffer \in Seq(Int) /\ PanelLog \subseteq Int /\ OnHand \subseteq Int
        /\ PanelRing \in Nat \ {0} /\ Stamp \subseteq Int
    BY PanelNumbers
  <1>1. ~SnapshotSent
    BY DEF PanelSound, WireFits
  <1>2. /\ Falls(events) /\ Falls(buffer)
        /\ Solid(Range(events), PanelLog) /\ Solid(Range(buffer), PanelLog)
        /\ Solid(OnHand, PanelLog)
        /\ \A b \in Range(buffer), e \in Range(events) : b > e
    BY DEF PanelSound, ListsFit
  <1>3. SnapshotDue =>
          /\ Solid(DueRows, PanelLog)
          /\ \A k \in OnHand : \E r \in DueRows : r >= k
          /\ \A k \in OnHand, r \in DueRows, e \in PanelLog :
                k < e /\ e < r => e \in OnHand \cup DueRows
    BY DEF PanelSound, SnapshotFits
  <1>4. CASE "snapshot" \in unrendered /\ feed.snapshot # <<>> /\ buffer = <<>>
    <2>1. SnapshotDue /\ DueRows = Range(feed.snapshot)
      BY <1>1, <1>4 DEF SnapshotDue, DueRows
    <2>2. Range(buffer) = {} /\ Len(buffer) = 0
      BY <1>4, NoEntries
    <2>3. OnHand = Range(events) /\ Base = Range(AfterSnapshot)
      BY <1>0, <2>2 DEF OnHand, Base
    <2>4. feed.snapshot \in Seq(Int)
      <3>1. feed.snapshot \in Seq(Stamp) /\ Range(feed.snapshot) \subseteq Int
        BY <1>0, <1>3, <1>4, <2>1 DEF PanelTyped, Heard, Solid
      <3> QED
        BY <3>1, Retyped
    <2>5. AfterSnapshot = Cut(Merged(events, feed.snapshot), PanelRing)
      BY <1>4 DEF AfterSnapshot
    <2>6. PICK rows, m : /\ rows = feed.snapshot /\ m = Cut(Merged(events, rows), PanelRing)
                         /\ AfterSnapshot = m
      BY <2>5
    <2>7. /\ rows \in Seq(Int) /\ events \in Seq(Int) /\ Falls(events)
          /\ Solid(Range(rows), PanelLog) /\ Solid(Range(events), PanelLog)
          /\ PanelLog \in SUBSET Int /\ PanelRing \in Nat \ {0}
          /\ \A x \in Range(events) : \E y \in Range(rows) : y >= x
          /\ \A x \in Range(events), y \in Range(rows), e \in PanelLog :
                x < e /\ e < y => e \in Range(events) \cup Range(rows)
      BY <1>0, <1>2, <1>3, <2>1, <2>3, <2>4, <2>6
    <2>8. /\ m \in Seq(Int) /\ Falls(m) /\ Solid(Range(m), PanelLog)
          /\ Range(m) \subseteq Range(events) \cup Range(rows)
          /\ \A x \in Range(events) \cup Range(rows) : \E y \in Range(m) : y >= x
          /\ Len(m) < PanelRing => Range(m) = Range(events) \cup Range(rows)
      <3>1. PICK T, s, n : T = PanelLog /\ s = events /\ n = PanelRing
        OBVIOUS
      <3>2. /\ T \in SUBSET Int /\ s \in Seq(Int) /\ rows \in Seq(Int) /\ Falls(s)
            /\ Solid(Range(s), T) /\ Solid(Range(rows), T)
        BY <2>7, <3>1
      <3>3. Reaches(Range(rows), Range(s), T)
        BY <2>7, <3>1 DEF Reaches
      <3>5. n \in Nat \ {0} /\ m = Cut(Merged(s, rows), n)
        BY <2>6, <2>7, <3>1
      <3>6. NewestOfBoth(m, s, rows, T, n)
        BY <3>2, <3>3, <3>5, MergedTop
      <3> QED
        BY <3>1, <3>6 DEF NewestOfBoth
    <2> QED
      BY <2>1, <2>2, <2>3, <2>6, <2>8
  <1>5. CASE ~("snapshot" \in unrendered /\ feed.snapshot # <<>>)
    <2>1. AfterSnapshot = events
      BY <1>5 DEF AfterSnapshot
    <2>2. DueRows = {}
      BY <1>1, <1>5, NoEntries DEF DueRows
    <2>3. Base = OnHand
      BY <2>1 DEF Base, OnHand
    <2>4. \A x \in OnHand : x >= x
      BY <1>0
    <2> QED
      BY <1>0, <1>2, <2>1, <2>2, <2>3, <2>4
  <1>6. CASE AfterSnapshot = events /\ "snapshot" \in unrendered /\ feed.snapshot # <<>> /\ buffer # <<>>
    <2>1. PICK y \in Range(events), b \in Range(buffer) : y >= b
      BY <1>6, RowsOnTop
    <2>2. b > y /\ b \in Int /\ y \in Int
      BY <1>0, <1>2, <2>1, PanelNumbers
    <2> QED
      BY <2>1, <2>2
  <1> QED
    BY <1>4, <1>5, <1>6

\* A render looks at the snapshot, and then at the delta.
LEMMA RenderSound ==
    ASSUME PanelTyped, PanelTyped', PanelSound, Render, ~broken'
    PROVE  PanelSound'
  <1> DEFINE d == feed.delta
             A == AfterSnapshot
  <1>0. /\ UNCHANGED <<log, clock, feed, cpId, paused, older>>
        /\ unrendered # {} /\ unrendered' = {} /\ ~Damaged(events')
        /\ "delta" \notin unrendered => events' = A /\ UNCHANGED <<buffer, seen>>
        /\ "delta" \in unrendered =>
              /\ events' = IF paused THEN A ELSE Prepended(A)
              /\ buffer' = IF paused THEN Prepended(buffer) ELSE buffer
              /\ seen' = d
    BY DEF Render, RenderedEvents
  <1>1. /\ PanelLog \subseteq Stamp /\ PanelLog \subseteq Int /\ OnHand \subseteq Int
        /\ Stamp \subseteq Int /\ clock \in Int /\ \A e \in PanelLog : e <= clock
        /\ events \in Seq(Int) /\ buffer \in Seq(Int) /\ PanelRing \in Nat \ {0}
        /\ NoData \notin Stamp /\ events' \in Seq(Stamp) /\ Range(buffer) \subseteq Stamp
    BY PanelNumbers DEF PanelTyped, PanelTypeOK, Stamp
  <1>2. ~paused => buffer = <<>>
    BY DEF PanelTyped, PanelTypeOK
  <1>3. A # events => buffer = <<>>
    <2> SUFFICES ASSUME A # events, buffer # <<>>
                 PROVE  FALSE
      OBVIOUS
    <2>1. "snapshot" \in unrendered /\ feed.snapshot # <<>>
      BY DEF AfterSnapshot
    <2>2. PICK y \in Range(A), b \in Range(buffer) : y >= b
      BY <2>1, RowsOnTop
    <2>3. events' = A
      BY <1>0, <1>2
    <2>4. \E k \in DOMAIN events', n \in DOMAIN buffer : events'[k] >= buffer[n]
      BY <2>2, <2>3 DEF Range
    <2> QED
      BY <1>0, <2>4 DEF Damaged
  <1>4. /\ A \in Seq(Int) /\ Falls(A)
        /\ Solid(Range(A), PanelLog) /\ Solid(Base, PanelLog)
        /\ \A b \in Range(buffer), e \in Range(A) : b > e
        /\ Base \subseteq OnHand \cup DueRows
        /\ \A x \in OnHand \cup DueRows : \E y \in Base : y >= x
        /\ A = events \/ Len(A) < PanelRing => Range(events) \subseteq Range(A)
    BY <1>0, <1>3, SnapshotRendered
  <1>5. Falls(buffer) /\ Solid(Range(buffer), PanelLog)
    BY DEF PanelSound, ListsFit
  <1>6. /\ DueDeltas \subseteq PanelLog
        /\ \A c \in DueDeltas, e \in PanelLog : e > c => e \in DueDeltas
        /\ \A c \in DueDeltas, b \in OnHand \cup DueRows : b < c
        /\ feed.stage # "asked" /\ OnHand \cup DueRows # {} =>
              \A e \in PanelLog : (\A b \in OnHand \cup DueRows : b < e) => e \in DueDeltas
        /\ seen # NoData => seen <= clock /\ \A c \in DueDeltas : seen < c
    BY DEF PanelSound, DeltasFit
  <1>7. /\ ~SnapshotSent /\ ~SnapshotSent' /\ ~SnapshotDue' /\ DueRows' = {} /\ feed.stage # "asked"
        /\ SnapshotFits'
    <2>1. ~SnapshotSent /\ feed.stage # "asked"
      BY <1>0 DEF PanelSound, WireFits
    <2>2. ~SnapshotSent' /\ ~SnapshotDue' /\ DueRows' = {}
      BY <1>0, <2>1 DEF SnapshotSent, SnapshotDue, DueRows
    <2> QED
      BY <2>1, <2>2 DEF SnapshotFits
  <1>8. WireFits'
    BY <1>0, <1>7 DEF PanelSound, WireFits
  <1>9. PanelLog' = PanelLog
    BY <1>0 DEF PanelLog
  <1>10. DueRows \subseteq PanelLog
    <2>1. SnapshotDue => DueRows \subseteq PanelLog
      BY DEF PanelSound, SnapshotFits, Solid
    <2> QED
      BY <2>1 DEF SnapshotDue, DueRows
  <1>11. OnHand \cup DueRows # {} =>
             \A e \in PanelLog : (\A b \in Base : b < e) => e \in DueDeltas
    <2> SUFFICES ASSUME OnHand \cup DueRows # {}, NEW e \in PanelLog, \A b \in Base : b < e
                 PROVE  e \in DueDeltas
      OBVIOUS
    <2>1. ASSUME NEW x \in OnHand \cup DueRows
          PROVE  x < e
      <3>1. PICK y \in Base : y >= x
        BY <1>4
      <3>2. y < e /\ y \in Int /\ x \in Int /\ e \in Int
        BY <1>1, <1>4, <1>10
      <3> QED
        BY <3>1, <3>2
    <2> QED
      BY <1>6, <1>7, <2>1
  <1>12. Base # {} => OnHand \cup DueRows # {}
    BY <1>4
  <1> HIDE DEF A, d
  <1>13. CASE "delta" \notin unrendered
    <2>1. events' = A /\ buffer' = buffer /\ seen' = seen
      BY <1>0, <1>13
    <2>2. OnHand' = Base /\ DueDeltas' = DueDeltas
      BY <1>0, <1>13, <2>1 DEF OnHand, Base, DueDeltas, A
    <2>3. ListsFit'
      BY <1>4, <1>5, <1>9, <2>1, <2>2 DEF ListsFit
    <2>4. DeltasFit'
      BY <1>0, <1>4, <1>6, <1>7, <1>9, <1>11, <1>12, <2>1, <2>2 DEF DeltasFit
    <2>5. Range(events) \subseteq Range(events') \/ ~Anchored
      <3>1. Len(A) \in Nat
        BY <1>4
      <3> QED
        BY <1>0, <1>1, <1>4, <2>1, <3>1 DEF Damaged, Dropped
    <2>6. OlderFits'
      BY <1>0, <2>5, OlderKept
    <2> QED
      BY <1>7, <1>8, <2>3, <2>4, <2>6 DEF PanelSound
  <1>14. CASE "delta" \in unrendered
    <2>1. d \in Stamp /\ d \in DueDeltas /\ d \in PanelLog /\ d \in Int
      <3>1. d \in Stamp
        BY <1>14 DEF PanelTyped, Heard, d
      <3>2. d \in DueDeltas
        BY <1>14, <3>1 DEF DueDeltas, d
      <3> QED
        BY <1>1, <1>6, <3>1, <3>2
    <2>2. NewDelta
      <3>1. d # NoData
        BY <1>1, <2>1
      <3>2. d # seen
        <4>1. CASE seen = NoData
          BY <3>1, <4>1
        <4>2. CASE seen # NoData
          BY <1>6, <2>1, <4>2
        <4> QED
          BY <4>1, <4>2
      <3> QED
        BY <3>1, <3>2 DEF NewDelta, d
    <2>3. \A x \in Base : x < d
      BY <1>4, <1>6, <2>1
    <2>4. \A c \in DueDeltas : c # d => c > d
      <3> SUFFICES ASSUME NEW c \in DueDeltas, c # d
                   PROVE  c > d
        OBVIOUS
      <3>1. PICK j \in DOMAIN feed.wire : feed.wire[j].kind = "delta" /\ feed.wire[j].data = c
        BY <1>14 DEF DueDeltas, d
      <3>2. d < c
        BY <1>14, <3>1 DEF PanelSound, WireFits, d
      <3> QED
        BY <1>1, <1>6, <2>1, <3>2
    <2>5. DueDeltas' = DueDeltas \ {d}
      <3>1. ASSUME NEW c \in DueDeltas', c = d
            PROVE  FALSE
        <4>1. PICK j \in DOMAIN feed.wire : feed.wire[j].kind = "delta" /\ feed.wire[j].data = c
          BY <1>0 DEF DueDeltas
        <4>2. d < d
          BY <1>14, <3>1, <4>1 DEF PanelSound, WireFits, d
        <4> QED
          BY <2>1, <4>2
      <3>2. DueDeltas' \subseteq DueDeltas
        BY <1>0 DEF DueDeltas
      <3>3. DueDeltas \ {d} \subseteq DueDeltas'
        BY <1>0 DEF DueDeltas, d
      <3> QED
        BY <3>1, <3>2, <3>3
    <2>6. Base # {} => \A e \in PanelLog : (\A b \in Base : b < e) => e >= d
      <3> SUFFICES ASSUME Base # {}, NEW e \in PanelLog, \A b \in Base : b < e
                   PROVE  e >= d
        OBVIOUS
      <3>1. e \in DueDeltas /\ e \in Int
        BY <1>1, <1>11, <1>12
      <3> QED
        BY <2>1, <2>4, <3>1
    <2>7. seen' = d /\ d <= clock
      BY <1>0, <1>1, <1>14, <2>1
    \* The rest is what the panel holds then: the delta is its newest.
    <2>8. ASSUME ListsFit', OnHand' \subseteq Base \cup {d}, d \in OnHand',
                 Range(events) \subseteq Range(events') \/ ~Anchored
          PROVE  PanelSound'
      <3>1. OlderFits'
        BY <1>0, <2>8, OlderKept
      <3>2. ASSUME NEW c \in DueDeltas'
            PROVE  d < c /\ c \in DueDeltas /\ c \in PanelLog /\ c \in Int
        <4>1. c \in DueDeltas /\ c # d
          BY <2>5
        <4>2. c > d /\ c \in PanelLog /\ c \in Int
          BY <1>1, <1>6, <2>4, <4>1
        <4> QED
          BY <2>1, <4>1, <4>2
      <3>3. ASSUME NEW c \in DueDeltas', NEW e \in PanelLog, e > c
            PROVE  e \in DueDeltas'
        <4>1. e \in DueDeltas /\ e \in Int
          BY <1>1, <1>6, <3>2, <3>3
        <4>2. e # d
          BY <2>1, <3>2, <3>3, <4>1
        <4> QED
          BY <2>5, <4>1, <4>2
      <3>4. ASSUME NEW c \in DueDeltas', NEW b \in OnHand'
            PROVE  b < c
        <4>1. CASE b = d
          BY <3>2, <4>1
        <4>2. CASE b \in Base
          BY <1>4, <1>6, <3>2, <4>2
        <4> QED
          BY <2>8, <4>1, <4>2
      <3>5. ASSUME NEW e \in PanelLog, \A b \in OnHand' : b < e
            PROVE  e \in DueDeltas'
        <4>1. d < e /\ e \in Int
          BY <1>1, <2>8, <3>5
        <4>2. e > d /\ e # d
          BY <2>1, <4>1
        <4>3. e \in DueDeltas
          BY <1>6, <2>1, <4>2
        <4> QED
          BY <2>5, <4>2, <4>3
      <3>6. DeltasFit'
        BY <1>0, <1>7, <1>9, <2>7, <3>2, <3>3, <3>4, <3>5 DEF DeltasFit
      <3> QED
        BY <1>7, <1>8, <2>8, <3>1, <3>6 DEF PanelSound
    <2>9. CASE ~paused
      <3>1. buffer = <<>> /\ buffer' = <<>> /\ events' = Cut(<<d>> \o A, PanelRing)
        BY <1>0, <1>2, <1>14, <2>2, <2>9 DEF Prepended, d
      <3>2. Range(buffer) = {} /\ Len(buffer) = 0 /\ Falls(buffer)
        BY <1>5, <3>1, NoEntries
      <3>3. Base = Range(A)
        BY <1>1, <3>2 DEF Base, A
      <3>4. PICK m : m = Cut(<<d>> \o A, PanelRing) /\ events' = m
        BY <3>1
      <3>5. /\ m \in Seq(Int) /\ Falls(m) /\ Solid(Range(m), PanelLog)
            /\ d \in Range(m) /\ Range(m) \subseteq Range(A) \cup {d} /\ Len(m) <= PanelRing
            /\ Len(m) < PanelRing => Range(m) = Range(A) \cup {d} /\ Len(A) < PanelRing
        <4>1. PICK T, n : T = PanelLog /\ n = PanelRing
          OBVIOUS
        <4>2. T \in SUBSET Int /\ n \in Nat \ {0} /\ d \in T
          BY <1>1, <2>1, <4>1
        <4>3. A \in Seq(Int) /\ Falls(A) /\ Solid(Range(A), T)
          BY <1>1, <1>4, <1>5, <4>1
        <4>4. ComesNext(d, Range(A), T)
          BY <2>3, <2>6, <3>3, <4>1 DEF ComesNext
        <4>5. m = Cut(<<d>> \o A, n)
          BY <3>4, <4>1
        <4>6. ToppedBy(m, A, d, T, n)
          BY <4>2, <4>3, <4>4, <4>5, Topped
        <4> QED
          BY <4>1, <4>6 DEF ToppedBy
      <3>6. OnHand' = Range(m)
        BY <1>1, <3>1, <3>2, <3>4 DEF OnHand
      <3>7. ListsFit'
        BY <1>5, <1>9, <3>1, <3>2, <3>4, <3>5, <3>6 DEF ListsFit
      <3>8. Range(events) \subseteq Range(events') \/ ~Anchored
        <4>1. Len(m) \in Nat
          BY <3>5
        <4>2. CASE Len(m) < PanelRing
          BY <1>4, <3>4, <3>5, <4>2
        <4>3. CASE m = events
          BY <3>4, <4>3
        <4>4. CASE ~(Len(m) < PanelRing) /\ m # events
          <5>1. Len(m) >= PanelRing
            BY <1>1, <4>1, <4>4
          <5> QED
            BY <1>0, <3>4, <4>4, <5>1 DEF Damaged, Dropped
        <4> QED
          BY <4>2, <4>3, <4>4
      <3> QED
        BY <2>8, <3>3, <3>5, <3>6, <3>7, <3>8
    <2>10. CASE paused
      <3>1. events' = A /\ buffer' = Cut(<<d>> \o buffer, PanelRing)
        BY <1>0, <1>14, <2>2, <2>10 DEF Prepended, d
      <3>2. PICK m : m = Cut(<<d>> \o buffer, PanelRing) /\ buffer' = m
        BY <3>1
      <3>3. Range(buffer) \subseteq Base /\ Base \subseteq Range(buffer) \cup Range(A)
        BY DEF Base, A
      <3>4. Range(buffer) # {} => \A e \in PanelLog : (\A x \in Range(buffer) : x < e) => e >= d
        <4> SUFFICES ASSUME NEW b \in Range(buffer), NEW e \in PanelLog,
                            \A x \in Range(buffer) : x < e
                     PROVE  e >= d
          OBVIOUS
        <4>1. ASSUME NEW x \in Range(A)
              PROVE  x < e
          <5>1. x < b /\ b < e /\ x \in Int /\ b \in Int /\ e \in Int
            BY <1>1, <1>4, ListEntries
          <5> QED
            BY <5>1
        <4>2. \A x \in Base : x < e
          BY <3>3, <4>1
        <4> QED
          BY <2>6, <3>3, <4>2
      <3>5. \A x \in Range(buffer) : x < d
        BY <2>3, <3>3
      <3>6. /\ m \in Seq(Int) /\ Falls(m) /\ Solid(Range(m), PanelLog)
            /\ d \in Range(m) /\ Range(m) \subseteq Range(buffer) \cup {d} /\ Len(m) <= PanelRing
            /\ Len(m) < PanelRing => Range(m) = Range(buffer) \cup {d} /\ Len(buffer) < PanelRing
        <4>1. PICK T, n : T = PanelLog /\ n = PanelRing
          OBVIOUS
        <4>2. T \in SUBSET Int /\ n \in Nat \ {0} /\ d \in T
          BY <1>1, <2>1, <4>1
        <4>3. buffer \in Seq(Int) /\ Falls(buffer) /\ Solid(Range(buffer), T)
          BY <1>1, <1>4, <1>5, <4>1
        <4>4. ComesNext(d, Range(buffer), T)
          BY <3>4, <3>5, <4>1 DEF ComesNext
        <4>5. m = Cut(<<d>> \o buffer, n)
          BY <3>2, <4>1
        <4>6. ToppedBy(m, buffer, d, T, n)
          BY <4>2, <4>3, <4>4, <4>5, Topped
        <4> QED
          BY <4>1, <4>6 DEF ToppedBy
      <3>7. \A x \in Range(A) : x < d
        <4> SUFFICES ASSUME NEW x \in Range(A)
                     PROVE  x < d
          OBVIOUS
        <4>1. CASE x \in Base
          BY <2>3, <4>1
        <4>2. CASE x \notin Base
          <5>1. Len(buffer) = PanelRing
            BY <4>2 DEF Base, A
          <5>2. Range(buffer) # {}
            BY <1>1, <5>1, ListEntries
          <5>3. PICK b \in Range(buffer) : TRUE
            BY <5>2
          <5>4. b > x /\ b < d /\ b \in Int /\ x \in Int
            BY <1>1, <1>4, <3>5, <5>3, ListEntries
          <5> QED
            BY <2>1, <5>4
        <4> QED
          BY <4>1, <4>2
      <3>8. OnHand' = IF Len(m) = PanelRing THEN Range(m) ELSE Range(m) \cup Range(A)
        BY <1>1, <3>1, <3>2 DEF OnHand
      <3>9. Solid(OnHand', PanelLog) /\ OnHand' \subseteq Base \cup {d} /\ d \in OnHand'
        <4>1. CASE Len(m) = PanelRing
          BY <3>3, <3>6, <3>8, <4>1
        <4>2. CASE Len(m) # PanelRing
          <5>1. Len(m) < PanelRing
            BY <1>1, <3>6, <4>2
          <5>2. Base = Range(buffer) \cup Range(A)
            <6>1. Len(buffer) # PanelRing
              BY <1>1, <3>6, <5>1
            <6> QED
              BY <6>1 DEF Base, A
          <5>3. OnHand' = Base \cup {d}
            BY <3>6, <3>8, <4>2, <5>1, <5>2
          <5>4. Solid(Base \cup {d}, PanelLog)
            BY <1>1, <1>4, <2>1, <2>3, <2>6, SolidNext
          <5> QED
            BY <5>3, <5>4
        <4> QED
          BY <4>1, <4>2
      <3>10. \A b \in Range(m), e \in Range(A) : b > e
        <4> SUFFICES ASSUME NEW e \in Range(A)
                     PROVE  d > e
          BY <1>4, <3>6
        <4>1. e < d /\ e \in Int
          BY <1>4, <3>7, ListEntries
        <4> QED
          BY <2>1, <4>1
      <3>11. ListsFit'
        BY <1>4, <1>9, <3>1, <3>2, <3>6, <3>9, <3>10 DEF ListsFit
      <3>12. Range(events) \subseteq Range(events') \/ ~Anchored
        <4>1. Len(A) \in Nat
          BY <1>4
        <4> QED
          BY <1>0, <1>1, <1>4, <3>1, <4>1 DEF Damaged, Dropped
      <3> QED
        BY <2>8, <3>9, <3>11, <3>12
    <2> QED
      BY <2>9, <2>10
  <1> QED
    BY <1>13, <1>14

\* A set of stamps has a latest one.
LEMMA LatestStamp ==
    ASSUME NEW S \in SUBSET Stamp
    PROVE  \E n \in S \cup {0} : \A m \in S : m <= n
  <1> DEFINE Above == {n \in Nat : \A m \in S : m <= n}
  <1>1. S \subseteq Nat /\ MaxEvents \in Nat /\ \A m \in S : m <= MaxEvents
    BY EventPanelAssumption DEF Stamp
  <1>2. MaxEvents \in Above
    BY <1>1
  <1>3. PICK n \in Above : \A y \in Above : n <= y
    <2>1. Above \subseteq Nat /\ Above # {}
      BY <1>2
    <2> HIDE DEF Above
    <2> QED
      BY <2>1, LeastNat
  <1>4. n \in Nat /\ \A m \in S : m <= n
    OBVIOUS
  <1>5. CASE n = 0
    BY <1>4, <1>5
  <1>6. CASE n # 0
    <2>1. n - 1 \in Nat /\ ~(n <= n - 1)
      BY <1>4, <1>6
    <2>2. n - 1 \notin Above
      BY <1>3, <2>1
    <2>3. PICK m \in S : ~(m <= n - 1)
      BY <2>1, <2>2
    <2>4. m = n
      BY <1>1, <1>4, <2>3
    <2> QED
      BY <1>4, <2>4
  <1> QED
    BY <1>5, <1>6

\* The invariant holds when the page is opened.
LEMMA PanelInitInv == PanelInit => PanelInv
  <1> SUFFICES ASSUME PanelInit
               PROVE  PanelInv
    OBVIOUS
  <1> DEFINE S == UNION {History[c] : c \in Charger}
  <1>1. History \in [Charger -> SUBSET Stamp] /\ log = History
    BY EventPanelAssumption DEF PanelInit, Stamp
  <1>2. S \in SUBSET Stamp
    BY <1>1
  <1>3. clock = CHOOSE n \in S \cup {0} : \A m \in S : m <= n
    BY DEF PanelInit
  <1>4. clock \in S \cup {0} /\ \A m \in S : m <= clock
    <2> HIDE DEF S
    <2> QED
      BY <1>2, <1>3, LatestStamp
  <1>5. clock \in 0..MaxEvents
    BY <1>2, <1>4, EventPanelAssumption DEF Stamp
  <1>6. Past
    <2> SUFFICES ASSUME NEW c \in Charger, NEW e \in log[c]
                 PROVE  e \in 1..clock
      BY DEF Past
    <2>1. e \in S /\ e \in Stamp
      BY <1>1
    <2>2. e <= clock
      BY <1>4, <2>1
    <2> QED
      BY <1>5, <2>1, <2>2 DEF Stamp
  <1>7. feed = NewSub(cpId) /\ cpId \in Charger
    BY DEF PanelInit
  <1>8. feed \in Feeds /\ feed.key = cpId
    BY <1>7, NewHook DEF Feeds, NewSub
  <1>9. <<>> \in Seq(Stamp) /\ Len(<<>>) = 0 /\ PanelRing \in Nat \ {0}
    BY EventPanelAssumption
  <1>10. older = [cursor |-> NoStamp, load |-> PanelIdle] /\ NoStamp \in Stamp \cup {NoStamp}
    BY DEF PanelInit
  <1>11. /\ older \in [cursor : Stamp \cup {NoStamp},
                       load : [stage : {"idle", "asked", "answered"}, to : Stamp \cup {NoStamp},
                               page : Seq(Stamp)]]
         /\ older.cursor = NoStamp /\ older.load.stage = "idle"
    BY <1>9, <1>10 DEF PanelIdle
  <1>12. 0 \in 0..MaxVisits /\ 0 \in 0..MaxReconnects
    BY EventPanelAssumption
  <1>13. PanelTypeOK
    <2>1. /\ events = <<>> /\ paused = FALSE /\ buffer = <<>> /\ seen = NoData /\ unrendered = {}
          /\ filter \in LogFilter /\ visits = 0 /\ reconnects = 0 /\ broken = FALSE
      BY DEF PanelInit
    <2>2. log \in [Charger -> SUBSET Stamp]
      BY <1>1
    <2>3. events \in Seq(Stamp) /\ buffer \in Seq(Stamp) /\ Len(buffer) <= PanelRing
      BY <1>9, <2>1
    <2>4. visits \in 0..MaxVisits /\ reconnects \in 0..MaxReconnects
      BY <1>12, <2>1
    <2> QED
      BY <1>5, <1>7, <1>8, <1>11, <2>1, <2>2, <2>3, <2>4 DEF PanelTypeOK, Feeds
  <1>14. PanelTyped
    BY <1>6, <1>13 DEF PanelTyped, Heard, PanelInit
  <1>15. /\ feed.stage = "asked" /\ feed.wire = <<>> /\ unrendered = {} /\ events = <<>>
         /\ buffer = <<>> /\ seen = NoData
    BY <1>7 DEF PanelInit, NewSub
  <1>16. DueRows = {} /\ DueDeltas = {} /\ ~SnapshotSent /\ ~SnapshotDue
    BY <1>15, NoEntries DEF DueRows, DueDeltas, SnapshotSent, SnapshotDue
  <1>17. WireFits
    BY <1>15, <1>16, NoEntries DEF WireFits
  <1>18. Range(events) = {} /\ Range(buffer) = {} /\ OnHand = {}
    BY <1>15, NoEntries DEF OnHand
  <1>19. ListsFit
    BY <1>15, <1>18, NoEntries DEF ListsFit, Falls, Solid
  <1>20. SnapshotFits /\ DeltasFit
    BY <1>15, <1>16, <1>18 DEF SnapshotFits, DeltasFit
  <1>21. OlderFits
    BY <1>11 DEF OlderFits, LoadingOlder
  <1> QED
    BY <1>14, <1>17, <1>19, <1>20, <1>21 DEF PanelInv, PanelSound

\* Every step of the panel keeps the invariant.
LEMMA PanelInvStep == PanelInv /\ [PanelNext]_panelVars => PanelInv'
  <1> SUFFICES ASSUME PanelInv, [PanelNext]_panelVars
               PROVE  PanelInv'
    OBVIOUS
  <1>1. PanelTyped /\ (~broken => PanelSound)
    BY DEF PanelInv
  <1>2. PanelTyped'
    BY <1>1, PanelTypedStep
  <1>3. ASSUME NEW c \in Charger, Visit(c)
        PROVE  ~broken' => PanelSound'
    BY <1>1, <1>3, VisitSound
  <1>4. ASSUME ~ \E c \in Charger : Visit(c)
        PROVE  ~broken' => ~broken
    BY <1>1, <1>4 DEF PanelNext, Happen, ServeSnapshot, Register, ServeOlder, DeliverMessage, Render,
       PauseFeed, ResumeFeed, ClearList, LoadOlder, ArriveOlder, FailOlder, SetFilter, Reconnect, panelVars
  <1>5. ASSUME ~ \E c \in Charger : Visit(c), ~broken'
        PROVE  PanelSound'
    <2>0. PanelSound /\ PanelTyped
      BY <1>1, <1>4, <1>5
    <2>1. ASSUME NEW c \in Charger, Happen(c)
          PROVE  PanelSound'
      BY <1>2, <1>5, <2>0, <2>1, HappenSound
    <2>2. CASE ServeSnapshot
      BY <1>2, <1>5, <2>0, <2>2, ServeSnapshotSound
    <2>3. CASE Register
      BY <2>0, <2>3, RegisterSound
    <2>4. CASE ServeOlder
      BY <2>0, <2>4, ServeOlderSound
    <2>5. CASE DeliverMessage
      BY <1>2, <1>5, <2>0, <2>5, DeliverSound
    <2>6. CASE Render
      BY <1>2, <1>5, <2>0, <2>6, RenderSound
    <2>7. CASE PauseFeed
      BY <1>5, <2>0, <2>7, PauseSound
    <2>8. CASE ResumeFeed
      BY <1>5, <2>0, <2>8, ResumeSound
    <2>9. CASE ClearList
      BY <1>5, <2>0, <2>9, ClearSound
    <2>10. CASE LoadOlder
      BY <2>0, <2>10, LoadOlderSound
    <2>11. CASE ArriveOlder
      BY <2>0, <2>11, ArriveSound
    <2>12. CASE FailOlder
      BY <2>0, <2>12, FailOlderSound
    <2>13. ASSUME NEW f \in LogFilter, SetFilter(f)
           PROVE  PanelSound'
      BY <2>0, <2>13, SetFilterSound
    <2>14. CASE Reconnect
      BY <2>0, <2>14, ReconnectSound
    <2>15. CASE UNCHANGED panelVars
      <3>1. OlderFits'
        BY <2>0, <2>15 DEF PanelSound, OlderFits, LoadingOlder, PanelLog, panelVars
      <3> QED
        BY <2>0, <2>15, <3>1, AllStays DEF panelVars
    <2> QED
      BY <1>5, <2>1, <2>2, <2>3, <2>4, <2>5, <2>6, <2>7, <2>8, <2>9, <2>10, <2>11, <2>12, <2>13,
         <2>14, <2>15 DEF PanelNext
  <1> QED
    BY <1>1, <1>2, <1>3, <1>5 DEF PanelInv

\* The panel keeps its types, for any logs, rings, page sizes and filters: in particular
\* neither the list nor the buffer is ever longer than the ring.
THEOREM PanelIsTyped == PanelSpec => []PanelTypeOK
  <1>1. PanelInv => PanelTypeOK
    BY DEF PanelInv, PanelTyped
  <1> QED
    BY <1>1, PanelInitInv, PanelInvStep, PTL DEF PanelSpec

\* However events, reconnects, pauses, clears, loads of older events and changes of
\* the charger interleave, what the panel shows are the events of the charger between
\* two stamps, each once and in order, but for the steps that the property excuses
\* (DeviceEventsPanel.tsx:100-206).
THEOREM FeedHasNoHoleNoRepeat == PanelSpec => []NoHoleNoRepeat
  BY PanelInitInv, PanelInvStep, PanelSoundEnough, PTL DEF PanelSpec

-----------------------------------------------------------------------------
(* The pages of the history.                                               *)

CardRows == [id : Nat, open : BOOLEAN]
CardPages == [rows : Seq(CardRows), next : Nat]
CardSessions == Seq([open : BOOLEAN, tag : IdTag])

\* The smaller of two numbers.
LEMMA MinOfTwo ==
    ASSUME NEW a \in Nat, NEW b \in Nat
    PROVE  Min({a, b}) = IF a <= b THEN a ELSE b
<1>1. PICK m : m = (IF a <= b THEN a ELSE b)
  OBVIOUS
<1>2. m \in {a, b} /\ \A y \in {a, b} : m <= y
  BY <1>1
<1>3. ASSUME NEW x \in {a, b}, \A y \in {a, b} : x <= y
      PROVE  x = m
  BY <1>1, <1>3
<1> QED BY <1>1, <1>2, <1>3 DEF Min

\* The first n numbers, largest first.
LEMMA Countdown ==
    ASSUME NEW n \in Nat
    PROVE  Descending(1..n) = [j \in 1..n |-> n + 1 - j]
<1> DEFINE s == [j \in 1..n |-> n + 1 - j]
<1>1. s \in Seq(Int) /\ DOMAIN s = 1..n
  OBVIOUS
<1>2. Falls(s)
  BY DEF Falls
<1>3. Range(s) = 1..n
  <2>1. ASSUME NEW j \in 1..n
        PROVE  s[j] \in 1..n
    OBVIOUS
  <2>2. ASSUME NEW x \in 1..n
        PROVE  \E j \in 1..n : s[j] = x
    <3>1. n + 1 - x \in 1..n /\ s[n + 1 - x] = x
      OBVIOUS
    <3> QED BY <3>1
  <2> QED BY <1>1, <2>1, <2>2 DEF Range
<1> HIDE DEF s
<1>4. s = Descending(Range(s))
  BY <1>1, <1>2, FallingIsDescending
<1> QED BY <1>3, <1>4 DEF s

\* How many sessions are below a cursor.
BelowCursor(at) == IF at > Len(Sessions) THEN Len(Sessions) ELSE IF at = 0 THEN 0 ELSE at - 1

\* p is the page of `size` sessions that ends n sessions from the oldest.
PageIs(p, n, size) ==
    /\ p \in CardPages
    /\ Len(p.rows) = IF n > size THEN size ELSE n
    /\ \A j \in 1..Len(p.rows) : p.rows[j] = CardRow(n + 1 - j)
    /\ p.next = IF n > size THEN n + 1 - size ELSE NoRow

\* A page of the history is what the sessions below its cursor come to.
LEMMA PageFacts ==
    ASSUME Sessions \in CardSessions, NEW at \in Nat, NEW size \in Nat \ {0}
    PROVE  PageIs(PageBelow(at, size), BelowCursor(at), size)
<1>1. PICK n : n = BelowCursor(at)
  OBVIOUS
<1>2. Len(Sessions) \in Nat /\ DOMAIN Sessions = 1..Len(Sessions)
  BY DEF CardSessions
<1>3. n \in Nat /\ n <= Len(Sessions)
  BY <1>1, <1>2 DEF BelowCursor
<1>4. {i \in DOMAIN Sessions : i < at} = 1..n
  BY <1>1, <1>2 DEF BelowCursor
<1>5. PICK ids : ids = Descending(1..n)
  OBVIOUS
<1>6. ids = [j \in 1..n |-> n + 1 - j]
  BY <1>3, <1>5, Countdown
<1>7. ids \in Seq(Nat) /\ Len(ids) = n /\ \A j \in 1..n : ids[j] = n + 1 - j
  BY <1>3, <1>6
<1>8. PICK m : m = (IF n > size THEN size ELSE n)
  OBVIOUS
<1>9. m \in Nat /\ m <= n /\ Min({size, Len(ids)}) = m
  BY <1>3, <1>7, <1>8, MinOfTwo
<1>10. PICK few : few = SubSeq(ids, 1, m)
  OBVIOUS
<1>11. few \in Seq(Nat) /\ Len(few) = m /\ DOMAIN few = 1..m /\ \A j \in 1..m : few[j] = n + 1 - j
  BY <1>3, <1>7, <1>9, <1>10
<1>12. PICK p : p = PageBelow(at, size)
  OBVIOUS
<1>13. p = [rows |-> [k \in DOMAIN few |-> CardRow(few[k])],
            next |-> IF Len(ids) > Len(few) THEN few[Len(few)] ELSE NoRow]
  BY <1>4, <1>5, <1>9, <1>10, <1>12 DEF PageBelow
<1>14. p.rows = [k \in 1..m |-> CardRow(few[k])]
  BY <1>11, <1>13
<1>15. p.next = IF Len(ids) > Len(few) THEN few[Len(few)] ELSE NoRow
  BY <1>13
<1>16. p.next = IF n > size THEN n + 1 - size ELSE NoRow
  BY <1>3, <1>7, <1>8, <1>9, <1>11, <1>15
<1>17. ASSUME NEW k \in 1..m
       PROVE  CardRow(few[k]) \in CardRows /\ CardRow(few[k]) = CardRow(n + 1 - k)
  <2>1. few[k] = n + 1 - k /\ few[k] \in Nat /\ few[k] \in DOMAIN Sessions
    BY <1>2, <1>3, <1>9, <1>11
  <2>2. PICK i : i = few[k]
    OBVIOUS
  <2>3. i \in Nat /\ i \in 1..Len(Sessions)
    BY <1>2, <2>1, <2>2
  <2>6. Sessions[i] \in [open : BOOLEAN, tag : IdTag]
    BY <2>3, ElementOfSeq DEF CardSessions
  <2>4. Sessions[i].open \in BOOLEAN
    BY <2>6
  <2>5. CardRow(i) \in CardRows
    BY <2>3, <2>4, Zenon DEF CardRow, CardRows
  <2> QED BY <2>1, <2>2, <2>5
<1>18. p.rows \in Seq(CardRows) /\ Len(p.rows) = m /\ \A j \in 1..m : p.rows[j] = CardRow(n + 1 - j)
  BY <1>9, <1>14, <1>17
<1>19. p.next \in Nat
  BY <1>3, <1>16 DEF NoRow
<1>20. p = [rows |-> p.rows, next |-> p.next]
  BY <1>13
<1>21. p \in CardPages
  BY <1>18, <1>19, <1>20 DEF CardPages
<1> QED BY <1>1, <1>8, <1>12, <1>16, <1>18, <1>21 DEF PageIs

\* A page says how many sessions it has, and which.
LEMMA SamePage ==
    ASSUME Sessions \in CardSessions, NEW n \in Nat, NEW size \in Nat, NEW more \in Nat, NEW p, NEW q,
           PageIs(p, n, size), PageIs(q, n, more), size = more \/ (n <= size /\ n <= more)
    PROVE  p.rows = q.rows /\ p.next = q.next
<1>1. Len(p.rows) = Len(q.rows) /\ p.next = q.next
  BY DEF PageIs
<1>2. p.rows \in Seq(CardRows) /\ q.rows \in Seq(CardRows)
  BY DEF PageIs, CardPages
<1>3. \A j \in 1..Len(p.rows) : p.rows[j] = q.rows[j]
  BY <1>1 DEF PageIs
<1> QED BY <1>1, <1>2, <1>3, SeqEqual

\* One list behind another.
LEMMA JoinedLists ==
    ASSUME NEW T, NEW u \in Seq(T), NEW w \in Seq(T), NEW s, s = u \o w
    PROVE  /\ s \in Seq(T) /\ Len(s) = Len(u) + Len(w)
           /\ \A j \in 1..Len(u) : s[j] = u[j]
           /\ \A j \in (Len(u) + 1)..Len(s) : s[j] = w[j - Len(u)]
  OBVIOUS

\* Page q goes on where page p ends.
LongPage(p, q, both) == p.rows \o q.rows = both.rows /\ q.next = both.next

\* A page and the one below it are a longer page.
LEMMA PageAndNext ==
    ASSUME Sessions \in CardSessions, NEW at \in Nat, NEW n \in Nat \ {0}, NEW m \in Nat \ {0},
           NEW p, p = PageBelow(at, n), p.next # NoRow, NEW q, q = PageBelow(p.next, m),
           NEW both, both = PageBelow(at, n + m)
    PROVE  LongPage(p, q, both)
<1>1. PICK b : b = BelowCursor(at)
  OBVIOUS
<1>2. Len(Sessions) \in Nat /\ b \in Nat /\ b <= Len(Sessions)
  BY <1>1 DEF BelowCursor, CardSessions
<1>3. PageIs(p, b, n)
  BY <1>1, PageFacts
<1>4. n + m \in Nat \ {0}
  OBVIOUS
<1>5. PageIs(both, b, n + m)
  BY <1>1, <1>4, PageFacts
<1>6. b > n /\ p.next = b + 1 - n /\ p.next \in Nat
  BY <1>2, <1>3 DEF PageIs, NoRow, CardPages
<1>7. BelowCursor(p.next) = b - n
  BY <1>2, <1>6 DEF BelowCursor
<1>8. PageIs(q, b - n, m)
  BY <1>6, <1>7, PageFacts
<1>9. p.rows \in Seq(CardRows) /\ q.rows \in Seq(CardRows) /\ both.rows \in Seq(CardRows)
  BY <1>3, <1>5, <1>8 DEF PageIs, CardPages
<1>10. /\ Len(p.rows) = n /\ Len(q.rows) = (IF b - n > m THEN m ELSE b - n)
       /\ Len(both.rows) = (IF b > n + m THEN n + m ELSE b)
       /\ q.next = (IF b - n > m THEN b - n + 1 - m ELSE NoRow)
       /\ both.next = (IF b > n + m THEN b + 1 - (n + m) ELSE NoRow)
  BY <1>2, <1>3, <1>5, <1>6, <1>8 DEF PageIs
<1>11. /\ \A j \in 1..n : p.rows[j] = CardRow(b + 1 - j)
       /\ \A j \in 1..Len(q.rows) : q.rows[j] = CardRow(b - n + 1 - j)
       /\ \A j \in 1..Len(both.rows) : both.rows[j] = CardRow(b + 1 - j)
  BY <1>3, <1>5, <1>8, <1>10 DEF PageIs
<1>12. q.next = both.next /\ Len(both.rows) = n + Len(q.rows) /\ Len(q.rows) \in Nat
  BY <1>2, <1>6, <1>10
<1>13. PICK s : s = p.rows \o q.rows
  OBVIOUS
<1>14. /\ s \in Seq(CardRows) /\ Len(s) = n + Len(q.rows)
       /\ \A j \in 1..n : s[j] = p.rows[j]
       /\ \A j \in (n + 1)..Len(s) : s[j] = q.rows[j - n]
  <2>1. /\ s \in Seq(CardRows) /\ Len(s) = Len(p.rows) + Len(q.rows)
        /\ \A j \in 1..Len(p.rows) : s[j] = p.rows[j]
        /\ \A j \in (Len(p.rows) + 1)..Len(s) : s[j] = q.rows[j - Len(p.rows)]
    <3>1. PICK u, w : u = p.rows /\ w = q.rows
      OBVIOUS
    <3>2. u \in Seq(CardRows) /\ w \in Seq(CardRows) /\ s = u \o w
      BY <1>9, <1>13, <3>1
    <3>3. /\ s \in Seq(CardRows) /\ Len(s) = Len(u) + Len(w)
          /\ \A j \in 1..Len(u) : s[j] = u[j]
          /\ \A j \in (Len(u) + 1)..Len(s) : s[j] = w[j - Len(u)]
      BY <3>2, JoinedLists
    <3> QED BY <3>1, <3>3
  <2> QED BY <1>10, <2>1
<1>15. ASSUME NEW j \in 1..Len(s)
       PROVE  s[j] = both.rows[j]
  <2>1. CASE j <= n
    <3>1. j \in 1..n /\ j \in 1..Len(both.rows)
      BY <1>12, <1>14, <2>1
    <3> QED BY <1>11, <1>14, <3>1
  <2>2. CASE j > n
    <3>1. j \in (n + 1)..Len(s) /\ j - n \in 1..Len(q.rows) /\ j \in 1..Len(both.rows)
      BY <1>12, <1>14, <2>2
    <3>2. b - n + 1 - (j - n) = b + 1 - j
      BY <1>2
    <3> QED BY <1>11, <1>14, <3>1, <3>2
  <2> QED BY <2>1, <2>2
<1>16. s = both.rows
  <2>1. PICK w : w = both.rows
    OBVIOUS
  <2>2. /\ s \in Seq(CardRows) /\ w \in Seq(CardRows) /\ Len(s) = Len(w)
        /\ \A j \in 1..Len(s) : s[j] = w[j]
    BY <1>9, <1>12, <1>14, <1>15, <2>1
  <2> QED BY <2>1, <2>2, SeqEqual
<1>17. p.rows \o q.rows = both.rows
  BY <1>13, <1>16
<1> QED BY <1>12, <1>17 DEF LongPage

\* A page that is the last one is all there is: a longer one is the same.
LEMMA LastPage ==
    ASSUME Sessions \in CardSessions, NEW at \in Nat, NEW n \in Nat \ {0}, NEW m \in Nat \ {0}, n <= m,
           NEW p, p = PageBelow(at, n), p.next = NoRow, NEW q, q = PageBelow(at, m)
    PROVE  p.rows = q.rows /\ q.next = NoRow
<1>1. PICK b : b = BelowCursor(at)
  OBVIOUS
<1>2. Len(Sessions) \in Nat /\ b \in Nat
  BY <1>1 DEF BelowCursor, CardSessions
<1>3. PageIs(p, b, n) /\ PageIs(q, b, m)
  BY <1>1, PageFacts
<1>4. b <= n
  BY <1>2, <1>3 DEF PageIs, NoRow
<1>5. b <= m /\ n \in Nat /\ m \in Nat
  BY <1>2, <1>4
<1> QED BY <1>2, <1>3, <1>4, <1>5, SamePage

-----------------------------------------------------------------------------
(* The inductive invariant of the cards.                                   *)

StatKey == [name |-> "cp-statistics"]

Reservations == [tag : IdTag, made : Nat, expires : 1..MaxStarts]

ChargerType ==
    [sessions : CardSessions, reserved : SUBSET Reservations, artefacts : SUBSET Artefacts,
     reading : [Measurand -> 0..MaxStarts]]

\* What the queries of the card answer.
CardAnswer ==
    CASE card = "history"      -> CardPages
      [] card = "statistics"   -> [rows : Seq(CardRows), truncated : BOOLEAN]
      [] card = "reservations" -> (SUBSET Reservations) \cup CardSessions
      [] OTHER                 -> SUBSET Artefacts

CardFeeds == Subscriptions({"device-events", "meter-history"}, {{}}, CardDelta)

\* Only the history has more keys than are shown, and only the card of the
\* diagnostics deletes.
Keyed ==
    /\ card \in {"history", "readings", "statistics", "reservations", "diagnostics"}
    /\ Keys \subseteq DOMAIN cardCache
    /\ \A k \in DOMAIN cardCache :
          IF card = "history"
          THEN k.name = "cp-transactions" /\ k.size \in CardSizes /\ k.at \in Nat
          ELSE k \in Keys
    /\ card # "diagnostics" => DOMAIN deletes = {}
    /\ HasFeed /\ cardFeed.stage = "asked" => cardFeed.wire = <<>>
    /\ unseenFeed => HasFeed
    /\ card = "readings" => \A i \in DOMAIN charger.sessions : ~charger.sessions[i].open
    /\ walk.pages # 0 => card = "statistics" /\ cardCache[StatKey].fetch = "asked"

\* The walk has read what one long page reads, and there is more.
Walking ==
    LET so == PageBelow(Top, walk.pages * WalkSize)
    IN  /\ walk.pages \in 1..(WalkPages - 1)
        /\ walk.rows = so.rows /\ walk.cursor = so.next /\ walk.cursor # NoRow

\* The card's effect fetches again on an event of this kind.
ToldOf(kind) == kind \in KindsOf(card)

DeltaOn(j) == j \in DOMAIN cardFeed.wire /\ cardFeed.wire[j].kind = "delta"

\* A fetch is still to come: a delta that says so is on its way or not rendered.
FetchDue ==
    \/ unseenFeed /\ ToldOf(cardFeed.delta.kind)
    \/ \E j \in DOMAIN cardFeed.wire : DeltaOn(j) /\ ToldOf(cardFeed.wire[j].data.kind)

\* No delta of the measurand is on the wire behind place j.
NoneAfter(m, j) ==
    \A i \in DOMAIN cardFeed.wire : i > j /\ DeltaOn(i) => cardFeed.wire[i].data.kind # m

LastAt(m, j) ==
    /\ DeltaOn(j) /\ cardFeed.wire[j].data.kind = m
    /\ cardFeed.wire[j].data.value = charger.reading[m] /\ NoneAfter(m, j)

Unrendered(m) == unseenFeed /\ cardFeed.delta.kind = m

\* The newest reading is on the wire, or not rendered yet, or shown.
ReadingFits(m) ==
    \/ \E j \in DOMAIN cardFeed.wire : LastAt(m, j)
    \/ NoneAfter(m, 0) /\ Unrendered(m) /\ cardFeed.delta.value = charger.reading[m]
    \/ NoneAfter(m, 0) /\ ~Unrendered(m) /\ readings[m] = charger.reading[m]

Fetched == (\A k \in Keys : Current(k)) /\ (walk = NewWalk \/ Walking)

\* What is not left to the next poll shows, or will.
CardSound ==
    IF card = "readings" THEN \A m \in Measurand : ReadingFits(m)
    ELSE (HasFeed /\ FetchDue) \/ Fetched

Walks == [rows : Seq(CardRows), cursor : Nat, pages : Nat]

CardInv ==
    /\ CardTypeOK /\ Keyed /\ walk \in Walks
    /\ Caches(cardCache, CardAnswer)
    /\ walk.pages = 0 => walk = NewWalk
    /\ ~behind => CardSound

-----------------------------------------------------------------------------
\* The types of the parts, once for all steps.
LEMMA CardTypes ==
    ASSUME CardTypeOK
    PROVE  /\ charger \in ChargerType /\ Sessions \in CardSessions
           /\ HasFeed => cardFeed \in CardFeeds
           /\ Len(Sessions) \in Nat /\ DOMAIN Sessions = 1..Len(Sessions)
<1>1. charger \in ChargerType
  BY DEF CardTypeOK, ChargerType, CardSessions, Reservations
<1>2. Sessions \in CardSessions
  BY <1>1 DEF ChargerType, Sessions
<1>3. Len(Sessions) \in Nat /\ DOMAIN Sessions = 1..Len(Sessions)
  BY <1>2 DEF CardSessions
<1>4. HasFeed => cardFeed \in CardFeeds
  BY DEF CardTypeOK, CardFeeds
<1> QED BY <1>1, <1>2, <1>3, <1>4

\* A walk that has not started.
LEMMA NewWalkTyped == NewWalk \in Walks /\ NewWalk.pages = 0
<1>1. <<>> \in Seq(CardRows) /\ Top \in Nat
  BY ChargerCardsAssumption DEF Top
<1> QED BY <1>1 DEF NewWalk, Walks

\* The constants.
LEMMA CardBounds ==
    /\ CardSizes \subseteq Nat \ {0} /\ MaxStarts \in Nat /\ MaxStarts > 0
    /\ WalkPages \in Nat \ {0} /\ WalkSize \in Nat \ {0} /\ Top \in Nat
  BY ChargerCardsAssumption DEF Top

\* What is asked for is of the type of the card.
LEMMA AnswerTyped ==
    ASSUME CardTypeOK, NEW k, k.name = "cp-statistics" => card = "statistics",
           IF card = "history" THEN k.name = "cp-transactions" /\ k.size \in CardSizes /\ k.at \in Nat
           ELSE k \in Keys
    PROVE  AnswerTo(k) \in CardAnswer
<1>0. Sessions \in CardSessions /\ charger \in ChargerType
  BY CardTypes
<1>1. CASE card = "history"
  <2>1. k.size \in Nat \ {0} /\ k.at \in Nat /\ k.name = "cp-transactions"
    BY <1>1, CardBounds
  <2>2. PageIs(PageBelow(k.at, k.size), BelowCursor(k.at), k.size)
    BY <1>0, <2>1, PageFacts
  <2>3. PageBelow(k.at, k.size) \in CardPages
    BY <2>2 DEF PageIs
  <2> QED BY <1>1, <2>1, <2>3 DEF AnswerTo, CardAnswer
<1>2. CASE card = "statistics"
  <2>1. k.name = "cp-statistics"
    BY <1>2 DEF Keys, KeysOf
  <2>2. WalkPages * WalkSize \in Nat \ {0}
    BY CardBounds
  <2>3. PageIs(PageBelow(Top, WalkPages * WalkSize), BelowCursor(Top), WalkPages * WalkSize)
    BY <1>0, <2>2, CardBounds, PageFacts
  <2>4. PICK p : p = PageBelow(Top, WalkPages * WalkSize)
    OBVIOUS
  <2>5. p.rows \in Seq(CardRows)
    BY <2>3, <2>4 DEF PageIs, CardPages
  <2>6. WholeWalk = [rows |-> p.rows, truncated |-> p.next # NoRow]
    BY <2>4 DEF WholeWalk
  <2> QED BY <1>2, <2>1, <2>5, <2>6 DEF AnswerTo, CardAnswer
<1>3. CASE card = "reservations"
  <2>1. k = [name |-> "cp-reservations"] \/ k = [name |-> "join"]
    BY <1>3 DEF Keys, KeysOf
  <2>2. charger.reserved \in SUBSET Reservations
    BY <1>0 DEF ChargerType
  <2>3. AnswerTo(k) = charger.reserved \/ AnswerTo(k) = Sessions
    BY <2>1 DEF AnswerTo
  <2>4. CardAnswer = (SUBSET Reservations) \cup CardSessions
    BY <1>3 DEF CardAnswer
  <2>5. PICK a : a = AnswerTo(k)
    OBVIOUS
  <2>6. a \in SUBSET Reservations \/ a \in CardSessions
    BY <1>0, <2>2, <2>3, <2>5, Zenon
  <2> QED BY <2>4, <2>5, <2>6
<1>4. CASE card \notin {"history", "statistics", "reservations"}
  <2>1. card = "diagnostics" /\ k = [name |-> "diagnostics"]
    BY <1>4 DEF Keys, KeysOf
  <2>2. charger.artefacts \in SUBSET Artefacts
    BY <1>0 DEF ChargerType
  <2>3. AnswerTo(k) = charger.artefacts
    BY <2>1 DEF AnswerTo
  <2> QED BY <2>1, <2>2, <2>3 DEF CardAnswer
<1> QED BY <1>1, <1>2, <1>3, <1>4

\* A walk that goes on has read one page more; one that ends has read it all.
LEMMA WalkGoesOn ==
    ASSUME CardTypeOK, walk = NewWalk \/ Walking, NEW w, w = WalkedOn(walk)
    PROVE  /\ w.pages \in 1..WalkPages
           /\ w.done => [rows |-> w.rows, truncated |-> w.truncated] = WholeWalk
           /\ ~w.done => /\ w.pages \in 1..(WalkPages - 1)
                         /\ w.rows = PageBelow(Top, w.pages * WalkSize).rows
                         /\ w.cursor = PageBelow(Top, w.pages * WalkSize).next
                         /\ w.cursor # NoRow
<1>0. /\ Sessions \in CardSessions /\ Top \in Nat
      /\ WalkPages \in Nat \ {0} /\ WalkSize \in Nat \ {0}
  BY CardTypes, CardBounds
<1>1. PICK page : page = PageBelow(walk.cursor, WalkSize)
  OBVIOUS
<1>2. PICK done \in BOOLEAN, more \in BOOLEAN :
          /\ done <=> page.next = NoRow \/ walk.pages + 1 = WalkPages
          /\ more <=> page.next # NoRow
  OBVIOUS
<1>20. PICK r : r = walk.rows \o page.rows
  OBVIOUS
<1>21. w = [rows |-> r, cursor |-> page.next, pages |-> walk.pages + 1,
            done |-> done, truncated |-> more]
  <2>1. /\ done = (page.next = NoRow \/ walk.pages + 1 = WalkPages)
        /\ more = (page.next # NoRow)
    BY <1>2
  <2> QED BY <1>1, <1>20, <2>1 DEF WalkedOn
<1>3. /\ w.rows = walk.rows \o page.rows /\ w.cursor = page.next /\ w.pages = walk.pages + 1
      /\ w.done <=> (page.next = NoRow \/ walk.pages + 1 = WalkPages)
      /\ w.truncated = (page.next # NoRow)
  <2>1. /\ w.rows = r /\ w.cursor = page.next /\ w.pages = walk.pages + 1
        /\ w.done = done /\ w.truncated = more
    BY <1>21
  <2>2. w.done <=> (page.next = NoRow \/ walk.pages + 1 = WalkPages)
    BY <1>2, <2>1
  <2>3. w.truncated = (page.next # NoRow)
    BY <1>2, <2>1
  <2> QED BY <1>20, <2>1, <2>2, <2>3
<1>4. PICK so : so = PageBelow(Top, w.pages * WalkSize)
  OBVIOUS
<1>5. w.pages \in 1..WalkPages /\ w.rows = so.rows /\ w.cursor = so.next
  <2>1. CASE walk = NewWalk
    <3>1. walk.rows = <<>> /\ walk.cursor = Top /\ walk.pages = 0
      BY <2>1 DEF NewWalk
    <3>2. w.pages = 1 /\ w.pages * WalkSize = WalkSize
      BY <1>0, <1>3, <3>1
    <3>3. page = so
      BY <1>1, <1>4, <3>1, <3>2
    <3>4. PageIs(page, BelowCursor(Top), WalkSize)
      BY <1>0, <1>1, <3>1, PageFacts
    <3>5. PICK rw : rw = page.rows
      OBVIOUS
    <3>6. rw \in Seq(CardRows)
      BY <3>4, <3>5 DEF PageIs, CardPages
    <3>7. <<>> \o rw = rw
      BY <3>6
    <3> QED BY <1>0, <1>3, <3>1, <3>2, <3>3, <3>5, <3>7
  <2>2. CASE Walking
    <3>1. PICK n : n = walk.pages * WalkSize
      OBVIOUS
    <3>2. PICK p : p = PageBelow(Top, n)
      OBVIOUS
    <3>3. /\ walk.pages \in 1..(WalkPages - 1)
          /\ walk.rows = p.rows /\ walk.cursor = p.next /\ p.next # NoRow
      BY <2>2, <3>1, <3>2 DEF Walking
    <3>4. PICK z : z = walk.pages
      OBVIOUS
    <3>5. z \in 1..(WalkPages - 1) /\ z \in Nat \ {0}
      BY <1>0, <3>3, <3>4
    <3>6. n \in Nat \ {0} /\ (z + 1) * WalkSize = n + WalkSize
      BY <1>0, <3>1, <3>4, <3>5
    <3>7. so = PageBelow(Top, n + WalkSize) /\ page = PageBelow(p.next, WalkSize)
      BY <1>1, <1>3, <1>4, <3>3, <3>4, <3>6
    <3>8. p.rows \o page.rows = so.rows /\ page.next = so.next
      <4>1. PICK top, m : top = Top /\ m = WalkSize
        OBVIOUS
      <4>2. /\ top \in Nat /\ m \in Nat \ {0} /\ p = PageBelow(top, n) /\ p.next # NoRow
            /\ page = PageBelow(p.next, m) /\ so = PageBelow(top, n + m)
        BY <1>0, <3>2, <3>3, <3>7, <4>1
      <4>3. LongPage(p, page, so)
        BY <1>0, <3>6, <4>2, PageAndNext
      <4> QED BY <4>3 DEF LongPage
    <3>9. w.rows = p.rows \o page.rows /\ w.cursor = page.next
      BY <1>3, <3>3
    <3>10. w.pages = z + 1
      BY <1>3, <3>4
    <3>11. w.pages \in 1..WalkPages
      BY <1>0, <3>5, <3>10
    <3> QED BY <3>8, <3>9, <3>11
  <2> QED BY <2>1, <2>2
<1>6. PICK z : z = w.pages
  OBVIOUS
<1>7. ASSUME w.done
      PROVE  [rows |-> w.rows, truncated |-> w.truncated] = WholeWalk
  <2>1. PICK all : all = PageBelow(Top, WalkPages * WalkSize)
    OBVIOUS
  <2>2. WholeWalk = [rows |-> all.rows, truncated |-> all.next # NoRow]
    BY <2>1 DEF WholeWalk
  <2>3. w.rows = all.rows /\ (w.cursor # NoRow <=> all.next # NoRow)
    <3>1. CASE z = WalkPages
      BY <1>4, <1>5, <1>6, <2>1, <3>1
    <3>2. CASE z # WalkPages
      <4>1. w.cursor = NoRow /\ so.next = NoRow
        BY <1>3, <1>5, <1>6, <1>7, <3>2
      <4>2. PICK n, m, d : n = z * WalkSize /\ m = WalkPages * WalkSize /\ d = WalkPages - z
        OBVIOUS
      <4>3. z \in Nat \ {0} /\ d \in Nat /\ WalkPages = z + d
        BY <1>0, <1>5, <1>6, <4>2
      <4>4. n \in Nat \ {0} /\ m \in Nat \ {0} /\ d * WalkSize \in Nat /\ m = n + d * WalkSize
        BY <1>0, <4>2, <4>3
      <4>5. n <= m
        BY <4>4
      <4>6. so = PageBelow(Top, n) /\ all = PageBelow(Top, m)
        BY <1>4, <1>6, <2>1, <4>2
      <4>7. so.rows = all.rows /\ all.next = NoRow
        BY <1>0, <4>1, <4>4, <4>5, <4>6, LastPage
      <4> QED BY <1>5, <4>1, <4>7
    <3> QED BY <3>1, <3>2
  <2>4. w.truncated = (all.next # NoRow)
    BY <1>3, <2>3
  <2> QED BY <2>2, <2>3, <2>4
<1>8. ASSUME ~w.done
      PROVE  w.pages \in 1..(WalkPages - 1) /\ w.cursor # NoRow
  BY <1>0, <1>3, <1>5, <1>8
<1> QED BY <1>4, <1>5, <1>7, <1>8

-----------------------------------------------------------------------------
(* The steps of the queries.                                               *)

\* What depends on the card, the charger and the view only.
LEMMA CardFrame ==
    ASSUME UNCHANGED <<card, charger, cardView>>
    PROVE  /\ Keys' = Keys /\ HasFeed' = HasFeed /\ CardDelta' = CardDelta
           /\ CardAnswer' = CardAnswer /\ CardFeeds' = CardFeeds /\ KindsOf(card)' = KindsOf(card)
           /\ \A k : AnswerTo(k)' = AnswerTo(k)
           /\ \A at, n : PageBelow(at, n)' = PageBelow(at, n)
<1>1. KeysOf(cardView)' = KeysOf(cardView)
  BY DEF KeysOf, HistoryKey
<1>2. Keys' = Keys
  BY <1>1 DEF Keys
<1>3. HasFeed' = HasFeed /\ CardDelta' = CardDelta /\ KindsOf(card)' = KindsOf(card)
  BY DEF HasFeed, CardDelta, KindsOf
<1>4. CardAnswer' = CardAnswer /\ CardFeeds' = CardFeeds
  BY <1>3 DEF CardAnswer, CardFeeds
<1>5. Sessions' = Sessions /\ \A i : CardRow(i)' = CardRow(i)
  BY DEF Sessions, CardRow
<1>6. ASSUME NEW at, NEW n
      PROVE  PageBelow(at, n)' = PageBelow(at, n)
  BY <1>5 DEF PageBelow
<1>7. ASSUME NEW k
      PROVE  AnswerTo(k)' = AnswerTo(k)
  <2>1. WholeWalk' = WholeWalk
    BY <1>6 DEF WholeWalk
  <2>2. PageBelow(k.at, k.size)' = PageBelow(k.at, k.size)
    BY <1>6
  <2> QED BY <1>5, <2>1, <2>2 DEF AnswerTo
<1> QED BY <1>2, <1>3, <1>4, <1>6, <1>7

\* An entry that stays is what it was.
LEMMA CurrentKept ==
    ASSUME NEW k, cardCache'[k] = cardCache[k], AnswerTo(k)' = AnswerTo(k), Current(k)
    PROVE  Current(k)'
  BY DEF Current

\* The feed is what it was.
LEMMA PendingKept ==
    ASSUME UNCHANGED <<card, cardFeed, unseenFeed>>
    PROVE  FetchDue' = FetchDue
<1>1. KindsOf(card)' = KindsOf(card)
  BY DEF KindsOf
<1> QED BY <1>1 DEF FetchDue, ToldOf, DeltaOn

\* The newest reading of every measurand is kept.
LEMMA ReadingsKept ==
    ASSUME UNCHANGED <<charger, cardFeed, unseenFeed, readings>>, NEW m, ReadingFits(m)
    PROVE  ReadingFits(m)'
  BY DEF ReadingFits, LastAt, NoneAfter, DeltaOn, Unrendered

\* A step of a query keeps the invariant if it keeps what is fetched.
LEMMA QueryStep ==
    ASSUME CardInv, UNCHANGED <<card, charger, cardView, cardFeed, unseenFeed, readings>>,
           behind' \in BOOLEAN, DOMAIN cardCache' = DOMAIN cardCache,
           Caches(cardCache', CardAnswer),
           \A d \in DOMAIN deletes' : deletes'[d].row \in Artefacts,
           card # "diagnostics" => DOMAIN deletes' = {},
           pendingDelete' \in Artefacts \cup {NoData},
           walk' \in Walks, walk'.pages = 0 => walk' = NewWalk,
           walk'.pages # 0 => card = "statistics" /\ cardCache'[StatKey].fetch = "asked",
           ~behind' => IF card = "readings" THEN ~behind
                       ELSE (~behind /\ (Fetched => Fetched')) \/ Fetched'
    PROVE  CardInv'
<1>1. /\ Keys' = Keys /\ HasFeed' = HasFeed /\ CardDelta' = CardDelta
      /\ CardAnswer' = CardAnswer
  BY CardFrame
<1>2. CardTypeOK'
  BY <1>1 DEF CardInv, CardTypeOK
<1>3. Keyed'
  BY <1>1 DEF CardInv, Keyed
<1>4. Caches(cardCache', CardAnswer')
  BY <1>1
<1>5. ASSUME ~behind'
      PROVE  CardSound'
  <2>1. CASE card = "readings"
    BY <1>5, <2>1, ReadingsKept DEF CardInv, CardSound
  <2>2. CASE card # "readings"
    <3>1. FetchDue' = FetchDue
      BY PendingKept
    <3> QED BY <1>1, <1>5, <2>2, <3>1 DEF CardInv, CardSound
  <2> QED BY <2>1, <2>2
<1> QED BY <1>2, <1>3, <1>4, <1>5 DEF CardInv

\* A walk that has read nothing yet is a new one.
LEMMA NoWalk ==
    ASSUME CardInv, card # "statistics" \/ cardCache[StatKey].fetch # "asked"
    PROVE  walk = NewWalk
  BY DEF CardInv, Keyed

\* A poll fetches again.
LEMMA PollSound ==
    ASSUME CardInv, NEW k \in DOMAIN cardCache, PollQuery(k)
    PROVE  CardInv'
<1>1. PICK d : d = cardCache'
  OBVIOUS
<1>2. d = Refetched(cardCache, k)
  BY <1>1 DEF PollQuery, Polled, Settled
<1>3. Caches(d, CardAnswer) /\ Touched(cardCache, k, d) /\ d[k].fetch = "asked"
  BY <1>2, CacheRefetched DEF CardInv
<1>4. walk' = NewWalk /\ walk'.pages = 0 /\ walk' \in Walks
  BY NewWalkTyped DEF PollQuery
<1>5. ASSUME Fetched
      PROVE  Fetched'
  <2>1. Keys' = Keys /\ \A j : AnswerTo(j)' = AnswerTo(j)
    BY CardFrame DEF PollQuery
  <2>2. ASSUME NEW j \in Keys
        PROVE  Current(j)'
    <3>1. CASE j = k
      BY <1>1, <1>3, <3>1 DEF Current
    <3>2. CASE j # k
      <4>1. j \in DOMAIN cardCache
        BY DEF CardInv, Keyed
      <4>2. cardCache'[j] = cardCache[j]
        BY <1>1, <1>3, <3>2, <4>1 DEF Touched
      <4> QED BY <1>5, <2>1, <4>2, CurrentKept DEF Fetched
    <3> QED BY <3>1, <3>2
  <2> QED BY <1>4, <2>1, <2>2 DEF Fetched
<1>6. DOMAIN d = DOMAIN cardCache
  BY <1>3 DEF Touched
<1> QED BY <1>1, <1>3, <1>4, <1>5, <1>6, QueryStep DEF PollQuery, CardInv, CardTypeOK, Keyed

\* What the deletions are, for the steps that leave them alone.
LEMMA DeletesKept ==
    ASSUME CardInv, UNCHANGED <<deletes, pendingDelete>>
    PROVE  /\ \A d \in DOMAIN deletes' : deletes'[d].row \in Artefacts
           /\ card # "diagnostics" => DOMAIN deletes' = {}
           /\ pendingDelete' \in Artefacts \cup {NoData}
           /\ behind \in BOOLEAN
  BY DEF CardInv, CardTypeOK, Keyed

\* An answer is what the server has now.
LEMMA ServeQuerySound ==
    ASSUME CardInv, NEW k \in DOMAIN cardCache, ServeQuery(k)
    PROVE  CardInv'
<1>0. /\ UNCHANGED <<card, charger, cardView, cardFeed, unseenFeed, readings, walk>>
      /\ UNCHANGED <<deletes, pendingDelete>> /\ CardTypeOK
  BY DEF ServeQuery, CardInv
<1>1. PICK d, r : d = cardCache' /\ r = AnswerTo(k)
  OBVIOUS
<1>2. d = Served(cardCache, k, r)
  BY <1>1 DEF ServeQuery
<1>3. /\ k.name # "cp-statistics"
      /\ IF card = "history" THEN k.name = "cp-transactions" /\ k.size \in CardSizes /\ k.at \in Nat
         ELSE k \in Keys
  BY DEF ServeQuery, CardInv, Keyed
<1>4. r \in CardAnswer
  BY <1>0, <1>1, <1>3, AnswerTyped
<1>5. Caches(d, CardAnswer) /\ Touched(cardCache, k, d) /\ d[k].fetch = "answered" /\ d[k].got = r
  BY <1>2, <1>4, CacheServed DEF CardInv
<1>6. DOMAIN d = DOMAIN cardCache
  BY <1>5 DEF Touched
<1>7. card # "statistics"
  BY <1>3 DEF Keys, KeysOf
<1>8. walk = NewWalk /\ walk' = NewWalk /\ walk'.pages = 0 /\ walk' \in Walks
  BY <1>0, <1>7, NoWalk, NewWalkTyped
<1>9. Keys' = Keys /\ \A j : AnswerTo(j)' = AnswerTo(j)
  BY <1>0, CardFrame
<1>10. Current(k)'
  BY <1>1, <1>5, <1>9 DEF Current
<1>11. ASSUME NEW j \in Keys, j # k, Current(j)
       PROVE  Current(j)'
  <2>1. j \in DOMAIN cardCache
    BY DEF CardInv, Keyed
  <2>2. cardCache'[j] = cardCache[j]
    BY <1>1, <1>5, <1>11, <2>1 DEF Touched
  <2> QED BY <1>9, <1>11, <2>2, CurrentKept
<1>12. Fetched => Fetched'
  BY <1>8, <1>9, <1>10, <1>11 DEF Fetched
<1>13. ASSUME ~behind'
       PROVE  IF card = "readings" THEN ~behind ELSE (~behind /\ (Fetched => Fetched')) \/ Fetched'
  <2>1. ~behind \/ (k \in Keys /\ \A l \in Keys \ {k} : Current(l))
    BY <1>13 DEF ServeQuery
  <2>2. card = "readings" => k \notin Keys
    BY DEF Keys, KeysOf
  <2>3. card # "readings"
    BY <1>3, <2>2
  <2>4. (k \in Keys /\ \A l \in Keys \ {k} : Current(l)) => Fetched'
    BY <1>8, <1>9, <1>10, <1>11 DEF Fetched
  <2> QED BY <1>12, <2>1, <2>3, <2>4
<1>14. behind' \in BOOLEAN
  BY DEF ServeQuery
<1> QED BY <1>0, <1>1, <1>5, <1>6, <1>8, <1>13, <1>14, QueryStep, DeletesKept

\* So is the answer of a walk of which nothing was missed on the way.
LEMMA ServeWalkSound ==
    ASSUME CardInv, ServeWalk
    PROVE  CardInv'
<1>0. /\ UNCHANGED <<card, charger, cardView, cardFeed, unseenFeed, readings>>
      /\ UNCHANGED <<deletes, pendingDelete>> /\ CardTypeOK
      /\ StatKey \in DOMAIN cardCache /\ cardCache[StatKey].fetch = "asked"
      /\ behind' = (behind /\ walk.pages > 0) /\ Caches(cardCache, CardAnswer)
  BY DEF ServeWalk, CardInv, StatKey
<1>1. card = "statistics" /\ Keys = {StatKey}
  <2>1. IF card = "history" THEN StatKey.name = "cp-transactions" ELSE StatKey \in Keys
    BY <1>0 DEF CardInv, Keyed
  <2>2. StatKey.name = "cp-statistics"
    BY DEF StatKey
  <2>3. \A j \in Keys : j.name = "cp-statistics" => card = "statistics"
    BY DEF Keys, KeysOf, HistoryKey
  <2>4. card = "statistics"
    BY <2>1, <2>2, <2>3
  <2> QED BY <2>4 DEF Keys, KeysOf, StatKey
<1>2. Keys' = Keys /\ (\A j : AnswerTo(j)' = AnswerTo(j))
      /\ \A at, n : PageBelow(at, n)' = PageBelow(at, n)
  BY <1>0, CardFrame
<1>3. AnswerTo(StatKey) = WholeWalk
  BY DEF AnswerTo, StatKey
<1>4. PICK w : w = WalkedOn(walk)
  OBVIOUS
<1>5. IF w.done
      THEN /\ cardCache' = Served(cardCache, StatKey, [rows |-> w.rows, truncated |-> w.truncated])
           /\ walk' = NewWalk
      ELSE /\ walk' = [rows |-> w.rows, cursor |-> w.cursor, pages |-> w.pages]
           /\ UNCHANGED cardCache
  BY <1>4 DEF ServeWalk, StatKey
<1>6. /\ walk \in Walks /\ walk.pages \in Nat /\ (walk.pages = 0 => walk = NewWalk)
      /\ Sessions \in CardSessions /\ WalkSize \in Nat \ {0}
  BY <1>0, CardTypes, CardBounds DEF CardInv, Walks
<1>7. PICK page, r, c : page = PageBelow(walk.cursor, WalkSize) /\ r = walk.rows \o page.rows /\ c = page.next
  OBVIOUS
<1>8. r \in Seq(CardRows) /\ c \in Nat
  <2>1. walk.cursor \in Nat
    BY <1>6 DEF Walks
  <2>2. PageIs(page, BelowCursor(walk.cursor), WalkSize)
    BY <1>6, <1>7, <2>1, PageFacts
  <2>3. PICK u, v : u = walk.rows /\ v = page.rows
    OBVIOUS
  <2>4. u \in Seq(CardRows) /\ v \in Seq(CardRows) /\ r = u \o v /\ c \in Nat
    BY <1>6, <1>7, <2>2, <2>3 DEF PageIs, CardPages, Walks
  <2> QED BY <2>4
<1>9. /\ w.rows = r /\ w.cursor = c /\ w.pages = walk.pages + 1
      /\ w.done \in BOOLEAN /\ w.truncated \in BOOLEAN
  <2>1. PICK done \in BOOLEAN, more \in BOOLEAN :
            done = (c = NoRow \/ walk.pages + 1 = WalkPages) /\ more = (c # NoRow)
    OBVIOUS
  <2>2. w = [rows |-> r, cursor |-> c, pages |-> walk.pages + 1, done |-> done, truncated |-> more]
    BY <1>4, <1>7, <2>1 DEF WalkedOn
  <2> QED BY <2>2
<1>10. PICK all : all = [rows |-> r, truncated |-> w.truncated]
  OBVIOUS
<1>11. all \in CardAnswer
  BY <1>1, <1>8, <1>9, <1>10 DEF CardAnswer
<1>12. IF w.done
       THEN cardCache' = Served(cardCache, StatKey, all) /\ walk' = NewWalk
       ELSE walk' = [rows |-> r, cursor |-> c, pages |-> w.pages] /\ cardCache' = cardCache
  BY <1>5, <1>9, <1>10
<1>13. (walk = NewWalk \/ Walking) =>
           /\ w.done => all = WholeWalk
           /\ ~w.done => /\ w.pages \in 1..(WalkPages - 1)
                         /\ r = PageBelow(Top, w.pages * WalkSize).rows
                         /\ c = PageBelow(Top, w.pages * WalkSize).next
                         /\ c # NoRow
  BY <1>0, <1>4, <1>9, <1>10, WalkGoesOn
<1>16. ~behind' => ~behind \/ walk = NewWalk
  <2>1. ~behind' => ~(behind /\ walk.pages > 0)
    BY <1>0
  <2>2. ~(walk.pages > 0) => walk = NewWalk
    BY <1>6
  <2> QED BY <2>1, <2>2
<1>14. CASE w.done
  <2>1. PICK d : d = cardCache'
    OBVIOUS
  <2>2. /\ Caches(d, CardAnswer) /\ Touched(cardCache, StatKey, d)
        /\ d[StatKey].fetch = "answered" /\ d[StatKey].got = all
    BY <1>0, <1>11, <1>12, <1>14, <2>1, CacheServed
  <2>3. DOMAIN d = DOMAIN cardCache
    BY <2>2 DEF Touched
  <2>4. walk' = NewWalk /\ walk'.pages = 0 /\ walk' \in Walks
    BY <1>12, <1>14, NewWalkTyped
  <2>5. (walk = NewWalk \/ Walking) => Fetched'
    BY <1>1, <1>2, <1>3, <1>13, <1>14, <2>1, <2>2, <2>4 DEF Fetched, Current
  <2>6. ~behind' => ((~behind /\ (Fetched => Fetched')) \/ Fetched')
    BY <1>16, <2>5 DEF Fetched
  <2>7. behind' \in BOOLEAN
    BY <1>0
  <2> QED BY <1>0, <1>1, <2>1, <2>2, <2>3, <2>4, <2>6, <2>7, QueryStep, DeletesKept
<1>15. CASE ~w.done
  <2>1. cardCache' = cardCache /\ walk' = [rows |-> r, cursor |-> c, pages |-> w.pages]
    BY <1>12, <1>15
  <2>2. w.pages \in Nat \ {0}
    BY <1>6, <1>9
  <2>3. walk'.rows = r /\ walk'.cursor = c /\ walk'.pages = w.pages
    BY <2>1
  <2>4. walk' \in Walks /\ walk'.pages # 0
    BY <1>8, <2>1, <2>2, <2>3 DEF Walks
  <2>5. (walk = NewWalk \/ Walking) => Walking'
    BY <1>2, <1>13, <1>15, <2>3 DEF Walking, Top
  <2>6. \A k \in Keys' : Current(k)'
    BY <1>0, <1>1, <1>2, <2>1 DEF Current
  <2>7. (walk = NewWalk \/ Walking) => Fetched'
    BY <2>5, <2>6 DEF Fetched
  <2>8. ~behind' => ((~behind /\ (Fetched => Fetched')) \/ Fetched')
    BY <1>16, <2>7 DEF Fetched
  <2>9. behind' \in BOOLEAN
    BY <1>0
  <2> QED BY <1>0, <1>1, <2>1, <2>4, <2>8, <2>9, QueryStep, DeletesKept
<1> QED BY <1>14, <1>15

\* What arrives is what was answered.
LEMMA ArriveQuerySound ==
    ASSUME CardInv, NEW k \in DOMAIN cardCache, ArriveQuery(k)
    PROVE  CardInv'
<1>0. /\ UNCHANGED <<card, charger, cardView, cardFeed, unseenFeed, readings, walk, behind>>
      /\ UNCHANGED <<deletes, pendingDelete>> /\ cardCache[k].fetch = "answered"
  BY DEF ArriveQuery
<1>1. PICK d : d = cardCache'
  OBVIOUS
<1>2. d = Arrived(cardCache, k)
  BY <1>1 DEF ArriveQuery
<1>3. /\ Caches(d, CardAnswer) /\ Touched(cardCache, k, d) /\ d[k].fetch = "idle"
      /\ d[k].data = cardCache[k].got
  BY <1>2, CacheArrived DEF CardInv
<1>4. Keys' = Keys /\ (\A j : AnswerTo(j)' = AnswerTo(j))
      /\ \A at, n : PageBelow(at, n)' = PageBelow(at, n)
  BY <1>0, CardFrame
<1>5. ASSUME NEW j \in Keys, Current(j)
      PROVE  Current(j)'
  <2>1. CASE j = k
    BY <1>0, <1>1, <1>3, <1>4, <1>5, <2>1 DEF Current
  <2>2. CASE j # k
    <3>1. j \in DOMAIN cardCache
      BY DEF CardInv, Keyed
    <3>2. cardCache'[j] = cardCache[j]
      BY <1>1, <1>3, <2>2, <3>1 DEF Touched
    <3> QED BY <1>4, <1>5, <3>2, CurrentKept
  <2> QED BY <2>1, <2>2
<1>6. Walking => Walking'
  BY <1>0, <1>4 DEF Walking, Top
<1>7. Fetched => Fetched'
  BY <1>0, <1>4, <1>5, <1>6 DEF Fetched, NewWalk, Top
<1>8. DOMAIN d = DOMAIN cardCache
  BY <1>3 DEF Touched
<1>9. walk'.pages # 0 => card = "statistics" /\ cardCache'[StatKey].fetch = "asked"
  <2> SUFFICES ASSUME walk.pages # 0
               PROVE  card = "statistics" /\ cardCache'[StatKey].fetch = "asked"
    BY <1>0
  <2>1. card = "statistics" /\ cardCache[StatKey].fetch = "asked"
    BY DEF CardInv, Keyed
  <2>2. StatKey \in DOMAIN cardCache /\ StatKey # k
    BY <1>0, <2>1 DEF CardInv, Keyed, Keys, KeysOf, StatKey
  <2>3. d[StatKey] = cardCache[StatKey]
    BY <1>3, <2>2 DEF Touched
  <2> QED BY <1>1, <2>1, <2>3
<1>10. walk' \in Walks /\ (walk'.pages = 0 => walk' = NewWalk)
  BY <1>0 DEF CardInv
<1>11. behind' \in BOOLEAN /\ (~behind' => ~behind)
  BY <1>0 DEF CardInv, CardTypeOK
<1> QED BY <1>0, <1>1, <1>3, <1>7, <1>8, <1>9, <1>10, <1>11, QueryStep, DeletesKept

\* After a failure it is for the next poll to tell.
LEMMA FailQuerySound ==
    ASSUME CardInv, NEW k \in DOMAIN cardCache, FailQuery(k)
    PROVE  CardInv'
<1>0. /\ UNCHANGED <<card, charger, cardView, cardFeed, unseenFeed, readings>>
      /\ UNCHANGED <<deletes, pendingDelete>> /\ behind' = TRUE
  BY DEF FailQuery
<1>1. PICK d : d = cardCache'
  OBVIOUS
<1>2. d = GivenUp(cardCache, k)
  BY <1>1 DEF FailQuery
<1>3. Caches(d, CardAnswer) /\ Touched(cardCache, k, d)
  BY <1>2, CacheGivenUp DEF CardInv
<1>4. DOMAIN d = DOMAIN cardCache
  BY <1>3 DEF Touched
<1>5. walk' = NewWalk /\ walk'.pages = 0 /\ walk' \in Walks
  BY NewWalkTyped DEF FailQuery
<1> QED BY <1>0, <1>1, <1>3, <1>4, <1>5, QueryStep, DeletesKept

-----------------------------------------------------------------------------
(* Events, and the feed that tells of them.                                *)

\* A step of the charger keeps the invariant if the feed tells of it.
LEMMA HappensSound ==
    ASSUME CardInv, NEW c, NEW kind, NEW value, Happens(c, kind, value), card # "readings",
           c \in ChargerType,
           HasFeed => [kind |-> kind, value |-> value] \in CardDelta,
           HasFeed => c = charger \/ ToldOf(kind)
    PROVE  CardInv'
<1>0. /\ UNCHANGED <<card, cardView, cardCache, walk, unseenFeed, readings, deletes, pendingDelete>>
      /\ charger' = c /\ behind' \in BOOLEAN
      /\ ~behind' => ~behind /\ (c = charger \/ (HasFeed /\ cardFeed.stage = "live"))
      /\ ~HasFeed => cardFeed' = cardFeed
  BY DEF Happens, CardInv, CardTypeOK
<1>1. /\ Keys' = Keys /\ HasFeed' = HasFeed /\ CardDelta' = CardDelta
      /\ CardAnswer' = CardAnswer /\ CardFeeds' = CardFeeds /\ KindsOf(card)' = KindsOf(card)
  BY <1>0 DEF Keys, KeysOf, HistoryKey, HasFeed, CardDelta, CardAnswer, CardFeeds, KindsOf
<1>2. PICK d, t : d = [kind |-> kind, value |-> value] /\ t = cardFeed'
  OBVIOUS
<1>3. ASSUME HasFeed
      PROVE  /\ t \in CardFeeds /\ t.stage = cardFeed.stage /\ t.delta = cardFeed.delta
             /\ cardFeed.stage = "live" =>
                  /\ Len(cardFeed.wire) \in Nat /\ DOMAIN cardFeed.wire = 1..Len(cardFeed.wire)
                  /\ DOMAIN t.wire = 1..(Len(cardFeed.wire) + 1)
                  /\ \A j \in DOMAIN cardFeed.wire : t.wire[j] = cardFeed.wire[j]
                  /\ t.wire[Len(cardFeed.wire) + 1] = [kind |-> "delta", data |-> d]
             /\ cardFeed.stage # "live" => t.wire = cardFeed.wire
  <2>1. cardFeed \in CardFeeds /\ d \in CardDelta /\ t = Published(cardFeed, <<d>>)
    BY <1>2, <1>3, CardTypes DEF Happens, CardInv
  <2>2. cardFeed \in Subscriptions({"device-events", "meter-history"}, {{}}, CardDelta)
    BY <2>1 DEF CardFeeds
  <2> QED BY <2>1, <2>2, PublishedOne DEF CardFeeds
<1>4. CardTypeOK'
  <2>1. charger' \in [sessions : Seq([open : BOOLEAN, tag : IdTag]),
                      reserved : SUBSET [tag : IdTag, made : Nat, expires : 1..MaxStarts],
                      artefacts : SUBSET Artefacts, reading : [Measurand -> 0..MaxStarts]]
    BY <1>0 DEF ChargerType, CardSessions, Reservations
  <2>2. HasFeed' => cardFeed' \in Subscriptions({"device-events", "meter-history"}, {{}}, CardDelta')
    BY <1>1, <1>2, <1>3 DEF CardFeeds
  <2>3. unseenFeed' => HasFeed' /\ cardFeed'.delta \in CardDelta'
    BY <1>0, <1>1, <1>2, <1>3 DEF CardInv, CardTypeOK
  <2> QED BY <1>0, <1>1, <2>1, <2>2, <2>3 DEF CardInv, CardTypeOK
<1>5. Keyed'
  <2>1. HasFeed' /\ cardFeed'.stage = "asked" => cardFeed'.wire = <<>>
    BY <1>1, <1>2, <1>3 DEF CardInv, Keyed
  <2> QED BY <1>0, <1>1, <2>1 DEF CardInv, Keyed
<1>6. ASSUME ~behind'
      PROVE  CardSound'
  <2>1. ~behind /\ ((HasFeed /\ FetchDue) \/ Fetched)
    BY <1>0, <1>6 DEF CardInv, CardSound
  <2>2. ASSUME HasFeed, cardFeed.stage = "live", ToldOf(kind)
        PROVE  FetchDue'
    <3>1. PICK l : l = Len(cardFeed.wire) + 1
      OBVIOUS
    <3>2. l \in DOMAIN t.wire /\ t.wire[l] = [kind |-> "delta", data |-> d]
      BY <1>3, <2>2, <3>1
    <3>3. t.wire[l].kind = "delta" /\ t.wire[l].data = d /\ d.kind = kind
      BY <1>2, <3>2
    <3> QED BY <1>1, <1>2, <2>2, <3>2, <3>3 DEF FetchDue, DeltaOn, ToldOf
  <2>3. ASSUME HasFeed, FetchDue
        PROVE  FetchDue'
    <3>1. DOMAIN cardFeed.wire \subseteq DOMAIN t.wire
          /\ \A j \in DOMAIN cardFeed.wire : t.wire[j] = cardFeed.wire[j]
      BY <1>3, <2>3
    <3>2. CASE unseenFeed /\ ToldOf(cardFeed.delta.kind)
      BY <1>0, <1>1, <1>2, <1>3, <2>3, <3>2 DEF FetchDue, ToldOf
    <3>3. CASE \E j \in DOMAIN cardFeed.wire : DeltaOn(j) /\ ToldOf(cardFeed.wire[j].data.kind)
      <4>1. PICK j \in DOMAIN cardFeed.wire : DeltaOn(j) /\ ToldOf(cardFeed.wire[j].data.kind)
        BY <3>3
      <4>2. j \in DOMAIN t.wire /\ t.wire[j] = cardFeed.wire[j]
        BY <3>1
      <4> QED BY <1>1, <1>2, <4>1, <4>2 DEF FetchDue, DeltaOn, ToldOf
    <3> QED BY <2>3, <3>2, <3>3 DEF FetchDue
  <2>4. ASSUME c = charger, Fetched
        PROVE  Fetched'
    <3>1. (\A j : AnswerTo(j)' = AnswerTo(j)) /\ \A at, n : PageBelow(at, n)' = PageBelow(at, n)
      BY <1>0, <2>4, CardFrame
    <3>2. \A j \in Keys : Current(j)'
      BY <1>0, <2>4, <3>1, CurrentKept DEF Fetched
    <3> QED BY <1>0, <1>1, <2>4, <3>1, <3>2 DEF Fetched, Walking, Top, NewWalk
  <2> QED BY <1>0, <1>1, <1>6, <2>1, <2>2, <2>3, <2>4 DEF CardSound
<1>7. Caches(cardCache', CardAnswer') /\ walk' \in Walks /\ (walk'.pages = 0 => walk' = NewWalk')
  BY <1>0, <1>1 DEF CardInv, NewWalk, Top
<1> QED BY <1>4, <1>5, <1>6, <1>7 DEF CardInv, Walks

\* The steps at the charger.
LEMMA SessionStartsSound ==
    ASSUME CardInv, NEW t \in IdTag, SessionStarts(t)
    PROVE  CardInv'
<1>1. PICK c, s : c = [charger EXCEPT !.sessions = s]
                  /\ s = Append(charger.sessions, [open |-> TRUE, tag |-> t])
  OBVIOUS
<1>2. charger \in ChargerType /\ charger.sessions \in CardSessions
  BY CardTypes DEF CardInv, ChargerType
<1>3. s \in CardSessions
  BY <1>1, <1>2 DEF CardSessions
<1>4. c \in ChargerType
  BY <1>1, <1>2, <1>3 DEF ChargerType
<1>5. card # "readings" /\ (HasFeed => ToldOf("tx-started"))
      /\ Happens(c, "tx-started", 0)
  BY <1>1 DEF SessionStarts, HasFeed, ToldOf, KindsOf
<1>6. [kind |-> "tx-started", value |-> 0] \in CardDelta
  BY <1>5 DEF CardDelta
<1> QED BY <1>4, <1>5, <1>6, HappensSound

\* A session ends,
LEMMA SessionEndsSound ==
    ASSUME CardInv, NEW i \in DOMAIN Sessions, SessionEnds(i)
    PROVE  CardInv'
<1>1. PICK c, s : c = [charger EXCEPT !.sessions = s]
                  /\ s = [charger.sessions EXCEPT ![i].open = FALSE]
  OBVIOUS
<1>2. charger \in ChargerType /\ charger.sessions \in CardSessions /\ i \in DOMAIN charger.sessions
  BY CardTypes DEF CardInv, ChargerType, Sessions
<1>3. s \in CardSessions
  <2>1. charger.sessions[i] \in [open : BOOLEAN, tag : IdTag]
    <3>1. i \in 1..Len(charger.sessions)
      BY <1>2 DEF CardSessions
    <3> QED BY <1>2, <3>1, ElementOfSeq DEF CardSessions
  <2>2. PICK e : e = [charger.sessions[i] EXCEPT !.open = FALSE]
    OBVIOUS
  <2>3. e \in [open : BOOLEAN, tag : IdTag] /\ s = [charger.sessions EXCEPT ![i] = e]
    BY <1>1, <2>1, <2>2
  <2> QED BY <1>2, <2>3 DEF CardSessions
<1>4. c \in ChargerType
  BY <1>1, <1>2, <1>3 DEF ChargerType
<1>5. Happens(c, "tx-stopped", 0) /\ charger.sessions[i].open
  BY <1>1 DEF SessionEnds, Sessions
<1>6. card # "readings"
  BY <1>2, <1>5 DEF CardInv, Keyed
<1>7. [kind |-> "tx-stopped", value |-> 0] \in CardDelta
  BY <1>6 DEF CardDelta
<1>8. HasFeed => ToldOf("tx-stopped")
  BY <1>6 DEF HasFeed, ToldOf, KindsOf
<1> QED BY <1>4, <1>5, <1>6, <1>7, <1>8, HappensSound

\* another event passes,
LEMMA EventPassesSound ==
    ASSUME CardInv, EventPasses
    PROVE  CardInv'
<1>1. PICK kind \in {"status", "heartbeat"} : Happens(charger, kind, 0)
  BY DEF EventPasses
<1>2. card # "readings" /\ charger \in ChargerType
  BY CardTypes DEF EventPasses, KindsOf, CardInv
<1>3. [kind |-> kind, value |-> 0] \in CardDelta
  BY <1>2 DEF CardDelta
<1> QED BY <1>1, <1>2, <1>3, HappensSound

\* a reservation is made,
LEMMA ReserveSound ==
    ASSUME CardInv, NEW t \in IdTag, NEW until \in 1..MaxStarts, Reserve(t, until)
    PROVE  CardInv'
<1>1. PICK r : r = [tag |-> t, made |-> Len(Sessions), expires |-> until]
  OBVIOUS
<1>2. PICK c : c = [charger EXCEPT !.reserved = @ \cup {r}]
  OBVIOUS
<1>3. charger \in ChargerType /\ r \in Reservations
  BY <1>1, CardTypes DEF CardInv, Reservations
<1>4. c \in ChargerType
  BY <1>2, <1>3 DEF ChargerType
<1>5. card = "reservations" /\ Happens(c, "reserved", 0) /\ ~HasFeed
  BY <1>1, <1>2 DEF Reserve, HasFeed
<1> QED BY <1>4, <1>5, HappensSound

\* and an artefact is deleted in another tab.
LEMMA DeleteElsewhereSound ==
    ASSUME CardInv, NEW a \in Artefacts, DeleteElsewhere(a)
    PROVE  CardInv'
<1>1. PICK c : c = [charger EXCEPT !.artefacts = @ \ {a}]
  OBVIOUS
<1>2. charger \in ChargerType
  BY CardTypes DEF CardInv
<1>3. c \in ChargerType
  BY <1>1, <1>2 DEF ChargerType
<1>4. card = "diagnostics" /\ Happens(c, "deleted", 0) /\ ~HasFeed
  BY <1>1 DEF DeleteElsewhere, HasFeed
<1> QED BY <1>3, <1>4, HappensSound

\* A sample is on its way to the card, or left behind.
LEMMA SamplesSound ==
    ASSUME CardInv, NEW m \in Measurand, Samples(m)
    PROVE  CardInv'
<1>0. card = "readings" /\ HasFeed /\ charger \in ChargerType /\ cardFeed \in CardFeeds
  BY CardTypes DEF Samples, HasFeed, CardInv
<1>1. PICK n, top : top = Max({charger.reading[l] : l \in Measurand}) /\ n = 1 + top
  OBVIOUS
<1>2. /\ charger.reading \in [Measurand -> 0..MaxStarts] /\ MaxStarts \in Nat
      /\ \A l \in Measurand : charger.reading[l] \in 0..MaxStarts
  BY <1>0, CardBounds DEF ChargerType
<1>3. top \in Nat /\ \A l \in Measurand : charger.reading[l] <= top
  <2>1. PICK p, s : p = charger.reading["power"] /\ s = charger.reading["soc"]
    OBVIOUS
  <2>2. p \in Nat /\ s \in Nat /\ Measurand = {"power", "soc"}
    BY <1>2, <2>1 DEF Measurand
  <2>3. {charger.reading[l] : l \in Measurand} = {p, s}
    BY <2>1, <2>2
  <2>4. PICK b \in {p, s} : \A y \in {p, s} : b >= y
    BY <2>2
  <2>5. top = CHOOSE x \in {p, s} : \A y \in {p, s} : x >= y
    BY <1>1, <2>3 DEF Max
  <2>6. top \in {p, s} /\ \A y \in {p, s} : top >= y
    BY <2>4, <2>5
  <2> QED BY <2>1, <2>2, <2>6
<1>4. PICK c : c = [charger EXCEPT !.reading[m] = n]
  OBVIOUS
<1>5. n <= MaxStarts /\ Happens(c, m, n)
  BY <1>1, <1>4 DEF Samples
<1>6. /\ n \in 1..MaxStarts /\ n # charger.reading[m]
  BY <1>1, <1>2, <1>3, <1>5
<1>7. /\ c \in ChargerType /\ c.reading[m] = n
      /\ (\A l \in Measurand \ {m} : c.reading[l] = charger.reading[l])
      /\ c.sessions = charger.sessions
  BY <1>0, <1>4, <1>6, CardBounds DEF ChargerType
<1>8. c # charger
  BY <1>6, <1>7
<1>9. /\ UNCHANGED <<card, cardView, cardCache, walk, unseenFeed, readings, deletes, pendingDelete>>
      /\ charger' = c /\ behind' \in BOOLEAN
      /\ ~behind' => ~behind /\ cardFeed.stage = "live"
  BY <1>5, <1>8 DEF Happens, CardInv, CardTypeOK
<1>10. /\ Keys' = Keys /\ HasFeed' = HasFeed /\ CardDelta' = CardDelta
       /\ CardAnswer' = CardAnswer /\ CardFeeds' = CardFeeds
  BY <1>9 DEF Keys, KeysOf, HistoryKey, HasFeed, CardDelta, CardAnswer, CardFeeds
<1>11. PICK d, t : d = [kind |-> m, value |-> n] /\ t = cardFeed'
  OBVIOUS
<1>12. d \in CardDelta /\ d.kind = m /\ d.value = n
  BY <1>0, <1>6, <1>11 DEF CardDelta
<1>13. /\ t \in CardFeeds /\ t.stage = cardFeed.stage /\ t.delta = cardFeed.delta
       /\ cardFeed.stage = "live" =>
            /\ Len(cardFeed.wire) \in Nat /\ DOMAIN cardFeed.wire = 1..Len(cardFeed.wire)
            /\ DOMAIN t.wire = 1..(Len(cardFeed.wire) + 1)
            /\ \A j \in DOMAIN cardFeed.wire : t.wire[j] = cardFeed.wire[j]
            /\ t.wire[Len(cardFeed.wire) + 1] = [kind |-> "delta", data |-> d]
       /\ cardFeed.stage # "live" => t.wire = cardFeed.wire
  <2>1. t = Published(cardFeed, <<d>>)
    BY <1>0, <1>5, <1>11 DEF Happens
  <2> QED BY <1>0, <1>12, <2>1, PublishedOne DEF CardFeeds
<1>14. CardTypeOK'
  <2>1. charger' \in [sessions : Seq([open : BOOLEAN, tag : IdTag]),
                      reserved : SUBSET [tag : IdTag, made : Nat, expires : 1..MaxStarts],
                      artefacts : SUBSET Artefacts, reading : [Measurand -> 0..MaxStarts]]
    BY <1>7, <1>9 DEF ChargerType, CardSessions, Reservations
  <2>2. HasFeed' => cardFeed' \in Subscriptions({"device-events", "meter-history"}, {{}}, CardDelta')
    BY <1>10, <1>11, <1>13 DEF CardFeeds
  <2>3. unseenFeed' => HasFeed' /\ cardFeed'.delta \in CardDelta'
    BY <1>9, <1>10, <1>11, <1>13 DEF CardInv, CardTypeOK
  <2> QED BY <1>9, <1>10, <2>1, <2>2, <2>3 DEF CardInv, CardTypeOK
<1>15. Keyed'
  <2>1. HasFeed' /\ cardFeed'.stage = "asked" => cardFeed'.wire = <<>>
    BY <1>10, <1>11, <1>13 DEF CardInv, Keyed
  <2> QED BY <1>7, <1>9, <1>10, <2>1 DEF CardInv, Keyed
<1>16. ASSUME ~behind', NEW l \in Measurand
       PROVE  ReadingFits(l)'
  <2>1. cardFeed.stage = "live" /\ ReadingFits(l)
    BY <1>0, <1>9, <1>16 DEF CardInv, CardSound
  <2>2. PICK e \in Nat : e = Len(cardFeed.wire)
    BY <1>13, <2>1
  <2>3. /\ DOMAIN cardFeed.wire = 1..e /\ DOMAIN t.wire = 1..(e + 1)
        /\ \A j \in 1..e : t.wire[j] = cardFeed.wire[j]
        /\ t.wire[e + 1] = [kind |-> "delta", data |-> d]
    BY <1>13, <2>1, <2>2
  <2>4. t.wire[e + 1].kind = "delta" /\ t.wire[e + 1].data = d
    BY <2>3
  <2>5. CASE l = m
    <3>1. DeltaOn(e + 1)' /\ NoneAfter(l, e + 1)'
      BY <1>11, <2>3, <2>4 DEF DeltaOn, NoneAfter
    <3>2. LastAt(l, e + 1)'
      BY <1>7, <1>9, <1>11, <1>12, <2>4, <2>5, <3>1 DEF LastAt
    <3>3. e + 1 \in DOMAIN t.wire
      BY <2>3
    <3> QED BY <1>11, <3>2, <3>3 DEF ReadingFits
  <2>6. CASE l # m
    <3>1. charger'.reading[l] = charger.reading[l]
      BY <1>7, <1>9, <2>6
    <3>2. ASSUME NEW j \in Nat, NoneAfter(l, j)
          PROVE  NoneAfter(l, j)'
      <4> SUFFICES ASSUME NEW i \in 1..(e + 1), i > j, t.wire[i].kind = "delta"
                   PROVE  t.wire[i].data.kind # l
        BY <1>11, <2>3 DEF NoneAfter, DeltaOn
      <4>1. CASE i = e + 1
        BY <1>12, <2>4, <2>6, <4>1
      <4>2. CASE i # e + 1
        <5>1. i \in 1..e
          BY <4>2
        <5> QED BY <2>3, <3>2, <5>1 DEF NoneAfter, DeltaOn
      <4> QED BY <4>1, <4>2
    <3>3. Unrendered(l)' = Unrendered(l)
      BY <1>9, <1>11, <1>13 DEF Unrendered
    <3>4. CASE \E j \in DOMAIN cardFeed.wire : LastAt(l, j)
      <4>1. PICK j \in 1..e : LastAt(l, j)
        BY <2>3, <3>4
      <4>2. t.wire[j] = cardFeed.wire[j] /\ j \in 1..(e + 1) /\ j \in Nat
        BY <2>3
      <4>3. NoneAfter(l, j)'
        BY <3>2, <4>1, <4>2 DEF LastAt
      <4>4. LastAt(l, j)'
        BY <1>11, <2>3, <3>1, <4>1, <4>2, <4>3 DEF LastAt, DeltaOn
      <4> QED BY <1>11, <2>3, <4>2, <4>4 DEF ReadingFits
    <3>5. CASE ~\E j \in DOMAIN cardFeed.wire : LastAt(l, j)
      <4>1. NoneAfter(l, 0)'
        BY <2>1, <3>2, <3>5 DEF ReadingFits
      <4> QED BY <1>9, <1>11, <1>13, <2>1, <3>1, <3>3, <3>5, <4>1 DEF ReadingFits
    <3> QED BY <3>4, <3>5
  <2> QED BY <2>5, <2>6
<1>17. ~behind' => CardSound'
  BY <1>0, <1>9, <1>16 DEF CardSound
<1>18. Caches(cardCache', CardAnswer') /\ walk' \in Walks /\ (walk'.pages = 0 => walk' = NewWalk')
  BY <1>9, <1>10 DEF CardInv, NewWalk, Top
<1> QED BY <1>14, <1>15, <1>17, <1>18 DEF CardInv, Walks

\* A step of the feed keeps the invariant if it keeps what is to be told.
LEMMA FeedStep ==
    ASSUME CardInv, HasFeed,
           UNCHANGED <<card, charger, cardView, cardCache, walk, readings, deletes, pendingDelete>>,
           cardFeed' \in CardFeeds, unseenFeed' \in BOOLEAN, behind' \in BOOLEAN,
           unseenFeed' => cardFeed'.delta \in CardDelta,
           cardFeed'.stage = "asked" => cardFeed'.wire = <<>>,
           ~behind' => ~behind,
           ~behind' /\ card # "readings" /\ FetchDue => FetchDue',
           \A m \in Measurand : ~behind' /\ ReadingFits(m) => ReadingFits(m)'
    PROVE  CardInv'
<1>1. /\ Keys' = Keys /\ HasFeed' = HasFeed /\ CardDelta' = CardDelta
      /\ CardAnswer' = CardAnswer /\ CardFeeds' = CardFeeds
      /\ (\A k : AnswerTo(k)' = AnswerTo(k)) /\ \A at, n : PageBelow(at, n)' = PageBelow(at, n)
  BY CardFrame
<1>2. CardTypeOK'
  <2>1. HasFeed' => cardFeed' \in Subscriptions({"device-events", "meter-history"}, {{}}, CardDelta')
    BY <1>1 DEF CardFeeds
  <2> QED BY <1>1, <2>1 DEF CardInv, CardTypeOK
<1>3. Keyed'
  BY <1>1 DEF CardInv, Keyed
<1>4. Fetched => Fetched'
  <2>1. \A j \in Keys : Current(j) => Current(j)'
    BY <1>1, CurrentKept
  <2>2. Walking => Walking'
    BY <1>1 DEF Walking, Top
  <2> QED BY <1>1, <2>1, <2>2 DEF Fetched, NewWalk, Top
<1>5. ~behind' => CardSound'
  BY <1>1, <1>4 DEF CardInv, CardSound
<1>6. Caches(cardCache', CardAnswer') /\ walk' \in Walks /\ (walk'.pages = 0 => walk' = NewWalk')
  BY <1>1 DEF CardInv, NewWalk, Top
<1> QED BY <1>2, <1>3, <1>5, <1>6 DEF CardInv, Walks

\* What is on the wire of the card.
LEMMA WireTyped ==
    ASSUME cardFeed \in CardFeeds, NEW i \in DOMAIN cardFeed.wire
    PROVE  /\ cardFeed.wire[i].kind \in {"snapshot", "delta"}
           /\ cardFeed.wire[i].kind = "delta" => cardFeed.wire[i].data \in CardDelta
<1>1. cardFeed.wire \in Seq(Messages({{}}, CardDelta))
  BY DEF CardFeeds, Subscriptions, Messages
<1>2. i \in 1..Len(cardFeed.wire)
  BY <1>1
<1>3. cardFeed.wire[i] \in Messages({{}}, CardDelta)
  BY <1>1, <1>2, ElementOfSeq
<1> QED BY <1>3 DEF Messages

\* The subscription opens.
LEMMA OpenFeedSound ==
    ASSUME CardInv, OpenFeed
    PROVE  CardInv'
<1>0. /\ HasFeed /\ cardFeed \in CardFeeds /\ unseenFeed \in BOOLEAN /\ behind \in BOOLEAN
      /\ UNCHANGED <<card, charger, cardView, cardCache, walk, readings, deletes, pendingDelete>>
      /\ UNCHANGED <<unseenFeed, behind>>
      /\ unseenFeed => cardFeed.delta \in CardDelta
  BY CardTypes DEF OpenFeed, CardInv, CardTypeOK
<1>1. PICK t : t = cardFeed'
  OBVIOUS
<1>2. /\ t \in CardFeeds /\ t.stage # "asked" /\ t.delta = cardFeed.delta
      /\ \A j \in DOMAIN t.wire : DeltaOn(j)' => DeltaOn(j)
      /\ \A j \in DOMAIN cardFeed.wire : DeltaOn(j) => j \in DOMAIN t.wire /\ t.wire[j] = cardFeed.wire[j]
  <2>1. CASE cardFeed.stage = "asked"
    <3>1. t = SnapshotRead(cardFeed, {}) /\ cardFeed.wire = <<>>
      BY <1>0, <1>1, <2>1 DEF OpenFeed, CardInv, Keyed
    <3>2. PICK K, Z, z : K = {"device-events", "meter-history"} /\ Z = {{}} /\ z = {} /\ z \in Z
      OBVIOUS
    <3>3. /\ t \in CardFeeds /\ t.stage = "read" /\ t.delta = cardFeed.delta
          /\ DOMAIN t.wire = {1} /\ t.wire[1] = [kind |-> "snapshot", data |-> {}]
      <4>1. cardFeed \in Subscriptions(K, Z, CardDelta) /\ t = SnapshotRead(cardFeed, z)
        BY <1>0, <3>1, <3>2 DEF CardFeeds
      <4>2. /\ t \in Subscriptions(K, Z, CardDelta) /\ t.stage = "read" /\ t.delta = cardFeed.delta
            /\ DOMAIN t.wire = {1} /\ t.wire[1] = [kind |-> "snapshot", data |-> z]
        <5>1. PICK s, D : s = cardFeed /\ D = CardDelta
          OBVIOUS
        <5>2. s \in Subscriptions(K, Z, D) /\ t = SnapshotRead(s, z) /\ z \in Z
          BY <3>2, <4>1, <5>1
        <5>3. /\ t \in Subscriptions(K, Z, D) /\ t.stage = "read" /\ t.delta = s.delta
              /\ DOMAIN t.wire = {1} /\ t.wire[1] = [kind |-> "snapshot", data |-> z]
          BY <5>2, ReadHook
        <5> QED BY <5>1, <5>3
      <4> QED BY <3>2, <4>2 DEF CardFeeds
    <3>4. t.wire[1].kind = "snapshot" /\ DOMAIN cardFeed.wire = {}
      BY <3>1, <3>3
    <3> QED BY <1>1, <3>3, <3>4 DEF DeltaOn
  <2>2. CASE cardFeed.stage = "read"
    <3>1. t = Registered(cardFeed)
      BY <1>1, <2>2 DEF OpenFeed
    <3>2. t \in CardFeeds /\ t.stage = "live" /\ t.delta = cardFeed.delta /\ t.wire = cardFeed.wire
      BY <1>0, <3>1, RegisteredHook DEF CardFeeds
    <3> QED BY <1>1, <3>2 DEF DeltaOn
  <2> QED BY <2>1, <2>2 DEF OpenFeed
<1>3. ASSUME FetchDue
      PROVE  FetchDue'
  <2>1. KindsOf(card)' = KindsOf(card)
    BY <1>0 DEF KindsOf
  <2> QED BY <1>0, <1>1, <1>2, <1>3, <2>1 DEF FetchDue, ToldOf, DeltaOn
<1>4. ASSUME NEW m \in Measurand, ReadingFits(m)
      PROVE  ReadingFits(m)'
  <2>1. ASSUME NEW j, NoneAfter(m, j)
        PROVE  NoneAfter(m, j)'
    <3> SUFFICES ASSUME NEW i \in DOMAIN t.wire, i > j, DeltaOn(i)'
                 PROVE  t.wire[i].data.kind # m
      BY <1>1 DEF NoneAfter
    <3>1. DeltaOn(i) /\ i \in DOMAIN cardFeed.wire /\ t.wire[i] = cardFeed.wire[i]
      BY <1>2 DEF DeltaOn
    <3> QED BY <2>1, <3>1 DEF NoneAfter
  <2>2. ASSUME NEW j \in DOMAIN cardFeed.wire, LastAt(m, j)
        PROVE  LastAt(m, j)' /\ j \in DOMAIN t.wire
    <3>1. j \in DOMAIN t.wire /\ t.wire[j] = cardFeed.wire[j]
      BY <1>2, <2>2 DEF LastAt
    <3> QED BY <1>0, <1>1, <2>1, <2>2, <3>1 DEF LastAt, DeltaOn
  <2>3. Unrendered(m)' = Unrendered(m)
    BY <1>0, <1>1, <1>2 DEF Unrendered
  <2> QED BY <1>0, <1>1, <1>2, <1>4, <2>1, <2>2, <2>3 DEF ReadingFits
<1> QED BY <1>0, <1>1, <1>2, <1>3, <1>4, FeedStep

\* A delta that is lost under another one is left to the next poll.
LEMMA HearFeedSound ==
    ASSUME CardInv, HearFeed
    PROVE  CardInv'
<1>0. /\ HasFeed /\ cardFeed \in CardFeeds /\ unseenFeed \in BOOLEAN /\ behind \in BOOLEAN
      /\ UNCHANGED <<card, charger, cardView, cardCache, walk, readings, deletes, pendingDelete>>
      /\ unseenFeed => cardFeed.delta \in CardDelta
      /\ Deliverable(cardFeed)
  BY CardTypes DEF HearFeed, CardInv, CardTypeOK
<1>1. PICK t : t = cardFeed'
  OBVIOUS
<1>2. t = Delivered(cardFeed)
  BY <1>1 DEF HearFeed
<1>3. /\ t \in CardFeeds /\ t.stage = "live"
      /\ 1 \in DOMAIN cardFeed.wire /\ Head(cardFeed.wire) = cardFeed.wire[1]
      /\ Arriving(cardFeed) = cardFeed.wire[1].kind /\ Arriving(cardFeed) \in {"snapshot", "delta"}
      /\ Arriving(cardFeed) = "snapshot" => t.delta = cardFeed.delta
      /\ Arriving(cardFeed) = "delta" => t.delta = cardFeed.wire[1].data
      /\ Len(t.wire) \in Nat /\ DOMAIN t.wire = 1..Len(t.wire)
      /\ DOMAIN cardFeed.wire = 1..(Len(t.wire) + 1)
      /\ \A i \in DOMAIN t.wire : t.wire[i] = cardFeed.wire[i + 1]
  <2>1. cardFeed \in Subscriptions({"device-events", "meter-history"}, {{}}, CardDelta)
    BY <1>0 DEF CardFeeds
  <2> QED BY <1>0, <1>2, <2>1, DeliveredOne DEF CardFeeds
<1>4. PICK e \in Nat : e = Len(t.wire)
  BY <1>3
<1>4a. PICK h : h = cardFeed.wire[1]
  OBVIOUS
<1>5. /\ DOMAIN t.wire = 1..e /\ DOMAIN cardFeed.wire = 1..(e + 1)
      /\ \A i \in 1..e : t.wire[i] = cardFeed.wire[i + 1]
  BY <1>3, <1>4, <1>4a
<1>6. /\ h.kind \in {"snapshot", "delta"} /\ (h.kind = "delta" => h.data \in CardDelta)
  BY <1>0, <1>3, <1>4, <1>4a, WireTyped
<1>7. /\ unseenFeed' \in BOOLEAN /\ (unseenFeed' <=> unseenFeed \/ h.kind = "delta")
      /\ behind' \in BOOLEAN
      /\ ~behind' => ~behind /\ ~(unseenFeed /\ LostUnder(cardFeed.delta, h.data))
      /\ h.kind = "snapshot" => t.delta = cardFeed.delta
      /\ h.kind = "delta" => t.delta = h.data
  BY <1>0, <1>3, <1>4, <1>4a DEF HearFeed
<1>8. unseenFeed' => cardFeed'.delta \in CardDelta
  BY <1>0, <1>1, <1>6, <1>7
<1>9. \A i \in 1..e : DeltaOn(i)' <=> DeltaOn(i + 1)
  BY <1>1, <1>5 DEF DeltaOn
<1>10. DeltaOn(1) <=> h.kind = "delta"
  BY <1>4, <1>4a, <1>5 DEF DeltaOn
<1>11. ASSUME ~behind', card # "readings", FetchDue
       PROVE  FetchDue'
  <2>1. KindsOf(card)' = KindsOf(card)
    BY <1>0 DEF KindsOf
  <2>2. CASE unseenFeed /\ ToldOf(cardFeed.delta.kind)
    <3>1. h.kind = "delta" => ToldOf(h.data.kind)
      BY <1>7, <1>11, <2>2 DEF LostUnder, ToldOf
    <3> QED BY <1>1, <1>6, <1>7, <2>1, <2>2, <3>1 DEF FetchDue, ToldOf
  <2>3. CASE \E j \in DOMAIN cardFeed.wire : DeltaOn(j) /\ ToldOf(cardFeed.wire[j].data.kind)
    <3>1. PICK j \in 1..(e + 1) : DeltaOn(j) /\ ToldOf(cardFeed.wire[j].data.kind)
      BY <1>5, <2>3
    <3>2. CASE j = 1
      BY <1>1, <1>4, <1>4a, <1>7, <1>10, <2>1, <3>1, <3>2 DEF FetchDue, ToldOf
    <3>3. CASE j # 1
      <4>1. PICK i \in 1..e : j = i + 1
        <5>1. j - 1 \in 1..e /\ j = (j - 1) + 1
          BY <3>3
        <5> QED BY <5>1
      <4>2. DeltaOn(i)' /\ t.wire[i] = cardFeed.wire[j]
        BY <1>5, <1>9, <3>1, <4>1
      <4> QED BY <1>1, <1>5, <2>1, <3>1, <4>2 DEF FetchDue, ToldOf
    <3> QED BY <3>2, <3>3
  <2> QED BY <1>11, <2>2, <2>3 DEF FetchDue
<1>12. ASSUME NEW m \in Measurand, ~behind', ReadingFits(m)
       PROVE  ReadingFits(m)'
  <2>1. ASSUME NEW j \in Nat, NoneAfter(m, j + 1)
        PROVE  NoneAfter(m, j)'
    <3> SUFFICES ASSUME NEW i \in 1..e, i > j, DeltaOn(i)'
                 PROVE  t.wire[i].data.kind # m
      BY <1>1, <1>5 DEF NoneAfter
    <3>1. DeltaOn(i + 1) /\ i + 1 \in 1..(e + 1) /\ i + 1 > j + 1 /\ t.wire[i] = cardFeed.wire[i + 1]
      BY <1>5, <1>9
    <3> QED BY <1>5, <2>1, <3>1 DEF NoneAfter
  <2>2. CASE \E j \in DOMAIN cardFeed.wire : LastAt(m, j)
    <3>1. PICK j \in 1..(e + 1) : LastAt(m, j)
      BY <1>5, <2>2
    <3>2. CASE j = 1
      <4>1. NoneAfter(m, 0 + 1) /\ DeltaOn(1) /\ h.data.kind = m /\ h.data.value = charger.reading[m]
        BY <1>4, <1>4a, <3>1, <3>2 DEF LastAt
      <4>2. NoneAfter(m, 0)'
        BY <2>1, <4>1
      <4>3. t.delta = h.data /\ unseenFeed'
        BY <1>7, <1>10, <4>1
      <4> QED BY <1>0, <1>1, <4>1, <4>2, <4>3 DEF ReadingFits, Unrendered
    <3>3. CASE j # 1
      <4>1. PICK i \in 1..e : j = i + 1
        <5>1. j - 1 \in 1..e /\ j = (j - 1) + 1
          BY <3>3
        <5> QED BY <5>1
      <4>2. DeltaOn(i)' /\ t.wire[i] = cardFeed.wire[j] /\ NoneAfter(m, i + 1) /\ i \in Nat
        BY <1>5, <1>9, <3>1, <4>1 DEF LastAt
      <4>3. NoneAfter(m, i)'
        BY <2>1, <4>2
      <4>4. LastAt(m, i)'
        BY <1>0, <1>1, <3>1, <4>2, <4>3 DEF LastAt
      <4> QED BY <1>1, <1>5, <4>4 DEF ReadingFits
    <3> QED BY <3>2, <3>3
  <2>3. CASE ~\E j \in DOMAIN cardFeed.wire : LastAt(m, j)
    <3>1. NoneAfter(m, 0)
      BY <1>12, <2>3 DEF ReadingFits
    <3>2. NoneAfter(m, 0 + 1)
      BY <1>5, <3>1 DEF NoneAfter
    <3>3. NoneAfter(m, 0)'
      BY <2>1, <3>2
    <3>4. h.kind = "delta" => h.data.kind # m
      BY <1>4, <1>4a, <1>5, <1>10, <3>1 DEF NoneAfter
    <3>5. CASE Unrendered(m)
      <4>1. card = "readings"
        BY <1>0, <3>5 DEF Unrendered, CardDelta, Measurand
      <4>2. h.kind # "delta"
        BY <1>7, <1>12, <3>4, <3>5, <4>1 DEF LostUnder, Unrendered
      <4>3. t.delta = cardFeed.delta /\ unseenFeed'
        BY <1>6, <1>7, <3>5, <4>2 DEF Unrendered
      <4> QED BY <1>0, <1>1, <1>12, <2>3, <3>3, <3>5, <4>3 DEF ReadingFits, Unrendered
    <3>6. CASE ~Unrendered(m)
      <4>1. ~Unrendered(m)'
        BY <1>1, <1>6, <1>7, <3>4, <3>6 DEF Unrendered
      <4> QED BY <1>0, <1>12, <2>3, <3>3, <3>6, <4>1 DEF ReadingFits
    <3> QED BY <3>5, <3>6
  <2> QED BY <2>2, <2>3
<1> QED BY <1>0, <1>1, <1>3, <1>7, <1>8, <1>11, <1>12, FeedStep

-----------------------------------------------------------------------------
(* Renders and controls.                                                   *)

\* A card of one query that is fetched again will show everything.
LEMMA AskedAgain ==
    ASSUME NEW k, Keys' = {k}, cardCache'[k].fetch = "asked", walk' = NewWalk'
    PROVE  Fetched'
<1>1. Current(k)'
  BY DEF Current
<1> QED BY <1>1 DEF Fetched

\* NewWalk is a constant.
LEMMA NewWalkStays == NewWalk' = NewWalk
  BY DEF NewWalk, Top

\* The effect of the feed invalidates the queries of the card.
LEMMA RenderFeedSound ==
    ASSUME CardInv, RenderFeed
    PROVE  CardInv'
<1>0. /\ UNCHANGED <<card, charger, cardView, cardFeed, deletes, pendingDelete, behind>>
      /\ unseenFeed /\ unseenFeed' = FALSE /\ HasFeed /\ behind \in BOOLEAN
      /\ cardFeed.delta \in CardDelta
  BY DEF RenderFeed, CardInv, CardTypeOK
<1>1. /\ Keys' = Keys /\ HasFeed' = HasFeed /\ CardDelta' = CardDelta
      /\ CardAnswer' = CardAnswer /\ CardFeeds' = CardFeeds /\ KindsOf(card)' = KindsOf(card)
      /\ (\A k : AnswerTo(k)' = AnswerTo(k)) /\ \A at, n : PageBelow(at, n)' = PageBelow(at, n)
  BY <1>0, CardFrame
<1>2. CASE card = "readings"
  <2>1. PICK m, v : m = cardFeed.delta.kind /\ v = cardFeed.delta.value
    OBVIOUS
  <2>2. m \in Measurand /\ v \in 0..MaxStarts
    BY <1>0, <1>2, <2>1, CardBounds DEF CardDelta
  <2>3. readings' = [readings EXCEPT ![m] = v] /\ UNCHANGED <<cardCache, walk>>
    BY <1>2, <2>1 DEF RenderFeed
  <2>4. readings \in [Measurand -> 0..MaxStarts]
    BY DEF CardInv, CardTypeOK
  <2>5. /\ readings' \in [Measurand -> 0..MaxStarts] /\ readings'[m] = v
        /\ \A l \in Measurand \ {m} : readings'[l] = readings[l]
    BY <2>2, <2>3, <2>4
  <2>6. CardTypeOK' /\ Keyed'
    BY <1>0, <1>1, <2>3, <2>5 DEF CardInv, CardTypeOK, Keyed
  <2>7. ASSUME NEW l \in Measurand, ReadingFits(l)
        PROVE  ReadingFits(l)'
    <3>1. \A j : LastAt(l, j)' = LastAt(l, j) /\ NoneAfter(l, j)' = NoneAfter(l, j)
      BY <1>0 DEF LastAt, NoneAfter, DeltaOn
    <3>2. ~Unrendered(l)'
      BY <1>0 DEF Unrendered
    <3>3. Unrendered(l) => l = m
      BY <2>1 DEF Unrendered
    <3>4. ~Unrendered(l) => l # m
      BY <1>0, <2>1 DEF Unrendered
    <3>5. CASE \E j \in DOMAIN cardFeed.wire : LastAt(l, j)
      BY <1>0, <3>1, <3>5 DEF ReadingFits
    <3>6. CASE NoneAfter(l, 0) /\ Unrendered(l) /\ cardFeed.delta.value = charger.reading[l]
      BY <1>0, <2>1, <2>5, <3>1, <3>2, <3>3, <3>6 DEF ReadingFits
    <3>7. CASE NoneAfter(l, 0) /\ ~Unrendered(l) /\ readings[l] = charger.reading[l]
      BY <1>0, <2>5, <3>1, <3>2, <3>4, <3>7 DEF ReadingFits
    <3> QED BY <2>7, <3>5, <3>6, <3>7 DEF ReadingFits
  <2>8. ~behind' => CardSound'
    BY <1>0, <1>2, <2>7 DEF CardInv, CardSound
  <2> QED BY <1>1, <2>3, <2>6, <2>8, NewWalkStays DEF CardInv, Walks
<1>3. CASE card # "readings" /\ ToldOf(cardFeed.delta.kind)
  <2>1. PICK k \in Keys : cardCache' = Refetched(cardCache, k) /\ walk' = NewWalk
    BY <1>3 DEF RenderFeed, ToldOf
  <2>2. PICK d : d = cardCache'
    OBVIOUS
  <2>3. k \in DOMAIN cardCache
    BY DEF CardInv, Keyed
  <2>4. Caches(d, CardAnswer) /\ Touched(cardCache, k, d) /\ d[k].fetch = "asked"
    BY <2>1, <2>2, <2>3, CacheRefetched DEF CardInv
  <2>5. DOMAIN d = DOMAIN cardCache
    BY <2>4 DEF Touched
  <2>6. Keys = {k}
    BY <1>0, <1>3 DEF HasFeed, Keys, KeysOf
  <2>7. walk'.pages = 0 /\ walk' \in Walks
    BY <2>1, NewWalkTyped
  <2>8. readings' = readings
    BY <1>3 DEF RenderFeed
  <2>9. CardTypeOK' /\ Keyed'
    BY <1>0, <1>1, <2>2, <2>5, <2>7, <2>8 DEF CardInv, CardTypeOK, Keyed
  <2>10. Fetched'
    BY <1>1, <2>1, <2>2, <2>4, <2>6, AskedAgain, NewWalkStays
  <2>11. CardSound'
    BY <1>0, <1>3, <2>10 DEF CardSound
  <2> QED BY <1>1, <2>1, <2>2, <2>4, <2>7, <2>9, <2>11, NewWalkStays DEF CardInv, Walks
<1>4. CASE card # "readings" /\ ~ToldOf(cardFeed.delta.kind)
  <2>1. UNCHANGED <<cardCache, walk, readings>>
    BY <1>4 DEF RenderFeed, ToldOf
  <2>2. CardTypeOK' /\ Keyed'
    BY <1>0, <1>1, <2>1 DEF CardInv, CardTypeOK, Keyed
  <2>3. FetchDue => FetchDue'
    BY <1>0, <1>1, <1>4 DEF FetchDue, ToldOf, DeltaOn
  <2>4. Fetched => Fetched'
    <3>1. \A j \in Keys : Current(j) => Current(j)'
      BY <1>1, <2>1, CurrentKept
    <3>2. Walking => Walking'
      BY <1>1, <2>1 DEF Walking, Top
    <3> QED BY <1>1, <2>1, <3>1, <3>2, NewWalkStays DEF Fetched
  <2>5. ~behind' => CardSound'
    BY <1>0, <1>1, <1>4, <2>3, <2>4 DEF CardInv, CardSound
  <2> QED BY <1>1, <2>1, <2>2, <2>5, NewWalkStays DEF CardInv, Walks
<1> QED BY <1>2, <1>3, <1>4

\* Another page: what was shown before has missed what came since.
LEMMA TurnsToSound ==
    ASSUME CardInv, NEW v, v \in [size : CardSizes, cursors : Seq(Nat), since : {0, 1}], TurnsTo(v)
    PROVE  CardInv'
<1>0. /\ UNCHANGED <<card, charger, walk, cardFeed, unseenFeed, readings, deletes, pendingDelete>>
      /\ cardView' = v /\ card = "history" /\ behind' \in BOOLEAN
  BY DEF TurnsTo
<1>1. PICK k : k = HistoryKey(v)
  OBVIOUS
<1>2. /\ HasFeed' = HasFeed /\ CardDelta' = CardDelta /\ CardAnswer' = CardAnswer
      /\ CardFeeds' = CardFeeds /\ KindsOf(card)' = KindsOf(card)
  BY <1>0 DEF HasFeed, CardDelta, CardAnswer, CardFeeds, KindsOf
<1>3. Keys' = {k}
  BY <1>0, <1>1 DEF Keys, KeysOf, HistoryKey
<1>4. PICK fresh \in BOOLEAN : cardCache' = Observed(cardCache, k, fresh)
  BY <1>1 DEF TurnsTo
<1>5. ~behind' => ~behind /\ k \notin DOMAIN cardCache
  BY <1>1 DEF TurnsTo
<1>6. PICK d : d = cardCache'
  OBVIOUS
<1>7. /\ Caches(d, CardAnswer) /\ DOMAIN d = DOMAIN cardCache \cup {k}
      /\ k \notin DOMAIN cardCache => d[k].fetch = "asked"
  <2>1. PICK c, A : c = cardCache /\ A = CardAnswer
    OBVIOUS
  <2>2. Caches(c, A) /\ d = Observed(c, k, fresh)
    BY <1>4, <1>6, <2>1 DEF CardInv
  <2>3. /\ Caches(d, A) /\ DOMAIN d = DOMAIN c \cup {k}
        /\ k \notin DOMAIN c => d[k].fetch = "asked"
    <3>1. Caches(d, A) /\ Watched(c, k, d)
      BY <2>2, CacheObserved
    <3> QED BY <3>1 DEF Watched
  <2> QED BY <2>1, <2>3
<1>8. k.name = "cp-transactions" /\ k.size \in CardSizes /\ k.at \in Nat
  <2>1. Last2(v.cursors, Top) \in Nat
    <3>1. PICK s : s = v.cursors
      OBVIOUS
    <3>2. s \in Seq(Nat) /\ Top \in Nat
      BY <3>1, CardBounds
    <3>3. s # <<>> => s[Len(s)] \in Nat
      BY <3>2
    <3> QED BY <3>1, <3>2, <3>3 DEF Last2
  <2> QED BY <1>1, <2>1 DEF HistoryKey
<1>9. CardTypeOK'
  BY <1>0, <1>2, <1>3, <1>6, <1>7 DEF CardInv, CardTypeOK
<1>10. walk = NewWalk /\ walk.pages = 0
  BY <1>0, NoWalk, NewWalkTyped
<1>11. Keyed'
  <2>1. \A j \in DOMAIN d : j.name = "cp-transactions" /\ j.size \in CardSizes /\ j.at \in Nat
    BY <1>0, <1>7, <1>8 DEF CardInv, Keyed
  <2> QED BY <1>0, <1>2, <1>3, <1>6, <1>7, <1>10, <2>1 DEF CardInv, Keyed
<1>12. ~behind' => CardSound'
  <2>1. ~behind' => Fetched'
    BY <1>0, <1>3, <1>5, <1>6, <1>7, <1>10, AskedAgain, NewWalkStays
  <2> QED BY <1>0, <2>1 DEF CardSound
<1> QED BY <1>0, <1>2, <1>6, <1>7, <1>9, <1>10, <1>11, <1>12, NewWalkStays DEF CardInv, Walks

\* The buttons under the rows.
LEMMA NextPageSound ==
    ASSUME CardInv, NextPage
    PROVE  CardInv'
<1>1. PICK k : k = HistoryKey(cardView)
  OBVIOUS
<1>2. PICK next, s : next = cardCache[k].data.next /\ s = Append(cardView.cursors, next)
  OBVIOUS
<1>3. PICK v : v = [cardView EXCEPT !.cursors = s]
  OBVIOUS
<1>4. card = "history" /\ cardCache[k].data # NoData /\ TurnsTo(v)
  BY <1>1, <1>2, <1>3 DEF NextPage, HasPages, Showing
<1>5. k \in DOMAIN cardCache
  BY <1>1, <1>4 DEF CardInv, Keyed, Keys, KeysOf
<1>6. cardCache[k] \in Entry(CardPages)
  BY <1>4, <1>5 DEF CardInv, Caches, CardAnswer
<1>7. next \in Nat
  BY <1>2, <1>4, <1>6 DEF Entry, CardPages
<1>8. cardView \in [size : CardSizes, cursors : Seq(Nat), since : {0, 1}]
  BY DEF CardInv, CardTypeOK
<1>9. s \in Seq(Nat)
  BY <1>2, <1>7, <1>8
<1>10. v \in [size : CardSizes, cursors : Seq(Nat), since : {0, 1}]
  BY <1>3, <1>8, <1>9
<1> QED BY <1>4, <1>10, TurnsToSound

\* The controls of the history: the previous page,
LEMMA PreviousPageSound ==
    ASSUME CardInv, PreviousPage
    PROVE  CardInv'
<1>1. PICK s : s = Front(cardView.cursors)
  OBVIOUS
<1>2. PICK v : v = [cardView EXCEPT !.cursors = s]
  OBVIOUS
<1>3. TurnsTo(v) /\ cardView.cursors # <<>>
  BY <1>1, <1>2 DEF PreviousPage
<1>4. cardView \in [size : CardSizes, cursors : Seq(Nat), since : {0, 1}]
  BY DEF CardInv, CardTypeOK
<1>5. s \in Seq(Nat)
  <2>1. PICK c : c = cardView.cursors
    OBVIOUS
  <2>2. c \in Seq(Nat) /\ c # <<>>
    BY <1>3, <1>4, <2>1
  <2>3. SubSeq(c, 1, Len(c) - 1) \in Seq(Nat)
    BY <2>2
  <2> QED BY <1>1, <2>1, <2>3 DEF Front
<1>6. v \in [size : CardSizes, cursors : Seq(Nat), since : {0, 1}]
  BY <1>2, <1>4, <1>5
<1> QED BY <1>3, <1>6, TurnsToSound

\* another page size,
LEMMA ChooseSizeSound ==
    ASSUME CardInv, NEW n \in CardSizes, ChooseSize(n)
    PROVE  CardInv'
<1>1. PICK s : s = <<>>
  OBVIOUS
<1>2. PICK v : v = [cardView EXCEPT !.size = n, !.cursors = s]
  OBVIOUS
<1>3. TurnsTo(v) /\ s \in Seq(Nat)
  BY <1>1, <1>2 DEF ChooseSize
<1>4. cardView \in [size : CardSizes, cursors : Seq(Nat), since : {0, 1}]
  BY DEF CardInv, CardTypeOK
<1>5. v \in [size : CardSizes, cursors : Seq(Nat), since : {0, 1}]
  BY <1>2, <1>3, <1>4
<1> QED BY <1>3, <1>5, TurnsToSound

\* and the window of the statistics.
LEMMA ChooseWindowSound ==
    ASSUME CardInv, NEW since \in {0, 1}, ChooseWindow(since)
    PROVE  CardInv'
<1>0. /\ UNCHANGED <<card, charger, cardCache, walk, cardFeed, unseenFeed, readings, deletes,
                     pendingDelete, behind>>
      /\ card = "statistics" /\ cardView' = [cardView EXCEPT !.since = since]
  BY DEF ChooseWindow
<1>1. /\ Keys' = Keys /\ HasFeed' = HasFeed /\ CardDelta' = CardDelta
      /\ CardAnswer' = CardAnswer /\ CardFeeds' = CardFeeds /\ KindsOf(card)' = KindsOf(card)
  BY <1>0 DEF Keys, KeysOf, HasFeed, CardDelta, CardAnswer, CardFeeds, KindsOf
<1>2. cardView' \in [size : CardSizes, cursors : Seq(Nat), since : {0, 1}]
  BY <1>0 DEF CardInv, CardTypeOK
<1>3. CardTypeOK' /\ Keyed'
  BY <1>0, <1>1, <1>2 DEF CardInv, CardTypeOK, Keyed
<1>4. PageBelow(Top, walk.pages * WalkSize)' = PageBelow(Top, walk.pages * WalkSize)
  BY <1>0 DEF PageBelow, Sessions, CardRow, Top
<1>5. Walking' = Walking
  BY <1>0, <1>4 DEF Walking
<1>6. ASSUME NEW k \in Keys, Current(k)
      PROVE  Current(k)'
  <2>1. k.name = "cp-statistics"
    BY <1>0 DEF Keys, KeysOf
  <2>2. WholeWalk' = WholeWalk
    BY <1>0 DEF WholeWalk, PageBelow, Sessions, CardRow, Top
  <2>3. AnswerTo(k)' = AnswerTo(k)
    BY <2>1, <2>2 DEF AnswerTo
  <2> QED BY <1>0, <1>6, <2>3, CurrentKept
<1>7. FetchDue' = FetchDue
  BY <1>0, PendingKept
<1>8. ~behind' => CardSound'
  BY <1>0, <1>1, <1>5, <1>6, <1>7, NewWalkStays DEF CardInv, CardSound, Fetched
<1> QED BY <1>0, <1>1, <1>3, <1>8, NewWalkStays DEF CardInv, Walks

-----------------------------------------------------------------------------
(* Deletions.                                                              *)

\* An artefact is to be deleted,
LEMMA AskDropArtefactSound ==
    ASSUME CardInv, NEW a \in Artefacts, AskDropArtefact(a)
    PROVE  CardInv'
<1>0. /\ UNCHANGED <<card, charger, cardView, cardCache, walk, cardFeed, unseenFeed, readings, behind>>
      /\ card = "diagnostics" /\ pendingDelete' = a
  BY DEF AskDropArtefact
<1>1. PICK n, e : n = cardClicks /\ e = [row |-> a, stage |-> "asked"]
  OBVIOUS
<1>2. deletes' = With(deletes, n, e) /\ e.row = a
  BY <1>1 DEF AskDropArtefact
<1>3. \A d \in DOMAIN deletes : deletes[d].row \in Artefacts
  BY DEF CardInv, CardTypeOK
<1>4. ASSUME NEW d \in DOMAIN deletes'
      PROVE  deletes'[d].row \in Artefacts
  BY <1>2, <1>3 DEF With
<1>5. Fetched => Fetched'
  <2>1. /\ Keys' = Keys /\ (\A k : AnswerTo(k)' = AnswerTo(k))
        /\ \A at, m : PageBelow(at, m)' = PageBelow(at, m)
    BY <1>0, CardFrame
  <2>2. \A k \in Keys : Current(k) => Current(k)'
    BY <1>0, <2>1, CurrentKept
  <2>3. Walking => Walking'
    BY <1>0, <2>1 DEF Walking, Top
  <2> QED BY <1>0, <2>1, <2>2, <2>3, NewWalkStays DEF Fetched
<1>6. Caches(cardCache', CardAnswer) /\ walk' \in Walks /\ (walk'.pages = 0 => walk' = NewWalk)
      /\ (walk'.pages # 0 => card = "statistics" /\ cardCache'[StatKey].fetch = "asked")
      /\ behind' \in BOOLEAN /\ DOMAIN cardCache' = DOMAIN cardCache
  BY <1>0 DEF CardInv, Keyed, CardTypeOK
<1> QED BY <1>0, <1>4, <1>5, <1>6, QueryStep

\* and the server deletes it.
LEMMA ServeDeleteSound ==
    ASSUME CardInv, NEW d \in DOMAIN deletes, ServeDelete(d)
    PROVE  CardInv'
<1>0. /\ UNCHANGED <<card, cardView, cardCache, walk, cardFeed, unseenFeed, readings, pendingDelete>>
      /\ behind' = TRUE
  BY DEF ServeDelete
<1>1. card = "diagnostics"
  BY DEF CardInv, Keyed
<1>2. PICK c : c = [charger EXCEPT !.artefacts = @ \ {deletes[d].row}]
  OBVIOUS
<1>3. charger \in ChargerType
  BY CardTypes DEF CardInv
<1>4. c \in ChargerType /\ charger' = c
  BY <1>2, <1>3 DEF ChargerType, ServeDelete
<1>5. PICK stage : deletes' = [deletes EXCEPT ![d].stage = stage]
  BY DEF ServeDelete
<1>6. \A b \in DOMAIN deletes : deletes[b].row \in Artefacts
  BY DEF CardInv, CardTypeOK
<1>7. DOMAIN deletes' = DOMAIN deletes /\ \A b \in DOMAIN deletes' : deletes'[b].row \in Artefacts
  <2>1. PICK e : e = [deletes[d] EXCEPT !.stage = stage]
    OBVIOUS
  <2>2. e.row = deletes[d].row /\ deletes' = [deletes EXCEPT ![d] = e]
    BY <1>5, <2>1
  <2> QED BY <1>6, <2>2
<1>8. /\ Keys' = Keys /\ HasFeed' = HasFeed /\ CardDelta' = CardDelta
      /\ CardAnswer' = CardAnswer /\ CardFeeds' = CardFeeds
  BY <1>0 DEF Keys, KeysOf, HistoryKey, HasFeed, CardDelta, CardAnswer, CardFeeds
<1>9. charger' \in [sessions : Seq([open : BOOLEAN, tag : IdTag]),
                    reserved : SUBSET [tag : IdTag, made : Nat, expires : 1..MaxStarts],
                    artefacts : SUBSET Artefacts, reading : [Measurand -> 0..MaxStarts]]
  BY <1>4 DEF ChargerType, CardSessions, Reservations
<1>10. CardTypeOK'
  BY <1>0, <1>7, <1>8, <1>9 DEF CardInv, CardTypeOK
<1>11. Keyed'
  BY <1>0, <1>1, <1>7, <1>8 DEF CardInv, Keyed
<1> QED BY <1>0, <1>8, <1>10, <1>11, NewWalkStays DEF CardInv, Walks

\* A deletion that went through fetches the list again, whatever is under way.
LEMMA EndDeleteSound ==
    ASSUME CardInv, NEW d \in DOMAIN deletes, EndDelete(d)
    PROVE  CardInv'
<1>0. /\ UNCHANGED <<card, charger, cardView, walk, cardFeed, unseenFeed, readings>>
      /\ pendingDelete' = NoData /\ deletes' = [b \in DOMAIN deletes \ {d} |-> deletes[b]]
  BY DEF EndDelete
<1>1. card = "diagnostics"
  BY DEF CardInv, Keyed
<1>2. PICK k : k = [name |-> "diagnostics"]
  OBVIOUS
<1>3. Keys = {k} /\ k \in DOMAIN cardCache /\ card # "readings" /\ card # "statistics"
  BY <1>1, <1>2 DEF CardInv, Keyed, Keys, KeysOf
<1>4. /\ \A b \in DOMAIN deletes' : deletes'[b].row \in Artefacts
      /\ card # "diagnostics" => DOMAIN deletes' = {}
      /\ pendingDelete' \in Artefacts \cup {NoData}
  BY <1>0, <1>1 DEF CardInv, CardTypeOK
<1>5. walk = NewWalk /\ walk' = NewWalk /\ walk'.pages = 0 /\ walk' \in Walks
  BY <1>0, <1>3, NoWalk, NewWalkTyped
<1>6. /\ Keys' = Keys /\ \A j : AnswerTo(j)' = AnswerTo(j)
  BY <1>0, CardFrame
<1>7. CASE deletes[d].stage = "gone"
  <2>1. PICK c : c = cardCache'
    OBVIOUS
  <2>2. c = Refetched(cardCache, k)
    BY <1>2, <1>7, <2>1 DEF EndDelete, Invalidates
  <2>3. Caches(c, CardAnswer) /\ Touched(cardCache, k, c) /\ c[k].fetch = "asked"
    BY <1>3, <2>2, CacheRefetched DEF CardInv
  <2>4. DOMAIN c = DOMAIN cardCache
    BY <2>3 DEF Touched
  <2>5. Fetched'
    BY <1>3, <1>5, <1>6, <2>1, <2>3, AskedAgain, NewWalkStays
  <2>6. behind' \in BOOLEAN
    BY DEF EndDelete
  <2> QED BY <1>0, <1>3, <1>4, <1>5, <2>1, <2>3, <2>4, <2>5, <2>6, QueryStep
<1>8. CASE deletes[d].stage # "gone"
  <2>1. cardCache' = cardCache /\ (behind' <=> behind) /\ behind' \in BOOLEAN
    BY <1>8 DEF EndDelete
  <2>2. Fetched => Fetched'
    BY <1>5, <1>6, <2>1, CurrentKept, NewWalkStays DEF Fetched
  <2>3. Caches(cardCache', CardAnswer) /\ DOMAIN cardCache' = DOMAIN cardCache
    BY <2>1 DEF CardInv
  <2> QED BY <1>0, <1>3, <1>4, <1>5, <2>1, <2>2, <2>3, QueryStep
<1> QED BY <1>7, <1>8

-----------------------------------------------------------------------------
(* The cards.                                                              *)

\* The invariant holds when the card is opened.
LEMMA CardInitInv == CardInit => CardInv
<1> SUFFICES ASSUME CardInit
             PROVE  CardInv
  OBVIOUS
<1>0. /\ card \in {"history", "readings", "statistics", "reservations", "diagnostics"}
      /\ cardView = [size |-> Min(CardSizes), cursors |-> <<>>, since |-> 0]
      /\ cardCache = [k \in Keys |-> Started(NewEntry)]
      /\ walk = NewWalk /\ cardFeed = FeedOf(card) /\ unseenFeed = FALSE
      /\ readings = NoReadings /\ deletes = <<>> /\ pendingDelete = NoData /\ behind = FALSE
  BY DEF CardInit
<1>1. Min(CardSizes) \in CardSizes
  <2>1. CardSizes \in SUBSET Nat /\ CardSizes # {}
    BY ChargerCardsAssumption
  <2> QED BY <2>1, SmallestIsIn
<1>2. <<>> \in Seq(Nat) /\ Top \in Nat /\ MaxStarts \in Nat
  BY CardBounds
<1>3. cardView \in [size : CardSizes, cursors : Seq(Nat), since : {0, 1}]
  BY <1>0, <1>1, <1>2
<1>4. PICK t, s, r : /\ t = (CHOOSE u \in IdTag : TRUE) /\ s = <<[open |-> FALSE, tag |-> t]>>
                     /\ r = NoReadings
  OBVIOUS
<1>5. t \in IdTag /\ r \in [Measurand -> 0..MaxStarts]
  BY <1>2, <1>4, ChargerCardsAssumption DEF NoReadings
<1>6. s \in CardSessions /\ DOMAIN s = {1} /\ s[1].open = FALSE
  <2>1. PICK e : e = [open |-> FALSE, tag |-> t]
    OBVIOUS
  <2>2. e \in [open : BOOLEAN, tag : IdTag] /\ e.open = FALSE
    BY <1>5, <2>1
  <2>3. s = <<e>>
    BY <1>4, <2>1
  <2> QED BY <2>2, <2>3 DEF CardSessions
<1>7. charger = [sessions |-> s, reserved |-> {}, artefacts |-> Artefacts, reading |-> r]
  BY <1>4 DEF CardInit
<1>8. charger \in ChargerType /\ charger.sessions = s
  BY <1>5, <1>6, <1>7 DEF ChargerType
<1>9. charger \in [sessions : Seq([open : BOOLEAN, tag : IdTag]),
                   reserved : SUBSET [tag : IdTag, made : Nat, expires : 1..MaxStarts],
                   artefacts : SUBSET Artefacts, reading : [Measurand -> 0..MaxStarts]]
  BY <1>8 DEF ChargerType, CardSessions, Reservations
<1>10. PICK K, Z, key : /\ K = {"device-events", "meter-history"} /\ Z = {{}} /\ key \in K
                        /\ cardFeed = NewSub(key)
  <2>1. PICK key : key = IF card = "readings" THEN "meter-history" ELSE "device-events"
    OBVIOUS
  <2>2. cardFeed = NewSub(key) /\ key \in {"device-events", "meter-history"}
    BY <1>0, <2>1 DEF FeedOf
  <2> QED BY <2>2
<1>11. cardFeed \in Subscriptions(K, Z, CardDelta)
  BY <1>10, NewHook
<1>12. cardFeed.wire = <<>>
  BY <1>10 DEF NewSub
<1>13. DOMAIN deletes = {}
  BY <1>0
<1>14. CardTypeOK
  BY <1>0, <1>3, <1>4, <1>5, <1>9, <1>10, <1>11, <1>13 DEF CardTypeOK
<1>15. walk.pages = 0 /\ walk \in Walks
  BY <1>0, NewWalkTyped
<1>16. \A k \in Keys : card = "history" =>
           k.name = "cp-transactions" /\ k.size \in CardSizes /\ k.at \in Nat
  <2>1. Last2(<<>>, Top) \in Nat
    BY <1>2 DEF Last2
  <2>2. cardView.cursors = <<>> /\ cardView.size \in CardSizes
    BY <1>0, <1>1
  <2> QED BY <2>1, <2>2 DEF Keys, KeysOf, HistoryKey
<1>17. Keyed
  BY <1>0, <1>6, <1>8, <1>12, <1>13, <1>15, <1>16 DEF Keyed
<1>18. Started(NewEntry) \in Entry(CardAnswer) /\ Started(NewEntry).fetch = "asked"
  BY EntryNew, EntryStarted
<1>19. Caches(cardCache, CardAnswer) /\ \A k \in Keys : cardCache[k].fetch = "asked"
  BY <1>0, <1>18 DEF Caches
<1>20. Fetched
  BY <1>0, <1>19 DEF Fetched, Current
<1>21. CASE card = "readings"
  <2>1. DOMAIN cardFeed.wire = {}
    BY <1>12
  <2>2. \A m \in Measurand : ReadingFits(m)
    BY <1>0, <1>4, <1>7, <2>1 DEF ReadingFits, NoneAfter, Unrendered
  <2> QED BY <1>0, <1>14, <1>15, <1>17, <1>19, <1>21, <2>2 DEF CardInv, CardSound
<1>22. CASE card # "readings"
  BY <1>0, <1>14, <1>15, <1>17, <1>19, <1>20, <1>22 DEF CardInv, CardSound
<1> QED BY <1>21, <1>22

\* Every step of a card keeps the invariant.
LEMMA CardInvStep == CardInv /\ [CardNext]_cardVars => CardInv'
<1> SUFFICES ASSUME CardInv, [CardNext]_cardVars
             PROVE  CardInv'
  OBVIOUS
<1>1. CASE UNCHANGED cardVars
  <2>1. /\ UNCHANGED <<card, charger, cardView, cardFeed, unseenFeed, readings>>
        /\ UNCHANGED <<cardCache, walk, behind, deletes, pendingDelete>>
    BY <1>1 DEF cardVars
  <2>2. /\ Keys' = Keys /\ (\A k : AnswerTo(k)' = AnswerTo(k))
        /\ \A at, m : PageBelow(at, m)' = PageBelow(at, m)
    BY <2>1, CardFrame
  <2>3. Fetched => Fetched'
    <3>1. \A k \in Keys : Current(k) => Current(k)'
      BY <2>1, <2>2, CurrentKept
    <3>2. Walking => Walking'
      BY <2>1, <2>2 DEF Walking, Top
    <3> QED BY <2>1, <2>2, <3>1, <3>2, NewWalkStays DEF Fetched
  <2>4. /\ Caches(cardCache', CardAnswer) /\ walk' \in Walks /\ (walk'.pages = 0 => walk' = NewWalk)
        /\ (walk'.pages # 0 => card = "statistics" /\ cardCache'[StatKey].fetch = "asked")
        /\ behind' \in BOOLEAN /\ DOMAIN cardCache' = DOMAIN cardCache
    BY <2>1 DEF CardInv, Keyed, CardTypeOK
  <2> QED BY <2>1, <2>3, <2>4, QueryStep, DeletesKept
<1>2. CASE CardNext
  <2>1. ASSUME NEW t \in IdTag, SessionStarts(t) \/ \E until \in 1..MaxStarts : Reserve(t, until)
        PROVE  CardInv'
    BY <2>1, SessionStartsSound, ReserveSound
  <2>2. ASSUME NEW i \in DOMAIN Sessions, SessionEnds(i)
        PROVE  CardInv'
    BY <2>2, SessionEndsSound
  <2>3. ASSUME NEW k \in DOMAIN cardCache,
               PollQuery(k) \/ ServeQuery(k) \/ ArriveQuery(k) \/ FailQuery(k)
        PROVE  CardInv'
    BY <2>3, PollSound, ServeQuerySound, ArriveQuerySound, FailQuerySound
  <2>4. ASSUME NEW n \in CardSizes, ChooseSize(n)
        PROVE  CardInv'
    BY <2>4, ChooseSizeSound
  <2>5. ASSUME NEW since \in {0, 1}, ChooseWindow(since)
        PROVE  CardInv'
    BY <2>5, ChooseWindowSound
  <2>6. ASSUME NEW a \in Artefacts, AskDropArtefact(a) \/ DeleteElsewhere(a)
        PROVE  CardInv'
    BY <2>6, AskDropArtefactSound, DeleteElsewhereSound
  <2>7. ASSUME NEW d \in DOMAIN deletes, ServeDelete(d) \/ EndDelete(d)
        PROVE  CardInv'
    BY <2>7, ServeDeleteSound, EndDeleteSound
  <2>8. ASSUME NEW m \in Measurand, Samples(m)
        PROVE  CardInv'
    BY <2>8, SamplesSound
  <2>9. ASSUME EventPasses \/ ServeWalk \/ OpenFeed \/ HearFeed \/ RenderFeed \/ NextPage
               \/ PreviousPage
        PROVE  CardInv'
    BY <2>9, EventPassesSound, ServeWalkSound, OpenFeedSound, HearFeedSound, RenderFeedSound,
       NextPageSound, PreviousPageSound
  <2> QED BY <1>2, <2>1, <2>2, <2>3, <2>4, <2>5, <2>6, <2>7, <2>8, <2>9 DEF CardNext
<1> QED BY <1>1, <1>2

\* With the invariant an idle card shows what the server has.
LEMMA CardInvImplies == CardInv => CardsAreTrue
<1> SUFFICES ASSUME CardInv, CardIdle, ~behind
             PROVE  IF card = "readings" THEN readings = charger.reading
                    ELSE Display(LAMBDA k : cardCache[k].data) = Display(AnswerTo)
  BY DEF CardsAreTrue
<1>1. HasFeed => cardFeed.wire = <<>> /\ ~unseenFeed
  BY DEF CardIdle, UpToDate
<1>2. HasFeed => DOMAIN cardFeed.wire = {}
  BY <1>1
<1>3. CASE card = "readings"
  <2>1. HasFeed
    BY <1>3 DEF HasFeed
  <2>2. \A m \in Measurand : readings[m] = charger.reading[m]
    BY <1>1, <1>2, <1>3, <2>1 DEF CardInv, CardSound, ReadingFits, Unrendered
  <2>3. readings \in [Measurand -> 0..MaxStarts] /\ charger.reading \in [Measurand -> 0..MaxStarts]
    BY DEF CardInv, CardTypeOK
  <2> QED BY <1>3, <2>2, <2>3
<1>4. CASE card # "readings"
  <2>1. Fetched
    BY <1>1, <1>2, <1>4 DEF CardInv, CardSound, FetchDue
  <2>2. ASSUME NEW k \in Keys
        PROVE  cardCache[k].data = AnswerTo(k)
    BY <2>1 DEF Fetched, Current, CardIdle, Settled
  <2>3. CASE card = "history"
    <3>1. HistoryKey(cardView) \in Keys
      BY <2>3 DEF Keys, KeysOf
    <3> QED BY <1>4, <2>2, <2>3, <3>1 DEF Display
  <2>4. CASE card = "statistics"
    <3>1. [name |-> "cp-statistics"] \in Keys
      BY <2>4 DEF Keys, KeysOf
    <3> QED BY <1>4, <2>2, <2>4, <3>1 DEF Display
  <2>5. CASE card = "reservations"
    <3>1. [name |-> "cp-reservations"] \in Keys /\ [name |-> "join"] \in Keys
      BY <2>5 DEF Keys, KeysOf
    <3> QED BY <1>4, <2>2, <2>5, <3>1 DEF Display
  <2>6. CASE card = "diagnostics"
    <3>1. [name |-> "diagnostics"] \in Keys
      BY <2>6 DEF Keys, KeysOf
    <3> QED BY <1>4, <2>2, <2>6, <3>1 DEF Display
  <2> QED BY <1>4, <2>3, <2>4, <2>5, <2>6 DEF CardInv, Keyed
<1> QED BY <1>3, <1>4

\* The cards of a charger keep their types, for any sessions, reservations, artefacts,
\* page sizes and readings.
THEOREM CardsAreTyped == CardSpec => []CardTypeOK
<1>1. CardInv => CardTypeOK
  BY DEF CardInv
<1> QED BY <1>1, CardInitInv, CardInvStep, PTL DEF CardSpec

\* However queries, polls, deltas, deletions and page turns interleave, an idle card
\* shows what the server has of its charger, unless a change was not told to it
\* (StatisticsCard.tsx:45-105, TransactionsHistory.tsx:124-201).
THEOREM CardsShowTheCharger == CardSpec => []CardsAreTrue
BY CardInvImplies, CardInitInv, CardInvStep, PTL DEF CardSpec
=============================================================================
