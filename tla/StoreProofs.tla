---------------------------- MODULE StoreProofs -----------------------------
(***************************************************************************)
(* Theorems about the session store, for any number of sessions, folders,  *)
(* failures and crashes.                                                   *)
(***************************************************************************)
EXTENDS Store, SequenceTheorems, FiniteSetTheorems, WellFoundedInduction, TLAPS

-----------------------------------------------------------------------------
(* Paths *)

Path == Seq(Nat)

LEMMA LenIs == \A p \in Path : Len(p) \in Nat /\ DOMAIN p = 1..Len(p) /\ \A i \in 1..Len(p) : p[i] \in Nat
BY DEF Path

LEMMA SamePath ==
    ASSUME NEW p \in Path, NEW q \in Path, Len(p) = Len(q), \A i \in 1..Len(p) : p[i] = q[i]
    PROVE  p = q
BY SeqEqual DEF Path

LEMMA CutIs ==
    ASSUME NEW p \in Path, NEW n \in Nat, n <= Len(p)
    PROVE  /\ SubSeq(p, 1, n) \in Path /\ Len(SubSeq(p, 1, n)) = n
           /\ \A i \in 1..n : SubSeq(p, 1, n)[i] = p[i]
<1>1. \A i \in 1..n : p[i] \in Nat
  BY LenIs
<1>2. /\ SubSeq(p, 1, n) \in Seq(Nat)
      /\ Len(SubSeq(p, 1, n)) = IF 1 <= n THEN n - 1 + 1 ELSE 0
      /\ \A i \in 1..n - 1 + 1 : SubSeq(p, 1, n)[i] = p[1 + i - 1]
  BY <1>1, SubSeqProperties
<1>. QED
  BY <1>2 DEF Path

LEMMA PrefixIs ==
    ASSUME NEW p \in Path, NEW q \in Path
    PROVE  IsPrefix(p, q) <=> Len(p) <= Len(q) /\ \A i \in 1..Len(p) : p[i] = q[i]
<1>1. Len(p) \in Nat /\ Len(q) \in Nat /\ SubSeq(p, 1, Len(p)) = p
  BY LenIs, SubSeqFull DEF Path
<1>2. ASSUME Len(p) <= Len(q)
      PROVE  SubSeq(q, 1, Len(p)) = p <=> \A i \in 1..Len(p) : p[i] = q[i]
  <2>1. /\ SubSeq(q, 1, Len(p)) \in Path /\ Len(SubSeq(q, 1, Len(p))) = Len(p)
        /\ \A i \in 1..Len(p) : SubSeq(q, 1, Len(p))[i] = q[i]
    BY <1>1, <1>2, CutIs
  <2>. QED
    BY <2>1, SamePath
<1>. QED
  BY <1>1, <1>2 DEF IsPrefix

LEMMA StrictIs ==
    ASSUME NEW p \in Path, NEW q \in Path
    PROVE  IsStrictPrefix(p, q) <=> Len(p) < Len(q) /\ \A i \in 1..Len(p) : p[i] = q[i]
<1>1. Len(p) \in Nat /\ Len(q) \in Nat
  BY LenIs
<1>. QED
  BY <1>1, PrefixIs, SamePath DEF IsStrictPrefix

LEMMA PrefixTrans ==
    ASSUME NEW p \in Path, NEW q \in Path, NEW s \in Path
    PROVE  /\ IsPrefix(p, q) /\ IsPrefix(q, s) => IsPrefix(p, s)
           /\ IsStrictPrefix(p, q) /\ IsPrefix(q, s) => IsStrictPrefix(p, s)
           /\ IsPrefix(p, q) /\ IsStrictPrefix(q, s) => IsStrictPrefix(p, s)
           /\ IsPrefix(p, s) /\ IsPrefix(q, s) => IsPrefix(p, q) \/ IsStrictPrefix(q, p)
           /\ IsPrefix(p, q) <=> p = q \/ IsStrictPrefix(p, q)
<1>1. Len(p) \in Nat /\ Len(q) \in Nat /\ Len(s) \in Nat
  BY LenIs
<1>2. IsPrefix(p, q) <=> p = q \/ IsStrictPrefix(p, q)
  BY <1>1, PrefixIs DEF IsStrictPrefix
<1>. QED
  BY <1>1, <1>2, PrefixIs, StrictIs

LEMMA FrontIs ==
    ASSUME NEW p \in Path, p # <<>>
    PROVE  /\ Front(p) \in Path /\ Len(Front(p)) = Len(p) - 1
           /\ \A i \in 1..Len(p) - 1 : Front(p)[i] = p[i]
           /\ IsStrictPrefix(Front(p), p)
           /\ \A q \in Path : IsStrictPrefix(q, p) <=> IsPrefix(q, Front(p))
<1>1. Len(p) \in Nat /\ Len(p) # 0
  BY EmptySeq DEF Path
<1>2. /\ Front(p) \in Path /\ Len(Front(p)) = Len(p) - 1
      /\ \A i \in 1..Len(p) - 1 : Front(p)[i] = p[i]
  <2> DEFINE n == Len(p) - 1
  <2>1. n \in Nat /\ n <= Len(p) /\ Front(p) = SubSeq(p, 1, n)
    BY <1>1 DEF Front
  <2>. HIDE DEF n
  <2>2. Front(p) \in Path /\ Len(Front(p)) = n /\ \A i \in 1..n : Front(p)[i] = p[i]
    BY <2>1, CutIs
  <2>. QED
    BY <2>2 DEF n
<1>3. IsStrictPrefix(Front(p), p)
  BY <1>1, <1>2, StrictIs
<1>4. ASSUME NEW q \in Path PROVE IsStrictPrefix(q, p) <=> IsPrefix(q, Front(p))
  <2>1. Len(q) \in Nat
    BY LenIs
  <2>. QED
    BY <1>1, <1>2, <2>1, StrictIs, PrefixIs
<1>. QED
  BY <1>2, <1>3, <1>4

LEMMA AppendIs ==
    ASSUME NEW p \in Path, NEW x \in Nat
    PROVE  /\ Append(p, x) \in Path /\ Append(p, x) # <<>> /\ Len(Append(p, x)) = Len(p) + 1
           /\ Front(Append(p, x)) = p /\ Append(p, x)[Len(Append(p, x))] = x
<1>1. Len(p) \in Nat
  BY LenIs
<1>2. /\ Append(p, x) \in Path /\ Append(p, x) # <<>> /\ Len(Append(p, x)) = Len(p) + 1
      /\ \A i \in 1..Len(p) : Append(p, x)[i] = p[i]
      /\ Append(p, x)[Len(p) + 1] = x
  BY AppendProperties DEF Path
<1>3. Front(Append(p, x)) = p
  <2> DEFINE q == Append(p, x)
  <2>. HIDE DEF q
  <2>1. q \in Path /\ q # <<>> /\ Len(q) = Len(p) + 1 /\ \A i \in 1..Len(p) : q[i] = p[i]
    BY <1>2 DEF q
  <2>2. Front(q) \in Path /\ Len(Front(q)) = Len(q) - 1 /\ \A i \in 1..Len(q) - 1 : Front(q)[i] = q[i]
    BY <2>1, FrontIs
  <2>3. Front(q) = p
    BY <1>1, <2>1, <2>2, SamePath
  <2>. QED
    BY <2>3 DEF q
<1>. QED
  BY <1>1, <1>2, <1>3

\* Moving a path from below one directory to below another, and back.
LEMMA UnderIs ==
    ASSUME NEW from \in Path, NEW to \in Path, NEW p \in Path, IsPrefix(from, p)
    PROVE  /\ Under(from, to, p) \in Path /\ Len(Under(from, to, p)) = Len(to) + Len(p) - Len(from)
           /\ \A i \in 1..Len(to) : Under(from, to, p)[i] = to[i]
           /\ \A i \in Len(to) + 1..Len(to) + Len(p) - Len(from) :
                 Under(from, to, p)[i] = p[i - Len(to) + Len(from)]
           /\ IsPrefix(to, Under(from, to, p))
<1>1. /\ Len(p) \in Nat /\ Len(from) \in Nat /\ Len(to) \in Nat /\ Len(from) <= Len(p)
      /\ \A i \in 1..Len(p) : p[i] \in Nat
  BY LenIs, PrefixIs
<1> DEFINE m == Len(from) + 1
           n == Len(p)
           t == SubSeq(p, m, n)
<1>2. m \in Int /\ n \in Int /\ \A i \in m..n : p[i] \in Nat
  BY <1>1
<1>3. /\ t \in Seq(Nat) /\ Len(t) = IF m <= n THEN n - m + 1 ELSE 0
      /\ \A i \in 1..n - m + 1 : t[i] = p[m + i - 1]
  <2>. HIDE DEF m, n
  <2>. QED
    BY <1>2, SubSeqProperties DEF t
<1>4. Len(t) = Len(p) - Len(from) /\ \A i \in 1..Len(p) - Len(from) : t[i] = p[Len(from) + i]
  <2>. HIDE DEF t
  <2>. QED
    BY <1>1, <1>3
<1>. HIDE DEF t, m, n
<1> DEFINE w == to \o t
<1>5. /\ w \in Path /\ Len(w) = Len(to) + Len(t)
      /\ \A i \in 1..Len(to) + Len(t) : w[i] = IF i <= Len(to) THEN to[i] ELSE t[i - Len(to)]
  BY <1>3, ConcatProperties DEF Path
<1>6. Under(from, to, p) = w
  BY DEF Under, t, m, n
<1>. HIDE DEF w
<1>7. /\ Len(w) = Len(to) + Len(p) - Len(from)
      /\ \A i \in 1..Len(to) : w[i] = to[i]
      /\ \A i \in Len(to) + 1..Len(to) + Len(p) - Len(from) : w[i] = p[i - Len(to) + Len(from)]
  <2>1. Len(w) = Len(to) + Len(p) - Len(from) /\ \A i \in 1..Len(to) : w[i] = to[i]
    <3>1. Len(w) = Len(to) + Len(t) /\ Len(t) = Len(p) - Len(from)
      BY <1>4, <1>5
    <3>2. Len(w) = Len(to) + Len(p) - Len(from)
      BY <1>1, <3>1
    <3>3. ASSUME NEW i \in 1..Len(to) PROVE w[i] = to[i]
      <4>1. i \in 1..Len(to) + Len(t) /\ i <= Len(to)
        BY <1>1, <3>1
      <4>. QED
        BY <1>5, <4>1
    <3>. QED
      BY <3>2, <3>3
  <2>2. ASSUME NEW i \in Len(to) + 1..Len(to) + Len(p) - Len(from)
        PROVE  w[i] = p[i - Len(to) + Len(from)]
    <3>1. /\ i \in 1..Len(to) + Len(t) /\ ~(i <= Len(to)) /\ i - Len(to) \in 1..Len(p) - Len(from)
          /\ Len(from) + (i - Len(to)) = i - Len(to) + Len(from)
      BY <1>1, <1>4
    <3>2. w[i] = t[i - Len(to)]
      BY <1>5, <3>1
    <3>3. t[i - Len(to)] = p[Len(from) + (i - Len(to))]
      BY <1>4, <3>1
    <3>. QED
      BY <3>1, <3>2, <3>3
  <2>. QED
    BY <2>1, <2>2
<1>8. IsPrefix(to, w)
  BY <1>1, <1>5, <1>7, PrefixIs
<1>. QED
  BY <1>5, <1>6, <1>7, <1>8

LEMMA UnderBack ==
    ASSUME NEW from \in Path, NEW to \in Path, NEW p \in Path, IsPrefix(from, p)
    PROVE  Under(to, from, Under(from, to, p)) = p
<1> DEFINE u == Under(from, to, p)
           v == Under(to, from, u)
<1>1. /\ Len(p) \in Nat /\ Len(from) \in Nat /\ Len(to) \in Nat /\ Len(from) <= Len(p)
      /\ \A i \in 1..Len(from) : p[i] = from[i]
  BY LenIs, PrefixIs
<1>2. /\ u \in Path /\ Len(u) = Len(to) + Len(p) - Len(from) /\ IsPrefix(to, u)
      /\ \A i \in Len(to) + 1..Len(to) + Len(p) - Len(from) : u[i] = p[i - Len(to) + Len(from)]
  BY UnderIs
<1>. HIDE DEF u
<1>3. /\ v \in Path /\ Len(v) = Len(from) + Len(u) - Len(to)
      /\ \A i \in 1..Len(from) : v[i] = from[i]
      /\ \A i \in Len(from) + 1..Len(from) + Len(u) - Len(to) : v[i] = u[i - Len(from) + Len(to)]
  <2>1. u \in Path /\ IsPrefix(to, u)
    BY <1>2
  <2>. QED
    BY <2>1, UnderIs
<1>. HIDE DEF v
<1>4. Len(v) = Len(p)
  BY <1>1, <1>2, <1>3
<1>5. ASSUME NEW i \in 1..Len(p) PROVE v[i] = p[i]
  <2>1. CASE i <= Len(from)
    BY <1>1, <1>3, <2>1
  <2>2. CASE i > Len(from)
    <3>1. v[i] = u[i - Len(from) + Len(to)]
      BY <1>1, <1>2, <1>3, <2>2
    <3>2. i - Len(from) + Len(to) \in Len(to) + 1..Len(to) + Len(p) - Len(from)
      BY <1>1, <2>2
    <3>3. u[i - Len(from) + Len(to)] = p[i - Len(from) + Len(to) - Len(to) + Len(from)]
      BY <1>2, <3>2
    <3>. QED
      BY <1>1, <3>1, <3>3
  <2>. QED
    BY <1>1, <2>1, <2>2
<1>6. v = p
  BY <1>3, <1>4, <1>5, SamePath
<1>. QED
  BY <1>6 DEF u, v

LEMMA UnderTop ==
    ASSUME NEW from \in Path, NEW to \in Path
    PROVE  Under(from, to, from) = to /\ IsPrefix(from, from)
<1>1. Len(from) \in Nat /\ Len(to) \in Nat /\ IsPrefix(from, from)
  BY LenIs, PrefixIs
<1>2. /\ Under(from, to, from) \in Path /\ Len(Under(from, to, from)) = Len(to) + Len(from) - Len(from)
      /\ \A i \in 1..Len(to) : Under(from, to, from)[i] = to[i]
  BY <1>1, UnderIs
<1>3. Under(from, to, from) = to
  BY <1>1, <1>2, SamePath
<1>. QED
  BY <1>1, <1>3

\* A directory on the way to a moved path is on the way to its new place, or has moved along.
LEMMA UnderWay ==
    ASSUME NEW from \in Path, NEW to \in Path, NEW p \in Path, IsPrefix(from, p),
           NEW q \in Path, IsStrictPrefix(q, Under(from, to, p))
    PROVE  \/ IsStrictPrefix(q, to)
           \/ /\ IsPrefix(to, q) /\ Under(to, from, q) \in Path
              /\ IsPrefix(from, Under(to, from, q)) /\ IsStrictPrefix(Under(to, from, q), p)
              /\ Under(from, to, Under(to, from, q)) = q
<1> DEFINE u == Under(from, to, p)
           v == Under(to, from, q)
<1>1. /\ Len(p) \in Nat /\ Len(from) \in Nat /\ Len(to) \in Nat /\ Len(from) <= Len(p) /\ Len(q) \in Nat
      /\ \A i \in 1..Len(from) : p[i] = from[i]
  BY LenIs, PrefixIs
<1>2. /\ u \in Path /\ Len(u) = Len(to) + Len(p) - Len(from) /\ IsPrefix(to, u)
      /\ \A i \in Len(to) + 1..Len(to) + Len(p) - Len(from) : u[i] = p[i - Len(to) + Len(from)]
  BY UnderIs
<1>3. IsStrictPrefix(q, u)
  OBVIOUS
<1>. HIDE DEF u
<1>4. IsPrefix(q, u)
  BY <1>3 DEF IsStrictPrefix
<1>5. CASE IsPrefix(to, q)
  <2>1. /\ v \in Path /\ Len(v) = Len(from) + Len(q) - Len(to)
        /\ \A i \in 1..Len(from) : v[i] = from[i]
        /\ \A i \in Len(from) + 1..Len(from) + Len(q) - Len(to) : v[i] = q[i - Len(from) + Len(to)]
        /\ IsPrefix(from, v)
    BY <1>5, UnderIs
  <2>2. Under(from, to, v) = q
    BY <1>5, UnderBack
  <2>. HIDE DEF v
  <2>3. /\ Len(to) <= Len(q) /\ Len(q) < Len(u) /\ \A i \in 1..Len(q) : q[i] = u[i]
    BY <1>2, <1>3, <1>5, PrefixIs, StrictIs
  <2>4. Len(v) < Len(p)
    BY <1>1, <1>2, <2>1, <2>3
  <2>5. ASSUME NEW i \in 1..Len(v) PROVE v[i] = p[i]
    <3>1. CASE i <= Len(from)
      BY <1>1, <2>1, <3>1
    <3>2. CASE i > Len(from)
      <4>1. v[i] = q[i - Len(from) + Len(to)]
        BY <1>1, <2>1, <3>2
      <4>2. i - Len(from) + Len(to) \in Len(to) + 1..Len(to) + Len(p) - Len(from)
            /\ i - Len(from) + Len(to) \in 1..Len(q)
        BY <1>1, <2>1, <2>4, <3>2
      <4>3. u[i - Len(from) + Len(to)] = p[i - Len(from) + Len(to) - Len(to) + Len(from)]
        BY <1>2, <4>2
      <4>. QED
        BY <1>1, <2>1, <2>3, <4>1, <4>2, <4>3
    <3>. QED
      BY <1>1, <2>1, <3>1, <3>2
  <2>6. IsStrictPrefix(v, p)
    BY <2>1, <2>4, <2>5, StrictIs
  <2>. QED
    BY <1>5, <2>1, <2>2, <2>6 DEF v
<1>6. CASE ~IsPrefix(to, q)
  BY <1>2, <1>4, <1>6, PrefixTrans
<1>. QED
  BY <1>5, <1>6

\* The least number of a set: its interval from 0 is minimal among those of the set, and
\* finite sets are well-founded.
LEMMA Least ==
    ASSUME NEW T, T \subseteq Nat, T # {}
    PROVE  \E x \in T : \A y \in T : x <= y
<1> DEFINE R == StrictSubsetOrdering(Nat)
           S == FiniteSubsetsOf(Nat)
           U == {0..n : n \in T}
<1>1. IsWellFoundedOn(R, S)
  BY FS_StrictSubsetOrderingWellFounded
<1>2. U \subseteq S
  <2>1. \A n \in T : IsFiniteSet(0..n) /\ 0..n \subseteq Nat
    BY FS_Interval
  <2>. QED
    BY <2>1 DEF FiniteSubsetsOf
<1>3. U # {}
  OBVIOUS
<1>4. PICK I \in U : \A J \in U : ~ (<<J, I>> \in R)
  <2>. HIDE DEF R, S, U
  <2>. QED
    BY <1>1, <1>2, <1>3, WFMin
<1>5. PICK x \in T : I = 0..x
  OBVIOUS
<1>6. ASSUME NEW y \in T, y < x PROVE FALSE
  <2>1. 0..y \subseteq 0..x /\ 0..y # 0..x
    BY <1>6
  <2>2. 0..y \in U /\ 0..y \in SUBSET Nat /\ 0..x \in SUBSET Nat
    OBVIOUS
  <2>3. <<0..y, 0..x>> \in R
    BY <2>1, <2>2 DEF StrictSubsetOrdering
  <2>. QED
    BY <1>4, <1>5, <2>2, <2>3
<1>. QED
  BY <1>6

\* The order of a walk is strict and total.
LEMMA BeforeIrreflexive == ASSUME NEW p \in Path PROVE ~Before(p, p)
<1>1. \A i \in DOMAIN p : p[i] \in Nat
  BY LenIs
<1>2. ~IsStrictPrefix(p, p)
  BY LenIs, StrictIs
<1>. QED
  BY <1>1, <1>2 DEF Before

\* Of two paths that differ, one comes first: at the least place where they differ, or
\* because it is the beginning of the other.
LEMMA BeforeTotal ==
    ASSUME NEW p \in Path, NEW q \in Path, p # q
    PROVE  Before(p, q) \/ Before(q, p)
<1>1. /\ Len(p) \in Nat /\ Len(q) \in Nat /\ DOMAIN p = 1..Len(p) /\ DOMAIN q = 1..Len(q)
      /\ \A i \in 1..Len(p) : p[i] \in Nat
      /\ \A i \in 1..Len(q) : q[i] \in Nat
  BY LenIs
<1> DEFINE T == {i \in 1..Len(p) : i <= Len(q) /\ p[i] # q[i]}
<1>2. CASE T = {}
  <2>1. IsPrefix(p, q) \/ IsPrefix(q, p)
    <3>1. \A i \in 1..Len(p) : i <= Len(q) => p[i] = q[i]
      BY <1>2
    <3>2. CASE Len(p) <= Len(q)
      <4>1. \A i \in 1..Len(p) : p[i] = q[i]
        BY <1>1, <3>1, <3>2
      <4>. QED
        BY <3>2, <4>1, PrefixIs
    <3>3. CASE Len(q) <= Len(p)
      <4>1. \A i \in 1..Len(q) : q[i] = p[i]
        BY <1>1, <3>1, <3>3
      <4>. QED
        BY <3>3, <4>1, PrefixIs
    <3>. QED
      BY <1>1, <3>2, <3>3
  <2>. QED
    BY <2>1 DEF Before, IsStrictPrefix
<1>3. CASE T # {}
  <2>1. T \subseteq Nat
    BY <1>1
  <2>2. PICK i \in T : \A j \in T : i <= j
    <3>. HIDE DEF T
    <3>. QED
      BY <1>3, <2>1, Least
  <2>3. /\ i \in DOMAIN p \intersect DOMAIN q /\ p[i] # q[i] /\ p[i] \in Nat /\ q[i] \in Nat
        /\ i - 1 \in Nat /\ i - 1 <= Len(p) /\ i - 1 <= Len(q)
        /\ \A j \in 1..i - 1 : p[j] = q[j]
    BY <1>1, <2>2
  <2> DEFINE n == i - 1
  <2>4. n \in Nat /\ n <= Len(p) /\ n <= Len(q) /\ \A j \in 1..n : p[j] = q[j]
    BY <2>3
  <2>. HIDE DEF n
  <2>5. /\ SubSeq(p, 1, n) \in Path /\ Len(SubSeq(p, 1, n)) = n
        /\ \A j \in 1..n : SubSeq(p, 1, n)[j] = p[j]
    BY <2>4, CutIs
  <2>6. /\ SubSeq(q, 1, n) \in Path /\ Len(SubSeq(q, 1, n)) = n
        /\ \A j \in 1..n : SubSeq(q, 1, n)[j] = q[j]
    BY <2>4, CutIs
  <2>7. SubSeq(p, 1, n) = SubSeq(q, 1, n)
    BY <2>4, <2>5, <2>6, SamePath
  <2>8. p[i] < q[i] \/ q[i] < p[i]
    BY <2>3
  <2>. QED
    BY <2>3, <2>7, <2>8 DEF Before, n
<1>. QED
  BY <1>2, <1>3

-----------------------------------------------------------------------------
(* The tree *)

\* Paths of directories and of session files: all their base names are those of names.
Bases == {BaseOf[name] : name \in {n \in Names : BaseOf[n] # 0}}
DirNos == {2 * b : b \in Bases}
DirPath == Seq(DirNos)
FilePath == {p \in Path : p # <<>> /\ \E b \in Bases : p[Len(p)] = 2 * b + 1}

DirRec == [id : FolderIds \union {None}, name : Names \union {None}, src : BOOLEAN]
FileRec == [id : SessionIds \union {None}, name : Names \union {None}, rev : Revs]

\* Directories hold what is below them, the root is itself, and no id is from the future.
TreeOf(ds, fs, u) ==
    /\ DOMAIN ds \subseteq DirPath
    /\ DOMAIN fs \subseteq FilePath
    /\ \A d \in DOMAIN ds : ds[d] \in DirRec /\ ds[d].id \in u \union {None}
    /\ \A f \in DOMAIN fs : fs[f] \in FileRec /\ fs[f].id \in u \union {None}
    /\ <<>> \in DOMAIN ds /\ ds[<<>>].id = Root
    /\ \A p \in DOMAIN ds \union DOMAIN fs, q \in Path : IsStrictPrefix(q, p) => q \in DOMAIN ds

LEMMA BasesAre == Bases \subseteq Nat /\ \A b \in Bases : PlainName[b] \in Names
BY StoreAssumption DEF StoreAssumption, Bases

LEMMA DirPathIs == \A p \in DirPath : p \in Path /\ \A i \in 1..Len(p) : p[i] \in DirNos
<1>1. DirNos \subseteq Nat
  <2>1. \A b \in Bases : b \in Nat
    BY BasesAre
  <2>. QED
    BY <2>1 DEF DirNos
<1>. QED
  BY <1>1, SeqMonotonic, ElementOfSeq DEF DirPath, Path

LEMMA IsDirPath == ASSUME NEW p \in Path, \A i \in 1..Len(p) : p[i] \in DirNos PROVE p \in DirPath
<1>1. Len(p) \in Nat /\ p \in [1..Len(p) -> Nat] /\ DOMAIN p = 1..Len(p)
  BY LenProperties DEF Path
<1>2. p \in [1..Len(p) -> DirNos]
  BY <1>1
<1>. QED
  BY <1>1, <1>2, SeqDef DEF DirPath

\* No path is both.
LEMMA DirNotFile == ASSUME NEW p \in DirPath PROVE p \notin FilePath
<1>. SUFFICES ASSUME p \in FilePath PROVE FALSE
  OBVIOUS
<1>1. p \in Path /\ p # <<>> /\ \A i \in 1..Len(p) : p[i] \in DirNos
  BY DirPathIs DEF FilePath
<1>2. Len(p) \in 1..Len(p)
  BY <1>1, EmptySeq DEF Path
<1>3. p[Len(p)] \in DirNos
  BY <1>1, <1>2
<1>4. PICK b \in Nat : p[Len(p)] = 2 * b + 1
  BY BasesAre DEF FilePath
<1>5. PICK c \in Nat : p[Len(p)] = 2 * c
  BY <1>3, BasesAre DEF DirNos
<1>. QED
  BY <1>4, <1>5

LEMMA CutIsDir == ASSUME NEW p \in DirPath, NEW n \in Nat, n <= Len(p) PROVE SubSeq(p, 1, n) \in DirPath
<1>1. p \in Path /\ Len(p) \in Nat /\ \A i \in 1..Len(p) : p[i] \in DirNos
  BY DirPathIs, LenIs
<1>2. SubSeq(p, 1, n) \in Path /\ Len(SubSeq(p, 1, n)) = n /\ \A i \in 1..n : SubSeq(p, 1, n)[i] = p[i]
  BY <1>1, CutIs
<1>3. \A i \in 1..n : SubSeq(p, 1, n)[i] \in DirNos
  BY <1>1, <1>2
<1> DEFINE q == SubSeq(p, 1, n)
<1>. HIDE DEF q
<1>4. q \in Path /\ \A i \in 1..Len(q) : q[i] \in DirNos
  BY <1>2, <1>3 DEF q
<1>5. q \in DirPath
  BY <1>4, IsDirPath
<1>. QED
  BY <1>5 DEF q

\* What is named in a directory.
LEMMA NamedIs ==
    ASSUME NEW d \in DirPath, NEW name \in Names, BaseOf[name] # 0
    PROVE  /\ DirNamed(d, name) \in DirPath /\ DirNamed(d, name) # <<>> /\ Front(DirNamed(d, name)) = d
           /\ FileNamed(d, name) \in FilePath /\ Front(FileNamed(d, name)) = d
<1> DEFINE b == BaseOf[name]
<1>1. d \in Path /\ b \in Bases /\ b \in Nat
  BY DirPathIs, BasesAre DEF Bases
<1>2. b \in Bases /\ 2 * b \in DirNos /\ 2 * b \in Nat /\ 2 * b + 1 \in Nat
  BY <1>1 DEF DirNos
<1>3. DirNamed(d, name) \in DirPath
  BY <1>2, AppendProperties DEF DirNamed, DirPath
<1>4. DirNamed(d, name) # <<>> /\ Front(DirNamed(d, name)) = d
  BY <1>1, <1>2, AppendIs DEF DirNamed
<1>5. /\ FileNamed(d, name) \in Path /\ FileNamed(d, name) # <<>> /\ Front(FileNamed(d, name)) = d
      /\ FileNamed(d, name)[Len(FileNamed(d, name))] = 2 * b + 1
  BY <1>1, <1>2, AppendIs DEF FileNamed
<1>. QED
  BY <1>2, <1>3, <1>4, <1>5 DEF FilePath

\* The directories of an entry.
LEMMA FrontIn ==
    ASSUME NEW ds, NEW fs, NEW u, TreeOf(ds, fs, u), NEW p \in DOMAIN ds \union DOMAIN fs, p # <<>>
    PROVE  p \in Path /\ Front(p) \in DOMAIN ds /\ Front(p) \in Path
<1>1. p \in Path
  BY DirPathIs DEF TreeOf, FilePath
<1>2. Front(p) \in Path /\ IsStrictPrefix(Front(p), p)
  BY <1>1, FrontIs
<1>. QED
  BY <1>1, <1>2 DEF TreeOf

LEMMA TreeApart ==
    ASSUME NEW ds, NEW fs, NEW u, TreeOf(ds, fs, u)
    PROVE  /\ DOMAIN ds \intersect DOMAIN fs = {}
           /\ \A p \in DOMAIN ds \union DOMAIN fs : p \in Path
           /\ <<>> \notin DOMAIN fs
BY DirNotFile, DirPathIs DEF TreeOf, FilePath

LEMMA TreeGrows ==
    ASSUME NEW ds, NEW fs, NEW u, NEW v, TreeOf(ds, fs, u), u \subseteq v
    PROVE  TreeOf(ds, fs, v)
BY DEF TreeOf

LEMMA WithoutIs ==
    ASSUME NEW f, NEW S
    PROVE  /\ DOMAIN Without(f, S) = DOMAIN f \ S
           /\ \A z \in DOMAIN f \ S : Without(f, S)[z] = f[z]
BY DEF Without, Restrict

\* A file that is written into a directory of the tree.
LEMMA TreeBindFile ==
    ASSUME NEW ds, NEW fs, NEW u, TreeOf(ds, fs, u), NEW f \in FilePath, Front(f) \in DOMAIN ds,
           NEW rec \in FileRec, rec.id \in u \union {None}
    PROVE  TreeOf(ds, Bind(fs, f, rec), u)
<1> DEFINE gs == Bind(fs, f, rec)
<1>1. /\ DOMAIN gs = DOMAIN fs \union {f} /\ gs[f] = rec
      /\ \A z \in DOMAIN fs \ {f} : gs[z] = fs[z]
  BY DEF Bind
<1>. HIDE DEF gs
<1>2. ASSUME NEW q \in Path, IsStrictPrefix(q, f) PROVE q \in DOMAIN ds
  <2>1. f \in Path /\ f # <<>>
    BY DEF FilePath
  <2>2. Front(f) \in Path /\ IsPrefix(q, Front(f))
    BY <1>2, <2>1, FrontIs
  <2>3. q = Front(f) \/ IsStrictPrefix(q, Front(f))
    BY <2>2, PrefixTrans
  <2>. QED
    BY <2>3 DEF TreeOf
<1>. QED
  BY <1>1, <1>2 DEF TreeOf, gs

\* A folder.yaml that is written into a directory that is there.
LEMMA TreeBindDir ==
    ASSUME NEW ds, NEW fs, NEW u, TreeOf(ds, fs, u), NEW d \in DOMAIN ds,
           NEW rec \in DirRec, rec.id \in u \union {None}, d = <<>> => rec.id = Root
    PROVE  TreeOf(Bind(ds, d, rec), fs, u)
<1>1. /\ DOMAIN Bind(ds, d, rec) = DOMAIN ds /\ Bind(ds, d, rec)[d] = rec
      /\ \A z \in DOMAIN ds \ {d} : Bind(ds, d, rec)[z] = ds[z]
  BY DEF Bind
<1>. QED
  BY <1>1 DEF TreeOf

LEMMA TreeDropFile ==
    ASSUME NEW ds, NEW fs, NEW u, TreeOf(ds, fs, u), NEW S
    PROVE  TreeOf(ds, Without(fs, S), u)
<1>1. DOMAIN Without(fs, S) = DOMAIN fs \ S /\ \A z \in DOMAIN fs \ S : Without(fs, S)[z] = fs[z]
  BY WithoutIs, Zenon
<1>. QED
  BY <1>1 DEF TreeOf

LEMMA TreeDropDir ==
    ASSUME NEW ds, NEW fs, NEW u, TreeOf(ds, fs, u), NEW d, d # <<>>,
           \A p \in DOMAIN ds \union DOMAIN fs : ~IsStrictPrefix(d, p)
    PROVE  TreeOf(Without(ds, {d}), fs, u)
<1>1. /\ DOMAIN Without(ds, {d}) = DOMAIN ds \ {d}
      /\ \A z \in DOMAIN ds \ {d} : Without(ds, {d})[z] = ds[z]
  BY WithoutIs
<1>. QED
  BY <1>1 DEF TreeOf

\* More directories, closed under the way to each.
LEMMA TreeMoreDirs ==
    ASSUME NEW ds, NEW fs, NEW u, TreeOf(ds, fs, u), NEW es, DOMAIN ds \subseteq DOMAIN es,
           DOMAIN es \subseteq DirPath,
           \A d \in DOMAIN es : es[d] = NoYaml \/ (d \in DOMAIN ds /\ es[d] = ds[d]),
           es[<<>>] = ds[<<>>],
           \A d \in DOMAIN es \ DOMAIN ds, q \in Path : IsStrictPrefix(q, d) => q \in DOMAIN es
    PROVE  TreeOf(es, fs, u)
<1>1. NoYaml \in DirRec /\ NoYaml.id = None
  BY DEF NoYaml, DirRec
<1>. QED
  BY <1>1 DEF TreeOf

\* What is where after a directory has moved.
LEMMA RelocatedIs ==
    ASSUME NEW from \in Path, NEW to \in Path, NEW f, DOMAIN f \subseteq Path
    PROVE  /\ \A p \in DOMAIN f : IF IsPrefix(from, p) THEN Under(from, to, p) \in DOMAIN Relocated(f, from, to)
                                                       ELSE p \in DOMAIN Relocated(f, from, to)
           /\ \A q \in DOMAIN Relocated(f, from, to) :
                 \/ q \in DOMAIN f /\ ~IsPrefix(from, q) /\ Relocated(f, from, to)[q] = f[q]
                 \/ \E p \in DOMAIN f : /\ IsPrefix(from, p) /\ q = Under(from, to, p)
                                        /\ Relocated(f, from, to)[q] = f[p]
<1> DEFINE moved == {p \in DOMAIN f : IsPrefix(from, p)}
           places == {Under(from, to, p) : p \in moved}
           g == Relocated(f, from, to)
<1>1. /\ DOMAIN g = (DOMAIN f \ moved) \union places
      /\ \A q \in DOMAIN g : g[q] = IF q \in places THEN f[Under(to, from, q)] ELSE f[q]
  BY DEF Relocated
<1>2. \A p \in moved : Under(to, from, Under(from, to, p)) = p
  BY UnderBack
<1>3. ASSUME NEW q \in places
      PROVE  \E p \in DOMAIN f : IsPrefix(from, p) /\ q = Under(from, to, p) /\ g[q] = f[p]
  <2>1. PICK p \in moved : q = Under(from, to, p)
    OBVIOUS
  <2>2. g[q] = f[p]
    BY <1>1, <1>2, <2>1
  <2>. QED
    BY <2>1, <2>2
<1>4. ASSUME NEW q \in DOMAIN g, q \notin places
      PROVE  q \in DOMAIN f /\ ~IsPrefix(from, q) /\ g[q] = f[q]
  BY <1>1, <1>4
<1>5. \A p \in DOMAIN f : IF IsPrefix(from, p) THEN Under(from, to, p) \in DOMAIN g ELSE p \in DOMAIN g
  BY <1>1
<1>. HIDE DEF g, places
<1>6. \A q \in DOMAIN g :
         \/ q \in DOMAIN f /\ ~IsPrefix(from, q) /\ g[q] = f[q]
         \/ \E p \in DOMAIN f : IsPrefix(from, p) /\ q = Under(from, to, p) /\ g[q] = f[p]
  BY <1>3, <1>4
<1>. QED
  BY <1>5, <1>6 DEF g

LEMMA UnderKind ==
    ASSUME NEW from \in DirPath, NEW to \in DirPath, NEW p \in Path, IsPrefix(from, p)
    PROVE  /\ p \in DirPath => Under(from, to, p) \in DirPath
           /\ p \in FilePath => Under(from, to, p) \in FilePath
<1> DEFINE u == Under(from, to, p)
<1>1. /\ from \in Path /\ to \in Path
      /\ Len(from) \in Nat /\ Len(to) \in Nat /\ Len(p) \in Nat /\ Len(from) <= Len(p)
      /\ \A i \in 1..Len(to) : to[i] \in DirNos
      /\ \A i \in 1..Len(from) : from[i] \in DirNos
  BY DirPathIs, LenIs, PrefixIs
<1>2. /\ u \in Path /\ Len(u) = Len(to) + Len(p) - Len(from)
      /\ \A i \in 1..Len(to) : u[i] = to[i]
      /\ \A i \in Len(to) + 1..Len(to) + Len(p) - Len(from) : u[i] = p[i - Len(to) + Len(from)]
  BY <1>1, UnderIs
<1>. HIDE DEF u
<1>3. ASSUME p \in DirPath PROVE u \in DirPath
  <2>1. \A i \in 1..Len(p) : p[i] \in DirNos
    BY <1>3, DirPathIs
  <2>2. ASSUME NEW i \in 1..Len(u) PROVE u[i] \in DirNos
    <3>1. CASE i <= Len(to)
      BY <1>1, <1>2, <3>1
    <3>2. CASE i > Len(to)
      <4>1. u[i] = p[i - Len(to) + Len(from)] /\ i - Len(to) + Len(from) \in 1..Len(p)
        BY <1>1, <1>2, <3>2
      <4>. QED
        BY <2>1, <4>1
    <3>. QED
      BY <1>1, <3>1, <3>2
  <2>. QED
    BY <1>2, <2>2, IsDirPath
<1>4. ASSUME p \in FilePath PROVE u \in FilePath
  <2>1. p # from
    BY <1>4, DirNotFile
  <2>2. Len(from) < Len(p)
    BY <1>1, <2>1, PrefixTrans, StrictIs
  <2>3. Len(u) # 0 /\ u[Len(u)] = p[Len(u) - Len(to) + Len(from)] /\ Len(u) - Len(to) + Len(from) = Len(p)
    BY <1>1, <1>2, <2>2
  <2>4. u # <<>> /\ u[Len(u)] = p[Len(p)]
    BY <2>3
  <2>. QED
    BY <1>2, <1>4, <2>4 DEF FilePath
<1>. QED
  BY <1>3, <1>4 DEF u

\* The tree after a directory has moved to a place outside itself.
LEMMA TreeMove ==
    ASSUME NEW ds, NEW fs, NEW u, TreeOf(ds, fs, u),
           NEW from \in DirPath, from # <<>>, NEW to \in DirPath, to # <<>>, ~IsPrefix(from, to),
           Front(to) \in DOMAIN ds
    PROVE  TreeOf(Relocated(ds, from, to), Relocated(fs, from, to), u)
<1> DEFINE es == Relocated(ds, from, to)
           gs == Relocated(fs, from, to)
<1>1. from \in Path /\ to \in Path /\ DOMAIN ds \subseteq Path /\ DOMAIN fs \subseteq Path
  BY DirPathIs, TreeApart
<1>2. /\ \A p \in DOMAIN ds : IF IsPrefix(from, p) THEN Under(from, to, p) \in DOMAIN es ELSE p \in DOMAIN es
      /\ \A q \in DOMAIN es :
            \/ q \in DOMAIN ds /\ ~IsPrefix(from, q) /\ es[q] = ds[q]
            \/ \E p \in DOMAIN ds : IsPrefix(from, p) /\ q = Under(from, to, p) /\ es[q] = ds[p]
  BY <1>1, RelocatedIs
<1>3. \A q \in DOMAIN gs :
            \/ q \in DOMAIN fs /\ ~IsPrefix(from, q) /\ gs[q] = fs[q]
            \/ \E p \in DOMAIN fs : IsPrefix(from, p) /\ q = Under(from, to, p) /\ gs[q] = fs[p]
  BY <1>1, RelocatedIs
<1>. HIDE DEF es, gs
<1>4. ASSUME NEW q \in DOMAIN es
      PROVE  q \in DirPath /\ es[q] \in DirRec /\ es[q].id \in u \union {None}
  <2>1. CASE q \in DOMAIN ds /\ es[q] = ds[q]
    BY <2>1 DEF TreeOf
  <2>2. CASE \E p \in DOMAIN ds : IsPrefix(from, p) /\ q = Under(from, to, p) /\ es[q] = ds[p]
    <3>1. PICK p \in DOMAIN ds : IsPrefix(from, p) /\ q = Under(from, to, p) /\ es[q] = ds[p]
      BY <2>2
    <3>2. p \in DirPath /\ p \in Path /\ ds[p] \in DirRec /\ ds[p].id \in u \union {None}
      BY <1>1 DEF TreeOf
    <3>. QED
      BY <3>1, <3>2, UnderKind
  <2>. QED
    BY <1>2, <2>1, <2>2
<1>5. ASSUME NEW q \in DOMAIN gs
      PROVE  q \in FilePath /\ gs[q] \in FileRec /\ gs[q].id \in u \union {None}
  <2>1. CASE q \in DOMAIN fs /\ gs[q] = fs[q]
    BY <2>1 DEF TreeOf
  <2>2. CASE \E p \in DOMAIN fs : IsPrefix(from, p) /\ q = Under(from, to, p) /\ gs[q] = fs[p]
    <3>1. PICK p \in DOMAIN fs : IsPrefix(from, p) /\ q = Under(from, to, p) /\ gs[q] = fs[p]
      BY <2>2
    <3>2. p \in FilePath /\ p \in Path /\ fs[p] \in FileRec /\ fs[p].id \in u \union {None}
      BY <1>1 DEF TreeOf
    <3>. QED
      BY <3>1, <3>2, UnderKind
  <2>. QED
    BY <1>3, <2>1, <2>2
<1>6. <<>> \in DOMAIN es /\ es[<<>>].id = Root
  <2>1. <<>> \in Path /\ <<>> \in DOMAIN ds /\ ds[<<>>].id = Root
    BY EmptySeq DEF Path, TreeOf
  <2>2. ASSUME NEW p \in Path, p # <<>> PROVE ~IsPrefix(p, <<>>)
    <3>1. Len(p) \in Nat /\ Len(p) # 0 /\ Len(<<>>) = 0
      BY <2>2, EmptySeq DEF Path
    <3>. QED
      BY <2>1, <3>1, PrefixIs
  <2>3. <<>> \in DOMAIN es
    BY <1>1, <1>2, <2>1, <2>2
  <2>4. ASSUME NEW p \in DOMAIN ds, IsPrefix(from, p), <<>> = Under(from, to, p) PROVE FALSE
    <3>1. IsPrefix(to, <<>>)
      BY <1>1, <2>4, UnderIs
    <3>. QED
      BY <1>1, <2>2, <3>1
  <2>5. es[<<>>] = ds[<<>>]
    BY <1>2, <2>3, <2>4
  <2>. QED
    BY <2>1, <2>3, <2>5
<1>7. ASSUME NEW q \in Path, IsStrictPrefix(q, to) PROVE q \in DOMAIN ds /\ ~IsPrefix(from, q)
  <2>1. Front(to) \in Path /\ IsPrefix(q, Front(to))
    BY <1>1, <1>7, FrontIs
  <2>2. q \in DOMAIN ds
    BY <2>1, PrefixTrans DEF TreeOf
  <2>3. IsPrefix(from, q) => IsPrefix(from, to)
    BY <1>1, <1>7, PrefixTrans DEF IsStrictPrefix
  <2>. QED
    BY <2>2, <2>3
<1>8. ASSUME NEW p \in DOMAIN ds \union DOMAIN fs, ~IsPrefix(from, p),
             NEW q \in Path, IsStrictPrefix(q, p)
      PROVE  q \in DOMAIN es
  <2>1. q \in DOMAIN ds /\ p \in Path
    BY <1>1, <1>8 DEF TreeOf
  <2>2. ~IsPrefix(from, q)
    BY <1>1, <1>8, <2>1, PrefixTrans DEF IsStrictPrefix
  <2>. QED
    BY <1>2, <2>1, <2>2
<1>9. ASSUME NEW p \in DOMAIN ds \union DOMAIN fs, IsPrefix(from, p),
             NEW q \in Path, IsStrictPrefix(q, Under(from, to, p))
      PROVE  q \in DOMAIN es
  <2>1. p \in Path
    BY <1>1
  <2>2. CASE IsStrictPrefix(q, to)
    BY <1>2, <1>7, <2>2
  <2>3. CASE /\ IsPrefix(to, q) /\ Under(to, from, q) \in Path
             /\ IsPrefix(from, Under(to, from, q)) /\ IsStrictPrefix(Under(to, from, q), p)
             /\ Under(from, to, Under(to, from, q)) = q
    <3>1. Under(to, from, q) \in DOMAIN ds
      BY <2>3 DEF TreeOf
    <3>. QED
      BY <1>2, <2>3, <3>1
  <2>. QED
    BY <1>1, <1>9, <2>1, <2>2, <2>3, UnderWay
<1>10. ASSUME NEW p \in DOMAIN es \union DOMAIN gs, NEW q \in Path, IsStrictPrefix(q, p)
       PROVE  q \in DOMAIN es
  <2>1. \/ p \in DOMAIN ds \union DOMAIN fs /\ ~IsPrefix(from, p)
        \/ \E p1 \in DOMAIN ds \union DOMAIN fs : IsPrefix(from, p1) /\ p = Under(from, to, p1)
    BY <1>2, <1>3
  <2>. QED
    BY <1>8, <1>9, <1>10, <2>1
<1>11. TreeOf(es, gs, u)
  BY <1>4, <1>5, <1>6, <1>10 DEF TreeOf
<1>. QED
  BY <1>11 DEF es, gs

-----------------------------------------------------------------------------
(* Types *)

IndexRec ==
    [id : SessionIds, name : Names \union {None}, rev : Revs, folder : FolderIds, file : FilePath]

FoldersOK(fo, u) ==
    /\ DOMAIN fo \subseteq u \intersect FolderIds
    /\ \A id \in DOMAIN fo :
          /\ fo[id].dir \in DirPath /\ (fo[id].dir = <<>> => id = Root)
          /\ fo[id].name \in Names \union {None} /\ fo[id].src \in BOOLEAN

SessionsOK(se, u) ==
    /\ DOMAIN se \subseteq u \intersect SessionIds
    /\ \A id \in DOMAIN se : se[id].rev \in Revs /\ se[id].file \in FilePath

StepRec ==
    [do : {"writeSession", "writeFolder", "remove", "removeYaml", "removeDir", "makeDir", "move",
           "remember", "forget", "reload"},
     at : Path, to : Path,
     rec : FileRec \union DirRec \union IndexRec \union SessionIds \union FolderIds \union {None}]

\* What a step that is still to be taken may do.
StepOK(s, u) ==
    /\ s.do = "writeSession" => s.at \in FilePath /\ s.rec \in FileRec /\ s.rec.id \in u
    /\ s.do = "writeFolder" =>
          /\ s.at \in DirPath /\ s.rec \in DirRec /\ s.rec.id \in u
          /\ s.at = <<>> => s.rec.id = Root
    /\ s.do \in {"removeYaml", "removeDir"} => s.at # <<>>
    /\ s.do = "makeDir" => s.at \in DirPath
    /\ s.do = "move" =>
          /\ s.at \in DirPath /\ s.at # <<>> /\ s.to \in DirPath /\ s.to # <<>>
          /\ ~IsPrefix(s.at, s.to)
    /\ s.do = "remember" => s.rec \in IndexRec /\ s.rec.id \in u

Steps(u) == {s \in StepRec : StepOK(s, u)}

StatusInv ==
    /\ status \in {"down", "opening", "up"}
    /\ status = "down" => todo = <<>> /\ folders = Empty /\ sessions = Empty
    /\ status = "opening" => todo = <<Reload>> /\ folders = Empty /\ sessions = Empty

Flags ==
    /\ touched \in BOOLEAN /\ synced \in BOOLEAN /\ cut \in BOOLEAN
    /\ faults \in 0..MaxFaults

TypeInv ==
    /\ TreeOf(dirs, files, used)
    /\ FoldersOK(folders, used)
    /\ SessionsOK(sessions, used)
    /\ todo \in Seq(Steps(used))
    /\ StatusInv
    /\ Flags

LEMMA StepsGrow ==
    ASSUME NEW u, NEW v, u \subseteq v, NEW s \in Seq(Steps(u))
    PROVE  s \in Seq(Steps(v))
<1>1. Steps(u) \subseteq Steps(v)
  BY DEF Steps, StepOK
<1>. QED
  BY <1>1, SeqMonotonic

LEMMA IndexGrows ==
    ASSUME NEW u, NEW v, u \subseteq v
    PROVE  /\ \A fo : FoldersOK(fo, u) => FoldersOK(fo, v)
           /\ \A se : SessionsOK(se, u) => SessionsOK(se, v)
BY DEF FoldersOK, SessionsOK

LEMMA EmptyOK == \A u : FoldersOK(Empty, u) /\ SessionsOK(Empty, u)
BY DEF FoldersOK, SessionsOK, Empty

\* The steps, by what they do.
LEMMA StepsAre ==
    ASSUME NEW u
    PROVE  /\ \A f \in FilePath, rec \in FileRec : rec.id \in u => WriteSession(f, rec) \in Steps(u)
           /\ \A d \in DirPath, rec \in DirRec :
                 rec.id \in u /\ (d = <<>> => rec.id = Root) => WriteFolder(d, rec) \in Steps(u)
           /\ \A f \in FilePath : Unlink(f) \in Steps(u)
           /\ \A d \in DirPath \ {<<>>} : UnlinkYaml(d) \in Steps(u) /\ UnlinkDir(d) \in Steps(u)
           /\ \A d \in DirPath : MakeDir(d) \in Steps(u)
           /\ \A d, to \in DirPath \ {<<>>} : ~IsPrefix(d, to) => Move(d, to) \in Steps(u)
           /\ \A rec \in IndexRec : rec.id \in u => Remember(rec) \in Steps(u)
           /\ \A id \in SessionIds \union FolderIds : Forget(id) \in Steps(u)
           /\ Reload \in Steps(u)
<1>. USE DEF Steps, StepOK, StepRec, Step
<1>1. <<>> \in Path /\ DirPath \subseteq Path /\ FilePath \subseteq Path
  BY EmptySeq, DirPathIs DEF FilePath, Path
<1>2. \A f \in FilePath, rec \in FileRec : rec.id \in u => WriteSession(f, rec) \in Steps(u)
  BY <1>1 DEF WriteSession
<1>3. \A d \in DirPath, rec \in DirRec :
         rec.id \in u /\ (d = <<>> => rec.id = Root) => WriteFolder(d, rec) \in Steps(u)
  BY <1>1 DEF WriteFolder
<1>4. \A f \in FilePath : Unlink(f) \in Steps(u)
  BY <1>1 DEF Unlink
<1>5. \A d \in DirPath \ {<<>>} : UnlinkYaml(d) \in Steps(u) /\ UnlinkDir(d) \in Steps(u)
  BY <1>1 DEF UnlinkYaml, UnlinkDir
<1>6. \A d \in DirPath : MakeDir(d) \in Steps(u)
  BY <1>1 DEF MakeDir
<1>7. \A d, to \in DirPath \ {<<>>} : ~IsPrefix(d, to) => Move(d, to) \in Steps(u)
  BY <1>1 DEF Move
<1>8. \A rec \in IndexRec : rec.id \in u => Remember(rec) \in Steps(u)
  BY <1>1 DEF Remember
<1>9. \A id \in SessionIds \union FolderIds : Forget(id) \in Steps(u)
  BY <1>1 DEF Forget
<1>10. Reload \in Steps(u)
  BY <1>1 DEF Reload
<1>. QED
  BY <1>2, <1>3, <1>4, <1>5, <1>6, <1>7, <1>8, <1>9, <1>10

\* The forms of a list of steps.
LEMMA ListsAre ==
    ASSUME NEW S
    PROVE  /\ \A a \in S : <<a>> \in Seq(S)
           /\ \A a, b \in S : <<a, b>> \in Seq(S)
           /\ \A a, b, c \in S : <<a, b, c>> \in Seq(S)
OBVIOUS

LEMMA ListsJoin ==
    ASSUME NEW a, NEW b, NEW c
    PROVE  /\ <<a>> \o <<b>> = <<a, b>> /\ <<a>> \o <<>> = <<a>>
           /\ <<a, b>> \o <<c>> = <<a, b, c>> /\ <<a>> \o <<b, c>> = <<a, b, c>>
           /\ <<>> \o <<a, b>> = <<a, b>>
<1> DEFINE S == {a, b, c}
<1>1. /\ <<a>> \in Seq(S) /\ <<b>> \in Seq(S) /\ <<c>> \in Seq(S) /\ <<>> \in Seq(S)
      /\ <<a, b>> \in Seq(S) /\ <<b, c>> \in Seq(S) /\ <<a, b, c>> \in Seq(S)
  OBVIOUS
<1>. HIDE DEF S
<1>2. <<a>> \o <<b>> = <<a, b>>
  <2>1. /\ <<a>> \o <<b>> \in Seq(S) /\ Len(<<a>> \o <<b>>) = Len(<<a>>) + Len(<<b>>)
        /\ \A i \in 1..Len(<<a>>) + Len(<<b>>) :
              (<<a>> \o <<b>>)[i] = IF i <= Len(<<a>>) THEN <<a>>[i] ELSE <<b>>[i - Len(<<a>>)]
    BY <1>1, ConcatProperties
  <2> DEFINE x == <<a>> \o <<b>>
  <2>2. x \in Seq(S) /\ Len(x) = 2 /\ x[1] = a /\ x[2] = b
    BY <2>1
  <2>. HIDE DEF x
  <2>3. x = <<a, b>>
    BY <1>1, <2>2, SeqEqual
  <2>. QED
    BY <2>3 DEF x
<1>3. <<a, b>> \o <<c>> = <<a, b, c>>
  <2>1. /\ <<a, b>> \o <<c>> \in Seq(S) /\ Len(<<a, b>> \o <<c>>) = Len(<<a, b>>) + Len(<<c>>)
        /\ \A i \in 1..Len(<<a, b>>) + Len(<<c>>) :
              (<<a, b>> \o <<c>>)[i] = IF i <= Len(<<a, b>>) THEN <<a, b>>[i] ELSE <<c>>[i - Len(<<a, b>>)]
    BY <1>1, ConcatProperties
  <2> DEFINE x == <<a, b>> \o <<c>>
  <2>2. x \in Seq(S) /\ Len(x) = 3 /\ x[1] = a /\ x[2] = b /\ x[3] = c
    BY <2>1
  <2>. HIDE DEF x
  <2>3. x = <<a, b, c>>
    BY <1>1, <2>2, SeqEqual
  <2>. QED
    BY <2>3 DEF x
<1>4. <<a>> \o <<b, c>> = <<a, b, c>>
  <2>1. /\ <<a>> \o <<b, c>> \in Seq(S) /\ Len(<<a>> \o <<b, c>>) = Len(<<a>>) + Len(<<b, c>>)
        /\ \A i \in 1..Len(<<a>>) + Len(<<b, c>>) :
              (<<a>> \o <<b, c>>)[i] = IF i <= Len(<<a>>) THEN <<a>>[i] ELSE <<b, c>>[i - Len(<<a>>)]
    BY <1>1, ConcatProperties
  <2> DEFINE x == <<a>> \o <<b, c>>
  <2>2. x \in Seq(S) /\ Len(x) = 3 /\ x[1] = a /\ x[2] = b /\ x[3] = c
    BY <2>1
  <2>. HIDE DEF x
  <2>3. x = <<a, b, c>>
    BY <1>1, <2>2, SeqEqual
  <2>. QED
    BY <2>3 DEF x
<1>5. <<a>> \o <<>> = <<a>> /\ <<>> \o <<a, b>> = <<a, b>>
  BY <1>1, ConcatEmptySeq
<1>. QED
  BY <1>2, <1>3, <1>4, <1>5

LEMMA PutStepsAre ==
    ASSUME NEW in, NEW id, NEW rev
    PROVE  LET target == FileNamed(folders[in.folder].dir, in.name)
               rec == [id |-> id, name |-> in.name, rev |-> rev]
           IN  PutSteps(in, id, rev) =
                  IF Renames(in, target)
                  THEN <<WriteSession(target, rec), Unlink(sessions[in.id].file),
                         Remember(Filed(rec, in.folder, target))>>
                  ELSE <<WriteSession(target, rec), Remember(Filed(rec, in.folder, target))>>
<1> DEFINE target == FileNamed(folders[in.folder].dir, in.name)
           rec == [id |-> id, name |-> in.name, rev |-> rev]
           W == WriteSession(target, rec)
           U == Unlink(sessions[in.id].file)
           R == Remember(Filed(rec, in.folder, target))
<1>1. PutSteps(in, id, rev) = <<W>> \o (IF Renames(in, target) THEN <<U>> ELSE <<>>) \o <<R>>
  BY DEF PutSteps
<1>. HIDE DEF W, U, R, target
<1>2. <<W>> \o <<U>> \o <<R>> = <<W, U, R>> /\ <<W>> \o <<>> \o <<R>> = <<W, R>>
  BY ListsJoin
<1>. QED
  BY <1>1, <1>2 DEF W, U, R, target

LEMMA MoveStepsAre ==
    ASSUME NEW d, NEW to, NEW rec
    PROVE  MoveSteps(d, to, rec) = IF d # to THEN <<Move(d, to), WriteFolder(to, rec), Reload>>
                                             ELSE <<WriteFolder(to, rec), Reload>>
<1> DEFINE M == Move(d, to)
           W == WriteFolder(to, rec)
           R == Reload
<1>1. MoveSteps(d, to, rec) = (IF d # to THEN <<M>> ELSE <<>>) \o <<W, R>>
  BY DEF MoveSteps
<1>. HIDE DEF M, W, R
<1>2. <<M>> \o <<W, R>> = <<M, W, R>> /\ <<>> \o <<W, R>> = <<W, R>>
  BY ListsJoin
<1>. QED
  BY <1>1, <1>2 DEF M, W, R

\* A made-up name for an entry is a name.
LEMMA PlainIs ==
    ASSUME NEW p \in DirPath \union FilePath, p # <<>>
    PROVE  PlainName[p[Len(p)] \div 2] \in Names
<1>1. CASE p \in DirPath
  <2>1. p \in Path /\ Len(p) \in Nat /\ Len(p) # 0 /\ \A i \in 1..Len(p) : p[i] \in DirNos
    BY <1>1, DirPathIs, EmptySeq DEF Path
  <2>2. PICK b \in Bases : p[Len(p)] = 2 * b
    BY <2>1 DEF DirNos
  <2>3. b \in Nat /\ (2 * b) \div 2 = b
    BY BasesAre
  <2>. QED
    BY <2>2, <2>3, BasesAre
<1>2. CASE p \in FilePath
  <2>1. PICK b \in Bases : p[Len(p)] = 2 * b + 1
    BY <1>2 DEF FilePath
  <2>2. b \in Nat /\ (2 * b + 1) \div 2 = b
    BY BasesAre
  <2>. QED
    BY <2>1, <2>2, BasesAre
<1>. QED
  BY <1>1, <1>2

LEMMA RevsAre ==
    /\ Revs \subseteq Nat /\ 0 \in Revs
    /\ \A id \in SessionIds :
          /\ MaxRev[id] \in Revs /\ 1 \in Revs
          /\ \A n \in Nat : n < MaxRev[id] => n + 1 \in Revs
<1>1. Revs \subseteq Nat /\ 0 \in Revs
  BY StoreAssumption DEF StoreAssumption, Revs
<1>2. ASSUME NEW id \in SessionIds
      PROVE  /\ MaxRev[id] \in Revs /\ 1 \in Revs
             /\ \A n \in Nat : n < MaxRev[id] => n + 1 \in Revs
  <2>1. MaxRev[id] \in Nat /\ MaxRev[id] # 0
    BY StoreAssumption DEF StoreAssumption
  <2>2. 1..MaxRev[id] \subseteq Revs
    BY DEF Revs
  <2>. QED
    BY <2>1, <2>2
<1>. QED
  BY <1>1, <1>2

LEMMA FreshIs ==
    /\ SessionIds \ used # {} => Fresh(SessionIds) \in SessionIds /\ Fresh(SessionIds) \notin used
    /\ FolderIds \ used # {} => Fresh(FolderIds) \in FolderIds /\ Fresh(FolderIds) \notin used
BY DEF Fresh

LEMMA NewRecs ==
    /\ \A id \in SessionIds, name \in Names \union {None}, rev \in Revs :
          [id |-> id, name |-> name, rev |-> rev] \in FileRec
    /\ \A id \in FolderIds, name \in Names \union {None}, src \in BOOLEAN :
          [id |-> id, name |-> name, src |-> src] \in DirRec
    /\ [id |-> None, name |-> None, rev |-> 0] \in FileRec
    /\ NoYaml \in DirRec /\ NoYaml.id = None
BY RevsAre DEF FileRec, DirRec, NoYaml

LEMMA PutStepsOK ==
    ASSUME TypeInv, NEW in, in.name \in Names, BaseOf[in.name] # 0, in.folder \in DOMAIN folders,
           NEW u, used \subseteq u, NEW id \in SessionIds, id \in u, NEW rev \in Revs
    PROVE  PutSteps(in, id, rev) \in Seq(Steps(u))
<1> DEFINE target == FileNamed(folders[in.folder].dir, in.name)
           rec == [id |-> id, name |-> in.name, rev |-> rev]
           W == WriteSession(target, rec)
           U == Unlink(sessions[in.id].file)
           R == Remember(Filed(rec, in.folder, target))
<1>1. folders[in.folder].dir \in DirPath /\ in.folder \in FolderIds
  BY DEF TypeInv, FoldersOK
<1>2. target \in FilePath
  BY <1>1, NamedIs
<1>3. rec \in FileRec /\ rec.id = id
  BY NewRecs
<1>4. Filed(rec, in.folder, target) \in IndexRec /\ Filed(rec, in.folder, target).id = id
  <2>. HIDE DEF target
  <2>. QED
    BY <1>1, <1>2 DEF Filed, IndexRec
<1>5. Renames(in, target) => sessions[in.id].file \in FilePath
  BY DEF Renames, TypeInv, SessionsOK
<1>6. PutSteps(in, id, rev) = IF Renames(in, target) THEN <<W, U, R>> ELSE <<W, R>>
  BY PutStepsAre
<1>. HIDE DEF target, rec
<1>7. W \in Steps(u) /\ R \in Steps(u) /\ (Renames(in, target) => U \in Steps(u))
  BY <1>2, <1>3, <1>4, <1>5, StepsAre
<1>. HIDE DEF W, U, R
<1>. QED
  BY <1>6, <1>7, ListsAre

LEMMA StartKeeps ==
    ASSUME TypeInv, NEW steps, Start(steps), steps \in Seq(Steps(used')), used \subseteq used',
           cut' \in BOOLEAN
    PROVE  TypeInv'
<1>. USE DEF Start, Idle, disk, index
<1>1. TreeOf(dirs', files', used')
  BY TreeGrows DEF TypeInv
<1>2. FoldersOK(folders', used') /\ SessionsOK(sessions', used')
  BY IndexGrows DEF TypeInv
<1>3. todo' \in Seq(Steps(used'))
  OBVIOUS
<1>4. StatusInv' /\ Flags'
  BY DEF TypeInv, StatusInv, Flags
<1>. QED
  BY <1>1, <1>2, <1>3, <1>4 DEF TypeInv

LEMMA PlanStarts == ASSUME NEW steps, Plan(steps), TypeInv PROVE Start(steps) /\ cut' \in BOOLEAN
BY DEF Plan, TypeInv, Flags

LEMMA NextStep ==
    ASSUME TypeInv, todo # <<>>
    PROVE  Head(todo) \in Steps(used) /\ Tail(todo) \in Seq(Steps(used))
BY HeadTailProperties DEF TypeInv

LEMMA DoneKeeps ==
    ASSUME TypeInv, todo # <<>>, Head(todo).do # "reload", Done,
           TreeOf(dirs', files', used'), FoldersOK(folders', used'), SessionsOK(sessions', used')
    PROVE  TypeInv'
<1>1. status = "up"
  BY DEF TypeInv, StatusInv, Reload, Step
<1>2. todo' \in Seq(Steps(used'))
  BY NextStep DEF Done
<1>3. StatusInv' /\ Flags'
  BY <1>1 DEF TypeInv, StatusInv, Flags, Done
<1>. QED
  BY <1>2, <1>3 DEF TypeInv

\* The index a walk of named entries builds.
LEMMA IndexOK ==
    ASSUME TypeInv, NEW P \in SUBSET Entries, P \intersect Unnamed = {}
    PROVE  FoldersOK(FolderIndex(P), used) /\ SessionsOK(SessionIndex(P), used)
<1>1. DOMAIN dirs \intersect DOMAIN files = {}
  BY TreeApart DEF TypeInv
<1>2. ASSUME NEW d \in P \intersect DOMAIN dirs
      PROVE  /\ dirs[d].id \in used \intersect FolderIds /\ d \in DirPath
             /\ (d = <<>> => dirs[d].id = Root)
             /\ dirs[d].name \in Names \union {None} /\ dirs[d].src \in BOOLEAN
  <2>1. dirs[d].id # None
    BY <1>1, <1>2 DEF Unnamed, IdAt, Entries
  <2>. QED
    BY <1>2, <2>1 DEF TypeInv, TreeOf, DirRec
<1>3. ASSUME NEW f \in P \intersect DOMAIN files
      PROVE  files[f].id \in used \intersect SessionIds /\ files[f].rev \in Revs /\ f \in FilePath
  <2>1. files[f].id # None
    BY <1>1, <1>3 DEF Unnamed, IdAt, Entries
  <2>. QED
    BY <1>3, <2>1 DEF TypeInv, TreeOf, FileRec
<1>4. FoldersOK(FolderIndex(P), used)
  <2> DEFINE ids == {dirs[d].id : d \in P \intersect DOMAIN dirs}
             At(id) == CHOOSE d \in P \intersect DOMAIN dirs : dirs[d].id = id
  <2>1. DOMAIN FolderIndex(P) = ids /\ \A id \in ids : FolderIndex(P)[id] = FolderEntry(At(id))
    BY DEF FolderIndex
  <2>2. ids \subseteq used \intersect FolderIds
    BY <1>2
  <2>3. \A id \in ids : At(id) \in P \intersect DOMAIN dirs /\ dirs[At(id)].id = id
    OBVIOUS
  <2>. HIDE DEF ids, At
  <2>4. ASSUME NEW id \in ids
        PROVE  /\ FolderIndex(P)[id].dir \in DirPath /\ (FolderIndex(P)[id].dir = <<>> => id = Root)
               /\ FolderIndex(P)[id].name \in Names \union {None} /\ FolderIndex(P)[id].src \in BOOLEAN
    <3>1. /\ FolderIndex(P)[id].dir = At(id) /\ FolderIndex(P)[id].name = dirs[At(id)].name
          /\ FolderIndex(P)[id].src = dirs[At(id)].src
      BY <2>1 DEF FolderEntry
    <3>. QED
      BY <1>2, <2>3, <3>1
  <2>. QED
    BY <2>1, <2>2, <2>4 DEF FoldersOK
<1>5. SessionsOK(SessionIndex(P), used)
  <2> DEFINE ids == {files[f].id : f \in P \intersect DOMAIN files}
             At(id) == CHOOSE f \in P \intersect DOMAIN files : files[f].id = id
  <2>1. DOMAIN SessionIndex(P) = ids /\ \A id \in ids : SessionIndex(P)[id] = SessionEntry(At(id))
    BY DEF SessionIndex
  <2>2. ids \subseteq used \intersect SessionIds
    BY <1>3
  <2>3. \A id \in ids : At(id) \in P \intersect DOMAIN files /\ files[At(id)].id = id
    OBVIOUS
  <2>. HIDE DEF ids, At
  <2>4. ASSUME NEW id \in ids
        PROVE  SessionIndex(P)[id].rev \in Revs /\ SessionIndex(P)[id].file \in FilePath
    <3>1. SessionIndex(P)[id].rev = files[At(id)].rev /\ SessionIndex(P)[id].file = At(id)
      BY <2>1 DEF SessionEntry
    <3>. QED
      BY <1>3, <2>3, <3>1
  <2>. QED
    BY <2>1, <2>2, <2>4 DEF SessionsOK
<1>. QED
  BY <1>4, <1>5

LEMMA MetIs ==
    ASSUME NEW p \in Reached
    PROVE  MetBefore(p) \in SUBSET Entries /\ MetBefore(p) \intersect Unnamed = {}
BY DEF Reached, MetBefore

LEMMA EndReloadKeeps ==
    ASSUME TypeInv, todo # <<>>, NEW met \in SUBSET Entries, met \intersect Unnamed = {},
           NEW ok \in BOOLEAN, EndReload(met, ok), faults' \in 0..MaxFaults, cut' = cut
    PROVE  TypeInv'
<1>1. FoldersOK(FolderIndex(met), used) /\ SessionsOK(SessionIndex(met), used)
  BY IndexOK
<1>2. TreeOf(dirs', files', used')
  BY DEF EndReload, TypeInv, disk
<1>3. FoldersOK(folders', used') /\ SessionsOK(sessions', used')
  BY <1>1, EmptyOK DEF EndReload
<1>4. todo' \in Seq(Steps(used'))
  BY DEF EndReload
<1>5. StatusInv' /\ Flags'
  BY DEF TypeInv, StatusInv, Flags, EndReload
<1>. QED
  BY <1>2, <1>3, <1>4, <1>5 DEF TypeInv

LEMMA TypeInit == Init => TypeInv
<1>. SUFFICES ASSUME Init PROVE TypeInv
  OBVIOUS
<1> DEFINE rec == [id |-> Root, name |-> None, src |-> FALSE]
<1>1. rec \in DirRec /\ rec.id = Root
  BY StoreAssumption DEF StoreAssumption, DirRec
<1>2. DOMAIN dirs = {<<>>} /\ dirs[<<>>] = rec /\ DOMAIN files = {}
  BY DEF Init, Bind, Empty
<1>3. <<>> \in DirPath /\ <<>> \in Path
  BY EmptySeq DEF DirPath, Path
<1>4. \A q \in Path : ~IsStrictPrefix(q, <<>>)
  <2>1. \A q \in Path : Len(q) \in Nat /\ (q # <<>> => Len(q) # 0) /\ Len(<<>>) = 0
    BY EmptySeq, LenIs DEF Path
  <2>. QED
    BY <1>3, <2>1, StrictIs
<1>5. TreeOf(dirs, files, used)
  <2>. HIDE DEF rec
  <2>. QED
    BY <1>1, <1>2, <1>3, <1>4 DEF TreeOf, Init
<1>6. FoldersOK(folders, used) /\ SessionsOK(sessions, used)
  BY EmptyOK DEF Init
<1>7. todo \in Seq(Steps(used))
  BY EmptySeq DEF Init
<1>8. StatusInv /\ Flags
  <2>1. 0 \in 0..MaxFaults
    BY StoreAssumption DEF StoreAssumption
  <2>. QED
    BY <2>1 DEF Init, StatusInv, Flags
<1>. QED
  BY <1>5, <1>6, <1>7, <1>8 DEF TypeInv

\* The requests.
LEMMA PutNewKeeps ==
    ASSUME TypeInv, NEW in \in SessionIn({None}), PutNew(in) PROVE TypeInv'
<1> DEFINE id == Fresh(SessionIds)
<1>1. id \in SessionIds /\ used' = used \union {id} /\ Plan(PutSteps(in, id, 1))
  BY FreshIs DEF PutNew
<1>2. in.name \in Names /\ BaseOf[in.name] # 0 /\ in.folder \in DOMAIN folders
  BY StoreAssumption DEF StoreAssumption, SessionIn, PutNew, PutRefused
<1>. HIDE DEF id
<1>3. 1 \in Revs
  BY <1>1, RevsAre
<1>4. id \in used' /\ used \subseteq used'
  BY <1>1
<1>5. PutSteps(in, id, 1) \in Seq(Steps(used'))
  BY <1>1, <1>2, <1>3, <1>4, PutStepsOK
<1>. QED
  BY <1>1, <1>4, <1>5, PlanStarts, StartKeeps

LEMMA PutKnownKeeps ==
    ASSUME TypeInv, NEW in \in SessionIn(SessionIds), PutKnown(in) PROVE TypeInv'
<1> DEFINE id == in.id
           rev == sessions[in.id].rev + 1
<1>1. id \in SessionIds /\ used' = used /\ Plan(PutSteps(in, id, rev)) /\ id \in DOMAIN sessions
  BY DEF PutKnown, SessionIn
<1>2. in.name \in Names /\ BaseOf[in.name] # 0 /\ in.folder \in DOMAIN folders
  BY StoreAssumption DEF StoreAssumption, SessionIn, PutKnown, PutRefused
<1>3. rev \in Revs
  <2>1. sessions[id].rev \in Nat /\ sessions[id].rev < MaxRev[id]
    BY <1>1, RevsAre DEF PutKnown, TypeInv, SessionsOK
  <2>. QED
    BY <1>1, <2>1, RevsAre
<1>4. id \in used' /\ used \subseteq used'
  BY <1>1 DEF TypeInv, SessionsOK
<1>. HIDE DEF id, rev
<1>5. PutSteps(in, id, rev) \in Seq(Steps(used'))
  BY <1>1, <1>2, <1>3, <1>4, PutStepsOK
<1>. QED
  BY <1>1, <1>4, <1>5, PlanStarts, StartKeeps

LEMMA PutGoneKeeps ==
    ASSUME TypeInv, NEW in \in SessionIn(SessionIds), PutGone(in, MaxRev[in.id]) PROVE TypeInv'
<1> DEFINE id == in.id
           rev == MaxRev[in.id]
<1>1. id \in SessionIds /\ used' = used /\ Plan(PutSteps(in, id, rev)) /\ id \in used
  BY DEF PutGone, SessionIn
<1>2. in.name \in Names /\ BaseOf[in.name] # 0 /\ in.folder \in DOMAIN folders
  BY StoreAssumption DEF StoreAssumption, SessionIn, PutGone, PutRefused
<1>3. rev \in Revs
  BY <1>1, RevsAre
<1>4. id \in used' /\ used \subseteq used'
  BY <1>1
<1>. HIDE DEF id, rev
<1>5. PutSteps(in, id, rev) \in Seq(Steps(used'))
  BY <1>1, <1>2, <1>3, <1>4, PutStepsOK
<1>. QED
  BY <1>1, <1>4, <1>5, PlanStarts, StartKeeps

LEMMA PutRootKeeps == ASSUME TypeInv, PutRoot PROVE TypeInv'
<1> DEFINE W == WriteFolder(<<>>, dirs[<<>>])
           R == Reload
<1>1. Plan(<<W, R>>) /\ used' = used /\ Root \in DOMAIN folders
  BY DEF PutRoot
<1>2. <<>> \in DirPath /\ dirs[<<>>] \in DirRec /\ dirs[<<>>].id = Root /\ Root \in used
  BY <1>1, EmptySeq DEF TypeInv, TreeOf, FoldersOK, DirPath
<1>3. W \in Steps(used') /\ R \in Steps(used')
  BY <1>1, <1>2, StepsAre
<1>. HIDE DEF W, R
<1>4. <<W, R>> \in Seq(Steps(used'))
  BY <1>3, ListsAre
<1>. QED
  BY <1>1, <1>4, PlanStarts, StartKeeps

LEMMA CreateFolderKeeps ==
    ASSUME TypeInv, NEW in \in FolderIn({None}), CreateFolder(in) PROVE TypeInv'
<1> DEFINE id == Fresh(FolderIds)
           d == DirNamed(folders[in.parent].dir, in.name)
           rec == [id |-> id, name |-> in.name, src |-> FALSE]
           M == MakeDir(d)
           W == WriteFolder(d, rec)
           R == Reload
<1>1. Plan(<<M, W, R>>) /\ used' = used \union {id} /\ id \in FolderIds
  BY FreshIs DEF CreateFolder, CreateSteps
<1>2. in.name \in Names /\ BaseOf[in.name] # 0 /\ folders[in.parent].dir \in DirPath
  BY StoreAssumption DEF StoreAssumption, FolderIn, CreateFolder, FolderRefused, TypeInv, FoldersOK
<1>. HIDE DEF id
<1>3. d \in DirPath /\ d # <<>>
  BY <1>2, NamedIs
<1>4. rec \in DirRec /\ rec.id = id
  BY <1>1, <1>2, NewRecs
<1>. HIDE DEF d, rec
<1>5. M \in Steps(used') /\ W \in Steps(used') /\ R \in Steps(used')
  BY <1>1, <1>3, <1>4, StepsAre
<1>. HIDE DEF M, W, R
<1>6. <<M, W, R>> \in Seq(Steps(used')) /\ used \subseteq used'
  BY <1>1, <1>5, ListsAre
<1>. QED
  BY <1>1, <1>6, PlanStarts, StartKeeps

LEMMA UpdateFolderKeeps ==
    ASSUME TypeInv, NEW in \in FolderIn(FolderIds), UpdateFolder(in) PROVE TypeInv'
<1> DEFINE to == DirNamed(folders[in.parent].dir, in.name)
           d == folders[in.id].dir
           rec == [id |-> in.id, name |-> in.name, src |-> folders[in.id].src]
           M == Move(d, to)
           W == WriteFolder(to, rec)
           R == Reload
<1>1. /\ Plan(MoveSteps(d, to, rec)) /\ used' = used
      /\ in.id \in DOMAIN folders \ {Root} /\ (d # to => ~IsPrefix(d, to))
  BY DEF UpdateFolder
<1>2. in.name \in Names /\ BaseOf[in.name] # 0 /\ folders[in.parent].dir \in DirPath
  BY StoreAssumption DEF StoreAssumption, FolderIn, UpdateFolder, FolderRefused, TypeInv, FoldersOK
<1>3. to \in DirPath /\ to # <<>>
  BY <1>2, NamedIs
<1>4. d \in DirPath /\ d # <<>> /\ in.id \in used /\ in.id \in FolderIds /\ folders[in.id].src \in BOOLEAN
  BY <1>1 DEF TypeInv, FoldersOK
<1>5. rec \in DirRec /\ rec.id = in.id
  BY <1>2, <1>4, NewRecs
<1>6. MoveSteps(d, to, rec) = IF d # to THEN <<M, W, R>> ELSE <<W, R>>
  BY MoveStepsAre
<1>. HIDE DEF d, to, rec
<1>7. (d # to => M \in Steps(used')) /\ W \in Steps(used') /\ R \in Steps(used')
  BY <1>1, <1>3, <1>4, <1>5, StepsAre
<1>. HIDE DEF M, W, R
<1>8. MoveSteps(d, to, rec) \in Seq(Steps(used')) /\ used \subseteq used'
  BY <1>1, <1>6, <1>7, ListsAre
<1>. QED
  BY <1>1, <1>8, PlanStarts, StartKeeps

LEMMA DeleteSessionKeeps == ASSUME TypeInv, NEW id \in SessionIds, DeleteSession(id) PROVE TypeInv'
<1> DEFINE U == Unlink(sessions[id].file)
           F == Forget(id)
<1>1. Plan(<<U, F>>) /\ used' = used /\ id \in DOMAIN sessions
  BY DEF DeleteSession
<1>2. U \in Steps(used') /\ F \in Steps(used')
  BY <1>1, StepsAre DEF TypeInv, SessionsOK
<1>. HIDE DEF U, F
<1>3. <<U, F>> \in Seq(Steps(used'))
  BY <1>2, ListsAre
<1>. QED
  BY <1>1, <1>3, PlanStarts, StartKeeps

LEMMA DeleteFolderKeeps == ASSUME TypeInv, NEW id \in FolderIds, DeleteFolder(id) PROVE TypeInv'
<1> DEFINE U == UnlinkYaml(folders[id].dir)
           V == UnlinkDir(folders[id].dir)
           F == Forget(id)
<1>1. Plan(<<U, V, F>>) /\ used' = used /\ id \in DOMAIN folders \ {Root}
  BY DEF DeleteFolder
<1>2. folders[id].dir \in DirPath \ {<<>>}
  BY <1>1 DEF TypeInv, FoldersOK
<1>3. U \in Steps(used') /\ V \in Steps(used') /\ F \in Steps(used')
  BY <1>2, StepsAre
<1>. HIDE DEF U, V, F
<1>4. <<U, V, F>> \in Seq(Steps(used'))
  BY <1>3, ListsAre
<1>. QED
  BY <1>1, <1>4, PlanStarts, StartKeeps

LEMMA SourceKeeps ==
    ASSUME TypeInv, NEW id \in FolderIds, SetFolderSource(id) \/ ClearFolderSource(id) PROVE TypeInv'
<1>1. ASSUME NEW src \in BOOLEAN, id \in DOMAIN folders, used' = used,
             Plan(<<WriteFolder(folders[id].dir, [id |-> id, name |-> folders[id].name, src |-> src]), Reload>>)
      PROVE  TypeInv'
  <2> DEFINE rec == [id |-> id, name |-> folders[id].name, src |-> src]
             W == WriteFolder(folders[id].dir, rec)
             R == Reload
  <2>1. Plan(<<W, R>>)
    BY <1>1
  <2>2. /\ folders[id].dir \in DirPath /\ (folders[id].dir = <<>> => id = Root)
        /\ folders[id].name \in Names \union {None} /\ id \in used
    BY <1>1 DEF TypeInv, FoldersOK
  <2>3. rec \in DirRec /\ rec.id = id
    BY <2>2, NewRecs
  <2>. HIDE DEF rec
  <2>4. W \in Steps(used') /\ R \in Steps(used')
    BY <1>1, <2>2, <2>3, StepsAre
  <2>. HIDE DEF W, R
  <2>5. <<W, R>> \in Seq(Steps(used'))
    BY <2>4, ListsAre
  <2>. QED
    BY <1>1, <2>1, <2>5, PlanStarts, StartKeeps
<1>. QED
  BY <1>1 DEF SetFolderSource, ClearFolderSource

LEMMA LoadAllKeeps == ASSUME TypeInv, LoadAll PROVE TypeInv'
<1>1. Start(<<Reload>>) /\ used' = used /\ cut' \in BOOLEAN
  BY DEF LoadAll, TypeInv, Flags
<1>2. <<Reload>> \in Seq(Steps(used'))
  BY StepsAre, ListsAre
<1>. QED
  BY <1>1, <1>2, StartKeeps

\* The steps.
LEMMA DoWriteSessionKeeps == ASSUME TypeInv, DoWriteSession PROVE TypeInv'
<1> DEFINE h == Head(todo)
<1>1. /\ todo # <<>> /\ h.do = "writeSession" /\ Done /\ used' = used
      /\ files' = Bind(files, h.at, h.rec) /\ dirs' = dirs /\ folders' = folders /\ sessions' = sessions
  BY DEF DoWriteSession, Doing, Done, index
<1>2. Front(h.at) \in DOMAIN dirs
  BY <1>1 DEF DoWriteSession, Accepted, Doing
<1>3. h \in Steps(used)
  BY <1>1, NextStep
<1>. HIDE DEF h
<1>4. h.at \in FilePath /\ h.rec \in FileRec /\ h.rec.id \in used
  BY <1>1, <1>3 DEF Steps, StepOK
<1>5. TreeOf(dirs', files', used')
  BY <1>1, <1>2, <1>4, TreeBindFile DEF TypeInv
<1>6. FoldersOK(folders', used') /\ SessionsOK(sessions', used')
  BY <1>1 DEF TypeInv
<1>. QED
  BY <1>1, <1>5, <1>6, DoneKeeps DEF h

LEMMA DoWriteFolderKeeps == ASSUME TypeInv, DoWriteFolder PROVE TypeInv'
<1> DEFINE h == Head(todo)
<1>1. /\ todo # <<>> /\ h.do = "writeFolder" /\ Done /\ used' = used
      /\ dirs' = Bind(dirs, h.at, h.rec) /\ files' = files /\ folders' = folders /\ sessions' = sessions
  BY DEF DoWriteFolder, Doing, Done, index
<1>2. h.at \in DOMAIN dirs
  BY <1>1 DEF DoWriteFolder, Accepted, Doing
<1>3. h \in Steps(used)
  BY <1>1, NextStep
<1>. HIDE DEF h
<1>4. h.rec \in DirRec /\ h.rec.id \in used /\ (h.at = <<>> => h.rec.id = Root)
  BY <1>1, <1>3 DEF Steps, StepOK
<1>5. TreeOf(dirs', files', used')
  BY <1>1, <1>2, <1>4, TreeBindDir DEF TypeInv
<1>6. FoldersOK(folders', used') /\ SessionsOK(sessions', used')
  BY <1>1 DEF TypeInv
<1>. QED
  BY <1>1, <1>5, <1>6, DoneKeeps DEF h

LEMMA DoRemoveKeeps == ASSUME TypeInv, DoRemove PROVE TypeInv'
<1>1. /\ todo # <<>> /\ Head(todo).do = "remove" /\ Done /\ used' = used
      /\ files' = Without(files, {Head(todo).at}) /\ dirs' = dirs
      /\ folders' = folders /\ sessions' = sessions
  BY DEF DoRemove, Doing, Done, index
<1>2. TreeOf(dirs', files', used')
  BY <1>1, TreeDropFile DEF TypeInv
<1>3. FoldersOK(folders', used') /\ SessionsOK(sessions', used')
  BY <1>1 DEF TypeInv
<1>. QED
  BY <1>1, <1>2, <1>3, DoneKeeps

LEMMA DoRemoveYamlKeeps == ASSUME TypeInv, DoRemoveYaml PROVE TypeInv'
<1> DEFINE h == Head(todo)
<1>1. /\ todo # <<>> /\ h.do = "removeYaml" /\ Done /\ used' = used
      /\ dirs' = [d \in DOMAIN dirs |-> IF d = h.at THEN NoYaml ELSE dirs[d]] /\ files' = files
      /\ folders' = folders /\ sessions' = sessions
  BY DEF DoRemoveYaml, Doing, Done, index
<1>2. h \in Steps(used)
  BY <1>1, NextStep
<1>. HIDE DEF h
<1>3. h.at # <<>>
  BY <1>1, <1>2 DEF Steps, StepOK
<1>4. /\ DOMAIN dirs' = DOMAIN dirs
      /\ \A d \in DOMAIN dirs : dirs'[d] = IF d = h.at THEN NoYaml ELSE dirs[d]
  BY <1>1
<1>5. TreeOf(dirs', files', used')
  BY <1>1, <1>3, <1>4, NewRecs DEF TypeInv, TreeOf
<1>6. FoldersOK(folders', used') /\ SessionsOK(sessions', used')
  BY <1>1 DEF TypeInv
<1>. QED
  BY <1>1, <1>5, <1>6, DoneKeeps DEF h

LEMMA DoRemoveDirKeeps == ASSUME TypeInv, DoRemoveDir PROVE TypeInv'
<1> DEFINE h == Head(todo)
<1>1. /\ todo # <<>> /\ h.do = "removeDir" /\ Done /\ used' = used
      /\ dirs' = Without(dirs, {h.at}) /\ files' = files /\ folders' = folders /\ sessions' = sessions
  BY DEF DoRemoveDir, Doing, Done, index
<1>2. \A p \in DOMAIN dirs \union DOMAIN files : ~IsStrictPrefix(h.at, p)
  BY <1>1 DEF DoRemoveDir, Accepted, Doing, Entries
<1>3. h \in Steps(used)
  BY <1>1, NextStep
<1>. HIDE DEF h
<1>4. h.at # <<>>
  BY <1>1, <1>3 DEF Steps, StepOK
<1>5. TreeOf(dirs', files', used')
  BY <1>1, <1>2, <1>4, TreeDropDir DEF TypeInv
<1>6. FoldersOK(folders', used') /\ SessionsOK(sessions', used')
  BY <1>1 DEF TypeInv
<1>. QED
  BY <1>1, <1>5, <1>6, DoneKeeps DEF h

\* The directories on the way to a path: with those that are missing, the way is complete.
LEMMA MakeDirTree ==
    ASSUME NEW ds, NEW fs, NEW u, TreeOf(ds, fs, u), NEW at \in DirPath,
           NEW missing, missing = {SubSeq(at, 1, n) : n \in 1..Len(at)} \ DOMAIN ds,
           NEW es, DOMAIN es = DOMAIN ds \union missing,
           \A d \in missing : es[d] = NoYaml, \A d \in DOMAIN ds : es[d] = ds[d]
    PROVE  TreeOf(es, fs, u)
<1>1. at \in Path /\ Len(at) \in Nat
  BY DirPathIs, LenIs
<1>2. /\ DOMAIN es = DOMAIN ds \union missing
      /\ \A d \in missing : es[d] = NoYaml /\ d \notin DOMAIN ds
      /\ \A d \in DOMAIN ds : es[d] = ds[d]
  OBVIOUS
<1>3. missing \subseteq DirPath
  <2>1. ASSUME NEW n \in 1..Len(at) PROVE SubSeq(at, 1, n) \in DirPath
    <3>1. n \in Nat /\ n <= Len(at)
      BY <1>1
    <3>. QED
      BY <3>1, CutIsDir
  <2>. QED
    BY <2>1
<1>4. ASSUME NEW d \in missing, NEW q \in Path, IsStrictPrefix(q, d) PROVE q \in DOMAIN es
  <2>1. PICK n \in 1..Len(at) : d = SubSeq(at, 1, n)
    OBVIOUS
  <2>2. n \in Nat /\ n <= Len(at)
    BY <1>1
  <2>3. d \in Path /\ Len(d) = n /\ \A i \in 1..n : d[i] = at[i]
    BY <1>1, <2>1, <2>2, CutIs
  <2>4. Len(q) \in Nat /\ Len(q) < n /\ \A i \in 1..Len(q) : q[i] = at[i]
    BY <1>4, <2>2, <2>3, LenIs, StrictIs
  <2>5. SubSeq(at, 1, Len(q)) \in Path /\ Len(SubSeq(at, 1, Len(q))) = Len(q)
        /\ \A i \in 1..Len(q) : SubSeq(at, 1, Len(q))[i] = at[i]
    BY <1>1, <2>2, <2>4, CutIs
  <2>6. q = SubSeq(at, 1, Len(q))
    BY <2>4, <2>5, SamePath
  <2>7. CASE Len(q) = 0
    <3>1. q = <<>>
      BY <2>7, EmptySeq DEF Path
    <3>. QED
      BY <1>2, <3>1 DEF TreeOf
  <2>8. CASE Len(q) # 0
    <3>1. Len(q) \in 1..Len(at)
      BY <1>1, <2>2, <2>4, <2>8
    <3>. QED
      BY <1>2, <2>6, <3>1
  <2>. QED
    BY <2>7, <2>8
<1>5. DOMAIN ds \subseteq DOMAIN es /\ DOMAIN es \subseteq DirPath
  BY <1>2, <1>3 DEF TreeOf
<1>6. \A d \in DOMAIN es : es[d] = NoYaml \/ (d \in DOMAIN ds /\ es[d] = ds[d])
  <2>1. DOMAIN es = DOMAIN ds \union missing
    BY <1>2
  <2>2. \A d \in DOMAIN es : d \in DOMAIN ds \/ d \in missing
    BY <2>1
  <2>. QED
    BY <1>2, <2>2, Zenon
<1>7. es[<<>>] = ds[<<>>]
  BY <1>2 DEF TreeOf
<1>8. \A d \in DOMAIN es \ DOMAIN ds, q \in Path : IsStrictPrefix(q, d) => q \in DOMAIN es
  BY <1>2, <1>4
<1>. QED
  BY <1>5, <1>6, <1>7, <1>8, TreeMoreDirs

LEMMA DoMakeDirKeeps == ASSUME TypeInv, DoMakeDir PROVE TypeInv'
<1> DEFINE h == Head(todo)
           missing == {SubSeq(h.at, 1, n) : n \in 1..Len(h.at)} \ DOMAIN dirs
<1>1. /\ todo # <<>> /\ h.do = "makeDir" /\ Done /\ used' = used
      /\ dirs' = [d \in DOMAIN dirs \union missing |-> IF d \in missing THEN NoYaml ELSE dirs[d]]
      /\ files' = files /\ folders' = folders /\ sessions' = sessions
  BY DEF DoMakeDir, Doing, Done, index
<1>2. h \in Steps(used)
  BY <1>1, NextStep
<1>. HIDE DEF h
<1>3. h.at \in DirPath
  BY <1>1, <1>2 DEF Steps, StepOK
<1>4. TreeOf(dirs, files, used)
  BY DEF TypeInv
<1>5. TreeOf(dirs', files', used')
  <2>1. missing = {SubSeq(h.at, 1, n) : n \in 1..Len(h.at)} \ DOMAIN dirs
    OBVIOUS
  <2>2. /\ DOMAIN dirs' = DOMAIN dirs \union missing
        /\ \A d \in missing : dirs'[d] = NoYaml
        /\ \A d \in DOMAIN dirs : dirs'[d] = dirs[d]
    BY <1>1
  <2>. HIDE DEF missing
  <2>3. TreeOf(dirs', files, used)
    BY <1>3, <1>4, <2>1, <2>2, MakeDirTree
  <2>. QED
    BY <1>1, <2>3
<1>6. FoldersOK(folders', used') /\ SessionsOK(sessions', used')
  BY <1>1 DEF TypeInv
<1>. QED
  BY <1>1, <1>5, <1>6, DoneKeeps DEF h

LEMMA DoMoveKeeps == ASSUME TypeInv, DoMove PROVE TypeInv'
<1> DEFINE h == Head(todo)
<1>1. /\ todo # <<>> /\ h.do = "move" /\ Done /\ used' = used
      /\ dirs' = Relocated(dirs, h.at, h.to) /\ files' = Relocated(files, h.at, h.to)
      /\ folders' = folders /\ sessions' = sessions
  BY DEF DoMove, Doing, Done, index
<1>2. Front(h.to) \in DOMAIN dirs
  BY <1>1 DEF DoMove, Accepted, Doing
<1>3. h \in Steps(used)
  BY <1>1, NextStep
<1>. HIDE DEF h
<1>4. h.at \in DirPath /\ h.at # <<>> /\ h.to \in DirPath /\ h.to # <<>> /\ ~IsPrefix(h.at, h.to)
  BY <1>1, <1>3 DEF Steps, StepOK
<1>5. TreeOf(dirs', files', used')
  BY <1>1, <1>2, <1>4, TreeMove DEF TypeInv
<1>6. FoldersOK(folders', used') /\ SessionsOK(sessions', used')
  BY <1>1 DEF TypeInv
<1>. QED
  BY <1>1, <1>5, <1>6, DoneKeeps DEF h

LEMMA DoRememberKeeps == ASSUME TypeInv, DoRemember PROVE TypeInv'
<1> DEFINE rec == Head(todo).rec
           entry == [name |-> rec.name, rev |-> rec.rev, file |-> rec.file, folder |-> rec.folder]
<1>1. /\ todo # <<>> /\ Head(todo).do = "remember" /\ Done /\ used' = used
      /\ dirs' = dirs /\ files' = files /\ folders' = folders
      /\ sessions' = Bind(sessions, rec.id, entry)
  BY DEF DoRemember, Doing, Done, disk
<1>2. Head(todo) \in Steps(used)
  BY <1>1, NextStep
<1>3. rec \in IndexRec /\ rec.id \in used
  BY <1>1, <1>2 DEF Steps, StepOK
<1>. HIDE DEF rec
<1>4. rec.id \in SessionIds /\ entry.rev \in Revs /\ entry.file \in FilePath
  BY <1>3 DEF IndexRec
<1>. HIDE DEF entry
<1>5. SessionsOK(sessions', used')
  <2>1. /\ DOMAIN sessions' = DOMAIN sessions \union {rec.id} /\ sessions'[rec.id] = entry
        /\ \A id \in DOMAIN sessions \ {rec.id} : sessions'[id] = sessions[id]
    BY <1>1 DEF Bind
  <2>. QED
    BY <1>1, <1>3, <1>4, <2>1 DEF TypeInv, SessionsOK
<1>6. TreeOf(dirs', files', used') /\ FoldersOK(folders', used')
  BY <1>1 DEF TypeInv
<1>. QED
  BY <1>1, <1>5, <1>6, DoneKeeps

LEMMA DoForgetKeeps == ASSUME TypeInv, DoForget PROVE TypeInv'
<1> DEFINE S == {Head(todo).rec}
<1>1. /\ todo # <<>> /\ Head(todo).do = "forget" /\ Done /\ used' = used
      /\ dirs' = dirs /\ files' = files
      /\ sessions' = Without(sessions, S) /\ folders' = Without(folders, S)
  BY DEF DoForget, Doing, Done, disk
<1>. HIDE DEF S
<1>2. /\ DOMAIN sessions' = DOMAIN sessions \ S /\ \A id \in DOMAIN sessions \ S : sessions'[id] = sessions[id]
      /\ DOMAIN folders' = DOMAIN folders \ S /\ \A id \in DOMAIN folders \ S : folders'[id] = folders[id]
  BY <1>1 DEF Without, Restrict
<1>3. FoldersOK(folders', used') /\ SessionsOK(sessions', used')
  BY <1>1, <1>2 DEF TypeInv, FoldersOK, SessionsOK
<1>4. TreeOf(dirs', files', used')
  BY <1>1 DEF TypeInv
<1>. QED
  BY <1>1, <1>3, <1>4, DoneKeeps

\* A healed entry gets an id and a record of its kind.
LEMMA HealKeeps == ASSUME TypeInv, Heal PROVE TypeInv'
<1>1. PICK p \in Unnamed \intersect Reached :
         LET name == PlainName[p[Len(p)] \div 2]
         IN  \/ /\ p \in DOMAIN dirs
                /\ FolderIds \ used # {}
                /\ dirs' = [dirs EXCEPT ![p] = [id |-> Fresh(FolderIds), name |-> name, src |-> FALSE]]
                /\ used' = used \union {Fresh(FolderIds)}
                /\ UNCHANGED files
             \/ /\ p \in DOMAIN files
                /\ SessionIds \ used # {}
                /\ files' = [files EXCEPT ![p] = [id |-> Fresh(SessionIds), name |-> name, rev |-> 0]]
                /\ used' = used \union {Fresh(SessionIds)}
                /\ UNCHANGED dirs
  BY DEF Heal
<1> DEFINE name == PlainName[p[Len(p)] \div 2]
<1>2. /\ status' = status /\ todo' = todo /\ folders' = folders /\ sessions' = sessions
      /\ touched' = TRUE /\ faults' = faults /\ synced' = synced /\ cut' = cut
  BY DEF Heal, index
<1>3. /\ DOMAIN dirs \intersect DOMAIN files = {} /\ <<>> \notin DOMAIN files
      /\ TreeOf(dirs, files, used)
  BY TreeApart DEF TypeInv
<1>4. p \in DOMAIN dirs \union DOMAIN files /\ IdAt(p) = None
  BY DEF Unnamed, Entries
<1>5. p # <<>>
  BY <1>3, <1>4, StoreAssumption DEF IdAt, TreeOf, StoreAssumption
<1>6. name \in Names
  BY <1>4, <1>5, PlainIs DEF TypeInv, TreeOf
<1>. HIDE DEF name
<1>7. TreeOf(dirs', files', used') /\ used \subseteq used'
  <2>1. CASE /\ p \in DOMAIN dirs
             /\ FolderIds \ used # {}
             /\ dirs' = [dirs EXCEPT ![p] = [id |-> Fresh(FolderIds), name |-> name, src |-> FALSE]]
             /\ used' = used \union {Fresh(FolderIds)}
             /\ UNCHANGED files
    <3> DEFINE rec == [id |-> Fresh(FolderIds), name |-> name, src |-> FALSE]
    <3>1. rec \in DirRec /\ rec.id \in used'
      BY <1>6, <2>1, FreshIs, NewRecs
    <3>2. DOMAIN dirs' = DOMAIN dirs /\ \A d \in DOMAIN dirs : dirs'[d] = IF d = p THEN rec ELSE dirs[d]
      BY <2>1
    <3>. HIDE DEF rec
    <3>3. TreeOf(dirs, files, used') /\ files' = files
      BY <1>3, <2>1, TreeGrows
    <3>. QED
      BY <1>5, <2>1, <3>1, <3>2, <3>3 DEF TreeOf
  <2>2. CASE /\ p \in DOMAIN files
             /\ SessionIds \ used # {}
             /\ files' = [files EXCEPT ![p] = [id |-> Fresh(SessionIds), name |-> name, rev |-> 0]]
             /\ used' = used \union {Fresh(SessionIds)}
             /\ UNCHANGED dirs
    <3> DEFINE rec == [id |-> Fresh(SessionIds), name |-> name, rev |-> 0]
    <3>1. rec \in FileRec /\ rec.id \in used'
      BY <1>6, <2>2, FreshIs, NewRecs, RevsAre
    <3>2. DOMAIN files' = DOMAIN files /\ \A d \in DOMAIN files : files'[d] = IF d = p THEN rec ELSE files[d]
      BY <2>2
    <3>. HIDE DEF rec
    <3>3. TreeOf(dirs, files, used') /\ dirs' = dirs
      BY <1>3, <2>2, TreeGrows
    <3>. QED
      BY <2>2, <3>1, <3>2, <3>3 DEF TreeOf
  <2>. QED
    BY <1>1, <2>1, <2>2 DEF name
<1>8. todo' \in Seq(Steps(used')) /\ FoldersOK(folders', used') /\ SessionsOK(sessions', used')
  BY <1>2, <1>7, StepsGrow, IndexGrows DEF TypeInv
<1>9. StatusInv' /\ Flags'
  BY <1>2 DEF TypeInv, StatusInv, Flags, Reload, Step
<1>. QED
  BY <1>7, <1>8, <1>9 DEF TypeInv

LEMMA DoReloadKeeps == ASSUME TypeInv, DoReload PROVE TypeInv'
<1>1. todo # <<>> /\ faults' \in 0..MaxFaults /\ cut' = cut
  BY DEF DoReload, Doing, TypeInv, Flags
<1>2. CASE Doubled \union Unnamed = {} /\ EndReload(Entries, TRUE)
  <2>1. Entries \in SUBSET Entries /\ Entries \intersect Unnamed = {}
    BY <1>2
  <2>. QED
    BY <1>1, <1>2, <2>1, EndReloadKeeps
<1>3. CASE \E p \in Doubled \intersect Reached : EndReload(MetBefore(p), FALSE)
  <2>1. PICK p \in Reached : EndReload(MetBefore(p), FALSE)
    BY <1>3
  <2>. QED
    BY <1>1, <2>1, MetIs, EndReloadKeeps
<1>. QED
  BY <1>2, <1>3 DEF DoReload

LEMMA FaultIs == Fault /\ faults \in 0..MaxFaults => faults' \in 0..MaxFaults
BY StoreAssumption DEF Fault, StoreAssumption

LEMMA FailReloadKeeps == ASSUME TypeInv, FailReload PROVE TypeInv'
<1>1. todo # <<>> /\ faults' \in 0..MaxFaults /\ cut' = cut
  BY FaultIs DEF FailReload, Doing, TypeInv, Flags
<1>2. PICK p \in Reached : EndReload(MetBefore(p), FALSE)
  BY DEF FailReload
<1>. QED
  BY <1>1, <1>2, MetIs, EndReloadKeeps

LEMMA FailKeeps == ASSUME TypeInv, Fail PROVE TypeInv'
<1>1. status = "up"
  BY DEF Fail, TypeInv, StatusInv, Reload, Step
<1>2. faults' \in 0..MaxFaults
  BY FaultIs DEF Fail, TypeInv, Flags
<1>3. TreeOf(dirs', files', used') /\ FoldersOK(folders', used') /\ SessionsOK(sessions', used')
  BY DEF Fail, TypeInv, disk, index
<1>4. todo' \in Seq(Steps(used'))
  BY EmptySeq DEF Fail
<1>5. StatusInv'
  BY <1>1 DEF Fail, StatusInv
<1>6. Flags'
  BY <1>2 DEF Fail, Flags, TypeInv, CutsRename
<1>. QED
  BY <1>3, <1>4, <1>5, <1>6 DEF TypeInv

LEMMA CrashKeeps == ASSUME TypeInv, Crash PROVE TypeInv'
<1>1. faults' \in 0..MaxFaults
  BY FaultIs DEF Crash, TypeInv, Flags
<1>2. TreeOf(dirs', files', used') /\ FoldersOK(folders', used') /\ SessionsOK(sessions', used')
  BY EmptyOK DEF Crash, TypeInv, disk
<1>3. todo' \in Seq(Steps(used'))
  BY EmptySeq DEF Crash
<1>4. StatusInv'
  BY DEF Crash, StatusInv
<1>5. Flags'
  BY <1>1 DEF Crash, Flags, TypeInv, CutsRename
<1>. QED
  BY <1>2, <1>3, <1>4, <1>5 DEF TypeInv

LEMMA OpenKeeps == ASSUME TypeInv, Open PROVE TypeInv'
<1>1. TreeOf(dirs', files', used') /\ FoldersOK(folders', used') /\ SessionsOK(sessions', used')
  BY DEF Open, TypeInv, disk, index
<1>2. todo' \in Seq(Steps(used'))
  BY StepsAre, ListsAre DEF Open
<1>3. StatusInv' /\ Flags'
  BY DEF Open, TypeInv, StatusInv, Flags, index
<1>. QED
  BY <1>1, <1>2, <1>3 DEF TypeInv

LEMMA AddByHandKeeps ==
    ASSUME TypeInv, NEW d \in DOMAIN dirs, NEW name \in SessionNames, AddByHand(d, name)
    PROVE  TypeInv'
<1> DEFINE f == FileNamed(d, name)
           rec == [id |-> None, name |-> None, rev |-> 0]
<1>1. /\ BaseOf[name] # 0 /\ files' = Bind(files, f, rec) /\ dirs' = dirs /\ used' = used
      /\ folders' = folders /\ sessions' = sessions /\ todo' = todo
  BY DEF AddByHand, index
<1>2. name \in Names /\ d \in DirPath
  BY StoreAssumption DEF StoreAssumption, TypeInv, TreeOf
<1>3. f \in FilePath /\ Front(f) \in DOMAIN dirs
  BY <1>1, <1>2, NamedIs
<1>4. rec \in FileRec /\ rec.id \in used \union {None}
  BY NewRecs
<1>. HIDE DEF f, rec
<1>5. TreeOf(dirs', files', used')
  BY <1>1, <1>3, <1>4, TreeBindFile DEF TypeInv
<1>6. FoldersOK(folders', used') /\ SessionsOK(sessions', used') /\ todo' \in Seq(Steps(used'))
  BY <1>1 DEF TypeInv
<1>7. faults' \in 0..MaxFaults
  BY FaultIs DEF AddByHand, TypeInv, Flags
<1>8. StatusInv' /\ Flags'
  BY <1>7 DEF AddByHand, index, TypeInv, StatusInv, Flags
<1>. QED
  BY <1>5, <1>6, <1>8 DEF TypeInv

\* Every step keeps the types.
LEMMA TypeStep == TypeInv /\ [Next]_vars => TypeInv'
<1>. SUFFICES ASSUME TypeInv, [Next]_vars PROVE TypeInv'
  OBVIOUS
<1>1. CASE Request
  BY <1>1, PutNewKeeps, PutKnownKeeps, PutGoneKeeps, CreateFolderKeeps, UpdateFolderKeeps,
     DeleteSessionKeeps, DeleteFolderKeeps, SourceKeeps, PutRootKeeps, LoadAllKeeps, StoreAssumption
     DEF Request, StoreAssumption
<1>2. CASE TakeStep
  BY <1>2, DoWriteSessionKeeps, DoWriteFolderKeeps, DoRemoveKeeps, DoRemoveYamlKeeps, DoRemoveDirKeeps,
     DoMakeDirKeeps, DoMoveKeeps, DoRememberKeeps, DoForgetKeeps, HealKeeps, DoReloadKeeps DEF TakeStep
<1>3. CASE Fail \/ FailReload \/ Crash \/ Open
  BY <1>3, FailKeeps, FailReloadKeeps, CrashKeeps, OpenKeeps
<1>4. CASE \E d \in DOMAIN dirs, name \in SessionNames : AddByHand(d, name)
  BY <1>4, AddByHandKeeps
<1>5. CASE UNCHANGED vars
  BY <1>5 DEF vars, disk, index, TypeInv, StatusInv, Flags
<1>. QED
  BY <1>1, <1>2, <1>3, <1>4, <1>5 DEF Next

LEMMA TypeAlways == Spec => []TypeInv
BY TypeInit, TypeStep, PTL DEF Spec

\* The types of the store: whatever is requested, fails or is cut short, every entry of the
\* disk lies in a directory of it, and the index holds ids that were given out.
THEOREM TypeCorrect == Spec => []TypeOK
<1>1. TypeInv => TypeOK
  <2>. SUFFICES ASSUME TypeInv PROVE TypeOK
    OBVIOUS
  <2>1. \A p \in Entries \ {<<>>} : Front(p) \in DOMAIN dirs
    BY FrontIn DEF TypeInv, Entries
  <2>2. status # "up" => folders = Empty \/ todo # <<>>
    BY DEF TypeInv, StatusInv
  <2>3. /\ \A d \in DOMAIN dirs :
              dirs[d] \in [id : FolderIds \union {None}, name : Names \union {None}, src : BOOLEAN]
        /\ \A f \in DOMAIN files :
              files[f] \in [id : SessionIds \union {None}, name : Names \union {None}, rev : Revs]
        /\ <<>> \in DOMAIN dirs
    BY DEF TypeInv, TreeOf, DirRec, FileRec
  <2>4. DOMAIN folders \subseteq used \intersect FolderIds /\ DOMAIN sessions \subseteq used \intersect SessionIds
    BY DEF TypeInv, FoldersOK, SessionsOK
  <2>5. /\ status \in {"down", "opening", "up"} /\ faults \in 0..MaxFaults
        /\ touched \in BOOLEAN /\ synced \in BOOLEAN /\ cut \in BOOLEAN
    BY DEF TypeInv, StatusInv, Flags
  <2>6. {touched, synced, cut} \subseteq BOOLEAN
    BY <2>5
  <2>. QED
    BY <2>1, <2>2, <2>3, <2>4, <2>5, <2>6 DEF TypeOK
<1>. QED
  BY <1>1, TypeAlways, PTL

-----------------------------------------------------------------------------
(* Index and disk *)

\* An id is found once.
OneId(f) == \A p, q \in DOMAIN f : f[p].id = f[q].id /\ f[p].id # None => p = q

\* What the index should have of a directory and of a file.
FolderOf(ds, d) ==
    [name |-> ds[d].name, src |-> ds[d].src, dir |-> d,
     parent |-> IF d = <<>> THEN None ELSE ds[Front(d)].id]

SessionOf(ds, fs, f) ==
    [name |-> fs[f].name, rev |-> fs[f].rev, file |-> f, folder |-> ds[Front(f)].id]

\* This disk and this index say the same.
Matches(ds, fs, fo, se) ==
    /\ \A d \in DOMAIN ds : ds[d].id # None
    /\ \A f \in DOMAIN fs : fs[f].id # None /\ Front(f) \in DOMAIN ds
    /\ OneId(ds) /\ OneId(fs)
    /\ fo = [id \in DOMAIN fo |-> fo[id]] /\ se = [id \in DOMAIN se |-> se[id]]
    /\ DOMAIN fo = {ds[d].id : d \in DOMAIN ds}
    /\ DOMAIN se = {fs[f].id : f \in DOMAIN fs}
    /\ \A d \in DOMAIN ds : fo[ds[d].id] = FolderOf(ds, d)
    /\ \A f \in DOMAIN fs : se[fs[f].id] = SessionOf(ds, fs, f)

Noted(se, rec) ==
    Bind(se, rec.id, [name |-> rec.name, rev |-> rec.rev, file |-> rec.file, folder |-> rec.folder])

Left1(a) == Len(todo) = 1 /\ todo[1].do = a
Left2(a, b) == Len(todo) = 2 /\ todo[1].do = a /\ todo[2].do = b
Left3(a, b, c) == Len(todo) = 3 /\ todo[1].do = a /\ todo[2].do = b /\ todo[3].do = c

\* The steps an operation may have left, with what they are going to make of disk and index:
\* an operation that updates the index by hand ends with the two in step ...
PutLeft3 ==
    /\ Left3("writeSession", "remove", "remember")
    /\ Matches(dirs, Without(Bind(files, todo[1].at, todo[1].rec), {todo[2].at}), folders,
               Noted(sessions, todo[3].rec))
    /\ todo[1].at # todo[2].at
    /\ todo[1].at \in DOMAIN files => files[todo[1].at].id = todo[1].rec.id
    /\ todo[2].at \in DOMAIN files
    /\ files[todo[2].at].id = todo[1].rec.id
    /\ files[todo[2].at].rev < todo[1].rec.rev

PutLeft2 ==
    /\ Left2("writeSession", "remember")
    /\ Matches(dirs, Bind(files, todo[1].at, todo[1].rec), folders, Noted(sessions, todo[2].rec))
    /\ todo[1].at \in DOMAIN files =>
          files[todo[1].at].id = todo[1].rec.id /\ files[todo[1].at].rev < todo[1].rec.rev

RenameLeft ==
    /\ Left2("remove", "remember")
    /\ Matches(dirs, Without(files, {todo[1].at}), folders, Noted(sessions, todo[2].rec))
    /\ todo[1].at \in DOMAIN files
    /\ \E f \in DOMAIN files \ {todo[1].at} :
          files[f].id = files[todo[1].at].id /\ files[todo[1].at].rev < files[f].rev

RememberLeft ==
    /\ Left1("remember")
    /\ Matches(dirs, files, folders, Noted(sessions, todo[1].rec))

DeleteLeft ==
    /\ Left2("remove", "forget")
    /\ Matches(dirs, Without(files, {todo[1].at}), Without(folders, {todo[2].rec}),
               Without(sessions, {todo[2].rec}))
    /\ todo[1].at \in DOMAIN files
    /\ todo[2] = Forget(files[todo[1].at].id)

DeleteFolderLeft ==
    /\ Left3("removeYaml", "removeDir", "forget") /\ todo[1].at = todo[2].at
    /\ Matches(Without(dirs, {todo[1].at}), files, Without(folders, {todo[3].rec}),
               Without(sessions, {todo[3].rec}))

DeleteDirLeft ==
    /\ Left2("removeDir", "forget")
    /\ Matches(Without(dirs, {todo[1].at}), files, Without(folders, {todo[2].rec}),
               Without(sessions, {todo[2].rec}))

ForgetLeft ==
    /\ Left1("forget")
    /\ Matches(dirs, files, Without(folders, {todo[1].rec}), Without(sessions, {todo[1].rec}))

\* ... and one that ends with a reload does not write an id that another directory has.
CreateLeft ==
    /\ Left3("makeDir", "writeFolder", "reload") /\ todo[1].at = todo[2].at
    /\ todo[1].at \notin DOMAIN dirs
    /\ todo[2].rec.id # None
    /\ \A d \in DOMAIN dirs : dirs[d].id # todo[2].rec.id

MoveLeft ==
    /\ Left3("move", "writeFolder", "reload") /\ todo[1].to = todo[2].at
    /\ todo[1].at \in DOMAIN dirs /\ todo[1].to \notin DOMAIN dirs
    /\ todo[2].rec.id # None
    /\ \A d \in DOMAIN dirs : dirs[d].id = todo[2].rec.id <=> d = todo[1].at

WriteLeft ==
    /\ Left2("writeFolder", "reload")
    /\ todo[1].rec.id # None
    /\ \A d \in DOMAIN dirs : dirs[d].id = todo[1].rec.id => d = todo[1].at
    /\ \A f \in DOMAIN files : Front(f) = todo[1].at => dirs[todo[1].at].id = todo[1].rec.id

Planned ==
    \/ PutLeft3 \/ PutLeft2 \/ RenameLeft \/ RememberLeft
    \/ DeleteLeft \/ DeleteFolderLeft \/ DeleteDirLeft \/ ForgetLeft
    \/ CreateLeft \/ MoveLeft \/ WriteLeft

PlanInv == todo # <<>> /\ ~Left1("reload") => IF cut THEN ~synced ELSE synced /\ Planned

CurrentInv ==
    status = "up" /\ synced /\ (todo = <<>> \/ ~touched) => Matches(dirs, files, folders, sessions)

OneIdInv == ~cut /\ ~CutsRename => OneId(dirs) /\ OneId(files)

LEMMA FolderAt ==
    ASSUME NEW ds, NEW fs, NEW fo, NEW se, Matches(ds, fs, fo, se), NEW id \in DOMAIN fo
    PROVE  /\ fo[id].dir \in DOMAIN ds /\ ds[fo[id].dir].id = id
           /\ fo[id] = FolderOf(ds, fo[id].dir)
           /\ \A d \in DOMAIN ds : ds[d].id = id <=> d = fo[id].dir
<1>1. PICK d \in DOMAIN ds : ds[d].id = id
  BY DEF Matches
<1>2. fo[id] = FolderOf(ds, d)
  BY <1>1 DEF Matches
<1>3. fo[id].dir = d
  BY <1>2 DEF FolderOf
<1>4. \A e \in DOMAIN ds : ds[e].id = id => e = d
  BY <1>1 DEF Matches, OneId
<1>. QED
  BY <1>1, <1>2, <1>3, <1>4

LEMMA SessionAt ==
    ASSUME NEW ds, NEW fs, NEW fo, NEW se, Matches(ds, fs, fo, se), NEW id \in DOMAIN se
    PROVE  /\ se[id].file \in DOMAIN fs /\ fs[se[id].file].id = id
           /\ se[id] = SessionOf(ds, fs, se[id].file)
           /\ \A f \in DOMAIN fs : fs[f].id = id <=> f = se[id].file
<1>1. PICK f \in DOMAIN fs : fs[f].id = id
  BY DEF Matches
<1>2. se[id] = SessionOf(ds, fs, f)
  BY <1>1 DEF Matches
<1>3. se[id].file = f
  BY <1>2 DEF SessionOf
<1>4. \A g \in DOMAIN fs : fs[g].id = id => g = f
  BY <1>1 DEF Matches, OneId
<1>. QED
  BY <1>1, <1>2, <1>3, <1>4

\* A walk meets an id twice only if two entries have it.
LEMMA NoneDoubled == ASSUME TypeInv, OneId(dirs), OneId(files) PROVE Doubled = {}
<1>. SUFFICES ASSUME NEW p \in Doubled PROVE FALSE
  OBVIOUS
<1>1. p \in Entries /\ IdAt(p) # None
  BY DEF Doubled
<1>2. PICK q \in Entries : IdAt(q) = IdAt(p) /\ Before(q, p)
  BY DEF Doubled
<1>3. DOMAIN dirs \intersect DOMAIN files = {} /\ \A e \in Entries : e \in Path
  BY TreeApart DEF TypeInv, Entries
<1>4. q # p
  BY <1>1, <1>2, <1>3, BeforeIrreflexive
<1>5. \A d \in DOMAIN dirs : dirs[d].id \in FolderIds \union {None}
  BY DEF TypeInv, TreeOf, DirRec
<1>6. \A f \in DOMAIN files : files[f].id \in SessionIds \union {None}
  BY DEF TypeInv, TreeOf, FileRec
<1>7. SessionIds \intersect FolderIds = {}
  BY StoreAssumption DEF StoreAssumption
<1>8. (p \in DOMAIN files) <=> (q \in DOMAIN files)
  BY <1>1, <1>2, <1>3, <1>5, <1>6, <1>7 DEF IdAt, Entries
<1>9. CASE p \in DOMAIN files
  BY <1>1, <1>2, <1>4, <1>8, <1>9 DEF IdAt, OneId
<1>10. CASE p \notin DOMAIN files
  BY <1>1, <1>2, <1>4, <1>8, <1>10 DEF IdAt, OneId, Entries
<1>. QED
  BY <1>9, <1>10

\* With index and disk in step, a walk would find nothing to stop at, and build this index.
LEMMA MatchesIndex ==
    ASSUME TypeInv, Matches(dirs, files, folders, sessions)
    PROVE  /\ Doubled \union Unnamed = {}
           /\ folders = FolderIndex(Entries)
           /\ sessions = SessionIndex(Entries)
<1>1. OneId(dirs) /\ OneId(files) /\ Doubled = {}
  BY NoneDoubled DEF Matches
<1>2. Unnamed = {}
  BY DEF Unnamed, Matches, Entries, IdAt
<1>3. Entries \intersect DOMAIN dirs = DOMAIN dirs /\ Entries \intersect DOMAIN files = DOMAIN files
  BY DEF Entries
<1>4. folders = FolderIndex(Entries)
  <2> DEFINE fo == FolderIndex(Entries)
  <2>1. /\ DOMAIN fo = {dirs[d].id : d \in DOMAIN dirs} /\ fo = [id \in DOMAIN fo |-> fo[id]]
        /\ \A id \in DOMAIN fo : fo[id] = FolderEntry(CHOOSE d \in DOMAIN dirs : dirs[d].id = id)
    BY <1>3 DEF FolderIndex
  <2>. HIDE DEF fo
  <2>2. DOMAIN folders = {dirs[d].id : d \in DOMAIN dirs} /\ folders = [id \in DOMAIN folders |-> folders[id]]
    BY DEF Matches
  <2>3. ASSUME NEW id \in DOMAIN folders
        PROVE  folders[id] = FolderEntry(CHOOSE d \in DOMAIN dirs : dirs[d].id = id)
    <3> DEFINE e == CHOOSE d \in DOMAIN dirs : dirs[d].id = id
    <3>1. \E d \in DOMAIN dirs : dirs[d].id = id
      BY <2>2
    <3>2. e \in DOMAIN dirs /\ dirs[e].id = id
      BY <3>1
    <3>. HIDE DEF e
    <3>3. folders[id] = FolderOf(dirs, e)
      BY <3>2 DEF Matches
    <3>4. folders[id] = FolderEntry(e)
      BY <3>3 DEF FolderOf, FolderEntry
    <3>. QED
      BY <3>4 DEF e
  <2>4. DOMAIN fo = DOMAIN folders /\ \A id \in DOMAIN fo : fo[id] = folders[id]
    BY <2>1, <2>2, <2>3, Zenon
  <2>5. folders = fo
    BY <2>1, <2>2, <2>4
  <2>. QED
    BY <2>5 DEF fo
<1>5. sessions = SessionIndex(Entries)
  <2> DEFINE se == SessionIndex(Entries)
  <2>1. /\ DOMAIN se = {files[f].id : f \in DOMAIN files} /\ se = [id \in DOMAIN se |-> se[id]]
        /\ \A id \in DOMAIN se : se[id] = SessionEntry(CHOOSE f \in DOMAIN files : files[f].id = id)
    BY <1>3 DEF SessionIndex
  <2>. HIDE DEF se
  <2>2. DOMAIN sessions = {files[f].id : f \in DOMAIN files} /\ sessions = [id \in DOMAIN sessions |-> sessions[id]]
    BY DEF Matches
  <2>3. ASSUME NEW id \in DOMAIN sessions
        PROVE  sessions[id] = SessionEntry(CHOOSE f \in DOMAIN files : files[f].id = id)
    <3> DEFINE e == CHOOSE f \in DOMAIN files : files[f].id = id
    <3>1. \E f \in DOMAIN files : files[f].id = id
      BY <2>2
    <3>2. e \in DOMAIN files /\ files[e].id = id
      BY <3>1
    <3>. HIDE DEF e
    <3>3. sessions[id] = SessionOf(dirs, files, e)
      BY <3>2 DEF Matches
    <3>4. sessions[id] = SessionEntry(e)
      BY <3>3 DEF SessionOf, SessionEntry
    <3>. QED
      BY <3>4 DEF e
  <2>4. DOMAIN se = DOMAIN sessions /\ \A id \in DOMAIN se : se[id] = sessions[id]
    BY <2>1, <2>2, <2>3, Zenon
  <2>5. sessions = se
    BY <2>1, <2>2, <2>4
  <2>. QED
    BY <2>5 DEF se
<1>. QED
  BY <1>1, <1>2, <1>4, <1>5

\* And a walk that met no entry twice and every entry named has the index in step.
LEMMA ReloadMatches ==
    ASSUME TypeInv, Doubled \union Unnamed = {}
    PROVE  Matches(dirs, files, FolderIndex(Entries), SessionIndex(Entries))
<1>1. DOMAIN dirs \intersect DOMAIN files = {} /\ \A e \in Entries : e \in Path
  BY TreeApart DEF TypeInv, Entries
<1>2. \A d \in DOMAIN dirs : d \in Entries /\ IdAt(d) = dirs[d].id
  BY <1>1 DEF Entries, IdAt
<1>3. \A f \in DOMAIN files : f \in Entries /\ IdAt(f) = files[f].id
  BY DEF Entries, IdAt
<1>4. \A e \in Entries : IdAt(e) # None
  BY DEF Unnamed
<1>5. ASSUME NEW p \in Entries, NEW q \in Entries, IdAt(p) = IdAt(q), p # q PROVE FALSE
  <2>1. Before(p, q) \/ Before(q, p)
    BY <1>1, <1>5, BeforeTotal
  <2>. QED
    BY <1>4, <1>5, <2>1 DEF Doubled
<1>6. OneId(dirs)
  BY <1>2, <1>5 DEF OneId
<1>7. OneId(files)
  BY <1>3, <1>5 DEF OneId
<1>8. /\ \A d \in DOMAIN dirs : dirs[d].id # None
      /\ \A f \in DOMAIN files : files[f].id # None
  BY <1>2, <1>3, <1>4
<1>9. \A f \in DOMAIN files : Front(f) \in DOMAIN dirs
  BY FrontIn, TreeApart DEF TypeInv
<1>10. Entries \intersect DOMAIN dirs = DOMAIN dirs /\ Entries \intersect DOMAIN files = DOMAIN files
  BY DEF Entries
<1> DEFINE fo == FolderIndex(Entries)
           se == SessionIndex(Entries)
<1>11. /\ DOMAIN fo = {dirs[d].id : d \in DOMAIN dirs} /\ fo = [id \in DOMAIN fo |-> fo[id]]
       /\ \A id \in DOMAIN fo : fo[id] = FolderEntry(CHOOSE d \in DOMAIN dirs : dirs[d].id = id)
  BY <1>10 DEF FolderIndex
<1>12. /\ DOMAIN se = {files[f].id : f \in DOMAIN files} /\ se = [id \in DOMAIN se |-> se[id]]
       /\ \A id \in DOMAIN se : se[id] = SessionEntry(CHOOSE f \in DOMAIN files : files[f].id = id)
  BY <1>10 DEF SessionIndex
<1>. HIDE DEF fo, se
<1>13. ASSUME NEW d \in DOMAIN dirs PROVE fo[dirs[d].id] = FolderOf(dirs, d)
  <2> DEFINE e == CHOOSE e \in DOMAIN dirs : dirs[e].id = dirs[d].id
  <2>1. e \in DOMAIN dirs /\ dirs[e].id = dirs[d].id
    OBVIOUS
  <2>2. fo[dirs[d].id] = FolderEntry(e)
    BY <1>11
  <2>. HIDE DEF e
  <2>3. e = d
    BY <1>6, <1>8, <2>1 DEF OneId
  <2>. QED
    BY <2>2, <2>3 DEF FolderEntry, FolderOf
<1>14. ASSUME NEW f \in DOMAIN files PROVE se[files[f].id] = SessionOf(dirs, files, f)
  <2> DEFINE e == CHOOSE e \in DOMAIN files : files[e].id = files[f].id
  <2>1. e \in DOMAIN files /\ files[e].id = files[f].id
    OBVIOUS
  <2>2. se[files[f].id] = SessionEntry(e)
    BY <1>12
  <2>. HIDE DEF e
  <2>3. e = f
    BY <1>7, <1>8, <2>1 DEF OneId
  <2>. QED
    BY <2>2, <2>3 DEF SessionEntry, SessionOf
<1>15. Matches(dirs, files, fo, se)
  BY <1>6, <1>7, <1>8, <1>9, <1>11, <1>12, <1>13, <1>14 DEF Matches
<1>. QED
  BY <1>15 DEF fo, se

-----------------------------------------------------------------------------
(* What an operation is going to make of disk and index *)

LEMMA NotedIs ==
    ASSUME NEW se, NEW rec
    PROVE  /\ DOMAIN Noted(se, rec) = DOMAIN se \union {rec.id}
           /\ Noted(se, rec)[rec.id] =
                 [name |-> rec.name, rev |-> rec.rev, file |-> rec.file, folder |-> rec.folder]
           /\ \A id \in DOMAIN se : id # rec.id => Noted(se, rec)[id] = se[id]
           /\ Noted(se, rec) = [id \in DOMAIN Noted(se, rec) |-> Noted(se, rec)[id]]
BY DEF Noted, Bind

\* A session is written under a name that no other session of the folder has, and its former
\* file, if that was another, removed.
LEMMA PutMatches ==
    ASSUME NEW ds, NEW fs, NEW fo, NEW se, Matches(ds, fs, fo, se),
           NEW folder \in DOMAIN fo, NEW id, id # None, NEW rec, rec.id = id,
           NEW target, Front(target) = fo[folder].dir,
           \A other \in DOMAIN se : other # id /\ se[other].folder = folder => se[other].file # target,
           NEW gs, DOMAIN gs = (DOMAIN fs \union {target}) \ {f \in DOMAIN fs : fs[f].id = id /\ f # target},
           gs[target] = rec, \A f \in DOMAIN gs : f # target => gs[f] = fs[f],
           NEW ns, DOMAIN ns = DOMAIN se \union {id}, ns = [x \in DOMAIN ns |-> ns[x]],
           ns[id] = [name |-> rec.name, rev |-> rec.rev, file |-> target, folder |-> folder],
           \A x \in DOMAIN se : x # id => ns[x] = se[x]
    PROVE  /\ Matches(ds, gs, fo, ns)
           /\ target \in DOMAIN fs => fs[target].id = id
<1>1. fo[folder].dir \in DOMAIN ds /\ ds[fo[folder].dir].id = folder
  BY FolderAt
<1>2. Front(target) \in DOMAIN ds /\ ds[Front(target)].id = folder
  BY <1>1
<1>3. \A f \in DOMAIN fs : /\ fs[f].id # None /\ Front(f) \in DOMAIN ds
                           /\ fs[f].id \in DOMAIN se /\ se[fs[f].id] = SessionOf(ds, fs, f)
                           /\ se[fs[f].id].file = f /\ se[fs[f].id].folder = ds[Front(f)].id
  BY DEF Matches, SessionOf
<1>4. target \in DOMAIN fs => fs[target].id = id
  BY <1>2, <1>3
<1>5. \A f \in DOMAIN gs : f = target \/ (f \in DOMAIN fs /\ fs[f].id # id /\ gs[f] = fs[f])
  OBVIOUS
<1>6. target \in DOMAIN gs
  OBVIOUS
<1>7. \A f \in DOMAIN fs : fs[f].id # id => f \in DOMAIN gs /\ f # target
  BY <1>4
<1>8. OneId(gs)
  <2>1. OneId(fs)
    BY DEF Matches
  <2>2. ASSUME NEW p \in DOMAIN gs, NEW q \in DOMAIN gs, gs[p].id = gs[q].id, gs[p].id # None
        PROVE  p = q
    <3>1. CASE p = target /\ q = target
      BY <3>1
    <3>2. CASE p = target /\ q # target
      BY <1>5, <2>2, <3>2
    <3>3. CASE p # target /\ q = target
      BY <1>5, <2>2, <3>3
    <3>4. CASE p # target /\ q # target
      <4>1. p \in DOMAIN fs /\ q \in DOMAIN fs /\ fs[p].id = fs[q].id /\ fs[p].id # None
        BY <1>5, <2>2, <3>4
      <4>. QED
        BY <2>1, <4>1 DEF OneId
    <3>. QED
      BY <3>1, <3>2, <3>3, <3>4
  <2>. QED
    BY <2>2 DEF OneId
<1>9. \A f \in DOMAIN gs : gs[f].id # None /\ Front(f) \in DOMAIN ds
  BY <1>2, <1>3, <1>5
<1>10. DOMAIN ns = {gs[f].id : f \in DOMAIN gs}
  <2>1. ASSUME NEW x \in DOMAIN ns PROVE \E f \in DOMAIN gs : x = gs[f].id
    <3>1. CASE x = id
      BY <1>6, <3>1
    <3>2. CASE x # id
      <4>1. x \in DOMAIN se
        BY <3>2
      <4>2. PICK f \in DOMAIN fs : fs[f].id = x
        BY <4>1, SessionAt
      <4>3. f \in DOMAIN gs /\ f # target
        BY <1>7, <3>2, <4>2
      <4>. QED
        BY <1>5, <4>2, <4>3
    <3>. QED
      BY <3>1, <3>2
  <2>2. ASSUME NEW f \in DOMAIN gs PROVE gs[f].id \in DOMAIN ns
    <3>1. CASE f = target
      BY <3>1
    <3>2. CASE f # target
      <4>1. f \in DOMAIN fs /\ gs[f] = fs[f]
        BY <1>5, <3>2
      <4>2. fs[f].id \in DOMAIN se
        BY <1>3, <4>1
      <4>. QED
        BY <4>1, <4>2
    <3>. QED
      BY <3>1, <3>2
  <2>. QED
    BY <2>1, <2>2
<1>11. ASSUME NEW f \in DOMAIN gs PROVE ns[gs[f].id] = SessionOf(ds, gs, f)
  <2>1. CASE f = target
    BY <1>2, <2>1 DEF SessionOf
  <2>2. CASE f # target
    <3>1. f \in DOMAIN fs /\ fs[f].id # id /\ gs[f] = fs[f]
      BY <1>5, <2>2
    <3>2. ns[fs[f].id] = se[fs[f].id]
      BY <1>3, <3>1
    <3>3. SessionOf(ds, gs, f) = SessionOf(ds, fs, f)
      BY <3>1 DEF SessionOf
    <3>. QED
      BY <1>3, <3>1, <3>2, <3>3
  <2>. QED
    BY <2>1, <2>2
<1>12. Matches(ds, gs, fo, ns)
  <2>1. /\ \A d \in DOMAIN ds : ds[d].id # None
        /\ OneId(ds) /\ fo = [x \in DOMAIN fo |-> fo[x]]
        /\ DOMAIN fo = {ds[d].id : d \in DOMAIN ds}
        /\ \A d \in DOMAIN ds : fo[ds[d].id] = FolderOf(ds, d)
    BY DEF Matches
  <2>. QED
    BY <1>8, <1>9, <1>10, <1>11, <2>1 DEF Matches
<1>. QED
  BY <1>4, <1>12

\* A session goes, from disk and index.
LEMMA DeleteMatches ==
    ASSUME NEW ds, NEW fs, NEW fo, NEW se, Matches(ds, fs, fo, se),
           NEW id \in DOMAIN se, id \notin DOMAIN fo
    PROVE  Matches(ds, Without(fs, {se[id].file}), Without(fo, {id}), Without(se, {id}))
<1> DEFINE file == se[id].file
           gs == Without(fs, {file})
           go == Without(fo, {id})
           ge == Without(se, {id})
<1>1. file \in DOMAIN fs /\ fs[file].id = id /\ \A f \in DOMAIN fs : fs[f].id = id <=> f = file
  BY SessionAt
<1>. HIDE DEF file
<1>2. /\ DOMAIN gs = DOMAIN fs \ {file} /\ \A f \in DOMAIN fs : f # file => gs[f] = fs[f]
      /\ DOMAIN go = DOMAIN fo /\ \A x \in DOMAIN fo : go[x] = fo[x]
      /\ DOMAIN ge = DOMAIN se \ {id} /\ \A x \in DOMAIN se : x # id => ge[x] = se[x]
      /\ go = [x \in DOMAIN go |-> go[x]] /\ ge = [x \in DOMAIN ge |-> ge[x]]
  BY DEF Without, Restrict
<1>. HIDE DEF gs, go, ge
<1>3. OneId(gs)
  BY <1>2 DEF Matches, OneId
<1>4. \A f \in DOMAIN gs : gs[f].id # None /\ Front(f) \in DOMAIN ds
  BY <1>2 DEF Matches
<1>5. DOMAIN go = {ds[d].id : d \in DOMAIN ds}
  BY <1>2 DEF Matches
<1>6. DOMAIN ge = {gs[f].id : f \in DOMAIN gs}
  <2>1. DOMAIN se = {fs[f].id : f \in DOMAIN fs}
    BY DEF Matches
  <2>2. \A f \in DOMAIN gs : f \in DOMAIN fs /\ f # file /\ gs[f].id = fs[f].id /\ fs[f].id # id
    BY <1>1, <1>2
  <2>3. \A f \in DOMAIN fs : fs[f].id # id => f \in DOMAIN gs /\ gs[f].id = fs[f].id
    BY <1>1, <1>2
  <2>4. \A x \in DOMAIN ge : \E f \in DOMAIN gs : x = gs[f].id
    BY <1>2, <2>1, <2>3
  <2>5. \A f \in DOMAIN gs : gs[f].id \in DOMAIN ge
    BY <1>2, <2>1, <2>2
  <2>. QED
    BY <2>4, <2>5
<1>7. \A d \in DOMAIN ds : go[ds[d].id] = FolderOf(ds, d)
  BY <1>2, <1>5 DEF Matches
<1>8. \A f \in DOMAIN gs : ge[gs[f].id] = SessionOf(ds, gs, f)
  <2>1. \A f \in DOMAIN fs : fs[f].id \in DOMAIN se /\ se[fs[f].id] = SessionOf(ds, fs, f)
    BY DEF Matches
  <2>. QED
    BY <1>1, <1>2, <2>1 DEF SessionOf
<1>9. Matches(ds, gs, go, ge)
  <2>1. (\A d \in DOMAIN ds : ds[d].id # None) /\ OneId(ds)
    BY DEF Matches
  <2>. QED
    BY <1>2, <1>3, <1>4, <1>5, <1>6, <1>7, <1>8, <2>1 DEF Matches
<1>. QED
  BY <1>9 DEF gs, go, ge, file

\* An empty folder goes.
LEMMA DeleteFolderMatches ==
    ASSUME NEW ds, NEW fs, NEW fo, NEW se, Matches(ds, fs, fo, se),
           NEW id \in DOMAIN fo, id \notin DOMAIN se,
           \A x \in DOMAIN fo : fo[x].parent # id, \A x \in DOMAIN se : se[x].folder # id,
           \A d \in DOMAIN ds : d # <<>> => Front(d) \in DOMAIN ds
    PROVE  Matches(Without(ds, {fo[id].dir}), fs, Without(fo, {id}), Without(se, {id}))
<1> DEFINE dir == fo[id].dir
           es == Without(ds, {dir})
           go == Without(fo, {id})
           ge == Without(se, {id})
<1>1. dir \in DOMAIN ds /\ ds[dir].id = id /\ \A d \in DOMAIN ds : ds[d].id = id <=> d = dir
  BY FolderAt
<1>. HIDE DEF dir
<1>2. /\ DOMAIN es = DOMAIN ds \ {dir} /\ \A d \in DOMAIN ds : d # dir => es[d] = ds[d]
      /\ DOMAIN go = DOMAIN fo \ {id} /\ \A x \in DOMAIN fo : x # id => go[x] = fo[x]
      /\ DOMAIN ge = DOMAIN se /\ \A x \in DOMAIN se : ge[x] = se[x]
      /\ go = [x \in DOMAIN go |-> go[x]] /\ ge = [x \in DOMAIN ge |-> ge[x]]
  BY DEF Without, Restrict
<1>. HIDE DEF es, go, ge
<1>3. \A d \in DOMAIN ds : ds[d].id \in DOMAIN fo /\ fo[ds[d].id] = FolderOf(ds, d)
  BY DEF Matches
<1>4. \A f \in DOMAIN fs : fs[f].id \in DOMAIN se /\ se[fs[f].id] = SessionOf(ds, fs, f)
  BY DEF Matches
<1>5. \A d \in DOMAIN ds : d # <<>> => Front(d) # dir
  <2>1. ASSUME NEW d \in DOMAIN ds, d # <<>> PROVE fo[ds[d].id].parent = ds[Front(d)].id
    <3>1. fo[ds[d].id] = FolderOf(ds, d)
      BY <1>3
    <3>2. FolderOf(ds, d).parent = ds[Front(d)].id
      BY <2>1 DEF FolderOf
    <3>. QED
      BY <3>1, <3>2
  <2>2. \A d \in DOMAIN ds : fo[ds[d].id].parent # id
    BY <1>3
  <2>. QED
    BY <1>1, <2>1, <2>2
<1>6. \A f \in DOMAIN fs : Front(f) # dir
  <2>1. ASSUME NEW f \in DOMAIN fs PROVE se[fs[f].id].folder = ds[Front(f)].id
    <3>1. se[fs[f].id] = SessionOf(ds, fs, f)
      BY <1>4
    <3>2. SessionOf(ds, fs, f).folder = ds[Front(f)].id
      BY DEF SessionOf
    <3>. QED
      BY <3>1, <3>2
  <2>2. \A f \in DOMAIN fs : se[fs[f].id].folder # id
    BY <1>4
  <2>. QED
    BY <1>1, <2>1, <2>2
<1>7. OneId(es) /\ \A d \in DOMAIN es : es[d].id # None
  BY <1>2 DEF Matches, OneId
<1>8. \A f \in DOMAIN fs : fs[f].id # None /\ Front(f) \in DOMAIN es
  BY <1>2, <1>6 DEF Matches
<1>9. DOMAIN go = {es[d].id : d \in DOMAIN es}
  <2>1. DOMAIN fo = {ds[d].id : d \in DOMAIN ds}
    BY DEF Matches
  <2>2. \A d \in DOMAIN es : d \in DOMAIN ds /\ d # dir /\ es[d].id = ds[d].id /\ ds[d].id # id
    BY <1>1, <1>2
  <2>3. \A d \in DOMAIN ds : ds[d].id # id => d \in DOMAIN es /\ es[d].id = ds[d].id
    BY <1>1, <1>2
  <2>4. \A x \in DOMAIN go : \E d \in DOMAIN es : x = es[d].id
    BY <1>2, <2>1, <2>3
  <2>5. \A d \in DOMAIN es : es[d].id \in DOMAIN go
    BY <1>2, <2>1, <2>2
  <2>. QED
    BY <2>4, <2>5
<1>10. DOMAIN ge = {fs[f].id : f \in DOMAIN fs}
  BY <1>2 DEF Matches
<1>11. ASSUME NEW d \in DOMAIN es PROVE go[es[d].id] = FolderOf(es, d)
  <2>1. d \in DOMAIN ds /\ d # dir /\ es[d] = ds[d] /\ ds[d].id # id
    BY <1>1, <1>2
  <2>2. go[ds[d].id] = FolderOf(ds, d)
    BY <1>2, <1>3, <2>1
  <2>3. CASE d = <<>>
    BY <2>1, <2>2, <2>3 DEF FolderOf
  <2>4. CASE d # <<>>
    <3>1. es[Front(d)] = ds[Front(d)]
      BY <1>2, <1>5, <2>1, <2>4
    <3>2. FolderOf(es, d) = FolderOf(ds, d)
      BY <2>1, <3>1 DEF FolderOf
    <3>. QED
      BY <2>1, <2>2, <3>2
  <2>. QED
    BY <2>3, <2>4
<1>12. \A f \in DOMAIN fs : ge[fs[f].id] = SessionOf(es, fs, f)
  BY <1>2, <1>4, <1>8 DEF SessionOf
<1>13. Matches(es, fs, go, ge)
  <2>1. OneId(fs)
    BY DEF Matches
  <2>. QED
    BY <1>2, <1>7, <1>8, <1>9, <1>10, <1>11, <1>12, <2>1 DEF Matches
<1>. QED
  BY <1>13 DEF es, go, ge, dir

-----------------------------------------------------------------------------
(* Planning keeps the invariants *)

LEMMA PlanIs ==
    ASSUME NEW steps, Plan(steps)
    PROVE  /\ todo' = steps /\ dirs' = dirs /\ files' = files /\ folders' = folders /\ sessions' = sessions
           /\ status' = status /\ synced' = synced /\ touched' = FALSE
           /\ todo = <<>> /\ status = "up" /\ ~cut /\ cut' = (cut \/ ~synced)
BY DEF Plan, Start, Idle, disk, index

\* An operation that is begun keeps the invariants, if what it plans has one of the forms.
LEMMA PlanHolds ==
    ASSUME TypeInv, PlanInv, CurrentInv, OneIdInv, NEW steps, Plan(steps),
           Matches(dirs, files, folders, sessions) => Planned'
    PROVE  PlanInv' /\ CurrentInv' /\ OneIdInv'
<1>1. /\ dirs' = dirs /\ files' = files /\ folders' = folders /\ sessions' = sessions
      /\ status' = status /\ synced' = synced
      /\ todo = <<>> /\ status = "up" /\ ~cut /\ (cut' <=> ~synced)
  BY PlanIs
<1>2. synced => Matches(dirs, files, folders, sessions)
  BY <1>1 DEF CurrentInv
<1>3. PlanInv'
  BY <1>1, <1>2 DEF PlanInv
<1>4. CurrentInv'
  BY <1>1, <1>2 DEF CurrentInv
<1>5. OneIdInv'
  <2>1. ~CutsRename
    BY <1>1 DEF CutsRename, Doing
  <2>2. OneId(dirs) /\ OneId(files)
    BY <1>1, <2>1 DEF OneIdInv
  <2>. QED
    BY <1>1, <2>2 DEF OneIdInv
<1>. QED
  BY <1>3, <1>4, <1>5

LEMMA PutPlanned ==
    ASSUME TypeInv, Matches(dirs, files, folders, sessions), NEW in, ~PutRefused(in), in.name \in Names,
           NEW id \in SessionIds, NEW rev, Plan(PutSteps(in, id, rev)),
           in.id \in DOMAIN sessions => in.id = id /\ sessions[id].rev < rev,
           id \in DOMAIN sessions => in.id = id
    PROVE  Planned'
<1> DEFINE target == FileNamed(folders[in.folder].dir, in.name)
           rec == [id |-> id, name |-> in.name, rev |-> rev]
           W == WriteSession(target, rec)
           U == Unlink(sessions[in.id].file)
           R == Remember(Filed(rec, in.folder, target))
           ns == Noted(sessions, Filed(rec, in.folder, target))
           S == {f \in DOMAIN files : files[f].id = id /\ f # target}
<1>1. in.folder \in DOMAIN folders /\ BaseOf[in.name] # 0
  BY DEF PutRefused
<1>2. folders[in.folder].dir \in DirPath
  BY <1>1 DEF TypeInv, FoldersOK
<1>3. Front(target) = folders[in.folder].dir
  BY <1>1, <1>2, NamedIs
<1>4. \A other \in DOMAIN sessions : other # id /\ sessions[other].folder = in.folder => sessions[other].file # target
  BY DEF PutRefused
<1>5. /\ todo' = PutSteps(in, id, rev) /\ dirs' = dirs /\ files' = files
      /\ folders' = folders /\ sessions' = sessions
  BY PlanIs
<1>6. PutSteps(in, id, rev) = IF Renames(in, target) THEN <<W, U, R>> ELSE <<W, R>>
  BY PutStepsAre
<1>7. /\ W.do = "writeSession" /\ W.at = target /\ W.rec = rec
      /\ U.do = "remove" /\ U.at = sessions[in.id].file
      /\ R.do = "remember" /\ R.rec = Filed(rec, in.folder, target)
  BY DEF WriteSession, Unlink, Remember, Step
<1>8. id # None /\ rec.id = id /\ rec.rev = rev
  BY StoreAssumption DEF StoreAssumption
<1>9. /\ DOMAIN ns = DOMAIN sessions \union {id} /\ ns = [x \in DOMAIN ns |-> ns[x]]
      /\ ns[id] = [name |-> rec.name, rev |-> rec.rev, file |-> target, folder |-> in.folder]
      /\ \A x \in DOMAIN sessions : x # id => ns[x] = sessions[x]
  <2> DEFINE r == Filed(rec, in.folder, target)
  <2>1. r.id = id /\ r.name = rec.name /\ r.rev = rec.rev /\ r.file = target /\ r.folder = in.folder
    BY DEF Filed
  <2>. HIDE DEF r, rec, target
  <2>2. /\ DOMAIN Noted(sessions, r) = DOMAIN sessions \union {r.id}
        /\ Noted(sessions, r)[r.id] = [name |-> r.name, rev |-> r.rev, file |-> r.file, folder |-> r.folder]
        /\ \A x \in DOMAIN sessions : x # r.id => Noted(sessions, r)[x] = sessions[x]
        /\ Noted(sessions, r) = [x \in DOMAIN Noted(sessions, r) |-> Noted(sessions, r)[x]]
    BY NotedIs
  <2>. QED
    BY <2>1, <2>2 DEF r
<1>. HIDE DEF W, U, R, ns, rec, target
<1>10. ASSUME NEW gs, DOMAIN gs = (DOMAIN files \union {target}) \ S, gs[target] = rec,
              \A f \in DOMAIN gs : f # target => gs[f] = files[f]
       PROVE  /\ Matches(dirs, gs, folders, ns)
              /\ target \in DOMAIN files => files[target].id = id
  <2>1. /\ in.folder \in DOMAIN folders /\ Front(target) = folders[in.folder].dir
        /\ id # None /\ rec.id = id
    BY <1>1, <1>3, <1>8
  <2>2. /\ DOMAIN gs = (DOMAIN files \union {target}) \ {f \in DOMAIN files : files[f].id = id /\ f # target}
        /\ gs[target] = rec /\ \A f \in DOMAIN gs : f # target => gs[f] = files[f]
    BY <1>10
  <2>. QED
    BY <1>4, <1>9, <2>1, <2>2, PutMatches
<1>11. CASE Renames(in, target)
  <2> DEFINE old == sessions[id].file
             gs == Without(Bind(files, target, rec), {old})
  <2>1. in.id = id /\ id \in DOMAIN sessions /\ old # target /\ sessions[id].rev < rev
    BY <1>11 DEF Renames
  <2>2. /\ old \in DOMAIN files /\ files[old].id = id /\ sessions[id] = SessionOf(dirs, files, old)
        /\ \A f \in DOMAIN files : files[f].id = id <=> f = old
    BY <2>1, SessionAt
  <2>3. sessions[id].rev = files[old].rev
    BY <2>2 DEF SessionOf
  <2>. HIDE DEF old
  <2>4. S = {old}
    BY <2>1, <2>2
  <2>5. /\ DOMAIN gs = (DOMAIN files \union {target}) \ S /\ gs[target] = rec
        /\ \A f \in DOMAIN gs : f # target => gs[f] = files[f]
    BY <2>1, <2>4 DEF Without, Restrict, Bind
  <2>. HIDE DEF gs
  <2>6. Matches(dirs, gs, folders, ns) /\ (target \in DOMAIN files => files[target].id = id)
    <3>. HIDE DEF S
    <3>. QED
      BY <1>10, <2>5
  <2>7. todo' = <<W, U, R>>
    BY <1>5, <1>6, <1>11
  <2>8. Len(todo') = 3 /\ todo'[1] = W /\ todo'[2] = U /\ todo'[3] = R
    BY <2>7
  <2>9. U.at = old
    BY <1>7, <2>1 DEF old
  <2>10. Matches(dirs, Without(Bind(files, W.at, W.rec), {U.at}), folders, Noted(sessions, R.rec))
    BY <1>7, <2>6, <2>9 DEF gs, ns
  <2>11. PutLeft3'
    BY <1>5, <1>7, <1>8, <2>1, <2>2, <2>3, <2>6, <2>8, <2>9, <2>10 DEF PutLeft3, Left3
  <2>. QED
    BY <2>11 DEF Planned
<1>12. CASE ~Renames(in, target)
  <2> DEFINE gs == Bind(files, target, rec)
  <2>1. S = {}
    <3>. SUFFICES ASSUME NEW f \in DOMAIN files, files[f].id = id, f # target PROVE FALSE
      OBVIOUS
    <3>1. id \in DOMAIN sessions
      BY DEF Matches
    <3>2. f = sessions[id].file
      BY <3>1, SessionAt
    <3>. QED
      BY <1>12, <3>1, <3>2 DEF Renames
  <2>2. /\ DOMAIN gs = (DOMAIN files \union {target}) \ S /\ gs[target] = rec
        /\ \A f \in DOMAIN gs : f # target => gs[f] = files[f]
    BY <2>1 DEF Bind
  <2>. HIDE DEF gs
  <2>3. Matches(dirs, gs, folders, ns) /\ (target \in DOMAIN files => files[target].id = id)
    <3>. HIDE DEF S
    <3>. QED
      BY <1>10, <2>2
  <2>8. target \in DOMAIN files => files[target].rev < rev
    <3>. SUFFICES ASSUME target \in DOMAIN files PROVE files[target].rev < rev
      OBVIOUS
    <3>1. files[target].id = id
      BY <2>3
    <3>2. id \in DOMAIN sessions
      BY <3>1 DEF Matches
    <3>3. sessions[id] = SessionOf(dirs, files, target)
      BY <3>1 DEF Matches
    <3>4. sessions[id].rev = files[target].rev
      BY <3>3 DEF SessionOf
    <3>. QED
      BY <3>2, <3>4
  <2>4. todo' = <<W, R>>
    BY <1>5, <1>6, <1>12
  <2>5. Len(todo') = 2 /\ todo'[1] = W /\ todo'[2] = R
    BY <2>4
  <2>6. Matches(dirs, Bind(files, W.at, W.rec), folders, Noted(sessions, R.rec))
    BY <1>7, <2>3 DEF gs, ns
  <2>7. PutLeft2'
    BY <1>5, <1>7, <1>8, <2>3, <2>5, <2>6, <2>8 DEF PutLeft2, Left2
  <2>. QED
    BY <2>7 DEF Planned
<1>. QED
  BY <1>11, <1>12

\* Put, whichever of its files are there.
LEMMA PutPlans ==
    /\ \A in \in SessionIn({None}) : PutNew(in) /\ TypeInv /\ Matches(dirs, files, folders, sessions) => Planned'
    /\ \A in \in SessionIn(SessionIds) :
          PutKnown(in) /\ TypeInv /\ Matches(dirs, files, folders, sessions) => Planned'
    /\ \A in \in SessionIn(SessionIds) :
          PutGone(in, MaxRev[in.id]) /\ TypeInv /\ Matches(dirs, files, folders, sessions) => Planned'
<1>1. ASSUME NEW in \in SessionIn({None}), PutNew(in), TypeInv, Matches(dirs, files, folders, sessions)
      PROVE  Planned'
  <2> DEFINE id == Fresh(SessionIds)
  <2>1. /\ id \in SessionIds /\ id \notin used /\ ~PutRefused(in) /\ Plan(PutSteps(in, id, 1))
        /\ in.id = None
    BY <1>1, FreshIs DEF PutNew, SessionIn
  <2>. HIDE DEF id
  <2>2. id \notin DOMAIN sessions /\ None \notin DOMAIN sessions
    BY <1>1, <2>1, StoreAssumption DEF TypeInv, SessionsOK, StoreAssumption
  <2>3. in.name \in Names
    BY StoreAssumption DEF StoreAssumption, SessionIn
  <2>. QED
    BY <1>1, <2>1, <2>2, <2>3, PutPlanned
<1>2. ASSUME NEW in \in SessionIn(SessionIds), PutKnown(in), TypeInv, Matches(dirs, files, folders, sessions)
      PROVE  Planned'
  <2> DEFINE rev == sessions[in.id].rev + 1
  <2>1. /\ in.id \in SessionIds /\ in.id \in DOMAIN sessions /\ ~PutRefused(in)
        /\ Plan(PutSteps(in, in.id, rev))
    BY <1>2 DEF PutKnown, SessionIn
  <2>2. sessions[in.id].rev < rev
    <3>1. sessions[in.id].rev \in Nat
      BY <1>2, <2>1, RevsAre DEF TypeInv, SessionsOK
    <3>. QED
      BY <3>1
  <2>. HIDE DEF rev
  <2>3. in.name \in Names
    BY StoreAssumption DEF StoreAssumption, SessionIn
  <2>. QED
    BY <1>2, <2>1, <2>2, <2>3, PutPlanned
<1>3. ASSUME NEW in \in SessionIn(SessionIds), PutGone(in, MaxRev[in.id]), TypeInv,
             Matches(dirs, files, folders, sessions)
      PROVE  Planned'
  <2> DEFINE rev == MaxRev[in.id]
  <2>1. /\ in.id \in SessionIds /\ in.id \notin DOMAIN sessions /\ ~PutRefused(in)
        /\ Plan(PutSteps(in, in.id, rev))
    BY <1>3 DEF PutGone, SessionIn
  <2>. HIDE DEF rev
  <2>2. in.name \in Names
    BY StoreAssumption DEF StoreAssumption, SessionIn
  <2>. QED
    BY <1>3, <2>1, <2>2, PutPlanned
<1>. QED
  BY <1>1, <1>2, <1>3

\* Delete of a session.
LEMMA DeletePlans ==
    ASSUME TypeInv, Matches(dirs, files, folders, sessions), NEW id \in SessionIds, DeleteSession(id)
    PROVE  Planned'
<1> DEFINE file == sessions[id].file
           U == Unlink(file)
           F == Forget(id)
<1>1. id \in DOMAIN sessions /\ Plan(<<U, F>>)
  BY DEF DeleteSession
<1>2. id \notin DOMAIN folders
  BY StoreAssumption DEF TypeInv, FoldersOK, StoreAssumption
<1>3. Matches(dirs, Without(files, {file}), Without(folders, {id}), Without(sessions, {id}))
  BY <1>1, <1>2, DeleteMatches
<1>4. file \in DOMAIN files /\ files[file].id = id
  BY <1>1, SessionAt
<1>5. U.do = "remove" /\ U.at = file /\ F.do = "forget" /\ F.rec = id
  BY DEF Unlink, Forget, Step
<1>6. F = Forget(id)
  OBVIOUS
<1>. HIDE DEF U, F, file
<1>7. /\ todo' = <<U, F>> /\ dirs' = dirs /\ files' = files /\ folders' = folders /\ sessions' = sessions
  BY <1>1, PlanIs
<1>8. Len(todo') = 2 /\ todo'[1] = U /\ todo'[2] = F
  BY <1>7
<1>9. DeleteLeft'
  BY <1>3, <1>4, <1>5, <1>6, <1>7, <1>8 DEF DeleteLeft, Left2
<1>. QED
  BY <1>9 DEF Planned

\* DeleteFolder, which refuses a folder that holds anything.
LEMMA DeleteFolderPlans ==
    ASSUME TypeInv, Matches(dirs, files, folders, sessions), NEW id \in FolderIds, DeleteFolder(id)
    PROVE  Planned'
<1> DEFINE dir == folders[id].dir
           Y == UnlinkYaml(dir)
           D == UnlinkDir(dir)
           F == Forget(id)
<1>1. id \in DOMAIN folders /\ Plan(<<Y, D, F>>) /\ FolderEmpty(id)
  BY DEF DeleteFolder
<1>2. id \notin DOMAIN sessions
  BY StoreAssumption DEF TypeInv, SessionsOK, StoreAssumption
<1>3. \A d \in DOMAIN dirs : d # <<>> => Front(d) \in DOMAIN dirs
  BY FrontIn DEF TypeInv
<1>4. (\A x \in DOMAIN folders : folders[x].parent # id) /\ (\A x \in DOMAIN sessions : sessions[x].folder # id)
  BY <1>1 DEF FolderEmpty
<1>5. Matches(Without(dirs, {dir}), files, Without(folders, {id}), Without(sessions, {id}))
  BY <1>1, <1>2, <1>3, <1>4, DeleteFolderMatches
<1>6. Y.do = "removeYaml" /\ Y.at = dir /\ D.do = "removeDir" /\ D.at = dir /\ F.do = "forget" /\ F.rec = id
  BY DEF UnlinkYaml, UnlinkDir, Forget, Step
<1>. HIDE DEF Y, D, F, dir
<1>7. /\ todo' = <<Y, D, F>> /\ dirs' = dirs /\ files' = files /\ folders' = folders /\ sessions' = sessions
  BY <1>1, PlanIs
<1>8. Len(todo') = 3 /\ todo'[1] = Y /\ todo'[2] = D /\ todo'[3] = F
  BY <1>7
<1>9. DeleteFolderLeft'
  BY <1>5, <1>6, <1>7, <1>8 DEF DeleteFolderLeft, Left3
<1>. QED
  BY <1>9 DEF Planned

\* A new folder gets a directory that is free and an id that no directory has.
LEMMA CreateFolderPlans ==
    ASSUME TypeInv, Matches(dirs, files, folders, sessions), NEW in \in FolderIn({None}), CreateFolder(in)
    PROVE  Planned'
<1> DEFINE id == Fresh(FolderIds)
           d == DirNamed(folders[in.parent].dir, in.name)
           rec == [id |-> id, name |-> in.name, src |-> FALSE]
           M == MakeDir(d)
           W == WriteFolder(d, rec)
           R == Reload
<1>1. /\ ~FolderRefused(in) /\ Plan(<<M, W, R>>) /\ id \in FolderIds /\ id \notin used /\ in.id = None
  BY FreshIs DEF CreateFolder, CreateSteps
<1>2. /\ M.do = "makeDir" /\ M.at = d /\ W.do = "writeFolder" /\ W.at = d /\ W.rec.id = id
      /\ R.do = "reload"
  BY DEF MakeDir, WriteFolder, Reload, Step
<1>. HIDE DEF id, M, W, R
<1>3. id # None
  BY <1>1, StoreAssumption DEF StoreAssumption
<1>4. \A e \in DOMAIN dirs : dirs[e].id # id
  BY <1>1, <1>3 DEF TypeInv, TreeOf
<1>5. d \notin DOMAIN dirs
  <2>1. in.parent \in DOMAIN folders /\ BaseOf[in.name] # 0 /\ in.name \in Names
    BY <1>1, StoreAssumption DEF FolderRefused, StoreAssumption, FolderIn
  <2>2. \A x \in DOMAIN folders \ {in.id} : folders[x].parent = in.parent => folders[x].dir # d
    BY <1>1 DEF FolderRefused
  <2>3. folders[in.parent].dir \in DirPath
    BY <2>1 DEF TypeInv, FoldersOK
  <2>4. d # <<>> /\ Front(d) = folders[in.parent].dir
    BY <2>1, <2>3, NamedIs
  <2>5. dirs[Front(d)].id = in.parent
    BY <2>1, <2>4, FolderAt
  <2>. HIDE DEF d
  <2>6. ASSUME d \in DOMAIN dirs PROVE FALSE
    <3>1. dirs[d].id \in DOMAIN folders /\ folders[dirs[d].id] = FolderOf(dirs, d) /\ dirs[d].id # None
      BY <2>6 DEF Matches
    <3>2. folders[dirs[d].id].dir = d /\ folders[dirs[d].id].parent = in.parent
      BY <2>4, <2>5, <3>1 DEF FolderOf
    <3>. QED
      BY <1>1, <2>2, <3>1, <3>2
  <2>. QED
    BY <2>6
<1>. HIDE DEF d
<1>6. todo' = <<M, W, R>> /\ dirs' = dirs /\ files' = files
  BY <1>1, PlanIs
<1>7. Len(todo') = 3 /\ todo'[1] = M /\ todo'[2] = W /\ todo'[3] = R
  BY <1>6
<1>8. CreateLeft'
  BY <1>2, <1>3, <1>4, <1>5, <1>6, <1>7 DEF CreateLeft, Left3
<1>. QED
  BY <1>8 DEF Planned

\* Writing the file of a folder of the index, in the folder's own directory.
LEMMA WritePlanned ==
    ASSUME TypeInv, Matches(dirs, files, folders, sessions), NEW id \in DOMAIN folders, NEW rec, rec.id = id,
           Plan(<<WriteFolder(folders[id].dir, rec), Reload>>)
    PROVE  Planned'
<1> DEFINE d == folders[id].dir
           W == WriteFolder(d, rec)
           R == Reload
<1>1. Plan(<<W, R>>)
  OBVIOUS
<1>2. W.do = "writeFolder" /\ W.at = d /\ W.rec = rec /\ R.do = "reload"
  BY DEF WriteFolder, Reload, Step
<1>3. d \in DOMAIN dirs /\ dirs[d].id = id /\ \A e \in DOMAIN dirs : dirs[e].id = id => e = d
  BY FolderAt
<1>4. id # None
  BY StoreAssumption DEF StoreAssumption, TypeInv, FoldersOK
<1>. HIDE DEF W, R, d
<1>5. todo' = <<W, R>> /\ dirs' = dirs /\ files' = files
  BY <1>1, PlanIs
<1>6. Len(todo') = 2 /\ todo'[1] = W /\ todo'[2] = R
  BY <1>5
<1>7. WriteLeft'
  BY <1>2, <1>3, <1>4, <1>5, <1>6 DEF WriteLeft, Left2
<1>. QED
  BY <1>7 DEF Planned

\* A folder's directory is renamed, or its options are written.
LEMMA UpdateFolderPlans ==
    ASSUME TypeInv, Matches(dirs, files, folders, sessions), NEW in \in FolderIn(FolderIds), UpdateFolder(in)
    PROVE  Planned'
<1> DEFINE to == DirNamed(folders[in.parent].dir, in.name)
           d == folders[in.id].dir
           rec == [id |-> in.id, name |-> in.name, src |-> folders[in.id].src]
           M == Move(d, to)
           W == WriteFolder(to, rec)
           R == Reload
<1>1. /\ Plan(MoveSteps(d, to, rec)) /\ in.id \in DOMAIN folders \ {Root} /\ ~FolderRefused(in)
  BY DEF UpdateFolder
<1>2. MoveSteps(d, to, rec) = IF d # to THEN <<M, W, R>> ELSE <<W, R>>
  BY MoveStepsAre
<1>3. rec.id = in.id
  OBVIOUS
<1>4. CASE d = to
  <2>1. Plan(<<WriteFolder(d, rec), Reload>>)
    BY <1>1, <1>2, <1>4
  <2>. HIDE DEF rec
  <2>. QED
    BY <1>1, <1>3, <2>1, WritePlanned
<1>5. CASE d # to
  <2>1. /\ M.do = "move" /\ M.at = d /\ M.to = to /\ W.do = "writeFolder" /\ W.at = to /\ W.rec = rec
        /\ R.do = "reload"
    BY DEF Move, WriteFolder, Reload, Step
  <2>2. Plan(<<M, W, R>>)
    BY <1>1, <1>2, <1>5
  <2>. HIDE DEF M, W, R, rec
  <2>3. d \in DOMAIN dirs /\ \A e \in DOMAIN dirs : dirs[e].id = in.id <=> e = d
    BY <1>1, FolderAt
  <2>4. in.id # None
    BY <1>1, StoreAssumption DEF StoreAssumption, TypeInv, FoldersOK
  <2>5. to \notin DOMAIN dirs
    <3>1. in.parent \in DOMAIN folders /\ BaseOf[in.name] # 0 /\ in.name \in Names
      BY <1>1, StoreAssumption DEF FolderRefused, StoreAssumption, FolderIn
    <3>2. \A x \in DOMAIN folders \ {in.id} : folders[x].parent = in.parent => folders[x].dir # to
      BY <1>1 DEF FolderRefused
    <3>3. folders[in.parent].dir \in DirPath
      BY <3>1 DEF TypeInv, FoldersOK
    <3>4. to # <<>> /\ Front(to) = folders[in.parent].dir
      BY <3>1, <3>3, NamedIs
    <3>5. dirs[Front(to)].id = in.parent
      BY <3>1, <3>4, FolderAt
    <3>. HIDE DEF to, d
    <3>6. ASSUME to \in DOMAIN dirs PROVE FALSE
      <4>1. dirs[to].id \in DOMAIN folders /\ folders[dirs[to].id] = FolderOf(dirs, to)
        BY <3>6 DEF Matches
      <4>2. folders[dirs[to].id].dir = to /\ folders[dirs[to].id].parent = in.parent
        BY <3>4, <3>5, <4>1 DEF FolderOf
      <4>3. dirs[to].id # in.id
        BY <1>5, <2>3, <3>6
      <4>. QED
        BY <3>2, <4>1, <4>2, <4>3
    <3>. QED
      BY <3>6
  <2>. HIDE DEF to, d
  <2>6. todo' = <<M, W, R>> /\ dirs' = dirs /\ files' = files
    BY <2>2, PlanIs
  <2>7. Len(todo') = 3 /\ todo'[1] = M /\ todo'[2] = W /\ todo'[3] = R
    BY <2>6
  <2>8. MoveLeft'
    BY <1>3, <2>1, <2>3, <2>4, <2>5, <2>6, <2>7 DEF MoveLeft, Left3
  <2>. QED
    BY <2>8 DEF Planned
<1>. QED
  BY <1>4, <1>5

\* Setting or clearing an import source writes the folder's own folder.yaml.
LEMMA SourcePlans ==
    ASSUME TypeInv, Matches(dirs, files, folders, sessions)
    PROVE  /\ \A id \in FolderIds : SetFolderSource(id) \/ ClearFolderSource(id) => Planned'
           /\ PutRoot => Planned'
<1>1. ASSUME NEW id \in FolderIds, SetFolderSource(id) \/ ClearFolderSource(id) PROVE Planned'
  <2>1. PICK src \in BOOLEAN :
           /\ id \in DOMAIN folders
           /\ Plan(<<WriteFolder(folders[id].dir, [id |-> id, name |-> folders[id].name, src |-> src]), Reload>>)
    BY <1>1 DEF SetFolderSource, ClearFolderSource
  <2> DEFINE rec == [id |-> id, name |-> folders[id].name, src |-> src]
  <2>2. rec.id = id /\ Plan(<<WriteFolder(folders[id].dir, rec), Reload>>)
    BY <2>1
  <2>. HIDE DEF rec
  <2>. QED
    BY <2>1, <2>2, WritePlanned
<1>2. ASSUME PutRoot PROVE Planned'
  <2>1. Root \in DOMAIN folders /\ Plan(<<WriteFolder(<<>>, dirs[<<>>]), Reload>>)
    BY <1>2 DEF PutRoot
  <2>2. <<>> \in DOMAIN dirs /\ dirs[<<>>].id = Root
    BY DEF TypeInv, TreeOf
  <2>3. folders[Root].dir = <<>>
    BY <2>1, <2>2, FolderAt
  <2>. QED
    BY <2>1, <2>2, <2>3, WritePlanned
<1>. QED
  BY <1>1, <1>2

\* Every request plans steps that leave disk and index in step.
LEMMA RequestHolds ==
    ASSUME TypeInv, PlanInv, CurrentInv, OneIdInv, Request
    PROVE  PlanInv' /\ CurrentInv' /\ OneIdInv'
<1>1. ASSUME NEW steps, Plan(steps), Matches(dirs, files, folders, sessions) => Planned'
      PROVE  PlanInv' /\ CurrentInv' /\ OneIdInv'
  BY <1>1, PlanHolds
<1>2. ASSUME NEW in \in SessionIn({None}), PutNew(in) PROVE PlanInv' /\ CurrentInv' /\ OneIdInv'
  BY <1>1, <1>2, PutPlans DEF PutNew
<1>3. ASSUME NEW in \in SessionIn(SessionIds), PutKnown(in) PROVE PlanInv' /\ CurrentInv' /\ OneIdInv'
  BY <1>1, <1>3, PutPlans DEF PutKnown
<1>4. ASSUME NEW in \in SessionIn(SessionIds), PutGone(in, MaxRev[in.id])
      PROVE  PlanInv' /\ CurrentInv' /\ OneIdInv'
  BY <1>1, <1>4, PutPlans DEF PutGone
<1>5. ASSUME NEW in \in FolderIn({None}), CreateFolder(in) PROVE PlanInv' /\ CurrentInv' /\ OneIdInv'
  <2>1. \E steps : Plan(steps)
    BY <1>5 DEF CreateFolder
  <2>. QED
    BY <1>1, <1>5, <2>1, CreateFolderPlans
<1>6. ASSUME NEW in \in FolderIn(FolderIds), UpdateFolder(in) PROVE PlanInv' /\ CurrentInv' /\ OneIdInv'
  <2>1. \E steps : Plan(steps)
    BY <1>6 DEF UpdateFolder
  <2>. QED
    BY <1>1, <1>6, <2>1, UpdateFolderPlans
<1>7. ASSUME NEW id \in SessionIds, DeleteSession(id) PROVE PlanInv' /\ CurrentInv' /\ OneIdInv'
  <2>1. \E steps : Plan(steps)
    BY <1>7 DEF DeleteSession
  <2>. QED
    BY <1>1, <1>7, <2>1, DeletePlans
<1>8. ASSUME NEW id \in FolderIds, DeleteFolder(id) PROVE PlanInv' /\ CurrentInv' /\ OneIdInv'
  <2>1. \E steps : Plan(steps)
    BY <1>8 DEF DeleteFolder
  <2>. QED
    BY <1>1, <1>8, <2>1, DeleteFolderPlans
<1>9. ASSUME NEW id \in FolderIds, SetFolderSource(id) \/ ClearFolderSource(id)
      PROVE  PlanInv' /\ CurrentInv' /\ OneIdInv'
  <2>1. \E steps : Plan(steps)
    BY <1>9 DEF SetFolderSource, ClearFolderSource
  <2>. QED
    BY <1>1, <1>9, <2>1, SourcePlans
<1>10. ASSUME PutRoot PROVE PlanInv' /\ CurrentInv' /\ OneIdInv'
  <2>1. \E steps : Plan(steps)
    BY <1>10 DEF PutRoot
  <2>. QED
    BY <1>1, <1>10, <2>1, SourcePlans
<1>11. ASSUME LoadAll PROVE PlanInv' /\ CurrentInv' /\ OneIdInv'
  <2>1. /\ dirs' = dirs /\ files' = files /\ folders' = folders /\ sessions' = sessions
        /\ status' = status /\ synced' = synced /\ cut' = cut
        /\ todo = <<>> /\ todo' = <<Reload>>
    BY <1>11 DEF LoadAll, Start, Idle, disk, index
  <2>2. Left1("reload")'
    <3>1. Reload.do = "reload"
      BY DEF Reload, Step
    <3>. HIDE DEF Reload
    <3>. QED
      BY <2>1, <3>1 DEF Left1
  <2>3. PlanInv'
    BY <2>2 DEF PlanInv
  <2>4. CurrentInv'
    BY <2>1 DEF CurrentInv
  <2>5. OneIdInv'
    <3>1. ~CutsRename
      BY <2>1 DEF CutsRename, Doing
    <3>. QED
      BY <2>1, <3>1 DEF OneIdInv
  <2>. QED
    BY <2>3, <2>4, <2>5
<1>12. SourceFolders \subseteq FolderIds
  BY StoreAssumption DEF StoreAssumption
<1>. QED
  BY <1>2, <1>3, <1>4, <1>5, <1>6, <1>7, <1>8, <1>9, <1>10, <1>11, <1>12 DEF Request

-----------------------------------------------------------------------------
(* Taking the steps keeps the invariants *)

\* The first step of a list, and what is left after it.
LEMMA TailIs ==
    ASSUME TypeInv, todo # <<>>, todo' = Tail(todo)
    PROVE  /\ Head(todo) = todo[1]
           /\ Len(todo) = 1 => todo' = <<>>
           /\ Len(todo) = 2 => Len(todo') = 1 /\ todo'[1] = todo[2]
           /\ Len(todo) = 3 => Len(todo') = 2 /\ todo'[1] = todo[2] /\ todo'[2] = todo[3]
           /\ Len(todo) # 1 => todo' # <<>> /\ Head(todo') = todo'[1]
<1> DEFINE S == Steps(used)
<1>1. todo \in Seq(S)
  BY DEF TypeInv
<1>. HIDE DEF S
<1>2. Head(todo) = todo[1]
  BY <1>1
<1>3. Len(todo') = Len(todo) - 1 /\ \A i \in 1..Len(todo') : todo'[i] = todo[i + 1]
  BY <1>1, HeadTailProperties
<1>4. todo' \in Seq(S) /\ Len(todo) \in Nat
  BY <1>1, HeadTailProperties, LenProperties
<1>5. Len(todo) = 1 => todo' = <<>>
  BY <1>3, <1>4, EmptySeq
<1>6. ASSUME Len(todo) # 1 PROVE todo' # <<>> /\ Head(todo') = todo'[1]
  <2>1. todo' # <<>>
    BY <1>3, <1>4, <1>6
  <2>. QED
    BY <1>4, <2>1
<1>. QED
  BY <1>2, <1>3, <1>4, <1>5, <1>6

\* The step that is taken next, by the form of what is left.
LEMMA FirstOf ==
    ASSUME todo # <<>>, Head(todo) = todo[1], Planned
    PROVE  /\ Doing("writeSession") => PutLeft3 \/ PutLeft2
           /\ Doing("remove") => RenameLeft \/ DeleteLeft
           /\ Doing("remember") => RememberLeft
           /\ Doing("forget") => ForgetLeft
           /\ Doing("removeYaml") => DeleteFolderLeft
           /\ Doing("removeDir") => DeleteDirLeft
           /\ Doing("makeDir") => CreateLeft
           /\ Doing("move") => MoveLeft
           /\ Doing("writeFolder") => WriteLeft
<1>. USE DEF Left1, Left2, Left3, Doing
<1>1. PutLeft3 \/ PutLeft2 => todo[1].do = "writeSession"
  BY DEF PutLeft3, PutLeft2
<1>2. RenameLeft \/ DeleteLeft => todo[1].do = "remove"
  BY DEF RenameLeft, DeleteLeft
<1>3. RememberLeft => todo[1].do = "remember"
  BY DEF RememberLeft
<1>4. ForgetLeft => todo[1].do = "forget"
  BY DEF ForgetLeft
<1>5. DeleteFolderLeft => todo[1].do = "removeYaml"
  BY DEF DeleteFolderLeft
<1>6. DeleteDirLeft => todo[1].do = "removeDir"
  BY DEF DeleteDirLeft
<1>7. CreateLeft => todo[1].do = "makeDir"
  BY DEF CreateLeft
<1>8. MoveLeft => todo[1].do = "move"
  BY DEF MoveLeft
<1>9. WriteLeft => todo[1].do = "writeFolder"
  BY DEF WriteLeft
<1>. QED
  BY <1>1, <1>2, <1>3, <1>4, <1>5, <1>6, <1>7, <1>8, <1>9 DEF Planned

\* A step that is taken as planned.
Proceeds ==
    /\ todo' = <<>> \/ Left1("reload")' \/ Planned'
    /\ todo' = <<>> => Matches(dirs', files', folders', sessions')
    /\ ~CutsRename' => OneId(dirs') /\ OneId(files')

\* A step that leaves one of the forms keeps the invariants.
LEMMA DoneHolds ==
    ASSUME TypeInv, PlanInv, todo # <<>>, Head(todo).do # "reload", Done,
           ~cut /\ synced /\ Planned => Proceeds
    PROVE  PlanInv' /\ CurrentInv' /\ OneIdInv'
<1>1. todo' = Tail(todo) /\ touched' = TRUE /\ synced' = synced /\ cut' = cut
  BY DEF Done
<1>2. ~Left1("reload")
  BY <1>1, TailIs DEF Left1
<1>3. IF cut THEN ~synced ELSE synced /\ Planned
  BY <1>2 DEF PlanInv
<1>. QED
  BY <1>1, <1>3 DEF PlanInv, CurrentInv, OneIdInv, Proceeds

\* Until a rename is half done, no id is twice on disk.
LEMMA OneIdNow ==
    ASSUME OneIdInv, ~cut, ~Doing("remove") PROVE OneId(dirs) /\ OneId(files)
BY DEF OneIdInv, CutsRename

LEMMA StillOneId == ASSUME NEW ds, NEW fs, NEW fo, NEW se, Matches(ds, fs, fo, se) PROVE OneId(ds) /\ OneId(fs)
BY DEF Matches

LEMMA DoWriteSessionHolds ==
    ASSUME TypeInv, PlanInv, OneIdInv, DoWriteSession PROVE PlanInv' /\ CurrentInv' /\ OneIdInv'
<1>1. /\ todo # <<>> /\ Head(todo).do = "writeSession" /\ Done /\ todo' = Tail(todo) /\ Doing("writeSession")
      /\ files' = Bind(files, Head(todo).at, Head(todo).rec)
      /\ dirs' = dirs /\ folders' = folders /\ sessions' = sessions
  BY DEF DoWriteSession, Doing, Done, index
<1>2. /\ Head(todo) = todo[1]
      /\ Len(todo) = 2 => Len(todo') = 1 /\ todo'[1] = todo[2] /\ todo' # <<>>
      /\ Len(todo) = 3 => Len(todo') = 2 /\ todo'[1] = todo[2] /\ todo'[2] = todo[3]
  BY <1>1, TailIs
<1>3. ASSUME PutLeft3 PROVE Proceeds
  <2> DEFINE t == todo[1].at
             old == todo[2].at
             rec == todo[1].rec
  <2>1. /\ Len(todo') = 2 /\ todo'[1] = todo[2] /\ todo'[2] = todo[3]
        /\ todo[2].do = "remove" /\ todo[3].do = "remember"
    BY <1>2, <1>3 DEF PutLeft3, Left3
  <2>2. files' = Bind(files, t, rec)
    BY <1>1, <1>2
  <2>3. t # old /\ old \in DOMAIN files /\ files[old].id = rec.id /\ files[old].rev < rec.rev
    BY <1>3 DEF PutLeft3
  <2>4. Matches(dirs, Without(Bind(files, t, rec), {old}), folders, Noted(sessions, todo[3].rec))
    BY <1>3 DEF PutLeft3
  <2>5. Matches(dirs', Without(files', {todo'[1].at}), folders', Noted(sessions', todo'[2].rec))
    BY <1>1, <2>1, <2>2, <2>4
  <2>6. /\ old \in DOMAIN files' /\ t \in DOMAIN files' \ {old} /\ files'[t] = rec /\ files'[old] = files[old]
    BY <2>2, <2>3 DEF Bind
  <2>7. \E f \in DOMAIN files' \ {old} : files'[f].id = files'[old].id /\ files'[old].rev < files'[f].rev
    BY <2>3, <2>6
  <2>8. RenameLeft'
    BY <2>1, <2>5, <2>6, <2>7 DEF RenameLeft, Left2
  <2>9. CutsRename'
    <3>1. Len(todo) = 3
      BY <1>3 DEF PutLeft3, Left3
    <3>2. todo' # <<>> /\ Head(todo') = todo'[1]
      BY <1>1, <3>1, TailIs
    <3>. QED
      BY <2>1, <3>2 DEF CutsRename, Doing
  <2>10. todo' # <<>>
    BY <2>9 DEF CutsRename, Doing
  <2>. QED
    BY <2>8, <2>9, <2>10 DEF Proceeds, Planned
<1>4. ASSUME PutLeft2 PROVE Proceeds
  <2>1. Len(todo') = 1 /\ todo' # <<>> /\ todo'[1] = todo[2] /\ todo[2].do = "remember"
    BY <1>2, <1>4 DEF PutLeft2, Left2
  <2>2. Matches(dirs, Bind(files, todo[1].at, todo[1].rec), folders, Noted(sessions, todo[2].rec))
    BY <1>4 DEF PutLeft2
  <2>3. Matches(dirs', files', folders', Noted(sessions', todo'[1].rec))
    BY <1>1, <1>2, <2>1, <2>2
  <2>4. RememberLeft'
    BY <2>1, <2>3 DEF RememberLeft, Left1
  <2>5. OneId(dirs') /\ OneId(files')
    BY <2>3, StillOneId
  <2>6. todo' # <<>>
    BY <2>1
  <2>. QED
    BY <2>4, <2>5, <2>6 DEF Proceeds, Planned
<1>5. Planned => PutLeft3 \/ PutLeft2
  BY <1>1, <1>2, FirstOf
<1>. QED
  BY <1>1, <1>3, <1>4, <1>5, DoneHolds

LEMMA DoRemoveHolds ==
    ASSUME TypeInv, PlanInv, DoRemove PROVE PlanInv' /\ CurrentInv' /\ OneIdInv'
<1>1. /\ todo # <<>> /\ Head(todo).do = "remove" /\ Done /\ todo' = Tail(todo) /\ Doing("remove")
      /\ files' = Without(files, {Head(todo).at})
      /\ dirs' = dirs /\ folders' = folders /\ sessions' = sessions
  BY DEF DoRemove, Doing, Done, index
<1>2. Head(todo) = todo[1] /\ (Len(todo) = 2 => Len(todo') = 1 /\ todo'[1] = todo[2] /\ todo' # <<>>)
  BY <1>1, TailIs
<1>3. ASSUME RenameLeft PROVE Proceeds
  <2>1. Len(todo') = 1 /\ todo' # <<>> /\ todo'[1] = todo[2] /\ todo[2].do = "remember"
    BY <1>2, <1>3 DEF RenameLeft, Left2
  <2>2. Matches(dirs, Without(files, {todo[1].at}), folders, Noted(sessions, todo[2].rec))
    BY <1>3 DEF RenameLeft
  <2>3. Matches(dirs', files', folders', Noted(sessions', todo'[1].rec))
    BY <1>1, <1>2, <2>1, <2>2
  <2>4. RememberLeft'
    BY <2>1, <2>3 DEF RememberLeft, Left1
  <2>5. OneId(dirs') /\ OneId(files') /\ todo' # <<>>
    BY <2>1, <2>3, StillOneId
  <2>. QED
    BY <2>4, <2>5 DEF Proceeds, Planned
<1>4. ASSUME DeleteLeft PROVE Proceeds
  <2>1. Len(todo') = 1 /\ todo' # <<>> /\ todo'[1] = todo[2] /\ todo[2].do = "forget"
    BY <1>2, <1>4 DEF DeleteLeft, Left2
  <2>2. Matches(dirs, Without(files, {todo[1].at}), Without(folders, {todo[2].rec}), Without(sessions, {todo[2].rec}))
    BY <1>4 DEF DeleteLeft
  <2>3. Matches(dirs', files', Without(folders', {todo'[1].rec}), Without(sessions', {todo'[1].rec}))
    BY <1>1, <1>2, <2>1, <2>2
  <2>4. ForgetLeft'
    BY <2>1, <2>3 DEF ForgetLeft, Left1
  <2>5. OneId(dirs') /\ OneId(files') /\ todo' # <<>>
    BY <2>1, <2>3, StillOneId
  <2>. QED
    BY <2>4, <2>5 DEF Proceeds, Planned
<1>5. Planned => RenameLeft \/ DeleteLeft
  BY <1>1, <1>2, FirstOf
<1>. QED
  BY <1>1, <1>3, <1>4, <1>5, DoneHolds

LEMMA DoRemoveYamlHolds ==
    ASSUME TypeInv, PlanInv, OneIdInv, DoRemoveYaml PROVE PlanInv' /\ CurrentInv' /\ OneIdInv'
<1>1. /\ todo # <<>> /\ Head(todo).do = "removeYaml" /\ Done /\ todo' = Tail(todo) /\ Doing("removeYaml")
      /\ dirs' = [d \in DOMAIN dirs |-> IF d = Head(todo).at THEN NoYaml ELSE dirs[d]]
      /\ files' = files /\ folders' = folders /\ sessions' = sessions
  BY DEF DoRemoveYaml, Doing, Done, index
<1>2. Head(todo) = todo[1] /\ (Len(todo) = 3 => Len(todo') = 2 /\ todo'[1] = todo[2] /\ todo'[2] = todo[3] /\ todo' # <<>>)
  BY <1>1, TailIs
<1>3. ASSUME ~cut, DeleteFolderLeft PROVE Proceeds
  <2> DEFINE at == todo[1].at
  <2>1. /\ Len(todo') = 2 /\ todo' # <<>> /\ todo'[1] = todo[2] /\ todo'[2] = todo[3]
        /\ todo[2].do = "removeDir" /\ todo[3].do = "forget" /\ todo[2].at = at
    BY <1>2, <1>3 DEF DeleteFolderLeft, Left3
  <2>2. Matches(Without(dirs, {at}), files, Without(folders, {todo[3].rec}), Without(sessions, {todo[3].rec}))
    BY <1>3 DEF DeleteFolderLeft
  <2>. HIDE DEF at
  <2>3. /\ DOMAIN dirs' = DOMAIN dirs /\ \A d \in DOMAIN dirs : d # at => dirs'[d] = dirs[d]
        /\ \A d \in DOMAIN dirs : d = at => dirs'[d].id = None
    BY <1>1, <1>2 DEF at, NoYaml
  <2>4. Without(dirs', {at}) = Without(dirs, {at})
    <3> DEFINE D == DOMAIN dirs \ {at}
    <3>1. Without(dirs', {at}) = [d \in D |-> dirs'[d]] /\ Without(dirs, {at}) = [d \in D |-> dirs[d]]
      BY <2>3 DEF Without, Restrict
    <3>2. \A d \in D : dirs'[d] = dirs[d]
      BY <2>3
    <3>. HIDE DEF D
    <3>. QED
      BY <3>1, <3>2
  <2>5. Matches(Without(dirs', {todo'[1].at}), files', Without(folders', {todo'[2].rec}),
                Without(sessions', {todo'[2].rec}))
    BY <1>1, <2>1, <2>2, <2>4
  <2>6. DeleteDirLeft'
    BY <2>1, <2>5 DEF DeleteDirLeft, Left2
  <2>7. OneId(dirs) /\ OneId(files)
    BY <1>1, <1>3, OneIdNow DEF Doing
  <2>8. OneId(dirs') /\ OneId(files')
    BY <1>1, <2>3, <2>7 DEF OneId
  <2>9. todo' # <<>>
    BY <2>1
  <2>. QED
    BY <2>6, <2>8, <2>9 DEF Proceeds, Planned
<1>4. Planned => DeleteFolderLeft
  BY <1>1, <1>2, FirstOf
<1>. QED
  BY <1>1, <1>3, <1>4, DoneHolds

LEMMA DoRemoveDirHolds ==
    ASSUME TypeInv, PlanInv, DoRemoveDir PROVE PlanInv' /\ CurrentInv' /\ OneIdInv'
<1>1. /\ todo # <<>> /\ Head(todo).do = "removeDir" /\ Done /\ todo' = Tail(todo) /\ Doing("removeDir")
      /\ dirs' = Without(dirs, {Head(todo).at})
      /\ files' = files /\ folders' = folders /\ sessions' = sessions
  BY DEF DoRemoveDir, Doing, Done, index
<1>2. Head(todo) = todo[1] /\ (Len(todo) = 2 => Len(todo') = 1 /\ todo'[1] = todo[2] /\ todo' # <<>>)
  BY <1>1, TailIs
<1>3. ASSUME DeleteDirLeft PROVE Proceeds
  <2>1. Len(todo') = 1 /\ todo' # <<>> /\ todo'[1] = todo[2] /\ todo[2].do = "forget"
    BY <1>2, <1>3 DEF DeleteDirLeft, Left2
  <2>2. Matches(Without(dirs, {todo[1].at}), files, Without(folders, {todo[2].rec}), Without(sessions, {todo[2].rec}))
    BY <1>3 DEF DeleteDirLeft
  <2>3. Matches(dirs', files', Without(folders', {todo'[1].rec}), Without(sessions', {todo'[1].rec}))
    BY <1>1, <1>2, <2>1, <2>2
  <2>4. ForgetLeft'
    BY <2>1, <2>3 DEF ForgetLeft, Left1
  <2>5. OneId(dirs') /\ OneId(files') /\ todo' # <<>>
    BY <2>1, <2>3, StillOneId
  <2>. QED
    BY <2>4, <2>5 DEF Proceeds, Planned
<1>4. Planned => DeleteDirLeft
  BY <1>1, <1>2, FirstOf
<1>. QED
  BY <1>1, <1>3, <1>4, DoneHolds

\* A new directory has no id.
LEMMA DoMakeDirHolds ==
    ASSUME TypeInv, PlanInv, OneIdInv, DoMakeDir PROVE PlanInv' /\ CurrentInv' /\ OneIdInv'
<1> DEFINE missing == {SubSeq(Head(todo).at, 1, n) : n \in 1..Len(Head(todo).at)} \ DOMAIN dirs
<1>1. /\ todo # <<>> /\ Head(todo).do = "makeDir" /\ Done /\ todo' = Tail(todo) /\ Doing("makeDir")
      /\ dirs' = [d \in DOMAIN dirs \union missing |-> IF d \in missing THEN NoYaml ELSE dirs[d]]
      /\ files' = files
  BY DEF DoMakeDir, Doing, Done, index
<1>2. DOMAIN dirs' = DOMAIN dirs \union missing /\ missing \intersect DOMAIN dirs = {}
  BY <1>1
<1>3. /\ \A d \in missing : dirs'[d].id = None
      /\ \A d \in DOMAIN dirs : dirs'[d] = dirs[d]
  BY <1>1 DEF NoYaml
<1>. HIDE DEF missing
<1>4. /\ Head(todo) = todo[1]
      /\ Len(todo) = 3 => Len(todo') = 2 /\ todo'[1] = todo[2] /\ todo'[2] = todo[3] /\ todo' # <<>>
  BY <1>1, TailIs
<1>5. ASSUME ~cut, CreateLeft PROVE Proceeds
  <2> DEFINE at == todo[2].at
             id == todo[2].rec.id
  <2>1. /\ Len(todo') = 2 /\ todo' # <<>> /\ todo'[1] = todo[2] /\ todo'[2] = todo[3]
        /\ todo[2].do = "writeFolder" /\ todo[3].do = "reload"
    BY <1>4, <1>5 DEF CreateLeft, Left3
  <2>2. at \notin DOMAIN dirs /\ id # None /\ \A d \in DOMAIN dirs : dirs[d].id # id
    BY <1>5 DEF CreateLeft
  <2>. HIDE DEF at, id
  <2>3. \A d \in DOMAIN dirs' : dirs'[d].id # id
    BY <1>2, <1>3, <2>2
  <2>4. \A f \in DOMAIN files' : Front(f) # at
    BY <1>1, <2>2, FrontIn, TreeApart DEF TypeInv
  <2>5. WriteLeft'
    BY <2>1, <2>2, <2>3, <2>4 DEF WriteLeft, Left2, at, id
  <2>6. OneId(dirs) /\ OneId(files)
    BY <1>1, <1>5, OneIdNow DEF Doing
  <2>7. OneId(dirs') /\ OneId(files')
    BY <1>1, <1>2, <1>3, <2>6 DEF OneId
  <2>. QED
    BY <2>1, <2>5, <2>7 DEF Proceeds, Planned
<1>6. Planned => CreateLeft
  BY <1>1, <1>4, FirstOf
<1>. QED
  BY <1>1, <1>5, <1>6, DoneHolds

\* A move leaves every record where it was, or below the new place.
LEMMA RelocatedOneId ==
    ASSUME NEW from \in Path, NEW to \in Path, NEW f, DOMAIN f \subseteq Path, OneId(f)
    PROVE  OneId(Relocated(f, from, to))
<1> DEFINE g == Relocated(f, from, to)
<1>1. \A q \in DOMAIN g :
         \/ q \in DOMAIN f /\ ~IsPrefix(from, q) /\ g[q] = f[q]
         \/ \E p \in DOMAIN f : IsPrefix(from, p) /\ q = Under(from, to, p) /\ g[q] = f[p]
  BY RelocatedIs
<1>. HIDE DEF g
<1>2. ASSUME NEW p \in DOMAIN g, NEW q \in DOMAIN g, g[p].id = g[q].id, g[p].id # None PROVE p = q
  <2>1. PICK a \in DOMAIN f :
           /\ g[p] = f[a]
           /\ \/ p = a /\ ~IsPrefix(from, a)
              \/ p = Under(from, to, a) /\ IsPrefix(from, a)
    BY <1>1
  <2>2. PICK b \in DOMAIN f :
           /\ g[q] = f[b]
           /\ \/ q = b /\ ~IsPrefix(from, b)
              \/ q = Under(from, to, b) /\ IsPrefix(from, b)
    BY <1>1
  <2>3. a = b
    BY <1>2, <2>1, <2>2 DEF OneId
  <2>. QED
    BY <2>1, <2>2, <2>3
<1>3. OneId(g)
  BY <1>2 DEF OneId
<1>. QED
  BY <1>3 DEF g

\* A directory moves, with all that is below it; no id is doubled by it.
LEMMA DoMoveHolds ==
    ASSUME TypeInv, PlanInv, OneIdInv, DoMove PROVE PlanInv' /\ CurrentInv' /\ OneIdInv'
<1> DEFINE from == Head(todo).at
           to == Head(todo).to
<1>1. /\ todo # <<>> /\ Head(todo).do = "move" /\ Done /\ todo' = Tail(todo) /\ Doing("move")
      /\ dirs' = Relocated(dirs, from, to) /\ files' = Relocated(files, from, to)
  BY DEF DoMove, Doing, Done, index
<1>2. /\ Head(todo) = todo[1]
      /\ Len(todo) = 3 => Len(todo') = 2 /\ todo'[1] = todo[2] /\ todo'[2] = todo[3] /\ todo' # <<>>
  BY <1>1, TailIs
<1>3. Head(todo) \in Steps(used)
  BY <1>1, NextStep
<1>4. from \in Path /\ to \in Path
  BY <1>3 DEF Steps, StepRec
<1>5. DOMAIN dirs \subseteq Path /\ DOMAIN files \subseteq Path
  BY TreeApart DEF TypeInv
<1>6. from = todo[1].at /\ to = todo[1].to
  BY <1>2
<1>. HIDE DEF from, to
<1>7. /\ \A p \in DOMAIN dirs : IsPrefix(from, p) => Under(from, to, p) \in DOMAIN dirs'
      /\ \A q \in DOMAIN dirs' :
            \/ q \in DOMAIN dirs /\ ~IsPrefix(from, q) /\ dirs'[q] = dirs[q]
            \/ \E p \in DOMAIN dirs : IsPrefix(from, p) /\ q = Under(from, to, p) /\ dirs'[q] = dirs[p]
  BY <1>1, <1>4, <1>5, RelocatedIs
<1>8. ASSUME ~cut, MoveLeft PROVE Proceeds
  <2> DEFINE id == todo[2].rec.id
  <2>1. /\ Len(todo') = 2 /\ todo' # <<>> /\ todo'[1] = todo[2] /\ todo'[2] = todo[3]
        /\ todo[2].do = "writeFolder" /\ todo[3].do = "reload" /\ todo[2].at = to
    BY <1>2, <1>6, <1>8 DEF MoveLeft, Left3
  <2>2. /\ from \in DOMAIN dirs /\ to \notin DOMAIN dirs /\ id # None
        /\ \A d \in DOMAIN dirs : dirs[d].id = id <=> d = from
    BY <1>6, <1>8 DEF MoveLeft
  <2>. HIDE DEF id
  <2>3. Under(from, to, from) = to /\ IsPrefix(from, from)
    BY <1>4, UnderTop
  <2>4. ASSUME NEW d \in DOMAIN dirs', dirs'[d].id = id PROVE d = to
    BY <1>7, <2>2, <2>3, <2>4
  <2>5. to \in DOMAIN dirs' /\ dirs'[to].id = id
    <3>1. to \in DOMAIN dirs'
      BY <1>7, <2>2, <2>3
    <3>2. PICK p \in DOMAIN dirs : IsPrefix(from, p) /\ to = Under(from, to, p) /\ dirs'[to] = dirs[p]
      BY <1>7, <2>2, <3>1
    <3>3. Under(to, from, Under(from, to, p)) = p /\ Under(to, from, Under(from, to, from)) = from
      BY <1>4, <1>5, <2>3, <3>2, UnderBack
    <3>4. p = from
      BY <2>3, <3>2, <3>3
    <3>. QED
      BY <2>2, <3>1, <3>2, <3>4
  <2>6. WriteLeft'
    BY <2>1, <2>2, <2>4, <2>5 DEF WriteLeft, Left2, id
  <2>7. OneId(dirs) /\ OneId(files)
    BY <1>1, <1>8, OneIdNow DEF Doing
  <2>8. OneId(dirs') /\ OneId(files')
    BY <1>1, <1>4, <1>5, <2>7, RelocatedOneId
  <2>. QED
    BY <2>1, <2>6, <2>8 DEF Proceeds, Planned
<1>9. Planned => MoveLeft
  BY <1>1, <1>2, FirstOf
<1>. QED
  BY <1>1, <1>8, <1>9, DoneHolds

LEMMA DoWriteFolderHolds ==
    ASSUME TypeInv, PlanInv, OneIdInv, DoWriteFolder PROVE PlanInv' /\ CurrentInv' /\ OneIdInv'
<1>1. /\ todo # <<>> /\ Head(todo).do = "writeFolder" /\ Done /\ todo' = Tail(todo) /\ Doing("writeFolder")
      /\ dirs' = Bind(dirs, Head(todo).at, Head(todo).rec) /\ files' = files
  BY DEF DoWriteFolder, Doing, Done, index
<1>2. Head(todo) = todo[1] /\ (Len(todo) = 2 => Len(todo') = 1 /\ todo'[1] = todo[2] /\ todo' # <<>>)
  BY <1>1, TailIs
<1>3. ASSUME ~cut, WriteLeft PROVE Proceeds
  <2> DEFINE at == todo[1].at
             rec == todo[1].rec
  <2>1. Left1("reload")' /\ todo' # <<>>
    BY <1>2, <1>3 DEF WriteLeft, Left1, Left2
  <2>2. \A d \in DOMAIN dirs : dirs[d].id = rec.id => d = at
    BY <1>3 DEF WriteLeft
  <2>3. /\ DOMAIN dirs' = DOMAIN dirs \union {at} /\ dirs'[at] = rec
        /\ \A d \in DOMAIN dirs : d # at => dirs'[d] = dirs[d]
    BY <1>1, <1>2 DEF Bind
  <2>. HIDE DEF at, rec
  <2>4. OneId(dirs) /\ OneId(files)
    BY <1>1, <1>3, OneIdNow DEF Doing
  <2>5. OneId(dirs') /\ OneId(files')
    BY <1>1, <2>2, <2>3, <2>4 DEF OneId
  <2>. QED
    BY <2>1, <2>5 DEF Proceeds
<1>4. Planned => WriteLeft
  BY <1>1, <1>2, FirstOf
<1>. QED
  BY <1>1, <1>3, <1>4, DoneHolds

LEMMA DoRememberHolds ==
    ASSUME TypeInv, PlanInv, DoRemember PROVE PlanInv' /\ CurrentInv' /\ OneIdInv'
<1> DEFINE rec == Head(todo).rec
<1>1. /\ todo # <<>> /\ Head(todo).do = "remember" /\ Done /\ todo' = Tail(todo) /\ Doing("remember")
      /\ sessions' = Bind(sessions, rec.id, [name |-> rec.name, rev |-> rec.rev, file |-> rec.file,
                                             folder |-> rec.folder])
      /\ dirs' = dirs /\ files' = files /\ folders' = folders
  BY DEF DoRemember, Doing, Done, disk
<1>2. sessions' = Noted(sessions, rec)
  BY <1>1 DEF Noted
<1>3. Head(todo) = todo[1] /\ (Len(todo) = 1 => todo' = <<>>)
  BY <1>1, TailIs
<1>4. rec = todo[1].rec
  BY <1>3
<1>. HIDE DEF rec
<1>5. ASSUME RememberLeft PROVE Proceeds
  <2>1. todo' = <<>> /\ Matches(dirs', files', folders', sessions')
    BY <1>1, <1>2, <1>3, <1>4, <1>5 DEF RememberLeft, Left1
  <2>2. OneId(dirs') /\ OneId(files')
    BY <2>1, StillOneId
  <2>. QED
    BY <2>1, <2>2 DEF Proceeds
<1>6. Planned => RememberLeft
  BY <1>1, <1>3, FirstOf
<1>. QED
  BY <1>1, <1>5, <1>6, DoneHolds

LEMMA DoForgetHolds ==
    ASSUME TypeInv, PlanInv, DoForget PROVE PlanInv' /\ CurrentInv' /\ OneIdInv'
<1>1. /\ todo # <<>> /\ Head(todo).do = "forget" /\ Done /\ todo' = Tail(todo) /\ Doing("forget")
      /\ sessions' = Without(sessions, {Head(todo).rec}) /\ folders' = Without(folders, {Head(todo).rec})
      /\ dirs' = dirs /\ files' = files
  BY DEF DoForget, Doing, Done, disk
<1>2. Head(todo) = todo[1] /\ (Len(todo) = 1 => todo' = <<>>)
  BY <1>1, TailIs
<1>3. ASSUME ForgetLeft PROVE Proceeds
  <2>1. todo' = <<>> /\ Matches(dirs', files', folders', sessions')
    BY <1>1, <1>2, <1>3 DEF ForgetLeft, Left1
  <2>2. OneId(dirs') /\ OneId(files')
    BY <2>1, StillOneId
  <2>. QED
    BY <2>1, <2>2 DEF Proceeds
<1>4. Planned => ForgetLeft
  BY <1>1, <1>2, FirstOf
<1>. QED
  BY <1>1, <1>3, <1>4, DoneHolds

-----------------------------------------------------------------------------
(* Reloads, failures, crashes and files made by hand keep the invariants *)

\* Nothing is planned that has a reload for its first step.
LEMMA ReloadIsLast ==
    ASSUME TypeInv, PlanInv, Doing("reload"), ~cut PROVE Left1("reload")
<1>1. todo # <<>> /\ Head(todo).do = "reload" /\ todo \in Seq(Steps(used))
  BY DEF Doing, TypeInv
<1> DEFINE S == Steps(used)
<1>. HIDE DEF S
<1>2. Head(todo) = todo[1]
  BY <1>1 DEF S
<1>3. ~Planned
  BY <1>1, <1>2 DEF Planned, PutLeft3, PutLeft2, RenameLeft, RememberLeft, DeleteLeft, DeleteFolderLeft,
                    DeleteDirLeft, ForgetLeft, CreateLeft, MoveLeft, WriteLeft, Left1, Left2, Left3
<1>. QED
  BY <1>1, <1>3 DEF PlanInv

\* A walk writes fresh ids, which no entry has.
LEMMA HealHolds ==
    ASSUME TypeInv, PlanInv, OneIdInv, Heal PROVE PlanInv' /\ CurrentInv' /\ OneIdInv'
<1>1. /\ Doing("reload") /\ todo' = todo /\ touched' = TRUE /\ synced' = synced /\ cut' = cut /\ todo # <<>>
  BY DEF Heal, Doing
<1>2. PlanInv'
  <2>1. CASE cut
    <3>1. Left1("reload")' <=> Left1("reload")
      BY <1>1 DEF Left1
    <3>. QED
      BY <1>1, <2>1, <3>1 DEF PlanInv
  <2>2. CASE ~cut
    <3>1. Left1("reload")
      BY <1>1, <2>2, ReloadIsLast
    <3>2. Left1("reload")'
      BY <1>1, <3>1 DEF Left1
    <3>. QED
      BY <3>2 DEF PlanInv
  <2>. QED
    BY <2>1, <2>2
<1>3. CurrentInv'
  BY <1>1 DEF CurrentInv
<1>4. ASSUME ~cut PROVE OneId(dirs') /\ OneId(files')
  <2>1. OneId(dirs) /\ OneId(files)
    BY <1>1, <1>4, OneIdNow DEF Doing
  <2>2. PICK p \in Unnamed :
           \/ /\ p \in DOMAIN dirs /\ FolderIds \ used # {}
              /\ \E rec : rec.id = Fresh(FolderIds) /\ dirs' = [dirs EXCEPT ![p] = rec]
              /\ files' = files
           \/ /\ p \in DOMAIN files /\ SessionIds \ used # {}
              /\ \E rec : rec.id = Fresh(SessionIds) /\ files' = [files EXCEPT ![p] = rec]
              /\ dirs' = dirs
    <3>1. PICK p \in Unnamed \intersect Reached :
             LET name == PlainName[p[Len(p)] \div 2]
             IN  \/ /\ p \in DOMAIN dirs
                    /\ FolderIds \ used # {}
                    /\ dirs' = [dirs EXCEPT ![p] = [id |-> Fresh(FolderIds), name |-> name, src |-> FALSE]]
                    /\ used' = used \union {Fresh(FolderIds)}
                    /\ UNCHANGED files
                 \/ /\ p \in DOMAIN files
                    /\ SessionIds \ used # {}
                    /\ files' = [files EXCEPT ![p] = [id |-> Fresh(SessionIds), name |-> name, rev |-> 0]]
                    /\ used' = used \union {Fresh(SessionIds)}
                    /\ UNCHANGED dirs
      BY DEF Heal
    <3> DEFINE r1 == [id |-> Fresh(FolderIds), name |-> PlainName[p[Len(p)] \div 2], src |-> FALSE]
               r2 == [id |-> Fresh(SessionIds), name |-> PlainName[p[Len(p)] \div 2], rev |-> 0]
    <3>2. r1.id = Fresh(FolderIds) /\ r2.id = Fresh(SessionIds)
      OBVIOUS
    <3>3. \/ /\ p \in DOMAIN dirs /\ FolderIds \ used # {} /\ dirs' = [dirs EXCEPT ![p] = r1] /\ files' = files
          \/ /\ p \in DOMAIN files /\ SessionIds \ used # {} /\ files' = [files EXCEPT ![p] = r2] /\ dirs' = dirs
      BY <3>1
    <3>. HIDE DEF r1, r2
    <3>. QED
      BY <3>1, <3>2, <3>3
  <2>3. /\ \A d \in DOMAIN dirs : dirs[d].id \in used \union {None}
        /\ \A f \in DOMAIN files : files[f].id \in used \union {None}
    BY DEF TypeInv, TreeOf
  <2>4. None \notin FolderIds /\ None \notin SessionIds
    BY StoreAssumption DEF StoreAssumption
  <2>5. CASE p \in DOMAIN dirs /\ FolderIds \ used # {} /\ files' = files
             /\ \E rec : rec.id = Fresh(FolderIds) /\ dirs' = [dirs EXCEPT ![p] = rec]
    <3>1. PICK rec : rec.id = Fresh(FolderIds) /\ dirs' = [dirs EXCEPT ![p] = rec]
      BY <2>5
    <3>2. rec.id \in FolderIds /\ rec.id \notin used
      BY <2>5, <3>1, FreshIs
    <3>3. /\ DOMAIN dirs' = DOMAIN dirs /\ dirs'[p] = rec
          /\ \A d \in DOMAIN dirs : d # p => dirs'[d] = dirs[d]
      BY <2>5, <3>1
    <3>4. \A d \in DOMAIN dirs : d # p => dirs'[d].id # rec.id
      BY <2>3, <2>4, <3>2, <3>3
    <3>. QED
      BY <2>1, <2>5, <3>3, <3>4 DEF OneId
  <2>6. CASE p \in DOMAIN files /\ SessionIds \ used # {} /\ dirs' = dirs
             /\ \E rec : rec.id = Fresh(SessionIds) /\ files' = [files EXCEPT ![p] = rec]
    <3>1. PICK rec : rec.id = Fresh(SessionIds) /\ files' = [files EXCEPT ![p] = rec]
      BY <2>6
    <3>2. rec.id \in SessionIds /\ rec.id \notin used
      BY <2>6, <3>1, FreshIs
    <3>3. /\ DOMAIN files' = DOMAIN files /\ files'[p] = rec
          /\ \A f \in DOMAIN files : f # p => files'[f] = files[f]
      BY <2>6, <3>1
    <3>4. \A f \in DOMAIN files : f # p => files'[f].id # rec.id
      BY <2>3, <2>4, <3>2, <3>3
    <3>. QED
      BY <2>1, <2>6, <3>3, <3>4 DEF OneId
  <2>. QED
    BY <2>2, <2>5, <2>6
<1>. QED
  BY <1>1, <1>2, <1>3, <1>4 DEF OneIdInv

\* A walk that meets no doubled id builds the index that matches the disk.
LEMMA EndReloadHolds ==
    ASSUME TypeInv, OneIdInv, Doing("reload"), NEW met, NEW ok \in BOOLEAN, EndReload(met, ok), cut' = cut,
           ok => met = Entries /\ Doubled \union Unnamed = {}
    PROVE  PlanInv' /\ CurrentInv' /\ OneIdInv'
<1>1. todo' = <<>> /\ dirs' = dirs /\ files' = files
  BY DEF EndReload, disk
<1>2. CurrentInv'
  <2>. SUFFICES ASSUME status' = "up", synced' PROVE Matches(dirs', files', folders', sessions')
    BY DEF CurrentInv
  <2>1. ok /\ folders' = FolderIndex(met) /\ sessions' = SessionIndex(met)
    BY DEF EndReload
  <2>. QED
    BY <1>1, <2>1, ReloadMatches
<1>3. OneIdInv'
  BY <1>1, OneIdNow DEF OneIdInv, Doing
<1>. QED
  BY <1>1, <1>2, <1>3 DEF PlanInv

\* A whole walk leaves the two in step; one that stops says that they are not.
LEMMA DoReloadHolds ==
    ASSUME TypeInv, OneIdInv, DoReload PROVE PlanInv' /\ CurrentInv' /\ OneIdInv'
<1>1. Doing("reload") /\ cut' = cut
  BY DEF DoReload
<1>2. CASE Doubled \union Unnamed = {} /\ EndReload(Entries, TRUE)
  BY <1>1, <1>2, EndReloadHolds
<1>3. CASE \E p \in Doubled \intersect Reached : EndReload(MetBefore(p), FALSE)
  BY <1>1, <1>3, EndReloadHolds
<1>. QED
  BY <1>2, <1>3 DEF DoReload

LEMMA FailReloadHolds ==
    ASSUME TypeInv, OneIdInv, FailReload PROVE PlanInv' /\ CurrentInv' /\ OneIdInv'
<1>1. Doing("reload") /\ cut' = cut /\ \E met : EndReload(met, FALSE)
  BY DEF FailReload
<1>. QED
  BY <1>1, EndReloadHolds

\* A failure, a crash or a file made by hand.
LEMMA FaultsHold ==
    ASSUME TypeInv, PlanInv, CurrentInv, OneIdInv
    PROVE  /\ Fail \/ Crash \/ Open => PlanInv' /\ CurrentInv' /\ OneIdInv'
           /\ \A d \in DOMAIN dirs, name \in SessionNames :
                 AddByHand(d, name) => PlanInv' /\ CurrentInv' /\ OneIdInv'
<1>1. ASSUME Fail PROVE PlanInv' /\ CurrentInv' /\ OneIdInv'
  <2>1. /\ todo' = <<>> /\ dirs' = dirs /\ files' = files /\ folders' = folders /\ sessions' = sessions
        /\ status' = status /\ synced' = (synced /\ ~touched) /\ cut' = (cut \/ CutsRename)
    BY <1>1 DEF Fail, disk, index
  <2>2. CurrentInv'
    BY <2>1 DEF CurrentInv
  <2>3. OneIdInv'
    BY <2>1 DEF OneIdInv
  <2>. QED
    BY <2>1, <2>2, <2>3 DEF PlanInv
<1>2. ASSUME Crash PROVE PlanInv' /\ CurrentInv' /\ OneIdInv'
  <2>1. /\ todo' = <<>> /\ dirs' = dirs /\ files' = files /\ status' = "down" /\ cut' = (cut \/ CutsRename)
    BY <1>2 DEF Crash, disk
  <2>. QED
    BY <2>1 DEF PlanInv, CurrentInv, OneIdInv
<1>3. ASSUME Open PROVE PlanInv' /\ CurrentInv' /\ OneIdInv'
  <2>1. /\ todo' = <<Reload>> /\ dirs' = dirs /\ files' = files /\ status' = "opening" /\ cut' = cut /\ todo = <<>>
    BY <1>3 DEF Open, disk, TypeInv, StatusInv
  <2>2. Left1("reload")'
    <3>1. Reload.do = "reload"
      BY DEF Reload, Step
    <3>. HIDE DEF Reload
    <3>. QED
      BY <2>1, <3>1 DEF Left1
  <2>3. ~CutsRename
    BY <2>1 DEF CutsRename, Doing
  <2>4. OneIdInv'
    BY <2>1, <2>3 DEF OneIdInv
  <2>. QED
    BY <2>1, <2>2, <2>4 DEF PlanInv, CurrentInv
<1>4. ASSUME NEW d \in DOMAIN dirs, NEW name \in SessionNames, AddByHand(d, name)
      PROVE  PlanInv' /\ CurrentInv' /\ OneIdInv'
  <2> DEFINE f == FileNamed(d, name)
             new == [id |-> None, name |-> None, rev |-> 0]
  <2>1. /\ todo = <<>> /\ todo' = <<>> /\ dirs' = dirs /\ files' = Bind(files, f, new) /\ status' = status
        /\ synced' = (synced /\ status = "down") /\ cut' = cut
    BY <1>4 DEF AddByHand
  <2>2. new.id = None
    OBVIOUS
  <2>. HIDE DEF f, new
  <2>3. /\ DOMAIN files' = DOMAIN files \union {f} /\ files'[f].id = None
        /\ \A g \in DOMAIN files : g # f => files'[g] = files[g]
    BY <2>1, <2>2 DEF Bind
  <2>4. ~CutsRename
    BY <2>1 DEF CutsRename, Doing
  <2>5. ASSUME ~cut PROVE OneId(dirs') /\ OneId(files')
    BY <2>1, <2>3, <2>4, <2>5 DEF OneIdInv, OneId
  <2>. QED
    BY <2>1, <2>5 DEF PlanInv, CurrentInv, OneIdInv
<1>. QED
  BY <1>1, <1>2, <1>3, <1>4

-----------------------------------------------------------------------------
(* Index and disk stay in step *)

StoreInv == TypeInv /\ PlanInv /\ CurrentInv /\ OneIdInv

LEMMA StoreInit == Init => PlanInv /\ CurrentInv /\ OneIdInv
<1>. SUFFICES ASSUME Init PROVE PlanInv /\ CurrentInv /\ OneIdInv
  OBVIOUS
<1>1. todo = <<>> /\ status = "down" /\ files = Empty /\ DOMAIN dirs = {<<>>}
  BY DEF Init, Bind, Empty
<1>2. OneId(dirs) /\ OneId(files)
  BY <1>1 DEF OneId, Empty
<1>. QED
  BY <1>1, <1>2 DEF PlanInv, CurrentInv, OneIdInv

\* Every step keeps the three invariants.
LEMMA StoreStep == StoreInv /\ [Next]_vars => PlanInv' /\ CurrentInv' /\ OneIdInv'
<1>. SUFFICES ASSUME StoreInv, [Next]_vars PROVE PlanInv' /\ CurrentInv' /\ OneIdInv'
  OBVIOUS
<1>0. TypeInv /\ PlanInv /\ CurrentInv /\ OneIdInv
  BY DEF StoreInv
<1>1. CASE Request
  BY <1>0, <1>1, RequestHolds
<1>2. CASE TakeStep
  BY <1>0, <1>2, DoWriteSessionHolds, DoWriteFolderHolds, DoRemoveHolds, DoRemoveYamlHolds, DoRemoveDirHolds,
     DoMakeDirHolds, DoMoveHolds, DoRememberHolds, DoForgetHolds, HealHolds, DoReloadHolds DEF TakeStep
<1>3. CASE Fail \/ FailReload \/ Crash \/ Open \/ \E d \in DOMAIN dirs, name \in SessionNames : AddByHand(d, name)
  BY <1>0, <1>3, FaultsHold, FailReloadHolds
<1>4. CASE UNCHANGED vars
  <2>1. /\ dirs' = dirs /\ files' = files /\ folders' = folders /\ sessions' = sessions /\ status' = status
        /\ todo' = todo /\ touched' = touched /\ synced' = synced /\ cut' = cut
    BY <1>4 DEF vars, disk, index
  <2>2. PlanInv' = PlanInv
    BY <2>1 DEF PlanInv, Planned, PutLeft3, PutLeft2, RenameLeft, RememberLeft, DeleteLeft, DeleteFolderLeft,
                DeleteDirLeft, ForgetLeft, CreateLeft, MoveLeft, WriteLeft, Left1, Left2, Left3
  <2>3. CurrentInv' /\ OneIdInv'
    BY <1>0, <2>1 DEF CurrentInv, OneIdInv, CutsRename, Doing
  <2>. QED
    BY <1>0, <2>2, <2>3
<1>. QED
  BY <1>1, <1>2, <1>3, <1>4 DEF Next

LEMMA StoreAlways == Spec => []StoreInv
<1>1. Init => StoreInv
  BY TypeInit, StoreInit DEF StoreInv
<1>2. StoreInv /\ [Next]_vars => StoreInv'
  BY TypeStep, StoreStep DEF StoreInv
<1>. QED
  BY <1>1, <1>2, PTL DEF Spec

\* With no operation under way and no failure behind it, the index says what a walk of the disk
\* would say, whichever way it was kept; and, but for a rename cut short, no id is twice on disk.
THEOREM StaysInStep == Spec => []InStep
<1>1. StoreInv => InStep
  <2>. SUFFICES ASSUME StoreInv PROVE InStep
    OBVIOUS
  <2>1. IndexCurrent
    BY MatchesIndex DEF IndexCurrent, Idle, StoreInv, CurrentInv
  <2>2. OpensUnlessCut
    <3>. SUFFICES ASSUME todo = <<>>, ~cut PROVE Doubled = {}
      BY DEF OpensUnlessCut
    <3>1. ~CutsRename
      BY DEF CutsRename, Doing
    <3>. QED
      BY <3>1, NoneDoubled DEF StoreInv, OneIdInv
  <2>. QED
    BY <2>1, <2>2 DEF InStep
<1>. QED
  BY <1>1, StoreAlways, PTL

-----------------------------------------------------------------------------
(* The tree of files is a map *)

\* What a disk has of a session, and the map from ids to it.
Stored(ds, fs, f) == [name |-> fs[f].name, rev |-> fs[f].rev, folder |-> ds[Front(f)].id]

Newest(fs, id) ==
    {f \in DOMAIN fs : fs[f].id = id /\ \A g \in DOMAIN fs : fs[g].id = id => fs[g].rev <= fs[f].rev}

Best(ds, fs, id) == {Stored(ds, fs, f) : f \in Newest(fs, id)}
Ids(fs) == {fs[f].id : f \in DOMAIN fs} \ {None}
OneOf(S) == CHOOSE s \in S : TRUE
KeptOn(ds, fs) == [id \in Ids(fs) |-> OneOf(Best(ds, fs, id))]

\* The sessions on disk, as a function of the disk.
LEMMA KeptIs == Kept = KeptOn(dirs, files)
BY DEF Kept, KeptOn, Ids, OneOf, Best, Stored, Newest, StoredAt, NewestOf

\* Every file of a session on one disk has its like on another.
Carried(ds, fs, es, gs, id) ==
    \A f \in DOMAIN fs : fs[f].id = id =>
        \E g \in DOMAIN gs : gs[g] = fs[f] /\ es[Front(g)].id = ds[Front(f)].id

\* Files that hold the same sessions.
LEMMA BestSame ==
    ASSUME NEW ds, NEW fs, NEW es, NEW gs, NEW id,
           Carried(ds, fs, es, gs, id), Carried(es, gs, ds, fs, id)
    PROVE  Best(ds, fs, id) = Best(es, gs, id)
<1>1. ASSUME NEW d1, NEW f1, NEW d2, NEW f2, Carried(d1, f1, d2, f2, id), Carried(d2, f2, d1, f1, id),
             NEW s \in Best(d1, f1, id)
      PROVE  s \in Best(d2, f2, id)
  <2>1. PICK f \in Newest(f1, id) : s = Stored(d1, f1, f)
    BY DEF Best
  <2>2. f \in DOMAIN f1 /\ f1[f].id = id /\ \A g \in DOMAIN f1 : f1[g].id = id => f1[g].rev <= f1[f].rev
    BY DEF Newest
  <2>3. PICK g \in DOMAIN f2 : f2[g] = f1[f] /\ d2[Front(g)].id = d1[Front(f)].id
    BY <1>1, <2>2 DEF Carried
  <2>4. ASSUME NEW h \in DOMAIN f2, f2[h].id = id PROVE f2[h].rev <= f2[g].rev
    <3>1. PICK k \in DOMAIN f1 : f1[k] = f2[h]
      BY <1>1, <2>4 DEF Carried
    <3>. QED
      BY <2>2, <2>3, <2>4, <3>1
  <2>5. g \in Newest(f2, id)
    BY <2>2, <2>3, <2>4 DEF Newest
  <2>6. s = Stored(d2, f2, g)
    BY <2>1, <2>3 DEF Stored
  <2>. QED
    BY <2>5, <2>6 DEF Best
<1>. QED
  BY <1>1

LEMMA IdsSame ==
    ASSUME NEW ds, NEW fs, NEW es, NEW gs, NEW id, Carried(ds, fs, es, gs, id), id \in Ids(fs)
    PROVE  id \in Ids(gs)
BY DEF Ids, Carried

LEMMA KeptDomain ==
    ASSUME NEW ds, NEW fs
    PROVE  /\ DOMAIN KeptOn(ds, fs) = Ids(fs)
           /\ \A id \in Ids(fs) : KeptOn(ds, fs)[id] = OneOf(Best(ds, fs, id))
BY DEF KeptOn

LEMMA KeptSame ==
    ASSUME NEW ds, NEW fs, NEW es, NEW gs,
           \A id : id # None => Carried(ds, fs, es, gs, id) /\ Carried(es, gs, ds, fs, id)
    PROVE  KeptOn(ds, fs) = KeptOn(es, gs)
<1>1. \A id \in Ids(fs) \union Ids(gs) : id # None
  BY DEF Ids
<1>2. Ids(fs) = Ids(gs)
  BY <1>1, IdsSame
<1>3. \A id \in Ids(fs) : Best(ds, fs, id) = Best(es, gs, id)
  BY <1>1, BestSame
<1>. QED
  BY <1>2, <1>3 DEF KeptOn

\* All but one session are the same on two disks.
OthersCarried(ds, fs, es, gs, id) ==
    \A x : x # None /\ x # id => Carried(ds, fs, es, gs, x) /\ Carried(es, gs, ds, fs, x)

LEMMA KeptOthers ==
    ASSUME NEW ds, NEW fs, NEW es, NEW gs, NEW id, id # None, OthersCarried(ds, fs, es, gs, id)
    PROVE  /\ DOMAIN KeptOn(ds, fs) \ {id} = DOMAIN KeptOn(es, gs) \ {id}
           /\ \A x \in DOMAIN KeptOn(ds, fs) \ {id} : KeptOn(es, gs)[x] = KeptOn(ds, fs)[x]
<1>1. \A x \in Ids(fs) \union Ids(gs) : x # None
  BY DEF Ids
<1>2. Ids(fs) \ {id} = Ids(gs) \ {id}
  BY <1>1, IdsSame DEF OthersCarried
<1>3. \A x \in Ids(fs) \ {id} : Best(ds, fs, x) = Best(es, gs, x)
  BY <1>1, BestSame DEF OthersCarried
<1>. QED
  BY <1>2, <1>3, KeptDomain

\* Disks with the same files, in folders with the same ids.
LEMMA CarriedSame ==
    ASSUME NEW ds, NEW fs, NEW es, NEW gs, NEW id,
           \A f \in DOMAIN fs : fs[f].id = id =>
               f \in DOMAIN gs /\ gs[f] = fs[f] /\ es[Front(f)].id = ds[Front(f)].id,
           \A f \in DOMAIN gs : gs[f].id = id => f \in DOMAIN fs /\ gs[f] = fs[f]
    PROVE  Carried(ds, fs, es, gs, id) /\ Carried(es, gs, ds, fs, id)
BY DEF Carried

-----------------------------------------------------------------------------
(* The steps of the promise *)

Deleting == {id \in SessionIds : \E i \in DOMAIN todo : todo[i] = Forget(id)}
Given == used \intersect SessionIds
Damaged == ~synced \/ Adrift \/ (todo = <<>> /\ Doubled # {})

Promised ==
    \/ Kept' = Kept
    \/ /\ ~Damaged'
       /\ \/ \E put \in Writing : Map!Store(put)
          \/ \E id \in SessionIds : Map!Drop(id) \/ Map!Adopt(id)

\* A step starts no deletion, and one that is not the forgetting itself leaves it under way.
LEMMA DeletingStays ==
    ASSUME TypeInv, todo # <<>>, todo' = Tail(todo)
    PROVE  /\ Deleting' \subseteq Deleting
           /\ Head(todo).do # "forget" => Deleting' = Deleting
<1> DEFINE S == Steps(used)
<1>1. todo \in Seq(S)
  BY DEF TypeInv
<1>. HIDE DEF S
<1>2. /\ Head(todo) = todo[1] /\ Len(todo') = Len(todo) - 1 /\ \A i \in 1..Len(todo') : todo'[i] = todo[i + 1]
      /\ Len(todo) \in Nat /\ DOMAIN todo = 1..Len(todo) /\ DOMAIN todo' = 1..Len(todo')
  BY <1>1, HeadTailProperties
<1>3. \A id : Forget(id).do = "forget"
  BY DEF Forget, Step
<1>4. ASSUME NEW id
      PROVE  /\ (\E i \in DOMAIN todo' : todo'[i] = Forget(id)) => \E i \in DOMAIN todo : todo[i] = Forget(id)
             /\ Head(todo).do # "forget" =>
                   ((\E i \in DOMAIN todo : todo[i] = Forget(id)) => \E i \in DOMAIN todo' : todo'[i] = Forget(id))
  <2> DEFINE F == Forget(id)
  <2>1. F.do = "forget"
    BY <1>3
  <2>. HIDE DEF F
  <2>2. ASSUME Head(todo).do # "forget", NEW i \in DOMAIN todo, todo[i] = F PROVE \E j \in DOMAIN todo' : todo'[j] = F
    <3>1. i # 1
      BY <1>2, <2>1, <2>2
    <3>2. i - 1 \in DOMAIN todo' /\ i - 1 \in Int /\ (i - 1) + 1 = i
      BY <1>2, <3>1
    <3>. QED
      BY <1>2, <2>2, <3>2
  <2>3. ASSUME NEW j \in DOMAIN todo', todo'[j] = F PROVE \E i \in DOMAIN todo : todo[i] = F
    <3>1. j + 1 \in DOMAIN todo /\ todo'[j] = todo[j + 1]
      BY <1>2
    <3>. QED
      BY <2>3, <3>1
  <2>. QED
    BY <2>2, <2>3 DEF F
<1>. QED
  BY <1>4 DEF Deleting

\* As long as nothing is damaged, what is left of an operation is as planned.
LEMMA AsPlanned ==
    ASSUME StoreInv, ~Damaged, todo # <<>>, Head(todo).do # "reload", todo' = Tail(todo)
    PROVE  TypeInv /\ ~cut /\ synced /\ Planned /\ Head(todo) = todo[1]
<1>1. TypeInv /\ PlanInv /\ synced
  BY DEF StoreInv, Damaged
<1>2. Head(todo) = todo[1]
  BY <1>1, TailIs
<1>3. ~Left1("reload")
  BY <1>2 DEF Left1
<1>. QED
  BY <1>1, <1>2, <1>3 DEF PlanInv

\* What is put is newer than what is stored under its id.
Newer ==
    \A put \in Writing :
        put.id \in Given /\ (put.id \in DOMAIN Kept => Kept[put.id].rev < put.session.rev)

\* The session of an id whose newest file is known.
LEMMA KeptAt ==
    ASSUME NEW ds, NEW fs, NEW f \in DOMAIN fs, fs[f].id # None, fs[f].rev \in Nat,
           \A g \in DOMAIN fs : fs[g].id = fs[f].id /\ g # f => fs[g].rev \in Nat /\ fs[g].rev < fs[f].rev
    PROVE  fs[f].id \in Ids(fs) /\ KeptOn(ds, fs)[fs[f].id] = Stored(ds, fs, f)
<1> DEFINE id == fs[f].id
<1>1. id \in Ids(fs)
  BY DEF Ids
<1>2. Newest(fs, id) = {f}
  <2>1. f \in Newest(fs, id)
    BY DEF Newest
  <2>2. \A g \in Newest(fs, id) : g = f
    BY DEF Newest
  <2>. QED
    BY <2>1, <2>2
<1>3. Best(ds, fs, id) = {Stored(ds, fs, f)}
  BY <1>2 DEF Best
<1>4. OneOf(Best(ds, fs, id)) = Stored(ds, fs, f)
  BY <1>3 DEF OneOf
<1>. QED
  BY <1>1, <1>4 DEF KeptOn

LEMMA WritingIs ==
    /\ Doing("writeSession") /\ Accepted =>
          Writing = {[id |-> Head(todo).rec.id,
                      session |-> [name |-> Head(todo).rec.name, rev |-> Head(todo).rec.rev,
                                   folder |-> dirs[Front(Head(todo).at)].id]]}
    /\ ~Doing("writeSession") => Writing = {}
BY DEF Writing

\* Of the files of a session that is put, none is as new.
LEMMA PutIsNewer ==
    ASSUME StoreInv, ~Damaged, Doing("writeSession")
    PROVE  /\ Head(todo) = todo[1] /\ todo[1].rec \in FileRec /\ todo[1].rec.id \in Given
           /\ OneId(files) /\ (PutLeft3 \/ PutLeft2)
           /\ \A f \in DOMAIN files : files[f].rev \in Nat
           /\ \A f \in DOMAIN files : files[f].id = todo[1].rec.id => files[f].rev < todo[1].rec.rev
<1> DEFINE at == todo[1].at
           rec == todo[1].rec
<1>1. TypeInv /\ PlanInv /\ synced /\ todo # <<>> /\ Head(todo).do = "writeSession"
  BY DEF StoreInv, Damaged, Doing
<1>2. Head(todo) \in Steps(used) /\ Head(todo) = todo[1]
  <2> DEFINE S == Steps(used)
  <2>1. todo \in Seq(S) /\ Head(todo) \in S
    BY <1>1, NextStep DEF TypeInv
  <2>. HIDE DEF S
  <2>2. Head(todo) = todo[1]
    BY <1>1, <2>1
  <2>. QED
    BY <2>1, <2>2 DEF S
<1>3. ~cut /\ Planned
  BY <1>1, <1>2 DEF PlanInv, Left1
<1>4. PutLeft3 \/ PutLeft2
  BY <1>1, <1>2, <1>3, FirstOf
<1>5. rec \in FileRec /\ rec.id \in used
  BY <1>1, <1>2 DEF Steps, StepOK
<1>6. OneId(files)
  BY <1>1, <1>3, OneIdNow DEF StoreInv, Doing
<1>7. \A f \in DOMAIN files : files[f].rev \in Nat
  BY <1>1, RevsAre DEF TypeInv, TreeOf, FileRec
<1>8. CASE PutLeft3
  <2> DEFINE old == todo[2].at
             gs == Without(Bind(files, at, rec), {old})
  <2>1. /\ Matches(dirs, gs, folders, Noted(sessions, todo[3].rec)) /\ at # old /\ old \in DOMAIN files
        /\ files[old].id = rec.id /\ files[old].rev < rec.rev
    BY <1>8 DEF PutLeft3
  <2>2. at \in DOMAIN gs /\ gs[at] = rec
    BY <2>1 DEF Without, Restrict, Bind
  <2>. HIDE DEF gs, at, rec, old
  <2>3. rec.id # None
    BY <2>1, <2>2 DEF Matches
  <2>4. ASSUME NEW f \in DOMAIN files, files[f].id = rec.id PROVE f = old
    BY <1>6, <2>1, <2>3, <2>4 DEF OneId
  <2>5. rec.id \in SessionIds
    BY <1>5, <2>3 DEF FileRec, rec
  <2>. QED
    BY <1>2, <1>4, <1>5, <1>6, <1>7, <2>1, <2>4, <2>5 DEF Given, rec
<1>9. CASE PutLeft2
  <2> DEFINE gs == Bind(files, at, rec)
  <2>1. /\ Matches(dirs, gs, folders, Noted(sessions, todo[2].rec))
        /\ at \in DOMAIN files => files[at].rev < rec.rev
    BY <1>9 DEF PutLeft2
  <2>2. /\ at \in DOMAIN gs /\ gs[at] = rec
        /\ \A f \in DOMAIN files : f # at => f \in DOMAIN gs /\ gs[f] = files[f]
    BY DEF Bind
  <2>. HIDE DEF gs, at, rec
  <2>3. rec.id # None /\ OneId(gs)
    BY <2>1, <2>2 DEF Matches
  <2>4. ASSUME NEW f \in DOMAIN files, files[f].id = rec.id PROVE f = at
    BY <2>2, <2>3, <2>4 DEF OneId
  <2>5. rec.id \in SessionIds
    BY <1>5, <2>3 DEF FileRec, rec
  <2>. QED
    BY <1>2, <1>4, <1>5, <1>6, <1>7, <2>1, <2>4, <2>5 DEF Given, rec
<1>. QED
  BY <1>4, <1>8, <1>9

LEMMA WritingNewer == StoreInv /\ ~Damaged => Newer
<1>. SUFFICES ASSUME StoreInv, ~Damaged, NEW put \in Writing
              PROVE  put.id \in Given /\ (put.id \in DOMAIN Kept => Kept[put.id].rev < put.session.rev)
  BY DEF Newer
<1>1. Doing("writeSession") /\ Accepted
  BY DEF Writing
<1> DEFINE rec == todo[1].rec
<1>2. /\ rec.id \in Given /\ OneId(files)
      /\ \A f \in DOMAIN files : files[f].rev \in Nat /\ (files[f].id = rec.id => files[f].rev < rec.rev)
  BY <1>1, PutIsNewer
<1>3. put.id = rec.id /\ put.session.rev = rec.rev
  BY <1>1, WritingIs, PutIsNewer
<1>. HIDE DEF rec
<1>4. ASSUME rec.id \in DOMAIN Kept PROVE Kept[rec.id].rev < rec.rev
  <2>1. Kept = KeptOn(dirs, files) /\ rec.id \in Ids(files)
    BY <1>4, KeptIs, KeptDomain
  <2>2. PICK f \in DOMAIN files : files[f].id = rec.id /\ rec.id # None
    BY <2>1 DEF Ids
  <2>3. \A g \in DOMAIN files : files[g].id = files[f].id => g = f
    BY <1>2, <2>2 DEF OneId
  <2>4. KeptOn(dirs, files)[files[f].id] = Stored(dirs, files, f)
    BY <1>2, <2>2, <2>3, KeptAt
  <2>. QED
    BY <1>2, <2>1, <2>2, <2>4 DEF Stored
<1>. QED
  BY <1>2, <1>3, <1>4

\* No operation begins before another has ended, and none puts a session but with its first step.
LEMMA OneAtATime ==
    /\ StoreInv /\ ~Damaged /\ Next /\ todo # <<>> => Writing' = {} /\ Deleting' \subseteq Deleting
    /\ todo = <<>> => Writing = {} /\ Deleting = {}
<1>1. ASSUME StoreInv, ~Damaged, Next, todo # <<>> PROVE Writing' = {} /\ Deleting' \subseteq Deleting
  <2>1. TypeInv
    BY <1>1 DEF StoreInv
  <2>2. CASE todo' = <<>>
    BY <2>2 DEF Writing, Deleting, Doing
  <2>3. CASE todo' = todo /\ Doing("reload")
    BY <2>3 DEF Writing, Deleting, Doing
  <2>4. CASE todo' = <<Reload>>
    <3>1. todo' # <<>> /\ Head(todo') = Reload /\ DOMAIN todo' = {1} /\ todo'[1] = Reload
      BY <2>4
    <3>2. Reload.do = "reload" /\ \A id : Forget(id).do = "forget"
      BY DEF Reload, Forget, Step
    <3>. QED
      BY <3>1, <3>2 DEF Writing, Deleting, Doing
  <2>5. CASE todo' = Tail(todo) /\ Head(todo).do # "reload"
    <3>1. Planned
      BY <1>1, <2>5, AsPlanned
    <3>2. (todo' = <<>>) \/ (Head(todo') = todo[2] /\ todo[2].do # "writeSession")
      <4>1. Len(todo) = 1 \/ (Len(todo) \in {2, 3} /\ todo[2].do # "writeSession")
        BY <3>1 DEF Planned, PutLeft3, PutLeft2, RenameLeft, RememberLeft, DeleteLeft, DeleteFolderLeft,
                    DeleteDirLeft, ForgetLeft, CreateLeft, MoveLeft, WriteLeft, Left1, Left2, Left3
      <4>. QED
        BY <1>1, <2>1, <2>5, <4>1, TailIs
    <3>3. Writing' = {}
      BY <3>2 DEF Writing, Doing
    <3>4. Deleting' \subseteq Deleting
      BY <1>1, <2>1, <2>5, DeletingStays
    <3>. QED
      BY <3>3, <3>4
  <2>6. \/ todo' = <<>> \/ todo' = <<Reload>>
        \/ todo' = todo /\ Doing("reload")
        \/ todo' = Tail(todo) /\ Head(todo).do # "reload"
    <3>1. CASE TakeStep
      BY <3>1 DEF TakeStep, DoWriteSession, DoWriteFolder, DoRemove, DoRemoveYaml, DoRemoveDir, DoMakeDir,
                  DoMove, DoRemember, DoForget, Heal, DoReload, EndReload, Doing, Done
    <3>2. ~Request
      <4>1. \A steps : ~Plan(steps) /\ ~Start(steps)
        BY <1>1 DEF Plan, Start, Idle
      <4>. QED
        BY <4>1 DEF Request, PutNew, PutKnown, PutGone, PutRoot, CreateFolder, UpdateFolder, DeleteSession,
                    DeleteFolder, SetFolderSource, ClearFolderSource, LoadAll
    <3>3. CASE Fail \/ FailReload \/ Crash \/ Open \/ \E d \in DOMAIN dirs, name \in SessionNames : AddByHand(d, name)
      BY <1>1, <3>3 DEF Fail, FailReload, EndReload, Crash, Open, AddByHand
    <3>. QED
      BY <1>1, <3>1, <3>2, <3>3 DEF Next
  <2>. QED
    BY <2>2, <2>3, <2>4, <2>5, <2>6
<1>2. ASSUME todo = <<>> PROVE Writing = {} /\ Deleting = {}
  BY <1>2 DEF Writing, Deleting, Doing
<1>. QED
  BY <1>1, <1>2

\* Ids are not taken back.
LEMMA UsedGrows == Next => used \subseteq used'
<1>1. CASE Request
  BY <1>1 DEF Request, PutNew, PutKnown, PutGone, PutRoot, CreateFolder, UpdateFolder, DeleteSession,
              DeleteFolder, SetFolderSource, ClearFolderSource, LoadAll
<1>2. CASE TakeStep
  BY <1>2 DEF TakeStep, DoWriteSession, DoWriteFolder, DoRemove, DoRemoveYaml, DoRemoveDir, DoMakeDir,
              DoMove, DoRemember, DoForget, Heal, DoReload, EndReload, Done
<1>3. CASE Fail \/ FailReload \/ Crash \/ Open \/ \E d \in DOMAIN dirs, name \in SessionNames : AddByHand(d, name)
  BY <1>3 DEF Fail, FailReload, EndReload, Crash, Open, AddByHand
<1>. QED
  BY <1>1, <1>2, <1>3 DEF Next

\* What has to be shown of a step, with the disk undamaged.
LEMMA PromisedSteps ==
    StoreInv /\ StoreInv' /\ Next /\ (~Damaged => Promised) => Map!Next
<1>. SUFFICES ASSUME StoreInv, StoreInv', Next, ~Damaged => Promised PROVE Map!Next
  OBVIOUS
<1>0. Given \subseteq Given'
  BY UsedGrows DEF Given
<1>. USE DEF Map!Next
<1>1. CASE Damaged
  BY <1>0, <1>1 DEF Damaged, Given
<1>2. CASE ~Damaged /\ Damaged' /\ Kept' = Kept
  BY <1>0, <1>2 DEF Damaged, Given
<1>3. CASE ~Damaged /\ ~Damaged' /\ Kept' = Kept
  <2>1. CASE todo = <<>>
    <3>1. Writing = {} /\ Deleting = {} /\ Deleting' \in SUBSET SessionIds
      BY <2>1, OneAtATime DEF Deleting
    <3>2. Newer'
      <4>1. (StoreInv /\ ~Damaged => Newer)'
        BY WritingNewer, PTL
      <4>. QED
        BY <1>3, <4>1
    <3>3. Map!Begin
      BY <1>3, <3>1, <3>2 DEF Map!Begin, Deleting, Newer, Given
    <3>. QED
      BY <1>0, <1>3, <3>3 DEF Damaged, Given
  <2>2. CASE todo # <<>>
    <3>1. Writing' = {} /\ Deleting' \subseteq Deleting
      BY <1>3, <2>2, OneAtATime
    <3>2. Map!End
      BY <1>3, <3>1 DEF Map!End, Deleting
    <3>. QED
      BY <1>0, <1>3, <3>2 DEF Damaged, Given
  <2>. QED
    BY <2>1, <2>2
<1>4. CASE /\ ~Damaged /\ ~Damaged'
           /\ \/ \E put \in Writing : Map!Store(put)
              \/ \E id \in SessionIds : Map!Drop(id) \/ Map!Adopt(id)
  BY <1>0, <1>4 DEF Damaged, Given
<1>. QED
  BY <1>1, <1>2, <1>3, <1>4 DEF Promised

\* A step that leaves the disk alone leaves the map alone.
LEMMA DiskSame == dirs' = dirs /\ files' = files => Promised
BY KeptIs DEF Promised, Kept, StoredAt, NewestOf

\* So does one that changes neither a named file nor the id of a folder with such a file.
LEMMA FilesSame ==
    ASSUME \A f \in DOMAIN files : files[f].id # None =>
               f \in DOMAIN files' /\ files'[f] = files[f] /\ dirs'[Front(f)].id = dirs[Front(f)].id,
           \A f \in DOMAIN files' : files'[f].id # None => f \in DOMAIN files /\ files'[f] = files[f]
    PROVE  Promised
<1>1. \A id : id # None => Carried(dirs, files, dirs', files', id) /\ Carried(dirs', files', dirs, files, id)
  BY CarriedSame
<1>2. KeptOn(dirs, files) = KeptOn(dirs', files')
  BY <1>1, KeptSame
<1>3. Kept = KeptOn(dirs, files) /\ Kept' = KeptOn(dirs', files')
  <2>1. Kept = KeptOn(dirs, files)
    BY KeptIs
  <2>2. (Kept = KeptOn(dirs, files))'
    BY KeptIs, PTL
  <2>. QED
    BY <2>1, <2>2
<1>. QED
  BY <1>2, <1>3 DEF Promised

LEMMA KeptAre == Kept = KeptOn(dirs, files) /\ Kept' = KeptOn(dirs', files')
<1>1. (Kept = KeptOn(dirs, files))'
  BY KeptIs, PTL
<1>. QED
  BY <1>1, KeptIs

\* All but one session are as before.
LEMMA OthersKept ==
    ASSUME NEW id, id # None,
           \A x : x # None /\ x # id =>
               Carried(dirs, files, dirs', files', x) /\ Carried(dirs', files', dirs, files, x)
    PROVE  /\ DOMAIN Kept \ {id} = DOMAIN Kept' \ {id}
           /\ \A x \in DOMAIN Kept \ {id} : Kept'[x] = Kept[x]
<1>1. /\ DOMAIN KeptOn(dirs, files) \ {id} = DOMAIN KeptOn(dirs', files') \ {id}
      /\ \A x \in DOMAIN KeptOn(dirs, files) \ {id} : KeptOn(dirs', files')[x] = KeptOn(dirs, files)[x]
  <2>1. OthersCarried(dirs, files, dirs', files', id)
    BY DEF OthersCarried
  <2>. QED
    BY <2>1, KeptOthers
<1>. QED
  BY <1>1, KeptAre

\* One session is written, or made by hand.
LEMMA GainsIs ==
    ASSUME NEW id \in SessionIds, id \in Ids(files'),
           \A x : x # None /\ x # id =>
               Carried(dirs, files, dirs', files', x) /\ Carried(dirs', files', dirs, files, x)
    PROVE  Map!Gains(id)
<1>1. id # None
  BY StoreAssumption DEF StoreAssumption
<1>2. /\ DOMAIN Kept \ {id} = DOMAIN Kept' \ {id}
      /\ \A x \in DOMAIN Kept \ {id} : Kept'[x] = Kept[x]
  BY <1>1, OthersKept
<1>3. id \in DOMAIN Kept'
  BY KeptAre, KeptDomain
<1>4. DOMAIN Kept' = DOMAIN Kept \union {id}
  BY <1>2, <1>3
<1>. QED
  BY <1>2, <1>4 DEF Map!Gains

\* One session whose deletion is under way goes.
LEMMA DropIs ==
    ASSUME NEW id \in SessionIds, id \in Deleting, id \in Ids(files), id \notin Ids(files'),
           ~Damaged', Deleting' = Deleting, Writing' = Writing, used' = used,
           \A x : x # None /\ x # id =>
               Carried(dirs, files, dirs', files', x) /\ Carried(dirs', files', dirs, files, x)
    PROVE  Promised
<1>1. id # None
  BY StoreAssumption DEF StoreAssumption
<1>2. /\ DOMAIN Kept \ {id} = DOMAIN Kept' \ {id}
      /\ \A x \in DOMAIN Kept \ {id} : Kept'[x] = Kept[x]
  BY <1>1, OthersKept
<1>3. id \in DOMAIN Kept /\ id \notin DOMAIN Kept'
  BY KeptAre, KeptDomain
<1>4. DOMAIN Kept' = DOMAIN Kept \ {id} /\ \A x \in DOMAIN Kept' : Kept'[x] = Kept[x]
  BY <1>2, <1>3
<1>5. Map!Drop(id)
  BY <1>3, <1>4 DEF Map!Drop, Deleting
<1>. QED
  BY <1>5 DEF Promised

LEMMA FoldersOf ==
    ASSUME TypeInv PROVE \A f \in DOMAIN files : Front(f) \in DOMAIN dirs /\ f \in Path /\ f \in FilePath /\ f # <<>>
<1>1. TreeOf(dirs, files, used)
  BY DEF TypeInv
<1>2. ASSUME NEW f \in DOMAIN files PROVE f \in FilePath /\ f # <<>>
  BY <1>1 DEF TreeOf, FilePath
<1>3. ASSUME NEW f \in DOMAIN files PROVE f \in Path /\ Front(f) \in DOMAIN dirs
  <2>1. f \in DOMAIN dirs \union DOMAIN files /\ f # <<>>
    BY <1>2
  <2>. QED
    BY <1>1, <2>1, FrontIn
<1>. QED
  BY <1>2, <1>3

LEMMA DoWriteSessionPromised == ASSUME StoreInv, ~Damaged, DoWriteSession PROVE Promised
<1> DEFINE at == todo[1].at
           rec == todo[1].rec
<1>1. /\ todo # <<>> /\ Head(todo).do = "writeSession" /\ todo' = Tail(todo) /\ synced' = synced
      /\ files' = Bind(files, Head(todo).at, Head(todo).rec) /\ dirs' = dirs /\ Doing("writeSession")
      /\ Front(Head(todo).at) \in DOMAIN dirs
  BY DEF DoWriteSession, Doing, Done, Accepted
<1>2. TypeInv /\ synced /\ Planned /\ Head(todo) = todo[1]
  BY <1>1, AsPlanned
<1>3. PutLeft3 \/ PutLeft2
  BY <1>1, <1>2, FirstOf
<1>4. /\ DOMAIN files' = DOMAIN files \union {at} /\ files'[at] = rec /\ Front(at) \in DOMAIN dirs
      /\ \A f \in DOMAIN files : f # at => files'[f] = files[f]
  BY <1>1, <1>2 DEF Bind
<1>5. at \in DOMAIN files => files[at].id = rec.id
  BY <1>3 DEF PutLeft3, PutLeft2
<1>6. (\A d \in DOMAIN dirs : dirs[d].id # None) /\ rec.id # None
  <2>1. CASE PutLeft3
    <3> DEFINE gs == Without(Bind(files, at, rec), {todo[2].at})
    <3>1. Matches(dirs, gs, folders, Noted(sessions, todo[3].rec)) /\ at # todo[2].at
      BY <2>1 DEF PutLeft3
    <3>2. at \in DOMAIN gs /\ gs[at] = rec
      BY <3>1 DEF Without, Restrict, Bind
    <3>. HIDE DEF gs, at, rec
    <3>. QED
      BY <3>1, <3>2 DEF Matches
  <2>2. CASE PutLeft2
    <3>1. Matches(dirs, files', folders, Noted(sessions, todo[2].rec))
      BY <1>1, <1>2, <2>2 DEF PutLeft2
    <3>. QED
      BY <1>4, <3>1 DEF Matches
  <2>. QED
    BY <1>3, <2>1, <2>2
<1>7. rec.id \in SessionIds
  <2>1. Head(todo) \in Steps(used)
    BY <1>1, <1>2, NextStep
  <2>2. rec \in FileRec
    BY <1>1, <1>2, <2>1 DEF Steps, StepOK
  <2>. QED
    BY <1>6, <2>2 DEF FileRec
<1>8. todo' # <<>>
  <2>1. Len(todo) # 1
    BY <1>3 DEF PutLeft3, PutLeft2, Left3, Left2
  <2>. QED
    BY <1>1, <1>2, <2>1, TailIs
<1>9. Deleting' = Deleting
  BY <1>1, <1>2, DeletingStays
<1>13. /\ OneId(files) /\ rec.rev \in Nat
       /\ \A f \in DOMAIN files : files[f].rev \in Nat /\ (files[f].id = rec.id => files[f].rev < rec.rev)
  <2>1. rec \in FileRec
    BY <1>1, PutIsNewer
  <2>2. rec.rev \in Nat
    BY <2>1, RevsAre DEF FileRec
  <2>. QED
    BY <1>1, <2>2, PutIsNewer
<1>14. Accepted /\ used' = used
  BY DEF DoWriteSession, Done
<1> DEFINE put == [id |-> rec.id, session |-> [name |-> rec.name, rev |-> rec.rev, folder |-> dirs[Front(at)].id]]
<1>15. Writing = {put} /\ put.id = rec.id
       /\ put.session = [name |-> rec.name, rev |-> rec.rev, folder |-> dirs[Front(at)].id]
  BY <1>1, <1>2, <1>14, WritingIs
<1>16. Writing' = {}
  BY <1>1, OneAtATime DEF Next, TakeStep
<1>. HIDE DEF at, rec, put
<1>10. ~Damaged'
  <2>1. ~Adrift'
    <3>1. \A f \in DOMAIN files : files[f].id # None => dirs[Front(f)].id # None
      BY DEF Damaged, Adrift
    <3>. QED
      BY <1>1, <1>4, <1>6, <3>1 DEF Adrift
  <2>. QED
    BY <1>1, <1>2, <1>8, <2>1 DEF Damaged
<1>11. rec.id \in Ids(files')
  BY <1>4, <1>6 DEF Ids
<1>12. ASSUME NEW x, x # None, x # rec.id
       PROVE  Carried(dirs, files, dirs', files', x) /\ Carried(dirs', files', dirs, files, x)
  <2>1. \A f \in DOMAIN files : files[f].id = x =>
            f \in DOMAIN files' /\ files'[f] = files[f] /\ dirs'[Front(f)].id = dirs[Front(f)].id
    BY <1>1, <1>4, <1>5, <1>12
  <2>2. \A f \in DOMAIN files' : files'[f].id = x => f \in DOMAIN files /\ files'[f] = files[f]
    BY <1>4, <1>12
  <2>. QED
    BY <2>1, <2>2, CarriedSame
<1>17. Map!Gains(put.id)
  BY <1>7, <1>11, <1>12, <1>15, GainsIs
<1>18. Kept'[put.id] = put.session
  <2>1. files'[at].id = rec.id /\ files'[at].rev \in Nat /\ at \in DOMAIN files'
    BY <1>4, <1>13
  <2>2. \A g \in DOMAIN files' : files'[g].id = rec.id /\ g # at => files'[g].rev \in Nat /\ files'[g].rev < rec.rev
    BY <1>4, <1>13
  <2>3. KeptOn(dirs', files')[files'[at].id] = Stored(dirs', files', at)
    BY <1>4, <1>6, <2>1, <2>2, KeptAt
  <2>4. Stored(dirs', files', at) = put.session
    BY <1>1, <1>4, <1>15 DEF Stored
  <2>. QED
    BY <1>15, <2>1, <2>3, <2>4, KeptAre
<1>19. Map!Store(put)
  BY <1>9, <1>14, <1>15, <1>16, <1>17, <1>18 DEF Map!Store, Deleting
<1>. QED
  BY <1>10, <1>15, <1>19 DEF Promised

\* The former file of a renamed session is the older of the two.
LEMMA RenamePromised ==
    ASSUME TypeInv, RenameLeft, files' = Without(files, {todo[1].at}), dirs' = dirs PROVE Promised
<1> DEFINE at == todo[1].at
           id == files[at].id
<1>1. Matches(dirs, files', folders, Noted(sessions, todo[2].rec)) /\ at \in DOMAIN files
  BY DEF RenameLeft
<1>2. PICK f \in DOMAIN files \ {at} : files[f].id = id /\ files[at].rev < files[f].rev
  BY DEF RenameLeft
<1>3. /\ DOMAIN files' = DOMAIN files \ {at}
      /\ \A g \in DOMAIN files : g # at => files'[g] = files[g]
  BY DEF Without, Restrict
<1>4. \A g \in DOMAIN files : files[g].rev \in Nat
  BY RevsAre DEF TypeInv, TreeOf, FileRec
<1>5. id # None
  BY <1>1, <1>2, <1>3 DEF Matches
<1>6. \A g \in DOMAIN files : g # at /\ files[g].id = id => g = f
  <2>1. OneId(files')
    BY <1>1, StillOneId
  <2>2. f \in DOMAIN files' /\ files'[f].id = id
    BY <1>2, <1>3
  <2>3. ASSUME NEW g \in DOMAIN files, g # at, files[g].id = id PROVE g = f
    <3>1. g \in DOMAIN files' /\ files'[g].id = id
      BY <1>3, <2>3
    <3>. QED
      BY <1>5, <2>1, <2>2, <3>1 DEF OneId
  <2>. QED
    BY <2>3
<1>. HIDE DEF at, id
<1>7. Newest(files, id) = {f}
  <2>1. at \in DOMAIN files /\ ~(files[f].rev <= files[at].rev)
    BY <1>1, <1>2, <1>4
  <2>2. \A g \in DOMAIN files : files[g].id = id => files[g].rev <= files[f].rev
    BY <1>1, <1>2, <1>4, <1>6
  <2>3. f \in Newest(files, id)
    BY <1>2, <2>2 DEF Newest
  <2>4. \A g \in Newest(files, id) : g = f
    BY <1>2, <1>6, <2>1 DEF Newest
  <2>. QED
    BY <2>3, <2>4
<1>8. Newest(files', id) = {f}
  <2>1. f \in DOMAIN files' /\ files'[f] = files[f]
    BY <1>2, <1>3
  <2>2. \A g \in DOMAIN files' : files'[g].id = id => g = f
    BY <1>3, <1>6
  <2>3. files'[f].rev <= files'[f].rev
    BY <1>2, <1>4, <2>1
  <2>4. f \in Newest(files', id)
    BY <1>2, <2>1, <2>2, <2>3 DEF Newest
  <2>5. \A g \in Newest(files', id) : g = f
    BY <2>2 DEF Newest
  <2>. QED
    BY <2>4, <2>5
<1>9. Best(dirs, files, id) = Best(dirs', files', id)
  <2>1. Stored(dirs, files, f) = Stored(dirs', files', f)
    BY <1>2, <1>3 DEF Stored
  <2>. QED
    BY <1>7, <1>8, <2>1 DEF Best
<1>10. ASSUME NEW x, x # None, x # id
       PROVE  Carried(dirs, files, dirs', files', x) /\ Carried(dirs', files', dirs, files, x)
  <2>1. \A g \in DOMAIN files : files[g].id = x =>
            g \in DOMAIN files' /\ files'[g] = files[g] /\ dirs'[Front(g)].id = dirs[Front(g)].id
    BY <1>3, <1>10 DEF id
  <2>2. \A g \in DOMAIN files' : files'[g].id = x => g \in DOMAIN files /\ files'[g] = files[g]
    BY <1>3
  <2>. QED
    BY <2>1, <2>2, CarriedSame
<1>11. KeptOn(dirs, files) = KeptOn(dirs', files')
  <2>1. id \in Ids(files) /\ id \in Ids(files')
    BY <1>2, <1>3, <1>5 DEF Ids
  <2>2. \A x \in Ids(files) \union Ids(files') : x # None
    BY DEF Ids
  <2>3. Ids(files) = Ids(files')
    BY <1>10, <2>1, <2>2, IdsSame
  <2>4. \A x \in Ids(files) : Best(dirs, files, x) = Best(dirs', files', x)
    BY <1>9, <1>10, <2>2, BestSame
  <2>. QED
    BY <2>3, <2>4 DEF KeptOn
<1>. QED
  BY <1>11, KeptAre DEF Promised

LEMMA DoRemovePromised == ASSUME StoreInv, ~Damaged, DoRemove PROVE Promised
<1>1. /\ todo # <<>> /\ Head(todo).do = "remove" /\ todo' = Tail(todo) /\ synced' = synced
      /\ files' = Without(files, {Head(todo).at}) /\ dirs' = dirs /\ Doing("remove")
  BY DEF DoRemove, Doing, Done
<1>2. TypeInv /\ ~cut /\ synced /\ Planned /\ Head(todo) = todo[1]
  BY <1>1, AsPlanned
<1>3. RenameLeft \/ DeleteLeft
  BY <1>1, <1>2, FirstOf
<1>4. CASE RenameLeft
  BY <1>1, <1>2, <1>4, RenamePromised
<1>5. CASE DeleteLeft
  <2> DEFINE at == todo[1].at
             id == files[at].id
  <2>1. /\ Matches(dirs, files', Without(folders, {todo[2].rec}), Without(sessions, {todo[2].rec}))
        /\ at \in DOMAIN files /\ todo[2] = Forget(id) /\ Len(todo) = 2 /\ todo[2].do = "forget"
    BY <1>1, <1>2, <1>5 DEF DeleteLeft, Left2
  <2>2. OneId(files)
    BY <1>1, <1>2, <2>1 DEF StoreInv, OneIdInv, CutsRename
  <2>3. /\ DOMAIN files' = DOMAIN files \ {at}
        /\ \A g \in DOMAIN files : g # at => files'[g] = files[g]
    BY <1>1, <1>2 DEF Without, Restrict
  <2>4. Deleting' = Deleting
    BY <1>1, <1>2, DeletingStays
  <2>9. Writing' = Writing /\ used' = used
    <3>1. Writing = {} /\ Writing' = {}
      BY <1>1, WritingIs, OneAtATime DEF Next, TakeStep, Doing
    <3>. QED
      BY <3>1 DEF DoRemove, Done
  <2>5. ~Damaged'
    <3>1. ~Adrift'
      BY <1>1, <2>3 DEF Damaged, Adrift
    <3>2. todo' # <<>>
      BY <1>1, <1>2, <2>1, TailIs
    <3>. QED
      BY <1>1, <1>2, <3>1, <3>2 DEF Damaged
  <2>6. id \in SessionIds \union {None}
    BY <1>2, <2>1 DEF TypeInv, TreeOf, FileRec
  <2>7. CASE id = None
    <3>1. \A f \in DOMAIN files : files[f].id # None =>
             f \in DOMAIN files' /\ files'[f] = files[f] /\ dirs'[Front(f)].id = dirs[Front(f)].id
      BY <1>1, <2>3, <2>7
    <3>2. \A f \in DOMAIN files' : files'[f].id # None => f \in DOMAIN files /\ files'[f] = files[f]
      BY <2>3
    <3>. QED
      BY <3>1, <3>2, FilesSame
  <2>8. CASE id # None
    <3>1. id \in Deleting
      <4>1. 2 \in DOMAIN todo
        <5>1. todo \in Seq(Steps(used))
          BY <1>2 DEF TypeInv
        <5>2. DOMAIN todo = 1..Len(todo)
          BY <5>1, LenProperties
        <5>. QED
          BY <2>1, <5>2
      <4>. QED
        BY <2>1, <2>6, <2>8, <4>1 DEF Deleting
    <3>2. \A f \in DOMAIN files : files[f].id = id => f = at
      BY <2>1, <2>2, <2>8 DEF OneId
    <3>. HIDE DEF id, at
    <3>3. id \in Ids(files) /\ id \notin Ids(files')
      BY <2>1, <2>3, <2>8, <3>2 DEF Ids, id
    <3>4. ASSUME NEW x, x # None, x # id
          PROVE  Carried(dirs, files, dirs', files', x) /\ Carried(dirs', files', dirs, files, x)
      <4>1. \A g \in DOMAIN files : files[g].id = x =>
                g \in DOMAIN files' /\ files'[g] = files[g] /\ dirs'[Front(g)].id = dirs[Front(g)].id
        BY <1>1, <2>3, <3>4 DEF id
      <4>2. \A g \in DOMAIN files' : files'[g].id = x => g \in DOMAIN files /\ files'[g] = files[g]
        BY <2>3
      <4>. QED
        BY <4>1, <4>2, CarriedSame
    <3>. QED
      BY <2>4, <2>5, <2>6, <2>8, <2>9, <3>1, <3>3, <3>4, DropIs
  <2>. QED
    BY <2>7, <2>8
<1>. QED
  BY <1>3, <1>4, <1>5

\* The steps that change directories leave the sessions on disk as they are.
LEMMA DirsPromised ==
    ASSUME StoreInv, ~Damaged, DoRemoveYaml \/ DoRemoveDir \/ DoMakeDir \/ DoWriteFolder PROVE Promised
<1>0. TypeInv
  BY DEF StoreInv
<1>1. ASSUME files' = files, \A f \in DOMAIN files : dirs'[Front(f)].id = dirs[Front(f)].id PROVE Promised
  BY <1>1, FilesSame
<1>2. ASSUME todo # <<>>, Head(todo).do # "reload", todo' = Tail(todo) PROVE Planned /\ Head(todo) = todo[1]
  BY <1>2, AsPlanned
<1>3. CASE DoRemoveYaml
  <2>1. /\ Doing("removeYaml") /\ todo # <<>> /\ Head(todo).do # "reload" /\ todo' = Tail(todo) /\ files' = files
        /\ dirs' = [d \in DOMAIN dirs |-> IF d = Head(todo).at THEN NoYaml ELSE dirs[d]]
    BY <1>3 DEF DoRemoveYaml, Doing, Done
  <2>2. DeleteFolderLeft /\ Head(todo) = todo[1]
    BY <1>2, <2>1, FirstOf
  <2>3. \A f \in DOMAIN files : Front(f) \in DOMAIN Without(dirs, {todo[1].at})
    BY <2>2 DEF DeleteFolderLeft, Matches
  <2>4. \A f \in DOMAIN files : Front(f) # todo[1].at /\ Front(f) \in DOMAIN dirs
    BY <2>3 DEF Without, Restrict
  <2>. QED
    BY <1>1, <2>1, <2>2, <2>4
<1>4. CASE DoRemoveDir
  <2>1. /\ Doing("removeDir") /\ todo # <<>> /\ Head(todo).do # "reload" /\ todo' = Tail(todo) /\ files' = files
        /\ dirs' = Without(dirs, {Head(todo).at})
    BY <1>4 DEF DoRemoveDir, Doing, Done
  <2>2. DeleteDirLeft /\ Head(todo) = todo[1]
    BY <1>2, <2>1, FirstOf
  <2>3. \A f \in DOMAIN files : Front(f) \in DOMAIN Without(dirs, {todo[1].at})
    BY <2>2 DEF DeleteDirLeft, Matches
  <2>4. \A f \in DOMAIN files : dirs'[Front(f)] = dirs[Front(f)]
    BY <2>1, <2>2, <2>3 DEF Without, Restrict
  <2>. QED
    BY <1>1, <2>1, <2>4
<1>5. CASE DoMakeDir
  <2> DEFINE missing == {SubSeq(Head(todo).at, 1, n) : n \in 1..Len(Head(todo).at)} \ DOMAIN dirs
  <2>1. /\ files' = files
        /\ dirs' = [d \in DOMAIN dirs \union missing |-> IF d \in missing THEN NoYaml ELSE dirs[d]]
    BY <1>5 DEF DoMakeDir
  <2>2. \A d \in DOMAIN dirs : dirs'[d] = dirs[d]
    BY <2>1
  <2>. QED
    BY <1>0, <1>1, <2>1, <2>2, FoldersOf
<1>6. CASE DoWriteFolder
  <2>1. /\ Doing("writeFolder") /\ todo # <<>> /\ Head(todo).do # "reload" /\ todo' = Tail(todo) /\ files' = files
        /\ dirs' = Bind(dirs, Head(todo).at, Head(todo).rec)
    BY <1>6 DEF DoWriteFolder, Doing, Done
  <2>2. WriteLeft /\ Head(todo) = todo[1]
    BY <1>2, <2>1, FirstOf
  <2>3. \A f \in DOMAIN files : Front(f) = todo[1].at => dirs[todo[1].at].id = todo[1].rec.id
    BY <2>2 DEF WriteLeft
  <2>4. dirs'[todo[1].at] = todo[1].rec /\ \A d \in DOMAIN dirs : d # todo[1].at => dirs'[d] = dirs[d]
    BY <2>1, <2>2 DEF Bind
  <2>. QED
    BY <1>0, <1>1, <2>1, <2>3, <2>4, FoldersOf
<1>. QED
  BY <1>3, <1>4, <1>5, <1>6

\* Where a path is after the move of a directory; its directory has moved like it.
Place(from, to, p) == IF IsPrefix(from, p) THEN Under(from, to, p) ELSE p

\* The directory of a file, before and after a move.
LEMMA PlaceFront ==
    ASSUME NEW from \in Path, NEW to \in Path, NEW p \in Path, p # <<>>, p # from
    PROVE  Front(Place(from, to, p)) = Place(from, to, Front(p))
<1>1. /\ Front(p) \in Path /\ IsStrictPrefix(Front(p), p) /\ Len(Front(p)) = Len(p) - 1
      /\ \A i \in 1..Len(p) - 1 : Front(p)[i] = p[i]
      /\ \A q \in Path : IsStrictPrefix(q, p) <=> IsPrefix(q, Front(p))
  BY FrontIs
<1>2. IsPrefix(from, p) <=> IsPrefix(from, Front(p))
  BY <1>1, PrefixTrans
<1>3. CASE ~IsPrefix(from, p)
  BY <1>2, <1>3 DEF Place
<1>4. CASE IsPrefix(from, p)
  <2> DEFINE u == Under(from, to, p)
             v == Under(from, to, Front(p))
  <2>1. /\ Len(p) \in Nat /\ Len(from) \in Nat /\ Len(to) \in Nat /\ Len(from) <= Len(p) - 1
    BY <1>1, <1>2, <1>4, LenIs, PrefixIs
  <2>2. /\ u \in Path /\ Len(u) = Len(to) + Len(p) - Len(from)
        /\ \A i \in 1..Len(to) : u[i] = to[i]
        /\ \A i \in Len(to) + 1..Len(to) + Len(p) - Len(from) : u[i] = p[i - Len(to) + Len(from)]
    BY <1>4, UnderIs
  <2>3. /\ v \in Path /\ Len(v) = Len(to) + Len(Front(p)) - Len(from)
        /\ \A i \in 1..Len(to) : v[i] = to[i]
        /\ \A i \in Len(to) + 1..Len(to) + Len(Front(p)) - Len(from) : v[i] = Front(p)[i - Len(to) + Len(from)]
    <3>1. Front(p) \in Path /\ IsPrefix(from, Front(p))
      BY <1>1, <1>2, <1>4
    <3>. QED
      BY <3>1, UnderIs
  <2>. HIDE DEF u, v
  <2>4. u # <<>>
    BY <2>1, <2>2, EmptySeq
  <2>5. Front(u) \in Path /\ Len(Front(u)) = Len(u) - 1 /\ \A i \in 1..Len(u) - 1 : Front(u)[i] = u[i]
    BY <2>2, <2>4, FrontIs
  <2>6. Len(Front(u)) = Len(v) /\ Len(v) = Len(to) + Len(p) - 1 - Len(from)
    BY <1>1, <2>1, <2>2, <2>3, <2>5
  <2>7. ASSUME NEW i \in 1..Len(v) PROVE Front(u)[i] = v[i]
    <3>1. Front(u)[i] = u[i]
      BY <2>1, <2>2, <2>5, <2>6
    <3>2. CASE i <= Len(to)
      BY <2>1, <2>2, <2>3, <3>1, <3>2
    <3>3. CASE i > Len(to)
      <4>1. i \in Len(to) + 1..Len(to) + Len(Front(p)) - Len(from) /\ i \in Len(to) + 1..Len(to) + Len(p) - Len(from)
            /\ i - Len(to) + Len(from) \in 1..Len(p) - 1
        BY <1>1, <2>1, <2>6, <3>3
      <4>2. u[i] = p[i - Len(to) + Len(from)] /\ v[i] = Front(p)[i - Len(to) + Len(from)]
        BY <2>2, <2>3, <4>1
      <4>. QED
        BY <1>1, <3>1, <4>1, <4>2
    <3>. QED
      BY <2>1, <3>2, <3>3
  <2>8. Front(u) = v
    BY <2>3, <2>5, <2>6, <2>7, SamePath
  <2>. QED
    BY <1>2, <1>4, <2>8 DEF Place, u, v
<1>. QED
  BY <1>3, <1>4

\* To a place that is free everything arrives unchanged.
LEMMA RelocatedAt ==
    ASSUME NEW from \in Path, NEW to \in Path, NEW f, DOMAIN f \subseteq Path,
           \A p \in DOMAIN f : ~IsPrefix(to, p), NEW p \in DOMAIN f
    PROVE  /\ Place(from, to, p) \in DOMAIN Relocated(f, from, to)
           /\ Relocated(f, from, to)[Place(from, to, p)] = f[p]
<1> DEFINE moved == {q \in DOMAIN f : IsPrefix(from, q)}
           places == {Under(from, to, q) : q \in moved}
           g == Relocated(f, from, to)
<1>1. /\ DOMAIN g = (DOMAIN f \ moved) \union places
      /\ \A q \in DOMAIN g : g[q] = IF q \in places THEN f[Under(to, from, q)] ELSE f[q]
  BY DEF Relocated
<1>2. CASE IsPrefix(from, p)
  <2>1. Place(from, to, p) = Under(from, to, p) /\ Under(from, to, p) \in places
    BY <1>2 DEF Place
  <2>2. Under(to, from, Under(from, to, p)) = p
    BY <1>2, UnderBack
  <2>. QED
    BY <1>1, <2>1, <2>2
<1>3. CASE ~IsPrefix(from, p)
  <2>1. Place(from, to, p) = p /\ p \in DOMAIN f \ moved
    BY <1>3 DEF Place
  <2>2. \A q \in moved : IsPrefix(to, Under(from, to, q))
    BY UnderIs
  <2>3. p \notin places
    BY <2>2
  <2>. QED
    BY <1>1, <2>1, <2>3
<1>. QED
  BY <1>2, <1>3

LEMMA DoMovePromised == ASSUME StoreInv, ~Damaged, DoMove PROVE Promised
<1> DEFINE from == Head(todo).at
           to == Head(todo).to
<1>1. /\ todo # <<>> /\ Head(todo).do = "move"
      /\ dirs' = Relocated(dirs, from, to) /\ files' = Relocated(files, from, to)
  BY DEF DoMove, Doing
<1>2. to \notin DOMAIN dirs /\ from \in DOMAIN dirs
  BY DEF DoMove, Accepted, Doing
<1>3. TypeInv
  BY DEF StoreInv
<1>4. Head(todo) \in Steps(used)
  BY <1>1, <1>3, NextStep
<1>5. from \in DirPath /\ to \in DirPath
  BY <1>1, <1>4 DEF Steps, StepOK
<1>6. from \in Path /\ to \in Path /\ DOMAIN dirs \subseteq Path /\ DOMAIN files \subseteq Path
  BY <1>3, <1>5, DirPathIs, TreeApart DEF TypeInv
<1>. HIDE DEF from, to
<1>7. \A p \in DOMAIN dirs \union DOMAIN files : ~IsPrefix(to, p)
  <2>1. to \notin DOMAIN files
    BY <1>3, <1>5, DirNotFile DEF TypeInv, TreeOf
  <2>2. \A p \in DOMAIN dirs \union DOMAIN files : ~IsStrictPrefix(to, p)
    BY <1>2, <1>3, <1>6 DEF TypeInv, TreeOf
  <2>. QED
    BY <1>2, <1>6, <2>1, <2>2, PrefixTrans
<1>8. ASSUME NEW f \in DOMAIN files
      PROVE  /\ Place(from, to, f) \in DOMAIN files' /\ files'[Place(from, to, f)] = files[f]
             /\ dirs'[Front(Place(from, to, f))].id = dirs[Front(f)].id
  <2>1. Place(from, to, f) \in DOMAIN files' /\ files'[Place(from, to, f)] = files[f]
    BY <1>1, <1>6, <1>7, RelocatedAt
  <2>2. f # <<>> /\ Front(f) \in DOMAIN dirs /\ f \in Path
    BY <1>3, FoldersOf
  <2>3. f # from
    BY <1>2, <1>3, TreeApart DEF TypeInv
  <2>4. Front(Place(from, to, f)) = Place(from, to, Front(f))
    BY <1>6, <2>2, <2>3, PlaceFront
  <2>5. dirs'[Place(from, to, Front(f))] = dirs[Front(f)]
    BY <1>1, <1>6, <1>7, <2>2, RelocatedAt
  <2>. QED
    BY <2>1, <2>4, <2>5
<1>9. ASSUME NEW g \in DOMAIN files' PROVE \E f \in DOMAIN files : g = Place(from, to, f)
  <2>1. \/ g \in DOMAIN files /\ ~IsPrefix(from, g)
        \/ \E f \in DOMAIN files : IsPrefix(from, f) /\ g = Under(from, to, f)
    BY <1>1, <1>6, RelocatedIs
  <2>. QED
    BY <2>1 DEF Place
<1>10. ASSUME NEW id PROVE Carried(dirs, files, dirs', files', id) /\ Carried(dirs', files', dirs, files, id)
  <2>1. Carried(dirs, files, dirs', files', id)
    BY <1>8 DEF Carried
  <2>2. ASSUME NEW g \in DOMAIN files'
        PROVE  \E f \in DOMAIN files : files[f] = files'[g] /\ dirs[Front(f)].id = dirs'[Front(g)].id
    <3>1. PICK f \in DOMAIN files : g = Place(from, to, f)
      BY <1>9
    <3>. QED
      BY <1>8, <3>1
  <2>3. Carried(dirs', files', dirs, files, id)
    BY <2>2 DEF Carried
  <2>. QED
    BY <2>1, <2>3
<1>11. KeptOn(dirs, files) = KeptOn(dirs', files')
  BY <1>10, KeptSame
<1>. QED
  BY <1>11, KeptAre DEF Promised

\* A directory is met before what is in it.
LEMMA FrontMet ==
    ASSUME TypeInv, NEW f \in DOMAIN files, f \in Reached PROVE dirs[Front(f)].id # None
<1>1. Front(f) \in DOMAIN dirs /\ f \in Path /\ f # <<>>
  BY FoldersOf
<1>2. IsStrictPrefix(Front(f), f)
  BY <1>1, FrontIs
<1>3. Front(f) \in MetBefore(f)
  BY <1>1, <1>2 DEF MetBefore, Before, Entries
<1>4. Front(f) \notin Unnamed
  BY <1>3 DEF Reached
<1>5. Front(f) \notin DOMAIN files
  BY <1>1, TreeApart DEF TypeInv
<1>. QED
  BY <1>1, <1>4, <1>5 DEF Unnamed, Entries, IdAt

LEMMA HealPromised == ASSUME StoreInv, ~Damaged, Heal PROVE Promised
<1>1. TypeInv /\ todo' = todo /\ todo # <<>> /\ synced' = synced /\ synced
  BY DEF StoreInv, Heal, Doing, Damaged
<1>2. PICK p \in Unnamed \intersect Reached :
         \/ p \in DOMAIN dirs /\ files' = files /\ \A d \in DOMAIN dirs : d # p => dirs'[d] = dirs[d]
         \/ /\ p \in DOMAIN files /\ dirs' = dirs /\ SessionIds \ used # {}
            /\ DOMAIN files' = DOMAIN files /\ files'[p].id = Fresh(SessionIds)
            /\ \A f \in DOMAIN files : f # p => files'[f] = files[f]
            /\ used' = used \union {Fresh(SessionIds)}
  <2>1. PICK p \in Unnamed \intersect Reached :
         LET name == PlainName[p[Len(p)] \div 2]
         IN  \/ /\ p \in DOMAIN dirs
                /\ FolderIds \ used # {}
                /\ dirs' = [dirs EXCEPT ![p] = [id |-> Fresh(FolderIds), name |-> name, src |-> FALSE]]
                /\ used' = used \union {Fresh(FolderIds)}
                /\ UNCHANGED files
             \/ /\ p \in DOMAIN files
                /\ SessionIds \ used # {}
                /\ files' = [files EXCEPT ![p] = [id |-> Fresh(SessionIds), name |-> name, rev |-> 0]]
                /\ used' = used \union {Fresh(SessionIds)}
                /\ UNCHANGED dirs
    BY DEF Heal
  <2> DEFINE r2 == [id |-> Fresh(SessionIds), name |-> PlainName[p[Len(p)] \div 2], rev |-> 0]
  <2>2. r2.id = Fresh(SessionIds)
    OBVIOUS
  <2>3. CASE p \in DOMAIN dirs /\ files' = files /\ \A d \in DOMAIN dirs : d # p => dirs'[d] = dirs[d]
    BY <2>3
  <2>4. CASE /\ p \in DOMAIN files /\ SessionIds \ used # {} /\ files' = [files EXCEPT ![p] = r2] /\ dirs' = dirs
             /\ used' = used \union {Fresh(SessionIds)}
    <3>. HIDE DEF r2
    <3>1. DOMAIN files' = DOMAIN files /\ files'[p] = r2 /\ \A f \in DOMAIN files : f # p => files'[f] = files[f]
      BY <2>4
    <3>. QED
      BY <2>2, <2>4, <3>1
  <2>. QED
    BY <2>1, <2>3, <2>4
<1>3. CASE p \in DOMAIN dirs /\ files' = files /\ \A d \in DOMAIN dirs : d # p => dirs'[d] = dirs[d]
  <2>1. dirs[p].id = None
    BY <1>1, <1>3, TreeApart DEF Unnamed, IdAt, TypeInv
  <2>2. \A f \in DOMAIN files : files[f].id # None => dirs'[Front(f)].id = dirs[Front(f)].id
    BY <1>1, <1>3, <2>1, FoldersOf DEF Damaged, Adrift
  <2>. QED
    BY <1>3, <2>2, FilesSame
<1>4. CASE /\ p \in DOMAIN files /\ dirs' = dirs /\ SessionIds \ used # {}
           /\ DOMAIN files' = DOMAIN files /\ files'[p].id = Fresh(SessionIds)
           /\ \A f \in DOMAIN files : f # p => files'[f] = files[f]
           /\ used' = used \union {Fresh(SessionIds)}
  <2> DEFINE id == Fresh(SessionIds)
  <2>1. id \in SessionIds /\ id \notin used
    BY <1>4, FreshIs
  <2>. HIDE DEF id
  <2>2. files[p].id = None
    BY <1>4 DEF Unnamed, IdAt
  <2>3. id # None
    BY <2>1, StoreAssumption DEF StoreAssumption
  <2>4. id \in Ids(files')
    BY <1>4, <2>3 DEF Ids, id
  <2>5. ~Damaged'
    <3>1. dirs[Front(p)].id # None
      BY <1>1, <1>2, <1>4, FrontMet
    <3>2. ~Adrift'
      BY <1>4, <3>1 DEF Damaged, Adrift
    <3>. QED
      BY <1>1, <3>2 DEF Damaged
  <2>6. Deleting' = Deleting /\ Writing' = Writing
    <3>1. Doing("reload")
      BY DEF Heal
    <3>. QED
      BY <1>1, <3>1, WritingIs, OneAtATime DEF Deleting, Doing, Next, TakeStep
  <2>8. id \notin Given /\ Given' = Given \union {id}
    BY <1>4, <2>1 DEF Given, id
  <2>7. ASSUME NEW x, x # None, x # id
        PROVE  Carried(dirs, files, dirs', files', x) /\ Carried(dirs', files', dirs, files, x)
    <3>1. \A g \in DOMAIN files : files[g].id = x =>
              g \in DOMAIN files' /\ files'[g] = files[g] /\ dirs'[Front(g)].id = dirs[Front(g)].id
      BY <1>4, <2>2, <2>7
    <3>2. \A g \in DOMAIN files' : files'[g].id = x => g \in DOMAIN files /\ files'[g] = files[g]
      BY <1>4, <2>7 DEF id
    <3>. QED
      BY <3>1, <3>2, CarriedSame
  <2>9. Map!Gains(id)
    BY <2>1, <2>4, <2>7, GainsIs
  <2>10. Map!Adopt(id)
    BY <2>6, <2>8, <2>9 DEF Map!Adopt, Deleting, Given
  <2>. QED
    BY <2>1, <2>5, <2>10 DEF Promised
<1>. QED
  BY <1>2, <1>3, <1>4

LEMMA AddByHandPromised ==
    ASSUME NEW d, NEW name, AddByHand(d, name) PROVE Promised
<1> DEFINE f == FileNamed(d, name)
           new == [id |-> None, name |-> None, rev |-> 0]
<1>1. files' = Bind(files, f, new) /\ dirs' = dirs /\ f \notin DOMAIN files
  BY DEF AddByHand
<1>2. new.id = None
  OBVIOUS
<1>. HIDE DEF f, new
<1>3. DOMAIN files' = DOMAIN files \union {f} /\ files'[f].id = None /\ \A g \in DOMAIN files : files'[g] = files[g]
  BY <1>1, <1>2 DEF Bind
<1>. QED
  BY <1>1, <1>3, FilesSame

\* Every step stores the session being put, gives a file made by hand an id, lets a session go
\* whose deletion is under way, or leaves the map alone.
LEMMA StepPromised == ASSUME StoreInv, ~Damaged, Next PROVE Promised
<1>1. CASE Request
  <2>1. dirs' = dirs /\ files' = files
    <3>1. \A steps : Plan(steps) \/ Start(steps) => dirs' = dirs /\ files' = files
      BY DEF Plan, Start, disk
    <3>. QED
      BY <1>1, <3>1 DEF Request, PutNew, PutKnown, PutGone, PutRoot, CreateFolder, UpdateFolder, DeleteSession,
                        DeleteFolder, SetFolderSource, ClearFolderSource, LoadAll
  <2>. QED
    BY <2>1, DiskSame
<1>2. CASE DoRemember \/ DoForget \/ DoReload \/ FailReload \/ Fail \/ Crash \/ Open
  <2>1. dirs' = dirs /\ files' = files
    BY <1>2 DEF DoRemember, DoForget, DoReload, FailReload, EndReload, Fail, Crash, Open, disk
  <2>. QED
    BY <2>1, DiskSame
<1>3. CASE DoWriteSession \/ DoRemove \/ DoRemoveYaml \/ DoRemoveDir \/ DoMakeDir \/ DoWriteFolder \/ DoMove \/ Heal
  BY <1>3, DoWriteSessionPromised, DoRemovePromised, DirsPromised, DoMovePromised, HealPromised
<1>4. CASE \E d \in DOMAIN dirs, name \in SessionNames : AddByHand(d, name)
  BY <1>4, AddByHandPromised
<1>. QED
  BY <1>1, <1>2, <1>3, <1>4 DEF Next, TakeStep

LEMMA PromisedInit == Init => Map!Init
<1>. SUFFICES ASSUME Init PROVE Map!Init
  OBVIOUS
<1>1. files = Empty /\ todo = <<>> /\ synced = TRUE /\ DOMAIN files = {} /\ DOMAIN dirs = {<<>>}
  BY DEF Init, Empty, Bind
<1>2. ~Damaged
  <2>1. ~Adrift
    BY <1>1 DEF Adrift
  <2>2. TypeInv /\ OneId(dirs) /\ OneId(files)
    BY <1>1, TypeInit DEF OneId
  <2>. QED
    BY <1>1, <2>1, <2>2, NoneDoubled DEF Damaged
<1>3. Deleting = {} /\ Writing = {} /\ Given \in SUBSET SessionIds
  BY <1>1, OneAtATime DEF Given
<1>4. DOMAIN Kept = {} /\ Kept \in Map!Maps
  <2> DEFINE M == [name : Names \union {None}, rev : Revs, folder : FolderIds \union {None}]
  <2>1. Kept = [id \in {} |-> OneOf(Best(dirs, files, id))]
    <3>1. Ids(files) = {}
      BY <1>1 DEF Ids
    <3>. QED
      BY <3>1, KeptIs DEF KeptOn
  <2>2. DOMAIN Kept = {} /\ \A S : Kept \in [{} -> S]
    BY <2>1
  <2>3. {} \in SUBSET SessionIds
    OBVIOUS
  <2>. QED
    BY <2>2, <2>3 DEF Map!Maps
<1>. QED
  BY <1>2, <1>3, <1>4 DEF Map!Init, Damaged, Deleting, Given

\* The tree of files keeps the promise of a map (store/store.go:72-85): as long as index and files
\* agree, whatever crashes, fails, moves or is reloaded, a session goes only while its deletion is
\* under way, changes or comes into being only as the one being put, newer than what it replaces,
\* or as a file made by hand that gets an id nothing had before; and all others stay as they are.
THEOREM KeepsMap == Spec => MapKept
<1>1. StoreInv /\ StoreInv' /\ [Next]_vars => [Map!Next]_(Map!vars)
  <2>. SUFFICES ASSUME StoreInv, StoreInv', [Next]_vars PROVE Map!Next \/ UNCHANGED Map!vars
    OBVIOUS
  <2>1. CASE Next
    BY <2>1, StepPromised, PromisedSteps
  <2>2. CASE UNCHANGED vars
    <3>1. /\ dirs' = dirs /\ files' = files /\ todo' = todo /\ used' = used /\ synced' = synced
      BY <2>2 DEF vars, disk
    <3>2. Kept' = Kept /\ Writing' = Writing /\ Deleting' = Deleting /\ Given' = Given /\ Damaged' = Damaged
      <4>1. Kept' = Kept
        BY <3>1, KeptAre
      <4>2. Damaged' = Damaged
        BY <3>1 DEF Damaged, Adrift, Doubled, Entries, IdAt, Before
      <4>3. Writing' = Writing
        BY <3>1 DEF Writing, Doing, Accepted, Entries
      <4>. QED
        BY <3>1, <4>1, <4>2, <4>3 DEF Deleting, Given
    <3>. QED
      BY <3>2 DEF Map!vars, Deleting, Given, Damaged
  <2>. QED
    BY <2>1, <2>2
<1>. QED
  BY <1>1, PromisedInit, StoreAlways, PTL DEF Spec, MapKept, Map!Spec
=============================================================================
