----------------------------- MODULE HostTabsProofs -----------------------------
(***************************************************************************)
(* Proofs about HostTabs and the HostList below it, for any hosts, folders *)
(* and tabs.  The inductive invariant has a part for the list and its      *)
(* saves and a part for the tabs and the session file; every step is a     *)
(* step of each.                                                           *)
(***************************************************************************)
EXTENDS HostTabs, SequenceTheorems, FiniteSetTheorems, TLAPS

\* Every host of a list but those in S is in a folder of the list, or in none.
Held(l, S) == \A h \in Known(l) : h \in S \/ l.connections[h] \in l.folders \cup {Root}

Holding == /\ Held(list, strays) /\ Held(file, strays) /\ Held(loaded, strays)
           /\ \A i \in 1 .. Len(saves) : Held(saves[i].list, strays)

\* The list as it is once the save s, and no other, has ended well.
After(s) == IF Waits(s) THEN Upserted(list, s.for) ELSE list

\* A clean snapshot was taken with no host on its way into the store, and it is what
\* the store will hold unless the store was changed after it.
Right(i) == saves[i].clean =>
              /\ \A j \in 1 .. (i - 1) : ~Waits(saves[j])
              /\ (\A j \in (i + 1) .. Len(saves) : Waits(saves[j])) =>
                    Lasting(saves[i].list) = Lasting(After(saves[i]))

AllRight == \A i \in 1 .. Len(saves) : Right(i)

\* A save that made the file right is the first one, and clean.
Landed == agree /\ written => saves[1].clean /\ file = saves[1].list

\* If the saves that are left all fail, and none of them is of a change that the store
\* has already, the file is still right.
Settled == agree /\ ~written /\ (\A j \in 1 .. Len(saves) : Waits(saves[j])) =>
             Lasting(file) = Lasting(list)

ListInv == ListTypes /\ Holding /\ AllRight /\ Landed /\ Settled

\* The session file focuses a tab it has.
SessionFocus ==
    /\ session.active = None => session.conn = None
    /\ session.active # None => /\ session.active \in ToSet(session.tabs)
                                /\ session.conn = ConnOf(session.active)

TabInv == TabTypes /\ FocusFollowsTheTab /\ SessionFocus /\ IsInjective(session.tabs)

Inv == ListInv /\ TabInv
-----------------------------------------------------------------------------
(* Sequences *)

\* Places are told apart by how many there are up to them.
LEMMA Ranks ==
    ASSUME NEW n \in Nat, NEW K \in SUBSET (1 .. n)
    PROVE  /\ IsFiniteSet(K) /\ Cardinality(K) \in Nat
           /\ \A i \in K : Cardinality({j \in K : j <= i}) \in 1 .. Cardinality(K)
           /\ \A i, k \in K : Cardinality({j \in K : j <= i}) = Cardinality({j \in K : j <= k}) => i = k
           /\ \A m \in 1 .. Cardinality(K) : \E i \in K : Cardinality({j \in K : j <= i}) = m
  <1>. DEFINE Up(i) == {j \in K : j <= i}
              rank == [i \in K |-> Cardinality(Up(i))]
  <1>1. IsFiniteSet(K) /\ Cardinality(K) \in Nat
    <2>1. IsFiniteSet(1 .. n)
      BY FS_Interval
    <2>. QED
      BY <2>1, FS_Subset, FS_CardinalityType
  <1>2. ASSUME NEW i \in K
        PROVE  /\ IsFiniteSet(Up(i)) /\ Cardinality(Up(i)) \in 1 .. Cardinality(K)
    <2>1. IsFiniteSet(Up(i)) /\ Cardinality(Up(i)) <= Cardinality(K) /\ Cardinality(Up(i)) \in Nat
      BY <1>1, FS_Subset, FS_CardinalityType
    <2>2. i \in Up(i)
      OBVIOUS
    <2>3. Cardinality(Up(i)) # 0
      BY <2>1, <2>2, FS_EmptySet
    <2>. QED
      BY <1>1, <2>1, <2>3
  <1>3. ASSUME NEW i \in K, NEW k \in K, i < k
        PROVE  Cardinality(Up(i)) # Cardinality(Up(k))
    <2>0. \A j \in K : j \in Int
      OBVIOUS
    <2>1. Up(i) \in SUBSET Up(k)
      <3> SUFFICES ASSUME NEW j \in K, j <= i PROVE j <= k
        OBVIOUS
      <3>. QED
        BY ONLY <2>0, i \in K, k \in K, j \in K, j <= i, i < k
    <2>3. k \in Up(k) /\ k \notin Up(i)
      BY <1>3, <2>0
    <2>2. IsFiniteSet(Up(k))
      BY <1>2
    <2>. HIDE DEF Up
    <2>. QED
      BY <2>1, <2>2, <2>3, FS_Subset
  <1>4. ASSUME NEW i \in K, NEW k \in K, rank[i] = rank[k]
        PROVE  i = k
    <2>1. Cardinality(Up(i)) = Cardinality(Up(k))
      BY <1>4
    <2>2. i < k \/ k < i \/ i = k
      OBVIOUS
    <2>. HIDE DEF Up
    <2>. QED
      BY <1>3, <2>1, <2>2
  <1>5. rank \in [K -> 1 .. Cardinality(K)]
    BY <1>2
  <1>6. rank \in Injection(K, 1 .. Cardinality(K))
    BY <1>4, <1>5 DEF Injection, IsInjective
  <1>7. IsFiniteSet(1 .. Cardinality(K)) /\ Cardinality(1 .. Cardinality(K)) = Cardinality(K)
    BY <1>1, FS_Interval
  <1>8. rank \in Surjection(K, 1 .. Cardinality(K))
    <2>. HIDE DEF rank
    <2>. QED
      BY <1>1, <1>6, <1>7, FS_Injection
  <1>9. \A m \in 1 .. Cardinality(K) : \E i \in K : rank[i] = m
    BY <1>8 DEF Surjection
  <1>. QED
    BY <1>1, <1>2, <1>4, <1>9

\* What is left of a sequence has the elements of it that are kept, each once if each
\* was there once.
LEMMA OnlyFacts ==
    ASSUME NEW T, NEW s \in Seq(T), NEW S
    PROVE  /\ Only(s, S) \in Seq(T \cap S)
           /\ ToSet(Only(s, S)) = ToSet(s) \cap S
           /\ IsInjective(s) => IsInjective(Only(s, S))
  <1>. DEFINE K == {i \in DOMAIN s : s[i] \in S}
              At(n) == CHOOSE i \in K : Cardinality({j \in K : j <= i}) = n
              r == Only(s, S)
  <1>1. Len(s) \in Nat /\ DOMAIN s = 1 .. Len(s) /\ \A i \in 1 .. Len(s) : s[i] \in T
    BY LenProperties, ElementOfSeq
  <1>2. K \in SUBSET (1 .. Len(s))
    BY <1>1
  <1>3. r = [n \in 1 .. Cardinality(K) |-> s[At(n)]]
    BY DEF Only
  <1>. HIDE DEF K
  <1>4. Cardinality(K) \in Nat
    BY <1>1, <1>2, Ranks
  <1>5. ASSUME NEW n \in 1 .. Cardinality(K)
        PROVE  At(n) \in K /\ Cardinality({j \in K : j <= At(n)}) = n
    <2>1. \A m \in 1 .. Cardinality(K) : \E i \in K : Cardinality({j \in K : j <= i}) = m
      BY <1>1, <1>2, Ranks
    <2>2. \E i \in K : Cardinality({j \in K : j <= i}) = n
      BY <2>1
    <2>. QED
      BY <2>2
  <1>6. ASSUME NEW k \in K
        PROVE  /\ Cardinality({j \in K : j <= k}) \in 1 .. Cardinality(K)
               /\ At(Cardinality({j \in K : j <= k})) = k
    <2>1. Cardinality({j \in K : j <= k}) \in 1 .. Cardinality(K)
      BY <1>1, <1>2, Ranks
    <2>2. \A i, m \in K : Cardinality({j \in K : j <= i}) = Cardinality({j \in K : j <= m}) => i = m
      BY <1>1, <1>2, Ranks
    <2>. QED
      BY <1>5, <2>1, <2>2
  <1>. HIDE DEF At
  <1>7. \A k \in K : s[k] \in T \cap S /\ k \in DOMAIN s
    BY <1>1 DEF K
  <1>8. r \in [1 .. Cardinality(K) -> T \cap S]
    BY <1>3, <1>5, <1>7
  <1>9. r \in Seq(T \cap S) /\ DOMAIN r = 1 .. Cardinality(K)
    BY <1>4, <1>8, SeqDef
  <1>10. ToSet(r) = ToSet(s) \cap S
    <2>1. ASSUME NEW x \in ToSet(r) PROVE x \in ToSet(s) \cap S
      <3>1. PICK n \in 1 .. Cardinality(K) : x = s[At(n)]
        BY <1>3, <2>1 DEF ToSet
      <3>. QED
        BY <3>1, <1>5, <1>7 DEF ToSet
    <2>2. ASSUME NEW x \in ToSet(s) \cap S PROVE x \in ToSet(r)
      <3>1. PICK k \in K : x = s[k]
        BY <2>2 DEF ToSet, K
      <3>2. PICK n \in 1 .. Cardinality(K) : At(n) = k
        BY <1>6
      <3>3. n \in DOMAIN r /\ r[n] = x
        BY <1>3, <1>9, <3>1, <3>2
      <3>. QED
        BY <3>3 DEF ToSet
    <2>. QED
      BY <2>1, <2>2
  <1>11. ASSUME IsInjective(s), NEW m \in DOMAIN r, NEW n \in DOMAIN r, r[m] = r[n]
         PROVE  m = n
    <2>1. /\ m \in 1 .. Cardinality(K) /\ n \in 1 .. Cardinality(K)
          /\ s[At(m)] = s[At(n)]
      BY <1>3, <1>9, <1>11
    <2>2. At(m) = At(n)
      BY <1>5, <1>7, <1>11, <2>1 DEF IsInjective
    <2>. QED
      BY <1>5, <2>1, <2>2
  <1>. QED
    BY <1>9, <1>10, <1>11 DEF IsInjective

\* A tab that is not there yet is appended.
LEMMA AppendFacts ==
    ASSUME NEW T, NEW s \in Seq(T), NEW x \in T
    PROVE  /\ Append(s, x) \in Seq(T) /\ ToSet(Append(s, x)) = ToSet(s) \cup {x}
           /\ IsInjective(s) /\ x \notin ToSet(s) => IsInjective(Append(s, x))
  <1>1. /\ Append(s, x) \in Seq(T) /\ Len(s) \in Nat /\ Len(Append(s, x)) = Len(s) + 1
        /\ DOMAIN s = 1 .. Len(s) /\ DOMAIN Append(s, x) = 1 .. (Len(s) + 1)
        /\ \A i \in 1 .. Len(s) : Append(s, x)[i] = s[i]
        /\ Append(s, x)[Len(s) + 1] = x
    BY AppendProperties, LenProperties
  <1>2. \A i \in 1 .. (Len(s) + 1) : i \in 1 .. Len(s) \/ i = Len(s) + 1
    BY <1>1
  <1>3. ToSet(Append(s, x)) = ToSet(s) \cup {x}
    BY <1>1, <1>2 DEF ToSet
  <1>4. ASSUME IsInjective(s), x \notin ToSet(s) PROVE IsInjective(Append(s, x))
    BY <1>1, <1>2, <1>4 DEF IsInjective, ToSet
  <1>. QED
    BY <1>1, <1>3, <1>4

\* A tab that is dragged to another place is still there, and so are the others.
LEMMA MovedFacts ==
    ASSUME NEW T, NEW s \in Seq(T), NEW i \in DOMAIN s, NEW j \in DOMAIN s
    PROVE  LET r == InsertAt(RemoveAt(s, i), j, s[i])
           IN  /\ r \in Seq(T) /\ ToSet(r) = ToSet(s)
               /\ IsInjective(s) => IsInjective(r)
  <1>. DEFINE n == Len(s)
              a == SubSeq(s, 1, i - 1)
              b == SubSeq(s, i + 1, n)
              q == RemoveAt(s, i)
              c == SubSeq(q, 1, j - 1)
              d == SubSeq(q, j, Len(q))
              r == InsertAt(q, j, s[i])
              Old(m) == IF m = j THEN i
                        ELSE LET k == IF m < j THEN m ELSE m - 1
                             IN  IF k < i THEN k ELSE k + 1
  <1>1. n \in Nat /\ DOMAIN s = 1 .. n /\ i \in 1 .. n /\ j \in 1 .. n /\ s[i] \in T
    BY LenProperties, ElementOfSeq
  <1>2. /\ a \in Seq(T) /\ Len(a) = i - 1 /\ \A m \in 1 .. (i - 1) : a[m] = s[m]
        /\ b \in Seq(T) /\ Len(b) = n - i /\ \A m \in 1 .. (n - i) : b[m] = s[i + m]
    BY SMTT(20), <1>1, SubSeqProperties
  <1>3. /\ q \in Seq(T) /\ Len(q) = n - 1
        /\ \A m \in 1 .. (n - 1) : q[m] = IF m < i THEN s[m] ELSE s[m + 1]
    <2>1. q = a \o b
      BY DEF RemoveAt
    <2>. HIDE DEF a, b, q
    <2>2. /\ a \o b \in Seq(T) /\ Len(a \o b) = Len(a) + Len(b)
          /\ \A m \in 1 .. (Len(a) + Len(b)) :
                (a \o b)[m] = IF m <= Len(a) THEN a[m] ELSE b[m - Len(a)]
      BY <1>2, ConcatProperties
    <2>3. q \in Seq(T) /\ Len(q) = n - 1
      BY <1>1, <1>2, <2>1, <2>2
    <2>4. ASSUME NEW m \in 1 .. (n - 1)
          PROVE  q[m] = IF m < i THEN s[m] ELSE s[m + 1]
      <3>1. q[m] = IF m <= i - 1 THEN a[m] ELSE b[m - (i - 1)]
        BY SMTT(20), <1>1, <1>2, <2>1, <2>2
      <3>2. CASE m < i
        BY <1>1, <1>2, <3>1, <3>2
      <3>3. CASE ~(m < i)
        <4>1. m - (i - 1) \in 1 .. (n - i) /\ i + (m - (i - 1)) = m + 1
          BY <1>1, <3>3
        <4>. QED
          BY <1>1, <1>2, <3>1, <3>3, <4>1
      <3>. QED
        BY <3>2, <3>3
    <2>. QED
      BY <2>3, <2>4
  <1>. HIDE DEF q
  <1>4. /\ c \in Seq(T) /\ Len(c) = j - 1 /\ \A m \in 1 .. (j - 1) : c[m] = q[m]
        /\ d \in Seq(T) /\ Len(d) = n - j /\ \A m \in 1 .. (n - j) : d[m] = q[j - 1 + m]
    BY SMTT(20), <1>1, <1>3, SubSeqProperties
  <1>5. /\ <<s[i]>> \in Seq(T) /\ Len(<<s[i]>>) = 1 /\ <<s[i]>>[1] = s[i]
    BY <1>1
  <1>6. /\ r \in Seq(T) /\ Len(r) = n
        /\ \A m \in 1 .. n : r[m] = IF m < j THEN q[m] ELSE IF m = j THEN s[i] ELSE q[m - 1]
    <2>1. r = (c \o <<s[i]>>) \o d
      BY DEF InsertAt
    <2>. DEFINE e == c \o <<s[i]>>
    <2>. HIDE DEF c, d, r
    <2>2. e \in Seq(T) /\ Len(e) = j /\ e[j] = s[i] /\ \A m \in 1 .. (j - 1) : e[m] = c[m]
      BY <1>1, <1>4, <1>5, ConcatProperties
    <2>. HIDE DEF e
    <2>3. r = e \o d
      BY <2>1 DEF e
    <2>4. /\ e \o d \in Seq(T) /\ Len(e \o d) = Len(e) + Len(d)
          /\ \A m \in 1 .. (Len(e) + Len(d)) :
                (e \o d)[m] = IF m <= Len(e) THEN e[m] ELSE d[m - Len(e)]
      <3>1. d \in Seq(T)
        BY <1>4
      <3>. QED
        BY ONLY <2>2, <3>1, ConcatProperties
    <2>5. r \in Seq(T) /\ Len(r) = n
      BY <1>1, <1>4, <2>2, <2>3, <2>4
    <2>6. ASSUME NEW m \in 1 .. n
          PROVE  r[m] = IF m < j THEN q[m] ELSE IF m = j THEN s[i] ELSE q[m - 1]
      <3>1. r[m] = IF m <= j THEN e[m] ELSE d[m - j]
        BY SMTT(20), <1>1, <1>4, <2>2, <2>3, <2>4
      <3>2. CASE m <= j
        BY <1>1, <1>4, <2>2, <3>1, <3>2
      <3>3. CASE ~(m <= j)
        <4>1. m - j \in 1 .. (n - j) /\ j - 1 + (m - j) = m - 1
          BY <1>1, <3>3
        <4>. QED
          BY <1>1, <1>4, <3>1, <3>3, <4>1
      <3>. QED
        BY <3>2, <3>3
    <2>. QED
      BY <2>5, <2>6
  <1>. HIDE DEF c, d, r
  <1>7. DOMAIN r = 1 .. n
    BY <1>6, LenProperties
  <1>8. /\ \A m \in 1 .. n : Old(m) \in 1 .. n /\ r[m] = s[Old(m)]
        /\ \A l, m \in 1 .. n : Old(l) = Old(m) => l = m
    BY <1>1, <1>3, <1>6
  <1>9. \A k \in 1 .. n : \E m \in 1 .. n : Old(m) = k
    <2> SUFFICES ASSUME NEW k \in 1 .. n PROVE \E m \in 1 .. n : Old(m) = k
      OBVIOUS
    <2>. DEFINE p == IF k < i THEN k ELSE k - 1
                m == IF k = i THEN j ELSE IF p < j THEN p ELSE p + 1
    <2>. QED
      BY <1>1, m \in 1 .. n, Old(m) = k
  <1>. HIDE DEF Old
  <1>10. ToSet(r) = ToSet(s)
    <2>1. ASSUME NEW x \in ToSet(r) PROVE x \in ToSet(s)
      <3>1. PICK m \in 1 .. n : x = r[m]
        BY <1>7 DEF ToSet
      <3>. QED
        BY <1>1, <1>8, <3>1 DEF ToSet
    <2>2. ASSUME NEW x \in ToSet(s) PROVE x \in ToSet(r)
      <3>1. PICK k \in 1 .. n : x = s[k]
        BY <1>1 DEF ToSet
      <3>2. PICK m \in 1 .. n : Old(m) = k
        BY <1>9
      <3>. QED
        BY <1>7, <1>8, <3>1, <3>2 DEF ToSet
    <2>. QED
      BY <2>1, <2>2
  <1>11. IsInjective(s) => IsInjective(r)
    BY <1>1, <1>7, <1>8 DEF IsInjective
  <1>. QED
    BY <1>6, <1>10, <1>11 DEF r, q

-----------------------------------------------------------------------------
(* Lists *)

\* What it is to be a list.
LEMMA ListFacts ==
    ASSUME NEW l \in Lists
    PROVE  /\ Known(l) \subseteq Host /\ l.connections \in [Known(l) -> Folder]
           /\ l.folders \subseteq Path
           /\ l = [connections |-> l.connections, folders |-> l.folders]
  BY DEF Lists, Known

\* And how to make one.
LEMMA IsList ==
    ASSUME NEW S \in SUBSET Host, NEW f \in [S -> Folder], NEW F \in SUBSET Path
    PROVE  /\ [connections |-> f, folders |-> F] \in Lists
           /\ Known([connections |-> f, folders |-> F]) = S
  BY DEF Lists, Known

\* A host that is put into a list brings its folder.
LEMMA UpsertedFacts ==
    ASSUME NEW l \in Lists, NEW c \in Conn
    PROVE  /\ Upserted(l, c) \in Lists /\ Known(Upserted(l, c)) = Known(l) \cup {c.id}
           /\ \A h \in Known(l) \cup {c.id} :
                Upserted(l, c).connections[h] = IF h = c.id THEN c.folder ELSE l.connections[h]
           /\ Upserted(l, c).folders = l.folders \cup ({c.folder} \ {Root})
           /\ \A S : Held(l, S) => Held(Upserted(l, c), S)
  <1>. DEFINE f == [h \in Known(l) \cup {c.id} |-> IF h = c.id THEN c.folder ELSE l.connections[h]]
              F == l.folders \cup ({c.folder} \ {Root})
  <1>1. c.id \in Host /\ c.folder \in Folder
    BY DEF Conn
  <1>2. Known(l) \cup {c.id} \in SUBSET Host
    BY <1>1, ListFacts
  <1>3. f \in [Known(l) \cup {c.id} -> Folder]
    BY <1>1, ListFacts
  <1>4. F \in SUBSET Path
    BY <1>1, ListFacts DEF Folder
  <1>5. Upserted(l, c) = [connections |-> f, folders |-> F]
    BY DEF Upserted, Ensured
  <1>6. Upserted(l, c) \in Lists /\ Known(Upserted(l, c)) = Known(l) \cup {c.id}
    <2>. HIDE DEF f, F
    <2>. QED
      BY <1>2, <1>3, <1>4, <1>5, IsList
  <1>7. Upserted(l, c).connections = f /\ Upserted(l, c).folders = F
    BY <1>5
  <1>8. \A S : Held(l, S) => Held(Upserted(l, c), S)
    BY <1>6, <1>7 DEF Held
  <1>. QED
    BY <1>6, <1>7, <1>8

\* A folder that is deleted lets go of the hosts in it and below it.
LEMMA DeletedFacts ==
    ASSUME NEW l \in Lists, NEW p \in Path
    PROVE  FolderDeleted(l, p) \in Lists /\ (\A S : Held(l, S) => Held(FolderDeleted(l, p), S))
           /\ Known(FolderDeleted(l, p)) = Known(l)
  <1>. DEFINE f == [h \in Known(l) |-> IF Inside(p, l.connections[h]) THEN Root ELSE l.connections[h]]
              F == {q \in l.folders : ~Inside(p, q)}
  <1>1. Known(l) \in SUBSET Host /\ f \in [Known(l) -> Folder] /\ F \in SUBSET Path
    BY ListFacts DEF Folder
  <1>2. FolderDeleted(l, p) = [connections |-> f, folders |-> F]
    BY DEF FolderDeleted
  <1>3. \A S : Held(l, S) => \A h \in Known(l) : h \in S \/ f[h] \in F \cup {Root}
    BY DEF Held
  <1>. HIDE DEF f, F
  <1>4. FolderDeleted(l, p) \in Lists /\ Known(FolderDeleted(l, p)) = Known(l)
    BY <1>1, <1>2, IsList
  <1>. QED
    BY <1>2, <1>3, <1>4 DEF Held

\* No folder is above the root, so that no rename moves a host that is in none.
LEMMA RootStays ==
    ASSUME NEW p \in Path, NEW q
    PROVE  Remapped(Root, p, q) = Root
  <1>1. ~IsPrefix(p, Root)
    <2>1. p \in Seq(ToSet(p)) /\ p # <<>>
      BY HostListAssumption DEF Root
    <2>2. Len(p) \in Nat /\ Len(p) # 0
      BY <2>1, LenProperties, EmptySeq
    <2>. QED
      BY <2>2 DEF IsPrefix, Root
  <1>. QED
    BY <1>1 DEF Remapped, Inside

\* A folder that is renamed takes those below it along, and the hosts.
LEMMA RenamedFacts ==
    ASSUME NEW l \in Lists, NEW p \in Path, NEW q \in Path,
           Fits(FolderRenamed(l, p, q))
    PROVE  FolderRenamed(l, p, q) \in Lists /\ (\A S : Held(l, S) => Held(FolderRenamed(l, p, q), S))
           /\ Known(FolderRenamed(l, p, q)) = Known(l)
  <1>1. CASE p = q \/ q \in l.folders
    BY <1>1 DEF FolderRenamed
  <1>2. CASE ~(p = q \/ q \in l.folders)
    <2>. DEFINE f == [h \in Known(l) |-> Remapped(l.connections[h], p, q)]
                F == {Remapped(r, p, q) : r \in l.folders}
    <2>1. FolderRenamed(l, p, q) = [connections |-> f, folders |-> F]
      BY <1>2 DEF FolderRenamed
    <2>2. F \in SUBSET Path
      <3>. HIDE DEF f, F
      <3>. QED
        BY <2>1 DEF Fits
    <2>3. \A S : Held(l, S) => \A h \in Known(l) : h \in S \/ f[h] \in F \cup {Root}
      BY RootStays DEF Held
    <2>. HIDE DEF F
    <2>4. Known(l) \in SUBSET Host /\ f \in [Known(l) -> Folder]
      <3>. HIDE DEF f
      <3>1. Known(FolderRenamed(l, p, q)) = DOMAIN f /\ \A h \in DOMAIN f : f[h] \in Folder
        BY <2>1 DEF Fits, Known
      <3>2. f = [h \in Known(l) |-> f[h]] /\ DOMAIN f = Known(l)
        BY DEF f
      <3>. QED
        BY <3>1, <3>2, ListFacts
    <2>. HIDE DEF f
    <2>5. FolderRenamed(l, p, q) \in Lists /\ Known(FolderRenamed(l, p, q)) = Known(l)
      BY <2>1, <2>2, <2>4, IsList
    <2>. QED
      BY <2>1, <2>3, <2>5 DEF Held
  <1>. QED
    BY <1>1, <1>2

\* A host that is moved has its new folder there.
LEMMA RefolderedFacts ==
    ASSUME NEW l \in Lists, NEW h \in Known(l), NEW p \in Folder
    PROVE  Refoldered(l, h, p) \in Lists /\ (\A S : Held(l, S) => Held(Refoldered(l, h, p), S))
           /\ Known(Refoldered(l, h, p)) = Known(l)
  <1>. DEFINE f == [l.connections EXCEPT ![h] = p]
              F == l.folders \cup ({p} \ {Root})
  <1>1. /\ Known(l) \in SUBSET Host /\ f \in [Known(l) -> Folder] /\ F \in SUBSET Path
        /\ \A g \in Known(l) : f[g] = IF g = h THEN p ELSE l.connections[g]
    BY ListFacts DEF Folder
  <1>2. Refoldered(l, h, p) = [connections |-> f, folders |-> F]
    BY DEF Refoldered, Ensured
  <1>3. \A S : Held(l, S) => \A g \in Known(l) : g \in S \/ f[g] \in F \cup {Root}
    BY <1>1 DEF Held
  <1>. HIDE DEF f, F
  <1>4. Refoldered(l, h, p) \in Lists /\ Known(Refoldered(l, h, p)) = Known(l)
    BY <1>1, <1>2, IsList
  <1>. QED
    BY <1>2, <1>3, <1>4 DEF Held

\* A folder that is added holds nothing.
LEMMA AddedFacts ==
    ASSUME NEW l \in Lists, NEW p \in Path
    PROVE  LET m == [l EXCEPT !.folders = @ \cup {p}]
           IN  m \in Lists /\ (\A S : Held(l, S) => Held(m, S)) /\ Known(m) = Known(l)
  <1>. DEFINE m == [l EXCEPT !.folders = @ \cup {p}]
              F == l.folders \cup {p}
  <1>1. m = [connections |-> l.connections, folders |-> F]
    <2>1. l = [connections |-> l.connections, folders |-> l.folders]
      BY ListFacts
    <2>. QED
      BY ONLY <2>1
  <1>2. Known(l) \in SUBSET Host /\ l.connections \in [Known(l) -> Folder] /\ F \in SUBSET Path
    BY ListFacts
  <1>3. \A S : Held(l, S) => \A h \in Known(l) : h \in S \/ l.connections[h] \in F \cup {Root}
    BY DEF Held
  <1>. HIDE DEF m, F
  <1>4. m \in Lists /\ Known(m) = Known(l)
    BY <1>1, <1>2, IsList
  <1>5. \A S : Held(l, S) => Held(m, S)
    BY <1>1, <1>3, <1>4 DEF Held
  <1>. QED
    BY <1>4, <1>5 DEF m

\* A host that is deleted leaves its folder.
LEMMA WithoutFacts ==
    ASSUME NEW l \in Lists, NEW h
    PROVE  /\ Without(l, h) \in Lists /\ (\A S : Held(l, S) => Held(Without(l, h), S))
           /\ Known(Without(l, h)) = Known(l) \ {h}
  <1>. DEFINE f == [g \in Known(l) \ {h} |-> l.connections[g]]
  <1>1. Without(l, h) = [connections |-> f, folders |-> l.folders]
    BY ListFacts DEF Without
  <1>2. Known(l) \ {h} \in SUBSET Host /\ f \in [Known(l) \ {h} -> Folder] /\ l.folders \in SUBSET Path
    BY ListFacts
  <1>3. \A S : Held(l, S) => \A g \in Known(l) \ {h} : g \in S \/ f[g] \in l.folders \cup {Root}
    BY DEF Held
  <1>. HIDE DEF f
  <1>4. Without(l, h) \in Lists /\ Known(Without(l, h)) = Known(l) \ {h}
    BY <1>1, <1>2, IsList
  <1>. QED
    BY <1>1, <1>3, <1>4 DEF Held

\* The list without a host.
LEMMA EmptyFacts == Empty \in Lists /\ (\A S : Held(Empty, S)) /\ Known(Empty) = {}
  <1>1. <<>> \in [{} -> Folder]
    BY EmptySeq, SeqDef
  <1>2. Empty \in Lists /\ Known(Empty) = {}
    BY <1>1, IsList DEF Empty
  <1>. QED
    BY <1>2 DEF Held

\* Two lists have the same hosts to save.
LEMMA SameLasting ==
    ASSUME NEW l \in Lists, NEW m \in Lists
    PROVE  Lasting(l) = Lasting(m) <=>
             /\ Known(l) \ Temp = Known(m) \ Temp /\ l.folders = m.folders
             /\ \A h \in Known(l) \ Temp : l.connections[h] = m.connections[h]
  <1>. DEFINE f(k) == [h \in Known(k) \ Temp |-> k.connections[h]]
  <1>1. /\ Lasting(l).connections = f(l) /\ Lasting(l).folders = l.folders
        /\ Lasting(m).connections = f(m) /\ Lasting(m).folders = m.folders
        /\ Lasting(l) = [connections |-> f(l), folders |-> l.folders]
        /\ Lasting(m) = [connections |-> f(m), folders |-> m.folders]
    BY DEF Lasting
  <1>2. DOMAIN f(l) = Known(l) \ Temp /\ DOMAIN f(m) = Known(m) \ Temp
    OBVIOUS
  <1>3. ASSUME Lasting(l) = Lasting(m)
        PROVE  /\ Known(l) \ Temp = Known(m) \ Temp /\ l.folders = m.folders
               /\ \A h \in Known(l) \ Temp : l.connections[h] = m.connections[h]
    <2>1. f(l) = f(m) /\ l.folders = m.folders
      BY <1>1, <1>3
    <2>2. Known(l) \ Temp = Known(m) \ Temp
      BY <1>2, <2>1
    <2>3. ASSUME NEW h \in Known(l) \ Temp PROVE l.connections[h] = m.connections[h]
      <3>1. f(l)[h] = l.connections[h] /\ f(m)[h] = m.connections[h]
        BY <2>2
      <3>. QED
        BY <2>1, <3>1
    <2>. QED
      BY <2>1, <2>2, <2>3
  <1>4. ASSUME Known(l) \ Temp = Known(m) \ Temp, l.folders = m.folders,
               \A h \in Known(l) \ Temp : l.connections[h] = m.connections[h]
        PROVE  Lasting(l) = Lasting(m)
    <2>1. f(l) = f(m)
      BY <1>4
    <2>. QED
      BY <1>1, <1>4, <2>1
  <1>. QED
    BY <1>3, <1>4

\* The same host put into both keeps them so.
LEMMA LastingUpserted ==
    ASSUME NEW l \in Lists, NEW m \in Lists, NEW c \in Conn, Lasting(l) = Lasting(m)
    PROVE  Lasting(Upserted(l, c)) = Lasting(Upserted(m, c))
  <1>. DEFINE a == Upserted(l, c)
              b == Upserted(m, c)
  <1>1. /\ Known(l) \ Temp = Known(m) \ Temp /\ l.folders = m.folders
        /\ \A h \in Known(l) \ Temp : l.connections[h] = m.connections[h]
    BY SameLasting
  <1>2. /\ a \in Lists /\ Known(a) = Known(l) \cup {c.id}
        /\ \A h \in Known(l) \cup {c.id} : a.connections[h] = IF h = c.id THEN c.folder ELSE l.connections[h]
        /\ a.folders = l.folders \cup ({c.folder} \ {Root})
    BY UpsertedFacts
  <1>3. /\ b \in Lists /\ Known(b) = Known(m) \cup {c.id}
        /\ \A h \in Known(m) \cup {c.id} : b.connections[h] = IF h = c.id THEN c.folder ELSE m.connections[h]
        /\ b.folders = m.folders \cup ({c.folder} \ {Root})
    BY UpsertedFacts
  <1>. HIDE DEF a, b
  <1>4. Known(a) \ Temp = Known(b) \ Temp /\ a.folders = b.folders
    BY <1>1, <1>2, <1>3
  <1>5. \A h \in Known(a) \ Temp : a.connections[h] = b.connections[h]
    BY <1>1, <1>2, <1>3, <1>4
  <1>6. Lasting(a) = Lasting(b)
    BY <1>2, <1>3, <1>4, <1>5, SameLasting
  <1>. QED
    BY <1>6 DEF a, b

\* A temporary host is none to save.
LEMMA LastingTemp ==
    ASSUME NEW l \in Lists, NEW c \in Conn, c.id \in Temp, c.folder = Root
    PROVE  Lasting(Upserted(l, c)) = Lasting(l)
  <1>. DEFINE a == Upserted(l, c)
  <1>1. /\ a \in Lists /\ Known(a) = Known(l) \cup {c.id}
        /\ \A h \in Known(l) \cup {c.id} : a.connections[h] = IF h = c.id THEN c.folder ELSE l.connections[h]
        /\ a.folders = l.folders \cup ({c.folder} \ {Root})
    BY UpsertedFacts
  <1>. HIDE DEF a
  <1>2. a.folders = l.folders /\ Known(a) \ Temp = Known(l) \ Temp
    BY <1>1
  <1>3. \A h \in Known(a) \ Temp : a.connections[h] = l.connections[h]
    BY <1>1
  <1>4. Lasting(a) = Lasting(l)
    BY <1>1, <1>2, <1>3, SameLasting
  <1>. QED
    BY <1>4 DEF a

-----------------------------------------------------------------------------
(* The list and its saves *)

SaveCall == [list : Lists, for : Conn \cup {NoConn}, clean : BOOLEAN]

\* What the types of the list say, one by one.
LEMMA ListBasics ==
    ASSUME ListTypes
    PROVE  /\ list \in Lists /\ file \in Lists /\ loaded \in Lists
           /\ saves \in Seq(SaveCall) /\ Len(saves) \in Nat /\ DOMAIN saves = 1 .. Len(saves)
           /\ \A i \in 1 .. Len(saves) :
                /\ saves[i] \in SaveCall /\ saves[i].list \in Lists
                /\ saves[i].for \in Conn \cup {NoConn} /\ saves[i].clean \in BOOLEAN
           /\ written \in BOOLEAN /\ agree \in BOOLEAN /\ strays \subseteq Host
           /\ loading \in {"no", "asked", "read"}
           /\ written => saves # <<>>
           /\ steps \in 0 .. MaxSteps
           /\ saves # <<>> => 1 \in 1 .. Len(saves) /\ Head(saves) = saves[1]
  <1>1. saves \in Seq(SaveCall)
    BY DEF ListTypes, SaveCall
  <1>2. Len(saves) \in Nat /\ DOMAIN saves = 1 .. Len(saves)
    BY <1>1, LenProperties
  <1>3. \A i \in 1 .. Len(saves) : saves[i] \in SaveCall
    BY <1>1, <1>2, ElementOfSeq
  <1>4. saves # <<>> => Len(saves) # 0
    BY <1>1, EmptySeq
  <1>. QED
    BY <1>1, <1>2, <1>3, <1>4 DEF ListTypes, SaveCall

\* An operation is counted.
LEMMA StepCounts ==
    ASSUME ListTypes, Step
    PROVE  steps' \in 0 .. MaxSteps
  BY HostListAssumption DEF ListTypes, Step

\* The call that waits for its save is that of a host.
LEMMA WaitingFor ==
    ASSUME NEW s \in SaveCall
    PROVE  Waits(s) => s.for \in Conn
  BY DEF Waits, SaveCall

\* A host is not none.
LEMMA ConnIsSome ==
    ASSUME NEW c \in Conn
    PROVE  c # NoConn
  <1>1. c.id \in Host /\ NoConn.id = "none"
    BY DEF Conn, NoConn
  <1>. QED
    BY <1>1, HostListAssumption

\* What is appended comes last and leaves the rest where it was.
LEMMA QueuedFacts ==
    ASSUME NEW T, NEW s \in Seq(T), NEW x \in T
    PROVE  /\ Append(s, x) \in Seq(T) /\ Len(s) \in Nat /\ Len(Append(s, x)) = Len(s) + 1
           /\ \A i \in 1 .. Len(s) : Append(s, x)[i] = s[i]
           /\ Append(s, x)[Len(s) + 1] = x
           /\ Append(s, x) # <<>>
  BY AppendProperties, LenProperties

\* A snapshot that joins the saves: of what the store has become, or of what it will
\* be when its caller has been answered.
LEMMA SavingKeeps ==
    ASSUME ListInv, NEW l \in Lists, Held(l, strays), NEW c \in Conn \cup {NoConn}, SaveToMain(l, c),
           steps' \in 0 .. MaxSteps,
           \/ c = NoConn /\ list' = l
           \/ c \in Conn /\ list' = list /\ l = Upserted(list, c)
    PROVE  ListInv'
  <1>. DEFINE n == Len(saves)
              clean == loading = "no" /\ \A i \in DOMAIN saves : ~Waits(saves[i])
              r == [list |-> l, for |-> c, clean |-> clean]
  <1>0. /\ list \in Lists /\ file \in Lists /\ loaded \in Lists /\ saves \in Seq(SaveCall)
        /\ n \in Nat /\ DOMAIN saves = 1 .. n
        /\ written \in BOOLEAN /\ agree \in BOOLEAN /\ strays \subseteq Host
        /\ loading \in {"no", "asked", "read"}
        /\ (written => saves # <<>>) /\ (saves # <<>> => 1 \in 1 .. n)
    BY ListBasics DEF ListInv
  <1>1. r \in SaveCall
    BY DEF SaveCall
  <1>2. saves' = Append(saves, r)
    BY DEF SaveToMain
  <1>3. UNCHANGED <<file, written, loading, loaded, agree, strays>>
    BY DEF SaveToMain
  <1>4. /\ saves' \in Seq(SaveCall) /\ Len(saves') = n + 1 /\ saves'[n + 1] = r /\ saves' # <<>>
        /\ \A i \in 1 .. n : saves'[i] = saves[i]
    BY <1>0, <1>1, <1>2, QueuedFacts
  <1>5. \A i \in 1 .. (n + 1) : i \in 1 .. n \/ i = n + 1
    BY <1>0
  <1>6. list' \in Lists /\ (c # NoConn => list' = list)
    BY <1>0
  <1>7. r.list = l /\ r.for = c /\ (r.clean <=> clean)
    OBVIOUS
  <1>. HIDE DEF r
  <1>8. ListTypes'
    BY <1>0, <1>3, <1>4, <1>6 DEF ListTypes, SaveCall
  <1>9. Holding'
    <2>1. /\ Held(list, strays) /\ Held(file, strays) /\ Held(loaded, strays)
          /\ \A i \in 1 .. n : Held(saves[i].list, strays)
      BY DEF ListInv, Holding
    <2>2. Held(list', strays)
      BY <2>1
    <2>3. \A i \in 1 .. Len(saves') : Held(saves'[i].list, strays)
      BY <1>4, <1>5, <1>7, <2>1
    <2>. QED
      BY <1>3, <2>1, <2>2, <2>3 DEF Holding
  <1>10. AllRight'
    <2>1. ASSUME NEW i \in 1 .. n PROVE Right(i)'
      <3>1. Right(i)
        BY <2>1 DEF ListInv, AllRight
      <3>2. saves'[i] = saves[i] /\ \A j \in 1 .. (i - 1) : saves'[j] = saves[j]
        BY <1>0, <1>4
      <3>3. ASSUME \A j \in (i + 1) .. (n + 1) : Waits(saves'[j])
            PROVE  list' = list /\ \A j \in (i + 1) .. n : Waits(saves[j])
        <4>1. Waits(saves'[n + 1]) /\ \A j \in (i + 1) .. n : Waits(saves'[j]) /\ saves'[j] = saves[j]
          BY <1>0, <1>4, <2>1, <3>3
        <4>. QED
          BY <1>4, <1>6, <1>7, <4>1 DEF Waits
      <3>. QED
        BY <1>4, <3>1, <3>2, <3>3 DEF Right, After
    <2>2. ASSUME NEW i, i = n + 1 PROVE Right(i)'
      <3>1. r.clean => \A j \in 1 .. n : ~Waits(saves'[j])
        BY <1>0, <1>4, <1>7
      <3>2. l = IF Waits(r) THEN Upserted(list', r.for) ELSE list'
        BY <1>7, ConnIsSome DEF Waits
      <3>3. i - 1 = n /\ saves'[i] = r
        BY <1>0, <1>4, <2>2
      <3>4. r.clean => \A j \in 1 .. (i - 1) : ~Waits(saves'[j])
        BY <3>1, <3>3
      <3>. QED
        BY <1>7, <3>2, <3>3, <3>4 DEF Right, After
    <2>3. \A i \in 1 .. Len(saves') : i \in 1 .. n \/ i = n + 1
      BY <1>4, <1>5
    <2>. QED
      BY <2>1, <2>2, <2>3 DEF AllRight
  <1>11. Landed'
    BY <1>0, <1>3, <1>4 DEF ListInv, Landed
  <1>12. Settled'
    <2>1. ASSUME \A j \in 1 .. Len(saves') : Waits(saves'[j])
          PROVE  list' = list /\ \A j \in 1 .. n : Waits(saves[j])
      <3>1. n + 1 \in 1 .. (n + 1) /\ \A j \in 1 .. n : j \in 1 .. (n + 1)
        BY <1>0
      <3>. QED
        BY <1>4, <1>6, <1>7, <2>1, <3>1 DEF Waits
    <2>. QED
      BY <1>3, <2>1 DEF ListInv, Settled
  <1>. QED
    BY <1>8, <1>9, <1>10, <1>11, <1>12 DEF ListInv

\* A step that leaves the list and its saves alone.
LEMMA ElsewhereKeeps ==
    ASSUME ListInv, UNCHANGED <<list, storage>>, steps' \in 0 .. MaxSteps
    PROVE  ListInv'
  <1>1. UNCHANGED <<list, file, saves, written, loading, loaded, agree, strays>>
    BY DEF storage
  <1>. QED
    BY <1>1 DEF ListInv, ListTypes, Holding, AllRight, Right, After, Landed, Settled

\* A temporary host comes into the store, unsaved.
LEMMA TemporaryKeeps ==
    ASSUME ListInv, NEW c \in Conn, c.id \in Temp, c.folder = Root, list' = Upserted(list, c),
           UNCHANGED storage, steps' \in 0 .. MaxSteps
    PROVE  ListInv'
  <1>0. UNCHANGED <<file, saves, written, loading, loaded, agree, strays>>
    BY DEF storage
  <1>1. /\ list \in Lists /\ \A i \in 1 .. Len(saves) : saves[i] \in SaveCall
    BY ListBasics DEF ListInv
  <1>2. list' \in Lists /\ Held(list', strays)
    BY <1>1, UpsertedFacts DEF ListInv, Holding
  <1>3. Lasting(list') = Lasting(list)
    BY <1>1, LastingTemp
  <1>4. ASSUME NEW i \in 1 .. Len(saves)
        PROVE  Lasting(After(saves[i]))' = Lasting(After(saves[i]))
    <2>1. CASE Waits(saves[i])
      <3>1. Lasting(Upserted(list', saves[i].for)) = Lasting(Upserted(list, saves[i].for))
        BY <1>1, <1>2, <1>3, <2>1, WaitingFor, LastingUpserted
      <3>. QED
        BY <1>0, <2>1, <3>1 DEF After
    <2>2. CASE ~Waits(saves[i])
      BY <1>0, <1>3, <2>2 DEF After
    <2>. QED
      BY <2>1, <2>2
  <1>5. ListTypes'
    BY <1>0, <1>2 DEF ListInv, ListTypes
  <1>6. Holding'
    BY <1>0, <1>2 DEF ListInv, Holding
  <1>7. AllRight'
    BY <1>0, <1>4 DEF ListInv, AllRight, Right
  <1>8. Landed' /\ Settled'
    BY <1>0, <1>3 DEF ListInv, Landed, Settled
  <1>. QED
    BY <1>5, <1>6, <1>7, <1>8 DEF ListInv

\* The first save is in the file.
LEMMA WriteKeeps ==
    ASSUME ListInv, Write
    PROVE  ListInv'
  <1>. USE DEF Write
  <1>1. /\ saves # <<>> /\ 1 \in 1 .. Len(saves) /\ Head(saves) = saves[1]
        /\ saves[1].list \in Lists /\ saves[1].clean \in BOOLEAN
    BY ListBasics DEF ListInv
  <1>2. ListTypes'
    BY <1>1 DEF ListInv, ListTypes
  <1>3. Holding'
    BY <1>1 DEF ListInv, Holding
  <1>4. AllRight'
    BY DEF ListInv, AllRight, Right, After
  <1>5. Landed' /\ Settled'
    BY <1>1 DEF Landed, Settled
  <1>. QED
    BY <1>2, <1>3, <1>4, <1>5 DEF ListInv

\* What leaves is the first save, the others move one place up.
LEMMA Dequeued ==
    ASSUME ListTypes, saves # <<>>, saves' = Tail(saves)
    PROVE  /\ saves' \in Seq(SaveCall) /\ Len(saves') = Len(saves) - 1 /\ Len(saves') \in Nat
           /\ \A i \in 1 .. Len(saves') : saves'[i] = saves[i + 1] /\ i + 1 \in 1 .. Len(saves)
  <1>1. saves \in Seq(SaveCall) /\ Len(saves) \in Nat /\ 1 \in 1 .. Len(saves)
    BY ListBasics
  <1>2. /\ Tail(saves) \in Seq(SaveCall) /\ Len(Tail(saves)) = Len(saves) - 1
        /\ \A i \in 1 .. Len(Tail(saves)) : Tail(saves)[i] = saves[i + 1]
    BY <1>1, HeadTailProperties
  <1>3. \A i \in 1 .. (Len(saves) - 1) : i + 1 \in 1 .. Len(saves)
    BY <1>1
  <1>. QED
    BY <1>1, <1>2, <1>3

\* The first save leaves.  If it changed the store on its way out, it was the one that
\* waited.
LEMMA LeavingKeeps ==
    ASSUME ListInv, saves # <<>>, saves' = Tail(saves), UNCHANGED <<file, loading, loaded, steps, strays>>,
           written' = FALSE, agree' \in BOOLEAN,
           list' = list \/ (list' = Upserted(list, saves[1].for) /\ Waits(saves[1])),
           Settled'
    PROVE  ListInv'
  <1>0. /\ list \in Lists /\ 1 \in 1 .. Len(saves) /\ Len(saves) \in Nat
        /\ saves[1] \in SaveCall
    BY ListBasics DEF ListInv
  <1>1. /\ saves' \in Seq(SaveCall) /\ Len(saves') = Len(saves) - 1 /\ Len(saves') \in Nat
        /\ \A i \in 1 .. Len(saves') : saves'[i] = saves[i + 1] /\ i + 1 \in 1 .. Len(saves)
    BY Dequeued DEF ListInv
  <1>2. list' \in Lists /\ Held(list', strays)
    BY <1>0, WaitingFor, UpsertedFacts DEF ListInv, Holding
  <1>3. ListTypes'
    BY <1>1, <1>2 DEF ListInv, ListTypes, SaveCall
  <1>4. Holding'
    BY <1>1, <1>2 DEF ListInv, Holding
  <1>5. ASSUME NEW i \in 1 .. Len(saves') PROVE Right(i)'
    <2>1. Right(i + 1) /\ i + 1 \in 1 .. Len(saves) /\ saves'[i] = saves[i + 1] /\ i \in Nat
      BY <1>1 DEF ListInv, AllRight
    <2>2. \A j \in 1 .. (i - 1) : saves'[j] = saves[j + 1] /\ j + 1 \in 1 .. ((i + 1) - 1)
      BY <1>1
    <2>3. ASSUME \A j \in (i + 1) .. Len(saves') : Waits(saves'[j])
          PROVE  \A j \in ((i + 1) + 1) .. Len(saves) : Waits(saves[j])
      <3> SUFFICES ASSUME NEW j \in ((i + 1) + 1) .. Len(saves) PROVE Waits(saves[j])
        OBVIOUS
      <3>1. /\ j - 1 \in (i + 1) .. Len(saves') /\ j - 1 \in 1 .. Len(saves') /\ (j - 1) + 1 = j
        BY <1>0, <1>1, <2>1
      <3>. QED
        BY <1>1, <2>3, <3>1
    <2>4. saves[i + 1].clean => ~Waits(saves[1])
      <3>1. 1 \in 1 .. ((i + 1) - 1)
        BY <2>1
      <3>. QED
        BY <2>1, <3>1 DEF Right
    <2>5. saves[i + 1].clean => list' = list
      BY <2>4
    <2>. QED
      BY <2>1, <2>2, <2>3, <2>5 DEF Right, After
  <1>6. AllRight'
    BY <1>5 DEF AllRight
  <1>7. Landed'
    BY DEF Landed
  <1>. QED
    BY <1>3, <1>4, <1>6, <1>7 DEF ListInv

\* A save that ended well.
LEMMA EndsKeeps ==
    ASSUME ListInv, SaveEnds
    PROVE  ListInv'
  <1>. USE DEF SaveEnds
  <1>1. /\ saves # <<>> /\ 1 \in 1 .. Len(saves) /\ Head(saves) = saves[1] /\ Len(saves) \in Nat
        /\ agree \in BOOLEAN
    BY ListBasics DEF ListInv
  <1>2. list' = After(saves[1])
    BY <1>1 DEF After
  <1>3. Settled'
    <2> SUFFICES ASSUME agree, \A j \in 1 .. Len(saves') : Waits(saves'[j])
                 PROVE  Lasting(file') = Lasting(list')
      BY DEF Settled
    <2>1. saves[1].clean /\ file = saves[1].list
      BY DEF ListInv, Landed
    <2>2. ASSUME NEW j \in (1 + 1) .. Len(saves) PROVE Waits(saves[j])
      <3>1. /\ Len(saves') = Len(saves) - 1
            /\ \A i \in 1 .. Len(saves') : saves'[i] = saves[i + 1]
        BY <1>1, Dequeued DEF ListInv
      <3>2. j - 1 \in 1 .. Len(saves') /\ (j - 1) + 1 = j
        BY <1>1, <2>2, <3>1
      <3>. QED
        BY <3>1, <3>2
    <2>3. Lasting(saves[1].list) = Lasting(After(saves[1]))
      BY <1>1, <2>1, <2>2 DEF ListInv, AllRight, Right
    <2>. QED
      BY <1>2, <2>1, <2>3
  <1>4. list' = list \/ (list' = Upserted(list, saves[1].for) /\ Waits(saves[1]))
    BY <1>1
  <1>. QED
    BY <1>1, <1>3, <1>4, LeavingKeeps

\* A save that failed: its caller changes nothing.
LEMMA FailsKeeps ==
    ASSUME ListInv, SaveFails
    PROVE  ListInv'
  <1>. USE DEF SaveFails
  <1>1. /\ saves # <<>> /\ 1 \in 1 .. Len(saves) /\ Head(saves) = saves[1] /\ Len(saves) \in Nat
        /\ agree \in BOOLEAN /\ written \in BOOLEAN
    BY ListBasics DEF ListInv
  <1>2. Settled'
    <2> SUFFICES ASSUME agree, Waits(saves[1]), \A j \in 1 .. Len(saves') : Waits(saves'[j])
                 PROVE  Lasting(file') = Lasting(list')
      BY <1>1 DEF Settled
    <2>1. ASSUME NEW j \in 1 .. Len(saves) PROVE Waits(saves[j])
      <3>1. /\ Len(saves') = Len(saves) - 1
            /\ \A i \in 1 .. Len(saves') : saves'[i] = saves[i + 1]
        BY <1>1, Dequeued DEF ListInv
      <3>2. j = 1 \/ (j - 1 \in 1 .. Len(saves') /\ (j - 1) + 1 = j)
        BY <1>1, <2>1, <3>1
      <3>. QED
        BY <3>1, <3>2
    <2>. QED
      BY <2>1 DEF ListInv, Settled
  <1>3. written' = FALSE /\ agree' \in BOOLEAN
    BY <1>1 DEF Waits
  <1>. QED
    BY <1>1, <1>2, <1>3, LeavingKeeps

\* More hosts may be strays.
LEMMA MoreStrays ==
    ASSUME NEW l, NEW S, NEW T, S \subseteq T, Held(l, S)
    PROVE  Held(l, T)
  BY DEF Held

\* What a restore makes of a list.
LEMMA RestoredFacts ==
    ASSUME NEW l \in Lists, NEW c \in Conn
    PROVE  /\ Restored(l, c) \in Lists /\ Misplaced(Restored(l, c)) \subseteq Host
           /\ \A S : Held(l, S) =>
                 Held(Restored(l, c), S \cup ({c.id} \cap Misplaced(Restored(l, c))))
  <1>. DEFINE u == Upserted(l, c)
              r == Restored(l, c)
  <1>1. /\ u \in Lists /\ Known(u) = Known(l) \cup {c.id}
        /\ \A h \in Known(l) \cup {c.id} :
             u.connections[h] = IF h = c.id THEN c.folder ELSE l.connections[h]
    BY UpsertedFacts
  <1>2. /\ u = [connections |-> u.connections, folders |-> u.folders]
        /\ Known(u) \subseteq Host /\ u.connections \in [Known(u) -> Folder]
        /\ l.folders \in SUBSET Path
    <2>. HIDE DEF u
    <2>. QED
      BY <1>1, ListFacts
  <1>3. r = [u EXCEPT !.folders = l.folders]
    BY DEF Restored
  <1>. HIDE DEF u, r
  <1>4. r = [connections |-> u.connections, folders |-> l.folders]
    BY ONLY <1>2, <1>3
  <1>5. r \in Lists /\ Known(r) = Known(l) \cup {c.id}
    BY <1>1, <1>2, <1>4, IsList
  <1>6. Misplaced(r) \subseteq Host
    BY <1>1, <1>2, <1>5 DEF Misplaced
  <1>7. ASSUME NEW S, Held(l, S) PROVE Held(r, S \cup ({c.id} \cap Misplaced(r)))
    BY <1>1, <1>4, <1>5, <1>7 DEF Held, Misplaced
  <1>. QED
    BY <1>5, <1>6, <1>7 DEF r

\* A restore writes the file behind the back of the list.
LEMMA RestoreKeeps ==
    ASSUME ListInv, NEW c \in Conn, RestoreHost(c)
    PROVE  ListInv'
  <1>. USE DEF RestoreHost
  <1>1. file' \in Lists /\ Held(file', strays') /\ strays \subseteq strays' /\ strays' \subseteq Host
    BY ListBasics, RestoredFacts DEF ListInv, Holding
  <1>2. ListTypes'
    BY <1>1, StepCounts DEF ListInv, ListTypes
  <1>3. Holding'
    BY <1>1, MoreStrays DEF ListInv, Holding
  <1>4. AllRight'
    BY DEF ListInv, AllRight, Right, After
  <1>5. Landed' /\ Settled'
    BY DEF Landed, Settled
  <1>. QED
    BY <1>2, <1>3, <1>4, <1>5 DEF ListInv

\* The list is read, or cannot be.
LEMMA ReadKeeps ==
    ASSUME ListInv, ReadList \/ LoadFails
    PROVE  ListInv'
  <1>. USE DEF ReadList, LoadFails
  <1>1. ListTypes'
    BY DEF ListInv, ListTypes
  <1>2. Holding'
    BY DEF ListInv, Holding
  <1>3. AllRight' /\ Landed' /\ Settled'
    BY DEF ListInv, AllRight, Right, After, Landed, Settled
  <1>. QED
    BY <1>1, <1>2, <1>3 DEF ListInv

\* What was read takes the place of the list.
LEMMA SetKeeps ==
    ASSUME ListInv, SetList
    PROVE  ListInv'
  <1>. USE DEF SetList
  <1>0. /\ loaded \in Lists /\ saves \in Seq(SaveCall) /\ Len(saves) \in Nat
        /\ DOMAIN saves = 1 .. Len(saves)
        /\ \A i \in 1 .. Len(saves) : saves[i] \in SaveCall
        /\ (written => saves # <<>>) /\ written \in BOOLEAN
    BY ListBasics DEF ListInv
  <1>1. /\ \A i \in 1 .. Len(saves) : /\ saves'[i] \in SaveCall /\ saves'[i].clean = FALSE
                                      /\ saves'[i].list = saves[i].list
    BY <1>0 DEF SaveCall
  <1>2. saves' \in Seq(SaveCall) /\ Len(saves') = Len(saves)
    <2>1. saves' \in [1 .. Len(saves) -> SaveCall]
      BY <1>0, <1>1
    <2>2. saves' \in Seq(SaveCall)
      BY <1>0, <2>1, SeqDef
    <2>3. Len(saves') \in Nat /\ DOMAIN saves' = 1 .. Len(saves') /\ DOMAIN saves' = 1 .. Len(saves)
      BY <2>1, <2>2, LenProperties
    <2>. QED
      BY <1>0, <2>2, <2>3
  <1>3. (saves' = <<>> <=> saves = <<>>) /\ (agree' => saves = <<>> /\ file = loaded)
    BY <1>0, <1>2, EmptySeq
  <1>4. ListTypes'
    BY <1>0, <1>2, <1>3, EmptyFacts DEF ListInv, ListTypes, SaveCall
  <1>5. Holding'
    BY <1>1, <1>2, EmptyFacts DEF ListInv, Holding
  <1>6. AllRight'
    BY <1>1, <1>2 DEF AllRight, Right
  <1>7. Landed' /\ Settled'
    BY <1>0, <1>3 DEF Landed, Settled
  <1>. QED
    BY <1>4, <1>5, <1>6, <1>7 DEF ListInv

\* Nothing is under way when the program has started again.
LEMMA RestartKeeps ==
    ASSUME ListInv, NEW read \in BOOLEAN, RestartList(read)
    PROVE  ListInv'
  <1>. USE DEF RestartList
  <1>1. Len(saves') = 0 /\ saves' \in Seq(SaveCall)
    BY EmptySeq
  <1>2. list' \in Lists /\ Held(list', strays) /\ loaded' = Empty
    BY EmptyFacts DEF ListInv, ListTypes, Holding
  <1>3. ListTypes'
    BY <1>1, <1>2, EmptyFacts DEF ListInv, ListTypes, SaveCall
  <1>4. Holding'
    BY <1>1, <1>2, EmptyFacts DEF ListInv, Holding
  <1>5. AllRight' /\ Landed' /\ Settled'
    BY <1>1 DEF AllRight, Landed, Settled
  <1>. QED
    BY <1>3, <1>4, <1>5 DEF ListInv

-----------------------------------------------------------------------------
(* The operations on the list *)

\* An operation that changes the store and saves what it has made of it.
LEMMA ChangeKeeps ==
    ASSUME ListInv, NEW l \in Lists, Held(l, strays), ChangeTo(l)
    PROVE  ListInv' /\ list' = l
  <1>1. steps' \in 0 .. MaxSteps
    BY StepCounts DEF ListInv, ChangeTo
  <1>. QED
    BY <1>1, SavingKeeps DEF ChangeTo

\* A host on its way into the store, or back into it.
LEMMA AddKeeps ==
    ASSUME ListInv, NEW c \in Conn, (c.id \notin Temp /\ AddConnection(c)) \/ EditConnection(c)
    PROVE  ListInv' /\ list' = list
  <1>1. steps' \in 0 .. MaxSteps
    BY StepCounts DEF ListInv, AddConnection, EditConnection
  <1>2. SaveToMain(Upserted(list, c), c) /\ list' = list
    BY DEF AddConnection, EditConnection
  <1>3. Upserted(list, c) \in Lists /\ Held(Upserted(list, c), strays)
    BY ListBasics, UpsertedFacts DEF ListInv, Holding
  <1>. QED
    BY <1>1, <1>2, <1>3, SavingKeeps

\* The steps of the list alone: only a load takes hosts out of it.
LEMMA ListStepsKeep ==
    ASSUME ListInv, ListSteps
    PROVE  ListInv' /\ (SetList \/ Known(list) \subseteq Known(list'))
  <1>0. list \in Lists /\ Held(list, strays) /\ Known(list) \subseteq Host
    BY ListBasics, ListFacts DEF ListInv, Holding
  <1>1. ASSUME NEW c \in Conn, (c.id \notin Temp /\ AddConnection(c)) \/ EditConnection(c)
        PROVE  ListInv' /\ Known(list) \subseteq Known(list')
    BY <1>1, AddKeeps
  <1>2. ASSUME NEW c \in Conn, RestoreHost(c)
        PROVE  ListInv' /\ Known(list) \subseteq Known(list')
    BY <1>2, RestoreKeeps DEF RestoreHost
  <1>3. ASSUME NEW c \in Conn, ImportConnections(c)
        PROVE  ListInv' /\ Known(list) \subseteq Known(list')
    <2>1. /\ Upserted(list, c) \in Lists /\ Held(Upserted(list, c), strays)
          /\ Known(list) \subseteq Known(Upserted(list, c))
      BY <1>0, UpsertedFacts
    <2>. QED
      BY <1>3, <2>1, ChangeKeeps DEF ImportConnections
  <1>4. ASSUME NEW p \in Path, AddFolder(p)
        PROVE  ListInv' /\ Known(list) \subseteq Known(list')
    <2>. DEFINE m == [list EXCEPT !.folders = @ \cup {p}]
    <2>1. m \in Lists /\ Held(m, strays) /\ Known(m) = Known(list)
      BY <1>0, AddedFacts
    <2>2. ChangeTo(m)
      BY <1>4 DEF AddFolder
    <2>. HIDE DEF m
    <2>. QED
      BY <2>1, <2>2, ChangeKeeps
  <1>5. ASSUME NEW p \in Path, DeleteFolder(p)
        PROVE  ListInv' /\ Known(list) \subseteq Known(list')
    BY <1>0, <1>5, DeletedFacts, ChangeKeeps DEF DeleteFolder
  <1>6. ASSUME NEW p \in Path, NEW q \in Path, RenameFolder(p, q)
        PROVE  ListInv' /\ Known(list) \subseteq Known(list')
    BY <1>0, <1>6, RenamedFacts, ChangeKeeps DEF RenameFolder
  <1>7. ASSUME NEW h \in Host, ToggleFavorite(h)
        PROVE  ListInv' /\ Known(list) \subseteq Known(list')
    BY <1>0, <1>7, ChangeKeeps DEF ToggleFavorite
  <1>8. ASSUME NEW h \in Host, NEW p \in Folder, UpdateConnectionFolder(h, p)
        PROVE  ListInv' /\ Known(list) \subseteq Known(list')
    BY <1>0, <1>8, RefolderedFacts, ChangeKeeps DEF UpdateConnectionFolder
  <1>9. CASE Write \/ SaveFails \/ ReadList \/ LoadFails
    BY <1>9, WriteKeeps, FailsKeeps, ReadKeeps DEF Write, SaveFails, ReadList, LoadFails
  <1>10. CASE SaveEnds
    <2>1. saves # <<>> => Head(saves) \in SaveCall
      BY ListBasics DEF ListInv
    <2>2. saves # <<>>
      BY <1>10 DEF SaveEnds, ListInv, ListTypes
    <2>3. Known(list) \subseteq Known(list')
      BY <1>0, <1>10, <2>1, <2>2, WaitingFor, UpsertedFacts DEF SaveEnds
    <2>. QED
      BY <1>10, <2>3, EndsKeeps
  <1>11. CASE SetList
    BY <1>11, SetKeeps
  <1>. QED
    BY <1>1, <1>2, <1>3, <1>4, <1>5, <1>6, <1>7, <1>8, <1>9, <1>10, <1>11 DEF ListSteps

-----------------------------------------------------------------------------
(* Tabs *)

\* What a tab shows has no other name.
LEMMA TabNames ==
    /\ None \notin Tab /\ Host \subseteq Tab /\ Others \subseteq Tab
    /\ \A t \in Tab : t \in Host \/ t \in {Local, Global, Tool, Settings}
    /\ \A h \in Host : h \notin {None, Local, Global, Tool, Settings}
    /\ \A t \in Tab : ConnOf(t) \in Tab \cup {None}
    /\ ConnOf(None) = None /\ ConnOf(Settings) = None /\ ConnOf(Tool) = None
    /\ \A t \in Tab : t # Tool /\ t # Settings => ConnOf(t) = t
    /\ Local # None /\ Global # None /\ Local # Global /\ Local # Tool /\ Local # Settings
    /\ Tool # Settings /\ Global # Tool /\ Global # Settings
  BY HostListAssumption, OthersAssumption DEF Tab, None, Local, Global, Tool, Settings, ConnOf

\* The last of some tabs, and the first, is one of them.
LEMMA EndsOf ==
    ASSUME NEW T, NEW s \in Seq(T), s # <<>>
    PROVE  Last(s) \in ToSet(s) /\ s[1] \in ToSet(s)
  <1>1. Len(s) \in Nat /\ DOMAIN s = 1 .. Len(s) /\ Len(s) # 0
    BY LenProperties, EmptySeq
  <1>. QED
    BY <1>1 DEF Last, ToSet

\* No tabs.
LEMMA NoTabs == <<>> \in Seq(Tab) /\ ToSet(<<>>) = {} /\ IsInjective(<<>>)
  <1>1. <<>> \in Seq(Tab) /\ Len(<<>>) = 0 /\ DOMAIN <<>> = {}
    BY EmptySeq
  <1>. QED
    BY <1>1 DEF ToSet, IsInjective

\* A step that leaves the session file alone has only the window to look after.
LEMMA ShownKeeps ==
    ASSUME TabInv, UNCHANGED session, tabs' \in Seq(Tab), IsInjective(tabs'),
           active' \in Tab \cup {None}, conn' \in Tab \cup {None}, welcome' \in BOOLEAN,
           FocusFollowsTheTab'
    PROVE  TabInv'
  BY DEF TabInv, TabTypes, SessionFocus

\* A tab is opened or brought to the front.
LEMMA OpenedKeeps ==
    ASSUME TabInv, NEW t \in Tab, Opened(t)
    PROVE  TabInv' /\ ToSet(tabs') = ToSet(tabs) \cup {t}
  <1>1. tabs \in Seq(Tab) /\ IsInjective(tabs)
    BY DEF TabInv, TabTypes
  <1>2. /\ tabs' \in Seq(Tab) /\ ToSet(tabs') = ToSet(tabs) \cup {t} /\ IsInjective(tabs')
    <2>1. CASE IsTab(t)
      BY <1>1, <2>1 DEF Opened, IsTab
    <2>2. CASE ~IsTab(t)
      <3>1. tabs' = Append(tabs, t) /\ t \notin ToSet(tabs)
        BY <2>2 DEF Opened, IsTab
      <3>. QED
        BY <1>1, <3>1, AppendFacts
    <2>. QED
      BY <2>1, <2>2
  <1>3. /\ active' = t /\ conn' = ConnOf(t) /\ welcome' = FALSE /\ UNCHANGED session
    BY DEF Opened, Show
  <1>4. t # None /\ ConnOf(t) \in Tab \cup {None}
    BY TabNames
  <1>5. FocusFollowsTheTab'
    BY <1>2, <1>3, <1>4 DEF FocusFollowsTheTab, IsTab, ConnOf
  <1>. QED
    BY <1>2, <1>3, <1>4, <1>5, ShownKeeps

\* What is left when tabs are closed, and which of it is shown.
LEMMA LeftFacts ==
    ASSUME TabInv, NEW gone
    PROVE  /\ Left(gone) \in Seq(Tab) /\ ToSet(Left(gone)) = ToSet(tabs) \ gone
           /\ IsInjective(Left(gone))
           /\ NextShown(gone) = None <=> Left(gone) = <<>>
           /\ NextShown(gone) # None => NextShown(gone) \in ToSet(Left(gone))
           /\ NextShown(gone) \in Tab \cup {None}
  <1>1. tabs \in Seq(Tab) /\ IsInjective(tabs)
    BY DEF TabInv, TabTypes
  <1>2. ToSet(tabs) \subseteq Tab
    BY <1>1, ElementOfSeq, LenProperties DEF ToSet
  <1>3. /\ Left(gone) \in Seq(Tab \cap (Tab \ gone))
        /\ ToSet(Left(gone)) = ToSet(tabs) \cap (Tab \ gone)
        /\ IsInjective(Left(gone))
    BY <1>1, OnlyFacts DEF Left
  <1>4. Left(gone) \in Seq(Tab) /\ ToSet(Left(gone)) = ToSet(tabs) \ gone
    <2>1. Tab \cap (Tab \ gone) \subseteq Tab
      OBVIOUS
    <2>2. Left(gone) \in Seq(Tab)
      BY <1>3, <2>1, SeqMonotonic
    <2>. QED
      BY <1>2, <1>3, <2>2
  <1>5. ToSet(Left(gone)) \subseteq Tab
    BY <1>2, <1>4
  <1>6. CASE active \in ToSet(Left(gone))
    <2>1. Left(gone) # <<>>
      BY <1>6, NoTabs
    <2>2. NextShown(gone) = active
      BY <1>6 DEF NextShown
    <2>. QED
      BY <1>3, <1>4, <1>5, <1>6, <2>1, <2>2, TabNames
  <1>7. CASE active \notin ToSet(Left(gone)) /\ Left(gone) = <<>>
    BY <1>3, <1>4, <1>7 DEF NextShown
  <1>8. CASE active \notin ToSet(Left(gone)) /\ Left(gone) # <<>>
    <2>1. NextShown(gone) = Last(Left(gone)) /\ Last(Left(gone)) \in ToSet(Left(gone))
      BY <1>4, <1>8, EndsOf DEF NextShown
    <2>. QED
      BY <1>3, <1>4, <1>5, <1>8, <2>1, TabNames
  <1>. QED
    BY <1>6, <1>7, <1>8

\* A tab is closed.
LEMMA CloseKeeps ==
    ASSUME TabInv, NEW t \in Tab, CloseTab(t)
    PROVE  TabInv' /\ ToSet(tabs') \subseteq ToSet(tabs)
  <1>1. /\ tabs' = Left({t}) /\ active' = NextShown({t}) /\ conn' = ConnOf(NextShown({t}))
        /\ welcome' = (NextShown({t}) = None) /\ UNCHANGED session
    BY DEF CloseTab, Show
  <1>2. /\ tabs' \in Seq(Tab) /\ IsInjective(tabs') /\ ToSet(tabs') = ToSet(tabs) \ {t}
        /\ active' # None => active' \in ToSet(tabs')
        /\ active' \in Tab \cup {None}
    BY <1>1, LeftFacts
  <1>3. conn' = ConnOf(active') /\ conn' \in Tab \cup {None} /\ (active' = None => conn' = None)
    BY <1>1, <1>2, TabNames
  <1>4. FocusFollowsTheTab'
    BY <1>1, <1>2, <1>3 DEF FocusFollowsTheTab, IsTab, ConnOf
  <1>5. welcome' \in BOOLEAN
    BY <1>1
  <1>. QED
    BY <1>1, <1>2, <1>3, <1>4, <1>5, ShownKeeps

\* A host is deleted, and its tab with it.
LEMMA DeleteKeeps ==
    ASSUME TabInv, NEW h \in Host, DeleteConnection(h)
    PROVE  TabInv' /\ ToSet(tabs') = ToSet(tabs) \ {h}
  <1>. DEFINE next == IF active = None THEN None ELSE NextShown({h})
  <1>1. /\ tabs' = Left({h}) /\ active' = next /\ conn' = ConnOf(next)
        /\ welcome' = (welcome \/ Left({h}) = <<>>) /\ UNCHANGED session
    BY DEF DeleteConnection, Show
  <1>2. /\ tabs' \in Seq(Tab) /\ IsInjective(tabs') /\ ToSet(tabs') = ToSet(tabs) \ {h}
    BY <1>1, LeftFacts
  <1>3. /\ active' # None => active' \in ToSet(tabs') /\ tabs' # <<>> /\ active # None
        /\ active' = None => active = None \/ tabs' = <<>>
        /\ active' \in Tab \cup {None}
    BY <1>1, LeftFacts
  <1>4. conn' = ConnOf(active') /\ conn' \in Tab \cup {None} /\ (active' = None => conn' = None)
    BY <1>1, <1>3, TabNames
  <1>5. active = None => welcome \/ tabs' = <<>>
    <2>1. ASSUME tabs = <<>> PROVE tabs' = <<>>
      <3>1. ToSet(tabs') = {}
        BY <1>2, <2>1, NoTabs
      <3>. QED
        BY <1>2, <3>1, EndsOf
    <2>. QED
      BY <2>1 DEF TabInv, FocusFollowsTheTab
  <1>6. welcome \in BOOLEAN /\ (active # None => ~welcome)
    BY DEF TabInv, TabTypes, FocusFollowsTheTab
  <1>7. FocusFollowsTheTab'
    BY <1>1, <1>3, <1>4, <1>5, <1>6 DEF FocusFollowsTheTab, IsTab, ConnOf
  <1>. QED
    BY <1>1, <1>2, <1>3, <1>4, <1>6, <1>7, ShownKeeps

\* Every host is deleted; the user selects a tab, goes home, or drags a tab.
LEMMA ViewKeeps ==
    ASSUME TabInv,
           \/ ClearConnections \/ GoHome \/ \E t \in Tab : ActivateTab(t)
           \/ \E i, j \in DOMAIN tabs : ReorderTabs(i, j)
    PROVE  TabInv' /\ ToSet(tabs') \subseteq ToSet(tabs)
  <1>0. /\ tabs \in Seq(Tab) /\ IsInjective(tabs) /\ active \in Tab \cup {None}
        /\ conn \in Tab \cup {None} /\ welcome \in BOOLEAN
        /\ FocusFollowsTheTab
    BY DEF TabInv, TabTypes
  <1>1. CASE ClearConnections
    <2>1. tabs' = <<>> /\ active' = None /\ conn' = None /\ welcome' = TRUE /\ UNCHANGED session
      BY <1>1, TabNames DEF ClearConnections, Show
    <2>2. FocusFollowsTheTab'
      BY <2>1 DEF FocusFollowsTheTab
    <2>. QED
      BY <2>1, <2>2, NoTabs, ShownKeeps
  <1>2. CASE GoHome
    <2>1. tabs' = tabs /\ active' = None /\ conn' = None /\ welcome' = TRUE /\ UNCHANGED session
      BY <1>2, TabNames DEF GoHome, Show
    <2>2. FocusFollowsTheTab'
      BY <2>1 DEF FocusFollowsTheTab
    <2>. QED
      BY <1>0, <2>1, <2>2, ShownKeeps
  <1>3. ASSUME NEW t \in Tab, ActivateTab(t)
        PROVE  TabInv' /\ ToSet(tabs') \subseteq ToSet(tabs)
    <2>1. /\ tabs' = tabs /\ active' = t /\ conn' = ConnOf(t) /\ welcome' = FALSE
          /\ t \in ToSet(tabs) /\ UNCHANGED session
      BY <1>3 DEF ActivateTab, Show, IsTab
    <2>2. t # None /\ ConnOf(t) \in Tab \cup {None}
      BY TabNames
    <2>3. FocusFollowsTheTab'
      BY <2>1, <2>2 DEF FocusFollowsTheTab, IsTab, ConnOf
    <2>. QED
      BY <1>0, <2>1, <2>2, <2>3, ShownKeeps
  <1>4. ASSUME NEW i \in DOMAIN tabs, NEW j \in DOMAIN tabs, ReorderTabs(i, j)
        PROVE  TabInv' /\ ToSet(tabs') \subseteq ToSet(tabs)
    <2>1. /\ tabs' = InsertAt(RemoveAt(tabs, i), j, tabs[i])
          /\ UNCHANGED <<active, conn, welcome, session>>
      BY <1>4 DEF ReorderTabs
    <2>2. tabs' \in Seq(Tab) /\ ToSet(tabs') = ToSet(tabs) /\ IsInjective(tabs')
      BY <1>0, <2>1, MovedFacts
    <2>3. tabs # <<>>
      <3>1. DOMAIN tabs # {}
        OBVIOUS
      <3>. QED
        BY <3>1, EmptySeq
    <2>4. FocusFollowsTheTab'
      BY <1>0, <2>1, <2>2, <2>3 DEF FocusFollowsTheTab, IsTab, ConnOf
    <2>. QED
      BY <1>0, <2>1, <2>2, <2>4, ShownKeeps
  <1>. QED
    BY <1>1, <1>2, <1>3, <1>4

\* The session is saved: settings.json is left out, and so is the focus on it.
LEMMA SessionKeeps ==
    ASSUME TabInv, SaveSession
    PROVE  TabInv' /\ tabs' = tabs
  <1>1. /\ tabs \in Seq(Tab) /\ IsInjective(tabs) /\ active \in Tab \cup {None}
        /\ conn \in Tab \cup {None} /\ welcome \in BOOLEAN /\ FocusFollowsTheTab
    BY DEF TabInv, TabTypes
  <1>2. UNCHANGED <<tabs, active, conn, welcome>> /\ session' = SessionData
    BY DEF SaveSession, shown
  <1>. DEFINE S == Tab \ {Settings}
              kept == Only(tabs, S)
  <1>3. kept \in Seq(Tab \cap S) /\ ToSet(kept) = ToSet(tabs) \cap S /\ IsInjective(kept)
    BY <1>1, OnlyFacts
  <1>4. /\ session'.tabs = kept /\ session'.conn = conn /\ session'.welcome = welcome
        /\ session'.active = IF active = Settings THEN None ELSE active
    BY <1>2 DEF SessionData
  <1>5. kept \in Seq(S)
    <2>1. Tab \cap S = S
      OBVIOUS
    <2>. QED
      BY <1>3, <2>1
  <1>. HIDE DEF kept
  <1>6. TabTypes'
    BY <1>1, <1>2, <1>4, <1>5 DEF TabTypes
  <1>7. SessionFocus'
    <2>1. CASE active = None \/ active = Settings
      BY <1>1, <1>4, <2>1, TabNames DEF SessionFocus, FocusFollowsTheTab
    <2>2. CASE active # None /\ active # Settings
      <3>1. active \in ToSet(kept) /\ conn = ConnOf(active)
        BY <1>1, <1>3, <2>2 DEF FocusFollowsTheTab, IsTab
      <3>. QED
        BY <1>4, <2>2, <3>1 DEF SessionFocus, ConnOf
    <2>. QED
      BY <2>1, <2>2
  <1>8. FocusFollowsTheTab' /\ IsInjective(session'.tabs)
    BY <1>1, <1>2, <1>3, <1>4 DEF FocusFollowsTheTab, IsTab, ConnOf
  <1>. QED
    BY <1>2, <1>6, <1>7, <1>8 DEF TabInv

\* The window comes back with the tabs of the session whose hosts are in the list.
LEMMA ComeBackKeeps ==
    ASSUME TabInv, NEW l, Known(l) \subseteq Host, RestoreTabState(l)
    PROVE  TabInv' /\ ToSet(tabs') \cap Host \subseteq Known(l)
  <1>. DEFINE valid == Known(l) \cup {Local}
              kept == Only(session.tabs, valid \cup {Tool})
              act == IF session.active \in ToSet(kept) THEN session.active ELSE kept[1]
  <1>1. /\ session.tabs \in Seq(Tab \ {Settings}) /\ IsInjective(session.tabs)
        /\ session.active \in Tab \cup {None} /\ session.conn \in Tab \cup {None}
        /\ SessionFocus
    BY DEF TabInv, TabTypes
  <1>2. /\ kept \in Seq((Tab \ {Settings}) \cap (valid \cup {Tool})) /\ IsInjective(kept)
        /\ ToSet(kept) = ToSet(session.tabs) \cap (valid \cup {Tool})
    <2>. DEFINE S == valid \cup {Tool}
    <2>1. kept = Only(session.tabs, S)
      OBVIOUS
    <2>. HIDE DEF S, kept
    <2>2. /\ kept \in Seq((Tab \ {Settings}) \cap S) /\ IsInjective(kept)
          /\ ToSet(kept) = ToSet(session.tabs) \cap S
      BY ONLY <1>1, <2>1, OnlyFacts
    <2>. QED
      BY <2>2 DEF S
  <1>3. /\ UNCHANGED session /\ tabs' = kept
        /\ IF kept = <<>> \/ session.welcome
           THEN active' = None /\ conn' = ConnOf(None) /\ welcome' = TRUE
           ELSE /\ active' = act /\ welcome' = FALSE
                /\ conn' = IF ConnOf(act) # None THEN act
                           ELSE IF session.conn \in valid THEN session.conn ELSE None
    BY DEF RestoreTabState, Show
  <1>4. kept \in Seq(Tab)
    <2>1. (Tab \ {Settings}) \cap (valid \cup {Tool}) \subseteq Tab
      OBVIOUS
    <2>. QED
      BY <1>2, <2>1, SeqMonotonic
  <1>5. ToSet(kept) \cap Host \subseteq Known(l)
    BY <1>2, TabNames
  <1>6. ToSet(kept) \subseteq Tab \ {Settings}
    <2>1. ToSet(session.tabs) \subseteq Tab \ {Settings}
      BY <1>1, ElementOfSeq, LenProperties DEF ToSet
    <2>. QED
      BY <1>2, <2>1
  <1>. HIDE DEF kept
  <1>7. CASE kept = <<>> \/ session.welcome
    <2>1. active' = None /\ conn' = None /\ welcome' = TRUE
      BY <1>3, <1>7, TabNames
    <2>2. FocusFollowsTheTab'
      BY <2>1 DEF FocusFollowsTheTab
    <2>. QED
      BY <1>2, <1>3, <1>4, <1>5, <2>1, <2>2, ShownKeeps
  <1>8. CASE ~(kept = <<>> \/ session.welcome)
    <2>1. act \in ToSet(kept) /\ act \in Tab /\ act # Settings /\ act # None
      BY <1>4, <1>6, <1>8, EndsOf, TabNames
    <2>2. conn' = ConnOf(act)
      <3>1. CASE ConnOf(act) # None
        BY <1>3, <1>8, <3>1 DEF ConnOf
      <3>2. CASE ConnOf(act) = None
        <4>1. session.conn \notin valid
          <5> SUFFICES ASSUME session.conn \in valid PROVE FALSE
            OBVIOUS
          <5>1. session.conn # None /\ session.active # None /\ session.conn = ConnOf(session.active)
            BY <1>1, TabNames DEF SessionFocus
          <5>2. session.conn = session.active
            BY <1>1, <5>1, TabNames
          <5>3. session.active \in ToSet(kept)
            BY <1>1, <1>2, <5>1, <5>2 DEF SessionFocus
          <5>. QED
            BY <3>2, <5>1, <5>3
        <4>. QED
          BY <1>3, <1>8, <3>2, <4>1
      <3>. QED
        BY <3>1, <3>2
    <2>3. active' = act /\ welcome' = FALSE /\ tabs' = kept
      BY <1>3, <1>8
    <2>. HIDE DEF act
    <2>4. FocusFollowsTheTab'
      BY <2>1, <2>2, <2>3 DEF FocusFollowsTheTab, IsTab, ConnOf
    <2>5. conn' \in Tab \cup {None}
      BY <2>1, <2>2, TabNames
    <2>. QED
      BY <1>2, <1>3, <1>4, <1>5, <2>1, <2>3, <2>4, <2>5, ShownKeeps
  <1>. QED
    BY <1>7, <1>8

-----------------------------------------------------------------------------
(* The theorems *)

\* What the user does to the list and its tabs.
LEMMA HostsKeep ==
    ASSUME Inv, NEW h \in Host, QuickConnect(h) \/ DeleteConnection(h)
    PROVE  Inv' /\ Orphans' \subseteq Orphans
  <1>0. list \in Lists /\ Held(list, strays) /\ Known(list) \subseteq Host /\ ListInv /\ TabInv
    BY ListBasics, ListFacts DEF Inv, ListInv, Holding
  <1>1. CASE QuickConnect(h)
    <2>. DEFINE c == [id |-> h, folder |-> Root]
    <2>1. c \in Conn /\ c.id = h /\ c.folder = Root
      BY DEF Conn, Folder
    <2>2. AddConnection(c) /\ OpenHost(list', h)
      BY <1>1 DEF QuickConnect
    <2>. HIDE DEF c
    <2>3. ListInv' /\ Known(list) \subseteq Known(list')
      <3>1. CASE c.id \notin Temp
        BY <1>0, <2>1, <2>2, <3>1, AddKeeps
      <3>2. CASE c.id \in Temp
        <4>1. list' = Upserted(list, c) /\ UNCHANGED storage /\ steps' \in 0 .. MaxSteps
          BY <1>0, <2>2, <3>2, StepCounts DEF AddConnection, ListInv
        <4>2. Known(list) \subseteq Known(list')
          BY <1>0, <2>1, <4>1, UpsertedFacts
        <4>. QED
          BY <1>0, <2>1, <3>2, <4>1, <4>2, TemporaryKeeps
      <3>. QED
        BY <3>1, <3>2
    <2>4. CASE h \in Known(list')
      <3>1. Opened(h)
        BY <2>2, <2>4 DEF OpenHost
      <3>2. TabInv' /\ ToSet(tabs') = ToSet(tabs) \cup {h}
        BY <1>0, <3>1, TabNames, OpenedKeeps
      <3>. QED
        BY <2>3, <2>4, <3>2 DEF Inv, Orphans, IsTab
    <2>5. CASE h \notin Known(list')
      <3>1. UNCHANGED <<tabs, active, conn, welcome, session>>
        BY <2>2, <2>5 DEF OpenHost, tabVars, shown
      <3>2. TabInv'
        BY <1>0, <3>1 DEF TabInv, TabTypes, FocusFollowsTheTab, IsTab, ConnOf, SessionFocus
      <3>. QED
        BY <2>3, <3>1, <3>2 DEF Inv, Orphans, IsTab
    <2>. QED
      BY <2>4, <2>5
  <1>2. CASE DeleteConnection(h)
    <2>1. ListInv' /\ list' = Without(list, h) /\ Known(Without(list, h)) = Known(list) \ {h}
      BY <1>0, <1>2, WithoutFacts, ChangeKeeps DEF DeleteConnection, DeleteFromList
    <2>2. TabInv' /\ ToSet(tabs') = ToSet(tabs) \ {h}
      BY <1>0, <1>2, DeleteKeeps
    <2>. QED
      BY <2>1, <2>2 DEF Inv, Orphans, IsTab
  <1>. QED
    BY <1>1, <1>2

\* What the user does to the window.
LEMMA WindowKeeps ==
    ASSUME Inv,
           \/ ClearConnections \/ GoHome \/ SaveSession
           \/ \E t \in Tab : OpenTab(t) \/ CloseTab(t) \/ ActivateTab(t)
           \/ \E i, j \in DOMAIN tabs : ReorderTabs(i, j)
    PROVE  Inv' /\ Orphans' \subseteq Orphans
  <1>0. ListInv /\ TabInv /\ steps \in 0 .. MaxSteps
    BY ListBasics DEF Inv, ListInv
  <1>1. CASE ClearConnections
    <2>1. ListInv'
      BY <1>0, <1>1, EmptyFacts, ChangeKeeps DEF ClearConnections, ClearList
    <2>2. TabInv' /\ ToSet(tabs') = {}
      BY <1>0, <1>1, NoTabs, ViewKeeps DEF ClearConnections
    <2>. QED
      BY <2>1, <2>2 DEF Inv, Orphans, IsTab
  <1>2. CASE SaveSession
    <2>1. UNCHANGED <<list, storage, steps>>
      BY <1>2 DEF SaveSession, listVars
    <2>2. ListInv'
      BY <1>0, <2>1, ElsewhereKeeps
    <2>3. TabInv' /\ tabs' = tabs
      BY <1>0, <1>2, SessionKeeps
    <2>. QED
      BY <2>1, <2>2, <2>3 DEF Inv, Orphans, IsTab
  <1>3. CASE \/ GoHome \/ \E t \in Tab : ActivateTab(t)
             \/ \E i, j \in DOMAIN tabs : ReorderTabs(i, j)
    <2>1. UNCHANGED <<list, storage>> /\ Step
      BY <1>3 DEF GoHome, ActivateTab, ReorderTabs
    <2>2. ListInv'
      BY <1>0, <2>1, StepCounts, ElsewhereKeeps DEF ListInv
    <2>3. TabInv' /\ ToSet(tabs') \subseteq ToSet(tabs)
      BY <1>0, <1>3, ViewKeeps
    <2>. QED
      BY <2>1, <2>2, <2>3 DEF Inv, Orphans, IsTab
  <1>4. ASSUME NEW t \in Tab, CloseTab(t)
        PROVE  Inv' /\ Orphans' \subseteq Orphans
    <2>1. UNCHANGED <<list, storage>> /\ Step
      BY <1>4 DEF CloseTab
    <2>2. ListInv'
      BY <1>0, <2>1, StepCounts, ElsewhereKeeps DEF ListInv
    <2>3. TabInv' /\ ToSet(tabs') \subseteq ToSet(tabs)
      BY <1>0, <1>4, CloseKeeps
    <2>. QED
      BY <2>1, <2>2, <2>3 DEF Inv, Orphans, IsTab
  <1>5. ASSUME NEW t \in Tab, OpenTab(t)
        PROVE  Inv' /\ Orphans' \subseteq Orphans
    <2>1. UNCHANGED <<list, storage>> /\ Step
      BY <1>5 DEF OpenTab
    <2>2. ListInv'
      BY <1>0, <2>1, StepCounts, ElsewhereKeeps DEF ListInv
    <2>3. CASE Opened(t) /\ (t \in Host => t \in Known(list))
      <3>1. TabInv' /\ ToSet(tabs') = ToSet(tabs) \cup {t}
        BY <1>0, <2>3, OpenedKeeps
      <3>. QED
        BY <2>1, <2>2, <2>3, <3>1 DEF Inv, Orphans, IsTab
    <2>4. CASE UNCHANGED tabVars
      <3>1. UNCHANGED <<tabs, active, conn, welcome, session>>
        BY <2>4 DEF tabVars, shown
      <3>2. TabInv'
        BY <1>0, <3>1 DEF TabInv, TabTypes, FocusFollowsTheTab, IsTab, ConnOf, SessionFocus
      <3>. QED
        BY <2>1, <2>2, <3>1, <3>2 DEF Inv, Orphans, IsTab
    <2>. QED
      BY <1>5, <2>3, <2>4 DEF OpenTab, OpenHost
  <1>. QED
    BY <1>1, <1>2, <1>3, <1>4, <1>5

\* The window starts again.
LEMMA BackKeeps ==
    ASSUME Inv, NEW read \in BOOLEAN, Restart(read)
    PROVE  Inv' /\ Orphans' \subseteq Orphans
  <1>0. ListInv /\ TabInv
    BY DEF Inv
  <1>1. ListInv'
    BY <1>0, RestartKeeps DEF Restart
  <1>2. Known(list') \subseteq Host
    <2>1. list' \in Lists
      BY <1>1 DEF ListInv, ListTypes
    <2>. QED
      BY <2>1, ListFacts
  <1>3. CASE session = NewSession
    <2>1. tabs' = <<>> /\ active' = None /\ conn' = None /\ welcome' = FALSE /\ UNCHANGED session
      BY <1>3, TabNames DEF Restart, Show
    <2>2. FocusFollowsTheTab'
      BY <2>1 DEF FocusFollowsTheTab
    <2>3. TabInv'
      BY <1>0, <2>1, <2>2, NoTabs, ShownKeeps
    <2>. QED
      BY <1>1, <2>1, <2>3, NoTabs DEF Inv, Orphans, IsTab
  <1>4. CASE session # NewSession
    <2>1. RestoreTabState(list')
      BY <1>4 DEF Restart
    <2>2. TabInv' /\ ToSet(tabs') \cap Host \subseteq Known(list')
      BY <1>0, <1>2, <2>1, ComeBackKeeps
    <2>. QED
      BY <1>1, <2>2 DEF Inv, Orphans, IsTab
  <1>. QED
    BY <1>3, <1>4

\* No step leads out of the invariant, and only a load orphans a tab.
LEMMA NextInv ==
    ASSUME Inv, [Next]_vars
    PROVE  Inv' /\ (SetList \/ Orphans' \subseteq Orphans \/ UNCHANGED vars)
  <1>1. CASE ListSteps /\ UNCHANGED tabVars
    <2>1. ListInv' /\ (SetList \/ Known(list) \subseteq Known(list'))
      BY <1>1, ListStepsKeep DEF Inv
    <2>2. UNCHANGED <<tabs, active, conn, welcome, session>>
      BY <1>1 DEF tabVars, shown
    <2>3. TabInv'
      BY <2>2 DEF Inv, TabInv, TabTypes, FocusFollowsTheTab, IsTab, ConnOf, SessionFocus
    <2>. QED
      BY <2>1, <2>2, <2>3 DEF Inv, Orphans, IsTab
  <1>2. CASE UNCHANGED vars
    <2>1. /\ UNCHANGED <<list, storage, steps>>
          /\ UNCHANGED <<tabs, active, conn, welcome, session>>
      BY <1>2 DEF vars, listVars, tabVars, shown
    <2>2. ListInv'
      BY <2>1, ListBasics, ElsewhereKeeps DEF Inv, ListInv
    <2>3. TabInv'
      BY <2>1 DEF Inv, TabInv, TabTypes, FocusFollowsTheTab, IsTab, ConnOf, SessionFocus
    <2>. QED
      BY <1>2, <2>2, <2>3 DEF Inv
  <1>3. CASE Next /\ ~(ListSteps /\ UNCHANGED tabVars)
    BY <1>3, HostsKeep, WindowKeeps, BackKeeps DEF Next
  <1>. QED
    BY <1>1, <1>2, <1>3

\* The first launch.
LEMMA InitInv ==
    ASSUME Init
    PROVE  Inv
  <1>. USE DEF Init, InitList
  <1>1. /\ file \in Lists /\ list = file /\ Held(file, strays) /\ Known(list) \subseteq Host
        /\ Len(saves) = 0 /\ saves \in Seq(SaveCall)
    BY HostListAssumption, ListFacts, EmptySeq DEF Held, Misplaced
  <1>2. ListTypes
    <2>1. steps \in 0 .. MaxSteps
      BY HostListAssumption
    <2>2. strays \subseteq Host
      BY <1>1 DEF Misplaced
    <2>. QED
      BY <1>1, <2>1, <2>2, EmptyFacts DEF ListTypes, SaveCall
  <1>3. Holding
    BY <1>1, EmptyFacts DEF Holding
  <1>4. AllRight /\ Landed /\ Settled
    BY <1>1 DEF AllRight, Landed, Settled
  <1>5. TabInv
    <2>1. PICK t \in Known(list) \cup {None} :
               /\ session = IF t = None THEN NewSession
                            ELSE [tabs |-> <<t>>, active |-> t, conn |-> t, welcome |-> FALSE]
               /\ tabs = session.tabs /\ active = t /\ conn = t /\ welcome = FALSE
      OBVIOUS
    <2>2. CASE t = None
      <3>1. /\ session.tabs = <<>> /\ session.active = None /\ session.conn = None
            /\ session.welcome = FALSE
        BY <2>1, <2>2 DEF NewSession
      <3>2. <<>> \in Seq(Tab \ {Settings})
        BY EmptySeq
      <3>. QED
        BY <2>1, <2>2, <3>1, <3>2, NoTabs DEF TabInv, TabTypes, FocusFollowsTheTab, SessionFocus
    <2>3. CASE t # None
      <3>1. t \in Host /\ t \in Tab /\ t # Settings /\ ConnOf(t) = t
        BY <1>1, <2>1, <2>3, TabNames
      <3>2. /\ <<t>> \in Seq(Tab) /\ <<t>> \in Seq(Tab \ {Settings})
            /\ DOMAIN <<t>> = {1} /\ <<t>>[1] = t
        BY <3>1
      <3>3. ToSet(<<t>>) = {t} /\ IsInjective(<<t>>)
        BY <3>2 DEF ToSet, IsInjective
      <3>4. /\ session.tabs = <<t>> /\ session.active = t /\ session.conn = t
            /\ session.welcome = FALSE
        BY <2>1, <2>3
      <3>. QED
        BY <2>1, <2>3, <3>1, <3>2, <3>3, <3>4
           DEF TabInv, TabTypes, FocusFollowsTheTab, IsTab, SessionFocus
    <2>. QED
      BY <2>2, <2>3
  <1>. QED
    BY <1>2, <1>3, <1>4, <1>5 DEF Inv, ListInv

\* The invariant holds in every state of every behaviour of the model.
THEOREM TabsInvariant == Spec => []Inv
  <1>1. Inv /\ [Next]_vars => Inv'
    BY NextInv
  <1>2. Init => Inv
    BY InitInv
  <1>. QED
    BY <1>1, <1>2, PTL DEF Spec

\* Every variable has its type.
THEOREM TypesHold == Spec => []TypeOK
  <1>1. Inv => TypeOK
    BY DEF Inv, ListInv, TabInv, TypeOK
  <1>. QED
    BY <1>1, TabsInvariant, PTL

\* Once the saves have ended the file has the list of the store, whatever was saved,
\* failed, loaded and restarted, with the exceptions SettledListIsSaved names
\* (connectionSlice.ts, saveToMain).
THEOREM SettledIsSaved == Spec => []SettledListIsSaved
  <1>1. Inv => SettledListIsSaved
    <2> SUFFICES ASSUME Inv, agree, saves = <<>> PROVE Lasting(file) = Lasting(list)
      BY DEF SettledListIsSaved
    <2>1. Len(saves) = 0 /\ ~written
      BY EmptySeq, ListBasics DEF Inv, ListInv
    <2>. QED
      BY <2>1 DEF Inv, ListInv, Settled
  <1>. QED
    BY <1>1, TabsInvariant, PTL

\* No host falls out of its folder, in the store or in the file, in folders of any depth
\* (folderTreeOps.ts): those that are in none that exists were put there by a restore
\* from sync (domain_hosts.rs), or by the file that the program found first.
THEOREM HostsHaveFolders == Spec => []FoldersHoldTheirHosts
  <1>1. Inv => FoldersHoldTheirHosts
    BY DEF Inv, ListInv, Holding, Held, Misplaced, FoldersHoldTheirHosts
  <1>. QED
    BY <1>1, TabsInvariant, PTL

\* The window shows a tab it has, with its connection, or the welcome screen
\* (connectionSlice.ts and tabStateService.ts).
THEOREM FocusIsATab == Spec => []FocusFollowsTheTab
  <1>1. Inv => FocusFollowsTheTab
    BY DEF Inv, TabInv
  <1>. QED
    BY <1>1, TabsInvariant, PTL

\* Only a load that replaces the list leaves a tab without its host.
THEOREM TabsKeepTheirHosts == Spec => OnlyLoadsOrphanTabs
  <1>1. Inv /\ [Next]_vars => [SetList \/ Orphans' \subseteq Orphans]_vars
    BY NextInv
  <1>. QED
    BY <1>1, TabsInvariant, PTL DEF OnlyLoadsOrphanTabs, Spec

=============================================================================
