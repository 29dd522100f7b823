--------------------------- MODULE ShellSessionProofs ---------------------------
(***************************************************************************)
(* Proofs about ShellPanes and ShellSession, for every number of panes, of *)
(* shells and of saves.  First what the operations on one tree do to its   *)
(* leaves, then what they do to the groups of a host, then the inductive   *)
(* invariant of the host; then what keepTerminalsForSession keeps, what a  *)
(* snapshot of it brings back, and the invariant of the session with its   *)
(* chain of saves and its restarts.                                        *)
(***************************************************************************)
EXTENDS ShellSession, SequenceTheorems, FiniteSetTheorems, WellFoundedInduction, TLAPS

-----------------------------------------------------------------------------
(* One tree *)

\* A single pane is a tree with one leaf.
LEMMA SingleIsTree ==
    ASSUME NEW t
    PROVE  Tree(SinglePane(t)) /\ Leaves(SinglePane(t)) = {t}
<1>1. Nodes(SinglePane(t)) = {{t}} BY DEF Nodes, SinglePane
<1>2. Leaves(SinglePane(t)) = {t} BY DEF Leaves, SinglePane
<1> QED BY <1>1, <1>2 DEF Tree, SinglePane

\* A split adds one leaf to a tree and focuses it.
LEMMA SplitIsTree ==
    ASSUME NEW l, Tree(l), NEW at \in Leaves(l), NEW new, new \notin Leaves(l)
    PROVE  /\ Tree(SplitPane(l, at, new))
           /\ Leaves(SplitPane(l, at, new)) = Leaves(l) \cup {new}
           /\ SplitPane(l, at, new).focus = new
<1> DEFINE s == SplitPane(l, at, new)
           Grown(M) == IF at \in M THEN M \cup {new} ELSE M
<1>1. Nodes(s) = {{at}, {new}} \cup {Grown(M) : M \in Nodes(l)} BY DEF Nodes, SplitPane
<1>2. \A M \in Nodes(l) : M \subseteq Leaves(l) /\ new \notin M BY DEF Nodes, Leaves
<1>3. at # new OBVIOUS
<1>4. Leaves(s) = Leaves(l) \cup {new}
  <2>1. Leaves(s) = UNION Nodes(s) BY DEF Leaves, Nodes
  <2>2. Leaves(s) \subseteq Leaves(l) \cup {new} BY <2>1, <1>1, <1>2
  <2>3. Leaves(l) \in Nodes(l) /\ Grown(Leaves(l)) = Leaves(l) \cup {new} BY DEF Tree
  <2> QED BY <2>1, <2>2, <2>3, <1>1
<1>5. Leaves(s) \in Nodes(s)
  <2>1. Leaves(l) \in Nodes(l) /\ Grown(Leaves(l)) = Leaves(l) \cup {new} BY DEF Tree
  <2> QED BY <2>1, <1>1, <1>4
<1>6. ASSUME NEW N \in Nodes(s) PROVE s.first[N] \in N
  <2>1. s.first[N] = IF N = {new} THEN new ELSE l.first[N \ {new}]
        BY <1>6 DEF SplitPane, Nodes
  <2>2. CASE N = {new} BY <2>1, <2>2
  <2>3. CASE N = {at}
    <3>1. {at} \in Nodes(l) /\ N \ {new} = {at} BY <1>3, <2>3 DEF Tree
    <3> QED BY <2>1, <2>3, <3>1, <1>3 DEF Tree
  <2>4. CASE N # {new} /\ N # {at}
    <3>1. PICK M \in Nodes(l) : N = Grown(M) BY <1>1, <1>6, <2>4
    <3>2. N \ {new} = M BY <3>1, <1>2
    <3> QED BY <2>1, <2>4, <3>1, <3>2 DEF Tree
  <2> QED BY <2>2, <2>3, <2>4
<1>7. ASSUME NEW t \in Leaves(s) PROVE {t} \in Nodes(s)
  <2>1. CASE t = new \/ t = at BY <2>1, <1>1
  <2>2. CASE t # new /\ t # at
    <3>1. {t} \in Nodes(l) BY <1>4, <1>7, <2>2 DEF Tree
    <3>2. Grown({t}) = {t} BY <2>2
    <3> QED BY <3>1, <3>2, <1>1
  <2> QED BY <2>1, <2>2
<1>8. ASSUME NEW N \in Nodes(s), N # Leaves(s)
      PROVE  \E M \in Nodes(s) : N \cap M = {} /\ N \cup M \in Nodes(s)
  <2>1. Grown({at}) = {at, new} /\ {at} \in Nodes(l) BY DEF Tree
  <2>2. {at, new} \in Nodes(s) /\ {at} \in Nodes(s) /\ {new} \in Nodes(s) BY <2>1, <1>1
  <2>3. CASE N = {at}
    <3>1. N \cap {new} = {} /\ N \cup {new} = {at, new} BY <2>3, <1>3
    <3> QED BY <3>1, <2>2
  <2>4. CASE N = {new}
    <3>1. N \cap {at} = {} /\ N \cup {at} = {at, new} BY <2>4, <1>3
    <3> QED BY <3>1, <2>2
  <2>5. CASE N # {at} /\ N # {new}
    <3>1. PICK K \in Nodes(l) : N = Grown(K) BY <1>1, <1>8, <2>5
    <3>2. K # Leaves(l) BY <3>1, <1>4, <1>8
    <3>3. PICK M \in Nodes(l) : K \cap M = {} /\ K \cup M \in Nodes(l) BY <3>1, <3>2 DEF Tree
    <3>4. Grown(K) \cap Grown(M) = {}
      <4>1. new \notin K /\ new \notin M BY <1>2, <3>1, <3>3
      <4>2. ~ (at \in K /\ at \in M) BY <3>3
      <4> QED BY <4>1, <4>2, <3>3
    <3>5. Grown(K) \cup Grown(M) = Grown(K \cup M) OBVIOUS
    <3>6. Grown(M) \in Nodes(s) /\ Grown(K \cup M) \in Nodes(s) BY <3>3, <1>1
    <3> QED BY <3>1, <3>4, <3>5, <3>6
  <2> QED BY <2>3, <2>4, <2>5
<1>9. s.focus = new BY DEF SplitPane
<1>10. ASSUME NEW M \in Nodes(s), NEW N \in Nodes(s)
       PROVE  M \cap N = {} \/ M \subseteq N \/ N \subseteq M
  <2>1. \A K \in Nodes(l) : at \in K \/ K \cap {at, new} = {} BY <1>2
  <2>2. \A K \in Nodes(s) : K \in {{at}, {new}} \/ \E L \in Nodes(l) : K = Grown(L) BY <1>1
  <2>3. CASE M \in {{at}, {new}} \/ N \in {{at}, {new}} BY <2>3
  <2>4. CASE M \notin {{at}, {new}} /\ N \notin {{at}, {new}}
    <3>1. PICK K \in Nodes(l), L \in Nodes(l) : M = Grown(K) /\ N = Grown(L)
          BY <1>10, <2>2, <2>4
    <3>2. K \cap L = {} \/ K \subseteq L \/ L \subseteq K BY DEF Tree
    <3>3. new \notin K /\ new \notin L BY <1>2
    <3>4. K \cap L = {} => Grown(K) \cap Grown(L) = {} BY <3>3
    <3>5. K \subseteq L => Grown(K) \subseteq Grown(L) OBVIOUS
    <3>6. L \subseteq K => Grown(L) \subseteq Grown(K) OBVIOUS
    <3> QED BY <3>1, <3>2, <3>4, <3>5, <3>6
  <2> QED BY <2>3, <2>4
<1> HIDE DEF s
<1>11. Tree(s)
  <2>1. s.focus \in Leaves(s) BY <1>4, <1>9
  <2> QED BY <1>5, <1>6, <1>7, <1>8, <1>10, <2>1 DEF Tree
<1> QED BY <1>4, <1>9, <1>11 DEF s

\* In a split every leaf has a sibling.
LEMMA SiblingExists ==
    ASSUME NEW l, Tree(l), IsSplit(l), NEW t \in Leaves(l)
    PROVE  /\ Sibling(l, t) \in Nodes(l) /\ t \notin Sibling(l, t)
           /\ Sibling(l, t) \cup {t} \in Nodes(l)
<1>1. {t} \in Nodes(l) /\ {t} # Leaves(l) BY DEF Tree, IsSplit
<1>2. PICK M \in Nodes(l) : {t} \cap M = {} /\ {t} \cup M \in Nodes(l) BY <1>1 DEF Tree
<1>3. t \notin M /\ M \cup {t} = {t} \cup M BY <1>2
<1> QED BY <1>2, <1>3 DEF Sibling

\* Dropping a shell from a split takes one leaf from the tree.
LEMMA DropIsTree ==
    ASSUME NEW l, Tree(l), IsSplit(l), NEW t \in Leaves(l)
    PROVE  Tree(Drop(l, t)) /\ Leaves(Drop(l, t)) = Leaves(l) \ {t}
<1> DEFINE d == Drop(l, t)
           heir == l.first[Sibling(l, t)]
<1>1. Nodes(d) = {M \ {t} : M \in Nodes(l)} \ {{}} BY DEF Nodes, Drop
<1>2. \A M \in Nodes(l) : M \subseteq Leaves(l) /\ l.first[M] \in M
      BY DEF Tree, Nodes, Leaves
<1>3. /\ Sibling(l, t) \in Nodes(l) /\ t \notin Sibling(l, t)
      /\ Sibling(l, t) \cup {t} \in Nodes(l)
      BY SiblingExists
<1>4. heir \in Leaves(l) \ {t} BY <1>2, <1>3
<1>5. Leaves(l) \in Nodes(l) BY DEF Tree
<1>6. Leaves(d) = Leaves(l) \ {t}
  <2>1. Leaves(d) = UNION Nodes(d) BY DEF Leaves, Nodes
  <2>2. Leaves(d) \subseteq Leaves(l) \ {t} BY <2>1, <1>1, <1>2
  <2>3. Leaves(l) \ {t} \in Nodes(d) BY <1>1, <1>4, <1>5
  <2> QED BY <2>1, <2>2, <2>3
<1>7. Leaves(d) \in Nodes(d) BY <1>1, <1>4, <1>5, <1>6
<1>8. ASSUME NEW N \in Nodes(d) PROVE d.first[N] \in N
  <2>1. d.first[N] = IF N \in Nodes(l) THEN l.first[N]
                     ELSE IF l.first[N \cup {t}] = t THEN heir ELSE l.first[N \cup {t}]
        BY <1>8 DEF Drop, Nodes
  <2>2. CASE N \in Nodes(l) BY <2>1, <2>2, <1>2
  <2>3. CASE N \notin Nodes(l)
    <3>1. PICK M \in Nodes(l) : N = M \ {t} BY <1>1, <1>8
    <3>2. t \in M /\ M = N \cup {t} BY <2>3, <3>1
    <3>3. CASE l.first[M] # t
      <4>1. l.first[M] \in M BY <1>2, <3>1
      <4>2. d.first[N] = l.first[M] BY <2>1, <2>3, <3>2, <3>3
      <4> QED BY <4>1, <4>2, <3>1, <3>3
    <3>4. CASE l.first[M] = t
      <4>1. d.first[N] = heir BY <2>1, <2>3, <3>2, <3>4
      <4>2. M # {t} BY <3>1, <1>1, <1>8
      <4>3. Sibling(l, t) \subseteq M
        <5>1. ~ (M \subseteq Sibling(l, t)) BY <1>3, <3>2
        <5>2. CASE M \cap Sibling(l, t) = {}
          <6>1. ~ (M \subseteq Sibling(l, t) \cup {t}) BY <5>2, <4>2, <3>2
          <6>2. M \cap (Sibling(l, t) \cup {t}) # {} BY <3>2
          <6> QED BY <6>1, <6>2, <1>3 DEF Tree
        <5> QED BY <5>1, <5>2, <1>3 DEF Tree
      <4>4. heir \in Sibling(l, t) BY <1>2, <1>3
      <4> QED BY <4>1, <4>3, <4>4, <1>4, <3>1
    <3> QED BY <3>3, <3>4
  <2> QED BY <2>2, <2>3
<1>9. ASSUME NEW s \in Leaves(d) PROVE {s} \in Nodes(d)
  <2>1. {s} \in Nodes(l) /\ {s} \ {t} = {s} BY <1>6, <1>9 DEF Tree
  <2> QED BY <2>1, <1>1
<1>10. ASSUME NEW M \in Nodes(d), NEW N \in Nodes(d)
       PROVE  M \cap N = {} \/ M \subseteq N \/ N \subseteq M
  <2>1. PICK K \in Nodes(l), L \in Nodes(l) : M = K \ {t} /\ N = L \ {t} BY <1>1, <1>10
  <2>2. K \cap L = {} \/ K \subseteq L \/ L \subseteq K BY DEF Tree
  <2> QED BY <2>1, <2>2
<1>11. ASSUME NEW N \in Nodes(d), N # Leaves(d)
       PROVE  \E M \in Nodes(d) : N \cap M = {} /\ N \cup M \in Nodes(d)
  <2>1. PICK K \in Nodes(l) : N = K \ {t} /\ N # {} BY <1>1, <1>11
  <2>2. K # Leaves(l) BY <2>1, <1>6, <1>11
  <2>3. PICK M \in Nodes(l) : K \cap M = {} /\ K \cup M \in Nodes(l) BY <2>1, <2>2 DEF Tree
  <2>4. CASE M # {t}
    <3>1. M \ {t} \in Nodes(d) BY <2>3, <2>4, <1>1, <1>2
    <3>2. N \cap (M \ {t}) = {} /\ N \cup (M \ {t}) = (K \cup M) \ {t} BY <2>1, <2>3
    <3>3. (K \cup M) \ {t} \in Nodes(d) BY <2>1, <2>3, <1>1
    <3> QED BY <3>1, <3>2, <3>3
  <2>5. CASE M = {t}
    <3>1. K = N BY <2>1, <2>3, <2>5
    <3>2. K \cup {t} # Leaves(l) BY <3>1, <1>6, <1>11, <2>1, <2>3, <2>5
    <3>3. PICK Q \in Nodes(l) : (K \cup {t}) \cap Q = {} /\ (K \cup {t}) \cup Q \in Nodes(l)
          BY <2>3, <2>5, <3>2 DEF Tree
    <3>4. Q \ {t} = Q /\ Q # {} BY <3>3, <1>2
    <3>5. Q \in Nodes(d) BY <3>3, <3>4, <1>1
    <3>6. N \cap Q = {} /\ N \cup Q = ((K \cup {t}) \cup Q) \ {t} BY <3>1, <3>3, <2>3, <2>5
    <3>7. ((K \cup {t}) \cup Q) \ {t} \in Nodes(d) BY <3>3, <3>6, <2>1, <1>1
    <3> QED BY <3>5, <3>6, <3>7
  <2> QED BY <2>4, <2>5
<1>12. d.focus \in Leaves(d)
  <2>1. d.focus = IF l.focus = t THEN heir ELSE l.focus BY DEF Drop
  <2>2. l.focus \in Leaves(l) BY DEF Tree
  <2> QED BY <2>1, <2>2, <1>4, <1>6
<1> HIDE DEF d
<1>13. Tree(d) BY <1>7, <1>8, <1>9, <1>10, <1>11, <1>12 DEF Tree
<1> QED BY <1>6, <1>13 DEF d
-----------------------------------------------------------------------------
(* The groups of a host *)

\* findLayoutOwner finds the one group that shows a shell.
LEMMA OwnerIsUnique ==
    ASSUME NEW g, Sound(g)
    PROVE  /\ \A o \in DOMAIN g : \A t \in Leaves(g[o]) : OwnerOf(g, t) = o
           /\ \A t : t \notin InSplits(g) => OwnerOf(g, t) = NoShell
           /\ NoShell \notin DOMAIN g
           /\ DOMAIN g \subseteq InSplits(g)
<1>1. ASSUME NEW o \in DOMAIN g, NEW t \in Leaves(g[o]) PROVE OwnerOf(g, t) = o
  <2>1. \A p \in DOMAIN g : t \in Leaves(g[p]) => p = o BY <1>1 DEF Sound
  <2>2. Holders(g, t) = {o} BY <2>1, <1>1 DEF Holders
  <2>3. t \in DOMAIN g => t = o BY <2>1 DEF Sound
  <2> QED BY <2>2, <2>3 DEF OwnerOf
<1>2. DOMAIN g \subseteq InSplits(g) BY DEF Sound, InSplits
<1>3. ASSUME NEW t, t \notin InSplits(g) PROVE OwnerOf(g, t) = NoShell
  <2>1. Holders(g, t) = {} BY <1>3 DEF Holders, InSplits
  <2> QED BY <2>1, <1>2, <1>3 DEF OwnerOf
<1>4. NoShell \notin DOMAIN g BY <1>2 DEF Sound
<1> QED BY <1>1, <1>2, <1>3, <1>4

\* Taking a group away keeps the others as they are.
LEMMA WithoutIsSound ==
    ASSUME NEW g, Sound(g), NEW o \in DOMAIN g
    PROVE  /\ Sound(Without(g, o))
           /\ InSplits(Without(g, o)) = InSplits(g) \ Leaves(g[o])
           /\ DOMAIN Without(g, o) = DOMAIN g \ {o}
           /\ DOMAIN g \cap Leaves(g[o]) = {o}
<1> DEFINE w == Without(g, o)
<1>1. DOMAIN w = DOMAIN g \ {o} /\ \A p \in DOMAIN w : w[p] = g[p] BY DEF Without
<1>2. InSplits(w) = UNION {Leaves(g[p]) : p \in DOMAIN g \ {o}} BY <1>1 DEF InSplits
<1>3. InSplits(w) = InSplits(g) \ Leaves(g[o])
  <2>1. InSplits(w) \subseteq InSplits(g) \ Leaves(g[o]) BY <1>2 DEF InSplits, Sound
  <2>2. InSplits(g) \ Leaves(g[o]) \subseteq InSplits(w) BY <1>2 DEF InSplits
  <2> QED BY <2>1, <2>2
<1>4. DOMAIN g \cap Leaves(g[o]) = {o} BY DEF Sound
<1>5. Sound(w) BY <1>1, <1>3 DEF Sound
<1> QED BY <1>1, <1>3, <1>4, <1>5

\* A tree whose shells are in no other group can be added under one of them.
LEMMA WithIsSound ==
    ASSUME NEW g, Sound(g), NEW o, o \notin DOMAIN g,
           NEW l, Tree(l), IsSplit(l), o \in Leaves(l), NoShell \notin Leaves(l),
           Leaves(l) \cap InSplits(g) = {}
    PROVE  /\ Sound(With(g, o, l))
           /\ InSplits(With(g, o, l)) = InSplits(g) \cup Leaves(l)
           /\ DOMAIN With(g, o, l) = DOMAIN g \cup {o}
           /\ With(g, o, l)[o] = l
<1> DEFINE w == With(g, o, l)
<1>1. DOMAIN w = DOMAIN g \cup {o} /\ w[o] = l /\ \A p \in DOMAIN g : w[p] = g[p] BY DEF With
<1>2. InSplits(w) = InSplits(g) \cup Leaves(l) BY <1>1 DEF InSplits
<1>3. \A p \in DOMAIN g : Leaves(g[p]) \cap Leaves(l) = {} BY DEF InSplits
<1>4. \A p \in DOMAIN w : Tree(w[p]) /\ IsSplit(w[p]) /\ p \in Leaves(w[p]) BY <1>1 DEF Sound
<1>5. \A p, q \in DOMAIN w : p # q => Leaves(w[p]) \cap Leaves(w[q]) = {}
      BY <1>1, <1>3 DEF Sound
<1>6. NoShell \notin InSplits(w) BY <1>2 DEF Sound
<1>7. Sound(w) BY <1>4, <1>5, <1>6 DEF Sound
<1> QED BY <1>1, <1>2, <1>7

\* With over an entry is With over the others.
LEMMA WithReplaces ==
    ASSUME NEW g, NEW o, NEW l
    PROVE  With(g, o, l) = With(Without(g, o), o, l)
<1>1. DOMAIN Without(g, o) = DOMAIN g \ {o} /\ \A p \in DOMAIN g \ {o} : Without(g, o)[p] = g[p]
      BY DEF Without
<1>2. DOMAIN Without(g, o) \cup {o} = DOMAIN g \cup {o} BY <1>1
<1>3. \A p \in DOMAIN g \cup {o} :
         (IF p = o THEN l ELSE g[p]) = (IF p = o THEN l ELSE Without(g, o)[p]) BY <1>1
<1> QED BY <1>2, <1>3 DEF With

\* What detachTermFromGroups does: the shell leaves its split, and the shell that
\* inherits the tab is no extra pane any more.
LEMMA DetachIsSound ==
    ASSUME NEW g, Sound(g), NEW t \in InSplits(g)
    PROVE  LET o == OwnerOf(g, t)
               h == Heir(g, t)
               next == Detach(g, t)
           IN  /\ o \in DOMAIN g /\ t \in Leaves(g[o])
               /\ h \in Leaves(g[o]) \ {t}
               /\ Sound(next)
               /\ InSplits(next) \subseteq InSplits(g) \ {t}
               /\ InSplits(next) \ DOMAIN next = (InSplits(g) \ DOMAIN g) \ {t, h}
               /\ h \in DOMAIN next => next[h].focus \in Leaves(g[o]) \ {t}
<1> DEFINE o == OwnerOf(g, t)
           h == Heir(g, t)
           next == Detach(g, t)
           r == Rest(g, t)
           others == Without(g, o)
<1>1. o \in DOMAIN g /\ t \in Leaves(g[o]) BY OwnerIsUnique DEF InSplits
<1>2. Tree(g[o]) /\ IsSplit(g[o]) /\ o \in Leaves(g[o]) BY <1>1 DEF Sound
<1>3. Tree(r) /\ Leaves(r) = Leaves(g[o]) \ {t} BY <1>1, <1>2, DropIsTree DEF Rest
<1>4. h \in Leaves(r)
  <2>1. FirstLeaf(r) \in Leaves(r) BY <1>3 DEF Tree, FirstLeaf
  <2> QED BY <2>1 DEF Heir
<1>5. h = o \/ o = t BY <1>2, <1>3 DEF Heir
<1>6. /\ Sound(others)
      /\ InSplits(others) = InSplits(g) \ Leaves(g[o])
      /\ DOMAIN others = DOMAIN g \ {o}
      /\ DOMAIN g \cap Leaves(g[o]) = {o}
      BY <1>1, WithoutIsSound
<1>7. Leaves(g[o]) \subseteq InSplits(g) BY <1>1 DEF InSplits
<1>8. NoShell \notin Leaves(r) /\ Leaves(r) \cap InSplits(others) = {} /\ h \notin DOMAIN others
  <2>1. NoShell \notin Leaves(r) BY <1>3, <1>7 DEF Sound
  <2>2. Leaves(r) \cap InSplits(others) = {} BY <1>3, <1>6
  <2>3. h \notin DOMAIN others BY <1>3, <1>4, <1>6
  <2> QED BY <2>1, <2>2, <2>3
<1>9. CASE IsSplit(r)
  <2>1. next = With(others, h, r) BY <1>9 DEF Detach
  <2>2. /\ Sound(next) /\ InSplits(next) = InSplits(others) \cup Leaves(r)
        /\ DOMAIN next = DOMAIN others \cup {h} /\ next[h] = r
        BY <2>1, <1>3, <1>4, <1>6, <1>8, <1>9, WithIsSound
  <2>3. next[h].focus \in Leaves(g[o]) \ {t} BY <2>2, <1>3 DEF Tree
  <2>4. InSplits(next) = InSplits(g) \ {t} BY <2>2, <1>1, <1>3, <1>6, <1>7
  <2>5. InSplits(next) \ DOMAIN next = (InSplits(g) \ DOMAIN g) \ {t, h}
        BY <2>2, <2>4, <1>5, <1>6, <1>1
  <2> QED BY <1>1, <1>3, <1>4, <2>2, <2>3, <2>4, <2>5
<1>10. CASE ~ IsSplit(r)
  <2>1. next = others BY <1>10 DEF Detach
  <2>2. Leaves(r) = {h} BY <1>4, <1>10 DEF IsSplit
  <2>3. Leaves(g[o]) = {t, h} BY <2>2, <1>1, <1>3
  <2>4. InSplits(next) \ DOMAIN next = (InSplits(g) \ DOMAIN g) \ {t, h} BY <2>1, <2>3, <1>2, <1>6
  <2>5. h \notin DOMAIN next BY <2>1, <1>8
  <2> QED BY <2>1, <2>3, <2>4, <2>5, <1>1, <1>3, <1>4, <1>6
<1> QED BY <1>9, <1>10
-----------------------------------------------------------------------------
(* The host *)

Places == /\ created \in 0..MaxShells /\ Tabs \subseteq 1..created
          /\ \A t \in Tabs : seat[t] \in 1..created
Marks == /\ synced \in Tabs \cup {NoShell}
         /\ navigating \in 1..created \cup {NoShell} /\ revived \subseteq 1..created
Held  == DOMAIN groups \subseteq Tabs \cup revived /\ hidden \subseteq Tabs

\* The inductive invariant: the groups are sound trees, the tabs they hide are
\* their extra panes, and the tab that owns one is there or was brought back by a
\* late answer; so is the shell with the focus, and no mark is on a shell to come.
HostInv == /\ Places /\ Marks /\ Held
           /\ Sound(groups)
           /\ HiddenAreExtraPanes
           /\ ActiveIsATab

\* A non-empty set of tabs has a first and a last one.
LEMMA EndsExist ==
    ASSUME Places, NEW S, S \subseteq Tabs, S # {}
    PROVE  FirstOf(S) \in S /\ LastOf(S) \in S
<1>1. created \in Nat /\ \A t \in S : seat[t] \in Nat /\ seat[t] <= created
      BY PanesAssumption DEF Places
<1>2. \E t \in S : \A u \in S : seat[t] <= seat[u]
  <2> DEFINE T == {seat[t] : t \in S}
  <2>1. T \subseteq Nat /\ T # {} BY <1>1
  <2>2. \E x \in T : \A y \in T : ~ (<<y, x>> \in OpToRel(<, Nat))
        BY <2>1, NatLessThanWellFounded, WFMin
  <2>3. PICK x \in T : \A y \in T : ~ (y < x) BY <2>1, <2>2 DEF OpToRel
  <2>4. PICK t \in S : x = seat[t] OBVIOUS
  <2>5. ASSUME NEW u \in S PROVE seat[t] <= seat[u]
    <3>1. seat[u] \in T OBVIOUS
    <3>2. ~ (seat[u] < seat[t]) BY <3>1, <2>3, <2>4
    <3> QED BY <3>2, <1>1
  <2> QED BY <2>5
<1>3. \E t \in S : \A u \in S : seat[u] <= seat[t]
  <2> DEFINE T == {created - seat[t] : t \in S}
  <2>1. T \subseteq Nat /\ T # {} BY <1>1
  <2>2. \E x \in T : \A y \in T : ~ (<<y, x>> \in OpToRel(<, Nat))
        BY <2>1, NatLessThanWellFounded, WFMin
  <2>3. PICK x \in T : \A y \in T : ~ (y < x) BY <2>1, <2>2 DEF OpToRel
  <2>4. PICK t \in S : x = created - seat[t] OBVIOUS
  <2>5. ASSUME NEW u \in S PROVE seat[u] <= seat[t]
    <3>1. created - seat[u] \in T OBVIOUS
    <3>2. ~ (created - seat[u] < created - seat[t]) BY <3>1, <2>3, <2>4
    <3> QED BY <3>2, <1>1
  <2> QED BY <2>5
<1> QED BY <1>2, <1>3 DEF FirstOf, LastOf

\* What the marks and the splits of a host refer to are shells of it.
LEMMA IdsAreShells ==
    ASSUME HostInv
    PROVE  /\ Tabs \cup revived \subseteq 1..created /\ created \in Nat
           /\ 1..created \subseteq Shell /\ NoShell \notin Tabs \cup revived
           /\ InSplits(groups) \subseteq Tabs \cup revived
           /\ DOMAIN groups \subseteq InSplits(groups)
           /\ hidden \subseteq Tabs
<1>1. created \in Nat /\ created <= MaxShells /\ MaxShells \in Nat
      BY PanesAssumption DEF HostInv, Places
<1>2. Tabs \cup revived \subseteq 1..created BY DEF HostInv, Places, Marks
<1>3. 1..created \subseteq Shell /\ NoShell \notin 1..created BY <1>1 DEF Shell, NoShell
<1>4. DOMAIN groups \subseteq InSplits(groups) BY OwnerIsUnique DEF HostInv
<1>5. hidden \subseteq Tabs /\ DOMAIN groups \subseteq Tabs \cup revived BY DEF HostInv, Held
<1>6. InSplits(groups) \ DOMAIN groups = hidden BY DEF HostInv, HiddenAreExtraPanes
<1> QED BY <1>1, <1>2, <1>3, <1>4, <1>5, <1>6

\* The shell with the focus is a tab or was brought back.
LEMMA FocusIsAShell ==
    ASSUME HostInv, active # NoShell PROVE active \in Tabs \cup revived
BY DEF HostInv, ActiveIsATab

\* What the splits of a later state hold, when they hold no more than earlier ones.
LEMMA SplitsStayHeld ==
    ASSUME Sound(groups'), InSplits(groups') \subseteq Tabs' \cup revived', hidden' \subseteq Tabs'
    PROVE  Held'
<1>1. DOMAIN groups' \subseteq InSplits(groups') BY OwnerIsUnique
<1> QED BY <1>1 DEF Held

\* A new shell has an id of its own and the last place.
LEMMA ShellIsNew ==
    ASSUME HostInv, created < MaxShells, created' = New, seat' = Placed(New)
    PROVE  /\ Places' /\ Tabs' = Tabs \cup {New} /\ New \notin Tabs \cup revived
           /\ New # NoShell /\ New \notin InSplits(groups)
           /\ 1..created \subseteq 1..created'
<1>1. created \in 0..MaxShells /\ Tabs \subseteq 1..created /\ MaxShells \in Nat
      BY PanesAssumption DEF HostInv, Places
<1>2. New \in 1..created' /\ New \notin 1..created /\ New # NoShell /\ created' \in 0..MaxShells
      BY <1>1 DEF New, NoShell
<1>3. Tabs' = Tabs \cup {New} BY DEF Tabs, Placed
<1>4. \A t \in Tabs' : seat'[t] = IF t = New THEN New ELSE seat[t] BY <1>3 DEF Placed, Tabs
<1>5. 1..created \subseteq 1..created' BY <1>1 DEF New
<1>6. \A t \in Tabs' : seat'[t] \in 1..created' BY <1>2, <1>3, <1>4, <1>5 DEF HostInv, Places
<1>7. Tabs' \subseteq 1..created' BY <1>1, <1>2, <1>3, <1>5
<1>8. Places' BY <1>2, <1>6, <1>7 DEF Places
<1>9. Tabs \cup revived \subseteq 1..created /\ InSplits(groups) \subseteq 1..created
      BY IdsAreShells
<1> QED BY <1>2, <1>3, <1>5, <1>8, <1>9

\* Closing shells leaves the places of the others.
LEMMA ShellsLeave ==
    ASSUME HostInv, UNCHANGED created, NEW S, S \subseteq Tabs, seat' = Keep(S)
    PROVE  Places' /\ Tabs' = S
<1>1. Tabs' = S /\ \A t \in S : seat'[t] = seat[t] BY DEF Tabs, Keep
<1>2. Tabs' \subseteq 1..created' BY <1>1 DEF HostInv, Places
<1>3. \A t \in Tabs' : seat'[t] \in 1..created' BY <1>1 DEF HostInv, Places
<1> QED BY <1>1, <1>2, <1>3 DEF HostInv, Places

\* Another tab may be given the focus, and a late answer gives it to any shell.
LEMMA SelectKeeps ==
    ASSUME HostInv, NEW t \in 1..created,
           active' = Focused(t), UNCHANGED <<seat, hidden, groups, created>>, Marks',
           revived \subseteq revived', t \in Tabs \cup revived'
    PROVE  HostInv'
<1>1. Focused(t) \in Tabs \cup revived'
  <2>1. CASE t \in Bar /\ t \in DOMAIN groups
    <3>1. groups[t].focus \in Leaves(groups[t]) BY <2>1 DEF HostInv, Sound, Tree
    <3>2. groups[t].focus \in Tabs \cup revived BY <3>1, <2>1, IdsAreShells DEF InSplits
    <3> QED BY <3>2, <2>1 DEF Focused
  <2>2. CASE ~ (t \in Bar /\ t \in DOMAIN groups) BY <2>2 DEF Focused
  <2> QED BY <2>1, <2>2
<1>2. Tabs' = Tabs /\ Places' /\ Sound(groups') BY DEF HostInv, Tabs, Places
<1>3. Held' BY <1>2 DEF HostInv, Held
<1>4. HiddenAreExtraPanes' BY DEF HostInv, HiddenAreExtraPanes
<1>5. ActiveIsATab' BY <1>1, <1>2 DEF ActiveIsATab
<1> QED BY <1>2, <1>3, <1>4, <1>5 DEF HostInv

\* createTerminal adds a shell with a place of its own.
LEMMA CreateKeeps ==
    ASSUME HostInv, NEW b, CreateTerminal(b) PROVE HostInv'
<1>1. /\ Places' /\ Tabs' = Tabs \cup {New} /\ 1..created \subseteq 1..created'
      BY ShellIsNew DEF CreateTerminal
<1>2. Marks' BY <1>1 DEF CreateTerminal, HostInv, Marks
<1>3. Sound(groups') /\ Held' BY <1>1 DEF CreateTerminal, HostInv, Held
<1>4. HiddenAreExtraPanes' BY DEF CreateTerminal, HostInv, HiddenAreExtraPanes
<1>5. ActiveIsATab' BY <1>1 DEF CreateTerminal, ActiveIsATab
<1> QED BY <1>1, <1>2, <1>3, <1>4, <1>5 DEF HostInv

\* ensureTerminal adds a shell, or focuses the first.
LEMMA EnsureKeeps == ASSUME HostInv, EnsureTerminal PROVE HostInv'
<1>1. CASE CreateTerminal(FALSE) BY <1>1, CreateKeeps
<1>2. CASE /\ Bar # {} /\ active' = FirstOf(Bar)
           /\ UNCHANGED <<seat, hidden, groups, synced, created, navigating, revived>>
  <2>1. FirstOf(Bar) \in Tabs BY <1>2, EndsExist DEF Bar, HostInv
  <2>2. Tabs' = Tabs /\ Places' /\ Marks' BY <1>2 DEF HostInv, Tabs, Places, Marks
  <2>3. Sound(groups') /\ Held' /\ HiddenAreExtraPanes'
        BY <1>2, <2>2 DEF HostInv, HiddenAreExtraPanes, Held
  <2>4. ActiveIsATab' BY <1>2, <2>1, <2>2 DEF ActiveIsATab
  <2> QED BY <2>2, <2>3, <2>4 DEF HostInv
<1> QED BY <1>1, <1>2 DEF EnsureTerminal

\* Closing a tab of the bar or a pane closes the whole group and nothing else.
LEMMA CloseGroupKeeps ==
    ASSUME HostInv, NEW t, CloseTerminalGroup(t)
    PROVE  HostInv'
<1> DEFINE o == OwnerOf(groups, t)
           gone == Group(t)
           left == Tabs \ gone
<1>1. /\ Sound(groups') /\ InSplits(groups') = InSplits(groups) \ gone
      /\ InSplits(groups') \ DOMAIN groups' = (InSplits(groups) \ DOMAIN groups) \ gone
  <2>1. CASE t \in InSplits(groups)
    <3>1. o \in DOMAIN groups /\ t \in Leaves(groups[o]) BY <2>1, OwnerIsUnique DEF HostInv, InSplits
    <3>2. gone = Leaves(groups[o]) BY <3>1, OwnerIsUnique DEF Group, HostInv
    <3>3. groups' = Without(groups, o) BY DEF CloseTerminalGroup
    <3> HIDE DEF gone, o
    <3>4. /\ Sound(Without(groups, o))
          /\ InSplits(Without(groups, o)) = InSplits(groups) \ Leaves(groups[o])
          /\ DOMAIN Without(groups, o) = DOMAIN groups \ {o}
          /\ DOMAIN groups \cap Leaves(groups[o]) = {o}
          BY <3>1, WithoutIsSound DEF HostInv
    <3>5. /\ Sound(groups') /\ InSplits(groups') = InSplits(groups) \ gone
          /\ DOMAIN groups' = DOMAIN groups \ {o} /\ DOMAIN groups \cap gone = {o}
          BY <3>2, <3>3, <3>4
    <3> QED BY <3>5
  <2>2. CASE t \notin InSplits(groups)
    <3>1. o = NoShell /\ o \notin DOMAIN groups /\ DOMAIN groups \subseteq InSplits(groups)
          BY <2>2, OwnerIsUnique DEF HostInv
    <3>2. gone = {t} BY <3>1 DEF Group
    <3>3. DOMAIN groups' = DOMAIN groups /\ \A p \in DOMAIN groups : groups'[p] = groups[p]
          BY <3>1 DEF CloseTerminalGroup, Without
    <3>4. InSplits(groups') = InSplits(groups) BY <3>3 DEF InSplits
    <3>5. Sound(groups') BY <3>3, <3>4 DEF Sound, HostInv
    <3> QED BY <3>1, <3>2, <3>3, <3>4, <3>5, <2>2
  <2> QED BY <2>1, <2>2
<1>2. Places' /\ Tabs' = left BY ShellsLeave DEF CloseTerminalGroup
<1>3. Held'
  <2>1. InSplits(groups) \subseteq Tabs \cup revived /\ hidden \subseteq Tabs BY IdsAreShells
  <2>2. hidden' = hidden \ gone /\ revived' = revived \ gone BY DEF CloseTerminalGroup
  <2> HIDE DEF gone
  <2>3. InSplits(groups') \subseteq Tabs' \cup revived' /\ hidden' \subseteq Tabs'
        BY <2>1, <2>2, <1>1, <1>2
  <2> QED BY <2>3, <1>1, SplitsStayHeld
<1>4. Marks' BY <1>2 DEF CloseTerminalGroup, HostInv, Marks
<1>5. HiddenAreExtraPanes' BY <1>1 DEF CloseTerminalGroup, HostInv, HiddenAreExtraPanes
<1>7. ActiveIsATab'
  <2>1. ActiveIsATab BY DEF HostInv
  <2>2. CASE active \notin gone
    <3>1. active' = active /\ revived' = revived \ gone BY <2>2 DEF CloseTerminalGroup
    <3> HIDE DEF gone
    <3> QED BY <2>1, <2>2, <3>1, <1>2 DEF ActiveIsATab
  <2>3. CASE active \in gone /\ left \ hidden # {}
    <3>1. LastOf(left \ hidden) \in left BY <2>3, EndsExist DEF HostInv
    <3> QED BY <2>3, <3>1, <1>2 DEF CloseTerminalGroup, ActiveIsATab
  <2>4. CASE active \in gone /\ left \ hidden = {} /\ left # {}
    <3>1. FirstOf(left) \in left BY <2>4, EndsExist DEF HostInv
    <3> QED BY <2>4, <3>1, <1>2 DEF CloseTerminalGroup, ActiveIsATab
  <2>5. CASE active \in gone /\ left = {} BY <2>5, <1>2 DEF CloseTerminalGroup, ActiveIsATab
  <2> QED BY <2>2, <2>3, <2>4, <2>5
<1> QED BY <1>1, <1>2, <1>3, <1>4, <1>5, <1>7 DEF HostInv
\* A shell that exits leaves its split to the other panes.
LEMMA LeaveSplitKeeps ==
    ASSUME HostInv, NEW t \in Tabs, OwnerOf(groups, t) # NoShell, LeaveSplit(t)
    PROVE  HostInv'
<1> DEFINE o == OwnerOf(groups, t)
           h == Heir(groups, t)
           next == Detach(groups, t)
<1>1. t \in InSplits(groups) BY OwnerIsUnique DEF HostInv
<1>2. /\ o \in DOMAIN groups /\ t \in Leaves(groups[o])
      /\ h \in Leaves(groups[o]) \ {t}
      /\ Sound(next)
      /\ InSplits(next) \subseteq InSplits(groups) \ {t}
      /\ InSplits(next) \ DOMAIN next = (InSplits(groups) \ DOMAIN groups) \ {t, h}
      /\ h \in DOMAIN next => next[h].focus \in Leaves(groups[o]) \ {t}
      BY <1>1, DetachIsSound DEF HostInv
<1>3. Leaves(groups[o]) \subseteq Tabs \cup revived /\ hidden \subseteq Tabs
      BY <1>2, IdsAreShells DEF InSplits
<1>4. Places' /\ Tabs' = Tabs \ {t} BY ShellsLeave DEF LeaveSplit
<1> HIDE DEF o, h, next
<1>5. groups' = next /\ hidden' = hidden \ {t, h} BY DEF LeaveSplit, h, next
<1>6. Marks' /\ revived' = revived BY <1>4 DEF LeaveSplit, HostInv, Marks
<1>7. HiddenAreExtraPanes' BY <1>2, <1>5 DEF HostInv, HiddenAreExtraPanes
<1>8. ActiveIsATab'
  <2>1. active \in Tabs \cup revived BY DEF HostInv, ActiveIsATab
  <2>2. active' = IF active # t THEN active ELSE IF h \in DOMAIN next THEN next[h].focus ELSE h
        BY DEF LeaveSplit, h, next
  <2>3. active' \in Tabs' \cup revived' BY <2>1, <2>2, <1>2, <1>3, <1>4, <1>6
  <2> QED BY <2>3 DEF ActiveIsATab
<1>9. Sound(groups') /\ Held'
  <2>1. InSplits(groups) \subseteq Tabs \cup revived BY IdsAreShells
  <2>2. InSplits(groups') \subseteq Tabs' \cup revived' /\ hidden' \subseteq Tabs'
        BY <2>1, <1>2, <1>3, <1>4, <1>5, <1>6
  <2> QED BY <2>2, <1>2, <1>5, SplitsStayHeld
<1> QED BY <1>4, <1>6, <1>7, <1>8, <1>9 DEF HostInv

\* unsplitPanes shows every pane in the bar again.
LEMMA UnsplitKeeps == ASSUME HostInv, UnsplitPanes PROVE HostInv'
<1> DEFINE owner == OwnerOf(groups, active)
           t == groups[owner].focus
           h == Heir(groups, t)
           next == Detach(groups, t)
<1>1. active \in InSplits(groups) /\ owner \in DOMAIN groups
      BY OwnerIsUnique DEF UnsplitPanes, HostInv, InSplits
<1>2. t \in Leaves(groups[owner]) BY <1>1 DEF HostInv, Sound, Tree
<1>3. t \in InSplits(groups) /\ t \in Tabs \cup revived BY <1>1, <1>2, IdsAreShells DEF InSplits
<1>4. /\ Sound(next)
      /\ InSplits(next) \subseteq InSplits(groups) \ {t}
      /\ InSplits(next) \ DOMAIN next = (InSplits(groups) \ DOMAIN groups) \ {t, h}
      BY <1>3, DetachIsSound DEF HostInv
<1> HIDE DEF h, next, t
<1>5. groups' = next /\ hidden' = hidden \ {t, h} /\ active' = t BY DEF UnsplitPanes, h, next, t
<1>6. Tabs' = Tabs /\ Places' /\ Marks' /\ revived' = revived
      BY DEF UnsplitPanes, HostInv, Tabs, Places, Marks
<1>7. HiddenAreExtraPanes' BY <1>4, <1>5 DEF HostInv, HiddenAreExtraPanes
<1>8. ActiveIsATab' BY <1>3, <1>5, <1>6 DEF ActiveIsATab
<1>9. Sound(groups') /\ Held'
  <2>1. InSplits(groups) \subseteq Tabs \cup revived /\ hidden \subseteq Tabs BY IdsAreShells
  <2>2. InSplits(groups') \subseteq Tabs' \cup revived' /\ hidden' \subseteq Tabs'
        BY <2>1, <1>4, <1>5, <1>6
  <2> QED BY <2>2, <1>4, <1>5, SplitsStayHeld
<1> QED BY <1>6, <1>7, <1>8, <1>9 DEF HostInv

\* The focus may go to any pane of a split.
LEMMA FocusIsTree ==
    ASSUME NEW l, Tree(l), NEW t \in Leaves(l)
    PROVE  Tree(FocusOn(l, t)) /\ Leaves(FocusOn(l, t)) = Leaves(l)
<1> DEFINE f == FocusOn(l, t)
<1>1. f.first = l.first /\ f.focus = t BY DEF FocusOn
<1>2. Nodes(f) = Nodes(l) /\ Leaves(f) = Leaves(l) BY <1>1 DEF Nodes, Leaves
<1> QED BY <1>1, <1>2 DEF Tree

\* focusPane moves the focus inside a split.
LEMMA FocusPaneKeeps == ASSUME HostInv, NEW t, FocusPane(t) PROVE HostInv'
<1> DEFINE owner == OwnerOf(groups, active)
           others == Without(groups, owner)
           l == FocusOn(groups[owner], t)
<1>1. owner \in DOMAIN groups /\ t \in Leaves(groups[owner])
      BY OwnerIsUnique DEF FocusPane, HostInv, InSplits
<1>2. Tree(groups[owner]) /\ IsSplit(groups[owner]) /\ owner \in Leaves(groups[owner])
      BY <1>1 DEF HostInv, Sound
<1>3. Tree(l) /\ Leaves(l) = Leaves(groups[owner]) BY <1>1, <1>2, FocusIsTree
<1>4. /\ Sound(others) /\ InSplits(others) = InSplits(groups) \ Leaves(groups[owner])
      /\ DOMAIN others = DOMAIN groups \ {owner}
      BY <1>1, WithoutIsSound DEF HostInv
<1>5. Leaves(groups[owner]) \subseteq InSplits(groups) /\ NoShell \notin Leaves(l)
      BY <1>1, <1>3 DEF InSplits, HostInv, Sound
<1>6. IsSplit(l) BY <1>2, <1>3 DEF IsSplit
<1>7. groups' = With(others, owner, l) BY WithReplaces DEF FocusPane
<1> HIDE DEF l, owner, others
<1>8. /\ Sound(groups') /\ InSplits(groups') = InSplits(others) \cup Leaves(l)
      /\ DOMAIN groups' = DOMAIN others \cup {owner}
  <2>1. owner \notin DOMAIN others /\ owner \in Leaves(l) BY <1>2, <1>3, <1>4
  <2>2. Leaves(l) \cap InSplits(others) = {} BY <1>3, <1>4
  <2>3. Tree(l) /\ IsSplit(l) /\ NoShell \notin Leaves(l) /\ Sound(others)
        BY <1>3, <1>4, <1>5, <1>6
  <2> QED BY <1>7, <2>1, <2>2, <2>3, WithIsSound
<1>9. Sound(groups') /\ InSplits(groups') = InSplits(groups) /\ DOMAIN groups' = DOMAIN groups
      BY <1>1, <1>3, <1>4, <1>5, <1>7, <1>8
<1>10. Tabs' = Tabs /\ Places' /\ Marks' BY DEF FocusPane, HostInv, Tabs, Places, Marks
<1>11. HiddenAreExtraPanes' BY <1>9 DEF FocusPane, HostInv, HiddenAreExtraPanes
<1>12. ActiveIsATab'
  <2>1. t \in Tabs \cup revived BY <1>1, IdsAreShells DEF InSplits
  <2>2. active' = t /\ revived' = revived BY DEF FocusPane
  <2> QED BY <1>10, <2>1, <2>2 DEF ActiveIsATab
<1>13. Held' BY <1>9, <1>10 DEF FocusPane, HostInv, Held
<1> QED BY <1>9, <1>10, <1>11, <1>12, <1>13 DEF HostInv

\* The tree that a split changes, and what it leaves of the other groups.
LEMMA SplitPanesKeeps == ASSUME HostInv, SplitPanes PROVE HostInv'
<1> DEFINE at == IF active # NoShell THEN active ELSE FirstOf(Bar)
           found == OwnerOf(groups, at)
           owner == IF found = NoShell THEN at ELSE found
           tree == IF owner \in DOMAIN groups THEN groups[owner] ELSE SinglePane(owner)
           others == Without(groups, owner)
           l == SplitPane(tree, tree.focus, New)
<1>1. at \in Tabs \cup revived
  <2>1. CASE active # NoShell BY <2>1, FocusIsAShell
  <2>2. CASE active = NoShell
    <3>1. Bar # {} /\ Bar \subseteq Tabs BY <2>2 DEF SplitPanes, Bar
    <3>2. FirstOf(Bar) \in Bar BY <3>1, EndsExist DEF HostInv
    <3> QED BY <2>2, <3>1, <3>2
  <2> QED BY <2>1, <2>2
<1>2. /\ Places' /\ Tabs' = Tabs \cup {New} /\ New \notin Tabs \cup revived /\ New # NoShell
      /\ New \notin InSplits(groups) /\ 1..created \subseteq 1..created'
      BY ShellIsNew DEF SplitPanes
<1>3. /\ NoShell \notin Tabs \cup revived /\ DOMAIN groups \subseteq Tabs \cup revived
      /\ InSplits(groups) \subseteq Tabs \cup revived /\ hidden \subseteq Tabs
      BY IdsAreShells
<1>4. /\ Tree(tree) /\ owner \in Leaves(tree) /\ Leaves(tree) \subseteq Tabs \cup revived
      /\ Sound(others) /\ InSplits(others) = InSplits(groups) \ Leaves(tree)
      /\ DOMAIN others = DOMAIN groups \ {owner}
      /\ InSplits(groups) \ DOMAIN groups =
             (InSplits(others) \ DOMAIN others) \cup (Leaves(tree) \ {owner})
  <2>1. CASE at \in InSplits(groups)
    <3>1. found \in DOMAIN groups /\ at \in Leaves(groups[found]) /\ NoShell \notin DOMAIN groups
          BY <2>1, OwnerIsUnique DEF HostInv, InSplits
    <3>2. owner = found /\ tree = groups[owner] BY <3>1
    <3> HIDE DEF owner, tree, found, at
    <3>3. Tree(tree) /\ owner \in Leaves(tree) BY <3>1, <3>2 DEF HostInv, Sound
    <3>4. Leaves(tree) \subseteq InSplits(groups) BY <3>1, <3>2 DEF InSplits
    <3>5. /\ Sound(others) /\ InSplits(others) = InSplits(groups) \ Leaves(tree)
          /\ DOMAIN others = DOMAIN groups \ {owner} /\ DOMAIN groups \cap Leaves(tree) = {owner}
          BY <3>1, <3>2, WithoutIsSound DEF HostInv
    <3> HIDE DEF others
    <3> QED BY <3>3, <3>4, <3>5, <1>3
  <2>2. CASE at \notin InSplits(groups)
    <3>1. found = NoShell /\ DOMAIN groups \subseteq InSplits(groups)
          BY <2>2, OwnerIsUnique DEF HostInv
    <3>2. owner = at /\ owner \notin DOMAIN groups /\ tree = SinglePane(owner) BY <3>1, <2>2
    <3> HIDE DEF owner, tree, found, at
    <3>3. Tree(tree) /\ Leaves(tree) = {owner} BY <3>2, SingleIsTree
    <3>4. DOMAIN others = DOMAIN groups /\ \A p \in DOMAIN groups : others[p] = groups[p]
          BY <3>2 DEF Without
    <3>5. InSplits(others) = InSplits(groups) BY <3>4 DEF InSplits
    <3>6. Sound(others) BY <3>4, <3>5 DEF Sound, HostInv
    <3> HIDE DEF others
    <3> QED BY <3>2, <3>3, <3>4, <3>5, <3>6, <1>1, <2>2
  <2> QED BY <2>1, <2>2
<1>5. groups' = With(others, owner, l) BY WithReplaces DEF SplitPanes
<1> HIDE DEF at, found, owner, tree, others
<1>6. Tree(l) /\ Leaves(l) = Leaves(tree) \cup {New}
  <2>1. tree.focus \in Leaves(tree) /\ New \notin Leaves(tree) BY <1>2, <1>4 DEF Tree
  <2> QED BY <2>1, <1>4, SplitIsTree
<1> HIDE DEF l
<1>7. IsSplit(l) BY <1>2, <1>4, <1>6 DEF IsSplit
<1>8. Leaves(l) \cap InSplits(others) = {} /\ NoShell \notin Leaves(l) /\ owner \notin DOMAIN others
      BY <1>2, <1>3, <1>4, <1>6
<1>9. /\ Sound(groups') /\ InSplits(groups') = InSplits(others) \cup Leaves(l)
      /\ DOMAIN groups' = DOMAIN others \cup {owner}
  <2>1. owner \in Leaves(l) BY <1>4, <1>6
  <2>2. Tree(l) /\ IsSplit(l) /\ Sound(others) BY <1>4, <1>6, <1>7
  <2> QED BY <1>5, <1>8, <2>1, <2>2, WithIsSound
<1>10. hidden' = hidden \cup {New} /\ revived' = revived BY DEF SplitPanes
<1>11. /\ Sound(groups') /\ InSplits(groups') \subseteq Tabs' \cup revived'
       /\ InSplits(groups') \ DOMAIN groups' = (InSplits(groups) \ DOMAIN groups) \cup {New}
  <2>1. New \notin DOMAIN groups /\ New # owner BY <1>2, <1>3, <1>4
  <2> QED BY <1>2, <1>3, <1>4, <1>6, <1>8, <1>9, <1>10, <2>1
<1>12. HiddenAreExtraPanes' BY <1>11 DEF SplitPanes, HostInv, HiddenAreExtraPanes
<1>13. Marks' BY <1>2 DEF SplitPanes, HostInv, Marks
<1>14. ActiveIsATab' BY <1>2 DEF SplitPanes, ActiveIsATab
<1>15. Held' BY <1>2, <1>3, <1>10, <1>11, SplitsStayHeld
<1> QED BY <1>2, <1>11, <1>12, <1>13, <1>14, <1>15 DEF HostInv
\* A host without shells is sound.
LEMMA InitIsSound == ASSUME Init PROVE HostInv
<1>1. Tabs = {} /\ DOMAIN groups = {} BY DEF Init, Tabs, NoGroups
<1>2. InSplits(groups) = {} BY <1>1 DEF InSplits
<1>3. Places BY <1>1, PanesAssumption DEF Init, Places
<1>4. Sound(groups) BY <1>1, <1>2 DEF Sound
<1>5. ActiveIsATab /\ HiddenAreExtraPanes /\ Marks /\ Held
      BY <1>1, <1>2 DEF Init, ActiveIsATab, HiddenAreExtraPanes, Marks, Held
<1> QED BY <1>2, <1>3, <1>4, <1>5 DEF HostInv

\* clearTerminals leaves none of the host's shells and none of its splits.
LEMMA ClearKeeps == ASSUME HostInv, ClearTerminals PROVE HostInv'
<1>1. Tabs' = {} /\ DOMAIN groups' = {} BY DEF ClearTerminals, Tabs, NoGroups
<1>2. InSplits(groups') = {} BY <1>1 DEF InSplits
<1>3. Places' BY <1>1 DEF ClearTerminals, HostInv, Places
<1>4. Sound(groups') BY <1>1, <1>2 DEF Sound
<1>5. Marks' BY <1>1 DEF ClearTerminals, HostInv, Marks
<1>6. ActiveIsATab' /\ HiddenAreExtraPanes' /\ Held'
      BY <1>1, <1>2 DEF ClearTerminals, ActiveIsATab, HiddenAreExtraPanes, Held
<1> QED BY <1>2, <1>3, <1>4, <1>5, <1>6 DEF HostInv

\* A navigation that was asked for has changed nothing yet.
LEMMA AskKeeps == ASSUME HostInv, Ask \/ UNCHANGED vars PROVE HostInv'
<1>1. UNCHANGED <<seat, hidden, groups, active, synced, created, revived>>
      BY DEF Ask, Navigate, NavigateFailed, vars
<1>2. navigating' \in {synced, navigating, NoShell} BY DEF Ask, Navigate, NavigateFailed, vars
<1>3. Tabs' = Tabs /\ Places' BY <1>1 DEF HostInv, Tabs, Places
<1>4. Marks'
  <2>1. Tabs \subseteq 1..created BY DEF HostInv, Places
  <2> QED BY <1>1, <1>2, <1>3, <2>1 DEF HostInv, Marks
<1>5. ActiveIsATab' /\ HiddenAreExtraPanes'
      BY <1>1, <1>3 DEF HostInv, ActiveIsATab, HiddenAreExtraPanes
<1>6. Sound(groups') /\ Held' BY <1>1, <1>3 DEF HostInv, Held
<1> QED BY <1>3, <1>4, <1>5, <1>6 DEF HostInv

\* setActiveTerminal and the end of a navigation move the focus and no more.
LEMMA SelectionKeeps ==
    ASSUME HostInv, Navigated \/ \E t \in Tabs : SetActiveTerminal(t)
    PROVE  HostInv'
<1>1. Tabs' = Tabs BY DEF Navigated, SetActiveTerminal, Tabs
<1>2. CASE Navigated
  <2>1. navigating \in 1..created BY <1>2 DEF Navigated, HostInv, Marks
  <2>2. revived' = revived \cup ({navigating} \ Tabs) /\ created' = created /\ synced' = synced
        /\ navigating' = NoShell
        BY <1>2 DEF Navigated
  <2>3. Marks' BY <1>1, <2>1, <2>2 DEF HostInv, Marks
  <2>4. revived \subseteq revived' /\ navigating \in Tabs \cup revived' BY <2>2
  <2> QED BY <1>2, <2>1, <2>3, <2>4, SelectKeeps DEF Navigated
<1>3. CASE \E t \in Tabs : SetActiveTerminal(t)
  <2>1. PICK t \in Tabs : SetActiveTerminal(t) BY <1>3
  <2>2. Marks' BY <1>1, <2>1 DEF SetActiveTerminal, HostInv, Marks
  <2>3. t \in 1..created /\ t \in Tabs \cup revived' /\ revived \subseteq revived'
        BY <2>1 DEF SetActiveTerminal, HostInv, Places
  <2> QED BY <2>1, <2>2, <2>3, SelectKeeps DEF SetActiveTerminal
<1> QED BY <1>2, <1>3

\* Every operation keeps the invariant, one step per operation.
LEMMA StepKeeps == ASSUME HostInv, [Next]_vars PROVE HostInv'
<1>1. ASSUME NEW b \in BOOLEAN, CreateTerminal(b) PROVE HostInv' BY <1>1, CreateKeeps
<1>2. CASE EnsureTerminal BY <1>2, EnsureKeeps
<1>3. CASE SplitPanes BY <1>3, SplitPanesKeeps
<1>4. CASE UnsplitPanes BY <1>4, UnsplitKeeps
<1>5. CASE Navigated \/ \E t \in Tabs : SetActiveTerminal(t) BY <1>5, SelectionKeeps
<1>6. ASSUME NEW t, FocusPane(t) PROVE HostInv' BY <1>6, FocusPaneKeeps
<1>7. CASE ClearTerminals BY <1>7, ClearKeeps
<1>8. ASSUME NEW t, CloseTerminalGroup(t) PROVE HostInv' BY <1>8, CloseGroupKeeps
<1>9. ASSUME NEW t \in Tabs, ShellExits(t) PROVE HostInv'
  <2>1. CASE OwnerOf(groups, t) = NoShell BY <1>9, <2>1, CloseGroupKeeps DEF ShellExits
  <2>2. CASE OwnerOf(groups, t) # NoShell BY <1>9, <2>2, LeaveSplitKeeps DEF ShellExits
  <2> QED BY <2>1, <2>2
<1>10. CASE Ask \/ UNCHANGED vars BY <1>10, AskKeeps
<1> QED BY <1>1, <1>2, <1>3, <1>4, <1>5, <1>6, <1>7, <1>8, <1>9, <1>10 DEF Next, Arrange, Close

\* Whatever order a host's shells open, split, close and exit in, and however late a
\* navigation is answered, its groups are sound trees over its tabs and their owners.
THEOREM HostStaysSound == Spec => []HostInv
<1>1. Init => HostInv BY InitIsSound
<1>2. HostInv /\ [Next]_vars => HostInv' BY StepKeeps
<1> QED BY <1>1, <1>2, PTL DEF Spec

\* The arrangement of a host's shells stays in its domain (terminalSlice.ts:145).
THEOREM TypesHold == Spec => []TypeOK
<1>1. HostInv => TypeOK
  <2> SUFFICES ASSUME HostInv PROVE TypeOK OBVIOUS
  <2>1. /\ Tabs \subseteq Shell /\ revived \subseteq Shell /\ InSplits(groups) \subseteq Shell
        /\ DOMAIN groups \subseteq Shell /\ hidden \subseteq Shell /\ 1..created \subseteq Shell
        BY IdsAreShells
  <2>2. ASSUME NEW o \in DOMAIN groups
        PROVE  /\ Nodes(groups[o]) \subseteq SUBSET Shell
               /\ \A N \in Nodes(groups[o]) : groups[o].first[N] \in Shell
               /\ groups[o].focus \in Shell
    <3>1. Tree(groups[o]) /\ Leaves(groups[o]) \subseteq Shell BY <2>1 DEF HostInv, Sound, InSplits
    <3>2. \A N \in Nodes(groups[o]) : N \subseteq Leaves(groups[o]) BY DEF Nodes, Leaves
    <3> QED BY <3>1, <3>2 DEF Tree
  <2>3. \A t \in Tabs : seat[t] \in 1..created BY DEF HostInv, Places
  <2>4. active \in Shell \cup {NoShell} BY <2>1 DEF HostInv, ActiveIsATab
  <2>5. synced \in Shell \cup {NoShell} /\ navigating \in Shell \cup {NoShell}
        BY <2>1 DEF HostInv, Marks
  <2>6. created \in 0..MaxShells BY DEF HostInv, Places
  <2> QED BY <2>1, <2>2, <2>3, <2>4, <2>5, <2>6 DEF TypeOK, Trees
<1> QED BY <1>1, HostStaysSound, PTL

\* What the invariant says of the splits is what the property asks.
LEMMA SoundSplits == HostInv => SplitsAreSound
<1> SUFFICES ASSUME HostInv PROVE SplitsAreSound OBVIOUS
<1>1. /\ Sound(groups) /\ DOMAIN groups \subseteq Tabs \cup revived /\ hidden \subseteq Tabs
      /\ hidden = InSplits(groups) \ DOMAIN groups
      BY DEF HostInv, Held, HiddenAreExtraPanes
<1>2. ASSUME NEW o \in DOMAIN groups PROVE Leaves(groups[o]) \subseteq Tabs \cup {o}
  <2>1. \A t \in Leaves(groups[o]) : t # o => t \in InSplits(groups) \ DOMAIN groups
        BY <1>1 DEF Sound, InSplits
  <2> QED BY <1>1, <2>1
<1> QED BY <1>1, <1>2 DEF Sound, Tree, SplitsAreSound

\* No operation on tabs and panes makes two splits share a shell, or a split hold one that
\* is gone, but for an owner that a late answer brought back (terminalSlice.ts:215-367,
\* 578-718; FileManager.tsx:1251).
THEOREM SplitsStaySound == Spec => []SplitsAreSound
BY SoundSplits, HostStaysSound, PTL

\* A shell that the bar hides is an extra pane of a split (terminalSlice.ts:578-654).
THEOREM HiddenStayReachable == Spec => []HiddenAreExtraPanes
<1>1. HostInv => HiddenAreExtraPanes BY DEF HostInv
<1> QED BY <1>1, HostStaysSound, PTL

\* The shell with the focus is a tab as long as the host has one, or one that a late
\* answer brought back and that was not closed again (terminalSlice.ts:236-260).
THEOREM FocusStaysOnATab == Spec => []ActiveIsATab
<1>1. HostInv => ActiveIsATab BY DEF HostInv
<1> QED BY <1>1, HostStaysSound, PTL

-----------------------------------------------------------------------------
(* Session files: what keepTerminalsForSession keeps *)

\* The room is what it is after the tab before, and never below nothing.
LEMMA RoomIsLeft ==
    ASSUME NEW needed, Len(needed) \in Nat, \A i \in 1 .. Len(needed) : needed[i] \in Nat
    PROVE  /\ Room(needed)[0] = MaxSaved
           /\ \A i \in 1 .. Len(needed) : Room(needed)[i] = RoomAfter(Room(needed)[i - 1], needed[i])
           /\ \A i \in 0 .. Len(needed) : Room(needed)[i] \in Nat
<1> DEFINE L == Len(needed)
           Value(f, i) == IF i = 0 THEN MaxSaved ELSE RoomAfter(f[i - 1], needed[i])
           Defined(n) == \E f \in [0 .. n -> Nat] : \A i \in 0 .. n : f[i] = Value(f, i)
           Undefined == {n \in Nat : n <= L /\ ~ Defined(n)}
<1>1. \A r, n \in Nat : RoomAfter(r, n) \in Nat BY DEF RoomAfter
<1>2. Defined(0)
  <2>1. MaxSaved \in Nat BY SessionAssumption
  <2>2. [i \in 0 .. 0 |-> MaxSaved] \in [0 .. 0 -> Nat] BY <2>1
  <2>3. \A i \in 0 .. 0 : [j \in 0 .. 0 |-> MaxSaved][i] = Value([j \in 0 .. 0 |-> MaxSaved], i)
        OBVIOUS
  <2> QED BY <2>2, <2>3
<1>3. ASSUME NEW n \in Nat, n + 1 <= L, Defined(n) PROVE Defined(n + 1)
  <2>1. PICK f \in [0 .. n -> Nat] : \A i \in 0 .. n : f[i] = Value(f, i) BY <1>3
  <2> DEFINE g == [i \in 0 .. n + 1 |-> IF i = n + 1 THEN RoomAfter(f[n], needed[n + 1]) ELSE f[i]]
  <2>2. f[n] \in Nat /\ needed[n + 1] \in Nat BY <1>3, <2>1
  <2>3. RoomAfter(f[n], needed[n + 1]) \in Nat BY <1>1, <2>2
  <2>4. g \in [0 .. n + 1 -> Nat] BY <2>1, <2>3
  <2>5. ASSUME NEW i \in 0 .. n + 1 PROVE g[i] = Value(g, i)
    <3>1. CASE i = n + 1
      <4>1. g[i] = RoomAfter(f[n], needed[n + 1]) /\ g[i - 1] = f[n] /\ i # 0 BY <3>1
      <4> QED BY <3>1, <4>1
    <3>2. CASE i \in 0 .. n
      <4>1. g[i] = f[i] /\ f[i] = Value(f, i) BY <3>2, <2>1
      <4>2. i # 0 => g[i - 1] = f[i - 1] BY <3>2
      <4> HIDE DEF g
      <4> QED BY <4>1, <4>2
    <3> QED BY <3>1, <3>2, <2>5
  <2> QED BY <2>4, <2>5
<1>4. Undefined = {}
  <2> SUFFICES ASSUME Undefined # {} PROVE FALSE OBVIOUS
  <2>1. Undefined \subseteq Nat OBVIOUS
  <2> HIDE DEF Undefined, Defined
  <2>2. \E x \in Undefined : \A y \in Undefined : ~ (<<y, x>> \in OpToRel(<, Nat))
        BY <2>1, NatLessThanWellFounded, WFMin
  <2>3. PICK x \in Undefined : \A y \in Undefined : ~ (y < x) BY <2>1, <2>2 DEF OpToRel
  <2>4. x \in Nat /\ x <= L /\ ~ Defined(x) BY <2>3 DEF Undefined
  <2>5. x # 0 BY <2>4, <1>2
  <2>6. x - 1 \in Nat /\ x - 1 < x /\ x - 1 <= L BY <2>4, <2>5
  <2>7. Defined(x - 1) BY <2>3, <2>6 DEF Undefined
  <2>8. Defined(x - 1 + 1) BY <1>3, <2>4, <2>6, <2>7
  <2> QED BY <2>4, <2>8
<1>5. Defined(L)
  <2> HIDE DEF Defined
  <2> QED BY <1>4
<1>6. PICK f \in [0 .. L -> Nat] : \A i \in 0 .. L : f[i] = Value(f, i) BY <1>5
<1>7. f = [i \in 0 .. L |-> Value(f, i)] BY <1>6
<1>8. Room(needed) = [i \in 0 .. L |-> Value(Room(needed), i)]
  <2> DEFINE r == CHOOSE r : r = [i \in 0 .. L |-> Value(r, i)]
  <2>1. r = [i \in 0 .. L |-> Value(r, i)] BY <1>7
  <2>2. Room(needed) = r BY DEF Room
  <2> HIDE DEF r
  <2> QED BY <2>1, <2>2
<1> DEFINE room == Room(needed)
           Low == {i \in Nat : i <= L /\ room[i] \notin Nat}
<1> HIDE DEF room
<1>9. \A i \in 0 .. L : room[i] = Value(room, i) BY <1>8 DEF room
<1>10. Low = {}
  <2> SUFFICES ASSUME Low # {} PROVE FALSE OBVIOUS
  <2>1. Low \subseteq Nat OBVIOUS
  <2>2. \E x \in Low : \A y \in Low : ~ (<<y, x>> \in OpToRel(<, Nat))
        BY <2>1, NatLessThanWellFounded, WFMin
  <2>3. PICK x \in Low : \A y \in Low : ~ (y < x) BY <2>1, <2>2 DEF OpToRel
  <2>4. x \in Nat /\ x <= L /\ room[x] \notin Nat BY <2>3
  <2>5. x # 0 BY <2>4, <1>9, SessionAssumption
  <2>6. x - 1 \in Nat /\ x - 1 < x /\ x - 1 <= L BY <2>4, <2>5
  <2>7. room[x - 1] \in Nat BY <2>3, <2>6
  <2>8. room[x] = RoomAfter(room[x - 1], needed[x]) BY <1>9, <2>4, <2>5
  <2>9. needed[x] \in Nat BY <2>4, <2>5
  <2> QED BY <1>1, <2>4, <2>7, <2>8, <2>9
<1> QED BY <1>9, <1>10, SMTT(20) DEF room

\* A finite set of shells in the order of their places: each of them, once.
LEMMA InOrderFacts ==
    ASSUME NEW s, NEW S, IsFiniteSet(S), \A t \in S : s.seat[t] \in Nat,
           \A t, u \in S : s.seat[t] = s.seat[u] => t = u
    PROVE  /\ Cardinality(S) \in Nat
           /\ InOrder(s, S) \in Seq(S) /\ Len(InOrder(s, S)) = Cardinality(S)
           /\ ToSet(InOrder(s, S)) = S /\ IsInjective(InOrder(s, S))
<1> DEFINE n == Cardinality(S)
           Before(t) == {u \in S : s.seat[u] < s.seat[t]}
           rank == [t \in S |-> Cardinality(Before(t))]
           At(i) == CHOOSE t \in S : Cardinality(Before(t)) = i - 1
           r == InOrder(s, S)
<1>1. n \in Nat BY FS_CardinalityType
<1>2. ASSUME NEW t \in S
      PROVE  IsFiniteSet(Before(t)) /\ Cardinality(Before(t)) \in 0 .. n - 1
  <2>1. Before(t) \in SUBSET S /\ t \notin Before(t) /\ t \in S OBVIOUS
  <2> HIDE DEF Before
  <2>2. IsFiniteSet(Before(t)) /\ Cardinality(Before(t)) <= n /\ Cardinality(Before(t)) # n
        BY <2>1, FS_Subset
  <2>3. Cardinality(Before(t)) \in Nat BY <2>2, FS_CardinalityType
  <2> QED BY <1>1, <2>2, <2>3
<1>3. ASSUME NEW t \in S, NEW u \in S, s.seat[t] < s.seat[u]
      PROVE  Cardinality(Before(t)) # Cardinality(Before(u))
  <2>1. ASSUME NEW v \in S, s.seat[v] < s.seat[t] PROVE s.seat[v] < s.seat[u]
    <3>1. s.seat[v] \in Nat /\ s.seat[t] \in Nat /\ s.seat[u] \in Nat OBVIOUS
    <3> QED BY <3>1, <1>3, <2>1
  <2>2. Before(t) \in SUBSET Before(u) BY <2>1
  <2>3. t \in Before(u) /\ t \notin Before(t) BY <1>3
  <2>4. IsFiniteSet(Before(u)) BY <1>2
  <2> HIDE DEF Before
  <2> QED BY <2>2, <2>3, <2>4, FS_Subset
<1>4. ASSUME NEW t \in S, NEW u \in S, Cardinality(Before(t)) = Cardinality(Before(u)) PROVE t = u
  <2>1. s.seat[t] < s.seat[u] \/ s.seat[u] < s.seat[t] \/ s.seat[t] = s.seat[u]
    <3>1. s.seat[t] \in Nat /\ s.seat[u] \in Nat OBVIOUS
    <3> QED BY <3>1
  <2> HIDE DEF Before
  <2> QED BY <2>1, <1>3, <1>4
<1> HIDE DEF Before
<1>5. rank \in Injection(S, 0 .. n - 1) BY <1>2, <1>4 DEF Injection, IsInjective
<1>6. IsFiniteSet(0 .. n - 1) /\ Cardinality(0 .. n - 1) = n BY <1>1, FS_Interval
<1>7. rank \in Surjection(S, 0 .. n - 1)
  <2> HIDE DEF rank
  <2> QED BY <1>5, <1>6, FS_Injection
<1>8. \A k \in 0 .. n - 1 : \E t \in S : Cardinality(Before(t)) = k
  <2>1. \A k \in 0 .. n - 1 : \E t \in S : rank[t] = k BY <1>7 DEF Surjection
  <2> QED BY <2>1
<1>9. ASSUME NEW i \in 1 .. n PROVE At(i) \in S /\ Cardinality(Before(At(i))) = i - 1
  <2>1. i - 1 \in 0 .. n - 1 BY <1>1
  <2>2. \E t \in S : Cardinality(Before(t)) = i - 1 BY <1>8, <2>1
  <2> QED BY <2>2
<1>10. r = [i \in 1 .. n |-> At(i)] BY DEF InOrder, Before
<1> HIDE DEF At, r
<1>11. r \in [1 .. n -> S] /\ r \in Seq(S) BY <1>1, <1>9, <1>10, SeqDef
<1>12. Len(r) = n BY <1>1, <1>11, LenProperties
<1>13. ASSUME NEW t \in S PROVE \E i \in 1 .. n : r[i] = t
  <2> DEFINE k == Cardinality(Before(t)) + 1
  <2>1. k \in 1 .. n /\ k - 1 = Cardinality(Before(t)) BY <1>1, <1>2
  <2> HIDE DEF k
  <2>2. At(k) \in S /\ Cardinality(Before(At(k))) = k - 1 BY <1>9, <2>1
  <2>3. At(k) = t BY <1>4, <2>1, <2>2
  <2> QED BY <1>10, <2>1, <2>3
<1>14. ToSet(r) = S BY <1>11, <1>13 DEF ToSet
<1>15. ASSUME NEW i \in 1 .. n, NEW j \in 1 .. n, r[i] = r[j] PROVE i = j
  <2>1. At(i) = At(j) BY <1>10, <1>15
  <2>2. i - 1 = j - 1 BY <1>9, <2>1
  <2> QED BY <2>2
<1>16. IsInjective(r) BY <1>11, <1>15 DEF IsInjective
<1> QED BY <1>1, <1>11, <1>12, <1>14, <1>16 DEF r

\* An arrangement of the shells up to n that the store can hold.
Arranged(s, n) ==
    /\ DOMAIN s.seat \subseteq 1 .. n /\ \A t \in DOMAIN s.seat : s.seat[t] \in 1 .. n
    /\ \A t, u \in DOMAIN s.seat : s.seat[t] = s.seat[u] => t = u
    /\ Sound(s.groups) /\ s.hidden \subseteq DOMAIN s.seat
    /\ s.groups = [o \in DOMAIN s.groups |-> s.groups[o]]
    /\ \A o \in DOMAIN s.groups : Cardinality(Leaves(s.groups[o])) <= MaxPanes
    /\ s.hidden = InSplits(s.groups) \ DOMAIN s.groups
    /\ s.synced \in DOMAIN s.seat \cup {NoShell}

\* A sequence that repeats nothing is as long as it has elements.
LEMMA InjectiveLength ==
    ASSUME NEW T, NEW q \in Seq(T), IsInjective(q)
    PROVE  IsFiniteSet(ToSet(q)) /\ Cardinality(ToSet(q)) = Len(q)
<1>1. Len(q) \in Nat /\ DOMAIN q = 1 .. Len(q) /\ q \in [1 .. Len(q) -> T] BY LenProperties
<1>2. q \in [1 .. Len(q) -> ToSet(q)] BY <1>1 DEF ToSet
<1>3. q \in Bijection(1 .. Len(q), ToSet(q))
  <2>1. \A x \in ToSet(q) : \E i \in 1 .. Len(q) : q[i] = x BY <1>1 DEF ToSet
  <2> QED BY <1>1, <1>2, <2>1 DEF Bijection, Injection, Surjection, IsInjective
<1>4. ExistsBijection(1 .. Len(q), ToSet(q)) BY <1>3 DEF ExistsBijection
<1>5. IsFiniteSet(1 .. Len(q)) /\ Cardinality(1 .. Len(q)) = Len(q) BY <1>1, FS_Interval
<1> QED BY <1>4, <1>5, FS_Bijection

\* A set of places that has with each place the one before has all up to its size.
LEMMA InitialSegment ==
    ASSUME NEW L \in Nat, NEW K \in SUBSET (1 .. L), \A i \in K : i = 1 \/ i - 1 \in K
    PROVE  K = 1 .. Cardinality(K) /\ Cardinality(K) \in 0 .. L
<1>1. \E p \in 0 .. L : K = 1 .. p
  <2>1. CASE K = 1 .. L BY <2>1
  <2>2. CASE K # 1 .. L
    <3> DEFINE T == {i \in Nat : i \in 1 .. L /\ i \notin K}
    <3>0. K \subseteq 1 .. L OBVIOUS
    <3>1. T \subseteq Nat /\ T # {}
      <4>1. \E i \in 1 .. L : i \notin K BY ONLY <2>2, <3>0
      <4> QED BY <4>1
    <3>2. \E x \in T : \A y \in T : ~ (<<y, x>> \in OpToRel(<, Nat))
          BY <3>1, NatLessThanWellFounded, WFMin
    <3>3. PICK p \in T : \A y \in T : ~ (y < p) BY <3>1, <3>2 DEF OpToRel
    <3>4. 1 .. p - 1 \subseteq K BY <3>3
    <3> DEFINE Q == {q \in Nat : q \in K /\ p < q}
    <3>5. Q = {}
      <4> SUFFICES ASSUME Q # {} PROVE FALSE OBVIOUS
      <4>1. Q \subseteq Nat OBVIOUS
      <4>2. \E x \in Q : \A y \in Q : ~ (<<y, x>> \in OpToRel(<, Nat))
            BY <4>1, NatLessThanWellFounded, WFMin
      <4>3. PICK q \in Q : \A y \in Q : ~ (y < q) BY <4>1, <4>2 DEF OpToRel
      <4>4. q \in K /\ q \in Nat /\ p \in Nat /\ p < q /\ p >= 1 BY <3>3, <4>3
      <4>5. q - 1 \in K /\ q - 1 # p BY <4>4, <3>3
      <4>6. q - 1 \in Nat /\ p < q - 1 /\ q - 1 < q BY <4>4, <4>5
      <4>7. q - 1 \in Q BY <4>5, <4>6
      <4> HIDE DEF Q
      <4> QED BY <4>3, <4>6, <4>7
    <3>6. p \notin K /\ p \in 1 .. L BY <3>3
    <3>7. K \subseteq 1 .. p - 1 BY <3>5, <3>6
    <3>8. p - 1 \in 0 .. L BY <3>6
    <3>9. K = 1 .. p - 1 BY ONLY <3>4, <3>7
    <3> QED BY <3>8, <3>9
  <2> QED BY <2>1, <2>2
<1>2. PICK p \in 0 .. L : K = 1 .. p BY <1>1
<1>3. Cardinality(1 .. p) = p BY <1>2, FS_Interval
<1> QED BY <1>2, <1>3

\* A tab of the bar has all extra panes of its split, and no other tab has one: a split
\* whose owner is no tab is out of the bar's reach.
LEMMA ExtrasFacts ==
    ASSUME NEW s, NEW n \in Nat, Arranged(s, n)
    PROVE  LET bar == DOMAIN s.seat \ s.hidden
           IN  /\ s.hidden \subseteq DOMAIN s.seat
               /\ DOMAIN s.groups \cap DOMAIN s.seat \subseteq bar
               /\ \A t : Extras(s, t) \subseteq s.hidden
               /\ \A t \in DOMAIN s.groups : Leaves(s.groups[t]) = {t} \cup Extras(s, t)
               /\ \A t, u : t # u => Extras(s, t) \cap Extras(s, u) = {}
<1> DEFINE bar == DOMAIN s.seat \ s.hidden
           g == s.groups
<1>1. /\ Sound(g) /\ s.hidden \subseteq DOMAIN s.seat /\ s.hidden = InSplits(g) \ DOMAIN g
      BY DEF Arranged
<1>3. s.hidden \subseteq DOMAIN s.seat /\ DOMAIN g \cap DOMAIN s.seat \subseteq bar BY <1>1
<1>4. \A t : Extras(s, t) \subseteq s.hidden BY DEF Extras
<1>5. ASSUME NEW t \in DOMAIN g PROVE Leaves(g[t]) = {t} \cup Extras(s, t)
  <2>1. t \in Leaves(g[t]) BY <1>1 DEF Sound
  <2>2. ASSUME NEW u \in Leaves(g[t]), u # t PROVE u \in s.hidden
    <3>1. u \in InSplits(g) BY <2>2 DEF InSplits
    <3>2. u \notin DOMAIN g BY <2>2, <1>1 DEF Sound
    <3> QED BY <3>1, <3>2, <1>1
  <2> QED BY <2>1, <2>2 DEF Extras
<1>6. ASSUME NEW t, NEW u, t # u PROVE Extras(s, t) \cap Extras(s, u) = {}
  BY <1>6, <1>1 DEF Extras, Sound
<1> QED BY <1>3, <1>4, <1>5, <1>6

\* What keepTerminalsForSession keeps: each shell once, no more than the cap, with an
\* extra pane the whole split it is in, and if the cap allows it the bar with all its panes.
LEMMA KeptFacts ==
    ASSUME NEW s, NEW n \in Nat, Arranged(s, n)
    PROVE  LET K == Kept(s)
           IN  /\ K \in Seq(DOMAIN s.seat) /\ IsInjective(K) /\ Len(K) <= MaxSaved
               /\ \A t \in DOMAIN s.seat \ s.hidden :
                      Extras(s, t) \cap ToSet(K) # {} => {t} \cup Extras(s, t) \subseteq ToSet(K)
               /\ \A u \in ToSet(K) \cap s.hidden :
                      \E t \in DOMAIN s.seat \ s.hidden : u \in Extras(s, t)
               /\ Cardinality(DOMAIN s.seat) <= MaxSaved =>
                      ToSet(K) = (DOMAIN s.seat \ s.hidden)
                                   \cup UNION {Extras(s, t) : t \in DOMAIN s.seat \ s.hidden}
<1> DEFINE tabs == DOMAIN s.seat
           seen == tabs \ s.hidden
           bar == InOrder(s, seen)
           L == Len(bar)
           X(i) == Extras(s, bar[i])
           needed == [i \in DOMAIN bar |-> 1 + Cardinality(X(i))]
           room == Room(needed)
           kept == {i \in DOMAIN bar : room[i - 1] >= 1}
           whole == {i \in DOMAIN bar : needed[i] <= room[i - 1]}
           Panes(i) == UNION {X(j) : j \in whole \cap 1 .. i}
           Shown(i) == {bar[j] : j \in kept \cap 1 .. i}
           Taken(i) == Shown(i) \cup Panes(i)
           all == UNION {X(j) : j \in whole}
<1>1. Kept(s) = SubSeq(bar, 1, Cardinality(kept)) \o InOrder(s, all) BY DEF Kept
\* the tabs
<1>2. /\ IsFiniteSet(tabs) /\ \A t \in tabs : s.seat[t] \in Nat
      /\ \A t, u \in tabs : s.seat[t] = s.seat[u] => t = u
  <2>1. tabs \in SUBSET (1 .. n) BY DEF Arranged
  <2>2. IsFiniteSet(1 .. n) BY FS_Interval
  <2>3. \A t \in tabs : s.seat[t] \in 1 .. n BY DEF Arranged
  <2> QED BY <2>1, <2>2, <2>3, FS_Subset DEF Arranged
<1>3. ASSUME NEW S \in SUBSET tabs
      PROVE  /\ IsFiniteSet(S) /\ Cardinality(S) \in Nat
             /\ InOrder(s, S) \in Seq(S) /\ Len(InOrder(s, S)) = Cardinality(S)
             /\ ToSet(InOrder(s, S)) = S /\ IsInjective(InOrder(s, S))
  <2>1. IsFiniteSet(S) BY <1>2, FS_Subset
  <2>2. \A t \in S : s.seat[t] \in Nat BY <1>2
  <2>3. \A t, u \in S : s.seat[t] = s.seat[u] => t = u BY <1>2
  <2> QED BY <2>1, <2>2, <2>3, InOrderFacts
<1>4. /\ s.hidden \subseteq tabs
      /\ \A t : Extras(s, t) \subseteq s.hidden
      /\ \A t, u : t # u => Extras(s, t) \cap Extras(s, u) = {}
      BY ExtrasFacts
<1>5. bar \in Seq(seen) /\ ToSet(bar) = seen /\ IsInjective(bar) BY <1>3
<1> HIDE DEF bar, seen
<1>6. L \in Nat /\ DOMAIN bar = 1 .. L /\ \A i \in 1 .. L : bar[i] \in seen
      BY <1>5, LenProperties
<1>7. \A i, j \in 1 .. L : bar[i] = bar[j] => i = j BY <1>5, <1>6 DEF IsInjective
<1>8. \A t \in seen : \E i \in 1 .. L : bar[i] = t BY <1>5, <1>6 DEF ToSet
<1> HIDE DEF L
<1>9. ASSUME NEW i \in 1 .. L
      PROVE  /\ X(i) \subseteq s.hidden /\ IsFiniteSet(X(i)) /\ Cardinality(X(i)) \in Nat
             /\ needed[i] = 1 + Cardinality(X(i))
             /\ \A j \in 1 .. L : i # j => X(i) \cap X(j) = {}
  <2>1. X(i) \subseteq s.hidden BY <1>4
  <2>2. X(i) \in SUBSET tabs BY <1>4, <2>1
  <2>3. IsFiniteSet(X(i)) /\ Cardinality(X(i)) \in Nat BY <1>3, <2>2
  <2>4. \A j \in 1 .. L : i # j => X(i) \cap X(j) = {} BY <1>4, <1>7
  <2> QED BY <1>6, <2>1, <2>3, <2>4
<1>10. Len(needed) = L /\ \A i \in 1 .. L : needed[i] \in Nat /\ needed[i] >= 1
  <2>1. \A i \in 1 .. L : needed[i] \in Nat /\ needed[i] >= 1 BY <1>9
  <2>2. needed \in [1 .. L -> Nat] BY <1>6, <2>1
  <2>3. needed \in Seq(Nat) /\ DOMAIN needed = 1 .. L BY <1>6, <2>2, SeqDef
  <2> HIDE DEF needed
  <2> QED BY <2>1, <2>3, <1>6, LenProperties
<1>11. room[0] = MaxSaved
       /\ (\A i \in 1 .. L : room[i] = RoomAfter(room[i - 1], needed[i]))
       /\ \A i \in 0 .. L : room[i] \in Nat
  <2>1. Len(needed) = L BY <1>10
  <2>2. Len(needed) \in Nat /\ \A i \in 1 .. Len(needed) : needed[i] \in Nat BY <1>6, <1>10
  <2> HIDE DEF needed
  <2>3. /\ Room(needed)[0] = MaxSaved
        /\ \A i \in 1 .. Len(needed) : Room(needed)[i] = RoomAfter(Room(needed)[i - 1], needed[i])
        /\ \A i \in 0 .. Len(needed) : Room(needed)[i] \in Nat
        BY <2>2, RoomIsLeft
  <2> QED BY <2>1, <2>3
<1> HIDE DEF needed, room, X
<1>12. kept \subseteq 1 .. L /\ whole \subseteq kept
  <2>1. ASSUME NEW i \in whole PROVE i \in kept
    <3>1. i \in 1 .. L /\ needed[i] <= room[i - 1] BY <1>6, <2>1
    <3>2. room[i - 1] \in Nat /\ needed[i] >= 1 /\ needed[i] \in Nat BY <1>10, <1>11, <3>1
    <3> QED BY <3>1, <3>2, <1>6
  <2> QED BY <1>6, <2>1
<1>13. kept = 1 .. Cardinality(kept) /\ Cardinality(kept) \in 0 .. L
  <2>1. ASSUME NEW i \in kept, i # 1 PROVE i - 1 \in kept
    <3>1. i \in 1 .. L /\ room[i - 1] >= 1 BY <1>6, <2>1
    <3>2. i - 1 \in 1 .. L /\ i - 1 - 1 \in 0 .. L BY <1>6, <2>1, <3>1
    <3>3. /\ room[i - 1] = RoomAfter(room[i - 1 - 1], needed[i - 1])
          /\ room[i - 1 - 1] \in Nat /\ needed[i - 1] \in Nat /\ needed[i - 1] >= 1
          BY <1>10, <1>11, <3>2
    <3>4. room[i - 1 - 1] >= 1 BY <3>1, <3>3 DEF RoomAfter
    <3> QED BY <1>6, <3>2, <3>4
  <2>2. kept \in SUBSET (1 .. L) BY <1>12
  <2> HIDE DEF kept
  <2> QED BY <1>6, <2>1, <2>2, InitialSegment
<1> HIDE DEF kept, whole
\* what is taken and what is left make the cap
<1>14. ASSUME NEW i \in 0 .. L
       PROVE  /\ Shown(i) \subseteq seen /\ Panes(i) \subseteq s.hidden
              /\ Taken(i) \in SUBSET tabs /\ IsFiniteSet(Taken(i)) /\ Cardinality(Taken(i)) \in Nat
  <2>1. Shown(i) \subseteq seen BY <1>6
  <2>2. Panes(i) \subseteq s.hidden BY <1>9, <1>12
  <2>3. Taken(i) \in SUBSET tabs BY <1>4, <2>1, <2>2 DEF seen
  <2> HIDE DEF Taken
  <2> QED BY <1>3, <2>1, <2>2, <2>3
<1>15. ASSUME NEW i \in 1 .. L
       PROVE  bar[i] \notin Taken(i - 1) /\ X(i) \cap ({bar[i]} \cup Taken(i - 1)) = {}
  <2>1. i - 1 \in 0 .. L BY <1>6
  <2>2. bar[i] \notin s.hidden /\ bar[i] \in seen BY <1>6 DEF seen
  <2>3. bar[i] \notin Shown(i - 1) BY <1>6, <1>7, <1>12
  <2>4. X(i) \cap Panes(i - 1) = {} BY <1>9, <1>12
  <2>5. X(i) \cap seen = {} BY <1>9 DEF seen
  <2>6. Shown(i - 1) \subseteq seen /\ Panes(i - 1) \subseteq s.hidden BY <1>14, <2>1
  <2> HIDE DEF Shown, Panes
  <2> QED BY <2>2, <2>3, <2>4, <2>5, <2>6
<1>16. ASSUME NEW i \in 1 .. L
       PROVE  /\ Cardinality(Taken(i - 1) \cup {bar[i]}) = Cardinality(Taken(i - 1)) + 1
              /\ Cardinality(Taken(i - 1) \cup {bar[i]} \cup X(i))
                   = Cardinality(Taken(i - 1)) + needed[i]
  <2>1. i - 1 \in 0 .. L BY <1>6
  <2>2. IsFiniteSet(Taken(i - 1)) /\ Cardinality(Taken(i - 1)) \in Nat BY <1>14, <2>1
  <2>3. bar[i] \notin Taken(i - 1) /\ (Taken(i - 1) \cup {bar[i]}) \cap X(i) = {} BY <1>15
  <2>4. IsFiniteSet(X(i)) /\ Cardinality(X(i)) \in Nat /\ needed[i] = 1 + Cardinality(X(i))
        BY <1>9
  <2> HIDE DEF Taken
  <2>5. /\ IsFiniteSet(Taken(i - 1) \cup {bar[i]})
        /\ Cardinality(Taken(i - 1) \cup {bar[i]}) = Cardinality(Taken(i - 1)) + 1
        BY <2>2, <2>3, FS_AddElement
  <2>6. Cardinality(Taken(i - 1) \cup {bar[i]} \cup X(i))
          = Cardinality(Taken(i - 1) \cup {bar[i]}) + Cardinality(X(i))
    <3>1. Cardinality((Taken(i - 1) \cup {bar[i]}) \cap X(i)) = 0 BY <2>3, FS_EmptySet
    <3>2. Cardinality(Taken(i - 1) \cup {bar[i]} \cup X(i))
            = Cardinality(Taken(i - 1) \cup {bar[i]}) + Cardinality(X(i))
              - Cardinality((Taken(i - 1) \cup {bar[i]}) \cap X(i))
          BY <2>4, <2>5, FS_Union
    <3> QED BY <3>1, <3>2, <2>2, <2>4, <2>5
  <2> QED BY <2>2, <2>4, <2>5, <2>6
<1> DEFINE Even(i) == room[i] + Cardinality(Taken(i)) = MaxSaved
<1>17. Even(0)
  <2>1. Taken(0) = {} OBVIOUS
  <2>2. Cardinality(Taken(0)) = 0 BY <2>1, FS_EmptySet
  <2> HIDE DEF Taken
  <2> QED BY <2>2, <1>11, SessionAssumption
<1>18. ASSUME NEW i \in 1 .. L, Even(i - 1) PROVE Even(i)
  <2>1. i - 1 \in 0 .. L /\ i \in 0 .. L BY <1>6
  <2>2. /\ room[i - 1] \in Nat /\ needed[i] \in Nat /\ needed[i] >= 1
        /\ room[i] = RoomAfter(room[i - 1], needed[i]) /\ Cardinality(Taken(i - 1)) \in Nat
        BY <1>10, <1>11, <1>14, <2>1
  <2>3. \A K \in SUBSET (1 .. L) : K \cap 1 .. i = (K \cap 1 .. (i - 1)) \cup (K \cap {i})
        BY <1>6
  <2>4. /\ kept \cap 1 .. i = (kept \cap 1 .. (i - 1)) \cup (kept \cap {i})
        /\ whole \cap 1 .. i = (whole \cap 1 .. (i - 1)) \cup (whole \cap {i})
        BY <2>3, <1>12
  <2>5. /\ Shown(i) = Shown(i - 1) \cup {bar[j] : j \in kept \cap {i}}
        /\ Panes(i) = Panes(i - 1) \cup UNION {X(j) : j \in whole \cap {i}}
        BY <2>4
  <2>6. CASE needed[i] <= room[i - 1]
    <3>1. i \in whole /\ i \in kept BY <2>6, <1>6, <1>12 DEF whole
    <3>2. Taken(i) = Taken(i - 1) \cup {bar[i]} \cup X(i) BY <2>5, <3>1
    <3>3. room[i] = room[i - 1] - needed[i] BY <2>2, <2>6 DEF RoomAfter
    <3> HIDE DEF Taken
    <3>4. Cardinality(Taken(i)) = Cardinality(Taken(i - 1)) + needed[i] BY <3>2, <1>16
    <3> QED BY <3>3, <3>4, <1>18, <2>2
  <2>7. CASE needed[i] > room[i - 1] /\ room[i - 1] >= 1
    <3>1. i \notin whole BY <2>2, <2>7 DEF whole
    <3>2. i \in kept BY <2>7, <1>6 DEF kept
    <3>3. Taken(i) = Taken(i - 1) \cup {bar[i]} BY <2>5, <3>1, <3>2
    <3>4. room[i] = room[i - 1] - 1 BY <2>2, <2>7 DEF RoomAfter
    <3> HIDE DEF Taken
    <3>5. Cardinality(Taken(i)) = Cardinality(Taken(i - 1)) + 1 BY <3>3, <1>16
    <3> QED BY <3>4, <3>5, <1>18, <2>2
  <2>8. CASE needed[i] > room[i - 1] /\ ~ (room[i - 1] >= 1)
    <3>1. i \notin whole BY <2>2, <2>8 DEF whole
    <3>2. i \notin kept BY <2>8 DEF kept
    <3>3. Taken(i) = Taken(i - 1) BY <2>5, <3>1, <3>2
    <3>4. room[i] = room[i - 1] BY <2>2, <2>8 DEF RoomAfter
    <3> HIDE DEF Taken
    <3> QED BY <3>3, <3>4, <1>18
  <2> QED BY <2>2, <2>6, <2>7, <2>8
<1> HIDE DEF Even
<1>19. \A i \in 0 .. L : Even(i)
  <2> DEFINE Odd == {i \in Nat : i <= L /\ ~ Even(i)}
  <2> SUFFICES ASSUME Odd # {} PROVE FALSE BY <1>6
  <2>1. Odd \subseteq Nat OBVIOUS
  <2>2. \E x \in Odd : \A y \in Odd : ~ (<<y, x>> \in OpToRel(<, Nat))
        BY <2>1, NatLessThanWellFounded, WFMin
  <2>3. PICK x \in Odd : \A y \in Odd : ~ (y < x) BY <2>1, <2>2 DEF OpToRel
  <2>4. x \in Nat /\ x <= L /\ ~ Even(x) BY <2>3
  <2>5. x # 0 BY <2>4, <1>17
  <2>6. x - 1 \in Nat /\ x - 1 < x /\ x - 1 <= L /\ x \in 1 .. L BY <2>4, <2>5, <1>6
  <2>7. Even(x - 1) BY <2>3, <2>6
  <2> QED BY <2>4, <2>6, <2>7, <1>18
\* the sequence
<1> DEFINE front == SubSeq(bar, 1, Cardinality(kept))
           back == InOrder(s, all)
<1>20. all = Panes(L) /\ {bar[j] : j \in kept} = Shown(L)
  <2>1. kept \cap 1 .. L = kept /\ whole \cap 1 .. L = whole BY <1>12
  <2> QED BY <2>1
<1>21. L \in 0 .. L BY <1>6
<1>22. all \subseteq s.hidden /\ all \in SUBSET tabs BY <1>4, <1>14, <1>20, <1>21
<1>23. /\ back \in Seq(all) /\ ToSet(back) = all /\ IsInjective(back)
       /\ Len(back) \in Nat /\ \A i \in 1 .. Len(back) : back[i] \in all
  <2> HIDE DEF all
  <2> QED BY <1>3, <1>22, LenProperties
<1>24. /\ front \in Seq(seen) /\ Len(front) = Cardinality(kept)
       /\ \A i \in 1 .. Cardinality(kept) : front[i] = bar[i]
  <2> DEFINE c == Cardinality(kept)
  <2>0. c \in Nat /\ c <= L BY <1>13, <1>6
  <2> HIDE DEF c
  <2>1. \A i \in 1 .. c : bar[i] \in seen BY <1>6, <2>0
  <2>2. /\ SubSeq(bar, 1, c) \in Seq(seen)
        /\ Len(SubSeq(bar, 1, c)) = IF 1 <= c THEN c - 1 + 1 ELSE 0
        /\ \A i \in 1 .. c - 1 + 1 : SubSeq(bar, 1, c)[i] = bar[1 + i - 1]
        BY <2>0, <2>1, SubSeqProperties
  <2>3. \A i \in 1 .. c : SubSeq(bar, 1, c)[i] = bar[i]
    <3> SUFFICES ASSUME NEW i \in 1 .. c PROVE SubSeq(bar, 1, c)[i] = bar[i] OBVIOUS
    <3>1. i \in 1 .. c - 1 + 1 /\ 1 + i - 1 = i BY <2>0
    <3> QED BY <2>2, <3>1
  <2>4. Len(SubSeq(bar, 1, c)) = c BY <2>0, <2>2
  <2> QED BY <2>2, <2>3, <2>4 DEF c
<1> HIDE DEF front, back, all
<1> DEFINE K == Kept(s)
<1>25. K = front \o back BY <1>1 DEF front, back
<1>26. front \in Seq(tabs) /\ back \in Seq(tabs)
  <2>1. seen \subseteq tabs BY DEF seen
  <2> QED BY <2>1, <1>22, <1>23, <1>24, SeqMonotonic
<1> HIDE DEF tabs, K
<1>27. /\ K \in Seq(tabs) /\ Len(K) = Len(front) + Len(back) /\ Len(front) \in Nat
       /\ \A i \in 1 .. Len(front) + Len(back) :
            K[i] = IF i <= Len(front) THEN front[i] ELSE back[i - Len(front)]
       BY <1>25, <1>26, ConcatProperties, LenProperties
<1>28. DOMAIN K = 1 .. Len(K) BY <1>27, LenProperties
<1>29. ToSet(K) = Taken(L)
  <2>1. ASSUME NEW x \in Taken(L) PROVE x \in ToSet(K)
    <3>1. CASE x \in all
      <4>1. PICK j \in 1 .. Len(back) : back[j] = x BY <3>1, <1>23, LenProperties DEF ToSet
      <4>2. Len(front) + j \in 1 .. Len(front) + Len(back) /\ ~ (Len(front) + j <= Len(front))
            /\ Len(front) + j - Len(front) = j BY <1>23, <1>27, <4>1
      <4>3. K[Len(front) + j] = x BY <1>27, <4>1, <4>2
      <4> QED BY <1>27, <1>28, <4>2, <4>3 DEF ToSet
    <3>2. CASE x \notin all
      <4>1. PICK j \in kept : x = bar[j] BY <3>2, <2>1, <1>20
      <4>2. j \in 1 .. Cardinality(kept) BY <1>13
      <4>3. j \in 1 .. Len(front) + Len(back) /\ j <= Len(front)
        <5>1. Len(front) \in Nat /\ Len(back) \in Nat /\ Len(front) = Cardinality(kept)
              BY <1>23, <1>24, <1>27
        <5> QED BY <5>1, <4>2
      <4>4. K[j] = bar[j] BY <1>24, <1>27, <4>2, <4>3
      <4> QED BY <1>27, <1>28, <4>1, <4>3, <4>4 DEF ToSet
    <3> QED BY <3>1, <3>2
  <2>2. ASSUME NEW x \in ToSet(K) PROVE x \in Taken(L)
    <3>1. PICK i \in 1 .. Len(front) + Len(back) : x = K[i] BY <2>2, <1>27, <1>28 DEF ToSet
    <3>2. CASE i <= Len(front)
      <4>1. i \in 1 .. Cardinality(kept) BY <1>24, <1>27, <1>13, <1>6, <3>1, <3>2
      <4>2. i \in kept /\ x = bar[i] BY <1>13, <1>24, <1>27, <3>1, <3>2, <4>1
      <4> QED BY <4>2, <1>20
    <3>3. CASE ~ (i <= Len(front))
      <4>1. i - Len(front) \in 1 .. Len(back) BY <1>23, <1>27, <3>1, <3>3
      <4>2. x \in all BY <1>23, <1>27, <3>1, <3>3, <4>1
      <4> QED BY <4>2, <1>20
    <3> QED BY <3>2, <3>3
  <2> QED BY <2>1, <2>2
<1>30. ASSUME NEW i \in 1 .. Len(K), NEW j \in 1 .. Len(K), K[i] = K[j] PROVE i = j
  <2>1. \A m \in 1 .. Len(front) : front[m] \in seen /\ m \in 1 .. L
    <3>1. Len(front) = Cardinality(kept) /\ Cardinality(kept) \in Nat /\ Cardinality(kept) <= L
          BY <1>24, <1>13, <1>6
    <3> QED BY <3>1, <1>24, <1>6
  <2>2. \A m \in 1 .. Len(back) : back[m] \notin seen BY <1>22, <1>23 DEF seen
  <2>3. \A m, k \in 1 .. Len(front) : front[m] = front[k] => m = k BY <2>1, <1>7, <1>24
  <2>4. \A m, k \in 1 .. Len(back) : back[m] = back[k] => m = k
        BY <1>23, LenProperties DEF IsInjective
  <2>5. \A m \in 1 .. Len(K) : \/ m \in 1 .. Len(front) /\ K[m] = front[m]
                               \/ /\ m - Len(front) \in 1 .. Len(back)
                                  /\ K[m] = back[m - Len(front)]
    <3> SUFFICES ASSUME NEW m \in 1 .. Len(K)
                 PROVE  \/ m \in 1 .. Len(front) /\ K[m] = front[m]
                        \/ m - Len(front) \in 1 .. Len(back) /\ K[m] = back[m - Len(front)]
        OBVIOUS
    <3>1. m \in 1 .. Len(front) + Len(back) BY <1>27
    <3>2. Len(front) \in Nat /\ Len(back) \in Nat BY <1>23, <1>27
    <3> QED BY <3>1, <3>2, <1>27
  <2>6. i \in Nat /\ j \in Nat /\ Len(front) \in Nat BY <1>27, <1>28
  <2>7. CASE i \in 1 .. Len(front) /\ K[i] = front[i]
    <3>1. K[i] \in seen BY <2>1, <2>7
    <3>2. j \in 1 .. Len(front) /\ K[j] = front[j] BY <3>1, <2>2, <2>5, <1>30
    <3> QED BY <3>2, <2>3, <2>7, <1>30
  <2>8. CASE i - Len(front) \in 1 .. Len(back) /\ K[i] = back[i - Len(front)]
    <3>1. K[i] \notin seen BY <2>2, <2>8
    <3>2. j - Len(front) \in 1 .. Len(back) /\ K[j] = back[j - Len(front)]
          BY <3>1, <2>1, <2>5, <1>30
    <3>3. i - Len(front) = j - Len(front) BY <3>2, <2>4, <2>8, <1>30
    <3> QED BY <3>3, <2>6
  <2> QED BY <2>5, <2>7, <2>8
<1>31. IsInjective(K) BY <1>28, <1>30 DEF IsInjective
<1>32. Len(K) <= MaxSaved
  <2>1. Cardinality(Taken(L)) = Len(K) BY <1>27, <1>29, <1>31, InjectiveLength
  <2>2. room[L] + Cardinality(Taken(L)) = MaxSaved BY <1>19, <1>21 DEF Even
  <2>3. room[L] \in Nat /\ Cardinality(Taken(L)) \in Nat BY <1>11, <1>14, <1>21
  <2> QED BY <2>1, <2>2, <2>3, SessionAssumption
\* the panes
<1>33. ASSUME NEW t \in seen, Extras(s, t) \cap ToSet(K) # {}
       PROVE  {t} \cup Extras(s, t) \subseteq ToSet(K)
  <2>1. PICK i \in 1 .. L : bar[i] = t BY <1>8
  <2>2. PICK x \in Extras(s, t) : x \in Taken(L) BY <1>29, <1>33
  <2>3. x \in s.hidden /\ x \notin seen BY <1>4, <2>2 DEF seen
  <2>4. x \in Panes(L) BY <2>2, <2>3, <1>14, <1>21
  <2>5. PICK j \in whole : x \in X(j) BY <2>4
  <2>6. j \in 1 .. L /\ j \in kept BY <2>5, <1>12
  <2>7. j = i BY <2>1, <2>2, <2>5, <2>6, <1>9 DEF X
  <2>8. X(i) \subseteq Panes(L) /\ bar[i] \in Shown(L) BY <2>1, <2>5, <2>6, <2>7
  <2>9. X(i) = Extras(s, t) BY <2>1 DEF X
  <2> QED BY <2>1, <2>8, <2>9, <1>29
\* room for all
<1>34. ASSUME NEW u \in ToSet(K), u \in s.hidden PROVE \E t \in seen : u \in Extras(s, t)
  <2>1. u \notin seen /\ u \in Taken(L) BY <1>29, <1>34 DEF seen
  <2>2. u \in Panes(L) BY <2>1, <1>14, <1>21
  <2>3. PICK j \in whole : u \in X(j) BY <2>2
  <2>4. bar[j] \in seen BY <2>3, <1>6, <1>12
  <2> QED BY <2>3, <2>4 DEF X
<1>35. ASSUME Cardinality(tabs) <= MaxSaved
       PROVE  ToSet(K) = seen \cup UNION {Extras(s, t) : t \in seen}
  <2>1. ASSUME NEW i \in 1 .. L PROVE i \in whole /\ i \in kept
    <3>1. i - 1 \in 0 .. L BY <1>6
    <3>2. Taken(i - 1) \in SUBSET tabs BY <1>14, <3>1
    <3>3. bar[i] \in tabs /\ X(i) \subseteq tabs BY <1>4, <1>6, <1>9 DEF seen
    <3>4. Taken(i - 1) \cup {bar[i]} \cup X(i) \in SUBSET tabs BY <3>2, <3>3
    <3>5. IsFiniteSet(tabs) /\ Cardinality(tabs) \in Nat BY <1>2, FS_CardinalityType DEF tabs
    <3>6. Cardinality(Taken(i - 1) \cup {bar[i]} \cup X(i)) <= Cardinality(tabs)
      <4> HIDE DEF Taken
      <4> QED BY <3>4, <3>5, FS_Subset
    <3>7. /\ room[i - 1] + Cardinality(Taken(i - 1)) = MaxSaved /\ room[i - 1] \in Nat
          /\ Cardinality(Taken(i - 1)) \in Nat /\ needed[i] \in Nat
          BY <1>10, <1>11, <1>14, <1>19, <3>1 DEF Even
    <3>8. needed[i] <= room[i - 1]
      <4> HIDE DEF Taken
      <4>1. Cardinality(Taken(i - 1)) + needed[i] <= Cardinality(tabs) BY <3>6, <1>16
      <4> QED BY <4>1, <3>5, <3>7, <1>35, SessionAssumption
    <3> QED BY <3>8, <1>6, <1>12 DEF whole
  <2>2. ASSUME NEW t \in seen PROVE t \in Taken(L) /\ Extras(s, t) \subseteq Taken(L)
    <3>1. PICK i \in 1 .. L : bar[i] = t BY <1>8
    <3>2. i \in whole /\ i \in kept BY <2>1
    <3>3. X(i) = Extras(s, t) BY <3>1 DEF X
    <3> QED BY <3>1, <3>2, <3>3
  <2>3. ASSUME NEW u \in Taken(L) PROVE u \in seen \/ \E t \in seen : u \in Extras(s, t)
    <3>1. CASE u \in Shown(L) BY <3>1, <1>14, <1>21
    <3>2. CASE u \in Panes(L)
      <4>1. u \in s.hidden /\ u \in ToSet(K) BY <3>2, <1>14, <1>21, <1>29
      <4> QED BY <4>1, <1>34
    <3> QED BY <3>1, <3>2
  <2> HIDE DEF Taken
  <2> QED BY <2>2, <2>3, <1>29
<1> QED BY <1>27, <1>31, <1>32, <1>33, <1>34, <1>35 DEF K, seen, tabs

-----------------------------------------------------------------------------
(* Session files: snapshots and what is read of them *)

\* A snapshot has whole splits only, and is a session file.
LEMMA SnapshotIsWhole ==
    ASSUME NEW s, NEW n \in Nat, Arranged(s, n)
    PROVE  Whole(SnapshotOf(s), n)
<1> DEFINE K == Kept(s)
           known == ToSet(K)
           g == s.groups
           kept == {o \in DOMAIN g : Leaves(g[o]) \subseteq known}
           h == [o \in kept |-> g[o]]
           d == SnapshotOf(s)
<1>1. /\ K \in Seq(DOMAIN s.seat) /\ IsInjective(K) /\ Len(K) <= MaxSaved
      /\ \A t \in DOMAIN s.seat \ s.hidden :
             Extras(s, t) \cap known # {} => {t} \cup Extras(s, t) \subseteq known
      /\ \A u \in known \cap s.hidden :
             \E t \in DOMAIN s.seat \ s.hidden : u \in Extras(s, t)
      BY KeptFacts
<1>2. /\ d.tabs = K /\ d.hidden = s.hidden \cap known /\ d.groups = h
      /\ d.active = IF s.active \in known THEN s.active ELSE NoShell
      /\ d.synced = IF s.synced \in known THEN s.synced ELSE NoShell
      BY DEF SnapshotOf
<1> HIDE DEF K, d
<1>3. K \in Seq(1 .. n)
  <2>1. DOMAIN s.seat \subseteq 1 .. n BY DEF Arranged
  <2> QED BY <1>1, <2>1, SeqMonotonic
<1>4. /\ Sound(g) /\ s.hidden = InSplits(g) \ DOMAIN g
      /\ \A o \in DOMAIN g : Cardinality(Leaves(g[o])) <= MaxPanes
      BY DEF Arranged
<1>5. /\ \A t, u : t # u => Extras(s, t) \cap Extras(s, u) = {}
      /\ \A t \in DOMAIN g : Leaves(g[t]) = {t} \cup Extras(s, t)
      BY ExtrasFacts
<1> HIDE DEF known
<1>6. DOMAIN h = kept /\ \A o \in kept : h[o] = g[o] OBVIOUS
<1> HIDE DEF h
<1>7. InSplits(h) \subseteq known /\ InSplits(h) \subseteq InSplits(g) BY <1>6 DEF InSplits
<1>8. Sound(h) BY <1>4, <1>6, <1>7 DEF Sound
<1>9. s.hidden \cap known = InSplits(h) \ DOMAIN h
  <2>1. ASSUME NEW u \in s.hidden, u \in known PROVE u \in InSplits(h) \ DOMAIN h
    <3>1. u \in InSplits(g) /\ u \notin DOMAIN g BY <2>1, <1>4
    <3>2. PICK o \in DOMAIN g : u \in Leaves(g[o]) BY <3>1 DEF InSplits
    <3>3. u \in Extras(s, o) BY <3>1, <3>2, <1>5
    <3>4. PICK t \in DOMAIN s.seat \ s.hidden : u \in Extras(s, t) BY <2>1, <1>1
    <3>5. t = o BY <3>3, <3>4, <1>5
    <3>6. Leaves(g[o]) \subseteq known BY <3>2, <3>3, <3>4, <3>5, <2>1, <1>1, <1>5
    <3>7. o \in kept BY <3>2, <3>6
    <3> QED BY <3>1, <3>2, <3>7, <1>6 DEF InSplits
  <2>2. ASSUME NEW u \in InSplits(h) \ DOMAIN h PROVE u \in s.hidden /\ u \in known
    <3>1. u \in InSplits(g) /\ u \in known BY <2>2, <1>7
    <3>2. u \notin DOMAIN g
      <4>1. PICK o \in kept : u \in Leaves(g[o]) BY <2>2, <1>6 DEF InSplits
      <4>2. u # o BY <2>2, <4>1, <1>6
      <4> QED BY <4>1, <4>2, <1>4 DEF Sound
    <3> QED BY <3>1, <3>2, <1>4
  <2> QED BY <2>1, <2>2
<1>10. \A o \in DOMAIN h : Cardinality(Leaves(h[o])) <= MaxPanes BY <1>4, <1>6
<1>11. /\ d.active \in ToSet(d.tabs) \cup {NoShell} /\ d.synced \in ToSet(d.tabs) \cup {NoShell}
  BY <1>2 DEF known
<1>12. Whole(d, n)
  <2>1. d.tabs \in Seq(1 .. n) /\ IsInjective(d.tabs) /\ Len(d.tabs) <= MaxSaved
        BY <1>1, <1>2, <1>3
  <2>2. ToSet(d.tabs) = known BY <1>2 DEF known
  <2>3. Sound(d.groups) /\ InSplits(d.groups) \subseteq ToSet(d.tabs) BY <1>2, <1>7, <1>8, <2>2
  <2>4. d.hidden = InSplits(d.groups) \ DOMAIN d.groups BY <1>2, <1>9
  <2>5. \A o \in DOMAIN d.groups : Cardinality(Leaves(d.groups[o])) <= MaxPanes BY <1>2, <1>10
  <2> QED BY <1>11, <2>1, <2>3, <2>4, <2>5 DEF Whole
<1> QED BY <1>12 DEF d

\* Parsing a session file changes nothing in it.
LEMMA ParsedIsWhole ==
    ASSUME NEW d, NEW n \in Nat, Whole(d, n)
    PROVE  /\ Parsed(d) = [o \in DOMAIN d.groups |-> d.groups[o]]
           /\ RestoredHidden(d) = d.hidden
<1> DEFINE g == d.groups
           p == Parsed(d)
           known == ToSet(d.tabs)
<1>1. /\ Sound(g) /\ InSplits(g) \subseteq known /\ d.hidden = InSplits(g) \ DOMAIN g
      /\ \A o \in DOMAIN g : Cardinality(Leaves(g[o])) <= MaxPanes
      BY DEF Whole
<1>2. DOMAIN g \subseteq InSplits(g) BY <1>1, OwnerIsUnique
<1>3. \A o \in DOMAIN g : /\ o \in known /\ Leaves(g[o]) \subseteq known
                          /\ o \in Leaves(g[o]) /\ IsSplit(g[o])
      BY <1>1, <1>2 DEF Sound, InSplits
<1> HIDE DEF known
<1>4. {o \in DOMAIN g \cap known : /\ Leaves(g[o]) \subseteq known
                                   /\ o \in Leaves(g[o]) /\ IsSplit(g[o])
                                   /\ Cardinality(Leaves(g[o])) <= MaxPanes} = DOMAIN g
      BY <1>1, <1>3
<1>5. p = [o \in DOMAIN g |-> g[o]]
      BY <1>4 DEF Parsed, known
<1>6. DOMAIN p = DOMAIN g /\ \A o \in DOMAIN g : p[o] = g[o] BY <1>5
<1>7. RestoredHidden(d) = UNION {Leaves(g[o]) \ {o} : o \in DOMAIN g}
  <2> HIDE DEF p
  <2>1. RestoredHidden(d) = UNION {Leaves(p[o]) \ {o} : o \in DOMAIN p} BY DEF RestoredHidden, p
  <2> QED BY <2>1, <1>6
<1>8. UNION {Leaves(g[o]) \ {o} : o \in DOMAIN g} = InSplits(g) \ DOMAIN g
  <2>1. \A o \in DOMAIN g : \A u \in Leaves(g[o]) : u # o => u \notin DOMAIN g BY <1>1 DEF Sound
  <2> QED BY <2>1, <1>3 DEF InSplits
<1> QED BY <1>1, <1>5, <1>7, <1>8

\* What a session file brings back is an arrangement of its shells.
LEMMA RestoredIsArranged ==
    ASSUME NEW d, NEW n \in Nat, Whole(d, n), NEW s,
           s.seat = Seats(d), s.groups = Parsed(d), s.hidden = RestoredHidden(d),
           s.synced = d.synced
    PROVE  /\ Arranged(s, n) /\ DOMAIN s.seat = ToSet(d.tabs)
           /\ DOMAIN s.groups \subseteq DOMAIN s.seat
           /\ IF DOMAIN s.seat = {} THEN RestoredFocus(d) = NoShell
              ELSE RestoredFocus(d) \in DOMAIN s.seat
<1> DEFINE q == d.tabs
           g == d.groups
           p == Parsed(d)
           known == ToSet(q)
<1>1. /\ q \in Seq(1 .. n) /\ IsInjective(q)
      /\ Sound(g) /\ InSplits(g) \subseteq known /\ d.hidden = InSplits(g) \ DOMAIN g
      /\ \A o \in DOMAIN g : Cardinality(Leaves(g[o])) <= MaxPanes
      /\ d.active \in known \cup {NoShell} /\ d.synced \in known \cup {NoShell}
      BY DEF Whole
<1>2. p = [o \in DOMAIN g |-> g[o]] /\ s.hidden = d.hidden BY ParsedIsWhole
<1>3. /\ Len(q) \in Nat /\ DOMAIN q = 1 .. Len(q) /\ \A i \in 1 .. Len(q) : q[i] \in 1 .. n
      /\ \A i, j \in 1 .. Len(q) : q[i] = q[j] => i = j
      BY <1>1, LenProperties DEF IsInjective
<1>4. known \subseteq 1 .. n /\ \A t \in known : \E i \in 1 .. Len(q) : q[i] = t
      BY <1>3 DEF ToSet
<1>5. Len(q) <= n
  <2>1. IsFiniteSet(1 .. n) /\ Cardinality(1 .. n) = n
    <3>1. 1 \in Int /\ n \in Int OBVIOUS
    <3>2. IsFiniteSet(1 .. n) /\ Cardinality(1 .. n) = IF 1 > n THEN 0 ELSE n - 1 + 1
          BY ONLY <3>1, FS_Interval
    <3> QED BY ONLY <3>2, n \in Nat
  <2>2. Cardinality(known) = Len(q) BY <1>1, InjectiveLength
  <2>3. Cardinality(known) <= Cardinality(1 .. n) BY <1>4, <2>1, FS_Subset
  <2> QED BY <2>1, <2>2, <2>3
<1>6. DOMAIN Seats(d) = known BY DEF Seats
<1>7. ASSUME NEW t \in known
      PROVE  Seats(d)[t] \in 1 .. Len(q) /\ q[Seats(d)[t]] = t
  <2>1. Seats(d)[t] = CHOOSE i \in DOMAIN q : q[i] = t BY DEF Seats
  <2> QED BY <2>1, <1>3, <1>4
<1>8. \A t \in known : Seats(d)[t] \in 1 .. n
  <2> HIDE DEF known
  <2> SUFFICES ASSUME NEW t \in known PROVE Seats(d)[t] \in 1 .. n OBVIOUS
  <2>1. Seats(d)[t] \in 1 .. Len(q) BY <1>7
  <2> QED BY <2>1, <1>3, <1>5
<1>9. \A t, u \in known : Seats(d)[t] = Seats(d)[u] => t = u BY <1>7
<1>10. DOMAIN p = DOMAIN g /\ \A o \in DOMAIN g : p[o] = g[o] BY <1>2
<1> HIDE DEF p
<1>11. InSplits(p) = InSplits(g) BY <1>10 DEF InSplits
<1>12. Sound(p) BY <1>1, <1>10, <1>11 DEF Sound
<1>13. p = [o \in DOMAIN p |-> p[o]] BY <1>2, <1>10
<1>14. \A o \in DOMAIN p : Cardinality(Leaves(p[o])) <= MaxPanes BY <1>1, <1>10
<1> HIDE DEF known
<1>15. s.groups = p BY DEF p
<1>16. Arranged(s, n)
  <2> DEFINE ranks == s.seat
  <2>1. DOMAIN ranks = known BY <1>6
  <2>2. DOMAIN ranks \subseteq 1 .. n BY <1>4, <2>1
  <2>3. \A t \in DOMAIN ranks : ranks[t] \in 1 .. n BY <1>8, <2>1
  <2>4. \A t, u \in DOMAIN ranks : ranks[t] = ranks[u] => t = u BY <1>9, <2>1
  <2>5. s.hidden = InSplits(p) \ DOMAIN p BY <1>1, <1>2, <1>10, <1>11
  <2>6. s.hidden \subseteq DOMAIN ranks BY <1>1, <1>2, <2>1
  <2>7. s.synced \in DOMAIN ranks \cup {NoShell} BY <1>1, <2>1
  <2> QED BY ONLY <1>12, <1>13, <1>14, <1>15, <2>2, <2>3, <2>4, <2>5, <2>6, <2>7 DEF Arranged
<1>17. ASSUME NEW t, InSplit(d, t) PROVE FocusOf(d, t) \in known
  <2>1. OwnerOf(p, t) # NoShell BY <1>17 DEF InSplit, p
  <2>2. t \in InSplits(p) BY <2>1, <1>12, OwnerIsUnique
  <2>3. PICK o \in DOMAIN p : t \in Leaves(p[o]) BY <2>2 DEF InSplits
  <2>4. OwnerOf(p, t) = o BY <2>3, <1>12, OwnerIsUnique
  <2>5. FocusOf(d, t) = p[o].focus BY <2>4 DEF FocusOf, p
  <2>6. p[o].focus \in Leaves(p[o]) BY <2>3, <1>12 DEF Sound, Tree
  <2> QED BY <2>3, <2>5, <2>6, <1>1, <1>11 DEF InSplits
<1>18. IF known = {} THEN RestoredFocus(d) = NoShell ELSE RestoredFocus(d) \in known
  <2> DEFINE first == IF q # <<>> THEN Head(q) ELSE NoShell
  <2>1. CASE q = <<>>
    <3>1. known = {} BY <2>1, <1>3, EmptySeq DEF known, ToSet
    <3>2. first = NoShell /\ d.active = NoShell BY <2>1, <3>1, <1>1
    <3>3. ~ InSplit(d, NoShell) BY DEF InSplit
    <3> QED BY <3>1, <3>2, <3>3 DEF RestoredFocus
  <2>2. CASE q # <<>>
    <3>1. Head(q) \in known
      <4>1. Len(q) > 0 /\ Head(q) = q[1] BY <2>2, <1>1, <1>3, EmptySeq
      <4> QED BY <4>1, <1>3 DEF known, ToSet
    <3>2. first \in known BY <2>2, <3>1
    <3> HIDE DEF first
    <3>3. RestoredFocus(d) = IF InSplit(d, d.active) THEN FocusOf(d, d.active)
                             ELSE IF InSplit(d, first) THEN FocusOf(d, first)
                             ELSE IF d.active # NoShell THEN d.active ELSE first
          BY DEF RestoredFocus, first
    <3>4. RestoredFocus(d) \in known BY <3>2, <3>3, <1>1, <1>17
    <3> QED BY <3>4
  <2> QED BY <2>1, <2>2
<1>19. DOMAIN s.groups \subseteq known
  <2>1. DOMAIN p \subseteq InSplits(p) BY <1>12, OwnerIsUnique
  <2> QED BY <2>1, <1>1, <1>11, <1>15
<1> QED BY <1>6, <1>16, <1>18, <1>19 DEF known

-----------------------------------------------------------------------------
(* Steps of the shells *)

\* Each tab has a place of its own, and no split has more panes than it may have.
Neat ==
    /\ \A t, u \in Tabs : seat[t] = seat[u] => t = u
    /\ groups = [o \in DOMAIN groups |-> groups[o]]
    /\ \A o \in DOMAIN groups : Cardinality(Leaves(groups[o])) <= MaxPanes

\* The arrangement the store holds is one that can be saved.
LEMMA NeatIsArranged ==
    HostInv /\ Neat => Arranged(Shells, created) /\ created \in Nat
<1> SUFFICES ASSUME HostInv, Neat PROVE Arranged(Shells, created) /\ created \in Nat OBVIOUS
<1>1. /\ DOMAIN seat \subseteq 1 .. created /\ \A t \in DOMAIN seat : seat[t] \in 1 .. created
      /\ created \in Nat /\ synced \in DOMAIN seat \cup {NoShell}
      BY PanesAssumption DEF HostInv, Places, Marks, Tabs
<1>2. /\ Sound(groups) /\ hidden \subseteq DOMAIN seat
      /\ hidden = InSplits(groups) \ DOMAIN groups
      BY DEF HostInv, Held, HiddenAreExtraPanes, Tabs
<1>3. /\ Shells.seat = seat /\ Shells.groups = groups /\ Shells.hidden = hidden
      /\ Shells.synced = synced
      BY DEF Shells
<1> HIDE DEF Shells
<1> QED BY <1>1, <1>2, <1>3 DEF Arranged, Neat, Tabs

\* A new place is above all others, and closing a tab moves no other.
LEMMA PlacesStayApart ==
    ASSUME HostInv, Neat, [Next]_vars
    PROVE  \A t, u \in Tabs' : seat'[t] = seat'[u] => t = u
<1>1. \/ seat' = seat \/ seat' = Placed(New) \/ DOMAIN seat' = {}
      \/ \E S \in SUBSET Tabs : seat' = Keep(S)
  <2>1. ASSUME NEW b \in BOOLEAN, CreateTerminal(b) PROVE seat' = Placed(New)
        BY <2>1 DEF CreateTerminal
  <2>2. CASE EnsureTerminal BY <2>2 DEF EnsureTerminal, CreateTerminal
  <2>3. CASE SplitPanes BY <2>3 DEF SplitPanes
  <2>4. CASE UnsplitPanes \/ Navigated BY <2>4 DEF UnsplitPanes, Navigated
  <2>5. ASSUME NEW t, SetActiveTerminal(t) \/ FocusPane(t) PROVE seat' = seat
        BY <2>5 DEF SetActiveTerminal, FocusPane
  <2>6. CASE ClearTerminals BY <2>6 DEF ClearTerminals
  <2>7. ASSUME NEW t, CloseTerminalGroup(t) PROVE \E S \in SUBSET Tabs : seat' = Keep(S)
    <3>1. seat' = Keep(Tabs \ Group(t)) BY <2>7 DEF CloseTerminalGroup
    <3> QED BY <3>1
  <2>8. ASSUME NEW t \in Tabs, ShellExits(t) PROVE \E S \in SUBSET Tabs : seat' = Keep(S)
    <3>1. CASE CloseTerminalGroup(t) BY <2>7, <3>1
    <3>2. CASE LeaveSplit(t)
      <4>1. seat' = Keep(Tabs \ {t}) BY <3>2 DEF LeaveSplit
      <4> QED BY <4>1
    <3> QED BY <2>8, <3>1, <3>2 DEF ShellExits
  <2>9. CASE Ask \/ UNCHANGED vars BY <2>9 DEF Ask, Navigate, NavigateFailed, vars
  <2> QED BY <2>1, <2>2, <2>3, <2>4, <2>5, <2>6, <2>7, <2>8, <2>9 DEF Next, Arrange, Close
<1>2. CASE seat' = seat BY <1>2 DEF Neat, Tabs
<1>3. CASE seat' = Placed(New)
  <2>1. \A t \in Tabs : seat[t] \in Nat /\ seat[t] < New /\ t # New
    <3>1. created \in Nat /\ \A t \in Tabs : seat[t] \in 1 .. created /\ t \in 1 .. created
          BY PanesAssumption DEF HostInv, Places
    <3> QED BY <3>1 DEF New
  <2>2. Tabs' = Tabs \cup {New} /\ \A t \in Tabs' : seat'[t] = IF t = New THEN New ELSE seat[t]
        BY <1>3 DEF Tabs, Placed
  <2> HIDE DEF New
  <2>3. \A t \in Tabs : seat[t] # New BY <2>1
  <2> QED BY <2>2, <2>3 DEF Neat
<1>4. CASE DOMAIN seat' = {} BY <1>4 DEF Tabs
<1>5. ASSUME NEW S \in SUBSET Tabs, seat' = Keep(S)
      PROVE  \A t, u \in Tabs' : seat'[t] = seat'[u] => t = u
  <2>1. Tabs' = S /\ \A t \in S : seat'[t] = seat[t] BY <1>5 DEF Tabs, Keep
  <2> QED BY <2>1 DEF Neat
<1> QED BY <1>1, <1>2, <1>3, <1>4, <1>5

\* What is left of a split when a shell leaves it has no new panes.
LEMMA DetachShrinks ==
    ASSUME NEW g, Sound(g), NEW t \in InSplits(g)
    PROVE  /\ Detach(g, t) = [o \in DOMAIN Detach(g, t) |-> Detach(g, t)[o]]
           /\ \A p \in DOMAIN Detach(g, t) : \E q \in DOMAIN g :
                  Leaves(Detach(g, t)[p]) \subseteq Leaves(g[q])
<1> DEFINE o == OwnerOf(g, t)
           r == Rest(g, t)
           w == Without(g, o)
<1>1. o \in DOMAIN g /\ t \in Leaves(g[o]) BY OwnerIsUnique DEF InSplits
<1>2. Leaves(r) \subseteq Leaves(g[o])
  <2>1. Tree(g[o]) /\ IsSplit(g[o]) BY <1>1 DEF Sound
  <2> QED BY <1>1, <2>1, DropIsTree DEF Rest
<1>3. w = [p \in DOMAIN g \ {o} |-> g[p]] BY DEF Without
<1>4. DOMAIN w = DOMAIN g \ {o} /\ \A p \in DOMAIN w : w[p] = g[p] BY <1>3
<1> HIDE DEF w, r
<1>5. CASE IsSplit(r)
  <2>1. Detach(g, t) = With(w, Heir(g, t), r) BY <1>5 DEF Detach, w, r
  <2>2. Detach(g, t) = [p \in DOMAIN w \cup {Heir(g, t)} |-> IF p = Heir(g, t) THEN r ELSE w[p]]
        BY <2>1 DEF With
  <2> HIDE DEF o
  <2> QED BY <2>2, <1>1, <1>2, <1>4
<1>6. CASE ~ IsSplit(r)
  <2>1. Detach(g, t) = w BY <1>6 DEF Detach, w, r
  <2>2. w = [p \in DOMAIN w |-> w[p]] BY <1>3, <1>4
  <2> HIDE DEF o
  <2> QED BY <2>1, <2>2, <1>4
<1> QED BY <1>5, <1>6

\* splitPanes refuses a split that is full, and nothing else adds a pane.
LEMMA PanesStayFew ==
    ASSUME HostInv, Neat, [Next]_vars
    PROVE  /\ groups' = [o \in DOMAIN groups' |-> groups'[o]]
           /\ \A o \in DOMAIN groups' : Cardinality(Leaves(groups'[o])) <= MaxPanes
<1> DEFINE Shrinks == /\ groups' = [o \in DOMAIN groups' |-> groups'[o]]
                      /\ \A o \in DOMAIN groups' : \E q \in DOMAIN groups :
                            Leaves(groups'[o]) \subseteq Leaves(groups[q])
<1>1. \A o \in DOMAIN groups : IsFiniteSet(Leaves(groups[o])) /\ Cardinality(Leaves(groups[o])) \in Nat
  <2>1. IsFiniteSet(1 .. created) /\ \A o \in DOMAIN groups : Leaves(groups[o]) \in SUBSET (1 .. created)
    <3>1. created \in Int BY PanesAssumption DEF HostInv, Places
    <3>2. \A o \in DOMAIN groups : Leaves(groups[o]) \subseteq 1 .. created
          BY IdsAreShells DEF InSplits
    <3> QED BY <3>1, <3>2, FS_Interval
  <2> QED BY <2>1, FS_Subset, FS_CardinalityType
<1>2. ASSUME Shrinks
      PROVE  \A o \in DOMAIN groups' : Cardinality(Leaves(groups'[o])) <= MaxPanes
  <2> SUFFICES ASSUME NEW o \in DOMAIN groups' PROVE Cardinality(Leaves(groups'[o])) <= MaxPanes
      OBVIOUS
  <2>1. PICK q \in DOMAIN groups : Leaves(groups'[o]) \subseteq Leaves(groups[q]) BY <1>2
  <2>2. /\ IsFiniteSet(Leaves(groups'[o]))
        /\ Cardinality(Leaves(groups'[o])) <= Cardinality(Leaves(groups[q]))
        BY <1>1, <2>1, FS_Subset
  <2>3. Cardinality(Leaves(groups'[o])) \in Nat /\ Cardinality(Leaves(groups[q])) \in Nat
        BY <1>1, <2>2, FS_CardinalityType
  <2>4. Cardinality(Leaves(groups[q])) <= MaxPanes BY DEF Neat
  <2> QED BY <2>2, <2>3, <2>4, PanesAssumption
<1>3. groups' = groups => Shrinks BY DEF Neat
<1>4. ASSUME NEW o, groups' = Without(groups, o) PROVE Shrinks BY <1>4 DEF Without
<1>5. ASSUME NEW b \in BOOLEAN, CreateTerminal(b) PROVE Shrinks BY <1>3, <1>5 DEF CreateTerminal
<1>6. CASE EnsureTerminal BY <1>2, <1>3, <1>6 DEF EnsureTerminal, CreateTerminal
<1>7. CASE Navigated \/ \E t \in Tabs : SetActiveTerminal(t)
  BY <1>2, <1>3, <1>7 DEF Navigated, SetActiveTerminal
<1>8. CASE UnsplitPanes
  <2> DEFINE owner == OwnerOf(groups, active)
             t == groups[owner].focus
  <2>1. active \in InSplits(groups) /\ owner \in DOMAIN groups
        BY <1>8, OwnerIsUnique DEF UnsplitPanes, HostInv, InSplits
  <2>2. t \in InSplits(groups) BY <2>1 DEF HostInv, Sound, Tree, InSplits
  <2>3. groups' = Detach(groups, t) BY <1>8 DEF UnsplitPanes
  <2> HIDE DEF t
  <2>4. Shrinks BY <2>2, <2>3, DetachShrinks DEF HostInv
  <2> QED BY <1>2, <2>4
<1>9. ASSUME NEW t, FocusPane(t) PROVE Shrinks
  <2> DEFINE owner == OwnerOf(groups, active)
             l == FocusOn(groups[owner], t)
  <2>1. owner \in DOMAIN groups BY <1>9, OwnerIsUnique DEF FocusPane, HostInv, InSplits
  <2>2. Leaves(l) = Leaves(groups[owner]) BY DEF Leaves, FocusOn
  <2>3. groups' = With(groups, owner, l) BY <1>9 DEF FocusPane
  <2> HIDE DEF l, owner
  <2>4. groups' = [p \in DOMAIN groups \cup {owner} |-> IF p = owner THEN l ELSE groups[p]]
        BY <2>3 DEF With
  <2> QED BY <2>1, <2>2, <2>4
<1>10. CASE ClearTerminals
  <2>1. DOMAIN groups' = {} /\ groups' = [o \in {} |-> SinglePane(o)] BY <1>10 DEF ClearTerminals, NoGroups
  <2>2. Shrinks BY <2>1
  <2> QED BY <1>2, <2>2
<1>11. ASSUME NEW t, CloseTerminalGroup(t) PROVE Shrinks
  BY <1>4, <1>11 DEF CloseTerminalGroup
<1>12. ASSUME NEW t \in Tabs, ShellExits(t) PROVE Shrinks
  <2>1. CASE OwnerOf(groups, t) = NoShell BY <1>11, <1>12, <2>1 DEF ShellExits
  <2>2. CASE OwnerOf(groups, t) # NoShell
    <3>1. t \in InSplits(groups) BY <2>2, OwnerIsUnique DEF HostInv
    <3>2. groups' = Detach(groups, t) BY <1>12, <2>2 DEF ShellExits, LeaveSplit
    <3> QED BY <3>1, <3>2, DetachShrinks DEF HostInv
  <2> QED BY <2>1, <2>2
<1>13. CASE Ask \/ UNCHANGED vars
  <2>1. groups' = groups BY <1>13 DEF Ask, Navigate, NavigateFailed, vars
  <2> QED BY <1>2, <1>3, <2>1
<1>14. CASE SplitPanes
  <2> DEFINE at == IF active # NoShell THEN active ELSE FirstOf(Bar)
             found == OwnerOf(groups, at)
             owner == IF found = NoShell THEN at ELSE found
             tree == IF owner \in DOMAIN groups THEN groups[owner] ELSE SinglePane(owner)
             l == SplitPane(tree, tree.focus, New)
  <2>1. groups' = With(groups, owner, l) /\ Cardinality(Leaves(tree)) < MaxPanes
        BY <1>14 DEF SplitPanes
  <2>2. IsFiniteSet(Leaves(tree)) /\ Tree(tree) /\ New \notin Leaves(tree)
    <3>1. CASE owner \in DOMAIN groups
      <4>1. tree = groups[owner] BY <3>1
      <4>2. New \notin InSplits(groups)
        <5>1. created \in Nat /\ InSplits(groups) \subseteq 1 .. created BY IdsAreShells
        <5> QED BY <5>1 DEF New
      <4> HIDE DEF owner, tree
      <4> QED BY <3>1, <4>1, <4>2, <1>1 DEF HostInv, Sound, InSplits
    <3>2. CASE owner \notin DOMAIN groups
      <4>1. tree = SinglePane(owner) BY <3>2
      <4>2. owner # New
        <5>1. created \in Nat /\ Tabs \cup revived \subseteq 1 .. created BY IdsAreShells
        <5>2. New \notin Tabs \cup revived BY <5>1 DEF New
        <5>3. at \in Tabs \cup revived
          <6>1. CASE active # NoShell BY <6>1, FocusIsAShell
          <6>2. CASE active = NoShell
            <7>1. Bar # {} /\ Bar \subseteq Tabs BY <1>14, <6>2 DEF SplitPanes, Bar
            <7>2. FirstOf(Bar) \in Bar BY <7>1, EndsExist DEF HostInv
            <7> QED BY <6>2, <7>1, <7>2
          <6> QED BY <6>1, <6>2
        <5>4. found = NoShell \/ found \in DOMAIN groups
          <6>1. CASE at \in InSplits(groups) BY <6>1, OwnerIsUnique DEF HostInv, InSplits
          <6>2. CASE at \notin InSplits(groups) BY <6>2, OwnerIsUnique DEF HostInv
          <6> QED BY <6>1, <6>2
        <5>5. found = NoShell BY <3>2, <5>4
        <5> HIDE DEF at, found
        <5> QED BY <5>2, <5>3, <5>5
      <4> HIDE DEF owner, tree
      <4>3. Tree(tree) /\ Leaves(tree) = {owner} BY <4>1, SingleIsTree
      <4> QED BY <4>2, <4>3, FS_Singleton
    <3> QED BY <3>1, <3>2
  <2> HIDE DEF owner, tree
  <2>3. Leaves(l) = Leaves(tree) \cup {New}
    <3>1. tree.focus \in Leaves(tree) BY <2>2 DEF Tree
    <3> QED BY ONLY <2>2, <3>1, SplitIsTree
  <2>4. Cardinality(Leaves(l)) <= MaxPanes
    <3>1. Cardinality(Leaves(tree)) \in Nat /\ Cardinality(Leaves(l)) = Cardinality(Leaves(tree)) + 1
          BY <2>2, <2>3, FS_AddElement, FS_CardinalityType
    <3> QED BY <3>1, <2>1, PanesAssumption
  <2> HIDE DEF l
  <2>5. groups' = [p \in DOMAIN groups \cup {owner} |-> IF p = owner THEN l ELSE groups[p]]
        BY <2>1 DEF With
  <2> QED BY <2>4, <2>5 DEF Neat
<1> HIDE DEF Shrinks
<1>15. Shrinks => groups' = [o \in DOMAIN groups' |-> groups'[o]] BY DEF Shrinks
<1> QED BY <1>2, <1>5, <1>6, <1>7, <1>8, <1>9, <1>10, <1>11, <1>12, <1>13, <1>14, <1>15
        DEF Next, Arrange, Close

-----------------------------------------------------------------------------
(* The invariant of the session *)

\* Saves wait in the order their snapshots were taken in, all after what the file holds.
InTurn ==
    /\ steps \in Nat /\ file.at \in Nat /\ file.at <= steps
    /\ \E S : chain \in Seq(S)
    /\ \A i \in 1 .. Len(chain) : /\ chain[i].at \in Nat
                                  /\ file.at <= chain[i].at /\ chain[i].at <= steps
    /\ \A i, j \in 1 .. Len(chain) : i < j => chain[i].at <= chain[j].at

\* Every file that was or will be written is one that a restart can read.
WholeFiles ==
    /\ Whole(file.data, created)
    /\ \A i \in 1 .. Len(chain) : Whole(chain[i].data, created)

SessionInv == HostInv /\ Neat /\ InTurn /\ WholeFiles

\* A file that is whole stays so when shells are created.
LEMMA WholeGrows ==
    ASSUME NEW d, NEW m \in Nat, NEW n \in Nat, m <= n, Whole(d, m) PROVE Whole(d, n)
<1>1. 1 .. m \subseteq 1 .. n OBVIOUS
<1>2. d.tabs \in Seq(1 .. n) BY <1>1, SeqMonotonic DEF Whole
<1> QED BY <1>2 DEF Whole

\* Shells that were restored are sound.
LEMMA ArrangedIsSound ==
    /\ Arranged(Shells, created) /\ created \in 0 .. MaxShells
    /\ DOMAIN groups \subseteq Tabs /\ ActiveIsATab /\ navigating = NoShell /\ revived = {}
    => HostInv /\ Neat
<1> SUFFICES ASSUME Arranged(Shells, created), created \in 0 .. MaxShells,
                    DOMAIN groups \subseteq Tabs, ActiveIsATab,
                    navigating = NoShell, revived = {}
             PROVE  HostInv /\ Neat
    OBVIOUS
<1>1. /\ Shells.seat = seat /\ Shells.groups = groups /\ Shells.hidden = hidden
      /\ Shells.synced = synced
      BY DEF Shells
<1> HIDE DEF Shells
<1>2. Places BY <1>1 DEF Arranged, Places, Tabs
<1>3. Marks BY <1>1 DEF Arranged, Marks, Tabs
<1>4. Sound(groups) /\ Held /\ HiddenAreExtraPanes
      BY <1>1 DEF Arranged, Tabs, HiddenAreExtraPanes, Held
<1>5. Neat BY <1>1 DEF Arranged, Neat, Tabs
<1> QED BY <1>2, <1>3, <1>4, <1>5 DEF HostInv

\* The shells are those of a session file.
FromFile(d) ==
    /\ Whole(d, created) /\ created \in 0 .. MaxShells
    /\ seat = Seats(d) /\ hidden = RestoredHidden(d) /\ groups = Parsed(d)
    /\ active = RestoredFocus(d) /\ synced = d.synced /\ navigating = NoShell
    /\ revived = {}

\* The shells that a file restores are a sound host.
LEMMA RestoredAreSound == (\E d : FromFile(d)) => HostInv /\ Neat
<1> SUFFICES ASSUME NEW d, FromFile(d) PROVE HostInv /\ Neat OBVIOUS
<1> USE DEF FromFile
<1>1. created \in Nat BY PanesAssumption
<1>2. /\ Shells.seat = seat /\ Shells.groups = groups /\ Shells.hidden = hidden
      /\ Shells.synced = synced
      BY DEF Shells
<1> DEFINE s == Shells
<1> HIDE DEF s
<1>3. s.seat = Seats(d) /\ s.groups = Parsed(d) /\ s.hidden = RestoredHidden(d) /\ s.synced = d.synced
      BY <1>2 DEF s
<1>4. /\ Arranged(s, created) /\ DOMAIN s.groups \subseteq DOMAIN s.seat
      /\ IF DOMAIN s.seat = {} THEN RestoredFocus(d) = NoShell ELSE RestoredFocus(d) \in DOMAIN s.seat
      BY <1>1, <1>3, RestoredIsArranged
<1>5. ActiveIsATab BY <1>2, <1>4 DEF ActiveIsATab, Tabs, s
<1>6. DOMAIN groups \subseteq Tabs BY <1>2, <1>4 DEF Tabs, s
<1> QED BY <1>4, <1>5, <1>6, ArrangedIsSound DEF s

\* The same of the state after a step.
LEMMA RestoredNext == (\E d : FromFile(d))' => (HostInv /\ Neat)'
<1>1. (\E d : FromFile(d)) => HostInv /\ Neat BY RestoredAreSound
<1> QED BY <1>1, PTL

\* The program starts with what it finds in the file.
LEMMA SessionStarts == ASSUME InitSession PROVE SessionInv
<1>1. PICK d \in StartFiles :
        /\ seat = Seats(d) /\ hidden = RestoredHidden(d)
        /\ groups = Parsed(d) /\ active = RestoredFocus(d)
        /\ synced = d.synced /\ navigating = NoShell /\ created = Len(d.tabs)
        /\ revived = {}
        /\ chain = <<>> /\ file = [data |-> d, at |-> 0] /\ steps = 0
      BY DEF InitSession
<1>2. Whole(d, created) /\ created <= MaxShells BY <1>1, SessionAssumption
<1>3. created \in Nat BY <1>1, <1>2, LenProperties DEF Whole
<1>4. created \in 0 .. MaxShells BY <1>2, <1>3, PanesAssumption
<1>5. HostInv /\ Neat BY <1>1, <1>2, <1>4, RestoredAreSound DEF FromFile
<1>6. Len(chain) = 0 /\ chain \in Seq({}) BY <1>1, EmptySeq
<1>7. file.data = d /\ file.at = 0 BY <1>1
<1>8. InTurn BY <1>1, <1>6, <1>7 DEF InTurn
<1>9. WholeFiles BY <1>2, <1>6, <1>7 DEF WholeFiles
<1> QED BY <1>5, <1>8, <1>9 DEF SessionInv

\* A step that is not a restart is one of the shells.
LEMMA ShellsStep ==
    ASSUME [NextSession]_<<vars, saving, steps>>, ~ Restart
    PROVE  [Next]_vars
<1>1. CASE Operate BY <1>1 DEF Operate, Next
<1>2. CASE Shut BY <1>2 DEF Shut, Next
<1>3. CASE Other BY <1>3 DEF Other, Next
<1>4. CASE TimerFires \/ Written \/ WriteFails BY <1>4 DEF TimerFires, Written, WriteFails
<1> QED BY <1>1, <1>2, <1>3, <1>4 DEF NextSession

\* Ids are never given back.
LEMMA IdsGrow ==
    ASSUME HostInv, [Next]_vars PROVE created' \in Nat /\ created <= created'
<1>1. created \in Nat BY PanesAssumption DEF HostInv, Places
<1>2. created' = created \/ created' = New
  BY DEF Next, Arrange, Close, Ask, CreateTerminal, EnsureTerminal, SplitPanes, UnsplitPanes,
         SetActiveTerminal, FocusPane, Navigated, ClearTerminals, CloseTerminalGroup, ShellExits,
         LeaveSplit, Navigate, NavigateFailed, vars
<1> QED BY <1>1, <1>2 DEF New

\* A restart comes back with the shells of the file.
LEMMA RestartIsSound ==
    ASSUME SessionInv, Restart PROVE (HostInv /\ Neat)' /\ created' = created
<1>1. Whole(file.data, created) /\ created \in 0 .. MaxShells
      BY DEF SessionInv, WholeFiles, HostInv, Places
<1>2. (\E d : FromFile(d))' BY <1>1 DEF Restart, FromFile
<1> QED BY <1>2, RestoredNext DEF Restart

\* A step of the session is one of the shells, one of the saves, or a restart.
LEMMA HostStaysNeat ==
    ASSUME SessionInv, [NextSession]_<<vars, saving, steps>>
    PROVE  HostInv' /\ Neat' /\ created' \in Nat /\ created <= created'
<1>1. CASE Restart
  <2>1. created \in Nat BY PanesAssumption DEF SessionInv, HostInv, Places
  <2> QED BY <1>1, <2>1, RestartIsSound
<1>2. CASE ~ Restart
  <2>1. HostInv /\ Neat /\ [Next]_vars BY <1>2, ShellsStep DEF SessionInv
  <2>2. HostInv' BY <2>1, StepKeeps
  <2>3. Neat' BY <2>1, PlacesStayApart, PanesStayFew DEF Neat
  <2> QED BY <2>1, <2>2, <2>3, IdsGrow
<1> QED BY <1>1, <1>2

-----------------------------------------------------------------------------
(* Saves *)

\* What a save takes of a sound host can be read back.
LEMMA SnapshotOfShells == HostInv /\ Neat => Whole(SnapshotOf(Shells), created)
<1> SUFFICES ASSUME HostInv, Neat PROVE Whole(SnapshotOf(Shells), created) OBVIOUS
<1>1. Arranged(Shells, created) /\ created \in Nat BY NeatIsArranged
<1> HIDE DEF Shells
<1> QED BY <1>1, SnapshotIsWhole

\* The same of the state after a step.
LEMMA SnapshotNext == (HostInv /\ Neat)' => Whole(SnapshotOf(Shells), created)'
<1>1. HostInv /\ Neat => Whole(SnapshotOf(Shells), created) BY SnapshotOfShells
<1> QED BY <1>1, PTL

\* What is appended to the chain is the newest, what leaves it the oldest.
LEMMA SaveKeeps ==
    ASSUME SessionInv, NEW data, Whole(data, created'), Save(data),
           created' \in Nat, created <= created', steps' \in Nat, steps <= steps'
    PROVE  InTurn' /\ WholeFiles'
<1>1. file' = file /\ InTurn /\ WholeFiles BY DEF Save, SessionInv
<1>2. created \in Nat BY PanesAssumption DEF SessionInv, HostInv, Places
<1>3. /\ Whole(file.data, created')
      /\ \A i \in 1 .. Len(chain) : Whole(chain[i].data, created')
      BY <1>1, <1>2, WholeGrows DEF WholeFiles
<1>4. CASE chain' = chain
  <2>1. InTurn' BY <1>1, <1>4 DEF InTurn
  <2>2. WholeFiles' BY <1>1, <1>3, <1>4 DEF WholeFiles
  <2> QED BY <2>1, <2>2
<1>5. CASE chain' = Append(chain, [data |-> data, at |-> steps'])
  <2> DEFINE e == [data |-> data, at |-> steps']
  <2>1. e.data = data /\ e.at = steps' OBVIOUS
  <2> HIDE DEF e
  <2>2. PICK S : chain \in Seq(S) BY <1>1 DEF InTurn
  <2>3. chain \in Seq(S \cup {e}) BY <2>2, SeqMonotonic
  <2>4. /\ chain' \in Seq(S \cup {e}) /\ Len(chain') = Len(chain) + 1 /\ Len(chain) \in Nat
        /\ \A i \in 1 .. Len(chain') : chain'[i] = IF i <= Len(chain) THEN chain[i] ELSE e
        BY <1>5, <2>3 DEF e
  <2>5. \A i \in 1 .. Len(chain') : \/ i \in 1 .. Len(chain) /\ chain'[i] = chain[i]
                                    \/ i = Len(chain) + 1 /\ chain'[i] = e
        BY <2>4
  <2>6. WholeFiles' BY <1>1, <1>3, <2>1, <2>5 DEF WholeFiles
  <2>7. /\ \A i \in 1 .. Len(chain') : /\ chain'[i].at \in Nat
                                       /\ file'.at <= chain'[i].at /\ chain'[i].at <= steps'
        /\ file'.at \in Nat /\ file'.at <= steps'
    <3>1. /\ \A i \in 1 .. Len(chain) : /\ chain[i].at \in Nat
                                        /\ file.at <= chain[i].at /\ chain[i].at <= steps
          /\ file.at \in Nat /\ file.at <= steps /\ steps \in Nat
          BY <1>1 DEF InTurn
    <3> QED BY <3>1, <1>1, <2>1, <2>5
  <2>8. \A i, j \in 1 .. Len(chain') : i < j => chain'[i].at <= chain'[j].at
    <3> SUFFICES ASSUME NEW i \in 1 .. Len(chain'), NEW j \in 1 .. Len(chain'), i < j
                 PROVE  chain'[i].at <= chain'[j].at
        OBVIOUS
    <3>1. i \in 1 .. Len(chain) /\ chain'[i] = chain[i] BY <2>4, <2>5
    <3>2. CASE j \in 1 .. Len(chain) /\ chain'[j] = chain[j] BY <3>1, <3>2, <1>1 DEF InTurn
    <3>3. CASE chain'[j] = e
      <4>1. chain[i].at \in Nat /\ chain[i].at <= steps /\ steps \in Nat BY <3>1, <1>1 DEF InTurn
      <4> QED BY <4>1, <3>1, <3>3, <2>1
    <3> QED BY <3>2, <3>3, <2>5
  <2>9. InTurn' BY <2>4, <2>7, <2>8 DEF InTurn
  <2> QED BY <2>6, <2>9
<1> QED BY <1>4, <1>5 DEF Save

\* A save that ends, written or failed, leaves the later ones in their order.
LEMMA ChainShrinks ==
    ASSUME SessionInv, chain # <<>>, chain' = Tail(chain), file' = file \/ file' = Head(chain),
           UNCHANGED <<created, steps>>
    PROVE  InTurn' /\ WholeFiles'
<1>1. InTurn /\ WholeFiles BY DEF SessionInv
<1>2. PICK S : chain \in Seq(S) BY <1>1 DEF InTurn
<1>3. /\ chain' \in Seq(S) /\ Len(chain') = Len(chain) - 1 /\ Len(chain) \in Nat /\ Len(chain) > 0
      /\ Head(chain) = chain[1]
      /\ \A i \in 1 .. Len(chain') : chain'[i] = chain[i + 1] /\ i + 1 \in 1 .. Len(chain)
      BY <1>2, HeadTailProperties, EmptySeq
<1>4. 1 \in 1 .. Len(chain) /\ \A i \in 1 .. Len(chain') : 1 < i + 1 BY <1>3
<1>5. WholeFiles' BY <1>1, <1>3, <1>4 DEF WholeFiles
<1>6. /\ file'.at \in Nat /\ file'.at <= steps'
      /\ \A i \in 1 .. Len(chain') : /\ chain'[i].at \in Nat
                                     /\ file'.at <= chain'[i].at /\ chain'[i].at <= steps'
  <2>1. \A i \in 1 .. Len(chain) : /\ chain[i].at \in Nat /\ file.at <= chain[i].at
                                   /\ chain[i].at <= steps
        BY <1>1 DEF InTurn
  <2>2. \A i \in 1 .. Len(chain') : chain[1].at <= chain[i + 1].at BY <1>1, <1>3, <1>4 DEF InTurn
  <2>3. file.at \in Nat /\ file.at <= steps BY <1>1 DEF InTurn
  <2>4. CASE file' = file BY <2>1, <2>3, <2>4, <1>3
  <2>5. CASE file' = chain[1] BY <2>1, <2>2, <2>5, <1>3, <1>4
  <2> QED BY <2>4, <2>5, <1>3
<1>7. \A i, j \in 1 .. Len(chain') : i < j => chain'[i].at <= chain'[j].at
  <2> SUFFICES ASSUME NEW i \in 1 .. Len(chain'), NEW j \in 1 .. Len(chain'), i < j
               PROVE  chain'[i].at <= chain'[j].at
      OBVIOUS
  <2>1. i + 1 < j + 1 BY <1>3
  <2>2. chain[i + 1].at <= chain[j + 1].at BY <2>1, <1>1, <1>3 DEF InTurn
  <2> QED BY <2>2, <1>3
<1>8. InTurn' BY <1>1, <1>3, <1>6, <1>7 DEF InTurn
<1> QED BY <1>5, <1>8

\* Files and the saves that wait stay whole and in turn, one case per kind of step.
LEMMA FilesStayWhole ==
    ASSUME SessionInv, [NextSession]_<<vars, saving, steps>>
    PROVE  InTurn' /\ WholeFiles'
<1>1. HostInv' /\ Neat' /\ created' \in Nat /\ created <= created' BY HostStaysNeat
<1>2. created \in Nat /\ steps \in Nat /\ InTurn /\ WholeFiles
      BY PanesAssumption DEF SessionInv, HostInv, Places, InTurn
<1>3. Whole(SnapshotOf(Shells'), created') BY <1>1, SnapshotNext
<1>4. ASSUME UNCHANGED <<chain, file>>, steps' \in Nat, steps <= steps'
      PROVE  InTurn' /\ WholeFiles'
  <2>1. WholeFiles' BY <1>1, <1>2, <1>4, WholeGrows DEF WholeFiles
  <2>2. file.at <= steps' /\ \A i \in 1 .. Len(chain) : chain[i].at <= steps'
    <3>1. /\ file.at \in Nat /\ file.at <= steps
          /\ \A i \in 1 .. Len(chain) : chain[i].at \in Nat /\ chain[i].at <= steps
          BY <1>2 DEF InTurn
    <3> QED BY <3>1, <1>2, <1>4
  <2>3. InTurn' BY <1>2, <1>4, <2>2 DEF InTurn
  <2> QED BY <2>1, <2>3
<1>5. CASE Operate \/ Other
  BY <1>2, <1>4, <1>5 DEF Operate, Other, Step, Schedule, saving
<1>6. CASE Shut
  <2>1. Save(SnapshotOf(Shells')) /\ steps' \in Nat /\ steps <= steps' BY <1>2, <1>6 DEF Shut, Step
  <2> QED BY <2>1, <1>1, <1>3, SaveKeeps
<1>7. CASE TimerFires
  <2>1. /\ Save(SnapshotOf(Shells)) /\ steps' = steps /\ created' = created
        /\ UNCHANGED vars
        BY <1>7 DEF TimerFires, vars
  <2>2. Whole(SnapshotOf(Shells), created')
    <3>1. Whole(SnapshotOf(Shells), created) BY SnapshotOfShells DEF SessionInv
    <3> QED BY <2>1, <3>1
  <2> QED BY <1>1, <1>2, <2>1, <2>2, SaveKeeps
<1>8. CASE Written \/ WriteFails
  <2>1. /\ chain # <<>> /\ chain' = Tail(chain) /\ (file' = file \/ file' = Head(chain))
        /\ UNCHANGED <<created, steps>>
        BY <1>8 DEF Written, WriteFails, vars
  <2> QED BY <2>1, ChainShrinks
<1>9. CASE Restart
  <2>1. chain' = <<>> /\ file' = file /\ steps' = steps BY <1>9 DEF Restart
  <2>2. Len(chain') = 0 /\ chain' \in Seq({}) BY <2>1, EmptySeq
  <2>3. InTurn' BY <1>2, <2>1, <2>2 DEF InTurn
  <2>4. WholeFiles' BY <1>1, <1>2, <2>1, <2>2, WholeGrows DEF WholeFiles
  <2> QED BY <2>3, <2>4
<1>10. CASE UNCHANGED <<vars, saving, steps>> BY <1>2, <1>4, <1>10 DEF saving
<1> QED BY <1>5, <1>6, <1>7, <1>8, <1>9, <1>10 DEF NextSession

\* Whatever saves, failures, operations and restarts come in what order, the host is
\* sound and its files are whole and in turn.
THEOREM SessionStaysSound == SessionSpec => []SessionInv
<1>1. InitSession => SessionInv BY SessionStarts
<1>2. SessionInv /\ [NextSession]_<<vars, saving, steps>> => SessionInv'
      BY HostStaysNeat, FilesStayWhole DEF SessionInv
<1> QED BY <1>1, <1>2, PTL DEF SessionSpec

\* The shells a snapshot reaches from the bar are all but the orphans.
LEMMA OrphansAreOut ==
    ASSUME HostInv
    PROVE  LET bar == Tabs \ hidden
           IN  /\ bar \cup UNION {Extras(Shells, t) : t \in bar} = Tabs \ Orphans
               /\ {o \in DOMAIN groups : Leaves(groups[o]) \subseteq Tabs \ Orphans}
                     = DOMAIN groups \cap Tabs
<1> DEFINE bar == Tabs \ hidden
<1>1. /\ Sound(groups) /\ hidden \subseteq Tabs /\ hidden = InSplits(groups) \ DOMAIN groups
      BY DEF HostInv, Held, HiddenAreExtraPanes
<1>2. \A o \in DOMAIN groups : o \in Leaves(groups[o]) /\ Leaves(groups[o]) \subseteq hidden \cup {o}
      BY <1>1 DEF Sound, InSplits
<1>3. \A o, p \in DOMAIN groups : o # p => Leaves(groups[o]) \cap Leaves(groups[p]) = {}
      BY <1>1 DEF Sound
<1>4. \A x : x \in Orphans <=> \E o \in DOMAIN groups : o \notin Tabs /\ x \in Leaves(groups[o])
      BY DEF Orphans
<1>5. \A t : Extras(Shells, t) =
              IF t \in DOMAIN groups THEN (Leaves(groups[t]) \ {t}) \cap hidden ELSE {}
      BY DEF Extras, Shells
<1>6. \A x \in hidden : \E o \in DOMAIN groups : x \in Leaves(groups[o]) /\ x # o
      BY <1>1 DEF InSplits
<1>7. ASSUME NEW x \in Tabs \ Orphans, x \notin bar
      PROVE  \E t \in bar : x \in Extras(Shells, t)
  <2>1. x \in hidden BY <1>7
  <2>2. PICK o \in DOMAIN groups : x \in Leaves(groups[o]) /\ x # o BY <2>1, <1>6
  <2>3. o \in Tabs BY <2>2, <1>4, <1>7
  <2>4. o \notin hidden BY <2>2, <1>1
  <2> QED BY <2>1, <2>2, <2>3, <2>4, <1>5
<1>8. ASSUME NEW x \in bar PROVE x \in Tabs \ Orphans BY <1>2, <1>4
<1>9. ASSUME NEW t \in bar, NEW x \in Extras(Shells, t) PROVE x \in Tabs \ Orphans
  <2>1. t \in DOMAIN groups /\ x \in Leaves(groups[t]) /\ x \in hidden BY <1>5
  <2>2. \A o \in DOMAIN groups : x \in Leaves(groups[o]) => o = t BY <2>1, <1>3
  <2> QED BY <2>1, <2>2, <1>1, <1>4
<1>10. ASSUME NEW o \in DOMAIN groups, o \in Tabs
       PROVE  Leaves(groups[o]) \subseteq Tabs \ Orphans
  <2>1. Leaves(groups[o]) \subseteq Tabs BY <1>1, <1>2, <1>10
  <2>2. \A x \in Leaves(groups[o]) : x \notin Orphans BY <1>3, <1>4, <1>10
  <2> QED BY <2>1, <2>2
<1>11. \A o \in DOMAIN groups : Leaves(groups[o]) \subseteq Tabs \ Orphans => o \in Tabs BY <1>2
<1>12. bar \cup UNION {Extras(Shells, t) : t \in bar} = Tabs \ Orphans BY <1>7, <1>8, <1>9
<1> QED BY <1>10, <1>11, <1>12

\* As long as the shells fit the file, a restart brings back what was saved of them, all
\* but the splits of a shell that a late answer had brought back.
THEOREM SavesAreRestored == SessionSpec => []SavedIsRestored
<1>1. SessionInv => SavedIsRestored
  <2> DEFINE owned == DOMAIN groups \cap Tabs
  <2> SUFFICES ASSUME HostInv, Neat, Cardinality(Tabs) <= MaxSaved
               PROVE  LET saved == SnapshotOf(Shells)
                      IN  /\ ToSet(saved.tabs) = Tabs \ Orphans
                          /\ Parsed(saved) = [o \in owned |-> groups[o]]
                          /\ RestoredHidden(saved) = hidden \ Orphans
      BY DEF SavedIsRestored, SessionInv
  <2> DEFINE s == Shells
             d == SnapshotOf(s)
  <2>1. Arranged(s, created) /\ created \in Nat BY NeatIsArranged
  <2>2. s.seat = seat /\ s.groups = groups /\ s.hidden = hidden BY DEF Shells
  <2>3. /\ (Tabs \ hidden) \cup UNION {Extras(s, t) : t \in Tabs \ hidden} = Tabs \ Orphans
        /\ {o \in DOMAIN groups : Leaves(groups[o]) \subseteq Tabs \ Orphans} = owned
        BY OrphansAreOut
  <2> HIDE DEF s, owned
  <2>4. ToSet(Kept(s)) = Tabs \ Orphans BY <2>1, <2>2, <2>3, KeptFacts DEF Tabs
  <2>5. hidden \subseteq Tabs BY IdsAreShells
  <2>6. /\ d.tabs = Kept(s) /\ d.hidden = hidden \cap ToSet(Kept(s))
        /\ d.groups = [o \in owned |-> groups[o]]
        BY <2>2, <2>3, <2>4 DEF SnapshotOf
  <2>7. Whole(d, created) BY <2>1, SnapshotIsWhole
  <2> HIDE DEF d
  <2>8. Parsed(d) = [o \in DOMAIN d.groups |-> d.groups[o]] /\ RestoredHidden(d) = d.hidden
        BY <2>1, <2>7, ParsedIsWhole
  <2>9. Parsed(d) = [o \in owned |-> groups[o]] BY <2>6, <2>8
  <2>10. RestoredHidden(d) = hidden \ Orphans BY <2>4, <2>5, <2>6, <2>8
  <2> QED BY <2>4, <2>6, <2>9, <2>10 DEF d, s
<1> QED BY <1>1, SessionStaysSound, PTL

\* However many shells there are, each file holds whole splits and no more than the cap.
THEOREM FilesHoldWholeSplits == SessionSpec => []SavedSplitsAreWhole
<1>1. SessionInv => SavedSplitsAreWhole
  <2> SUFFICES ASSUME SessionInv, NEW d \in {file.data} \cup {chain[i].data : i \in DOMAIN chain}
               PROVE  d.hidden = RestoredHidden(d) /\ Len(d.tabs) <= MaxSaved
      BY DEF SavedSplitsAreWhole
  <2>1. created \in Nat BY PanesAssumption DEF SessionInv, HostInv, Places
  <2>2. DOMAIN chain = 1 .. Len(chain) BY LenProperties DEF SessionInv, InTurn
  <2>3. Whole(d, created) BY <2>2 DEF SessionInv, WholeFiles
  <2>4. d.hidden = RestoredHidden(d) BY <2>1, <2>3, ParsedIsWhole
  <2> QED BY <2>3, <2>4 DEF Whole
<1> QED BY <1>1, SessionStaysSound, PTL

\* A save that is slow or fails lets no older arrangement overwrite a newer one.
THEOREM WritesAreInOrder == SessionSpec => WritesLandInOrder
<1>1. SessionInv /\ [NextSession]_<<vars, saving, steps>> => file'.at >= file.at
  <2> SUFFICES ASSUME SessionInv, [NextSession]_<<vars, saving, steps>> PROVE file'.at >= file.at
      OBVIOUS
  <2>1. file.at \in Nat /\ \A i \in 1 .. Len(chain) : chain[i].at \in Nat /\ file.at <= chain[i].at
        BY DEF SessionInv, InTurn
  <2>2. file' = file \/ (chain # <<>> /\ file' = Head(chain))
        BY DEF NextSession, Operate, Shut, Other, TimerFires, Written, WriteFails, Restart,
               Schedule, Save, saving
  <2>3. CASE file' = file BY <2>1, <2>3
  <2>4. CASE chain # <<>> /\ file' = Head(chain)
    <3>1. PICK S : chain \in Seq(S) BY DEF SessionInv, InTurn
    <3>2. Head(chain) = chain[1] /\ 1 \in 1 .. Len(chain) BY <2>4, <3>1, EmptySeq
    <3> QED BY <2>1, <2>4, <3>2
  <2> QED BY <2>2, <2>3, <2>4
<1> QED BY <1>1, SessionStaysSound, PTL DEF SessionSpec, WritesLandInOrder

\* Splits, bar and focus fit together over restarts as well.
THEOREM RestartsKeepSplits ==
    SessionSpec => [](SplitsAreSound /\ HiddenAreExtraPanes /\ ActiveIsATab)
<1>1. SessionInv => SplitsAreSound /\ HiddenAreExtraPanes /\ ActiveIsATab
  <2> QED BY SoundSplits DEF SessionInv, HostInv
<1> QED BY <1>1, SessionStaysSound, PTL

=================================================================================
