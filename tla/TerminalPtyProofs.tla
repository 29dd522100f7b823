--------------------------- MODULE TerminalPtyProofs ---------------------------
(***************************************************************************)
(* Proofs about TerminalPty for any number of generations and any sizes.   *)
(* The inductive invariant says which generations may still have a create, *)
(* a session, a task or an event for each state of the entry.  Creates may *)
(* overtake each other; only a shell that was asked for while nothing of   *)
(* an earlier one was left is alone, and keeps its session.                *)
(***************************************************************************)
EXTENDS TerminalPty, SequenceTheorems, TLAPS

\* A tab that was closed is neither bound nor started, nor does it idle.
ClosedIsOver == closed => ~mounted /\ ~spawned /\ ~byIdle

\* Keys that wait for a shell wait for the one that runs or starts.
Keys == KeysStayWithTheirShell /\ (~spawned => pending \subseteq {None})

\* Only for a shell that runs the backend was told a size; it is the one of the
\* terminal, or the terminal has been fitted alone since.
Sized == /\ IF Live THEN last \in Sizes /\ (last = term \/ drawn) ELSE last = None
         /\ LiveShellsFit
         /\ spawned => gen > 0

\* A host in front has no job.
FrontIsBusy == front => ~job /\ ~probing

\* There is a session, a task or an event of the generation; or also a create.
Born(g) == pty.gen = g \/ g \in tasks \/ \E i \in 1 .. Len(events) : events[i].gen = g
Seen(g) == Born(g) \/ \E c \in creates : c.gen = g

Waits(c) == c.at # "published"

\* A generation is created once, and before it is published nothing is of it; a
\* session has its task.
Once == /\ \A c, d \in creates : c.gen = d.gen => c = d
        /\ \A c \in creates : c.gen <= gen
        /\ \A c \in creates : Waits(c) => ~Born(c.gen) /\ (Live => c.gen # gen)
        /\ pty.gen <= gen /\ \A g \in tasks : g <= gen
        /\ \A i \in 1 .. Len(events) : events[i].gen <= gen
        /\ pty.gen # None => pty.gen \in tasks

IsReady(i, g) == events[i].kind = "ready" /\ events[i].gen = g
IsExit(i, g)  == events[i].kind = "exit" /\ events[i].gen = g

\* Nothing is on its way for an entry that waits to be started.
Stopped == ~spawned /\ ~closed =>
             /\ \A c \in creates : c.gen # gen
             /\ \A i \in 1 .. Len(events) : ~IsReady(i, gen)

\* A shell that was started while nothing of an earlier one was left is alone.
Alone == spawned /\ ~shared =>
           (\A c \in creates : c.gen = gen) /\ (\A g \in tasks : g = gen)

\* An entry that idles: nothing was created at its generation or, once it is started
\* again, at the one before, and the first it hears of the new one is that it is ready.
Idling == byIdle =>
            /\ IF spawned THEN gen > 1 /\ ~Seen(gen - 1) ELSE gen > 0 /\ ~Seen(gen)
            /\ gen \in tasks => \E i \in 1 .. Len(events) : IsReady(i, gen)
            /\ \A j \in 1 .. Len(events) :
                 IsExit(j, gen) => \E i \in 1 .. (j - 1) : IsReady(i, gen)

\* A shell that will be shown as running has its process, or its end is behind.
Running == ~closed =>
             /\ LiveShellsRun
             /\ \A i \in 1 .. Len(events) : IsReady(i, gen) =>
                  \/ pty.gen = gen \/ lost \/ shared
                  \/ \E j \in i + 1 .. Len(events) : IsExit(j, gen)

Marks == ClosedIsOver /\ FrontIsBusy
Wire  == Once /\ Stopped /\ Alone /\ Idling /\ Running
Inv   == TypeOK /\ Marks /\ Keys /\ Sized /\ Wire
-----------------------------------------------------------------------------
(* Sequences and types *)

\* What is appended comes last and leaves the rest where it was.
LEMMA AppendFacts ==
    ASSUME NEW S, NEW q \in Seq(S), NEW x \in S
    PROVE  /\ Append(q, x) \in Seq(S)
           /\ Len(q) \in Nat /\ Len(Append(q, x)) = Len(q) + 1
           /\ \A i \in 1 .. Len(q) : Append(q, x)[i] = q[i]
           /\ Append(q, x)[Len(q) + 1] = x
  BY AppendProperties, LenProperties

\* What leaves is the head, the rest moves one place up.
LEMMA TailFacts ==
    ASSUME NEW S, NEW q \in Seq(S), q # <<>>
    PROVE  /\ Tail(q) \in Seq(S) /\ Head(q) = q[1] /\ Head(q) \in S
           /\ Len(q) \in Nat \ {0} /\ Len(Tail(q)) = Len(q) - 1
           /\ \A i \in 1 .. (Len(q) - 1) : Tail(q)[i] = q[i + 1] /\ i + 1 \in 1 .. Len(q)
           /\ 1 \in 1 .. Len(q)
  <1>1. Len(q) \in Nat \ {0}
    BY LenProperties, EmptySeq
  <1>2. Head(q) = q[1]
    OBVIOUS
  <1>3. /\ \A i \in 1 .. (Len(q) - 1) : i + 1 \in 1 .. Len(q)
        /\ 1 \in 1 .. Len(q)
    BY <1>1
  <1>. QED
    BY <1>1, <1>2, <1>3, HeadTailProperties

Event  == [kind : {"ready", "exit"}, gen : Gens]
Shells == [gen : Gens, size : Sizes, task : 0..MaxGen]

\* What the type invariant says, one by one.
LEMMA Types ==
    ASSUME TypeOK
    PROVE  /\ gen \in Nat /\ gen <= MaxGen /\ MaxGen \in Nat
           /\ last \in Sizes \cup {None} /\ term \in Sizes /\ None \notin Sizes /\ None = 0
           /\ spawned \in BOOLEAN /\ starting \in BOOLEAN /\ byIdle \in BOOLEAN
           /\ blocked \in BOOLEAN /\ closed \in BOOLEAN /\ mounted \in BOOLEAN
           /\ front \in BOOLEAN /\ job \in BOOLEAN /\ probing \in BOOLEAN /\ lost \in BOOLEAN
           /\ shared \in BOOLEAN /\ drawn \in BOOLEAN
           /\ creates \subseteq Calls /\ \A c \in creates : c.gen \in Nat \ {0}
           /\ pty \in Shells \cup {NoPty} /\ pty.gen \in Nat /\ NoPty.gen = None
           /\ (pty = NoPty <=> pty.gen = None)
           /\ tasks \subseteq Gens /\ \A g \in tasks : g \in Nat \ {0}
           /\ events \in Seq(Event) /\ Len(events) \in Nat
           /\ \A i \in 1 .. Len(events) :
                events[i] \in Event /\ events[i].gen \in Gens /\ events[i].gen \in Nat \ {0}
  <1>. USE PtyAssumption
  <1>1. /\ gen \in Nat /\ gen <= MaxGen /\ MaxGen \in Nat
        /\ last \in Sizes \cup {None} /\ term \in Sizes /\ None \notin Sizes /\ None = 0
    BY DEF TypeOK, None
  <1>2. /\ spawned \in BOOLEAN /\ starting \in BOOLEAN /\ byIdle \in BOOLEAN
        /\ blocked \in BOOLEAN /\ closed \in BOOLEAN /\ mounted \in BOOLEAN
        /\ front \in BOOLEAN /\ job \in BOOLEAN /\ probing \in BOOLEAN /\ lost \in BOOLEAN
        /\ shared \in BOOLEAN /\ drawn \in BOOLEAN
    BY DEF TypeOK
  <1>3. /\ creates \subseteq Calls /\ \A c \in creates : c.gen \in Nat \ {0}
        /\ tasks \subseteq Gens /\ \A g \in tasks : g \in Nat \ {0}
    BY DEF TypeOK, Calls, Gens
  <1>4. /\ pty \in Shells \cup {NoPty} /\ pty.gen \in Nat /\ NoPty.gen = None
        /\ (pty = NoPty <=> pty.gen = None)
    BY DEF TypeOK, Shells, NoPty, Gens, None
  <1>5. events \in Seq(Event)
    BY DEF TypeOK, Event
  <1>6. /\ Len(events) \in Nat
        /\ \A i \in 1 .. Len(events) : events[i] \in Event
    BY <1>5, LenProperties, ElementOfSeq
  <1>7. \A e \in Event : e.gen \in Gens /\ e.gen \in Nat \ {0}
    BY DEF Event, Gens
  <1>. QED
    BY <1>1, <1>2, <1>3, <1>4, <1>5, <1>6, <1>7

-----------------------------------------------------------------------------
(* What most steps do *)

\* Creates that are the ones there were, or some of them, no nearer to their shell.
Moved(S) == /\ S \subseteq Calls
            /\ \A d \in S : \E c \in creates : c.gen = d.gen /\ (Waits(c) <=> Waits(d))
            /\ \A c, d \in S : c.gen = d.gen => c = d

\* They have moved if they stay, lose their connection or one of them goes on or ends.
LEMMA MovedFacts ==
    ASSUME TypeOK, Once
    PROVE  /\ Moved(creates) /\ Moved(Cut)
           /\ \A c \in creates : Moved(creates \ {c})
           /\ \A c \in creates : Waits(c) => Moved(Step(c, "open")) /\ Moved(Step(c, "closed"))
  <1>1. creates \subseteq Calls /\ \A c, d \in creates : c.gen = d.gen => c = d
    BY Types DEF Once
  <1>2. Moved(creates) /\ \A c \in creates : Moved(creates \ {c})
    BY <1>1 DEF Moved
  <1>3. Moved(Cut)
    <2>1. ASSUME NEW c \in creates, NEW x \in BOOLEAN
          PROVE  LET d == [c EXCEPT !.cut = x] IN d \in Calls /\ d.gen = c.gen /\ d.at = c.at
      BY <1>1 DEF Calls
    <2>2. \A c \in creates : (c.cut \/ c.at \in {"open", "closed"}) \in BOOLEAN
      BY <1>1 DEF Calls
    <2>. DEFINE cut(c) == [c EXCEPT !.cut = (c.cut \/ c.at \in {"open", "closed"})]
    <2>3. \A c \in creates : cut(c) \in Calls /\ cut(c).gen = c.gen /\ cut(c).at = c.at
      BY <2>1, <2>2
    <2>4. Cut = {cut(c) : c \in creates}
      BY DEF Cut
    <2>. HIDE DEF cut
    <2>5. \A d \in Cut : \E c \in creates : d = cut(c)
      BY <2>4
    <2>. QED
      BY <1>1, <2>3, <2>5 DEF Moved, Waits
  <1>4. ASSUME NEW c \in creates, Waits(c), NEW at \in {"open", "closed"}
        PROVE  Moved(Step(c, at))
    <2>. DEFINE e == [c EXCEPT !.at = at]
    <2>1. e \in Calls /\ e.gen = c.gen /\ Waits(e)
      BY <1>1 DEF Calls, Waits
    <2>2. Step(c, at) = (creates \ {c}) \cup {e}
      BY DEF Step
    <2>. HIDE DEF e
    <2>. QED
      BY <1>1, <1>4, <2>1, <2>2 DEF Moved
  <1>. QED
    BY <1>2, <1>3, <1>4

\* A new generation: nothing that is on its way is of it.
LEMMA FreshKeeps ==
    ASSUME Inv, ~closed, closed' = closed, gen' \in Nat, gen' > gen, spawned' \in BOOLEAN,
           starting' = spawned', pending' \subseteq {None}, last' = None, events' = events,
           (pty' = NoPty /\ tasks' \subseteq tasks) \/ (pty' = pty /\ tasks' = tasks),
           byIdle' => byIdle \/ ~spawned',
           byIdle' /\ spawned' => gen' = gen + 1 /\ ~spawned,
           NEW old, Moved(old), NEW c, c \in Calls, c.gen = gen', Waits(c),
           creates' = IF spawned' THEN old \cup {c} ELSE old,
           spawned' => shared' = (old # {} \/ tasks' # {})
    PROVE  Keys' /\ Sized' /\ Wire'
  <1>0. /\ gen \in Nat /\ pty.gen \in Nat /\ pty'.gen \in Nat
        /\ (pty'.gen = pty.gen /\ tasks' = tasks) \/ pty'.gen = None
        /\ tasks' \subseteq tasks /\ None = 0
        /\ \A g \in tasks : g \in Nat \ {0} /\ g < gen'
        /\ \A d \in creates : d.gen \in Nat \ {0} /\ d.gen < gen'
        /\ \A i \in 1 .. Len(events) : events[i].gen \in Nat \ {0} /\ events[i].gen < gen'
        /\ pty.gen < gen'
    BY Types DEF Inv, Wire, Once
  <1>a. /\ \A d \in old : \E b \in creates : b.gen = d.gen /\ (Waits(b) <=> Waits(d))
        /\ \A d \in creates' : d \in old \/ (d = c /\ spawned')
        /\ \A d, e \in old : d.gen = e.gen => d = e
    BY DEF Moved
  <1>b. \A g \in Nat : g < gen' /\ g # 0 /\ Born(g)' => Born(g)
    BY <1>0 DEF Born
  <1>c. /\ pty'.gen # gen' /\ gen' \notin tasks'
        /\ \A i \in 1 .. Len(events') : events'[i].gen # gen'
    BY <1>0
  <1>1. Keys'
    BY DEF Keys, KeysStayWithTheirShell
  <1>2. Sized'
    BY <1>0 DEF Sized, Live, LiveShellsFit
  <1>3. Once'
    <2>1. \A d, e \in creates' : d.gen = e.gen => d = e
      BY <1>0, <1>a
    <2>2. ASSUME NEW d \in creates'
          PROVE  d.gen <= gen' /\ (Waits(d) => ~Born(d.gen)' /\ (Live' => d.gen # gen'))
      <3>1. CASE d \in old
        <4>1. PICK b \in creates : b.gen = d.gen /\ (Waits(b) <=> Waits(d))
          BY <1>a, <3>1
        <4>2. Waits(b) => ~Born(b.gen)
          BY DEF Inv, Wire, Once
        <4>. QED
          BY <1>0, <1>b, <4>1, <4>2
      <3>2. CASE d = c
        BY <1>0, <1>c, <3>2 DEF Live, Born
      <3>. QED
        BY <1>a, <3>1, <3>2
    <2>3. /\ pty'.gen <= gen' /\ \A g \in tasks' : g <= gen'
          /\ \A i \in 1 .. Len(events') : events'[i].gen <= gen'
      BY <1>0
    <2>4. pty'.gen # None => pty'.gen \in tasks'
      BY <1>0 DEF Inv, Wire, Once
    <2>. QED
      BY <2>1, <2>2, <2>3, <2>4 DEF Once
  <1>4. Stopped'
    BY <1>0, <1>a DEF Stopped, IsReady
  <1>5. Alone'
    BY <1>a DEF Alone
  <1>6. Idling'
    <2> SUFFICES ASSUME byIdle' PROVE Idling'
      BY DEF Idling
    <2>1. gen' \notin tasks' /\ \A j \in 1 .. Len(events') : events'[j].gen # gen'
      BY <1>0
    <2>2. CASE spawned'
      <3>1. byIdle /\ ~spawned /\ gen' = gen + 1
        BY <2>2
      <3>2. gen > 0 /\ ~Seen(gen)
        BY <3>1 DEF Inv, Wire, Idling
      <3>3. gen' > 1 /\ gen' - 1 = gen
        BY <1>0, <3>1, <3>2
      <3>4. /\ pty'.gen # gen /\ gen \notin tasks' /\ \A d \in creates' : d.gen # gen
            /\ \A i \in 1 .. Len(events') : events'[i].gen # gen
        BY <1>0, <1>a, <3>1, <3>2 DEF Seen, Born
      <3>5. ~Seen(gen - 1)'
        BY <3>3, <3>4 DEF Seen, Born
      <3>. QED
        BY <2>1, <2>2, <3>3, <3>5 DEF Idling, IsExit
    <2>3. CASE ~spawned'
      <3>1. ~Seen(gen)' /\ gen' > 0
        BY <1>0, <1>a, <1>c, <2>3 DEF Seen, Born
      <3>. QED
        BY <2>1, <2>3, <3>1 DEF Idling, IsExit
    <2>. QED
      BY <2>2, <2>3
  <1>7. Running'
    BY <1>0 DEF Running, LiveShellsRun, Live, IsReady
  <1>. QED
    BY <1>1, <1>2, <1>3, <1>4, <1>5, <1>6, <1>7 DEF Wire

\* A step that leaves the entry and its events alone and starts nothing.  If the
\* session goes the loss is on its way, the entry was stopped, or it waits for a
\* create or has never been alone.
LEMMA WireKeeps ==
    ASSUME Inv, UNCHANGED <<gen, spawned, byIdle, closed, events, shared>>, Live' <=> Live,
           Moved(creates'),
           (pty'.gen = None /\ tasks' \subseteq tasks) \/ (pty'.gen = pty.gen /\ tasks' = tasks),
           \/ pty'.gen = pty.gen \/ lost' \/ ~spawned \/ shared
           \/ \E c \in creates : Waits(c) /\ c.gen = gen,
           lost => lost' \/ ~spawned
    PROVE  Wire'
  <1>0. /\ gen \in Nat /\ None = 0 /\ pty.gen \in Nat
        /\ (pty'.gen = pty.gen /\ tasks' = tasks) \/ pty'.gen = None
        /\ tasks' \subseteq tasks
        /\ \A g \in tasks : g \in Nat \ {0}
        /\ \A d \in creates : d.gen \in Nat \ {0}
    BY Types DEF Inv
  <1>a. /\ \A d \in creates' : \E b \in creates : b.gen = d.gen /\ (Waits(b) <=> Waits(d))
        /\ \A d, e \in creates' : d.gen = e.gen => d = e
    BY DEF Moved
  <1>b. \A g \in Nat : g # 0 /\ Born(g)' => Born(g)
    BY <1>0 DEF Born
  <1>c. \A g \in Nat : g # 0 /\ Seen(g)' => Seen(g)
    BY <1>a, <1>b DEF Seen
  <1>1. Once'
    <2>1. ASSUME NEW d \in creates'
          PROVE  d.gen <= gen' /\ (Waits(d) => ~Born(d.gen)' /\ (Live' => d.gen # gen'))
      <3>1. PICK b \in creates : b.gen = d.gen /\ (Waits(b) <=> Waits(d))
        BY <1>a
      <3>2. /\ b.gen <= gen /\ b.gen \in Nat /\ b.gen # 0
            /\ Waits(b) => ~Born(b.gen) /\ (Live => b.gen # gen)
        BY <1>0 DEF Inv, Wire, Once
      <3>. QED
        BY <1>b, <3>1, <3>2
    <2>2. /\ pty'.gen <= gen' /\ \A g \in tasks' : g <= gen'
          /\ \A i \in 1 .. Len(events') : events'[i].gen <= gen'
          /\ pty'.gen # None => pty'.gen \in tasks'
      BY <1>0 DEF Inv, Wire, Once
    <2>. QED
      BY <1>a, <2>1, <2>2 DEF Once
  <1>2. Stopped'
    BY <1>a DEF Inv, Wire, Stopped, IsReady
  <1>3. Alone'
    BY <1>0, <1>a DEF Inv, Wire, Alone
  <1>4. Idling'
    <2> SUFFICES ASSUME byIdle PROVE Idling'
      BY DEF Idling
    <2>1. /\ IF spawned THEN gen > 1 /\ ~Seen(gen - 1) ELSE gen > 0 /\ ~Seen(gen)
          /\ gen \in tasks => \E i \in 1 .. Len(events) : IsReady(i, gen)
          /\ \A j \in 1 .. Len(events) :
               IsExit(j, gen) => \E i \in 1 .. (j - 1) : IsReady(i, gen)
      BY DEF Inv, Wire, Idling
    <2>2. IF spawned THEN gen > 1 /\ ~Seen(gen - 1)' ELSE gen > 0 /\ ~Seen(gen)'
      BY <1>0, <1>c, <2>1
    <2>. QED
      BY <1>0, <2>1, <2>2 DEF Idling, IsReady, IsExit, Seen, Born
  <1>5. Running'
    <2> SUFFICES ASSUME ~closed PROVE Running'
      BY DEF Running
    <2>1. CASE ~spawned
      BY <2>1 DEF Inv, Wire, Running, LiveShellsRun, Live, Stopped, IsReady
    <2>2. CASE spawned /\ \E c \in creates : Waits(c) /\ c.gen = gen
      BY <2>2 DEF Inv, Wire, Running, LiveShellsRun, Once, Born, IsReady
    <2>3. CASE spawned /\ (pty'.gen = pty.gen \/ lost' \/ shared)
      BY <2>3 DEF Inv, Wire, Running, LiveShellsRun, Exiting, IsReady, IsExit
    <2>. QED
      BY <2>1, <2>2, <2>3
  <1>. QED
    BY <1>1, <1>2, <1>3, <1>4, <1>5 DEF Wire

\* What is shown of the size stays true unless it is told another one, or fitted.
LEMMA SizedKeeps ==
    ASSUME Inv, UNCHANGED <<gen, spawned, starting, last>>,
           pty' = NoPty \/ (pty'.gen = pty.gen /\ pty'.size = pty.size),
           last = term \/ drawn => last = term' \/ drawn'
    PROVE  Sized'
  <1>1. /\ IF Live THEN last \in Sizes /\ (last = term \/ drawn) ELSE last = None
        /\ Live /\ pty.gen = gen => pty.size = last /\ (last = term \/ drawn)
        /\ spawned => gen > 0
    BY DEF Inv, Sized, LiveShellsFit
  <1>2. spawned /\ pty'.gen = gen => pty'.gen = pty.gen /\ pty'.size = pty.size
    BY <1>1, Types DEF Inv
  <1>. QED
    BY <1>1, <1>2 DEF Sized, LiveShellsFit, Live

\* Both, for the many steps that leave the entry, its terminal and its creates alone.
LEMMA QuietKeeps ==
    ASSUME Inv, Moved(creates'),
           UNCHANGED <<gen, spawned, starting, byIdle, last, closed, events, shared, term, drawn>>,
           (pty' = NoPty /\ tasks' \subseteq tasks) \/ (pty' = pty /\ tasks' = tasks),
           pty' = pty \/ lost' \/ ~spawned, lost => lost' \/ ~spawned
    PROVE  Sized' /\ Wire'
  <1>0. pty' = NoPty \/ (pty'.gen = pty.gen /\ pty'.size = pty.size)
    OBVIOUS
  <1>1. Sized'
    BY <1>0, SizedKeeps
  <1>2. Wire'
    <2>1. NoPty.gen = None /\ (Live' <=> Live)
      BY Types DEF Inv, Live
    <2>. QED
      BY <2>1, WireKeeps
  <1>. QED
    BY <1>1, <1>2

-----------------------------------------------------------------------------
(* Tabs, hosts, the user and the idle timer *)

\* A shell that is asked for at a new generation waits for its channel.
LEMMA SpawnFacts ==
    ASSUME Inv, NEW g \in Nat, NEW s \in Sizes, NEW older, SpawnAt(g, s, older), g > gen
    PROVE  /\ g \in Gens /\ gen' = g /\ spawned' = TRUE /\ starting' = TRUE
           /\ shared' = (creates # {} \/ older # {}) /\ shared' \in BOOLEAN
           /\ creates' \subseteq Calls
           /\ \E c \in Calls : c.gen = g /\ Waits(c) /\ creates' = creates \cup {c}
  <1>. DEFINE c == [gen |-> g, size |-> s, at |-> "sent", cut |-> FALSE]
  <1>1. g \in Gens
    BY Types DEF Inv, SpawnAt, Gens
  <1>2. c \in Calls /\ c.gen = g /\ Waits(c)
    BY <1>1 DEF Calls, Waits
  <1>3. /\ gen' = g /\ spawned' = TRUE /\ starting' = TRUE
        /\ shared' = (creates # {} \/ older # {}) /\ creates' = creates \cup {c}
    BY DEF SpawnAt
  <1>. HIDE DEF c
  <1>. QED
    BY <1>1, <1>2, <1>3, Types DEF Inv

\* A shell is started if it may be: nothing idles and nothing is on its way.
LEMMA AppearKeeps ==
    ASSUME Inv, NEW s \in Sizes, Appear(s) \/ NoSpawn, ~closed,
           UNCHANGED <<byIdle, pending, last, closed, pty, tasks, events, lost>>,
           last = term \/ drawn => last = term' \/ drawn'
    PROVE  /\ Keys' /\ Sized' /\ Wire'
           /\ gen' \in 0..MaxGen /\ spawned' \in BOOLEAN /\ starting' \in BOOLEAN
           /\ creates' \subseteq Calls /\ shared' \in BOOLEAN
  <1>1. CASE NoSpawn
    <2>. USE <1>1 DEF NoSpawn
    <2>1. Keys'
      BY DEF Inv, Keys, KeysStayWithTheirShell
    <2>2. Sized'
      BY SizedKeeps
    <2>3. Moved(creates') /\ (Live' <=> Live)
      BY MovedFacts DEF Inv, Wire, Live
    <2>4. Wire'
      BY <2>3, WireKeeps
    <2>. QED
      BY <2>1, <2>2, <2>4, Types DEF Inv
  <1>2. CASE MaySpawn /\ ~byIdle /\ SpawnAt(gen + 1, s, tasks)
    <2>1. gen + 1 \in Nat /\ gen + 1 > gen
      BY Types DEF Inv
    <2>2. /\ gen + 1 \in Gens /\ gen' = gen + 1 /\ spawned' = TRUE /\ starting' = TRUE
          /\ shared' = (creates # {} \/ tasks # {}) /\ shared' \in BOOLEAN
          /\ creates' \subseteq Calls
      BY <1>2, <2>1, SpawnFacts
    <2>3. PICK c \in Calls : c.gen = gen + 1 /\ Waits(c) /\ creates' = creates \cup {c}
      BY <1>2, <2>1, SpawnFacts
    <2>4. pending' \subseteq {None} /\ last' = None /\ ~byIdle' /\ Moved(creates)
      BY <1>2, MovedFacts DEF MaySpawn, Inv, Keys, Sized, Live, Wire
    <2>5. Keys' /\ Sized' /\ Wire'
      BY ONLY Inv, ~closed, UNCHANGED <<closed, pty, tasks, events>>,
              <2>1, <2>2, <2>3, <2>4, FreshKeeps
    <2>6. gen' \in 0..MaxGen
      BY <2>2, Types DEF Inv, Gens
    <2>. QED
      BY <2>2, <2>5, <2>6
  <1>. QED
    BY <1>1, <1>2 DEF Appear

\* A shell that runs or starts is suspended; one that does not is left alone.
LEMMA SuspendKeeps ==
    ASSUME Inv, NEW idle \in BOOLEAN, Suspend(idle), Moved(creates'),
           UNCHANGED <<closed, events, term, drawn, shared>>
    PROVE  /\ Keys' /\ Sized' /\ Wire'
           /\ gen' \in 0..MaxGen /\ spawned' \in BOOLEAN /\ starting' \in BOOLEAN
           /\ byIdle' \in BOOLEAN /\ pending' \subseteq 0..MaxGen
           /\ last' \in Sizes \cup {None} /\ pty' \in Shells \cup {NoPty}
           /\ tasks' \subseteq Gens /\ creates' \subseteq Calls
           /\ closed => ~spawned' /\ ~byIdle'
  <1>0. creates' \subseteq Calls
    BY DEF Moved
  <1>1. CASE ~spawned
    <2>. USE <1>1 DEF Suspend, manager
    <2>1. Keys'
      BY DEF Inv, Keys, KeysStayWithTheirShell
    <2>2. Sized' /\ Wire'
      BY QuietKeeps
    <2>3. pending' \subseteq 0..MaxGen /\ (closed => ~spawned' /\ ~byIdle')
      BY DEF Inv, TypeOK, Marks, ClosedIsOver
    <2>4. gen' \in 0..MaxGen
      BY Types DEF Inv
    <2>. QED
      BY <1>0, <2>1, <2>2, <2>3, <2>4, Types DEF Inv
  <1>2. CASE spawned
    <2>. USE <1>2
    <2>1. ~closed
      BY DEF Inv, Marks, ClosedIsOver
    <2>2. /\ gen < MaxGen /\ gen' = gen + 1 /\ spawned' = FALSE /\ starting' = FALSE
          /\ byIdle' = (byIdle \/ idle) /\ pending' = {} /\ last' = None
          /\ pty' = NoPty /\ tasks' \subseteq tasks
      BY DEF Suspend, Kill, AfterKill
    <2>3. gen' \in Nat /\ gen' > gen /\ gen' \in 0..MaxGen /\ gen' \in Gens
      BY <2>2, Types DEF Inv, Gens
    <2>. DEFINE c == [gen |-> gen', size |-> term, at |-> "sent", cut |-> FALSE]
    <2>4. c \in Calls /\ c.gen = gen' /\ Waits(c)
      BY <2>3, Types DEF Inv, Calls, Waits
    <2>. HIDE DEF c
    <2>5. Keys' /\ Sized' /\ Wire'
      BY ONLY Inv, Moved(creates'), UNCHANGED <<closed, events>>,
              <2>1, <2>2, <2>3, <2>4, FreshKeeps
    <2>. QED
      BY <1>0, <2>1, <2>2, <2>3, <2>5, Types DEF Inv
  <1>. QED
    BY <1>1, <1>2

\* A tab is bound, and fitted if it is shown.
LEMMA MountKeeps ==
    ASSUME Inv, Mount
    PROVE  Inv'
  <1>. USE DEF Mount, idling, manager
  <1>1. /\ Keys' /\ Sized' /\ Wire'
        /\ gen' \in 0..MaxGen /\ spawned' \in BOOLEAN /\ starting' \in BOOLEAN
        /\ creates' \subseteq Calls /\ shared' \in BOOLEAN
        /\ term' \in Sizes /\ drawn' \in BOOLEAN
    <2>1. CASE front
      <3>1. PICK s \in Sizes : term' = s /\ drawn' = (drawn \/ s # term) /\ Appear(s)
        BY <2>1
      <3>2. last = term \/ drawn => last = term' \/ drawn'
        BY <3>1
      <3>. QED
        BY <3>1, <3>2, AppearKeeps, Types DEF Inv
    <2>2. CASE ~front
      <3>1. term \in Sizes /\ drawn \in BOOLEAN
        BY Types DEF Inv
      <3>. QED
        BY <2>2, <3>1, AppearKeeps
    <2>. QED
      BY <2>1, <2>2
  <1>2. TypeOK'
    BY <1>1 DEF Inv, TypeOK
  <1>3. Marks'
    BY DEF Inv, Marks, ClosedIsOver, FrontIsBusy
  <1>. QED
    BY <1>1, <1>2, <1>3 DEF Inv

\* A tab comes to the front: the job of its host goes, and its shell may start.
LEMMA ShowKeeps ==
    ASSUME Inv, Show
    PROVE  Inv'
  <1>. USE DEF Show, manager
  <1>1. CASE mounted
    <2>1. ~closed /\ term \in Sizes
      BY <1>1, Types DEF Inv, Marks, ClosedIsOver
    <2>2. /\ Keys' /\ Sized' /\ Wire'
          /\ gen' \in 0..MaxGen /\ spawned' \in BOOLEAN /\ starting' \in BOOLEAN
          /\ creates' \subseteq Calls /\ shared' \in BOOLEAN
      BY <1>1, <2>1, AppearKeeps
    <2>3. TypeOK'
      BY <2>2 DEF Inv, TypeOK
    <2>4. Marks'
      BY <2>1 DEF Inv, Marks, ClosedIsOver, FrontIsBusy
    <2>. QED
      BY <2>2, <2>3, <2>4 DEF Inv
  <1>2. CASE ~mounted
    <2>. USE <1>2 DEF NoSpawn
    <2>1. Keys'
      BY DEF Inv, Keys, KeysStayWithTheirShell
    <2>2. Sized' /\ Wire'
      BY QuietKeeps, MovedFacts DEF Inv, Wire
    <2>3. TypeOK'
      BY DEF Inv, TypeOK
    <2>4. Marks'
      BY DEF Inv, Marks, ClosedIsOver, FrontIsBusy
    <2>. QED
      BY <2>1, <2>2, <2>3, <2>4 DEF Inv
  <1>. QED
    BY <1>1, <1>2

\* Steps that change neither the entry nor what is on its way for it.
LEMMA ElsewhereKeeps ==
    ASSUME Inv, Hide \/ Connect \/ Disconnect \/ Output \/ IdleAttempt
    PROVE  Inv'
  <1>. USE DEF Hide, Connect, Disconnect, Output, IdleAttempt, cache, backend, manager,
               view, idling, history
  <1>1. Keys'
    BY DEF Inv, Keys, KeysStayWithTheirShell
  <1>2. Sized' /\ Wire'
    BY QuietKeeps, MovedFacts DEF Inv, Wire
  <1>3. TypeOK'
    BY DEF Inv, TypeOK
  <1>4. Marks'
    BY DEF Inv, Marks, ClosedIsOver, FrontIsBusy
  <1>. QED
    BY <1>1, <1>2, <1>3, <1>4 DEF Inv

\* The host is connected again.
LEMMA WakeKeeps ==
    ASSUME Inv, Wake
    PROVE  Inv'
  <1>. USE DEF Wake, idling
  <1>0. Marks'
    BY DEF Inv, Marks, ClosedIsOver, FrontIsBusy, cache
  <1>1. CASE closed
    <2>. USE <1>1 DEF cache, manager
    <2>1. Keys'
      BY DEF Inv, Keys, KeysStayWithTheirShell
    <2>2. Sized' /\ Wire'
      BY QuietKeeps, MovedFacts DEF Inv, Wire
    <2>3. TypeOK'
      BY DEF Inv, TypeOK
    <2>. QED
      BY <1>0, <2>1, <2>2, <2>3 DEF Inv
  <1>2. CASE ~closed
    <2>. USE <1>2
    <2>0. /\ byIdle' = FALSE /\ blocked' = FALSE /\ pending' = {} /\ last' = None
          /\ UNCHANGED <<closed, host, mounted, front, session, events, lost, drawn, term>>
          /\ waking' = FALSE /\ UNCHANGED <<job, probing, active>>
      OBVIOUS
    <2>1. /\ (pty' = NoPty /\ tasks' \subseteq tasks) \/ (pty' = pty /\ tasks' = tasks)
          /\ pty' \in Shells \cup {NoPty} /\ tasks' \subseteq Gens
      <3>1. pty \in Shells \cup {NoPty} /\ tasks \subseteq Gens
        BY Types DEF Inv
      <3>2. CASE spawned
        BY <3>1, <3>2 DEF Kill, AfterKill
      <3>3. CASE ~spawned
        BY <3>1, <3>3 DEF manager
      <3>. QED
        BY <3>2, <3>3
    <2>2. Moved(creates)
      BY MovedFacts DEF Inv, Wire
    <2>3. CASE mounted /\ front /\ host = "up"
      <3>0. SpawnAt(gen + 2, term, tasks')
        BY <2>3
      <3>1. gen + 2 \in Nat /\ gen + 2 > gen /\ term \in Sizes
        BY Types DEF Inv
      <3>2. /\ gen + 2 \in Gens /\ gen' = gen + 2 /\ spawned' = TRUE /\ starting' = TRUE
            /\ shared' = (creates # {} \/ tasks' # {}) /\ shared' \in BOOLEAN
            /\ creates' \subseteq Calls
        BY ONLY Inv, <3>0, <3>1, SpawnFacts
      <3>3. PICK c \in Calls : c.gen = gen + 2 /\ Waits(c) /\ creates' = creates \cup {c}
        BY ONLY Inv, <3>0, <3>1, SpawnFacts
      <3>4. Keys' /\ Sized' /\ Wire'
        BY ONLY Inv, ~closed, <2>0, <2>1, <2>2, <3>1, <3>2, <3>3, FreshKeeps
      <3>5. gen' \in 0..MaxGen
        BY <3>2, Types DEF Inv, Gens
      <3>6. TypeOK'
        BY <2>0, <2>1, <3>2, <3>5 DEF Inv, TypeOK, Shells
      <3>. QED
        BY <1>0, <3>4, <3>6 DEF Inv
    <2>4. CASE ~(mounted /\ front /\ host = "up")
      <3>1. /\ gen < MaxGen /\ gen' = gen + 1 /\ spawned' = FALSE /\ starting' = FALSE
            /\ creates' = creates /\ shared' = shared
        BY <2>4
      <3>2. gen' \in Nat /\ gen' > gen /\ gen' \in 0..MaxGen /\ gen' \in Gens
        BY <3>1, Types DEF Inv, Gens
      <3>. DEFINE c == [gen |-> gen', size |-> term, at |-> "sent", cut |-> FALSE]
      <3>3. c \in Calls /\ c.gen = gen' /\ Waits(c)
        BY <3>2, Types DEF Inv, Calls, Waits
      <3>. HIDE DEF c
      <3>4. Keys' /\ Sized' /\ Wire'
        BY ONLY Inv, ~closed, <2>0, <2>1, <2>2, <3>1, <3>2, <3>3, FreshKeeps
      <3>5. TypeOK'
        BY <2>0, <2>1, <3>1, <3>2 DEF Inv, TypeOK, Shells
      <3>. QED
        BY <1>0, <3>4, <3>5 DEF Inv
    <2>. QED
      BY <2>3, <2>4
  <1>. QED
    BY <1>1, <1>2

\* The connection is lost, or given up.
LEMMA LostKeeps ==
    ASSUME Inv, Lost
    PROVE  Inv'
  <1>. USE DEF Lost, idling, history
  <1>0. Moved(creates') /\ FALSE \in BOOLEAN
    BY MovedFacts DEF Inv, Wire
  <1>1. /\ Keys' /\ Sized' /\ Wire'
        /\ gen' \in 0..MaxGen /\ spawned' \in BOOLEAN /\ starting' \in BOOLEAN
        /\ byIdle' \in BOOLEAN /\ pending' \subseteq 0..MaxGen
        /\ last' \in Sizes \cup {None} /\ pty' \in Shells \cup {NoPty}
        /\ tasks' \subseteq Gens /\ creates' \subseteq Calls
        /\ closed => ~spawned' /\ ~byIdle'
    BY <1>0, SuspendKeeps
  <1>2. TypeOK'
    BY <1>1 DEF Inv, TypeOK, Shells
  <1>3. Marks'
    BY <1>1 DEF Inv, Marks, ClosedIsOver, FrontIsBusy
  <1>. QED
    BY <1>1, <1>2, <1>3 DEF Inv

\* The host is down: nothing of its shell stays but the calls under way.
LEMMA LeftKeeps ==
    ASSUME Inv, Left
    PROVE  Inv'
  <1>. USE DEF Left, idling, history
  <1>0. Moved(creates') /\ FALSE \in BOOLEAN
    BY MovedFacts DEF Inv, Wire
  <1>1. CASE spawned
    <2>1. /\ Keys' /\ Sized' /\ Wire'
          /\ gen' \in 0..MaxGen /\ spawned' \in BOOLEAN /\ starting' \in BOOLEAN
          /\ byIdle' \in BOOLEAN /\ pending' \subseteq 0..MaxGen
          /\ last' \in Sizes \cup {None} /\ pty' \in Shells \cup {NoPty}
          /\ tasks' \subseteq Gens /\ creates' \subseteq Calls
          /\ closed => ~spawned' /\ ~byIdle'
      BY <1>0, <1>1, SuspendKeeps
    <2>2. TypeOK'
      BY <2>1 DEF Inv, TypeOK, Shells
    <2>3. Marks'
      BY <2>1 DEF Inv, Marks, ClosedIsOver, FrontIsBusy
    <2>. QED
      BY <2>1, <2>2, <2>3 DEF Inv
  <1>2. CASE ~spawned
    <2>. USE <1>2
    <2>0. /\ UNCHANGED <<gen, spawned, starting, byIdle, last, closed, events, shared, term,
                         drawn, lost, blocked, waking, front, job, probing, active>>
          /\ pending' = {} /\ host' = "down" /\ session' = "gone" /\ mounted' = FALSE
          /\ (pty' = NoPty /\ tasks' \subseteq tasks) \/ (pty' = pty /\ tasks' = tasks)
          /\ creates' \subseteq Calls
      BY <1>0 DEF Kill, AfterKill, manager, Moved
    <2>1. Keys'
      BY <2>0 DEF Keys, KeysStayWithTheirShell
    <2>2. Sized' /\ Wire'
      BY ONLY Inv, <1>0, <1>2, <2>0, QuietKeeps
    <2>3. TypeOK'
      BY <2>0 DEF Inv, TypeOK
    <2>4. Marks'
      BY <2>0 DEF Inv, Marks, ClosedIsOver, FrontIsBusy
    <2>. QED
      BY <2>1, <2>2, <2>3, <2>4 DEF Inv
  <1>. QED
    BY <1>1, <1>2

\* Keys are typed, and sent.
LEMMA TypeKeeps ==
    ASSUME Inv, Type \/ Flush
    PROVE  Inv'
  <1>. USE DEF Type, Flush, view, backend, manager, idling, history
  <1>1. Keys'
    BY DEF Inv, Keys, KeysStayWithTheirShell
  <1>2. Sized' /\ Wire'
    BY QuietKeeps, MovedFacts DEF Inv, Wire
  <1>3. TypeOK'
    <2>1. pending' \subseteq 0..MaxGen
      <3>1. gen \in 0..MaxGen /\ None \in 0..MaxGen /\ pending \subseteq 0..MaxGen
        BY Types DEF Inv, TypeOK, None
      <3>. QED
        BY <3>1
    <2>2. active' \in BOOLEAN
      BY Types DEF Inv, TypeOK
    <2>. QED
      BY <2>1, <2>2 DEF Inv, TypeOK
  <1>4. Marks'
    BY DEF Inv, Marks, ClosedIsOver, FrontIsBusy
  <1>. QED
    BY <1>1, <1>2, <1>3, <1>4 DEF Inv

\* Enter starts what does not run.
LEMMA EnterKeeps ==
    ASSUME Inv, Enter
    PROVE  Inv'
  <1>. USE DEF Enter, view, manager, idling
  <1>0. ~closed /\ last = None /\ ~spawned
    BY DEF Inv, Marks, ClosedIsOver, Sized, Live
  <1>1. Marks'
    BY <1>0 DEF Inv, Marks, ClosedIsOver, FrontIsBusy
  <1>2. CASE NoSpawn
    <2>. USE <1>2 DEF NoSpawn
    <2>1. Keys'
      BY DEF Keys, KeysStayWithTheirShell
    <2>2. Sized' /\ Wire'
      BY <1>0, QuietKeeps, MovedFacts DEF Inv, Wire
    <2>3. TypeOK'
      BY DEF Inv, TypeOK
    <2>. QED
      BY <1>1, <2>1, <2>2, <2>3 DEF Inv
  <1>3. CASE SpawnAt(gen + 1, term, tasks)
    <2>1. gen + 1 \in Nat /\ gen + 1 > gen /\ term \in Sizes
      BY Types DEF Inv
    <2>2. /\ gen + 1 \in Gens /\ gen' = gen + 1 /\ spawned' = TRUE /\ starting' = TRUE
          /\ shared' = (creates # {} \/ tasks # {}) /\ shared' \in BOOLEAN
          /\ creates' \subseteq Calls
      BY ONLY Inv, <1>3, <2>1, SpawnFacts
    <2>3. PICK c \in Calls : c.gen = gen + 1 /\ Waits(c) /\ creates' = creates \cup {c}
      BY ONLY Inv, <1>3, <2>1, SpawnFacts
    <2>4. /\ pending' = {} /\ last' = None /\ Moved(creates)
          /\ UNCHANGED <<byIdle, closed, pty, tasks, events>>
      BY MovedFacts DEF Inv, Wire
    <2>5. Keys' /\ Sized' /\ Wire'
      BY ONLY Inv, <1>0, <2>1, <2>2, <2>3, <2>4, FreshKeeps
    <2>6. gen' \in 0..MaxGen
      BY <2>2, Types DEF Inv, Gens
    <2>7. TypeOK'
      BY <2>2, <2>4, <2>6 DEF Inv, TypeOK
    <2>. QED
      BY <1>1, <2>5, <2>7 DEF Inv
  <1>. QED
    BY <1>2, <1>3

\* The backend says whether the shell is busy.
LEMMA ProbeKeeps ==
    ASSUME Inv, ProbeAnswers
    PROVE  Inv'
  <1>. USE DEF ProbeAnswers, view, history
  <1>0. Moved(creates') /\ TRUE \in BOOLEAN
    BY MovedFacts DEF Inv, Wire
  <1>1. CASE Suspend(TRUE)
    <2>1. /\ Keys' /\ Sized' /\ Wire'
          /\ gen' \in 0..MaxGen /\ spawned' \in BOOLEAN /\ starting' \in BOOLEAN
          /\ byIdle' \in BOOLEAN /\ pending' \subseteq 0..MaxGen
          /\ last' \in Sizes \cup {None} /\ pty' \in Shells \cup {NoPty}
          /\ tasks' \subseteq Gens /\ creates' \subseteq Calls
          /\ closed => ~spawned' /\ ~byIdle'
      BY <1>0, <1>1, SuspendKeeps
    <2>2. TypeOK'
      BY <2>1 DEF Inv, TypeOK, Shells
    <2>3. Marks'
      BY <2>1 DEF Inv, Marks, ClosedIsOver, FrontIsBusy
    <2>. QED
      BY <2>1, <2>2, <2>3 DEF Inv
  <1>2. CASE UNCHANGED <<gen, spawned, starting, byIdle, pending, last, manager, job>>
    <2>. USE <1>2 DEF manager
    <2>1. Keys'
      BY DEF Inv, Keys, KeysStayWithTheirShell
    <2>2. Sized' /\ Wire'
      BY <1>0, QuietKeeps
    <2>3. TypeOK'
      BY DEF Inv, TypeOK
    <2>4. Marks'
      BY DEF Inv, Marks, ClosedIsOver, FrontIsBusy
    <2>. QED
      BY <2>1, <2>2, <2>3, <2>4 DEF Inv
  <1>. QED
    BY <1>1, <1>2

-----------------------------------------------------------------------------
(* Sizes, ends and the backend *)

-----------------------------------------------------------------------------
(* Sizes and ends *)

\* The backend is told the size s of a terminal that has it, if it did not know.
LEMMA TellFacts ==
    ASSUME Inv, NEW s \in Sizes, Tell(s) \/ Resize(s)
    PROVE  /\ last' = s /\ pty' \in Shells \cup {NoPty} /\ pty'.gen = pty.gen
           /\ pty'.gen = gen /\ (Live \/ last = None) /\ gen > 0 => pty'.size = s
  <1>1. CASE Tell(s) /\ pty = NoPty
    BY <1>1, Types DEF Inv, Tell
  <1>2. CASE Tell(s) /\ pty # NoPty
    <2>1. pty \in Shells /\ last' = s /\ pty' = [pty EXCEPT !.size = s]
      BY <1>2, Types DEF Inv, Tell
    <2>. QED
      BY <2>1 DEF Shells
  <1>3. CASE last = s /\ UNCHANGED <<last, pty>>
    BY <1>3, Types DEF Inv, Sized, LiveShellsFit
  <1>. QED
    BY <1>1, <1>2, <1>3 DEF Resize

\* A terminal that is fitted, and what is shown of its size: the rest is untouched.
LEMMA FittedKeeps ==
    ASSUME Inv, Fitted, term' \in Sizes, drawn' \in BOOLEAN, last' \in Sizes \cup {None},
           pty' \in Shells \cup {NoPty}, pty'.gen = pty.gen, Sized'
    PROVE  Inv'
  <1>. USE DEF Fitted, view, idling
  <1>1. TypeOK'
    BY DEF Inv, TypeOK, Shells
  <1>2. Marks'
    BY DEF Inv, Marks, ClosedIsOver, FrontIsBusy
  <1>3. Keys'
    BY DEF Inv, Keys, KeysStayWithTheirShell
  <1>4. Wire'
    <2>1. Moved(creates') /\ (Live' <=> Live)
      BY MovedFacts DEF Inv, Wire, Live
    <2>. QED
      BY <2>1, WireKeeps
  <1>. QED
    BY <1>1, <1>2, <1>3, <1>4 DEF Inv

\* The terminal is fitted.
LEMMA FitKeeps ==
    ASSUME Inv, Fit
    PROVE  Inv'
  <1>1. PICK s \in Sizes :
          /\ term' = s /\ drawn' = FALSE
          /\ IF Live THEN Tell(s) \/ Resize(s)
             ELSE last' \in {last, None} /\ UNCHANGED pty
    BY DEF Fit
  <1>2. Fitted /\ (Live' <=> Live) /\ gen' = gen /\ (spawned' => gen' > 0)
    BY DEF Fit, Fitted, Live, Inv, Sized
  <1>3. CASE Live
    <2>1. /\ last' = s /\ pty' \in Shells \cup {NoPty} /\ pty'.gen = pty.gen
          /\ pty'.gen = gen /\ (Live \/ last = None) /\ gen > 0 => pty'.size = s
      BY <1>1, <1>3, TellFacts
    <2>2. gen > 0
      BY <1>3 DEF Inv, Sized, Live
    <2>3. Sized'
      BY <1>1, <1>2, <1>3, <2>1, <2>2 DEF Sized, LiveShellsFit
    <2>. QED
      BY <1>1, <1>2, <2>1, <2>3, FittedKeeps
  <1>4. CASE ~Live
    <2>1. last = None
      BY <1>4 DEF Inv, Sized
    <2>2. Sized'
      BY <1>1, <1>2, <1>4, <2>1 DEF Sized, LiveShellsFit
    <2>. QED
      BY <1>1, <1>2, <1>4, <2>1, <2>2, FittedKeeps, Types DEF Inv
  <1>. QED
    BY <1>3, <1>4

\* The terminal is fitted alone.
LEMMA DrawKeeps ==
    ASSUME Inv, Draw
    PROVE  Inv'
  <1>1. Fitted /\ term' \in Sizes /\ drawn' = TRUE /\ UNCHANGED <<last, pty>>
    BY DEF Draw
  <1>2. Sized'
    BY <1>1, SizedKeeps DEF Fitted
  <1>. QED
    BY <1>1, <1>2, FittedKeeps, Types DEF Inv

\* The entry of a tab goes with its session; what its events say is nobody's.
LEMMA DeleteKeeps ==
    ASSUME Inv, Delete, UNCHANGED <<gen, creates>>,
           Len(events') \in Nat,
           \A i \in 1 .. Len(events') : \E j \in 1 .. Len(events) : events'[i] = events[j]
    PROVE  Keys' /\ Sized' /\ Wire'
  <1>. USE DEF Delete, Kill, AfterKill
  <1>1. Keys' /\ Sized'
    BY DEF Keys, KeysStayWithTheirShell, Sized, Live, LiveShellsFit
  <1>2. Once'
    <2>1. /\ NoPty.gen = 0 /\ None = 0 /\ gen \in Nat /\ \A c \in creates : c.gen # 0
          /\ tasks' \subseteq tasks /\ ~Live'
      BY Types DEF Inv, Live
    <2>2. \A c \in creates : Waits(c) => ~Born(c.gen)'
      BY <2>1 DEF Inv, Wire, Once, Born
    <2>. QED
      BY <2>1, <2>2 DEF Inv, Wire, Once
  <1>3. Stopped' /\ Alone' /\ Idling' /\ Running'
    BY DEF Stopped, Alone, Idling, Running
  <1>. QED
    BY <1>1, <1>2, <1>3 DEF Wire

\* A tab is closed.
LEMMA CloseKeeps ==
    ASSUME Inv, CloseTab
    PROVE  Inv'
  <1>. USE DEF CloseTab, idling, history
  <1>1. Keys' /\ Sized' /\ Wire'
    BY Types, DeleteKeeps DEF Inv
  <1>2. TypeOK'
    BY DEF Inv, TypeOK, Delete, Kill, AfterKill
  <1>3. Marks'
    BY DEF Inv, Marks, ClosedIsOver, FrontIsBusy, Delete
  <1>. QED
    BY <1>1, <1>2, <1>3 DEF Inv

-----------------------------------------------------------------------------
(* The backend *)

\* A create gets its channel, ends the session there is, or has its handle stored.
LEMMA CallsKeep ==
    ASSUME Inv, NEW c \in creates, ChannelOpens(c) \/ StaleCloses(c) \/ Answered(c)
    PROVE  Inv'
  <1>0. /\ UNCHANGED <<cache, view, lost, events, history, term, idling>>
        /\ session' \in {session, "alive"}
    BY DEF ChannelOpens, StaleCloses, Answered
  <1>1. /\ Moved(creates')
        /\ (pty' = NoPty /\ tasks' \subseteq tasks)
             \/ (pty'.gen = pty.gen /\ pty'.size = pty.size /\ tasks' = tasks)
        /\ pty' \in Shells \cup {NoPty} /\ tasks' \subseteq Gens
        /\ pty'.gen = pty.gen \/ Waits(c)
    <2>1. TypeOK /\ Once /\ pty \in Shells \cup {NoPty} /\ tasks \subseteq Gens /\ c \in Calls
      BY Types DEF Inv, Wire
    <2>2. CASE ChannelOpens(c)
      BY <2>1, <2>2, MovedFacts DEF ChannelOpens, Waits, manager
    <2>3. CASE StaleCloses(c)
      BY <2>1, <2>3, MovedFacts DEF StaleCloses, Waits, Kill, AfterKill
    <2>4. CASE Answered(c)
      <3>1. Moved(creates') /\ tasks' = tasks
            /\ pty' = IF pty = NoPty THEN NoPty ELSE [pty EXCEPT !.task = c.gen]
        BY <2>1, <2>4, MovedFacts DEF Answered
      <3>2. c.gen \in 0..MaxGen
        BY <2>1, PtyAssumption DEF Calls, Gens
      <3>3. CASE pty = NoPty
        BY <2>1, <3>1, <3>3
      <3>4. CASE pty # NoPty
        <4>1. pty \in Shells /\ pty' = [pty EXCEPT !.task = c.gen]
          BY <2>1, <3>1, <3>4
        <4>2. pty' \in Shells /\ pty'.gen = pty.gen /\ pty'.size = pty.size
          BY <3>2, <4>1 DEF Shells
        <4>. QED
          BY <2>1, <3>1, <4>2
      <3>. QED
        BY <3>3, <3>4
    <2>. QED
      BY <2>2, <2>3, <2>4
  <1>2. TypeOK'
    <2>1. creates' \subseteq Calls
      BY <1>1 DEF Moved
    <2>. QED
      BY <1>0, <1>1, <2>1 DEF Inv, TypeOK, Shells, cache, view, history, idling
  <1>3. Marks' /\ Keys'
    BY <1>0 DEF Inv, Marks, ClosedIsOver, FrontIsBusy, Keys, KeysStayWithTheirShell,
                cache, view, idling
  <1>4. Sized'
    <2>1. pty' = NoPty \/ (pty'.gen = pty.gen /\ pty'.size = pty.size)
      BY <1>1
    <2>. QED
      BY <1>0, <2>1, SizedKeeps DEF cache, history
  <1>5. Wire'
    <2>1. UNCHANGED <<gen, spawned, byIdle, closed, events, shared, lost>> /\ (Live' <=> Live)
      BY <1>0 DEF cache, history, Live
    <2>2. \/ pty'.gen = None /\ tasks' \subseteq tasks
          \/ pty'.gen = pty.gen /\ tasks' = tasks
      BY <1>1, Types DEF Inv
    <2>3. \/ pty'.gen = pty.gen \/ lost' \/ ~spawned \/ shared
          \/ \E d \in creates : Waits(d) /\ d.gen = gen
      BY <1>1 DEF Inv, Wire, Alone
    <2>. QED
      BY <1>1, <2>1, <2>2, <2>3, WireKeeps
  <1>. QED
    BY <1>2, <1>3, <1>4, <1>5 DEF Inv

\* A session is entered, its shell runs and is ready.
LEMMA PublishedKeeps ==
    ASSUME Inv, NEW c \in creates, Published(c)
    PROVE  Inv'
  <1>. DEFINE n == Len(events)
              e == [kind |-> "ready", gen |-> c.gen]
              d == [c EXCEPT !.at = "published"]
  <1>0. /\ c \in Calls /\ c.gen \in Gens /\ c.gen \in Nat /\ c.gen # 0 /\ c.gen <= gen
        /\ gen \in Nat /\ Waits(c) /\ ~Born(c.gen) /\ (Live => c.gen # gen)
        /\ e \in Event /\ e.kind = "ready" /\ e.gen = c.gen
        /\ d \in Calls /\ d.gen = c.gen /\ ~Waits(d)
    <2>1. c \in Calls /\ c.gen \in Gens /\ c.gen \in Nat /\ c.gen # 0 /\ gen \in Nat
      BY Types DEF Inv, Calls
    <2>2. Waits(c)
      BY DEF Published, Waits
    <2>3. c.gen <= gen /\ ~Born(c.gen) /\ (Live => c.gen # gen)
      BY <2>2 DEF Inv, Wire, Once
    <2>4. e \in Event /\ e.kind = "ready" /\ e.gen = c.gen
      BY <2>1 DEF Event
    <2>5. d \in Calls /\ d.gen = c.gen /\ ~Waits(d)
      BY <2>1 DEF Calls, Waits
    <2>. QED
      BY <2>1, <2>2, <2>3, <2>4, <2>5
  <1>1. /\ events' \in Seq(Event) /\ n \in Nat /\ Len(events') = n + 1
        /\ \A i \in 1 .. n : events'[i] = events[i]
        /\ events'[n + 1] = e
    <2>1. events' = Append(events, e)
      BY DEF Published
    <2>. QED
      BY <1>0, <2>1, Types, AppendFacts DEF Inv
  <1>2. /\ creates' = (creates \ {c}) \cup {d} /\ tasks' = tasks \cup {c.gen}
        /\ pty'.gen = c.gen /\ pty' \in Shells
        /\ UNCHANGED <<cache, view, session, lost, history, term, idling>>
    <2>1. /\ creates' = (creates \ {c}) \cup {d} /\ tasks' = tasks \cup {c.gen}
          /\ pty' = [gen |-> c.gen, size |-> c.size, task |-> None]
          /\ UNCHANGED <<cache, view, session, lost, history, term, idling>>
      BY DEF Published, Step
    <2>2. c.size \in Sizes /\ None \in 0..MaxGen
      BY <1>0, PtyAssumption DEF Calls, None
    <2>. QED
      BY <1>0, <2>1, <2>2 DEF Shells
  <1>. HIDE DEF e, d
  <1>a. \A i \in 1 .. Len(events') :
          (i \in 1 .. n /\ events'[i] = events[i]) \/ (i = n + 1 /\ events'[i] = e)
    BY <1>1
  <1>b. /\ UNCHANGED <<gen, spawned, starting, byIdle, closed, lost, shared>>
        /\ Live' <=> Live
    BY <1>2 DEF cache, history, Live
  <1>c. /\ \A b \in creates' : (b \in creates /\ b.gen # c.gen) \/ b = d
        /\ \A b \in creates : b = c \/ b.gen # c.gen
    BY <1>2 DEF Inv, Wire, Once
  <1>3. TypeOK'
    <2>1. creates' \subseteq Calls /\ tasks' \subseteq Gens
      BY <1>0, <1>2, Types DEF Inv
    <2>. QED
      BY <1>1, <1>2, <2>1 DEF Inv, TypeOK, Event, Shells, cache, view, history, idling
  <1>4. Marks' /\ Keys'
    BY <1>2 DEF Inv, Marks, ClosedIsOver, FrontIsBusy, Keys, KeysStayWithTheirShell,
                cache, view, idling
  <1>5. Sized'
    BY <1>0, <1>2 DEF Inv, Sized, Live, LiveShellsFit, cache, history
  <1>6. Once'
    <2>1. \A g \in Nat : g # c.gen /\ Born(g)' => Born(g) \/ g = c.gen
      BY <1>0, <1>2, <1>a DEF Born
    <2>2. \A a, b \in creates' : a.gen = b.gen => a = b
      BY <1>0, <1>c DEF Inv, Wire, Once
    <2>3. ASSUME NEW b \in creates'
          PROVE  b.gen <= gen /\ (Waits(b) => ~Born(b.gen)' /\ (Live => b.gen # gen))
      <3>1. CASE b \in creates /\ b.gen # c.gen
        <4>1. b.gen \in Nat /\ b.gen <= gen /\ (Waits(b) => ~Born(b.gen) /\ (Live => b.gen # gen))
          BY <3>1, Types DEF Inv, Wire, Once
        <4>. QED
          BY <2>1, <3>1, <4>1
      <3>2. CASE b = d
        BY <1>0, <3>2
      <3>. QED
        BY <1>c, <3>1, <3>2
    <2>4. /\ pty'.gen <= gen /\ \A g \in tasks' : g <= gen
          /\ \A i \in 1 .. Len(events') : events'[i].gen <= gen
          /\ pty'.gen # None => pty'.gen \in tasks'
      BY <1>0, <1>2, <1>a DEF Inv, Wire, Once
    <2>. QED
      BY <1>b, <2>2, <2>3, <2>4 DEF Once
  <1>7. Stopped'
    BY <1>0, <1>a, <1>b, <1>c DEF Inv, Wire, Stopped, IsReady
  <1>8. Alone'
    BY <1>0, <1>2, <1>b, <1>c DEF Inv, Wire, Alone
  <1>9. Idling'
    <2> SUFFICES ASSUME byIdle PROVE Idling'
      BY <1>b DEF Idling
    <2>1. /\ IF spawned THEN gen > 1 /\ ~Seen(gen - 1) ELSE gen > 0 /\ ~Seen(gen)
          /\ gen \in tasks => \E i \in 1 .. n : IsReady(i, gen)
          /\ \A j \in 1 .. n : IsExit(j, gen) => \E i \in 1 .. (j - 1) : IsReady(i, gen)
      BY DEF Inv, Wire, Idling
    <2>2. IF spawned THEN ~Seen(gen - 1)' ELSE ~Seen(gen)'
      <3>1. ASSUME NEW g \in Nat, ~Seen(g)
            PROVE  /\ pty'.gen # g /\ g \notin tasks' /\ \A b \in creates' : b.gen # g
                   /\ \A i \in 1 .. Len(events') : events'[i].gen # g
        BY <1>0, <1>2, <1>a, <1>c, <3>1 DEF Seen, Born
      <3>2. gen - 1 \in Nat \/ ~spawned
        BY <1>0, <2>1
      <3>3. gen' = gen
        BY <1>b
      <3>4. CASE spawned
        <4>1. /\ pty'.gen # gen - 1 /\ gen - 1 \notin tasks' /\ \A b \in creates' : b.gen # gen - 1
              /\ \A i \in 1 .. Len(events') : events'[i].gen # gen - 1
          BY <2>1, <3>1, <3>2, <3>4
        <4>. QED
          BY <3>3, <3>4, <4>1 DEF Seen, Born
      <3>5. CASE ~spawned
        <4>1. /\ pty'.gen # gen /\ gen \notin tasks' /\ \A b \in creates' : b.gen # gen
              /\ \A i \in 1 .. Len(events') : events'[i].gen # gen
          BY <1>0, <2>1, <3>1, <3>5
        <4>. QED
          BY <3>3, <3>5, <4>1 DEF Seen, Born
      <3>. QED
        BY <3>4, <3>5
    <2>3. ASSUME gen \in tasks'
          PROVE  \E i \in 1 .. Len(events') : IsReady(i, gen)'
      <3>1. CASE c.gen = gen
        <4>1. events'[n + 1].kind = "ready" /\ events'[n + 1].gen = gen /\ n + 1 \in 1 .. Len(events')
          BY <1>0, <1>1, <3>1
        <4>. QED
          BY <1>b, <4>1 DEF IsReady
      <3>2. CASE gen \in tasks
        <4>1. PICK i \in 1 .. n : IsReady(i, gen)
          BY <2>1, <3>2
        <4>. QED
          BY <1>1, <1>b, <4>1 DEF IsReady
      <3>. QED
        BY <1>2, <2>3, <3>1, <3>2
    <2>4. ASSUME NEW j \in 1 .. Len(events'), IsExit(j, gen)'
          PROVE  \E i \in 1 .. (j - 1) : IsReady(i, gen)'
      <3>1. j \in 1 .. n /\ IsExit(j, gen)
        BY <1>0, <1>a, <1>b, <2>4 DEF IsExit
      <3>2. PICK i \in 1 .. (j - 1) : IsReady(i, gen)
        BY <2>1, <3>1
      <3>3. i \in 1 .. n
        BY <1>1, <3>1
      <3>. QED
        BY <1>1, <1>b, <3>2, <3>3 DEF IsReady
    <2>. QED
      BY <1>b, <2>1, <2>2, <2>3, <2>4 DEF Idling
  <1>10. Running'
    <2> SUFFICES ASSUME ~closed, ~shared PROVE Running'
      BY <1>b DEF Running, LiveShellsRun
    <2>1. CASE spawned
      <3>1. c.gen = gen
        BY <2>1 DEF Inv, Wire, Alone
      <3>. QED
        BY <1>2, <1>b, <3>1 DEF Running, LiveShellsRun
    <2>2. CASE ~spawned
      <3>1. ~Live /\ \A i \in 1 .. Len(events') : ~IsReady(i, gen)'
        BY <1>b, <1>7, <2>2 DEF Stopped, Live
      <3>. QED
        BY <1>b, <3>1 DEF Running, LiveShellsRun, IsReady
    <2>. QED
      BY <2>1, <2>2
  <1>. QED
    BY <1>3, <1>4, <1>5, <1>6, <1>7, <1>8, <1>9, <1>10 DEF Inv, Wire

\* A create fails; the entry is stopped if it was of its generation.
LEMMA FailsKeeps ==
    ASSUME Inv, NEW c \in creates, CreateFails(c)
    PROVE  Inv'
  <1>. USE DEF view, manager, idling, history
  <1>0. /\ c.gen \in Nat /\ c.gen # 0 /\ gen \in Nat /\ Waits(c) /\ ~Born(c.gen)
        /\ (c.gen = gen => ~Live) /\ creates' = creates \ {c} /\ Moved(creates')
        /\ \A d \in creates' : d \in creates /\ d.gen # c.gen
        /\ UNCHANGED <<gen, byIdle, last, closed, view, session, manager, events, lost,
                       history, term, idling>>
    BY Types, MovedFacts DEF Inv, Wire, Once, CreateFails, Waits
  <1>1. /\ spawned' \in BOOLEAN /\ starting' \in BOOLEAN /\ blocked' \in BOOLEAN
        /\ (Live' <=> Live) /\ (spawned' => spawned)
        /\ ~spawned' /\ ~closed => ~spawned \/ c.gen = gen
        /\ pending' \subseteq pending \cup {None} /\ (~spawned' => pending' \subseteq {None})
    <2>1. CASE gen = c.gen /\ ~closed
      BY <1>0, <2>1, Types DEF Inv, Live, Unowned, CreateFails
    <2>2. CASE ~(gen = c.gen /\ ~closed)
      BY <2>2, Types DEF Inv, Live, Keys, CreateFails
    <2>. QED
      BY <2>1, <2>2
  <1>2. TypeOK'
    <2>1. pending' \subseteq 0..MaxGen
      BY <1>1, Types DEF Inv, TypeOK, None
    <2>2. creates' \subseteq Calls
      BY <1>0, Types DEF Inv
    <2>. QED
      BY <1>0, <1>1, <2>1, <2>2 DEF Inv, TypeOK
  <1>3. Marks'
    BY <1>0, <1>1 DEF Inv, Marks, ClosedIsOver, FrontIsBusy
  <1>4. Keys'
    BY <1>0, <1>1 DEF Inv, Keys, KeysStayWithTheirShell
  <1>5. Sized'
    BY <1>0, <1>1 DEF Inv, Sized, LiveShellsFit
  <1>6. CASE spawned' = spawned
    <2>1. Wire'
      BY <1>0, <1>1, <1>6, WireKeeps
    <2>. QED
      BY <1>2, <1>3, <1>4, <1>5, <2>1 DEF Inv
  <1>7. CASE spawned' # spawned
    <2>0. spawned /\ ~spawned' /\ c.gen = gen /\ ~closed /\ ~Live
      BY <1>0, <1>1, <1>7, Types DEF Inv, Marks, ClosedIsOver
    <2>a. /\ pty.gen # gen /\ gen \notin tasks /\ \A i \in 1 .. Len(events) : events[i].gen # gen
          /\ \A d \in creates' : d.gen # gen
      BY <1>0, <2>0 DEF Born
    <2>1. Once'
      BY <1>0, <1>1 DEF Inv, Wire, Once, Born
    <2>2. Stopped'
      BY <1>0, <2>a DEF Stopped, IsReady
    <2>3. Alone'
      BY <2>0 DEF Alone
    <2>4. Idling'
      BY <1>0, <2>0, <2>a DEF Inv, Wire, Idling, Seen, Born, IsExit, Sized
    <2>5. Running'
      BY <1>0, <1>1, <2>0, <2>a DEF Running, LiveShellsRun, IsReady
    <2>. QED
      BY <1>2, <1>3, <1>4, <1>5, <2>1, <2>2, <2>3, <2>4, <2>5 DEF Inv, Wire
  <1>. QED
    BY <1>6, <1>7

\* A shell ends by itself.
LEMMA ExitsKeeps ==
    ASSUME Inv, NEW g \in Gens, ShellExits(g)
    PROVE  Inv'
  <1>. DEFINE n == Len(events)
              e == [kind |-> "exit", gen |-> g]
  <1>0. /\ g \in tasks /\ tasks' = tasks \ {g} /\ pty' = NoPty /\ pty'.gen = 0 /\ None = 0
        /\ g \in Nat /\ g # 0 /\ g <= gen /\ gen \in Nat
        /\ e \in Event /\ e.kind = "exit" /\ e.gen = g
        /\ UNCHANGED <<cache, view, session, creates, lost, history, term, idling>>
        /\ \A d \in creates : d.gen \in Nat /\ d.gen # 0
        /\ \A h \in Nat : h # 0 /\ h \notin tasks => h # g
    BY Types DEF Inv, Wire, Once, Event, ShellExits
  <1>1. /\ events' \in Seq(Event) /\ n \in Nat /\ Len(events') = n + 1
        /\ \A i \in 1 .. n : events'[i] = events[i]
        /\ events'[n + 1] = e
    <2>1. events' = Append(events, e)
      BY DEF ShellExits
    <2>. QED
      BY <1>0, <2>1, Types, AppendFacts DEF Inv
  <1>. HIDE DEF e
  <1>a. \A i \in 1 .. Len(events') :
          (i \in 1 .. n /\ events'[i] = events[i]) \/ (i = n + 1 /\ events'[i] = e)
    BY <1>1
  <1>b. /\ UNCHANGED <<gen, spawned, starting, byIdle, closed, lost, shared, creates>>
        /\ Live' <=> Live
    BY <1>0 DEF cache, history, Live
  <1>2. TypeOK'
    BY <1>0, <1>1 DEF Inv, TypeOK, Event, cache, view, history, idling
  <1>3. Marks' /\ Keys'
    BY <1>0 DEF Inv, Marks, ClosedIsOver, FrontIsBusy, Keys, KeysStayWithTheirShell,
                cache, view, idling
  <1>4. Sized'
    BY <1>0, SizedKeeps DEF cache, history
  <1>5. Once'
    <2>1. \A h \in Nat : h # 0 /\ ~Born(h) => ~Born(h)'
      BY <1>0, <1>a DEF Born
    <2>. QED
      BY <1>0, <1>a, <1>b, <2>1 DEF Inv, Wire, Once
  <1>6. Stopped'
    BY <1>0, <1>a, <1>b DEF Inv, Wire, Stopped, IsReady
  <1>7. Alone'
    BY <1>0, <1>b DEF Inv, Wire, Alone
  <1>8. Idling'
    <2> SUFFICES ASSUME byIdle PROVE Idling'
      BY <1>b DEF Idling
    <2>1. /\ IF spawned THEN gen > 1 /\ ~Seen(gen - 1) ELSE gen > 0 /\ ~Seen(gen)
          /\ gen \in tasks => \E i \in 1 .. n : IsReady(i, gen)
          /\ \A j \in 1 .. n : IsExit(j, gen) => \E i \in 1 .. (j - 1) : IsReady(i, gen)
      BY DEF Inv, Wire, Idling
    <2>2. IF spawned THEN ~Seen(gen - 1)' ELSE ~Seen(gen)'
      <3>1. ASSUME NEW h \in Nat, h # 0, ~Seen(h)
            PROVE  /\ pty'.gen # h /\ h \notin tasks' /\ \A b \in creates' : b.gen # h
                   /\ \A i \in 1 .. Len(events') : events'[i].gen # h
        BY <1>0, <1>a, <1>b, <3>1 DEF Seen, Born
      <3>3. gen' = gen
        BY <1>b
      <3>4. CASE spawned
        <4>1. gen - 1 \in Nat /\ gen - 1 # 0
          BY <1>0, <2>1, <3>4
        <4>2. /\ pty'.gen # gen - 1 /\ gen - 1 \notin tasks' /\ \A b \in creates' : b.gen # gen - 1
              /\ \A i \in 1 .. Len(events') : events'[i].gen # gen - 1
          BY <2>1, <3>1, <3>4, <4>1
        <4>. QED
          BY <3>3, <3>4, <4>2 DEF Seen, Born
      <3>5. CASE ~spawned
        <4>1. /\ pty'.gen # gen /\ gen \notin tasks' /\ \A b \in creates' : b.gen # gen
              /\ \A i \in 1 .. Len(events') : events'[i].gen # gen
          BY <1>0, <2>1, <3>1, <3>5
        <4>. QED
          BY <3>3, <3>5, <4>1 DEF Seen, Born
      <3>. QED
        BY <3>4, <3>5
    <2>3. ASSUME gen \in tasks
          PROVE  \E i \in 1 .. n : IsReady(i, gen)'
      <3>1. PICK i \in 1 .. n : IsReady(i, gen)
        BY <2>1, <2>3
      <3>. QED
        BY <1>1, <1>b, <3>1 DEF IsReady
    <2>4. ASSUME NEW j \in 1 .. Len(events'), IsExit(j, gen)'
          PROVE  \E i \in 1 .. (j - 1) : IsReady(i, gen)'
      <3>1. CASE j \in 1 .. n
        <4>1. IsExit(j, gen)
          BY <1>1, <1>b, <2>4, <3>1 DEF IsExit
        <4>2. PICK i \in 1 .. (j - 1) : IsReady(i, gen)
          BY <2>1, <3>1, <4>1
        <4>3. i \in 1 .. n
          BY <1>1, <3>1
        <4>. QED
          BY <1>1, <1>b, <4>2, <4>3 DEF IsReady
      <3>2. CASE j = n + 1
        <4>1. g = gen
          BY <1>0, <1>1, <1>b, <2>4, <3>2 DEF IsExit
        <4>. QED
          BY <1>0, <1>1, <2>3, <3>2, <4>1
      <3>. QED
        BY <1>a, <3>1, <3>2
    <2>5. gen \in tasks' => \E i \in 1 .. Len(events') : IsReady(i, gen)'
      <3>1. tasks' \subseteq tasks /\ \A i \in 1 .. n : i \in 1 .. Len(events')
        BY <1>0, <1>1
      <3>. QED
        BY <2>3, <3>1
    <2>. QED
      BY <1>b, <2>1, <2>2, <2>4, <2>5 DEF Idling
  <1>9. Running'
    <2> SUFFICES ASSUME ~closed, ~shared, ~lost PROVE Running'
      BY <1>b DEF Running, LiveShellsRun
    <2>1. CASE spawned
      <3>1. g = gen /\ e = [kind |-> "exit", gen |-> gen]
        BY <1>0, <2>1 DEF Inv, Wire, Alone, e
      <3>2. Exiting(gen)'
        <4>1. n + 1 \in DOMAIN events'
          BY <1>1, LenProperties
        <4>. QED
          BY <1>1, <1>b, <3>1, <4>1 DEF Exiting
      <3>3. ASSUME NEW i \in 1 .. Len(events'), IsReady(i, gen)'
            PROVE  \E j \in i + 1 .. Len(events') : IsExit(j, gen)'
        <4>1. i \in 1 .. n
          BY <1>0, <1>a, <3>3 DEF IsReady
        <4>2. n + 1 \in i + 1 .. Len(events')
              /\ events'[n + 1].kind = "exit" /\ events'[n + 1].gen = gen
          BY <1>0, <1>1, <3>1, <4>1
        <4>. QED
          BY <1>b, <4>2 DEF IsExit
      <3>. QED
        BY <1>b, <3>2, <3>3 DEF Running, LiveShellsRun
    <2>2. CASE ~spawned
      <3>1. ~Live /\ \A i \in 1 .. Len(events') : ~IsReady(i, gen)'
        BY <1>b, <1>6, <2>2 DEF Stopped, Live
      <3>. QED
        BY <1>b, <3>1 DEF Running, LiveShellsRun, IsReady
    <2>. QED
      BY <2>1, <2>2
  <1>. QED
    BY <1>2, <1>3, <1>4, <1>5, <1>6, <1>7, <1>8, <1>9 DEF Inv, Wire

\* The connection drops: its shells are gone, and that is on its way.
LEMMA DropsKeeps ==
    ASSUME Inv, TransportDrops
    PROVE  Inv'
  <1>. USE DEF TransportDrops, cache, view, idling, history
  <1>1. Moved(creates') /\ creates' \subseteq Calls
    BY MovedFacts DEF Inv, Wire, Moved
  <1>2. pty' = NoPty
    BY Types DEF Inv, Wire, Once
  <1>3. Sized' /\ Wire'
    BY <1>1, <1>2, QuietKeeps
  <1>4. TypeOK'
    BY <1>1, <1>2 DEF Inv, TypeOK
  <1>5. Marks' /\ Keys'
    BY DEF Inv, Marks, ClosedIsOver, FrontIsBusy, Keys, KeysStayWithTheirShell
  <1>. QED
    BY <1>3, <1>4, <1>5 DEF Inv

-----------------------------------------------------------------------------
(* Events *)

\* The first event leaves, the others move up.
LEMMA PopFacts ==
    ASSUME TypeOK, events # <<>>, events' = Tail(events)
    PROVE  /\ events' \in Seq(Event) /\ Head(events) = events[1] /\ Len(events) \in Nat
           /\ Len(events') = Len(events) - 1 /\ Len(events') \in Nat /\ 1 \in 1 .. Len(events)
           /\ \A i \in 1 .. Len(events') : events'[i] = events[i + 1] /\ i + 1 \in 1 .. Len(events)
           /\ \A j \in 1 .. Len(events) : j # 1 => j - 1 \in 1 .. Len(events') /\ events'[j - 1] = events[j]
  <1>1. /\ events' \in Seq(Event) /\ Head(events) = events[1] /\ Len(events) \in Nat \ {0}
        /\ Len(events') = Len(events) - 1 /\ 1 \in 1 .. Len(events)
        /\ \A i \in 1 .. (Len(events) - 1) : events'[i] = events[i + 1] /\ i + 1 \in 1 .. Len(events)
    BY Types, TailFacts
  <1>2. \A j \in 1 .. Len(events) : j # 1 => j - 1 \in 1 .. (Len(events) - 1) /\ events'[j - 1] = events[j]
    BY <1>1
  <1>. QED
    BY <1>1, <1>2

\* What of the events of this generation is true of the rest, if the first one is not
\* of it.
LEMMA PopKeeps ==
    ASSUME Inv, events # <<>>, events' = Tail(events), closed \/ events[1].gen # gen,
           UNCHANGED <<gen, spawned, byIdle, last, closed, pty, tasks, creates, lost, shared,
                       term, drawn>>,
           starting' = starting \/ ~spawned
    PROVE  Sized' /\ Wire'
  <1>0. /\ Len(events) \in Nat /\ Len(events') = Len(events) - 1
        /\ \A i \in 1 .. Len(events') : events'[i] = events[i + 1] /\ i + 1 \in 1 .. Len(events)
        /\ \A j \in 1 .. Len(events) :
             j # 1 => j - 1 \in 1 .. Len(events') /\ events'[j - 1] = events[j]
        /\ Live' <=> Live
    BY PopFacts DEF Inv, Live
  <1>a. \A g \in Nat : Born(g)' => Born(g)
    BY <1>0 DEF Born
  <1>1. Sized'
    BY <1>0 DEF Inv, Sized, LiveShellsFit
  <1>2. Once'
    <2>1. \A c \in creates : c.gen \in Nat
      BY Types DEF Inv
    <2>. QED
      BY <1>0, <1>a, <2>1 DEF Inv, Wire, Once
  <1>3. Stopped' /\ Alone'
    BY <1>0 DEF Inv, Wire, Stopped, Alone, IsReady
  <1>4. Idling'
    <2> SUFFICES ASSUME byIdle PROVE Idling'
      BY DEF Idling
    <2>1. /\ IF spawned THEN gen > 1 /\ ~Seen(gen - 1) ELSE gen > 0 /\ ~Seen(gen)
          /\ gen \in tasks => \E i \in 1 .. Len(events) : IsReady(i, gen)
          /\ \A j \in 1 .. Len(events) :
               IsExit(j, gen) => \E i \in 1 .. (j - 1) : IsReady(i, gen)
      BY DEF Inv, Wire, Idling
    <2>2. events[1].gen # gen
      BY DEF Inv, Marks, ClosedIsOver
    <2>3. IF spawned THEN gen > 1 /\ ~Seen(gen - 1)' ELSE gen > 0 /\ ~Seen(gen)'
      BY <1>0, <2>1 DEF Seen, Born
    <2>4. ASSUME gen \in tasks
          PROVE  \E i \in 1 .. Len(events') : IsReady(i, gen)'
      <3>1. PICK i \in 1 .. Len(events) : IsReady(i, gen)
        BY <2>1, <2>4
      <3>2. i # 1
        BY <2>2, <3>1 DEF IsReady
      <3>3. i - 1 \in 1 .. Len(events') /\ events'[i - 1] = events[i]
        BY <1>0, <3>1, <3>2
      <3>4. IsReady(i - 1, gen)'
        BY <1>0, <3>1, <3>3 DEF IsReady
      <3>. QED
        BY <3>3, <3>4
    <2>5. ASSUME NEW j \in 1 .. Len(events'), IsExit(j, gen)'
          PROVE  \E i \in 1 .. (j - 1) : IsReady(i, gen)'
      <3>1. j + 1 \in 1 .. Len(events) /\ IsExit(j + 1, gen)
        BY <1>0, <2>5 DEF IsExit
      <3>2. PICK i \in 1 .. ((j + 1) - 1) : IsReady(i, gen)
        BY <2>1, <3>1
      <3>3. i # 1 /\ i \in 1 .. Len(events) /\ i - 1 \in 1 .. (j - 1)
        BY <1>0, <2>2, <3>1, <3>2 DEF IsReady
      <3>. QED
        BY <1>0, <3>2, <3>3 DEF IsReady
    <2>. QED
      BY <2>3, <2>4, <2>5 DEF Idling
  <1>5. Running'
    <2> SUFFICES ASSUME ~closed PROVE Running'
      BY DEF Running
    <2>1. LiveShellsRun'
      <3> SUFFICES ASSUME Live, Exiting(gen) PROVE Exiting(gen)'
        BY <1>0 DEF Inv, Wire, Running, LiveShellsRun
      <3>1. PICK i \in DOMAIN events : events[i] = [kind |-> "exit", gen |-> gen]
        BY DEF Exiting
      <3>2. i \in 1 .. Len(events) /\ i # 1
        BY <3>1, Types, LenProperties DEF Inv
      <3>3. i - 1 \in DOMAIN events'
        BY <1>0, <3>2, PopFacts, LenProperties DEF Inv
      <3>. QED
        BY <1>0, <3>1, <3>2, <3>3 DEF Exiting
    <2>2. ASSUME NEW i \in 1 .. Len(events'), IsReady(i, gen)'
          PROVE  \/ pty.gen = gen \/ lost \/ shared
                 \/ \E j \in i + 1 .. Len(events') : IsExit(j, gen)'
      <3>1. i + 1 \in 1 .. Len(events) /\ IsReady(i + 1, gen)
        BY <1>0, <2>2 DEF IsReady
      <3>2. \/ pty.gen = gen \/ lost \/ shared
            \/ \E j \in (i + 1) + 1 .. Len(events) : IsExit(j, gen)
        BY <3>1 DEF Inv, Wire, Running
      <3>3. ASSUME NEW j \in (i + 1) + 1 .. Len(events), IsExit(j, gen)
            PROVE  j - 1 \in i + 1 .. Len(events') /\ IsExit(j - 1, gen)'
        <4>1. j \in 1 .. Len(events) /\ j # 1
          BY <1>0, <3>1
        <4>. QED
          BY <1>0, <3>3, <4>1 DEF IsExit
      <3>. QED
        BY <3>2, <3>3
    <2>. QED
      BY <2>1, <2>2 DEF Running
  <1>. QED
    BY <1>1, <1>2, <1>3, <1>4, <1>5 DEF Wire

\* A shell is ready.
LEMMA ReadyKeeps ==
    ASSUME Inv, ReadyArrives
    PROVE  Inv'
  <1>. USE DEF ReadyArrives, view, idling
  <1>0. /\ events' \in Seq(Event) /\ Head(events) = events[1] /\ Len(events) \in Nat
        /\ Len(events') = Len(events) - 1 /\ 1 \in 1 .. Len(events)
        /\ \A i \in 1 .. Len(events') : events'[i] = events[i + 1] /\ i + 1 \in 1 .. Len(events)
        /\ \A j \in 1 .. Len(events) :
             j # 1 => j - 1 \in 1 .. Len(events') /\ events'[j - 1] = events[j]
    BY PopFacts DEF Inv
  <1>1. CASE ~(Head(events).gen = gen /\ ~closed)
    <2>. USE <1>1
    <2>1. Sized' /\ Wire'
      BY <1>0, PopKeeps
    <2>2. TypeOK'
      BY <1>0 DEF Inv, TypeOK, Event
    <2>3. Marks' /\ Keys'
      BY DEF Inv, Marks, ClosedIsOver, FrontIsBusy, Keys, KeysStayWithTheirShell
    <2>. QED
      BY <2>1, <2>2, <2>3 DEF Inv
  <1>2. CASE Head(events).gen = gen /\ ~closed
    <2>. USE <1>2
    <2>0. /\ events[1].gen = gen /\ events[1].kind = "ready" /\ gen > 0 /\ gen \in Nat
          /\ spawned' = TRUE /\ starting' = FALSE /\ byIdle' = FALSE /\ blocked' = FALSE
          /\ pending' = {} /\ drawn' = FALSE /\ closed' = FALSE
          /\ UNCHANGED <<gen, view, session, tasks, creates, lost, shared, idling>>
      BY <1>0, Types DEF Inv
    <2>a. PICK s \in IF mounted /\ front THEN Sizes ELSE {term} : term' = s /\ Resize(s)
      OBVIOUS
    <2>b. s \in Sizes
      BY <2>a, Types DEF Inv
    <2>c. spawned /\ (Live \/ last = None)
      <3>1. IsReady(1, gen)
        BY <2>0 DEF IsReady
      <3>. QED
        BY <1>0, <3>1, Types DEF Inv, Wire, Stopped, Sized, Live
    <2>1. /\ last' = s /\ pty' \in Shells \cup {NoPty} /\ pty'.gen = pty.gen
          /\ pty'.gen = gen => pty'.size = s
      BY <2>0, <2>a, <2>b, <2>c, TellFacts
    <2>2. TypeOK'
      BY <1>0, <2>0, <2>1, <2>a, <2>b DEF Inv, TypeOK, Event, Shells
    <2>3. Marks' /\ Keys'
      BY <2>0 DEF Inv, Marks, ClosedIsOver, FrontIsBusy, Keys, KeysStayWithTheirShell
    <2>4. Sized'
      BY <2>0, <2>1, <2>a, <2>b DEF Sized, Live, LiveShellsFit
    <2>5. Once'
      <3>1. \A g \in Nat : Born(g)' => Born(g)
        BY <1>0, <2>0, <2>1 DEF Born
      <3>2. \A c \in creates : c.gen \in Nat /\ (c.gen = gen => Born(c.gen))
        BY <1>0, <2>0, Types DEF Inv, Born
      <3>. QED
        BY <1>0, <2>0, <2>1, <3>1, <3>2 DEF Inv, Wire, Once
    <2>6. Stopped' /\ Idling'
      BY <2>0 DEF Stopped, Idling
    <2>7. Alone'
      BY <2>0, <2>c DEF Inv, Wire, Alone
    <2>8. Running'
      <3>1. ASSUME NEW i \in 1 .. Len(events), IsReady(i, gen)
            PROVE  \/ pty.gen = gen \/ lost \/ shared
                   \/ \E j \in i + 1 .. Len(events) : IsExit(j, gen)
        BY <3>1 DEF Inv, Wire, Running
      <3>2. ASSUME NEW i \in 1 .. Len(events), NEW j \in i + 1 .. Len(events), IsExit(j, gen)
            PROVE  /\ j - 1 \in i .. Len(events') /\ j - 1 \in 1 .. Len(events')
                   /\ events'[j - 1].kind = "exit" /\ events'[j - 1].gen = gen
        <4>1. j \in 1 .. Len(events) /\ j # 1
          BY <1>0
        <4>. QED
          BY <1>0, <3>2, <4>1 DEF IsExit
      <3>3. LiveShellsRun'
        <4>1. \/ pty.gen = gen \/ lost \/ shared
              \/ \E j \in 1 + 1 .. Len(events) : IsExit(j, gen)
          BY <1>0, <2>0, <3>1 DEF IsReady
        <4>2. ASSUME NEW j \in 1 + 1 .. Len(events), IsExit(j, gen)
              PROVE  Exiting(gen)'
          <5>1. /\ j - 1 \in 1 .. Len(events')
                /\ events'[j - 1].kind = "exit" /\ events'[j - 1].gen = gen
            BY <1>0, <3>2, <4>2
          <5>2. j - 1 \in DOMAIN events' /\ events'[j - 1] \in Event
            BY <1>0, <5>1, LenProperties, ElementOfSeq
          <5>3. events'[j - 1] = [kind |-> "exit", gen |-> gen]
            BY <5>1, <5>2 DEF Event
          <5>. QED
            BY <2>0, <5>2, <5>3 DEF Exiting
        <4>. QED
          BY <2>0, <2>1, <4>1, <4>2 DEF LiveShellsRun
      <3>4. ASSUME NEW i \in 1 .. Len(events'), IsReady(i, gen)'
            PROVE  \/ pty.gen = gen \/ lost \/ shared
                   \/ \E j \in i + 1 .. Len(events') : IsExit(j, gen)'
        <4>1. i + 1 \in 1 .. Len(events) /\ IsReady(i + 1, gen)
          BY <1>0, <2>0, <3>4 DEF IsReady
        <4>2. \/ pty.gen = gen \/ lost \/ shared
              \/ \E j \in (i + 1) + 1 .. Len(events) : IsExit(j, gen)
          BY <3>1, <4>1
        <4>. QED
          BY <2>0, <3>2, <4>1, <4>2 DEF IsExit
      <3>. QED
        BY <2>0, <2>1, <3>3, <3>4 DEF Running
    <2>. QED
      BY <2>2, <2>3, <2>4, <2>5, <2>6, <2>7, <2>8 DEF Inv, Wire
  <1>. QED
    BY <1>1, <1>2

\* A shell has ended: its tab is closed, unless it idles, and then it is not started.
LEMMA ExitKeeps ==
    ASSUME Inv, ExitArrives
    PROVE  Inv'
  <1>. USE DEF ExitArrives, idling, history
  <1>0. /\ events' \in Seq(Event) /\ Head(events) = events[1] /\ 1 \in 1 .. Len(events)
        /\ \A i \in 1 .. Len(events') : events'[i] = events[i + 1] /\ i + 1 \in 1 .. Len(events)
        /\ Len(events') \in Nat /\ gen \in Nat /\ events[1].gen \in Nat /\ events[1].kind = "exit"
    BY PopFacts, Types DEF Inv
  <1>1. CASE ~closed /\ ExitMatches(Head(events).gen) /\ ~byIdle
    <2>. USE <1>1
    <2>1. Keys' /\ Sized' /\ Wire'
      BY <1>0, DeleteKeeps
    <2>2. TypeOK'
      BY <1>0 DEF Inv, TypeOK, Delete, Kill, AfterKill, Event
    <2>3. Marks'
      BY DEF Inv, Marks, ClosedIsOver, FrontIsBusy, Delete
    <2>. QED
      BY <2>1, <2>2, <2>3 DEF Inv
  <1>2. CASE ~closed /\ ExitMatches(Head(events).gen) /\ byIdle
    <2>. USE <1>2 DEF manager
    <2>1. Idling
      BY DEF Inv, Wire
    <2>2. IsExit(1, events[1].gen)
      BY <1>0 DEF IsExit
    <2>3. events[1].gen # gen
      BY <1>0, <2>1, <2>2 DEF Idling
    <2>4. ~spawned
      BY <1>0, <2>1, <2>3 DEF Idling, Seen, Born, ExitMatches
    <2>5. last = None
      BY <2>4 DEF Inv, Sized, Live
    <2>6. Sized' /\ Wire'
      <3>1. /\ events # <<>> /\ events' = Tail(events) /\ events[1].gen # gen
            /\ UNCHANGED <<gen, byIdle, closed, pty, tasks, creates, lost, shared, term, drawn>>
        BY <2>3
      <3>2. spawned' = spawned
        BY <2>4, <1>0, Types DEF Inv
      <3>3. last' = last
        BY <2>5
      <3>4. starting' = starting \/ ~spawned
        BY <2>4
      <3>. QED
        BY ONLY Inv, <3>1, <3>2, <3>3, <3>4, PopKeeps
    <2>7. TypeOK'
      BY <1>0 DEF Inv, TypeOK, Event
    <2>8. Marks' /\ Keys'
      BY DEF Inv, Marks, ClosedIsOver, FrontIsBusy, Keys, KeysStayWithTheirShell
    <2>. QED
      BY <2>6, <2>7, <2>8 DEF Inv
  <1>3. CASE closed \/ ~ExitMatches(Head(events).gen)
    <2>. USE <1>3 DEF manager
    <2>1. closed \/ events[1].gen # gen
      BY <1>0 DEF ExitMatches
    <2>2. Sized' /\ Wire'
      BY <2>1, PopKeeps
    <2>3. TypeOK'
      BY <1>0 DEF Inv, TypeOK, Event
    <2>4. Marks' /\ Keys'
      BY DEF Inv, Marks, ClosedIsOver, FrontIsBusy, Keys, KeysStayWithTheirShell
    <2>. QED
      BY <2>2, <2>3, <2>4 DEF Inv
  <1>. QED
    BY <1>1, <1>2, <1>3

-----------------------------------------------------------------------------
(* The theorems *)

\* Nothing was started yet.
LEMMA InitInv == Init => Inv
  <1> SUFFICES ASSUME Init PROVE Inv
    OBVIOUS
  <1>. USE DEF Init
  <1>0. Len(events) = 0 /\ events \in Seq(Event)
    BY EmptySeq
  <1>1. TypeOK
    <2>1. gen \in 0 .. MaxGen /\ pending \subseteq 0 .. MaxGen
      BY PtyAssumption
    <2>2. /\ {spawned, starting, byIdle, blocked, closed} \subseteq BOOLEAN
          /\ {waking, mounted, front} \subseteq BOOLEAN /\ {shared, drawn} \subseteq BOOLEAN
          /\ lost \in BOOLEAN /\ {job, probing, active} \subseteq BOOLEAN
      OBVIOUS
    <2>3. /\ last \in Sizes \cup {None} /\ host \in {"down", "up", "leaving"}
          /\ session \in {"gone", "dead", "alive"} /\ pty \in Shells \cup {NoPty}
          /\ tasks \subseteq Gens /\ creates \subseteq Calls /\ term \in Sizes
      OBVIOUS
    <2>. QED
      BY ONLY <1>0, <2>1, <2>2, <2>3 DEF TypeOK, Event, Shells
  <1>2. Marks /\ Keys
    BY DEF Marks, ClosedIsOver, FrontIsBusy, Keys, KeysStayWithTheirShell
  <1>3. Sized
    BY DEF Sized, Live, LiveShellsFit
  <1>4. Once
    BY <1>0 DEF Once, NoPty, None
  <1>5. Stopped /\ Alone /\ Idling
    BY <1>0 DEF Stopped, Alone, Idling, Live
  <1>6. Running
    BY <1>0 DEF Running, LiveShellsRun, Live
  <1>. QED
    BY <1>1, <1>2, <1>3, <1>4, <1>5, <1>6 DEF Inv, Wire

\* No step leads out of the invariant.
LEMMA NextInv == Inv /\ [Next]_vars => Inv'
  <1> SUFFICES ASSUME Inv, [Next]_vars PROVE Inv'
    OBVIOUS
  <1>1. CASE Tab \/ Host
    BY <1>1, MountKeeps, ShowKeeps, ElsewhereKeeps, WakeKeeps, LostKeeps, LeftKeeps DEF Tab, Host
  <1>2. CASE User
    BY <1>2, CloseKeeps, TypeKeeps, EnterKeeps, FitKeeps, DrawKeeps DEF User
  <1>3. CASE Backend
    BY <1>3, CallsKeep, PublishedKeeps, FailsKeeps, ExitsKeeps, DropsKeeps, ElsewhereKeeps
       DEF Backend, Create
  <1>4. CASE Events \/ Idle
    BY <1>4, ReadyKeeps, ExitKeeps, ElsewhereKeeps, ProbeKeeps DEF Events, Idle
  <1>5. CASE UNCHANGED vars
    <2>. USE <1>5 DEF vars, cache, view, backend, manager, history, idling
    <2>1. TypeOK'
      BY DEF Inv, TypeOK
    <2>2. Marks' /\ Keys'
      BY DEF Inv, Marks, ClosedIsOver, FrontIsBusy, Keys, KeysStayWithTheirShell
    <2>3. Sized' /\ Wire'
      BY QuietKeeps, MovedFacts DEF Inv, Wire
    <2>. QED
      BY <2>1, <2>2, <2>3 DEF Inv
  <1>. QED
    BY <1>1, <1>2, <1>3, <1>4, <1>5 DEF Next

\* The invariant holds in every state of every behaviour of the model.
THEOREM PtyInv == Spec => []Inv
  BY InitInv, NextInv, PTL DEF Spec

\* Every variable has its type.
THEOREM TypesHold == Spec => []TypeOK
  <1>1. Inv => TypeOK
    BY DEF Inv
  <1>. QED
    BY <1>1, PtyInv, PTL

\* A shell that the tab shows as running has its process, or the news of its end are
\* on their way, in whatever order creates take effect, unless it was asked for while an
\* earlier one was not done with (pty.rs, where a create ends the session there is;
\* terminalLifecycleListeners.ts, the generations it compares).
THEOREM LiveShellsAreThere == Spec => []LiveShellsRun
  <1>1. Inv => LiveShellsRun
    BY DEF Inv, Wire, Running, Marks, ClosedIsOver, LiveShellsRun, Live
  <1>. QED
    BY <1>1, PtyInv, PTL

\* The process of a running shell has the size the backend was told last, the one of
\* the terminal unless that was fitted alone since, in whatever order creates take
\* effect (terminalResizeSync.ts, useTerminalLifecycle.ts).
THEOREM SizesReachTheShell == Spec => []LiveShellsFit
  <1>1. Inv => LiveShellsFit
    BY DEF Inv, Sized
  <1>. QED
    BY <1>1, PtyInv, PTL

\* Buffered keys are only sent to the shell they were typed to (inputPipeline.ts).
THEOREM KeysAreNotMisdirected == Spec => []KeysStayWithTheirShell
  <1>1. Inv => KeysStayWithTheirShell
    BY DEF Inv, Keys
  <1>. QED
    BY <1>1, PtyInv, PTL

\* The idle timer never suspends a shell of the host the user works with
\* (terminalIdlePty.ts, the job that goes when its host comes to the front).
THEOREM IdleSparesTheFront == Spec => ForegroundShellsStay
  <1>1. Inv /\ [Next]_vars => [byIdle' /\ ~byIdle => ~front]_vars
    <2> SUFFICES ASSUME Inv, Next, byIdle', ~byIdle PROVE ~front
      OBVIOUS
    <2>1. ProbeAnswers
      BY DEF Next, Tab, Host, User, Backend, Create, Events, Idle, Mount, Show, Hide, Connect,
             Wake, Disconnect, Lost, Left, CloseTab, Type, Flush, Enter, Fit, Draw, Fitted,
             ChannelOpens, StaleCloses, Published, Answered, CreateFails, ShellExits,
             TransportDrops, Output, ReadyArrives, ExitArrives, IdleAttempt, Suspend, Delete,
             cache
    <2>. QED
      BY <2>1 DEF ProbeAnswers, Inv, Marks, FrontIsBusy
  <1>. QED
    BY <1>1, PtyInv, PTL DEF Spec, ForegroundShellsStay

=============================================================================
