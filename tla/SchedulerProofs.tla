-------------------------- MODULE SchedulerProofs --------------------------
(***************************************************************************)
(* Theorems of module Scheduler, for a heap of any size and any set of     *)
(* priorities: a task may be added in front of, behind and far behind the  *)
(* one whose callback runs.                                                *)
(***************************************************************************)
EXTENDS Scheduler, TLAPS

-----------------------------------------------------------------------------
(* The inductive invariant, in parts.                                      *)

\* The way along the links from x does not go round: every non-empty set of nodes on it
\* has a link that leaves the set.
Acyclic(link, x) ==
  \A S \in SUBSET Reach(link, x) : S # {} => \E m \in S : link[m] \notin S

\* The list is a line through memory that malloc has handed out.
ListSound == pc # "move" => Queued \subseteq live /\ Acyclic(next, head)

\* So is what lies behind the local next of scheduler_process, and the node that
\* is freed is not part of it.
SavedSound ==
  /\ pc = "call" => head # NULL /\ saved = next[head]
  /\ pc \in {"callback", "free", "move"} =>
       Reach(next, saved) \subseteq live /\ Acyclic(next, saved)
  /\ pc \in {"callback", "free"} => head # NULL /\ head \notin Reach(next, saved)

\* Outside scheduler_process the head is one of the most urgent tasks.
HeadUrgent == pc = "idle" => \A n \in Queued : priority[head] <= priority[n]

\* As long as callbacks add no tasks, the tasks that wait, the nodes on the list
\* and the memory in use are the same, but for the node in hand.
Drains ==
  ~reentered =>
    /\ pc \in {"idle", "test", "call"} => live = Queued /\ pending = Queued
    /\ pc \in {"callback", "free"} =>
         saved = next[head] /\ live = Queued /\ pending = Queued \ {head}
    /\ pc = "move" => /\ live = Reach(next, saved) /\ pending = live

SchedulerInv == TypeOK /\ ListSound /\ SavedSound /\ HeadUrgent /\ Drains

-----------------------------------------------------------------------------
(* What can be reached along links.                                        *)

Links == [Nodes -> Linked]

LEMMA NodesAreNotNull == Nodes \subseteq Linked /\ NULL \in Linked /\ NULL \notin Nodes
BY SchedulerAssumption DEF Nodes, Linked, NULL

\* What is reached is closed under links, and is no more than any closed set.
LEMMA ReachIsClosed ==
  ASSUME NEW link \in Links, NEW x \in Linked
  PROVE  Reach(link, x) \subseteq Nodes /\ Closed(link, Reach(link, x), x)
<1>1. x # NULL => x \in Reach(link, x)
  BY DEF Reach, Closed, Linked
<1>2. ASSUME NEW n \in Reach(link, x), link[n] # NULL
      PROVE  link[n] \in Reach(link, x)
  BY <1>2 DEF Reach, Closed, Links, Linked
<1>3. QED
  BY <1>1, <1>2 DEF Closed, Reach

LEMMA ReachIsLeast ==
  ASSUME NEW link, NEW x, NEW S \in SUBSET Nodes, Closed(link, S, x)
  PROVE  Reach(link, x) \subseteq S
BY DEF Reach

LEMMA ReachOfNull ==
  ASSUME NEW link
  PROVE  Reach(link, NULL) = {}
<1>1. Closed(link, {}, NULL)
  BY DEF Closed
<1>2. QED
  BY <1>1, ReachIsLeast

\* A node is followed by what its link leads to.
LEMMA ReachStep ==
  ASSUME NEW link \in Links, NEW x \in Nodes
  PROVE  Reach(link, x) = {x} \cup Reach(link, link[x])
<1>1. x \in Linked /\ x # NULL /\ link[x] \in Linked
  BY NodesAreNotNull DEF Links
<1>2. /\ Reach(link, x) \subseteq Nodes /\ Closed(link, Reach(link, x), x)
      /\ Reach(link, link[x]) \subseteq Nodes
      /\ Closed(link, Reach(link, link[x]), link[x])
  BY <1>1, ReachIsClosed
<1>3. Closed(link, {x} \cup Reach(link, link[x]), x)
  BY <1>2 DEF Closed
<1>4. Closed(link, Reach(link, x), link[x])
  BY <1>1, <1>2 DEF Closed
<1>5. Reach(link, x) \subseteq {x} \cup Reach(link, link[x])
  BY <1>2, <1>3, ReachIsLeast
<1>6. Reach(link, link[x]) \subseteq Reach(link, x)
  BY <1>2, <1>4, ReachIsLeast
<1>7. QED
  BY <1>1, <1>2, <1>5, <1>6 DEF Closed

\* What is reached from a node that is reached is reached.
LEMMA ReachGoesOn ==
  ASSUME NEW link \in Links, NEW x \in Linked, NEW y \in Reach(link, x)
  PROVE  Reach(link, y) \subseteq Reach(link, x)
<1>1. Reach(link, x) \subseteq Nodes /\ Closed(link, Reach(link, x), y)
  BY ReachIsClosed DEF Closed
<1>2. QED
  BY <1>1, ReachIsLeast

\* Links of nodes that are not reached do not matter.
LEMMA ReachSame ==
  ASSUME NEW link \in Links, NEW new \in Links, NEW x \in Linked,
         \A m \in Reach(link, x) : new[m] = link[m]
  PROVE  /\ Reach(new, x) = Reach(link, x)
         /\ Acyclic(link, x) => Acyclic(new, x)
<1>1. Reach(link, x) \subseteq Nodes /\ Closed(link, Reach(link, x), x)
  BY ReachIsClosed
<1>2. Reach(new, x) \subseteq Nodes /\ Closed(new, Reach(new, x), x)
  BY ReachIsClosed
<1>3. Closed(new, Reach(link, x), x)
  BY <1>1 DEF Closed
<1>4. Reach(new, x) \subseteq Reach(link, x)
  BY <1>1, <1>3, ReachIsLeast
<1>5. Closed(link, Reach(new, x), x)
  BY <1>2, <1>4 DEF Closed
<1>6. Reach(link, x) \subseteq Reach(new, x)
  BY <1>2, <1>5, ReachIsLeast
<1>7. Reach(new, x) = Reach(link, x)
  BY <1>4, <1>6
<1>8. ASSUME Acyclic(link, x) PROVE Acyclic(new, x)
  BY <1>7, <1>8 DEF Acyclic
<1>9. QED
  BY <1>7, <1>8

\* A node of a line is not reached from its own link.
LEMMA AcyclicStep ==
  ASSUME NEW link \in Links, NEW x \in Nodes, Acyclic(link, x)
  PROVE  x \notin Reach(link, link[x]) /\ Acyclic(link, link[x])
<1> DEFINE Back == {m \in Reach(link, x) : x \in Reach(link, m)}
<1>1. x \in Linked /\ link[x] \in Linked /\ Reach(link, x) \subseteq Nodes
  BY NodesAreNotNull, ReachIsClosed DEF Links
<1>2. Reach(link, x) = {x} \cup Reach(link, link[x])
  BY ReachStep
<1>3. ASSUME x \in Reach(link, link[x]) PROVE FALSE
  <2>1. x \in Back
    BY <1>2
  <2>2. ASSUME NEW m \in Back PROVE link[m] \in Back
    <3>1. m \in Nodes /\ link[m] \in Linked /\ x \in Reach(link, m)
      BY <1>1 DEF Links
    <3>2. x \in Reach(link, link[m])
      BY <1>3, <3>1, ReachStep
    <3>3. link[m] # NULL
      BY <3>2, ReachOfNull
    <3>4. link[m] \in Reach(link, x)
      BY <1>1, <3>3, ReachIsClosed DEF Closed
    <3>5. QED
      BY <3>2, <3>4
  <2>3. \E m \in Back : link[m] \notin Back
    BY <2>1 DEF Acyclic
  <2>4. QED
    BY <2>2, <2>3
<1>4. Acyclic(link, link[x])
  BY <1>2 DEF Acyclic
<1>5. QED
  BY <1>3, <1>4

\* A fresh node in front of a line makes a line.
LEMMA InsertFront ==
  ASSUME NEW link \in Links, NEW h \in Linked, NEW n \in Nodes, n \notin Reach(link, h),
         Acyclic(link, h), NEW new, new = [link EXCEPT ![n] = h]
  PROVE  /\ new \in Links
         /\ Reach(new, n) = {n} \cup Reach(link, h)
         /\ Acyclic(new, n)
<1>1. new \in Links /\ new[n] = h
  BY DEF Links
<1>2. \A m \in Reach(link, h) : new[m] = link[m]
  BY ReachIsClosed DEF Links
<1>3. Reach(new, h) = Reach(link, h) /\ Acyclic(new, h)
  BY <1>1, <1>2, ReachSame
<1>4. Reach(new, n) = {n} \cup Reach(link, h)
  <2>1. Reach(new, n) = {n} \cup Reach(new, new[n])
    BY <1>1, ReachStep
  <2>2. QED
    BY <1>1, <1>3, <2>1
<1>5. ASSUME NEW S \in SUBSET Reach(new, n), S # {}
      PROVE  \E m \in S : new[m] \notin S
  <2>1. CASE S \ {n} = {}
    <3>1. n \in S /\ h # n
      BY <1>1, <1>4, <1>5, <2>1, ReachIsClosed, NodesAreNotNull DEF Closed
    <3>2. QED
      BY <1>1, <2>1, <3>1
  <2>2. CASE S \ {n} # {}
    <3>1. S \ {n} \in SUBSET Reach(new, h)
      BY <1>3, <1>4
    <3>2. PICK m \in S \ {n} : new[m] \notin S \ {n}
      BY <1>3, <2>2, <3>1 DEF Acyclic
    <3>3. m \in Nodes /\ new[m] \in Linked
      BY <1>1, <1>3, <3>1, ReachIsClosed DEF Links
    <3>4. new[m] # NULL => new[m] \in Reach(new, h)
      BY <1>1, <1>3, <3>1, ReachIsClosed DEF Closed
    <3>5. new[m] # n
      BY <1>3, <3>4, NodesAreNotNull
    <3>6. QED
      BY <3>2, <3>5
  <2>3. QED
    BY <2>1, <2>2
<1>6. QED
  BY <1>1, <1>4, <1>5 DEF Acyclic

\* A fresh node behind node s of a line makes a line.
LEMMA InsertAfter ==
  ASSUME NEW link \in Links, NEW x \in Linked, NEW n \in Nodes, n \notin Reach(link, x),
         Acyclic(link, x), NEW s \in Reach(link, x),
         NEW new \in Links, new[n] = link[s], new[s] = n,
         \A m \in Reach(link, x) : m # s => new[m] = link[m]
  PROVE  /\ Reach(new, x) = Reach(link, x) \cup {n}
         /\ Acyclic(new, x)
<1> DEFINE Old == Reach(link, x)
<1>1. /\ Old \subseteq Nodes /\ Closed(link, Old, x) /\ s \in Nodes /\ s # n
      /\ n \in Linked /\ link[s] \in Linked
  BY ReachIsClosed, NodesAreNotNull DEF Links
<1>2. /\ new \in Links /\ new[s] = n /\ new[n] = link[s]
      /\ \A m \in Old : m # s => new[m] = link[m]
  OBVIOUS
<1>3. Reach(new, x) \subseteq Nodes /\ Closed(new, Reach(new, x), x)
  BY <1>2, ReachIsClosed
<1>4. Closed(new, Old \cup {n}, x)
  BY <1>1, <1>2 DEF Closed
<1>5. Reach(new, x) \subseteq Old \cup {n}
  BY <1>1, <1>4, ReachIsLeast
<1>6. Closed(link, Reach(new, x) \cap Old, x)
  <2>1. x # NULL => x \in Reach(new, x) \cap Old
    BY <1>1, <1>3 DEF Closed
  <2>2. ASSUME NEW m \in Reach(new, x) \cap Old, link[m] # NULL
        PROVE  link[m] \in Reach(new, x) \cap Old
    <3>1. link[m] \in Old
      BY <1>1, <2>2 DEF Closed
    <3>2. CASE m # s
      BY <1>2, <1>3, <2>2, <3>1, <3>2 DEF Closed
    <3>3. CASE m = s
      <4>1. n \in Reach(new, x)
        BY <1>1, <1>2, <1>3, <3>3, NodesAreNotNull DEF Closed
      <4>2. QED
        BY <1>2, <1>3, <2>2, <3>1, <3>3, <4>1 DEF Closed
    <3>4. QED
      BY <3>2, <3>3
  <2>3. QED
    BY <2>1, <2>2 DEF Closed
<1>7. Old \subseteq Reach(new, x)
  BY <1>1, <1>3, <1>6, ReachIsLeast
<1>8. Reach(new, x) = Old \cup {n}
  <2>1. n \in Reach(new, x)
    BY <1>1, <1>2, <1>3, <1>7, NodesAreNotNull DEF Closed
  <2>2. QED
    BY <1>5, <1>7, <2>1
<1>9. ASSUME NEW S \in SUBSET Reach(new, x), S # {}
      PROVE  \E m \in S : new[m] \notin S
  <2>1. CASE S \ {n} = {}
    <3>1. S = {n} /\ link[s] # n
      BY <1>1, <1>9, <2>1, NodesAreNotNull DEF Closed
    <3>2. QED
      BY <1>2, <3>1
  <2>2. CASE S \ {n} # {}
    <3>1. PICK m \in S \ {n} : link[m] \notin S \ {n}
      BY <1>8, <1>9, <2>2 DEF Acyclic
    <3>2. m \in Old
      BY <1>8, <3>1
    <3>3. CASE m # s
      <4>1. new[m] = link[m] /\ link[m] # n
        BY <1>1, <1>2, <3>2, <3>3, NodesAreNotNull DEF Closed
      <4>2. QED
        BY <3>1, <4>1
    <3>4. CASE m = s
      <4>1. CASE n \in S
        <5>1. new[n] \notin S
          BY <1>1, <1>2, <3>1, <3>4, NodesAreNotNull DEF Closed
        <5>2. QED
          BY <4>1, <5>1
      <4>2. CASE n \notin S
        BY <1>2, <3>1, <3>4, <4>2
      <4>3. QED
        BY <4>1, <4>2
    <3>5. QED
      BY <3>3, <3>4
  <2>3. QED
    BY <2>1, <2>2
<1>10. QED
  BY <1>2, <1>8, <1>9 DEF Acyclic

-----------------------------------------------------------------------------
(* scheduler_add.                                                          *)

\* Nodes and links have the types of a heap.
LEMMA HeapTypes ==
  TypeOK => /\ next \in Links /\ head \in Linked /\ saved \in Linked
            /\ priority \in [Nodes -> Nat]
<1>1. Priorities \cup {0} \subseteq Nat
  BY SchedulerAssumption
<1>2. QED
  BY <1>1 DEF TypeOK, Links

\* The loop of scheduler_add ends at a node of the list.
LEMMA LoopStops ==
  ASSUME TypeOK, head # NULL, Acyclic(next, head), NEW p \in Priorities
  PROVE  StopsAt(p) \in Queued
<1> DEFINE Met == Reach(Skips(p), head)
<1>1. /\ next \in Links /\ Skips(p) \in Links /\ head \in Linked
      /\ \A m \in Nodes : Skips(p)[m] \in {next[m], NULL}
  BY HeapTypes, NodesAreNotNull DEF Skips, Links
<1>2. /\ Queued \subseteq Nodes /\ Closed(next, Queued, head)
      /\ Met \subseteq Nodes /\ Closed(Skips(p), Met, head)
  BY <1>1, ReachIsClosed DEF Queued
<1>3. Closed(Skips(p), Queued, head)
  BY <1>1, <1>2 DEF Closed
<1>4. Met \subseteq Queued
  BY <1>2, <1>3, ReachIsLeast
<1>5. head \in Met
  BY <1>2 DEF Closed
<1>6. PICK m \in Met : next[m] \notin Met
  BY <1>4, <1>5 DEF Acyclic, Queued
<1>7. Skips(p)[m] = NULL
  BY <1>1, <1>2, <1>6 DEF Closed
<1>8. StopsAt(p) \in Met
  BY <1>7 DEF StopsAt
<1>9. QED
  BY <1>4, <1>8

\* A task is added to the list in fresh memory, and whatever line of nodes in
\* use begins somewhere stays a line, with at most the new node on it.
LEMMA AddKeepsLines ==
  ASSUME TypeOK, Queued \subseteq live, Acyclic(next, head),
         NEW n \in Nodes, NEW p \in Priorities, SchedulerAdd(n, p)
  PROVE  /\ n \notin live /\ live' = live \cup {n} /\ head' \in Nodes
         /\ next' \in Links /\ priority' = [priority EXCEPT ![n] = p]
         /\ Reach(next', head') = Queued \cup {n} /\ Acyclic(next', head')
         /\ \A y \in Linked : Reach(next, y) \subseteq live /\ Acyclic(next, y) =>
              /\ Reach(next', y) \in {Reach(next, y), Reach(next, y) \cup {n}}
              /\ Acyclic(next', y)
<1>1. /\ n \notin live /\ live' = live \cup {n} /\ priority' = [priority EXCEPT ![n] = p]
      /\ next \in Links /\ head \in Linked /\ n \notin Reach(next, head)
      /\ NULL \in Linked /\ n # NULL
  BY HeapTypes, NodesAreNotNull DEF SchedulerAdd, Queued
<1> DEFINE Line(y) == /\ Reach(next', y) \in {Reach(next, y), Reach(next, y) \cup {n}}
                      /\ Acyclic(next', y)
<1>2. ASSUME NEW h \in Linked, h = head, head' = n, next' = [next EXCEPT ![n] = h]
      PROVE  /\ head' \in Nodes /\ next' \in Links
             /\ Reach(next', head') = Queued \cup {n} /\ Acyclic(next', head')
             /\ \A y \in Linked : Reach(next, y) \subseteq live /\ Acyclic(next, y) => Line(y)
  <2>1. next' \in Links /\ Reach(next', n) = {n} \cup Reach(next, h) /\ Acyclic(next', n)
    BY <1>1, <1>2, InsertFront
  <2>2. ASSUME NEW y \in Linked, Reach(next, y) \subseteq live, Acyclic(next, y)
        PROVE  Line(y)
    <3>1. \A m \in Reach(next, y) : next'[m] = next[m]
      BY <1>1, <1>2, <2>2, ReachIsClosed DEF Links
    <3>2. QED
      BY <1>1, <2>1, <2>2, <3>1, ReachSame
  <2>3. QED
    BY <1>2, <2>1, <2>2 DEF Queued
<1>3. CASE AddEmpty(n)
  BY <1>1, <1>2, <1>3 DEF AddEmpty
<1>4. CASE AddFront(n, p)
  BY <1>1, <1>2, <1>4 DEF AddFront
<1>5. CASE AddAfter(n, p)
  <2> DEFINE s == StopsAt(p)
  <2>1. /\ head # NULL /\ head' = head /\ s \in Reach(next, head)
        /\ next' = [next EXCEPT ![n] = next[s], ![s] = n]
    BY <1>5, LoopStops DEF AddAfter, Queued
  <2> HIDE DEF s
  <2>2. /\ next' \in Links /\ next'[n] = next[s] /\ next'[s] = n
        /\ \A m \in Nodes : m # s /\ m # n => next'[m] = next[m]
    <3>1. s \in Nodes /\ s # n /\ next[s] \in Linked /\ n \in Linked
      BY <1>1, <2>1, ReachIsClosed, NodesAreNotNull DEF Links
    <3>2. QED
      BY <1>1, <2>1, <3>1 DEF Links
  <2>3. Reach(next', head) = Reach(next, head) \cup {n} /\ Acyclic(next', head)
    <3>1. \A m \in Reach(next, head) : m # s => next'[m] = next[m]
      BY <1>1, <2>2, ReachIsClosed
    <3>2. /\ next \in Links /\ head \in Linked /\ n \notin Reach(next, head)
          /\ Acyclic(next, head) /\ s \in Reach(next, head)
      BY <1>1, <2>1
    <3>3. QED
      BY <2>2, <3>1, <3>2, InsertAfter
  <2>4. head \in Nodes
    BY <1>1, <2>1 DEF Linked
  <2>5. ASSUME NEW y \in Linked, Reach(next, y) \subseteq live, Acyclic(next, y)
        PROVE  Line(y)
    <3>1. n \notin Reach(next, y)
      BY <1>1, <2>5
    <3>2. CASE s \in Reach(next, y)
      <4>1. \A m \in Reach(next, y) : m # s => next'[m] = next[m]
        BY <1>1, <2>2, <3>1, ReachIsClosed
      <4>2. QED
        BY <1>1, <2>2, <2>5, <3>1, <3>2, <4>1, InsertAfter
    <3>3. CASE s \notin Reach(next, y)
      <4>1. \A m \in Reach(next, y) : next'[m] = next[m]
        BY <1>1, <2>1, <3>1, <3>3, ReachIsClosed DEF Links
      <4>2. QED
        BY <1>1, <2>2, <2>5, <4>1, ReachSame
    <3>4. QED
      BY <3>2, <3>3
  <2>6. QED
    BY <1>1, <2>1, <2>2, <2>3, <2>4, <2>5 DEF Queued
<1>6. QED
  BY <1>1, <1>3, <1>4, <1>5 DEF SchedulerAdd

\* The head stays most urgent: a more urgent task goes in front of it.
LEMMA AddKeepsUrgent ==
  ASSUME TypeOK, Queued \subseteq live, Acyclic(next, head),
         \A m \in Queued : priority[head] <= priority[m],
         NEW n \in Nodes, NEW p \in Priorities, SchedulerAdd(n, p)
  PROVE  \A m \in Queued' : priority'[head'] <= priority'[m]
<1>1. /\ n \notin live /\ Queued' = Queued \cup {n} /\ priority' = [priority EXCEPT ![n] = p]
      /\ Queued \subseteq Nodes /\ p \in Nat /\ priority \in [Nodes -> Nat]
  BY AddKeepsLines, HeapTypes, SchedulerAssumption DEF Queued, Reach
<1>2. /\ priority'[n] = p
      /\ \A m \in Queued : m \in Nodes /\ priority'[m] = priority[m] /\ priority[m] \in Nat
  BY <1>1
<1>3. head # NULL => head \in Queued
  BY HeapTypes, ReachIsClosed DEF Queued, Closed
<1>4. CASE AddEmpty(n)
  BY <1>1, <1>2, <1>4, ReachOfNull DEF AddEmpty, Queued
<1>5. CASE AddFront(n, p)
  BY <1>1, <1>2, <1>3, <1>5 DEF AddFront
<1>6. CASE AddAfter(n, p)
  BY <1>1, <1>2, <1>3, <1>6 DEF AddAfter
<1>7. QED
  BY <1>4, <1>5, <1>6 DEF SchedulerAdd

-----------------------------------------------------------------------------
(* The invariant is inductive.                                             *)

LEMMA InitInv == Init => SchedulerInv
<1> SUFFICES ASSUME Init PROVE SchedulerInv
  OBVIOUS
<1>1. TypeOK
  BY NodesAreNotNull DEF Init, TypeOK
<1>2. Queued = {} /\ Acyclic(next, head)
  BY ReachOfNull DEF Init, Queued, Acyclic
<1>3. QED
  BY <1>1, <1>2 DEF Init, SchedulerInv, ListSound, SavedSound, HeadUrgent, Drains

\* A client adds a task.
LEMMA ClientAddStep == SchedulerInv /\ ClientAdd => SchedulerInv'
<1> SUFFICES ASSUME SchedulerInv, ClientAdd PROVE SchedulerInv'
  OBVIOUS
<1>1. /\ TypeOK /\ pc = "idle" /\ Queued \subseteq live /\ Acyclic(next, head)
      /\ pc' = pc /\ saved' = saved /\ reentered' = reentered
  BY DEF SchedulerInv, ListSound, ClientAdd
<1>2. PICK n \in Nodes, p \in Priorities : SchedulerAdd(n, p) /\ pending' = pending \cup {n}
  BY DEF ClientAdd
<1>3. /\ live' = live \cup {n} /\ head' \in Nodes
      /\ next' \in Links /\ priority' = [priority EXCEPT ![n] = p]
      /\ Queued' = Queued \cup {n} /\ Acyclic(next', head')
  BY <1>1, <1>2, AddKeepsLines DEF Queued
<1>4. TypeOK'
  BY <1>1, <1>2, <1>3 DEF TypeOK, Links, Linked
<1>5. ListSound' /\ SavedSound'
  BY <1>1, <1>3 DEF ListSound, SavedSound
<1>6. HeadUrgent'
  BY <1>1, <1>2, AddKeepsUrgent DEF HeadUrgent, SchedulerInv
<1>7. Drains'
  BY <1>1, <1>2, <1>3 DEF Drains, SchedulerInv
<1>8. QED
  BY <1>4, <1>5, <1>6, <1>7 DEF SchedulerInv

LEMMA ProcessStep == SchedulerInv /\ Process => SchedulerInv'
BY DEF SchedulerInv, Process, TypeOK, ListSound, SavedSound, HeadUrgent, Drains, Queued

\* The list is empty, or its head is taken in hand.
LEMMA TestStep == SchedulerInv /\ Test => SchedulerInv'
<1> SUFFICES ASSUME SchedulerInv, Test PROVE SchedulerInv'
  OBVIOUS
<1>1. /\ TypeOK /\ pc = "test" /\ next \in Links /\ head \in Linked
      /\ head' = head /\ next' = next /\ live' = live /\ Queued' = Queued
      /\ UNCHANGED <<priority, pending, reentered>>
  BY HeapTypes DEF SchedulerInv, Test, Queued
<1>2. TypeOK'
  BY <1>1 DEF Test, TypeOK, Links, Linked
<1>3. ListSound' /\ SavedSound'
  BY <1>1 DEF Test, SchedulerInv, ListSound, SavedSound
<1>4. HeadUrgent'
  BY <1>1, ReachOfNull DEF Test, HeadUrgent, Queued
<1>5. Drains'
  BY <1>1 DEF Test, SchedulerInv, Drains
<1>6. QED
  BY <1>2, <1>3, <1>4, <1>5 DEF SchedulerInv

\* Before a callback runs, what is behind its node is a line without its node.
LEMMA BehindHead ==
  ASSUME SchedulerInv, pc = "call"
  PROVE  /\ head \in Nodes /\ saved = next[head] /\ saved \in Linked
         /\ Queued \subseteq live /\ Acyclic(next, head)
         /\ Queued = {head} \cup Reach(next, saved) /\ Acyclic(next, saved)
         /\ head \notin Reach(next, saved)
<1>1. /\ next \in Links /\ head \in Nodes /\ saved = next[head] /\ saved \in Linked
      /\ Queued \subseteq live /\ Acyclic(next, head)
  BY HeapTypes DEF SchedulerInv, ListSound, SavedSound, Linked
<1>2. QED
  BY <1>1, ReachStep, AcyclicStep DEF Queued

\* The callback begins.
LEMMA CallStep == SchedulerInv /\ Call => SchedulerInv'
<1> SUFFICES ASSUME SchedulerInv, Call PROVE SchedulerInv'
  OBVIOUS
<1>1. /\ TypeOK /\ pc = "call" /\ pc' = "callback" /\ pending' = pending \ {head}
      /\ UNCHANGED <<head, next, priority, live, saved, reentered>>
  BY DEF SchedulerInv, Call
<1>2. /\ head \in Nodes /\ saved = next[head] /\ saved \in Linked
      /\ Queued \subseteq live /\ Acyclic(next, head)
      /\ Queued = {head} \cup Reach(next, saved) /\ Acyclic(next, saved)
      /\ head \notin Reach(next, saved) /\ head # NULL
  BY <1>1, BehindHead, NodesAreNotNull
<1>3. TypeOK'
  BY <1>1 DEF TypeOK
<1>4. Queued' = Queued
  BY <1>1 DEF Queued
<1>5. ListSound' /\ SavedSound' /\ HeadUrgent'
  BY <1>1, <1>2, <1>4 DEF ListSound, SavedSound, HeadUrgent
<1>6. Drains'
  BY <1>1, <1>2, <1>4 DEF Drains, SchedulerInv
<1>7. QED
  BY <1>3, <1>5, <1>6 DEF SchedulerInv

\* The callback adds a task in fresh memory, be it the first or a later one.
LEMMA CallbackAddStep == SchedulerInv /\ CallbackAdd => SchedulerInv'
<1> SUFFICES ASSUME SchedulerInv, CallbackAdd PROVE SchedulerInv'
  OBVIOUS
<1>1. TypeOK /\ pc = "callback" /\ pc' = pc /\ saved' = saved /\ reentered' = TRUE
  BY DEF SchedulerInv, CallbackAdd
<1>2. /\ head # NULL /\ head \in Linked /\ saved \in Linked /\ next \in Links
      /\ Queued \subseteq live /\ Acyclic(next, head)
      /\ Reach(next, saved) \subseteq live /\ Acyclic(next, saved)
      /\ head \notin Reach(next, saved)
  BY <1>1, HeapTypes DEF SchedulerInv, ListSound, SavedSound
<1>3. PICK n \in Nodes, p \in Priorities : SchedulerAdd(n, p) /\ pending' = pending \cup {n}
  BY DEF CallbackAdd
<1>4. /\ n \notin live /\ live' = live \cup {n} /\ head' \in Nodes
      /\ next' \in Links /\ priority' = [priority EXCEPT ![n] = p]
      /\ Queued' = Queued \cup {n} /\ Acyclic(next', head')
      /\ Reach(next', saved) \in {Reach(next, saved), Reach(next, saved) \cup {n}}
      /\ Acyclic(next', saved)
  BY <1>1, <1>2, <1>3, AddKeepsLines DEF Queued
<1>5. TypeOK'
  BY <1>1, <1>3, <1>4 DEF TypeOK, Links, Linked
<1>6. ListSound'
  BY <1>2, <1>4 DEF ListSound
<1>7. head' # NULL /\ head' \notin Reach(next', saved)
  <2>1. CASE AddFront(n, p)
    <3>1. head' = n /\ next' = [next EXCEPT ![n] = head] /\ n \notin Reach(next, saved)
      BY <1>2, <1>4, <2>1 DEF AddFront
    <3>2. \A m \in Reach(next, saved) : next'[m] = next[m]
      BY <1>2, <3>1, ReachIsClosed DEF Links
    <3>3. Reach(next', saved) = Reach(next, saved)
      BY <1>2, <1>4, <3>2, ReachSame
    <3>4. QED
      BY <1>4, <3>1, <3>3, NodesAreNotNull
  <2>2. CASE AddAfter(n, p)
    <3>1. head' = head /\ head # n
      BY <1>2, <1>4, <2>2, ReachIsClosed DEF AddAfter, Queued, Closed
    <3>2. QED
      BY <1>2, <1>4, <3>1
  <2>3. QED
    BY <1>2, <1>3, <2>1, <2>2 DEF SchedulerAdd, AddEmpty
<1>8. SavedSound'
  BY <1>1, <1>2, <1>4, <1>7 DEF SavedSound
<1>9. HeadUrgent' /\ Drains'
  BY <1>1 DEF HeadUrgent, Drains
<1>10. QED
  BY <1>5, <1>6, <1>8, <1>9 DEF SchedulerInv

LEMMA ReturnStep == SchedulerInv /\ Return => SchedulerInv'
BY DEF SchedulerInv, Return, TypeOK, ListSound, SavedSound, HeadUrgent, Drains, Queued

\* The head is freed, and it is in no way on what will be the list.
LEMMA FreeStep == SchedulerInv /\ Free => SchedulerInv'
<1> SUFFICES ASSUME SchedulerInv, Free PROVE SchedulerInv'
  OBVIOUS
<1>1. /\ TypeOK /\ pc = "free" /\ pc' = "move" /\ live' = live \ {head}
      /\ UNCHANGED <<head, next, priority, saved, pending, reentered>>
  BY DEF SchedulerInv, Free
<1>2. /\ next \in Links /\ head \in Nodes
      /\ Reach(next, saved) \subseteq live /\ Acyclic(next, saved)
      /\ head \notin Reach(next, saved)
  BY <1>1, HeapTypes DEF SchedulerInv, SavedSound, Linked
<1>3. TypeOK'
  BY <1>1 DEF TypeOK
<1>4. ListSound' /\ SavedSound' /\ HeadUrgent'
  BY <1>1, <1>2 DEF ListSound, SavedSound, HeadUrgent
<1>5. ASSUME ~reentered PROVE live' = Reach(next, saved) /\ pending = live'
  <2>1. saved = next[head] /\ live = Queued /\ pending = Queued \ {head}
    BY <1>1, <1>5 DEF SchedulerInv, Drains
  <2>2. QED
    BY <1>1, <1>2, <2>1, ReachStep DEF Queued
<1>6. Drains'
  BY <1>1, <1>5 DEF Drains
<1>7. QED
  BY <1>3, <1>4, <1>6 DEF SchedulerInv

LEMMA MoveStep == SchedulerInv /\ Move => SchedulerInv'
<1> SUFFICES ASSUME SchedulerInv, Move PROVE SchedulerInv'
  OBVIOUS
<1>1. TypeOK'
  BY DEF SchedulerInv, TypeOK, Move
<1>2. Queued' = Reach(next, saved)
  BY DEF Move, Queued
<1>3. QED
  BY <1>1, <1>2 DEF SchedulerInv, Move, ListSound, SavedSound, HeadUrgent, Drains

LEMMA StepInv == SchedulerInv /\ [Next]_vars => SchedulerInv'
<1> SUFFICES ASSUME SchedulerInv, [Next]_vars PROVE SchedulerInv'
  OBVIOUS
<1>1. CASE UNCHANGED vars
  BY <1>1 DEF vars, SchedulerInv, TypeOK, ListSound, SavedSound, HeadUrgent, Drains, Queued
<1>2. QED
  BY <1>1, ClientAddStep, ProcessStep, TestStep, CallStep, CallbackAddStep,
     ReturnStep, FreeStep, MoveStep DEF Next, Step

LEMMA Invariance == Spec => []SchedulerInv
BY InitInv, StepInv, PTL DEF Spec

-----------------------------------------------------------------------------
(* The properties of module Scheduler.                                     *)

\* Links, nodes and the place of scheduler_process have their types; the loop of
\* scheduler_add always ends at a node.
THEOREM SchedulerTypeCorrect == Spec => []TypeOK
<1>1. SchedulerInv => TypeOK
  BY DEF SchedulerInv
<1>2. QED
  BY <1>1, Invariance, PTL

\* No node on the list was freed and none comes again behind itself, whatever
\* callbacks add while their own node is in hand (scheduler.c:53-63).
THEOREM ListIsNeverDangling == Spec => []NoDanglingNode
<1>1. ASSUME SchedulerInv PROVE NoDanglingNode
  <2>1. SUFFICES ASSUME pc # "move", NEW n \in Queued PROVE n \notin Reach(next, next[n])
    BY <1>1 DEF SchedulerInv, ListSound, NoDanglingNode
  <2>2. next \in Links /\ head \in Linked /\ Acyclic(next, head)
    BY <1>1, <2>1, HeapTypes DEF SchedulerInv, ListSound
  <2>3. n \in Nodes /\ Reach(next, n) \subseteq Reach(next, head)
    BY <2>2, ReachIsClosed, ReachGoesOn DEF Queued
  <2>4. Acyclic(next, n)
    BY <2>2, <2>3 DEF Acyclic
  <2>5. QED
    BY <2>2, <2>3, <2>4, AcyclicStep
<1>2. QED
  BY <1>1, Invariance, PTL

\* scheduler_process starts with a most urgent task, though the loop of
\* scheduler_add does not order what is behind the head.
THEOREM HeadIsMostUrgent == Spec => MostUrgentFirst
<1>1. SchedulerInv =>
        (pc = "idle" /\ pc' = "test" /\ head # NULL
           => \A n \in Queued : priority[head] <= priority[n])
  BY DEF SchedulerInv, HeadUrgent
<1>2. QED
  BY <1>1, Invariance, PTL DEF MostUrgentFirst

\* If callbacks add no tasks, scheduler_process returns only when every task was
\* called and all memory freed.
THEOREM NothingIsLeft == Spec => ProcessDrains
<1>1. SchedulerInv /\ [Next]_vars =>
        [pc # "idle" /\ pc' = "idle" /\ ~reentered => pending = {} /\ live = {}]_vars
  <2> SUFFICES ASSUME SchedulerInv, Next, pc # "idle", pc' = "idle", ~reentered
               PROVE  pending = {} /\ live = {}
    BY DEF vars
  <2>1. pc = "test" /\ head = NULL
    BY DEF Next, Step, ClientAdd, Process, Test, Call, CallbackAdd, Return, Free, Move
  <2>2. QED
    BY <2>1, ReachOfNull DEF SchedulerInv, Drains, Queued
<1>2. QED
  BY <1>1, Invariance, PTL DEF ProcessDrains, Spec
=============================================================================
