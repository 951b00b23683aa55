----------------------------- MODULE Scheduler -----------------------------
(***************************************************************************)
(* The transmitter's task queue (Transmitter/scheduler.c): a linked list   *)
(* on the heap, meant to be ordered by priority, drained by                *)
(* scheduler_process one callback at a time.  A callback may add any       *)
(* number of tasks; its own node is still on the list, and need not be the *)
(* head of it for long.                                                    *)
(*                                                                         *)
(* Nobody in the firmware adds a task yet, and scheduler_init declares     *)
(* scheduler_timer_init instead of calling it (scheduler.c:17), so the     *)
(* timer interrupt that would add tasks can never run and is not here.     *)
(***************************************************************************)
EXTENDS Integers

CONSTANTS
  MaxNodes,   \* bound on the nodes malloc can hand out
  Priorities  \* priority_t, 0 is the most urgent

ASSUME SchedulerAssumption == MaxNodes \in Nat /\ Priorities \subseteq Nat

VARIABLES
  head,     \* schedule.head
  next,     \* next of each node
  priority, \* priority of each node
  live,     \* nodes malloc has handed out and free has not taken back
  pc,       \* where scheduler_process is, "idle" outside it
  saved,    \* its local next
  pending,  \* history: nodes whose task was added and has not been called
  reentered \* history: some callback has added a task

vars == <<head, next, priority, live, pc, saved, pending, reentered>>

NULL   == 0
Nodes  == 1 .. MaxNodes
Linked == Nodes \cup {NULL}

TypeOK ==
  /\ head \in Linked /\ saved \in Linked
  /\ next \in [Nodes -> Linked] /\ priority \in [Nodes -> Priorities \cup {0}]
  /\ live \subseteq Nodes /\ pending \subseteq Nodes
  /\ pc \in {"idle", "test", "call", "callback", "free", "move"}
  /\ reentered \in BOOLEAN

Init ==
  /\ head = NULL /\ saved = NULL
  /\ next = [n \in Nodes |-> NULL] /\ priority = [n \in Nodes |-> 0]
  /\ live = {} /\ pending = {}
  /\ pc = "idle" /\ reentered = FALSE

\* The nodes met on the way along the links of each node from x up to NULL: those
\* that no set with x and its own successors can leave out.
Closed(link, S, x) ==
  /\ x # NULL => x \in S
  /\ \A n \in S : link[n] # NULL => link[n] \in S

Reach(link, x) == {n \in Nodes : \A S \in SUBSET Nodes : Closed(link, S, x) => n \in S}

\* The nodes on the list.
Queued == Reach(next, head)

-----------------------------------------------------------------------------
(* scheduler_add.                                                          *)

\* The links that the loop of scheduler.c:46 follows for a task of priority p,
\* and the node it stops at.
Skips(p)   == [n \in Nodes |-> IF priority[n] <= p THEN next[n] ELSE NULL]
StopsAt(p) == CHOOSE n \in Reach(Skips(p), head) : Skips(p)[n] = NULL

\* Broken variants of the three: next is left as malloc gave it, the front is
\* for the less urgent, the rest of the list is cut off.
AddEmptyUnset(n) ==
  /\ head = NULL
  /\ head' = n /\ next' = [next EXCEPT ![n] = MaxNodes + 1]

AddFrontReversed(n, p) ==
  /\ head # NULL /\ priority[head] < p
  /\ head' = n /\ next' = [next EXCEPT ![n] = head]

AddAfterCutsTail(n, p) ==
  /\ head # NULL /\ priority[head] <= p
  /\ next' = [next EXCEPT ![n] = NULL, ![StopsAt(p)] = n]
  /\ UNCHANGED head

AddEmpty(n) ==
  /\ head = NULL
  /\ head' = n /\ next' = [next EXCEPT ![n] = NULL]

AddFront(n, p) ==
  /\ head # NULL /\ priority[head] > p
  /\ head' = n /\ next' = [next EXCEPT ![n] = head]

AddAfter(n, p) ==
  /\ head # NULL /\ priority[head] <= p
  /\ next' = [next EXCEPT ![n] = next[StopsAt(p)], ![StopsAt(p)] = n]
  /\ UNCHANGED head

SchedulerAdd(n, p) ==
  /\ n \in Nodes \ live
  /\ live' = live \cup {n}
  /\ priority' = [priority EXCEPT ![n] = p]
  /\ AddEmpty(n) \/ AddFront(n, p) \/ AddAfter(n, p)

ClientAdd ==
  /\ pc = "idle"
  /\ \E n \in Nodes, p \in Priorities :
       SchedulerAdd(n, p) /\ pending' = pending \cup {n}
  /\ UNCHANGED <<pc, saved, reentered>>

-----------------------------------------------------------------------------
(* scheduler_process.                                                      *)

Process ==
  /\ pc = "idle" /\ pc' = "test"
  /\ UNCHANGED <<head, next, priority, live, saved, pending, reentered>>

\* Broken variant: an empty list is waited upon.
TestWaits ==
  /\ pc = "test" /\ head # NULL
  /\ pc' = "call" /\ saved' = next[head]
  /\ UNCHANGED <<head, next, priority, live, pending, reentered>>

Test ==
  /\ pc = "test"
  /\ \/ head = NULL /\ pc' = "idle" /\ UNCHANGED saved
     \/ head # NULL /\ pc' = "call" /\ saved' = next[head]
  /\ UNCHANGED <<head, next, priority, live, pending, reentered>>

\* The callback of the head begins, adds tasks and returns.
Call ==
  /\ pc = "call" /\ pc' = "callback"
  /\ pending' = pending \ {head}
  /\ UNCHANGED <<head, next, priority, live, saved, reentered>>

CallbackAdd ==
  /\ pc = "callback"
  /\ \E n \in Nodes, p \in Priorities :
       SchedulerAdd(n, p) /\ pending' = pending \cup {n}
  /\ reentered' = TRUE
  /\ UNCHANGED <<pc, saved>>

Return ==
  /\ pc = "callback" /\ pc' = "free"
  /\ UNCHANGED <<head, next, priority, live, saved, pending, reentered>>

\* Broken variant: the wrong node is freed.
FreeSaved ==
  /\ pc = "free" /\ pc' = "move"
  /\ live' = live \ {saved}
  /\ UNCHANGED <<head, next, priority, saved, pending, reentered>>

\* free(schedule.head), which need not be the node whose callback ran.
Free ==
  /\ pc = "free" /\ pc' = "move"
  /\ live' = live \ {head}
  /\ UNCHANGED <<head, next, priority, saved, pending, reentered>>

Move ==
  /\ pc = "move" /\ pc' = "test"
  /\ head' = saved
  /\ UNCHANGED <<next, priority, live, saved, pending, reentered>>

Step == Test \/ Call \/ CallbackAdd \/ Return \/ Free \/ Move
Next == ClientAdd \/ Process \/ Step

\* scheduler_process keeps running once it was called, and so do its callbacks:
\* none of them adds tasks without end.
Spec == Init /\ [][Next]_vars /\ WF_vars(Step)

-----------------------------------------------------------------------------
\* The list never goes round in a circle or through freed memory, though a
\* callback adds tasks in front of, behind and far behind its own node.
NoDanglingNode ==
  pc # "move" => Queued \subseteq live /\ \A n \in Queued : n \notin Reach(next, next[n])

\* A process call starts with the most urgent of the tasks that wait.
MostUrgentFirst ==
  [][pc = "idle" /\ pc' = "test" /\ head # NULL
       => \A n \in Queued : priority[head] <= priority[n]]_vars

\* As long as callbacks add no tasks, scheduler_process returns only when every
\* task has been called ("run all the functions, which are scheduled",
\* scheduler.h:43), and no memory is lost.
ProcessDrains ==
  [][pc # "idle" /\ pc' = "idle" /\ ~reentered => pending = {} /\ live = {}]_vars

\* scheduler_process returns, as long as callbacks add no tasks.
ProcessReturns == pc # "idle" /\ ~reentered ~> pc = "idle" \/ reentered
=============================================================================
