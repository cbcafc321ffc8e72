------------------------------ MODULE CrossApp ------------------------------
(***************************************************************************)
(* The cross-application planners, and the run they plan.                  *)
(*                                                                         *)
(* schedule_dag cuts a dependency graph into waves of at most max_parallel *)
(* nodes; plan_cancellation_deadline_propagation carries cancellations and *)
(* deadlines downstream over the same graph; schedule_bounded_batch is the *)
(* case without dependencies.  Each loop iteration of the planners is a    *)
(* step, and each refuses a cyclic graph on its own.                       *)
(*                                                                         *)
(* The repository plans and never runs: the executor below is the external *)
(* one the plans are made for.  It runs wave after wave, the nodes of one  *)
(* wave at the same time, and each node takes the typed locks it names in  *)
(* canonical_lock_order, holds them while it works and then drops them.    *)
(***************************************************************************)
EXTENDS Integers, FiniteSets, Sequences

CONSTANTS Node,       \* node ids, as numbers in their sorted order
          Lock,       \* the typed locks nodes ask for
          OrderKey,   \* TypedLock.order_key: (scope, digest) as one number
          Wants,      \* the locks each node names, in the order it names them
          Parallel,   \* the values of max_parallel
          Cuts,       \* the sets of nodes a cancellation may name
          Deadlines,  \* the deadlines nodes may carry, by node
          Roots,      \* the root deadlines
          Free        \* no node: a lock nobody holds

None == 0             \* a deadline that is not set

ASSUME NodeAssumption == Node \subseteq Nat \ {0} /\ IsFiniteSet(Node) /\ Node # {}
ASSUME LockAssumption ==
    /\ OrderKey \in [Lock -> Nat]
    /\ \A k, l \in Lock : OrderKey[k] = OrderKey[l] => k = l
    /\ Wants \in [Node -> Seq(Lock)]
    /\ Free \notin Node
ASSUME PlanAssumption ==
    /\ Parallel \subseteq 1..6
    /\ Cuts \subseteq SUBSET Node
    /\ Deadlines \subseteq [Node -> Nat]
    /\ Roots \subseteq Nat

VARIABLES deps,       \* depends_on, by node
          par,        \* max_parallel
          cut,        \* cancellation_node_ids
          own,        \* deadline_seconds_from_start, by node
          root,       \* root_deadline_seconds_from_start
          sched,      \* where schedule_dag is
          remaining,  \* its remaining set
          waves,      \* and the waves so far
          prop,       \* where the propagation planner is
          cancelled,  \* its cancelled set
          left,       \* its remaining set
          deadline,   \* and the effective deadlines so far
          at,         \* the wave the executor is in
          run,        \* the state of each node in the run
          todo,       \* the locks a node still has to take
          held        \* the node that holds each lock

request == <<deps, par, cut, own, root>>
schedule == <<sched, remaining, waves>>
propagation == <<prop, cancelled, left, deadline>>
execution == <<at, run, todo, held>>
vars == <<request, schedule, propagation, execution>>

-----------------------------------------------------------------------------
(* The nodes of a rest of the graph that depend on nothing in that rest. *)
Ready(rest) == {n \in rest : deps[n] \cap rest = {}}

(* ready[:max_parallel], ready being sorted. *)
Selected(ready) ==
    {n \in ready : Cardinality({m \in ready : m < n}) < par}

(* Mutant: the first slice is one short. *)
BatchOffByOne ==
    [i \in 1..((Cardinality(Node) + par - 1) \div par) |->
        {n \in Node : Cardinality({m \in Node : m <= n}) \div par = i - 1}]

(* schedule_bounded_batch: slices of the sorted ids. *)
BatchWaves ==
    LET Rank(n) == Cardinality({m \in Node : m < n})
    IN  [i \in 1..((Cardinality(Node) + par - 1) \div par) |->
            {n \in Node : Rank(n) \div par = i - 1}]

(* Mutant: max where min is meant. *)
Loosest(candidates) ==
    LET set == candidates \ {None}
    IN  IF set = {} THEN None ELSE CHOOSE d \in set : \A e \in set : d >= e

(* min(candidates) if candidates else None. *)
Tightest(candidates) ==
    LET set == candidates \ {None}
    IN  IF set = {} THEN None ELSE CHOOSE d \in set : \A e \in set : d <= e

(* Mutant: in the order the node names them. *)
NextNamed(n) ==
    CHOOSE l \in todo[n] : \E i \in 1..Len(Wants[n]) :
        /\ Wants[n][i] = l
        /\ \A j \in 1..(i - 1) : Wants[n][j] \notin todo[n]

(* The lock to take next: the first of canonical_lock_order of what is left. *)
NextLock(n) == CHOOSE l \in todo[n] : \A m \in todo[n] : OrderKey[l] <= OrderKey[m]

LocksOf(n) == {Wants[n][i] : i \in 1..Len(Wants[n])}

(* DagScheduleNode: any graph without self-loops, its ids unique and known. *)
Init ==
    /\ deps \in {d \in [Node -> SUBSET Node] : \A n \in Node : n \notin d[n]}
    /\ par \in Parallel /\ cut \in Cuts /\ own \in Deadlines /\ root \in Roots
    /\ sched = "LOOP" /\ remaining = Node /\ waves = <<>>
    /\ prop = "WAIT" /\ cancelled = {} /\ left = Node
    /\ deadline = [n \in Node |-> None]
    /\ at = 1
    /\ run = [n \in Node |-> "PENDING"]
    /\ todo = [n \in Node |-> {}]
    /\ held = [l \in Lock |-> Free]

-----------------------------------------------------------------------------
(* Mutant: the nodes max_parallel cut off are dropped with the wave. *)
ScheduleWholeLevel ==
    /\ sched = "LOOP" /\ remaining # {}
    /\ Ready(remaining) # {}
    /\ waves' = Append(waves, Selected(Ready(remaining)))
    /\ remaining' = remaining \ Ready(remaining)
    /\ UNCHANGED <<sched, request, propagation, execution>>

(* schedule_dag: one turn of `while remaining`. *)
ScheduleWave ==
    /\ sched = "LOOP" /\ remaining # {}
    /\ Ready(remaining) # {}
    /\ waves' = Append(waves, Selected(Ready(remaining)))
    /\ remaining' = remaining \ Selected(Ready(remaining))
    /\ UNCHANGED <<sched, request, propagation, execution>>

ScheduleRefuse ==
    /\ sched = "LOOP" /\ remaining # {}
    /\ Ready(remaining) = {}
    /\ sched' = "REFUSED"
    /\ UNCHANGED <<remaining, waves, request, propagation, execution>>

(* Mutant: a loop that ends when nothing is ready. *)
ScheduleBreak ==
    /\ sched = "LOOP" /\ Ready(remaining) = {}
    /\ sched' = "PLANNED"
    /\ UNCHANGED <<remaining, waves, request, propagation, execution>>

ScheduleDone ==
    /\ sched = "LOOP" /\ remaining = {}
    /\ sched' = "PLANNED"
    /\ UNCHANGED <<remaining, waves, request, propagation, execution>>

(* plan_cancellation_deadline_propagation: a call of its own, which does not *)
(* see what the scheduler said.                                              *)
PropagationCall ==
    /\ sched # "LOOP" /\ prop = "WAIT"
    /\ prop' = "CANCEL"
    /\ cancelled' = cut
    /\ UNCHANGED <<left, deadline, request, schedule, execution>>

(* A node of the caller's tuple found below a cancelled one. *)
CancelBelow(n) ==
    /\ prop = "CANCEL"
    /\ n \notin cancelled /\ deps[n] \cap cancelled # {}
    /\ cancelled' = cancelled \cup {n}
    /\ UNCHANGED <<prop, left, deadline, request, schedule, execution>>

(* Mutant: one level is enough. *)
CancelOnce ==
    /\ prop = "CANCEL"
    /\ \A n \in Node \ cancelled : deps[n] \cap cut = {}
    /\ prop' = "DEADLINE"
    /\ UNCHANGED <<cancelled, left, deadline, request, schedule, execution>>

(* A pass that changed nothing. *)
CancelDone ==
    /\ prop = "CANCEL"
    /\ \A n \in Node \ cancelled : deps[n] \cap cancelled = {}
    /\ prop' = "DEADLINE"
    /\ UNCHANGED <<cancelled, left, deadline, request, schedule, execution>>

(* Mutant: remaining.remove(node_id) is forgotten. *)
DeadlineForever ==
    /\ prop = "DEADLINE" /\ left # {}
    /\ Ready(left) # {}
    /\ deadline' = [n \in Node |->
            IF n \in Ready(left)
            THEN Tightest({root, own[n]} \cup {deadline[d] : d \in deps[n]})
            ELSE deadline[n]]
    /\ UNCHANGED <<left, prop, cancelled, request, schedule, execution>>

(* One turn of the second loop: every ready node at once. *)
DeadlineLevel ==
    /\ prop = "DEADLINE" /\ left # {}
    /\ Ready(left) # {}
    /\ deadline' = [n \in Node |->
            IF n \in Ready(left)
            THEN Tightest({root, own[n]} \cup {deadline[d] : d \in deps[n]})
            ELSE deadline[n]]
    /\ left' = left \ Ready(left)
    /\ UNCHANGED <<prop, cancelled, request, schedule, execution>>

DeadlineRefuse ==
    /\ prop = "DEADLINE" /\ left # {}
    /\ Ready(left) = {}
    /\ prop' = "REFUSED"
    /\ UNCHANGED <<cancelled, left, deadline, request, schedule, execution>>

DeadlineDone ==
    /\ prop = "DEADLINE" /\ left = {}
    /\ prop' = "PLANNED"
    /\ UNCHANGED <<cancelled, left, deadline, request, schedule, execution>>

-----------------------------------------------------------------------------
Planned == sched = "PLANNED" /\ prop = "PLANNED"

InWave(n) == Planned /\ at <= Len(waves) /\ n \in waves[at]

(* The executor asks for the locks of a node it was not told to cancel. *)
Begin(n) ==
    /\ InWave(n) /\ run[n] = "PENDING" /\ n \notin cancelled
    /\ run' = [run EXCEPT ![n] = "RUNNING"]
    /\ todo' = [todo EXCEPT ![n] = LocksOf(n)]
    /\ UNCHANGED <<at, held, request, schedule, propagation>>

Skip(n) ==
    /\ InWave(n) /\ run[n] = "PENDING" /\ n \in cancelled
    /\ run' = [run EXCEPT ![n] = "SKIPPED"]
    /\ UNCHANGED <<at, todo, held, request, schedule, propagation>>

Acquire(n) ==
    /\ run[n] = "RUNNING" /\ todo[n] # {}
    /\ held[NextLock(n)] = Free
    /\ held' = [held EXCEPT ![NextLock(n)] = n]
    /\ todo' = [todo EXCEPT ![n] = @ \ {NextLock(n)}]
    /\ UNCHANGED <<at, run, request, schedule, propagation>>

Finish(n) ==
    /\ run[n] = "RUNNING" /\ todo[n] = {}
    /\ run' = [run EXCEPT ![n] = "ENDED"]
    /\ held' = [l \in Lock |-> IF held[l] = n THEN Free ELSE held[l]]
    /\ UNCHANGED <<at, todo, request, schedule, propagation>>

(* Mutant: the next wave starts when this one has started. *)
NextWaveEager ==
    /\ Planned /\ at <= Len(waves)
    /\ \A n \in waves[at] : run[n] # "PENDING"
    /\ at' = at + 1
    /\ UNCHANGED <<run, todo, held, request, schedule, propagation>>

NextWave ==
    /\ Planned /\ at <= Len(waves)
    /\ \A n \in waves[at] : run[n] \in {"ENDED", "SKIPPED"}
    /\ at' = at + 1
    /\ UNCHANGED <<run, todo, held, request, schedule, propagation>>

Refused == sched = "REFUSED" \/ prop = "REFUSED"
Over == prop \in {"PLANNED", "REFUSED"} /\ (Refused \/ (Planned /\ at > Len(waves)))

(* Nothing is left to do. *)
Rest == Over /\ UNCHANGED vars

Plan ==
    \/ ScheduleWave \/ ScheduleRefuse \/ ScheduleDone
    \/ PropagationCall
    \/ \E n \in Node : CancelBelow(n)
    \/ CancelDone
    \/ DeadlineLevel \/ DeadlineRefuse \/ DeadlineDone

NodeStep(n) == Begin(n) \/ Skip(n) \/ Acquire(n) \/ Finish(n)

Next == Plan \/ (\E n \in Node : NodeStep(n)) \/ NextWave \/ Rest

Spec == Init /\ [][Next]_vars

(* A planner runs to its end, and so does a node that can go on. *)
FairSpec ==
    /\ Spec
    /\ WF_vars(Plan)
    /\ \A n \in Node : WF_vars(NodeStep(n))
    /\ WF_vars(NextWave)

-----------------------------------------------------------------------------
TypeOK ==
    /\ deps \in [Node -> SUBSET Node]
    /\ par \in 1..6 /\ cut \subseteq Node /\ own \in [Node -> Nat] /\ root \in Nat
    /\ sched \in {"LOOP", "PLANNED", "REFUSED"}
    /\ remaining \subseteq Node
    /\ waves \in Seq(SUBSET Node)
    /\ prop \in {"WAIT", "CANCEL", "DEADLINE", "PLANNED", "REFUSED"}
    /\ cancelled \subseteq Node /\ left \subseteq Node
    /\ deadline \in [Node -> Nat]
    /\ at \in 1..(Len(waves) + 1)
    /\ run \in [Node -> {"PENDING", "RUNNING", "ENDED", "SKIPPED"}]
    /\ todo \in [Node -> SUBSET Lock]
    /\ held \in [Lock -> Node \cup {Free}]

(* Nodes that all depend on one another: each has a dependency among them. *)
Cyclic(nodes) == nodes # {} /\ \A n \in nodes : deps[n] \cap nodes # {}

(* The two planners refuse exactly the graphs with a cycle, each by a loop  *)
(* of its own; the scheduler's takes max_parallel at a time, the other's a  *)
(* whole level, and they must not disagree about a graph.                   *)
RefusesCyclesOnly ==
    /\ Refused => \E nodes \in SUBSET Node : Cyclic(nodes)
    /\ sched = "PLANNED" \/ prop = "PLANNED" =>
            \A nodes \in SUBSET Node : ~Cyclic(nodes)

(* Every node is in one wave or still remains, and what it depends on is in *)
(* an earlier wave, the nodes max_parallel cut off included; waves are      *)
(* neither empty nor wider than max_parallel.                               *)
WavesRespectDependencies ==
    /\ \A n \in Node : n \in remaining <=> \A i \in 1..Len(waves) : n \notin waves[i]
    /\ \A i, j \in 1..Len(waves) : i # j => waves[i] \cap waves[j] = {}
    /\ \A i \in 1..Len(waves) :
        /\ waves[i] # {} /\ Cardinality(waves[i]) <= par
        /\ \A n \in waves[i] : deps[n] \subseteq UNION {waves[j] : j \in 1..(i - 1)}

(* Without dependencies the waves of a DAG are the slices of a batch. *)
BatchIsDagWithoutEdges ==
    sched = "PLANNED" /\ (\A n \in Node : deps[n] = {}) => waves = BatchWaves

(* What the scheduler answers is right for every graph: a schedule exactly  *)
(* when there is one, in an order the dependencies allow, and the batch     *)
(* planner's slices where there are none.                                   *)
SchedulesAreSound == RefusesCyclesOnly /\ WavesRespectDependencies /\ BatchIsDagWithoutEdges

Closed(nodes) == \A n \in Node : deps[n] \cap nodes # {} => n \in nodes
Below(nodes) ==
    {n \in Node : \A set \in SUBSET Node : nodes \subseteq set /\ Closed(set) => n \in set}

(* A cancellation reaches everything below what it names, whatever order    *)
(* the caller lists the nodes in, and nothing else.                         *)
CancelsBelow == prop = "PLANNED" => cancelled = Below(cut)

(* Each node gets the tightest of the deadlines set on it, above it and on  *)
(* the whole plan, and no deadline only when none of these is set.          *)
DeadlinesTighten ==
    prop = "PLANNED" => \A n \in Node :
        LET above == {root} \cup {own[m] : m \in {a \in Node : n \in Below({a})}}
        IN  /\ deadline[n] \in above
            /\ \A d \in above \ {None} : deadline[n] \in 1..d

(* What is cancelled and by when a node must end are each the least fixpoint *)
(* over the graph, reached in whatever order the loops visit it.            *)
PropagationIsExact == CancelsBelow /\ DeadlinesTighten

(* In the run, nothing starts while a node it depends on has not ended, and *)
(* nothing ever runs below a node that was cancelled.                       *)
RunsAfterDependencies ==
    \A n \in Node : run[n] \in {"RUNNING", "ENDED"} =>
        \A d \in deps[n] : run[d] = "ENDED"

Waits(n, m) == run[n] = "RUNNING" /\ todo[n] # {} /\ held[NextLock(n)] = m

(* Whatever order nodes name their locks in, no nodes wait on one another   *)
(* in a circle.                                                             *)
NoCircularWait ==
    \A nodes \in SUBSET Node :
        nodes # {} => \E n \in nodes : \A m \in nodes : ~Waits(n, m)

(* Every plan is refused or run to its end. *)
EveryPlanEnds == <>Over
=============================================================================
