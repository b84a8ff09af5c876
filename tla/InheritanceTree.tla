--------------------------- MODULE InheritanceTree ---------------------------
(***************************************************************************)
(* The inheritance tree of the group auth plugin: which permissions a      *)
(* permission stands for.  The tree of the configuration is validated, and *)
(* a depth-first search, one run from each key with visited nodes of its   *)
(* own and results shared by all runs, maps every permission to what it    *)
(* inherits.  The search is recursive in the code; here its calls are      *)
(* frames of a stack.  A tree may have cycles.                             *)
(***************************************************************************)
EXTENDS Naturals, Sequences

CONSTANTS Permissions,
          Trees  \* the trees: [wild, nodes], the keys with "*" and the others with their children

Star == "*"
Names == Permissions \cup {Star}

IsTree(t) ==
  /\ t.wild \subseteq Permissions /\ DOMAIN t.nodes \subseteq Permissions \ t.wild
  /\ \A p \in DOMAIN t.nodes : t.nodes[p] \in Seq(Names)

ASSUME TreesAssumption == Star \notin Permissions /\ \A t \in Trees : IsTree(t)

VARIABLES
  config,           \* the tree of the configuration
  phase,            \* where inheritanceTreePermissions is
  todo,             \* the keys that no run has started from
  stack,            \* calls of dfs: a node and the children that it has left
  visited,          \* visitedNodes of this run
  treePermissions   \* the result, by permission

treeVars == <<config, phase, todo, stack, visited, treePermissions>>

Named(s) == {s[i] : i \in DOMAIN s}
ChildList(p) == IF p \in DOMAIN config.nodes THEN config.nodes[p] ELSE <<>>
Top == stack[Len(stack)]

TreeStart(t) ==
  /\ config = t /\ phase = "validate"
  /\ todo = {} /\ stack = <<>> /\ visited = {}
  /\ treePermissions = [p \in {} |-> {}]

TreeInit == \E t \in Trees : TreeStart(t)

(* validateInheritanceTree *)
Valid == \A p \in DOMAIN config.nodes : Named(config.nodes[p]) \cap (config.wild \cup {Star}) = {}

Validate ==
  /\ phase = "validate"
  /\ IF Valid THEN phase' = "search" /\ todo' = DOMAIN config.nodes
              ELSE phase' = "error" /\ todo' = todo
  /\ UNCHANGED <<config, stack, visited, treePermissions>>

-----------------------------------------------------------------------------
(* depthFirstSearch *)

(* A call of dfs begins: the node gets an entry, and is visited. *)
Entered(p) == IF p \in DOMAIN treePermissions THEN treePermissions
              ELSE [q \in DOMAIN treePermissions \cup {p} |->
                      IF q = p THEN {p} ELSE treePermissions[q]]

(* A run from the next key, whichever the object gives. *)
Root ==
  /\ phase = "search" /\ stack = <<>>
  /\ \E p \in todo :
       /\ todo' = todo \ {p}
       /\ stack' = <<[node |-> p, left |-> ChildList(p)]>>
       /\ visited' = {p} /\ treePermissions' = Entered(p)
  /\ UNCHANGED <<config, phase>>

(* The next child was not visited: dfs of it. *)
Descend ==
  /\ stack # <<>> /\ Top.left # <<>> /\ Head(Top.left) \notin visited
  /\ LET c == Head(Top.left) IN
     /\ stack' = Append(stack, [node |-> c, left |-> ChildList(c)])
     /\ visited' = visited \cup {c} /\ treePermissions' = Entered(c)
  /\ UNCHANGED <<config, phase, todo>>

(* Mutant of Merge: what the parent stands for is added to the child's. *)
Merge_Swapped ==
  /\ stack # <<>> /\ Top.left # <<>> /\ Head(Top.left) \in visited
  /\ LET c == Head(Top.left) IN
     treePermissions' = [treePermissions EXCEPT ![c] = @ \cup treePermissions[Top.node]]
  /\ stack' = [stack EXCEPT ![Len(stack)].left = Tail(@)]
  /\ UNCHANGED <<config, phase, todo, visited>>

(* The next child was visited, before or by the call for it: what it       *)
(* stands for so far is added to its parent's.                             *)
Merge ==
  /\ stack # <<>> /\ Top.left # <<>> /\ Head(Top.left) \in visited
  /\ LET c == Head(Top.left) IN
     treePermissions' = [treePermissions EXCEPT ![Top.node] = @ \cup treePermissions[c]]
  /\ stack' = [stack EXCEPT ![Len(stack)].left = Tail(@)]
  /\ UNCHANGED <<config, phase, todo, visited>>

Return ==
  /\ stack # <<>> /\ Top.left = <<>>
  /\ stack' = SubSeq(stack, 1, Len(stack) - 1)
  /\ UNCHANGED <<config, phase, todo, visited, treePermissions>>

Finish ==
  /\ phase = "search" /\ stack = <<>> /\ todo = {}
  /\ phase' = "done"
  /\ UNCHANGED <<config, todo, stack, visited, treePermissions>>

TreeNext == Validate \/ Root \/ Descend \/ Merge \/ Return \/ Finish

TreeSpec == TreeInit /\ [][TreeNext]_treeVars

-----------------------------------------------------------------------------
Children(p) == Named(ChildList(p))
Closed(S) == \A p \in S : Children(p) \subseteq S

(* What p stands for: every set that has p and is closed has it. *)
Inherits(p) ==
  LET Around == {S \in SUBSET Names : p \in S /\ Closed(S)}
  IN  {q \in Names : \A S \in Around : q \in S}

Frames == [node : Permissions, left : Seq(Names)]

(* Every variable has its type; only permissions are searched. *)
TreeTypeOK ==
  /\ IsTree(config) /\ phase \in {"validate", "search", "done", "error"}
  /\ todo \subseteq DOMAIN config.nodes
  /\ stack \in Seq(Frames) /\ visited \subseteq Permissions
  /\ DOMAIN treePermissions \subseteq Permissions
  /\ \A p \in DOMAIN treePermissions : treePermissions[p] \subseteq Permissions

(* No call of dfs is inside another one for the same permission, which     *)
(* would not end (depthFirstSearch).                                       *)
NoReentry == \A i, j \in DOMAIN stack : stack[i].node = stack[j].node => i = j

(* A permission never stands for one that it does not inherit, not even    *)
(* while the search goes on (depthFirstSearch).                            *)
OnlyInherited == \A p \in DOMAIN treePermissions : treePermissions[p] \subseteq Inherits(p)

(* When the search is done, a permission stands for all that it inherits,  *)
(* directly or not, cycles or not, in whatever order the keys came.        *)
AllInherited ==
  phase = "done" => /\ DOMAIN config.nodes \subseteq DOMAIN treePermissions
                    /\ \A p \in DOMAIN treePermissions : Inherits(p) \subseteq treePermissions[p]

(* The result is what a permission inherits, no more and no less. *)
ResultIsInherited == OnlyInherited /\ AllInherited

(* The results are laid over the wildcards and hide none of them: a valid  *)
(* tree searches no key of a wildcard (inheritanceTreePermissions).        *)
WildcardsKept == DOMAIN treePermissions \cap (config.wild \cup {Star}) = {}
=============================================================================
