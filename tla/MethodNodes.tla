----------------------------- MODULE MethodNodes -----------------------------
(***************************************************************************)
(* Method files: parsing one into a graph of nodes (MethodNodesTable.c and *)
(* MethodNodesStack.c, driven by the grammar of MethodParser.y), executing *)
(* the graph and terminating it (methodFileManager.c).                     *)
(*                                                                         *)
(* The graph, its head, the stack of open loops and the mutex are global:  *)
(* there is one of each for all the clients that execute a method.  A      *)
(* thread is the one that serves a client (or the autonomous one, which    *)
(* calls the same function); it executes a method inside the handler of    *)
(* its EXM command, and terminates in that of its TRM command.             *)
(***************************************************************************)
EXTENDS Integers, Sequences, FiniteSets

CONSTANTS Thread,      \* the threads
          Executor,    \* those that may execute a method
          Terminator,  \* those that may send TRM while they execute nothing
          NoThread,
          Method,      \* the method files that may be active
          Wrap,        \* ULONG_MAX + 1
          MaxDepth,    \* MAXCONTROLFLOWDEPTH: what a push beyond it does is not modelled
          MaxRuns      \* bound of the model: executions

\* A statement of a method file, and its number of iterations or seconds.
Stmt == [k : {"cmd", "end"}] \cup [k : {"loop", "delay"}, n : Nat]

ASSUME ThreadAssumption ==
  Executor \subseteq Thread /\ Terminator \subseteq Thread /\ NoThread \notin Thread
ASSUME MethodAssumption == Method \subseteq Seq(Stmt)
ASSUME SizeAssumption == Wrap \in Nat \ {0, 1} /\ MaxDepth \in Nat

-----------------------------------------------------------------------------
VARIABLES
  nodes,      \* every node allocated so far; a pointer is an index, NULL is 0
  freed,      \* the nodes that were freed
  head,       \* head of the list
  current,    \* the node that the next one is linked to
  stack,      \* contents of openControlStack
  haveStack,  \* openControlStack # NULL: it is never reset
  mutex,      \* holder of nodesMutex
  traversing, \* traversingNodes
  pc,         \* where each thread is
  text,       \* text[t]: the method file t parses and executes
  line,       \* line[t]: the statement t parses next
  node,       \* node[t]: the local variable node
  runs        \* executions so far

list == <<nodes, freed, head, current, stack, haveStack, mutex, traversing>>
locals == <<pc, text, line, node>>
vars == <<list, locals, runs>>

NULL == 0

\* Where a thread is.  "clear" to "reset" are the steps of clearNodes; the thread
\* is in its EXM handler if line[t] # 0, in that of TRM otherwise.
PC == {"idle", "clear", "lock", "free", "stop", "reset", "parse", "closeDelay", "fetch",
       "evaluate", "command", "poll", "finish"}

\* stmt and run say which statement of which execution a node was built from.
\* The code has no such fields and no action reads them.
Node == [type : {"cmd", "loop", "delay"}, argc : Nat, argv : Nat, next : Nat,
         branch : Nat, closed : BOOLEAN, stmt : Nat, run : Nat]

TypeOK ==
  /\ nodes \in Seq(Node)
  /\ freed \subseteq DOMAIN nodes
  /\ head \in {NULL} \cup DOMAIN nodes
  /\ current \in {NULL} \cup DOMAIN nodes
  /\ stack \in Seq(DOMAIN nodes)
  /\ haveStack \in BOOLEAN
  /\ mutex \in Thread \cup {NoThread}
  /\ traversing \in BOOLEAN
  /\ pc \in [Thread -> PC]
  /\ text \in [Thread -> Method \cup {<<>>}]
  /\ \A t \in Thread : line[t] \in 0..(Len(text[t]) + 1)
  /\ node \in [Thread -> {NULL} \cup DOMAIN nodes]
  /\ runs \in 0..MaxRuns

Init ==
  /\ nodes = <<>> /\ freed = {}
  /\ head = NULL /\ current = NULL
  /\ stack = <<>> /\ haveStack = FALSE
  /\ mutex = NoThread /\ traversing = FALSE
  /\ pc = [t \in Thread |-> "idle"]
  /\ text = [t \in Thread |-> <<>>]
  /\ line = [t \in Thread |-> 0]
  /\ node = [t \in Thread |-> NULL]
  /\ runs = 0

Goto(t, l) == pc' = [pc EXCEPT ![t] = l]

-----------------------------------------------------------------------------
(* The two handlers, and clearNodes: free the list, unless there ever was a *)
(* control node, and forget its head.                                       *)

\* receiveExecuteMethod: the active method file is opened and clearNodes called.
\* (runResponding only selects what is sent to a client.  When there is no selection, or
\* no such file, the handler touches no node and only tells the client that the method
\* is complete: MethodFiles has these paths.)
Execute(t) ==
  /\ t \in Executor
  /\ pc[t] = "idle"
  /\ runs < MaxRuns
  /\ runs' = runs + 1
  /\ \E m \in Method : text' = [text EXCEPT ![t] = m]
  /\ line' = [line EXCEPT ![t] = 1]
  /\ Goto(t, "clear")
  /\ UNCHANGED <<list, node>>

\* receiveTerminateMethod: runResponding = 0, stopNodes, clearNodes.
Terminate(t) ==
  /\ t \in Terminator
  /\ pc[t] = "idle"
  /\ traversing' = FALSE
  /\ Goto(t, "clear")
  /\ UNCHANGED <<nodes, freed, head, current, stack, haveStack, mutex, text, line,
                 node, runs>>

\* traverseNodes: nothing is traversed once the stack exists; otherwise the head
\* is read before the mutex is taken.
ReadHead(t) ==
  /\ pc[t] = "clear"
  /\ IF haveStack
       THEN Goto(t, "reset") /\ UNCHANGED <<node, traversing>>
       ELSE /\ node' = [node EXCEPT ![t] = head]
            /\ traversing' = TRUE
            /\ Goto(t, "lock")
  /\ UNCHANGED <<nodes, freed, head, current, stack, haveStack, mutex, text, line, runs>>

LockNodes(t) ==
  /\ pc[t] = "lock"
  /\ mutex = NoThread
  /\ mutex' = t
  /\ Goto(t, "free")
  /\ UNCHANGED <<nodes, freed, head, current, stack, haveStack, traversing, text,
                 line, node, runs>>

\* freeNode.  There is no control node in a list that is freed.
FreeNode(t) ==
  /\ pc[t] = "free"
  /\ node[t] # NULL /\ traversing
  /\ freed' = freed \cup {node[t]}
  /\ node' = [node EXCEPT ![t] = nodes[node[t]].next]
  /\ UNCHANGED <<nodes, head, current, stack, haveStack, mutex, traversing, pc, text,
                 line, runs>>

\* Faulty: traverseNodes returns with the mutex.
UnlockNodes_KeepMutex(t) ==
  /\ pc[t] = "free"
  /\ node[t] = NULL \/ ~traversing
  /\ Goto(t, "stop")
  /\ UNCHANGED <<nodes, freed, head, current, stack, haveStack, mutex, traversing, text,
                 line, node, runs>>

UnlockNodes(t) ==
  /\ pc[t] = "free"
  /\ node[t] = NULL \/ ~traversing
  /\ mutex' = NoThread
  /\ Goto(t, "stop")
  /\ UNCHANGED <<nodes, freed, head, current, stack, haveStack, traversing, text, line,
                 node, runs>>

\* traversingNodes = 0, after the unlock.
StopTraversing(t) ==
  /\ pc[t] = "stop"
  /\ traversing' = FALSE
  /\ Goto(t, "reset")
  /\ UNCHANGED <<nodes, freed, head, current, stack, haveStack, mutex, text, line,
                 node, runs>>

\* Faulty: the head of the freed list is kept.
ResetHead_Keep(t) ==
  /\ pc[t] = "reset"
  /\ node' = [node EXCEPT ![t] = NULL]
  /\ Goto(t, IF line[t] = 0 THEN "idle" ELSE "parse")
  /\ UNCHANGED <<nodes, freed, head, current, stack, haveStack, mutex, traversing,
                 text, line, runs>>

\* clearNodes: head = NULL, outside the mutex.
ResetHead(t) ==
  /\ pc[t] = "reset"
  /\ head' = NULL
  /\ node' = [node EXCEPT ![t] = NULL]
  /\ Goto(t, IF line[t] = 0 THEN "idle" ELSE "parse")
  /\ UNCHANGED <<nodes, freed, current, stack, haveStack, mutex, traversing, text,
                 line, runs>>

-----------------------------------------------------------------------------
(* yyparse: a statement at a time, each call under the mutex.               *)

\* The statement that t parses next is of kind k.
AtStatement(t, k) ==
  /\ pc[t] = "parse"
  /\ line[t] \in DOMAIN text[t]
  /\ text[t][line[t]].k = k

NextLine(t) == line' = [line EXCEPT ![t] = @ + 1]

\* buildCommandNode and buildControlNode.
NewNode(t, type, n) ==
  [type |-> type, argc |-> n, argv |-> n, next |-> NULL, branch |-> NULL,
   closed |-> type = "cmd", stmt |-> line[t], run |-> runs]

\* Faulty: a node is always the next of the one before.
LinkNode_NoBranch(d) ==
  LET id == Len(nodes) + 1
  IN /\ nodes' = Append(IF head = NULL THEN nodes
                        ELSE [nodes EXCEPT ![current].next = id], d)
     /\ head' = IF head = NULL THEN id ELSE head
     /\ current' = id

\* linkNode: a node follows an open control node as its branch, and any other
\* node as its next.
LinkNode(d) ==
  LET id == Len(nodes) + 1
      linked == IF head = NULL THEN nodes
                ELSE IF nodes[current].closed
                  THEN [nodes EXCEPT ![current].next = id]
                  ELSE [nodes EXCEPT ![current].branch = id]
  IN /\ nodes' = Append(linked, d)
     /\ head' = IF head = NULL THEN id ELSE head
     /\ current' = id

\* The stack of the control nodes that are open: it is made with the first one and
\* never destroyed.  It is empty as long as it is not there.
initStack == haveStack' = TRUE
stackIsEmpty == stack = <<>>
stackIsFull == Len(stack) >= MaxDepth

\* stackPush reports a full stack, and writes beyond the array: the model stops here.
stackPush(id) == ~stackIsFull /\ stack' = Append(stack, id)
stackPop == stack' = SubSeq(stack, 1, Len(stack) - 1)

AddCommandNode(t) ==
  /\ AtStatement(t, "cmd")
  /\ mutex = NoThread
  /\ LinkNode(NewNode(t, "cmd", 0))
  /\ NextLine(t)
  /\ UNCHANGED <<freed, stack, haveStack, mutex, traversing, pc, text, node,
                 runs>>

AddControlNode(t, type) ==
  /\ AtStatement(t, type)
  /\ mutex = NoThread
  /\ LinkNode(NewNode(t, type, text[t][line[t]].n))
  /\ initStack
  /\ stackPush(Len(nodes) + 1)
  /\ IF type = "delay" THEN Goto(t, "closeDelay") /\ UNCHANGED line
                       ELSE NextLine(t) /\ UNCHANGED pc
  /\ UNCHANGED <<freed, mutex, traversing, text, node, runs>>

\* closeControlNode, for an end of loop and after the node of a delay.  With an
\* empty stack it returns without unlocking.
CloseControlNode(t) ==
  /\ AtStatement(t, "end") \/ pc[t] = "closeDelay"
  /\ mutex = NoThread
  /\ IF stackIsEmpty
       THEN /\ mutex' = t
            /\ UNCHANGED <<nodes, current, stack>>
       ELSE LET d == stack[Len(stack)]
                linked == IF d = current
                            THEN [nodes EXCEPT ![current].branch = current]
                            ELSE [nodes EXCEPT ![current].next = d]
            IN /\ nodes' = [linked EXCEPT ![d].closed = TRUE]
               /\ current' = d
               /\ stackPop
               /\ UNCHANGED mutex
  /\ NextLine(t)
  /\ Goto(t, "parse")
  /\ UNCHANGED <<freed, head, haveStack, traversing, text, node, runs>>

ParseEnd(t) ==
  /\ pc[t] = "parse"
  /\ line[t] = Len(text[t]) + 1
  /\ Goto(t, "fetch")
  /\ UNCHANGED <<list, text, line, node, runs>>

-----------------------------------------------------------------------------
(* The execution loop of receiveExecuteMethod.                              *)

\* getHeadNode: an open control node is reported, and the head returned anyway.
Fetch(t) ==
  /\ pc[t] = "fetch"
  /\ node' = [node EXCEPT ![t] = head]
  /\ Goto(t, "evaluate")
  /\ UNCHANGED <<list, text, line, runs>>

\* evaluateNode on a command node: the command is called ...
CallCommand(t) ==
  /\ pc[t] = "evaluate"
  /\ node[t] # NULL
  /\ nodes[node[t]].type = "cmd"
  /\ Goto(t, "command")
  /\ UNCHANGED <<list, text, line, node, runs>>

\* ... and the node's successor read when it has returned.
ReturnCommand(t) ==
  /\ pc[t] = "command"
  /\ node' = [node EXCEPT ![t] = nodes[node[t]].next]
  /\ Goto(t, "poll")
  /\ UNCHANGED <<list, text, line, runs>>

\* decCounterToZero and methodDelay: the counter is an unsigned long.
Decremented(d) == (d.argc - 1) % Wrap

\* evaluateNode on a control node.  (A delay also sends its client a message.)
VisitControl(t) ==
  /\ pc[t] = "evaluate"
  /\ node[t] # NULL
  /\ nodes[node[t]].type # "cmd"
  /\ LET d == nodes[node[t]]
         more == Decremented(d) # 0
         argc == IF more THEN Decremented(d) ELSE d.argv
     IN /\ nodes' = [nodes EXCEPT ![node[t]].argc = argc]
        /\ node' = [node EXCEPT ![t] = IF more THEN d.branch ELSE d.next]
  /\ Goto(t, "poll")
  /\ UNCHANGED <<freed, head, current, stack, haveStack, mutex, traversing, text,
                 line, runs>>

\* recv with a timeout of a second: a TRM byte of the same client ends the loop.
Poll(t) ==
  /\ pc[t] = "poll"
  /\ Goto(t, "evaluate") \/ Goto(t, "finish")
  /\ UNCHANGED <<list, text, line, node, runs>>

EndOfList(t) ==
  /\ pc[t] = "evaluate"
  /\ node[t] = NULL
  /\ Goto(t, "finish")
  /\ UNCHANGED <<list, text, line, node, runs>>

\* closeDataFile, and METHOD_COMPLETED_CMD to the client.
Finish(t) ==
  /\ pc[t] = "finish"
  /\ Goto(t, "idle")
  /\ text' = [text EXCEPT ![t] = <<>>]
  /\ line' = [line EXCEPT ![t] = 0]
  /\ node' = [node EXCEPT ![t] = NULL]
  /\ UNCHANGED <<list, runs>>

-----------------------------------------------------------------------------
Parse(t) ==
  \/ AddCommandNode(t)
  \/ \E type \in {"loop", "delay"} : AddControlNode(t, type)
  \/ CloseControlNode(t)
  \/ ParseEnd(t)

Run(t) ==
  \/ ReadHead(t) \/ LockNodes(t) \/ FreeNode(t) \/ UnlockNodes(t) \/ StopTraversing(t)
  \/ ResetHead(t)
  \/ Parse(t)
  \/ Fetch(t) \/ CallCommand(t) \/ ReturnCommand(t) \/ VisitControl(t) \/ Poll(t)
  \/ EndOfList(t) \/ Finish(t)

Next == \E t \in Thread : Execute(t) \/ Terminate(t) \/ Run(t)

Spec == Init /\ [][Next]_vars

\* Every thread that can take a step is scheduled.
FairSpec == Spec /\ \A t \in Thread : WF_vars(Run(t))

-----------------------------------------------------------------------------
(* Properties.                                                              *)

Executing(t) == pc[t] \in {"evaluate", "command", "poll"}

\* The interpreter's view of the last execution that was started.
NodeOf(i) == CHOOSE d \in DOMAIN nodes : nodes[d].run = runs /\ nodes[d].stmt = i

\* The thread that executes methods: the only one in the runs that look at it.
Walker == CHOOSE t \in Executor : TRUE
WalkedText == IF Executing(Walker) THEN text[Walker] ELSE <<>>
Position == IF ~Executing(Walker) THEN 0
            ELSE IF node[Walker] = NULL THEN Len(WalkedText) + 1
            ELSE nodes[node[Walker]].stmt
Counters ==
  [i \in DOMAIN WalkedText |->
     IF WalkedText[i].k \in {"loop", "delay"} THEN nodes[NodeOf(i)].argc ELSE 0]

Walk == INSTANCE MethodText
          WITH text <- WalkedText, pos <- Position, count <- Counters

\* Walking the graph executes the text of the method: the same statements in the
\* same order, with the same counters, whatever methods were parsed before and
\* left on the stack.  (With one thread that executes methods.)
ExecutesText == Walk!TSpec

\* No node is used after it was freed: not by the execution, nor through the head
\* or an open loop.
NoDangling ==
  /\ \A t \in Thread : Executing(t) /\ node[t] # NULL => node[t] \notin freed
  /\ \A t \in Thread : pc[t] = "parse" /\ head # NULL => {head, current} \cap freed = {}
  /\ \A i \in DOMAIN stack : stack[i] \notin freed

\* Every execution comes to its end, and its client is told so ("Let the GUI know
\* that method file execution has terminated"): no step of parsing or executing a
\* method waits for ever, and no loop or delay is endless.
MethodCompletes == \A t \in Thread : line[t] # 0 ~> line[t] = 0

=============================================================================
