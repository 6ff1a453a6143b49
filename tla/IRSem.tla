-------------------------------- MODULE IRSem -------------------------------
(***************************************************************************)
(* What running a function shows to the outside: a reference interpreter   *)
(* for the instructions of IR, to compare a function before and after a    *)
(* pass.  What a machine word is, what the operations compute and what a   *)
(* callee does to memory are constants; what the passes rely on is said of *)
(* them in the assumptions.  A division by 0 and an access to anything but *)
(* a cell of memory trap.                                                  *)
(***************************************************************************)
EXTENDS IR, Sequences

CONSTANTS
  Word,       \* what instructions compute with; 0 is the value of Zero
  Cell,       \* the words that are addresses
  Compute,    \* Compute[k][x][y]: what an operation of kind k makes of x and y
  Returns,    \* Returns[x][mem]: what a call with x returns
  Clobbered,  \* Clobbered[x][mem]: the memory a call that writes leaves
  Env,        \* what the program cannot know
  Path        \* Path[g]: the paths through graph g that are executed

Memory   == [Cell -> Word]
Computed == {"sub", "div", "gep", "fcmp", "rmw"}
Reads    == Loads \cup {"rmw"}
Observed == {"vload", "vstore", "call", "term"}

\* An environment fixes the values of the leaves, the places of the allocas,
\* the initial memory and whether calls write to memory.
IsEnv(env) ==
  /\ env.leaf \in [Leaf -> Word]
  /\ env.leaf[Zero] = 0
  /\ env.frame \in [Id -> Word]
  /\ env.mem \in Memory
  /\ env.clobbers \in BOOLEAN

\* A machine: values of instructions, memory, what an observer has seen, and
\* whether it has trapped.
Machine(env) ==
  [val |-> [i \in Id |-> 0], mem |-> env.mem, seen |-> <<>>, trap |-> FALSE]

ValueOf(m, env, v) == IF v \in Id THEN m.val[v] ELSE env.leaf[v]

\* The address of an alloca or a global variable.
PlaceOf(env, x) == IF x \in Id THEN env.frame[x] ELSE env.leaf[x]

Traps(k, x, y) ==
  \/ k = "div" /\ y = 0
  \/ k \in Reads /\ x \notin Cell
  \/ k \in Stores /\ y \notin Cell

\* What instruction i of kind k yields for the operands x and y; one that
\* yields nothing has no use for its place.
Result(k, m, env, i, x, y) ==
  IF k \in Reads THEN m.mem[x]
  ELSE IF k = "alloca" THEN env.frame[i]
  ELSE IF k = "call" THEN Returns[x][m.mem]
  ELSE IF k \in Computed THEN Compute[k][x][y]
  ELSE m.val[i]

MemoryAfter(k, m, env, x, y) ==
  IF k \in Stores THEN [m.mem EXCEPT ![y] = x]
  ELSE IF k = "rmw" THEN [m.mem EXCEPT ![x] = Compute[k][@][y]]
  ELSE IF k = "call" /\ env.clobbers THEN Clobbered[x][m.mem]
  ELSE m.mem

\* A callee can look at all memory.
SeenAfter(k, m, i, x, y) ==
  IF k = "call" THEN Append(m.seen, <<i, x, y, m.mem>>)
  ELSE IF k \in Observed THEN Append(m.seen, <<i, x, y>>)
  ELSE m.seen

\* Effect of instruction i of kind k, which is not a phi.
Effect(k, m, env, i, x, y) ==
  IF Traps(k, x, y) THEN [m EXCEPT !.trap = TRUE]
  ELSE [val  |-> [m.val EXCEPT ![i] = Result(k, m, env, i, x, y)],
        mem  |-> MemoryAfter(k, m, env, x, y),
        seen |-> SeenAfter(k, m, i, x, y),
        trap |-> FALSE]

\* A body is what a pass leaves of a function: the live instructions, their
\* operands and blocks, and an order of them all.
Body(live, args, home, order) ==
  [live |-> live, args |-> args, home |-> home, order |-> order]

\* The function before the pass.
Parsed(P) == Body(Id, P.args, P.blk, [i \in Id |-> i])

\* The slot of phi i for the block the path comes from.
Incoming(P, i, from) == CHOOSE s \in Slot : P.from[i][s] = from

\* All phis of block b take the value that came in from block "from" at once.
Phis(P, body, m, env, from, b) ==
  [m EXCEPT !.val =
     [i \in Id |->
        IF i \in body.live /\ body.home[i] = b /\ P.kind[i] = "phi"
        THEN ValueOf(m, env, body.args[i][Incoming(P, i, from)])
        ELSE m.val[i]]]

\* Instruction i has its turn in block b.
Turn(P, body, env, b, i, m) ==
  IF ~m.trap /\ i \in body.live /\ body.home[i] = b /\ P.kind[i] # "phi"
  THEN Effect(P.kind[i], m, env, i, ValueOf(m, env, body.args[i][1]),
                                    ValueOf(m, env, body.args[i][2]))
  ELSE m

\* The machines that block b goes through when it is entered with m, after
\* each instruction of the order.
Turns(P, body, env, b, m) ==
  LET at[n \in 0..N] ==
        IF n = 0 THEN m ELSE Turn(P, body, env, b, body.order[n], at[n - 1])
  IN  at

\* The machine at the end of the k-th block of the path, which is entered with m.
ThroughBlock(P, body, env, path, k, m) ==
  Turns(P, body, env, path[k],
        Phis(P, body, m, env, IF k = 1 THEN path[1] ELSE path[k - 1], path[k]))[N]

ThroughPath(P, body, env, path) ==
  LET at[k \in 0..Len(path)] ==
        IF k = 0 THEN Machine(env) ELSE ThroughBlock(P, body, env, path, k, at[k - 1])
  IN  at

Run(P, body, env, path) == ThroughPath(P, body, env, path)[Len(path)]

\* What is left of the function behaves as the one parsed: along each path an
\* observer sees the same events and finds the same memory at the end.  A run
\* that trapped before the pass was undefined, so anything may replace it.
SameBehaviour(P, body, envs) ==
  \A env \in envs, path \in Path[P.graph] :
    LET before == Run(P, Parsed(P), env, path)
        after  == Run(P, body, env, path)
    IN  before.trap \/ /\ ~after.trap
                       /\ after.seen = before.seen
                       /\ after.mem  = before.mem

\* The memory of P, which only loads, stores and well-behaved calls touch.
PlainMemory(P, env) ==
  /\ \A i \in Id : P.kind[i] # "rmw"
  /\ env.clobbers => \A i \in Id : P.kind[i] # "call"

-----------------------------------------------------------------------------

\* Words, and the laws that SimplifyInstruction uses.
ASSUME WordAssumption ==
  /\ 0 \in Word
  /\ Cell \subseteq Word
  /\ Compute \in [Computed -> [Word -> [Word -> Word]]]
  /\ \A x \in Word : /\ Compute["sub"][x][x] = 0
                     /\ Compute["sub"][x][0] = x
                     /\ Compute["gep"][x][0] = x
  /\ Returns \in [Word -> [Memory -> Word]]
  /\ Clobbered \in [Word -> [Memory -> Memory]]

ASSUME EnvAssumption == \A env \in Env : IsEnv(env)

\* A path begins at the entry, which nothing dominates, and takes each step
\* along an edge: what dominates a block dominates what leads to it.
ASSUME PathAssumption ==
  \A g \in Graph : \A path \in Path[g] :
    /\ path \in Seq(Block) /\ path # <<>>
    /\ \A b \in Block : <<b, path[1]>> \in Dom[g] => b = path[1]
    /\ \A k \in 1..Len(path) - 1, b \in Block :
         <<b, path[k + 1]>> \in Dom[g] /\ b # path[k + 1] => <<b, path[k]>> \in Dom[g]

\* A phi has a value for each block that leads to its own.
ASSUME PhiAssumption ==
  \A P \in Programs : \A path \in Path[P.graph] : \A i \in Id, k \in 1..Len(path) :
    P.kind[i] = "phi" /\ P.blk[i] = path[k] =>
      k > 1 /\ \E s \in Slot : P.from[i][s] = path[k - 1]
=============================================================================
