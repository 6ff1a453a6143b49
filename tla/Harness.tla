------------------------------ MODULE Harness -------------------------------
(***************************************************************************)
(* make test of wolfbench (Makefile.benchmark): a tool leaves its module   *)
(* (Driver), the module becomes a program, and the program is run under a  *)
(* watchdog and judged (TimedExec).  make runs the tool as often as it is  *)
(* asked to, and goes on with any complete file it finds.                  *)
(***************************************************************************)
EXTENDS Driver, TimedExec

VARIABLES
  built,    \* the module the test program is made of, or None
  exitok    \* EXITOK of RunSafely.sh is not 0

vars == <<driver, timed, built, exitok>>

Init ==
  /\ DriverInit
  /\ TimedInit
  /\ built = None
  /\ exitok \in BOOLEAN

Untested == \A r \in Run : prog[r] = "none"

\* %.tune.bc: %.opt.bc
RunTool ==
  /\ Untested
  /\ DriverNext
  /\ built' = None
  /\ UNCHANGED <<timed, exitok>>

\* $(EXE): the code generator and the compiler take a complete file only.
Link ==
  /\ Untested
  /\ pc = 0
  /\ target \in Module
  /\ built' = target
  /\ UNCHANGED <<driver, timed, exitok>>

\* $(EXEOUT): $(EXE)
Testing(A) == built # None /\ A /\ UNCHANGED <<driver, built, exitok>>

RunTests == Testing(TimedNext(exitok))

Next == RunTool \/ Link \/ RunTests

\* Time passes, a watchdog acts when its sleep is over, and the shell that
\* waits for the program goes on.  Nothing makes the program end, nor anyone
\* run a tool or a test.
Fairness ==
  /\ WF_vars(Testing(Tick))
  /\ \A r \in Run : /\ WF_vars(Testing(Dog(r)))
                    /\ WF_vars(Testing(Reap(r)))
                    /\ WF_vars(Testing(Judge(r, exitok)))

Spec == Init /\ [][Next]_vars /\ Fairness

-----------------------------------------------------------------------------

\* TYPE: what the variables of the two halves and of make range over.
TypeOK ==
  /\ DriverTypeOK
  /\ TimedTypeOK
  /\ built \in Module \cup {None}
  /\ exitok \in BOOLEAN

\* What RunSafely.sh lets pass has ended by itself, was never killed by its
\* watchdog, and was made from a module that its tool would not have refused
\* and that the statistics beside it are about.
OkMeansOk ==
  \A r \in Run : verdict[r] = "ok" =>
    /\ status[r] \in {0, 1}
    /\ exitok => status[r] = 0
    /\ built \in Module
    /\ Verifies => built \notin Rejected
    /\ HasStats => csv = Counts(built)

\* Every test comes to a verdict, whatever its program does with the signals
\* it can catch: RunSafely.sh waits for it without a limit of its own.
EveryRunJudged ==
  \A r \in Run : prog[r] = "running" ~> verdict[r] # None
=============================================================================
