------------------------------ MODULE TimedExec -----------------------------
(***************************************************************************)
(* wolfbench/TimedExec.sh under wolfbench/RunSafely.sh: the shell that     *)
(* becomes the test program starts a watchdog first.  The watchdog looks   *)
(* each second whether the process number of its parent is still taken,    *)
(* and after TIMEOUT seconds signals that number up to three times.  By    *)
(* then the number may be that of another process.                         *)
(*                                                                         *)
(* External: a process that has ended keeps its number until its parent    *)
(* has waited for it, and the system does not hand the number out again    *)
(* for another Rest seconds; a watchdog whose sleep is over acts before    *)
(* the next second.                                                        *)
(***************************************************************************)
EXTENDS Naturals

CONSTANTS
  Run,        \* runs of test programs
  TIMEOUT,    \* seconds, the first argument
  Rest,       \* seconds a process number stays unused
  None

VARIABLES
  prog,     \* of each run: "none", "running", "zombie", "gone"
  status,   \* its exit status
  age,      \* seconds since it began, up to TIMEOUT + 5
  free,     \* seconds its number has been free, up to Rest
  taken,    \* another process has its number
  dog,      \* its watchdog: "none", "poll", "term", "hup", "kill", "off"
  left,     \* seconds the watchdog still sleeps
  sec,      \* SEC
  verdict   \* what RunSafely.sh says of the run

timed == <<prog, status, age, free, taken, dog, left, sec, verdict>>

TERM == 143
HUP  == 129
KILL == 137

\* What a program can end with by itself: success, a failure, what the shell
\* says of a command it cannot run or find, 128, a signal of its own making.
Status == {0, 1, 126, 127, 128, 139}

TimedInit ==
  /\ prog = [r \in Run |-> "none"]
  /\ status = [r \in Run |-> None]
  /\ age = [r \in Run |-> 0]
  /\ free = [r \in Run |-> 0]
  /\ taken = [r \in Run |-> FALSE]
  /\ dog = [r \in Run |-> "none"]
  /\ left = [r \in Run |-> 0]
  /\ sec = [r \in Run |-> 0]
  /\ verdict = [r \in Run |-> None]

-----------------------------------------------------------------------------
(* Processes and time.                                                     *)

AtMost(n, bound) == IF n < bound THEN n ELSE bound

\* "$0 -p $$ $TIMEOUT $* &", then exec "$@" under the number of the shell.
Launch(r) ==
  /\ prog[r] = "none"
  /\ prog' = [prog EXCEPT ![r] = "running"]
  /\ dog' = [dog EXCEPT ![r] = "poll"]
  /\ left' = [left EXCEPT ![r] = 1]
  /\ UNCHANGED <<status, age, free, taken, sec, verdict>>

\* The program ends by itself, as it likes.
Ends(r) ==
  /\ prog[r] = "running"
  /\ prog' = [prog EXCEPT ![r] = "zombie"]
  /\ \E s \in Status : status' = [status EXCEPT ![r] = s]
  /\ UNCHANGED <<age, free, taken, dog, left, sec, verdict>>

\* sh -c '... ; echo exit $?' waits for it.
Reap(r) ==
  /\ prog[r] = "zombie"
  /\ prog' = [prog EXCEPT ![r] = "gone"]
  /\ UNCHANGED <<status, age, free, taken, dog, left, sec, verdict>>

\* Some other process gets the number, another run's program for one.
Reused(r) ==
  /\ free[r] = Rest
  /\ taken' = [taken EXCEPT ![r] = TRUE]
  /\ UNCHANGED <<prog, status, age, free, dog, left, sec, verdict>>

Due(r) == dog[r] \in {"poll", "term", "hup", "kill"} /\ left[r] = 0

Tick ==
  /\ \A r \in Run : ~Due(r)
  /\ left' = [r \in Run |-> IF left[r] = 0 THEN 0 ELSE left[r] - 1]
  /\ age' = [r \in Run |-> IF prog[r] = "running"
                           THEN AtMost(age[r] + 1, TIMEOUT + 5) ELSE age[r]]
  /\ free' = [r \in Run |-> IF prog[r] = "gone"
                            THEN AtMost(free[r] + 1, Rest) ELSE free[r]]
  /\ UNCHANGED <<prog, status, taken, dog, sec, verdict>>

-----------------------------------------------------------------------------
(* The watchdog.                                                           *)

\* kill finds the number taken, if only by a process nobody has waited for.
Found(r) == prog[r] \in {"running", "zombie"} \/ taken[r]

Sleeps(r, pc, n) ==
  /\ dog' = [dog EXCEPT ![r] = pc]
  /\ left' = [left EXCEPT ![r] = n]

\* A slip: the number is not looked at before the end.
PollBlindly(r) ==
  /\ dog[r] = "poll" /\ left[r] = 0
  /\ sec' = [sec EXCEPT ![r] = @ + 1]
  /\ IF sec'[r] < TIMEOUT THEN Sleeps(r, "poll", 1) ELSE Sleeps(r, "term", 0)
  /\ UNCHANGED <<prog, status, age, free, taken, verdict>>

\* while [ $SEC -lt $TIMEOUT ]; do sleep 1; kill -0 ...; SEC=$(($SEC + 1))
Poll(r) ==
  /\ dog[r] = "poll" /\ left[r] = 0
  /\ IF Found(r)
     THEN /\ sec' = [sec EXCEPT ![r] = @ + 1]
          /\ IF sec'[r] < TIMEOUT THEN Sleeps(r, "poll", 1)
                                  ELSE Sleeps(r, "term", 0)
     ELSE Sleeps(r, "off", 0) /\ UNCHANGED sec
  /\ UNCHANGED <<prog, status, age, free, taken, verdict>>

\* The program dies of a signal, or has caught it.
Hit(r, code) ==
  \/ /\ prog[r] = "running"
     /\ prog' = [prog EXCEPT ![r] = "zombie"]
     /\ status' = [status EXCEPT ![r] = code]
  \/ /\ code # KILL \/ prog[r] # "running"
     /\ UNCHANGED <<prog, status>>

\* kill ... && (sleep 2; ...): a kill that finds no process ends the chain.
Signal(r, now, code, then) ==
  /\ dog[r] = now /\ left[r] = 0
  /\ Hit(r, code)
  /\ IF Found(r) /\ then # "off" THEN Sleeps(r, then, 2)
                                 ELSE Sleeps(r, "off", 0)
  /\ UNCHANGED <<age, free, taken, sec, verdict>>

Term(r) == Signal(r, "term", TERM, "hup")

Hup(r) == Signal(r, "hup", HUP, "kill")

\* A slip: kill without -9.
KillCatchable(r) == Signal(r, "kill", TERM, "off")

Kill9(r) == Signal(r, "kill", KILL, "off")

-----------------------------------------------------------------------------
(* RunSafely.sh after the run.                                             *)

\* A slip: the statuses above 128 are those of the program.
SignalledIsFine(s, exitok) ==
  IF s = None \/ s \in 126..128 \/ (exitok /\ s # 0) THEN "failed" ELSE "ok"

\* exitval is 99 when "time" left no exit line; exitok is EXITOK # 0.
Judgement(s, exitok) ==
  IF s = None \/ s \in 126..255 \/ (exitok /\ s # 0) THEN "failed" ELSE "ok"

\* The exit line is in the .time file, or there is no "time" to write it.
Judge(r, exitok) ==
  /\ prog[r] = "gone"
  /\ verdict[r] = None
  /\ \E s \in {status[r], None} :
       verdict' = [verdict EXCEPT ![r] = Judgement(s, exitok)]
  /\ UNCHANGED <<prog, status, age, free, taken, dog, left, sec>>

-----------------------------------------------------------------------------

Dog(r) == Poll(r) \/ Term(r) \/ Hup(r) \/ Kill9(r)

TimedNext(exitok) ==
  \/ Tick
  \/ \E r \in Run : Launch(r) \/ Ends(r) \/ Reap(r) \/ Reused(r) \/ Judge(r, exitok)
  \/ \E r \in Run : Dog(r)

TimedTypeOK ==
  /\ prog \in [Run -> {"none", "running", "zombie", "gone"}]
  /\ status \in [Run -> Status \cup {TERM, HUP, KILL, None}]
  /\ age \in [Run -> 0..(TIMEOUT + 5)]
  /\ free \in [Run -> 0..Rest]
  /\ taken \in [Run -> BOOLEAN]
  /\ dog \in [Run -> {"none", "poll", "term", "hup", "kill", "off"}]
  /\ left \in [Run -> 0..2]
  /\ sec \in [Run -> 0..TIMEOUT]
  /\ verdict \in [Run -> {"ok", "failed", None}]

\* kill never reaches a process that has been given the number of the run
\* since, however the run ends between two looks of its watchdog (the calls
\* of kill in TimedExec.sh).
OwnProcessOnly ==
  \A r \in Run : Due(r) /\ dog[r] # "poll" => ~taken[r]

\* "times out if it does not complete in the allocated time frame": no signal
\* before TIMEOUT seconds, and whatever the program does with the first two
\* it is over four seconds later.
InTime ==
  \A r \in Run : /\ dog[r] \in {"term", "hup", "kill"} => age[r] >= TIMEOUT \/ prog[r] # "running"
                 /\ prog[r] = "running" => age[r] <= TIMEOUT + 4

-----------------------------------------------------------------------------

ASSUME TimeAssumption ==
  /\ TIMEOUT \in Nat \ {0}
  /\ Rest \in Nat
  /\ None \notin Status \cup {TERM, HUP, KILL}
  /\ None \notin {"ok", "failed"}

\* The longest the watchdog looks away is the two seconds before a signal.
ASSUME RestAssumption == Rest > 2
=============================================================================
