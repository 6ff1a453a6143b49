--------------------------- MODULE Harness_proofs ---------------------------
(***************************************************************************)
(* The safety properties of Harness for every set of modules and of runs,  *)
(* every time limit, and whatever the programs do.  The invariant has a    *)
(* part for the program (Placed, Reported, Verified, Left), one for each   *)
(* run of a test (Timed), and one for make (Made).                         *)
(***************************************************************************)
EXTENDS Harness, TLAPS

\* The programs that have a ToolOutputFile.
Tool == main \notin {"p1c", "dcec"}

\* Len(Mains[main])
Length ==
  IF HasStats THEN 8
  ELSE IF main = "dce" THEN 6
  ELSE IF main = "dcec" THEN 5
  ELSE IF main = "p1c" THEN 3
  ELSE 4

\* DriverTypeOK without check, the one variable that is a truth value.
Typed ==
  /\ main \in DOMAIN Mains
  /\ target \in Module \cup {Absent, Partial}
  /\ csv \in {Counts(m) : m \in Module} \cup {Absent, Partial}
  /\ mod \in Module \cup {NoModule}
  /\ out \in {"closed", "open", "written", "kept"}
  /\ pc \in 0..9
  /\ exit \in {"none", "running", "0", "1", "signal"}

\* What the place of the next statement says of the module and the file.
Placed ==
  /\ pc <= Length + 1
  /\ exit = "running" <=> pc # 0
  /\ pc = 0 => out = "closed"
  /\ pc > (IF Tool THEN 2 ELSE 1) => mod \in Module
  /\ Tool => /\ pc <= 1 => out = "closed"
             /\ pc > 1 => out # "closed" /\ target = Partial
             /\ out = "kept" <=> pc = Length + 1
  /\ ~Tool => out = "closed"

Reported ==
  HasStats => /\ pc > 5 => csv = Counts(mod)
              /\ pc <= 1 /\ target \in Module => csv = Counts(target)

\* Where the verifier has been passed.
Passed == Verifies /\ pc > (IF HasStats THEN 6 ELSE IF main = "dce" THEN 4 ELSE 3)

Verified ==
  /\ Passed => mod \notin Rejected
  /\ Verifies => target \notin Rejected

Left ==
  Tool => /\ exit \in {"0", "1"} => target # Partial
          /\ exit = "1" => target = Absent

DriverInv == check \in BOOLEAN /\ Typed /\ Placed /\ Reported /\ Verified /\ Left

\* How long a number has been free when its watchdog acts, and how old a
\* program still running is, from where the watchdog is.
Watched(r) ==
  /\ dog[r] = "poll" =>
       /\ sec[r] < TIMEOUT
       /\ left[r] <= 1
       /\ prog[r] = "gone" => free[r] <= 1 - left[r]
       /\ prog[r] = "running" => age[r] + left[r] = sec[r] + 1
  /\ dog[r] = "term" =>
       /\ left[r] = 0
       /\ free[r] = 0
       /\ prog[r] = "running" => age[r] = TIMEOUT
  /\ dog[r] = "hup" =>
       /\ prog[r] = "gone" => free[r] <= 2 - left[r]
       /\ prog[r] = "running" => age[r] + left[r] = TIMEOUT + 2
  /\ dog[r] = "kill" =>
       /\ prog[r] = "gone" => free[r] <= 2 - left[r]
       /\ prog[r] = "running" => age[r] + left[r] = TIMEOUT + 4

Timed(r) ==
  /\ prog[r] = "none" => dog[r] = "none" /\ age[r] = 0 /\ sec[r] = 0
  /\ prog[r] # "gone" => free[r] = 0 /\ verdict[r] = None
  /\ prog[r] = "running" => dog[r] \in {"poll", "term", "hup", "kill"}
  /\ taken[r] => free[r] = Rest
  /\ Watched(r)
  /\ verdict[r] = "ok" => status[r] \in {0, 1} /\ (exitok => status[r] = 0)

\* An action of another run leaves r alone.
Same(r) ==
  /\ prog'[r] = prog[r] /\ status'[r] = status[r] /\ age'[r] = age[r]
  /\ free'[r] = free[r] /\ taken'[r] = taken[r] /\ dog'[r] = dog[r]
  /\ left'[r] = left[r] /\ sec'[r] = sec[r] /\ verdict'[r] = verdict[r]

TimedInv == TimedTypeOK /\ exitok \in BOOLEAN /\ \A r \in Run : Timed(r)

Made ==
  /\ built # None => built = target /\ built \in Module /\ pc = 0
  /\ \A r \in Run : prog[r] # "none" => built # None

HarnessInv == DriverInv /\ TimedInv /\ Made

-----------------------------------------------------------------------------
(* Where the statements are.                                               *)

LEMMA MainNames ==
  DOMAIN Mains = {"p0", "p1", "p1c", "p2", "p2c", "p3", "dce", "dcec"}
BY DEF Mains

\* Which statement is where, in the programs with statistics ...
LEMMA PlacesOfStats ==
  ASSUME NEW s, HasStats
  PROVE  /\ Len(Mains[main]) = 8
         /\ At(s) <=> (pc = 1 /\ s = "open") \/ (pc = 2 /\ s = "parse") \/
                       (pc = 3 /\ s = "work") \/ (pc = 4 /\ s = "stats") \/
                       (pc = 5 /\ s = "print") \/ (pc = 6 /\ s = "verify") \/
                       (pc = 7 /\ s = "write") \/ (pc = 8 /\ s = "keep")
<1>1. Mains[main] = <<"open", "parse", "work", "stats", "print", "verify", "write", "keep">>
  BY DEF HasStats, Mains, P2Main, P3Main, P2CMain
<1> QED BY <1>1 DEF At

\* ... in those that only parse and write ...
LEMMA PlacesOfP0P1 ==
  ASSUME NEW s, main \in {"p0", "p1"}
  PROVE  /\ Len(Mains[main]) = 4
         /\ At(s) <=> (pc = 1 /\ s = "open") \/ (pc = 2 /\ s = "parse") \/
                       (pc = 3 /\ s = "write") \/ (pc = 4 /\ s = "keep")
<1>1. Mains[main] = <<"open", "parse", "write", "keep">>
  BY DEF Mains, P0Main, P1Main
<1> QED BY <1>1 DEF At

\* ... and in the other three.
LEMMA PlacesOfDCE ==
  ASSUME NEW s, main = "dce"
  PROVE  /\ Len(Mains[main]) = 6
         /\ At(s) <=> (pc = 1 /\ s = "open") \/ (pc = 2 /\ s = "parse") \/
                       (pc = 3 /\ s = "work") \/ (pc = 4 /\ s = "refuse") \/
                       (pc = 5 /\ s = "write") \/ (pc = 6 /\ s = "keep")
<1>1. Mains[main] = <<"open", "parse", "work", "refuse", "write", "keep">>
  BY DEF Mains, DCEMain
<1> QED BY <1>1 DEF At

LEMMA PlacesOfDCEC ==
  ASSUME NEW s, main = "dcec"
  PROVE  /\ Len(Mains[main]) = 5
         /\ At(s) <=> (pc = 1 /\ s = "parse") \/ (pc = 2 /\ s = "work") \/
                       (pc = 3 /\ s = "refuse") \/ (pc = 4 /\ s = "create") \/
                       (pc = 5 /\ s = "fill")
<1>1. Mains[main] = <<"parse", "work", "refuse", "create", "fill">>
  BY DEF Mains, DCECMain
<1> QED BY <1>1 DEF At

LEMMA PlacesOfP1C ==
  ASSUME NEW s, main = "p1c"
  PROVE  /\ Len(Mains[main]) = 3
         /\ At(s) <=> (pc = 1 /\ s = "parse") \/ (pc = 2 /\ s = "create") \/
                       (pc = 3 /\ s = "fill")
<1>1. Mains[main] = <<"parse", "create", "fill">>
  BY DEF Mains, P1CMain
<1> QED BY <1>1 DEF At

\* The same, by statement.
LEMMA Places ==
  ASSUME main \in DOMAIN Mains
  PROVE  /\ Len(Mains[main]) = Length
         /\ Length \in {3, 4, 5, 6, 8}
         /\ At("open") => Tool /\ pc = 1
         /\ At("parse") => pc = (IF Tool THEN 2 ELSE 1)
         /\ At("work") => /\ pc = (IF Tool THEN 3 ELSE 2)
                          /\ HasStats \/ main \in {"dce", "dcec"}
         /\ At("stats") => HasStats /\ pc = 4
         /\ At("print") => HasStats /\ pc = 5
         /\ At("verify") => HasStats /\ pc = 6
         /\ At("refuse") => (main = "dce" /\ pc = 4) \/ (main = "dcec" /\ pc = 3)
         /\ At("write") => Tool /\ pc = Length - 1
         /\ At("keep") => Tool /\ pc = Length
         /\ At("create") => ~Tool /\ pc = Length - 1
         /\ At("fill") => ~Tool /\ pc = Length
<1>1. CASE HasStats
  BY <1>1, PlacesOfStats DEF HasStats, Length, Tool
<1>2. CASE main \in {"p0", "p1"}
  BY <1>2, PlacesOfP0P1 DEF HasStats, Length, Tool
<1>3. CASE main = "dce"
  BY <1>3, PlacesOfDCE DEF HasStats, Length, Tool
<1>4. CASE main = "dcec"
  BY <1>4, PlacesOfDCEC DEF HasStats, Length, Tool
<1>5. CASE main = "p1c"
  BY <1>5, PlacesOfP1C DEF HasStats, Length, Tool
<1> QED BY <1>1, <1>2, <1>3, <1>4, <1>5, MainNames DEF HasStats

-----------------------------------------------------------------------------
(* The program.                                                            *)

LEMMA DriverStarts ==
  ASSUME DriverInit
  PROVE  DriverInv
<1>1. check \in BOOLEAN
  BY DEF DriverInit
<1>2. /\ main \in DOMAIN Mains
      /\ target = Absent /\ csv = Absent /\ mod = NoModule
      /\ out = "closed" /\ pc = 0 /\ exit = "none"
  BY DEF DriverInit
<1>3. Typed
  BY <1>2 DEF Typed
<1>4. Placed
  BY <1>2, Places DEF Placed
<1>5. Reported /\ Verified /\ Left
  BY <1>2, ModuleAssumption DEF Reported, Verified, Passed, Left
<1> QED BY <1>1, <1>3, <1>4, <1>5 DEF DriverInv

LEMMA DriverSteps ==
  ASSUME DriverInv, DriverNext
  PROVE  DriverInv'
<1> USE ModuleAssumption
<1>0. Typed /\ Placed /\ Reported /\ Verified /\ Left
  BY DEF DriverInv
<1>c. main' = main /\ check' = check
  BY DEF DriverNext, Statement, Start, Open, Parse, ParseFails, Work, Stats,
         PrintStats, Verify, VerifyFails, Accept, Refuse, Write, Keep, Create,
         Fill, End, Return, Interrupt, Kill
<1>m. /\ main' = main
      /\ Length' = Length /\ (Tool' <=> Tool)
      /\ (HasStats' <=> HasStats) /\ (Verifies' <=> Verifies)
  BY <1>c DEF Length, Tool, HasStats, Verifies
<1>l. /\ main \in DOMAIN Mains
      /\ Len(Mains[main]) = Length
      /\ Length \in {3, 4, 5, 6, 8}
      /\ Tool => Length # 3
      /\ HasStats => Tool /\ Length = 8
      /\ main = "dce" => Tool /\ Length = 6 /\ ~HasStats
      /\ main = "dcec" => ~Tool /\ Length = 5 /\ ~HasStats
  BY <1>0, Places DEF Typed, HasStats, Length, Tool
<1>v. main \in {"dce", "dcec"} => Verifies
  BY DEF Verifies
<1>w. Verifies => HasStats \/ main \in {"dce", "dcec"}
  BY DEF Verifies
<1>b. (check \in BOOLEAN)'
  BY <1>c DEF DriverInv
<1>1. CASE Start
  <2>1. Typed'
    BY <1>0, <1>m, <1>l, <1>1, Places DEF Start, Typed, Placed
  <2>2. Placed'
    BY <1>0, <1>m, <1>l, <1>1, Places DEF Start, Placed, Typed
  <2>3. Reported'
    BY <1>0, <1>m, <1>l, <1>1, Places DEF Start, Placed, Reported, Typed
  <2>4. Verified'
    BY <1>0, <1>m, <1>l, <1>v, <1>w, <1>1, Places DEF Start, Placed, Verified, Passed, Typed
  <2>5. Left'
    BY <1>0, <1>m, <1>l, <1>1, Places DEF Start, Placed, Left, Typed
  <2> QED BY <2>1, <2>2, <2>3, <2>4, <2>5, <1>b DEF DriverInv
<1>2. CASE Open
  <2>1. Typed'
    BY <1>0, <1>m, <1>l, <1>2, Places DEF Open, Advance, Typed, Placed
  <2>2. Placed'
    BY <1>0, <1>m, <1>l, <1>2, Places DEF Open, Advance, Placed, Typed
  <2>3. Reported'
    BY <1>0, <1>m, <1>l, <1>2, Places DEF Open, Advance, Placed, Reported, Typed
  <2>4. Verified'
    BY <1>0, <1>m, <1>l, <1>v, <1>w, <1>2, Places DEF Open, Advance, Placed, Verified, Passed, Typed
  <2>5. Left'
    BY <1>0, <1>m, <1>l, <1>2, Places DEF Open, Advance, Placed, Left, Typed
  <2> QED BY <2>1, <2>2, <2>3, <2>4, <2>5, <1>b DEF DriverInv
<1>3. CASE Parse
  <2>1. Typed'
    BY <1>0, <1>m, <1>l, <1>3, Places DEF Parse, Advance, Typed, Placed
  <2>2. Placed'
    BY <1>0, <1>m, <1>l, <1>3, Places DEF Parse, Advance, Placed, Typed
  <2>3. Reported'
    BY <1>0, <1>m, <1>l, <1>3, Places DEF Parse, Advance, Placed, Reported, Typed
  <2>4. Verified'
    BY <1>0, <1>m, <1>l, <1>v, <1>w, <1>3, Places DEF Parse, Advance, Placed, Verified, Passed, Typed
  <2>5. Left'
    BY <1>0, <1>m, <1>l, <1>3, Places DEF Parse, Advance, Placed, Left, Typed
  <2> QED BY <2>1, <2>2, <2>3, <2>4, <2>5, <1>b DEF DriverInv
<1>4. CASE ParseFails
  <2>1. Typed'
    BY <1>0, <1>m, <1>l, <1>4, Places DEF ParseFails, Return, Gone, Close, Typed, Placed
  <2>2. Placed'
    BY <1>0, <1>m, <1>l, <1>4, Places DEF ParseFails, Return, Gone, Close, Placed, Typed
  <2>3. Reported'
    BY <1>0, <1>m, <1>l, <1>4, Places DEF ParseFails, Return, Gone, Close, Placed, Reported, Typed
  <2>4. Verified'
    BY <1>0, <1>m, <1>l, <1>v, <1>w, <1>4, Places DEF ParseFails, Return, Gone, Close, Placed, Verified, Passed, Typed
  <2>5. Left'
    BY <1>0, <1>m, <1>l, <1>4, Places DEF ParseFails, Return, Gone, Close, Placed, Left, Typed
  <2> QED BY <2>1, <2>2, <2>3, <2>4, <2>5, <1>b DEF DriverInv
<1>5. CASE Work
  <2>0. /\ pc = (IF Tool THEN 3 ELSE 2) /\ pc' \in {pc, pc + 1}
        /\ HasStats \/ main \in {"dce", "dcec"}
        /\ mod' \in Module
        /\ target' = target /\ csv' = csv /\ out' = out /\ exit' = exit
    <3>1. At("work") /\ (pc' = pc \/ pc' = pc + 1) /\ mod' \in Module
      BY <1>5 DEF Work, Advance
    <3>2. target' = target /\ csv' = csv /\ out' = out /\ exit' = exit
      BY <1>5 DEF Work
    <3>3. /\ pc = (IF Tool THEN 3 ELSE 2)
          /\ HasStats \/ main \in {"dce", "dcec"}
      BY <1>l, <3>1, Places
    <3> QED BY <3>1, <3>2, <3>3
  <2>1. Typed'
    BY <1>0, <1>m, <1>l, <1>5, Places DEF Work, Advance, Typed, Placed
  <2>2. Placed'
    BY <1>0, <1>m, <1>l, <2>0 DEF Placed, Typed
  <2>3. Reported'
    BY <1>0, <1>m, <1>l, <1>5, Places DEF Work, Advance, Placed, Reported, Typed
  <2>4. Verified'
    BY <1>0, <1>m, <1>l, <1>v, <1>w, <2>0 DEF Placed, Verified, Passed, Typed
  <2>5. Left'
    BY <1>0, <1>m, <1>l, <1>5, Places DEF Work, Advance, Placed, Left, Typed
  <2> QED BY <2>1, <2>2, <2>3, <2>4, <2>5, <1>b DEF DriverInv
<1>6. CASE Stats
  <2>1. Typed'
    BY <1>0, <1>m, <1>l, <1>6, Places DEF Stats, Advance, Typed, Placed
  <2>2. Placed'
    BY <1>0, <1>m, <1>l, <1>6, Places DEF Stats, Advance, Placed, Typed
  <2>3. Reported'
    BY <1>0, <1>m, <1>l, <1>6, Places DEF Stats, Advance, Placed, Reported, Typed
  <2>4. Verified'
    BY <1>0, <1>m, <1>l, <1>v, <1>w, <1>6, Places DEF Stats, Advance, Placed, Verified, Passed, Typed
  <2>5. Left'
    BY <1>0, <1>m, <1>l, <1>6, Places DEF Stats, Advance, Placed, Left, Typed
  <2> QED BY <2>1, <2>2, <2>3, <2>4, <2>5, <1>b DEF DriverInv
<1>7. CASE PrintStats
  <2>1. Typed'
    BY <1>0, <1>m, <1>l, <1>7, Places DEF PrintStats, Advance, Typed, Placed
  <2>2. Placed'
    BY <1>0, <1>m, <1>l, <1>7, Places DEF PrintStats, Advance, Placed, Typed
  <2>3. Reported'
    BY <1>0, <1>m, <1>l, <1>7, Places DEF PrintStats, Advance, Placed, Reported, Typed
  <2>4. Verified'
    BY <1>0, <1>m, <1>l, <1>v, <1>w, <1>7, Places DEF PrintStats, Advance, Placed, Verified, Passed, Typed
  <2>5. Left'
    BY <1>0, <1>m, <1>l, <1>7, Places DEF PrintStats, Advance, Placed, Left, Typed
  <2> QED BY <2>1, <2>2, <2>3, <2>4, <2>5, <1>b DEF DriverInv
<1>8. CASE Verify
  <2>0. /\ pc = 6 /\ HasStats /\ pc' = 7 /\ target' = target /\ mod' = mod
        /\ Verifies => mod \notin Rejected
    <3>1. At("verify") /\ (check => mod \notin Rejected)
      BY <1>8 DEF Verify
    <3>2. Verifies /\ HasStats => check
      BY <1>l DEF Verifies, HasStats
    <3>3. /\ pc = 6 /\ HasStats /\ pc' = 7 /\ target' = target /\ mod' = mod
      BY <3>1, <1>l, <1>8, Places DEF Verify, Advance
    <3> QED BY <3>1, <3>2, <3>3
  <2>1. Typed'
    BY <1>0, <1>m, <1>l, <1>8, Places DEF Verify, Advance, Typed, Placed
  <2>2. Placed'
    BY <1>0, <1>m, <1>l, <1>8, Places DEF Verify, Advance, Placed, Typed
  <2>3. Reported'
    BY <1>0, <1>m, <1>l, <1>8, Places DEF Verify, Advance, Placed, Reported, Typed
  <2>4. Verified'
    BY <1>0, <1>m, <1>l, <1>v, <1>w, <2>0 DEF Placed, Verified, Passed, Typed
  <2>5. Left'
    BY <1>0, <1>m, <1>l, <1>8, Places DEF Verify, Advance, Placed, Left, Typed
  <2> QED BY <2>1, <2>2, <2>3, <2>4, <2>5, <1>b DEF DriverInv
<1>9. CASE VerifyFails
  <2>1. Typed'
    BY <1>0, <1>m, <1>l, <1>9, Places DEF VerifyFails, Return, Gone, Close, Typed, Placed
  <2>2. Placed'
    BY <1>0, <1>m, <1>l, <1>9, Places DEF VerifyFails, Return, Gone, Close, Placed, Typed
  <2>3. Reported'
    BY <1>0, <1>m, <1>l, <1>9, Places DEF VerifyFails, Return, Gone, Close, Placed, Reported, Typed
  <2>4. Verified'
    BY <1>0, <1>m, <1>l, <1>v, <1>w, <1>9, Places DEF VerifyFails, Return, Gone, Close, Placed, Verified, Passed, Typed
  <2>5. Left'
    BY <1>0, <1>m, <1>l, <1>9, Places DEF VerifyFails, Return, Gone, Close, Placed, Left, Typed
  <2> QED BY <2>1, <2>2, <2>3, <2>4, <2>5, <1>b DEF DriverInv
<1>10. CASE Accept
  <2>1. Typed'
    BY <1>0, <1>m, <1>l, <1>10, Places DEF Accept, Advance, Typed, Placed
  <2>2. Placed'
    BY <1>0, <1>m, <1>l, <1>10, Places DEF Accept, Advance, Placed, Typed
  <2>3. Reported'
    BY <1>0, <1>m, <1>l, <1>10, Places DEF Accept, Advance, Placed, Reported, Typed
  <2>4. Verified'
    BY <1>0, <1>m, <1>l, <1>v, <1>w, <1>10, Places DEF Accept, Advance, Placed, Verified, Passed, Typed
  <2>5. Left'
    BY <1>0, <1>m, <1>l, <1>10, Places DEF Accept, Advance, Placed, Left, Typed
  <2> QED BY <2>1, <2>2, <2>3, <2>4, <2>5, <1>b DEF DriverInv
<1>11. CASE Refuse
  <2>1. Typed'
    BY <1>0, <1>m, <1>l, <1>11, Places DEF Refuse, Return, Gone, Close, Typed, Placed
  <2>2. Placed'
    BY <1>0, <1>m, <1>l, <1>11, Places DEF Refuse, Return, Gone, Close, Placed, Typed
  <2>3. Reported'
    BY <1>0, <1>m, <1>l, <1>11, Places DEF Refuse, Return, Gone, Close, Placed, Reported, Typed
  <2>4. Verified'
    BY <1>0, <1>m, <1>l, <1>v, <1>w, <1>11, Places DEF Refuse, Return, Gone, Close, Placed, Verified, Passed, Typed
  <2>5. Left'
    BY <1>0, <1>m, <1>l, <1>11, Places DEF Refuse, Return, Gone, Close, Placed, Left, Typed
  <2> QED BY <2>1, <2>2, <2>3, <2>4, <2>5, <1>b DEF DriverInv
<1>12. CASE Write
  <2>0. /\ Tool /\ pc = Length - 1 /\ pc' = Length /\ out' = "written"
        /\ target' = target /\ mod' = mod /\ exit' = exit
    BY <1>0, <1>l, <1>12, Places DEF Write, Advance, Typed
  <2>1. Typed'
    BY <1>0, <1>m, <1>l, <1>12, Places DEF Write, Advance, Typed, Placed
  <2>2. Placed'
    BY <1>0, <1>m, <1>l, <2>0 DEF Placed, Typed
  <2>3. Reported'
    BY <1>0, <1>m, <1>l, <1>12, Places DEF Write, Advance, Placed, Reported, Typed
  <2>4. Verified'
    BY <1>0, <1>m, <1>l, <1>v, <1>w, <1>12, Places DEF Write, Advance, Placed, Verified, Passed, Typed
  <2>5. Left'
    BY <1>0, <1>m, <1>l, <1>12, Places DEF Write, Advance, Placed, Left, Typed
  <2> QED BY <2>1, <2>2, <2>3, <2>4, <2>5, <1>b DEF DriverInv
<1>13. CASE Keep
  <2>1. Typed'
    BY <1>0, <1>m, <1>l, <1>13, Places DEF Keep, Advance, Typed, Placed
  <2>2. Placed'
    BY <1>0, <1>m, <1>l, <1>13, Places DEF Keep, Advance, Placed, Typed
  <2>3. Reported'
    BY <1>0, <1>m, <1>l, <1>13, Places DEF Keep, Advance, Placed, Reported, Typed
  <2>4. Verified'
    BY <1>0, <1>m, <1>l, <1>v, <1>w, <1>13, Places DEF Keep, Advance, Placed, Verified, Passed, Typed
  <2>5. Left'
    BY <1>0, <1>m, <1>l, <1>13, Places DEF Keep, Advance, Placed, Left, Typed
  <2> QED BY <2>1, <2>2, <2>3, <2>4, <2>5, <1>b DEF DriverInv
<1>14. CASE Create
  <2>1. Typed'
    BY <1>0, <1>m, <1>l, <1>14, Places DEF Create, Advance, Typed, Placed
  <2>2. Placed'
    BY <1>0, <1>m, <1>l, <1>14, Places DEF Create, Advance, Placed, Typed
  <2>3. Reported'
    BY <1>0, <1>m, <1>l, <1>14, Places DEF Create, Advance, Placed, Reported, Typed
  <2>4. Verified'
    BY <1>0, <1>m, <1>l, <1>v, <1>w, <1>14, Places DEF Create, Advance, Placed, Verified, Passed, Typed
  <2>5. Left'
    BY <1>0, <1>m, <1>l, <1>14, Places DEF Create, Advance, Placed, Left, Typed
  <2> QED BY <2>1, <2>2, <2>3, <2>4, <2>5, <1>b DEF DriverInv
<1>15. CASE Fill
  <2>1. Typed'
    BY <1>0, <1>m, <1>l, <1>15, Places DEF Fill, Advance, Typed, Placed
  <2>2. Placed'
    BY <1>0, <1>m, <1>l, <1>15, Places DEF Fill, Advance, Placed, Typed
  <2>3. Reported'
    BY <1>0, <1>m, <1>l, <1>15, Places DEF Fill, Advance, Placed, Reported, Typed
  <2>4. Verified'
    BY <1>0, <1>m, <1>l, <1>v, <1>w, <1>15, Places DEF Fill, Advance, Placed, Verified, Passed, Typed
  <2>5. Left'
    BY <1>0, <1>m, <1>l, <1>15, Places DEF Fill, Advance, Placed, Left, Typed
  <2> QED BY <2>1, <2>2, <2>3, <2>4, <2>5, <1>b DEF DriverInv
<1>16. CASE End
  <2>1. Typed'
    BY <1>0, <1>m, <1>l, <1>16, Places DEF End, Return, Gone, Close, Typed, Placed
  <2>2. Placed'
    BY <1>0, <1>m, <1>l, <1>16, Places DEF End, Return, Gone, Close, Placed, Typed
  <2>3. Reported'
    BY <1>0, <1>m, <1>l, <1>16, Places DEF End, Return, Gone, Close, Placed, Reported, Typed
  <2>4. Verified'
    BY <1>0, <1>m, <1>l, <1>v, <1>w, <1>16, Places DEF End, Return, Gone, Close, Placed, Verified, Passed, Typed
  <2>5. Left'
    BY <1>0, <1>m, <1>l, <1>16, Places DEF End, Return, Gone, Close, Placed, Left, Typed
  <2> QED BY <2>1, <2>2, <2>3, <2>4, <2>5, <1>b DEF DriverInv
<1>17. CASE Interrupt
  <2>1. Typed'
    BY <1>0, <1>m, <1>l, <1>17, Places DEF Interrupt, Gone, Typed, Placed
  <2>2. Placed'
    BY <1>0, <1>m, <1>l, <1>17, Places DEF Interrupt, Gone, Placed, Typed
  <2>3. Reported'
    BY <1>0, <1>m, <1>l, <1>17, Places DEF Interrupt, Gone, Placed, Reported, Typed
  <2>4. Verified'
    BY <1>0, <1>m, <1>l, <1>v, <1>w, <1>17, Places DEF Interrupt, Gone, Placed, Verified, Passed, Typed
  <2>5. Left'
    BY <1>0, <1>m, <1>l, <1>17, Places DEF Interrupt, Gone, Placed, Left, Typed
  <2> QED BY <2>1, <2>2, <2>3, <2>4, <2>5, <1>b DEF DriverInv
<1>18. CASE Kill
  <2>1. Typed'
    BY <1>0, <1>m, <1>l, <1>18, Places DEF Kill, Gone, Typed, Placed
  <2>2. Placed'
    BY <1>0, <1>m, <1>l, <1>18, Places DEF Kill, Gone, Placed, Typed
  <2>3. Reported'
    BY <1>0, <1>m, <1>l, <1>18, Places DEF Kill, Gone, Placed, Reported, Typed
  <2>4. Verified'
    BY <1>0, <1>m, <1>l, <1>v, <1>w, <1>18, Places DEF Kill, Gone, Placed, Verified, Passed, Typed
  <2>5. Left'
    BY <1>0, <1>m, <1>l, <1>18, Places DEF Kill, Gone, Placed, Left, Typed
  <2> QED BY <2>1, <2>2, <2>3, <2>4, <2>5, <1>b DEF DriverInv
<1> QED BY <1>1, <1>2, <1>3, <1>4, <1>5, <1>6, <1>7, <1>8, <1>9, <1>10, <1>11, <1>12, <1>13, <1>14, <1>15, <1>16, <1>17, <1>18 DEF DriverNext, Statement

-----------------------------------------------------------------------------
(* The test runs.                                                          *)

LEMMA TimedStarts ==
  ASSUME TimedInit, exitok \in BOOLEAN
  PROVE  TimedInv
<1>1. TimedTypeOK
  BY TimeAssumption, RestAssumption DEF TimedInit, TimedTypeOK
<1>2. ASSUME NEW r \in Run
      PROVE  Timed(r)
  BY TimeAssumption, RestAssumption DEF TimedInit, Timed, Watched
<1> QED BY <1>1, <1>2 DEF TimedInv

LEMMA Untouched ==
  ASSUME NEW r \in Run, Timed(r), Same(r), exitok' = exitok
  PROVE  Timed(r)'
BY DEF Timed, Watched, Same

LEMMA TimePasses ==
  ASSUME TimedInv, Tick, exitok' = exitok
  PROVE  TimedInv'
<1> USE TimeAssumption, RestAssumption
<1>1. TimedTypeOK'
  BY DEF TimedInv, TimedTypeOK, Tick, AtMost
<1>2. ASSUME NEW r \in Run
      PROVE  Timed(r)'
  BY DEF TimedInv, TimedTypeOK, Timed, Watched, Tick, Due, AtMost
<1> QED BY <1>1, <1>2 DEF TimedInv

LEMMA RunSteps ==
  ASSUME TimedInv, exitok' = exitok, NEW q \in Run,
         \/ Launch(q) \/ Ends(q) \/ Reap(q) \/ Reused(q) \/ Judge(q, exitok)
         \/ Dog(q)
  PROVE  TimedInv'
<1> USE TimeAssumption, RestAssumption
<1>t. TimedTypeOK /\ Timed(q)
  BY DEF TimedInv
<1>q. ASSUME TimedTypeOK', \A r \in Run \ {q} : Same(r), Timed(q)'
      PROVE  TimedInv'
  BY <1>q, Untouched DEF TimedInv
<1>1. CASE Launch(q)
  <2>1. TimedTypeOK'
    BY <1>t, <1>1 DEF Launch, TimedTypeOK
  <2>2. \A r \in Run \ {q} : Same(r)
    BY <1>t, <1>1 DEF Launch, TimedTypeOK, Same
  <2>3. Timed(q)'
    BY <1>t, <1>1 DEF Launch, TimedTypeOK, Timed, Watched
  <2> QED BY <2>1, <2>2, <2>3, <1>q
<1>2. CASE Ends(q)
  <2>1. TimedTypeOK'
    BY <1>t, <1>2 DEF Ends, TimedTypeOK, Status, TERM, HUP, KILL
  <2>2. \A r \in Run \ {q} : Same(r)
    BY <1>t, <1>2 DEF Ends, TimedTypeOK, Same
  <2>3. Timed(q)'
    BY <1>t, <1>2 DEF Ends, TimedTypeOK, Timed, Watched, Status, TERM, HUP, KILL
  <2> QED BY <2>1, <2>2, <2>3, <1>q
<1>3. CASE Reap(q)
  <2>1. TimedTypeOK'
    BY <1>t, <1>3 DEF Reap, TimedTypeOK
  <2>2. \A r \in Run \ {q} : Same(r)
    BY <1>t, <1>3 DEF Reap, TimedTypeOK, Same
  <2>3. Timed(q)'
    BY <1>t, <1>3 DEF Reap, TimedTypeOK, Timed, Watched
  <2> QED BY <2>1, <2>2, <2>3, <1>q
<1>4. CASE Reused(q)
  <2>1. TimedTypeOK'
    BY <1>t, <1>4 DEF Reused, TimedTypeOK
  <2>2. \A r \in Run \ {q} : Same(r)
    BY <1>t, <1>4 DEF Reused, TimedTypeOK, Same
  <2>3. Timed(q)'
    BY <1>t, <1>4 DEF Reused, TimedTypeOK, Timed, Watched
  <2> QED BY <2>1, <2>2, <2>3, <1>q
<1>5. CASE Judge(q, exitok)
  <2>1. TimedTypeOK'
    BY <1>t, <1>5 DEF Judge, Judgement, TimedTypeOK
  <2>2. \A r \in Run \ {q} : Same(r)
    BY <1>t, <1>5 DEF Judge, Judgement, TimedTypeOK, Same
  <2>3. Timed(q)'
    BY <1>t, <1>5 DEF Judge, Judgement, TimedTypeOK, Timed, Watched, Status, TERM, HUP, KILL
  <2> QED BY <2>1, <2>2, <2>3, <1>q
<1>6. CASE Poll(q)
  <2>1. TimedTypeOK'
    BY <1>t, <1>6 DEF Poll, Sleeps, Found, TimedTypeOK, Timed, Watched
  <2>2. \A r \in Run \ {q} : Same(r)
    BY <1>t, <1>6 DEF Poll, Sleeps, Found, TimedTypeOK, Same
  <2>3. Timed(q)'
    BY <1>t, <1>6 DEF Poll, Sleeps, Found, TimedTypeOK, Timed, Watched
  <2> QED BY <2>1, <2>2, <2>3, <1>q
<1>7. CASE Term(q)
  <2>1. TimedTypeOK'
    BY <1>t, <1>7 DEF Term, Signal, Hit, Sleeps, Found, TimedTypeOK, Status, TERM, HUP, KILL
  <2>2. \A r \in Run \ {q} : Same(r)
    BY <1>t, <1>7 DEF Term, Signal, Hit, Sleeps, Found, TimedTypeOK, Same
  <2>3. Timed(q)'
    BY <1>t, <1>7 DEF Term, Signal, Hit, Sleeps, Found, TimedTypeOK, Timed, Watched, Status, TERM, HUP, KILL
  <2> QED BY <2>1, <2>2, <2>3, <1>q
<1>8. CASE Hup(q)
  <2>1. TimedTypeOK'
    BY <1>t, <1>8 DEF Hup, Signal, Hit, Sleeps, Found, TimedTypeOK, Status, TERM, HUP, KILL
  <2>2. \A r \in Run \ {q} : Same(r)
    BY <1>t, <1>8 DEF Hup, Signal, Hit, Sleeps, Found, TimedTypeOK, Same
  <2>3. Timed(q)'
    BY <1>t, <1>8 DEF Hup, Signal, Hit, Sleeps, Found, TimedTypeOK, Timed, Watched, Status, TERM, HUP, KILL
  <2> QED BY <2>1, <2>2, <2>3, <1>q
<1>9. CASE Kill9(q)
  <2>1. TimedTypeOK'
    BY <1>t, <1>9 DEF Kill9, Signal, Hit, Sleeps, Found, TimedTypeOK, Status, TERM, HUP, KILL
  <2>2. \A r \in Run \ {q} : Same(r)
    BY <1>t, <1>9 DEF Kill9, Signal, Hit, Sleeps, Found, TimedTypeOK, Same
  <2>3. Timed(q)'
    BY <1>t, <1>9 DEF Kill9, Signal, Hit, Sleeps, Found, TimedTypeOK, Timed, Watched, Status, TERM, HUP, KILL
  <2> QED BY <2>1, <2>2, <2>3, <1>q
<1> QED BY <1>1, <1>2, <1>3, <1>4, <1>5, <1>6, <1>7, <1>8, <1>9 DEF Dog

-----------------------------------------------------------------------------
(* make.                                                                   *)

LEMMA HarnessStarts ==
  ASSUME Init
  PROVE  HarnessInv
<1>1. DriverInv
  BY DriverStarts DEF Init
<1>2. TimedInv
  BY TimedStarts DEF Init
<1>3. Made
  BY DEF Init, TimedInit, Made
<1> QED BY <1>1, <1>2, <1>3 DEF HarnessInv

LEMMA DriverUntouched ==
  ASSUME DriverInv, UNCHANGED driver
  PROVE  DriverInv'
BY DEF driver, DriverInv, Typed, Placed, Reported, Verified, Passed, Left,
       Tool, Length, HasStats, Verifies

LEMMA TimedUntouched ==
  ASSUME TimedInv, UNCHANGED <<timed, exitok>>
  PROVE  TimedInv'
<1>1. TimedTypeOK' /\ (exitok \in BOOLEAN)'
  BY DEF timed, TimedInv, TimedTypeOK
<1>2. ASSUME NEW r \in Run
      PROVE  Timed(r)'
  BY Untouched DEF timed, TimedInv, Same
<1> QED BY <1>1, <1>2 DEF TimedInv

\* A run that has begun does not become one that has not.
LEMMA BegunStays ==
  ASSUME TimedInv, TimedNext(exitok), NEW r \in Run, prog[r] # "none"
  PROVE  prog'[r] # "none"
BY DEF TimedInv, TimedTypeOK, TimedNext, Tick, Launch, Ends, Reap, Reused,
       Judge, Dog, Poll, Term, Hup, Kill9, Signal, Hit

LEMMA HarnessSteps ==
  ASSUME HarnessInv, [Next]_vars
  PROVE  HarnessInv'
<1> USE DEF HarnessInv
<1>1. CASE RunTool
  <2>1. DriverInv'
    BY <1>1, DriverSteps DEF RunTool
  <2>2. TimedInv'
    BY <1>1, TimedUntouched DEF RunTool
  <2>3. Made'
    BY <1>1 DEF RunTool, Made, Untested, timed
  <2> QED BY <2>1, <2>2, <2>3
<1>2. CASE Link
  <2>1. DriverInv'
    BY <1>2, DriverUntouched DEF Link
  <2>2. TimedInv'
    BY <1>2, TimedUntouched DEF Link
  <2>3. Made'
    BY <1>2 DEF Link, Made, Untested, timed, driver
  <2> QED BY <2>1, <2>2, <2>3
<1>3. CASE RunTests
  <2>1. /\ built # None /\ TimedNext(exitok)
        /\ UNCHANGED driver /\ built' = built /\ exitok' = exitok
    BY <1>3 DEF RunTests, Testing
  <2>2. DriverInv'
    BY <2>1, DriverUntouched
  <2>3. TimedInv'
    BY <2>1, TimePasses, RunSteps DEF TimedNext
  <2>4. Made'
    BY <2>1 DEF Made, driver
  <2> QED BY <2>2, <2>3, <2>4
<1>4. CASE UNCHANGED vars
  <2>1. DriverInv'
    BY <1>4, DriverUntouched DEF vars
  <2>2. TimedInv'
    BY <1>4, TimedUntouched DEF vars
  <2>3. Made'
    BY <1>4 DEF vars, driver, timed, Made
  <2> QED BY <2>1, <2>2, <2>3
<1> QED BY <1>1, <1>2, <1>3, <1>4 DEF Next

\* The invariant, for every set of modules and runs.
THEOREM HarnessInvariant == Spec => []HarnessInv
<1>1. Init => HarnessInv
  BY HarnessStarts
<1>2. HarnessInv /\ [Next]_vars => HarnessInv'
  BY HarnessSteps
<1> QED BY <1>1, <1>2, PTL DEF Spec

-----------------------------------------------------------------------------
(* The properties.                                                         *)

\* The variables of the tools, of the watchdog and of make keep their types
\* (Driver, TimedExec, Harness).
THEOREM HarnessTypeOK == Spec => []TypeOK
<1>1. ASSUME HarnessInv PROVE TypeOK
  <2>1. DriverTypeOK
    BY <1>1 DEF HarnessInv, DriverInv, Typed, DriverTypeOK
  <2>2. TimedTypeOK /\ exitok \in BOOLEAN
    BY <1>1 DEF HarnessInv, TimedInv
  <2>3. built \in Module \cup {None}
    BY <1>1 DEF HarnessInv, Made
  <2> QED BY <2>1, <2>2, <2>3 DEF TypeOK
<1> QED BY <1>1, HarnessInvariant, PTL

\* A complete bitcode file has its own statistics beside it, however often
\* the program was run, failed or was killed (main, summarize and
\* print_csv_file of projects 2 and 3).
THEOREM HarnessStatsOfTarget == Spec => []StatsOfTarget
<1>1. ASSUME HarnessInv PROVE StatsOfTarget
  <2>1. CASE pc <= 1
    BY <1>1, <2>1 DEF HarnessInv, DriverInv, Reported, StatsOfTarget
  <2>2. CASE pc > 1
    BY <1>1, <2>2, ModuleAssumption
    DEF HarnessInv, DriverInv, Placed, Tool, HasStats, StatsOfTarget
  <2> QED BY <1>1, <2>1, <2>2 DEF HarnessInv, DriverInv, Typed
<1> QED BY <1>1, HarnessInvariant, PTL

\* What a tool leaves has passed the verifier, and is complete unless a
\* signal ended it (ToolOutputFile in every main).
THEOREM HarnessTargetUsable == Spec => []TargetUsable
<1>1. ASSUME HarnessInv PROVE TargetUsable
  BY <1>1 DEF HarnessInv, DriverInv, Verified, Left, Tool, TargetUsable
<1> QED BY <1>1, HarnessInvariant, PTL

\* kill never reaches the next owner of a process number, for every time
\* limit, as long as numbers rest for more than two seconds (TimedExec.sh).
THEOREM HarnessOwnProcessOnly == Spec => []OwnProcessOnly
<1>1. ASSUME HarnessInv, NEW r \in Run, Due(r), dog[r] # "poll", taken[r]
      PROVE  FALSE
  <2>1. TimedTypeOK /\ Timed(r)
    BY <1>1 DEF HarnessInv, TimedInv
  <2> QED BY <1>1, <2>1, RestAssumption DEF Timed, Watched, Due, TimedTypeOK
<1>2. ASSUME HarnessInv PROVE OwnProcessOnly
  BY <1>1, <1>2 DEF OwnProcessOnly
<1> QED BY <1>2, HarnessInvariant, PTL

\* No signal before the time limit, and no program more than four seconds
\* after it (TimedExec.sh).
THEOREM HarnessInTime == Spec => []InTime
<1>1. ASSUME HarnessInv, NEW r \in Run
      PROVE  /\ dog[r] \in {"term", "hup", "kill"} => age[r] >= TIMEOUT \/ prog[r] # "running"
             /\ prog[r] = "running" => age[r] <= TIMEOUT + 4
  <2>1. TimedTypeOK /\ Timed(r)
    BY <1>1 DEF HarnessInv, TimedInv
  <2> QED BY <2>1, TimeAssumption DEF Timed, Watched, TimedTypeOK
<1>2. ASSUME HarnessInv PROVE InTime
  BY <1>1, <1>2 DEF InTime
<1> QED BY <1>2, HarnessInvariant, PTL

\* A run that passes has ended by itself and was made from a module its tool
\* stands for (RunSafely.sh, Makefile.benchmark and the mains).
THEOREM HarnessOkMeansOk == Spec => []OkMeansOk
<1>1. ASSUME HarnessInv, NEW r \in Run, verdict[r] = "ok"
      PROVE  /\ status[r] \in {0, 1}
             /\ exitok => status[r] = 0
             /\ built \in Module
             /\ Verifies => built \notin Rejected
             /\ HasStats => csv = Counts(built)
  <2>1. Timed(r) /\ Made
    BY <1>1 DEF HarnessInv, TimedInv
  <2>2. (status[r] \in {0, 1}) /\ (exitok => status[r] = 0)
    BY <1>1, <2>1 DEF Timed
  <2>3. built # None /\ built = target /\ built \in Module /\ pc = 0
    BY <1>1, <2>1, TimeAssumption DEF Timed, Made
  <2>4. Verifies => built \notin Rejected
    BY <1>1, <2>3 DEF HarnessInv, DriverInv, Verified
  <2>5. HasStats => csv = Counts(built)
    BY <1>1, <2>3 DEF HarnessInv, DriverInv, Reported
  <2> QED BY <2>2, <2>3, <2>4, <2>5
<1>2. ASSUME HarnessInv PROVE OkMeansOk
  BY <1>1, <1>2 DEF OkMeansOk
<1> QED BY <1>2, HarnessInvariant, PTL
=============================================================================
