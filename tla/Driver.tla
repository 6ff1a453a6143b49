------------------------------- MODULE Driver -------------------------------
(***************************************************************************)
(* The programs that read a file, work on a module and leave bitcode, and  *)
(* project 2's and 3's statistics beside it.  A program is the sequence of *)
(* its statements; they act on two files of the disk, which outlives the   *)
(* program and is there when it is run again.  What the work does to the   *)
(* module is left open.  A signal may end the program between any two      *)
(* statements.                                                             *)
(*                                                                         *)
(* External: ToolOutputFile, which truncates its file, deletes it again    *)
(* unless keep() was called, and has it deleted when a signal or a fatal   *)
(* error ends the program; the disk takes what is written to it.           *)
(***************************************************************************)
EXTENDS Naturals, Sequences

CONSTANTS
  Module,      \* modules
  Rejected,    \* those the verifier rejects
  NoModule,
  Counts(_),   \* what the statistics say of a module
  Absent,      \* no file
  Partial      \* a file that is not all written

VARIABLES
  main,     \* the program: its name in Mains
  check,    \* not -no
  target,   \* the output file: Absent, Partial, or a module
  csv,      \* the .stats file: Absent, Partial, or the counts of a module
  mod,      \* the module in memory
  out,      \* ToolOutputFile: "closed", "open", "written", "kept"
  pc,       \* the statement to come, 0 when the program is not running
  exit      \* how the last run of the program ended

driver == <<main, check, target, csv, mod, out, pc, exit>>

-----------------------------------------------------------------------------
(* The programs.                                                           *)

\* A slip: the statistics of the module as parsed.
P2MainCountsFirst ==
  <<"open", "parse", "stats", "print", "work", "verify", "write", "keep">>

P2Main == <<"open", "parse", "work", "stats", "print", "verify", "write", "keep">>

P3Main == <<"open", "parse", "work", "stats", "print", "verify", "write", "keep">>

P2CMain == <<"open", "parse", "work", "stats", "print", "verify", "write", "keep">>

P1Main == <<"open", "parse", "write", "keep">>

P0Main == <<"open", "parse", "write", "keep">>

DCEMain == <<"open", "parse", "work", "refuse", "write", "keep">>

\* Through the C interface there is no ToolOutputFile.
DCECMain == <<"parse", "work", "refuse", "create", "fill">>

P1CMain == <<"parse", "create", "fill">>

Mains == [p0 |-> P0Main, p1 |-> P1Main, p1c |-> P1CMain, p2 |-> P2Main,
          p2c |-> P2CMain, p3 |-> P3Main, dce |-> DCEMain, dcec |-> DCECMain]

HasStats == main \in {"p2", "p2c", "p3"}

Verifies == (HasStats /\ check) \/ main \in {"dce", "dcec"}

-----------------------------------------------------------------------------
(* The statements.                                                         *)

At(s) == pc \in DOMAIN Mains[main] /\ Mains[main][pc] = s

Advance == pc' = pc + 1

\* ~ToolOutputFile: what was written is flushed, what is not kept deleted.
Close ==
  target' = IF out = "closed" THEN target
            ELSE IF out = "kept" THEN mod
            ELSE Absent

Gone(code) ==
  /\ mod' = NoModule
  /\ out' = "closed"
  /\ pc' = 0
  /\ exit' = code

\* return from main
Return(code) ==
  /\ Close
  /\ Gone(code)
  /\ UNCHANGED <<main, check, csv>>

Start ==
  /\ pc = 0
  /\ pc' = 1
  /\ exit' = "running"
  /\ UNCHANGED <<main, check, target, csv, mod, out>>

\* new ToolOutputFile
Open ==
  /\ At("open")
  /\ target' = Partial
  /\ out' = "open"
  /\ Advance
  /\ UNCHANGED <<main, check, csv, mod, exit>>

\* parseIRFile, parseP1File, LLVMParseBitcode
Parse ==
  /\ At("parse")
  /\ mod' \in Module
  /\ Advance
  /\ UNCHANGED <<main, check, target, csv, out, exit>>

ParseFails == At("parse") /\ Return("1")

\* -mem2reg and the pass, or neither: any number of changes.
Work ==
  /\ At("work")
  /\ mod' \in Module
  /\ \/ UNCHANGED pc
     \/ Advance
  /\ UNCHANGED <<main, check, target, csv, out, exit>>

\* summarize, and the std::ofstream of print_csv_file truncates the file.
Stats ==
  /\ At("stats")
  /\ csv' = Partial
  /\ Advance
  /\ UNCHANGED <<main, check, target, mod, out, exit>>

\* print_csv_file
PrintStats ==
  /\ At("print")
  /\ csv' = Counts(mod)
  /\ Advance
  /\ UNCHANGED <<main, check, target, mod, out, exit>>

\* A slip: what the verifier says is printed, nothing more.
VerifyAnyway ==
  /\ At("verify")
  /\ Advance
  /\ UNCHANGED <<main, check, target, csv, mod, out, exit>>

Verify ==
  /\ At("verify")
  /\ check => mod \notin Rejected
  /\ Advance
  /\ UNCHANGED <<main, check, target, csv, mod, out, exit>>

\* report_fatal_error, "Broken module found, compilation aborted!"
VerifyFails ==
  /\ At("verify")
  /\ check
  /\ mod \in Rejected
  /\ Return("1")

\* if (!verifyModule(*M)), if (!LLVMVerifyModule(Module))
Accept ==
  /\ At("refuse")
  /\ mod \notin Rejected
  /\ Advance
  /\ UNCHANGED <<main, check, target, csv, mod, out, exit>>

\* "Error: %s not created.", and the program ends well.
Refuse ==
  /\ At("refuse")
  /\ mod \in Rejected
  /\ Return("0")

\* WriteBitcodeToFile(*M, Out->os())
Write ==
  /\ At("write")
  /\ out' = "written"
  /\ Advance
  /\ UNCHANGED <<main, check, target, csv, mod, exit>>

\* Out->keep()
Keep ==
  /\ At("keep")
  /\ out' = "kept"
  /\ Advance
  /\ UNCHANGED <<main, check, target, csv, mod, exit>>

\* LLVMWriteBitcodeToFile opens the file ...
Create ==
  /\ At("create")
  /\ target' = Partial
  /\ Advance
  /\ UNCHANGED <<main, check, csv, mod, out, exit>>

\* ... and writes it.
Fill ==
  /\ At("fill")
  /\ target' = mod
  /\ Advance
  /\ UNCHANGED <<main, check, csv, mod, out, exit>>

End == pc = Len(Mains[main]) + 1 /\ Return("0")

-----------------------------------------------------------------------------
(* Signals.                                                                *)

\* SIGINT, SIGTERM: LLVM's handler deletes the files not closed yet.
Interrupt ==
  /\ pc # 0
  /\ target' = IF out = "closed" THEN target ELSE Absent
  /\ Gone("signal")
  /\ UNCHANGED <<main, check, csv>>

\* SIGKILL: nobody deletes anything.
Kill ==
  /\ pc # 0
  /\ Gone("signal")
  /\ UNCHANGED <<main, check, target, csv>>

-----------------------------------------------------------------------------

DriverInit ==
  /\ main \in DOMAIN Mains
  /\ check \in BOOLEAN
  /\ target = Absent
  /\ csv = Absent
  /\ mod = NoModule
  /\ out = "closed"
  /\ pc = 0
  /\ exit = "none"

Statement ==
  \/ Open \/ Parse \/ ParseFails \/ Work
  \/ Stats \/ PrintStats \/ Verify \/ VerifyFails \/ Accept \/ Refuse
  \/ Write \/ Keep \/ Create \/ Fill \/ End

DriverNext == Start \/ Statement \/ Interrupt \/ Kill

DriverSpec == DriverInit /\ [][DriverNext]_driver

-----------------------------------------------------------------------------

\* TYPE: what the eight variables range over.
DriverTypeOK ==
  /\ main \in DOMAIN Mains
  /\ check \in BOOLEAN
  /\ target \in Module \cup {Absent, Partial}
  /\ csv \in {Counts(m) : m \in Module} \cup {Absent, Partial}
  /\ mod \in Module \cup {NoModule}
  /\ out \in {"closed", "open", "written", "kept"}
  /\ pc \in 0..9
  /\ exit \in {"none", "running", "0", "1", "signal"}

\* However often the program was run, failed or was killed before: a complete
\* bitcode file has beside it the statistics of that very module, although
\* they are printed before the module is verified and written
\* (summarize, print_csv_file and WriteBitcodeToFile in main).
StatsOfTarget ==
  HasStats /\ target \in Module => csv = Counts(target)

\* What a program leaves complete has passed the verifier (which -no switches
\* off).  One with a ToolOutputFile leaves nothing truncated unless a signal
\* ends it, whatever an earlier run left there, and nothing at all when it
\* says it failed: make may take the file it finds.
TargetUsable ==
  /\ Verifies => target \notin Rejected
  /\ main \notin {"p1c", "dcec"} => /\ exit \in {"0", "1"} => target # Partial
                                    /\ exit = "1" => target = Absent

-----------------------------------------------------------------------------

ASSUME ModuleAssumption ==
  /\ Rejected \subseteq Module
  /\ NoModule \notin Module
  /\ Absent # Partial
  /\ {Absent, Partial} \cap (Module \cup {NoModule}) = {}
  /\ \A m \in Module : Counts(m) \notin {Absent, Partial}
=============================================================================
