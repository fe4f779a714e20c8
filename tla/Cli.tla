-------------------------------- MODULE Cli --------------------------------
(***************************************************************************)
(* The two ways into src/pcapinator: the flags, through main of cli.py,    *)
(* and the interactive menu of menu.py, whose choices _menu_action turns   *)
(* into calls of analyse.  Every call of analyse runs the whole pipeline   *)
(* of module Analyse on a fresh flow table.                                *)
(***************************************************************************)
EXTENDS Analyse

CONSTANT MaxRuns    \* bound of the model: analyses in one sitting

EXIT_CLEAN    == 0
EXIT_FINDINGS == 1
EXIT_ERROR    == 2

Crash == 1    \* the interpreter's exit status for an uncaught exception

VARIABLES
    entry,      \* "flags" or "menu"; "help" when all that was asked for was help
    at,         \* "start", "menu", "analysing" or "exited"
    runs,       \* analyses started
    rendered,   \* what was last rendered: "nothing", "clean" or "findings"
    status      \* the exit status, meaningful once at = "exited"

cvars == <<entry, at, runs, rendered, status>>

CliInit ==
    /\ AInit
    /\ entry = "flags" /\ at = "start" /\ runs = 0
    /\ rendered = "nothing" /\ status = EXIT_CLEAN

Exit(code) == at' = "exited" /\ status' = code

\* Mutant: the table of the previous analysis is used again.
RestartDirty ==
    /\ UNCHANGED <<table, ready, clock>>
    /\ handed' = {} /\ log' = <<>>
    /\ packets' = 0 /\ decoded' = 0
    /\ source' \in Sources
    /\ strict' \in (IF entry = "flags" THEN BOOLEAN ELSE {FALSE})
    /\ pc' = "pull" /\ outcome' = "none"

\* A call of analyse: a fresh pipeline on some capture.  Only the flags can
\* ask for strict reading.
Restart ==
    /\ table' = [c \in Classes |-> <<>>] /\ ready' = <<>> /\ clock' = NoTime
    /\ handed' = {} /\ log' = <<>>
    /\ packets' = 0 /\ decoded' = 0
    /\ source' \in Sources
    /\ strict' \in (IF entry = "flags" THEN BOOLEAN ELSE {FALSE})
    /\ pc' = "pull" /\ outcome' = "none"

-----------------------------------------------------------------------------
(* main *)

\* argparse, and the checks of main, refuse the command line; or there is
\* no capture and no terminal to show the menu on.
Refuse ==
    /\ at = "start"
    /\ Exit(EXIT_ERROR)
    /\ UNCHANGED <<avars, entry, runs, rendered>>

\* --help or --version: argparse prints what was asked for and exits.
Inform ==
    /\ at = "start"
    /\ entry' = "help"
    /\ Exit(EXIT_CLEAN)
    /\ UNCHANGED <<avars, runs, rendered>>

OpenMenu ==
    /\ at = "start"
    /\ entry' = "menu" /\ at' = "menu"
    /\ UNCHANGED <<avars, runs, rendered, status>>

\* --demo, or Demo in the menu: demo_capture cannot write its file, and the
\* call is outside every try.
DemoFails ==
    /\ at \in {"start", "menu"}
    /\ Exit(Crash)
    /\ UNCHANGED <<avars, entry, runs, rendered>>

\* A capture to analyse, given by the flags or picked in the menu.
Start ==
    /\ at \in {"start", "menu"} /\ runs < MaxRuns
    /\ Restart
    /\ at' = "analysing" /\ runs' = runs + 1
    /\ UNCHANGED <<entry, rendered, status>>

Analysing ==
    /\ at = "analysing"
    /\ ANext
    /\ UNCHANGED cvars

Rendering(findings) == IF findings THEN "findings" ELSE "clean"

\* The summary is rendered; the menu comes back, main returns.
Report(findings) ==
    /\ at = "analysing" /\ outcome = "summary"
    /\ rendered' = Rendering(findings)
    /\ IF entry = "menu" THEN at' = "menu" /\ UNCHANGED status
       ELSE Exit(IF findings THEN EXIT_FINDINGS ELSE EXIT_CLEAN)
    /\ UNCHANGED <<avars, entry, runs>>

\* Mutant: main reports the error and falls through to the end.
RecoverFallsThrough ==
    /\ at = "analysing" /\ outcome \in Exceptions /\ Handled(outcome)
    /\ IF entry = "menu" THEN at' = "menu" /\ UNCHANGED status
       ELSE Exit(EXIT_CLEAN)
    /\ UNCHANGED <<avars, entry, runs, rendered>>

\* except CaptureError, except OSError
Recover ==
    /\ at = "analysing" /\ outcome \in Exceptions /\ Handled(outcome)
    /\ IF entry = "menu" THEN at' = "menu" /\ UNCHANGED status
       ELSE Exit(EXIT_ERROR)
    /\ UNCHANGED <<avars, entry, runs, rendered>>

Uncaught ==
    /\ at = "analysing" /\ outcome \in Exceptions /\ ~Handled(outcome)
    /\ Exit(Crash)
    /\ UNCHANGED <<avars, entry, runs, rendered>>

-----------------------------------------------------------------------------
(* menu.run.  The choices that only print and come back (Tutorial, a       *)
(* number out of range, an empty answer, a path that is no file) leave the *)
(* state as it is and are left out.                                        *)

Quit ==
    /\ at = "menu"
    /\ Exit(EXIT_CLEAN)
    /\ UNCHANGED <<avars, entry, runs, rendered>>

\* A choice isdigit() accepts and int() refuses, such as a superscript two.
BadDigit ==
    /\ at = "menu"
    /\ Exit(Crash)
    /\ UNCHANGED <<avars, entry, runs, rendered>>

CliNext ==
    \/ Refuse
    \/ Inform
    \/ OpenMenu
    \/ DemoFails
    \/ Start
    \/ Analysing
    \/ \E findings \in BOOLEAN : Report(findings)
    \/ Recover
    \/ Uncaught
    \/ Quit
    \/ BadDigit

\* Once analyse is called nothing but the program itself has to act: a capture
\* is finite, and list() pulls until the generator is exhausted.
CliFairness ==
    /\ WF_<<avars, cvars>>(Analysing)
    /\ WF_<<avars, cvars>>(\E findings \in BOOLEAN : Report(findings))
    /\ WF_<<avars, cvars>>(Recover \/ Uncaught)

CliSpec == CliInit /\ [][CliNext]_<<avars, cvars>> /\ CliFairness

-----------------------------------------------------------------------------

(* CleanExit: an exit status of 0 from the flags says that the capture was *)
(* read to its end, that every frame of it reached the detectors, and that *)
(* they reported nothing; an error never passes for a clean capture, and   *)
(* findings that were rendered are what the exit status says.              *)
CleanExit ==
    at = "exited" /\ entry = "flags" =>
        /\ status = EXIT_CLEAN =>
              outcome = "summary" /\ rendered = "clean" /\ handed = 1..Len(log)
        /\ rendered = "findings" => status = EXIT_FINDINGS

(* ComesBack: an analysis ends in the menu it was picked from or ends the  *)
(* program.                                                                *)
ComesBack == at = "analysing" ~> at \in {"menu", "exited"}
=============================================================================
