----------------------------- MODULE BuildCache -----------------------------
(***************************************************************************)
(* TopModule.run (core/module.py) and the builder (core/builder.py and     *)
(* boards/stemlab125_14/builder.py): Python processes on one host that run *)
(* designs, share the directories of results and build a design first if   *)
(* it has no result yet.                                                   *)
(*                                                                         *)
(* A result directory is named by the board, the class and the hash of its *)
(* design.  A build directory is named by the board and the class only.    *)
(* A directory is a record of its files; a file holds the design that it   *)
(* was made from.                                                          *)
(***************************************************************************)
EXTENDS Naturals, Sequences

CONSTANTS Procs,       \* the processes
          Designs,     \* the designs, each with a hash of its own
          Class,       \* Class[d]: the name of the design's class
          Slow,        \* designs that do not meet the timing constraints
          Exclusive,   \* processes at work at the same time run designs of
                       \* different classes
          MaxCrashes,  \* bound: how many processes are killed
          None,        \* there is no such file
          Partial      \* a file that is not completely written

ASSUME ClassAssumption == DOMAIN Class = Designs /\ Slow \subseteq Designs
ASSUME ExclusiveAssumption == Exclusive \in BOOLEAN /\ MaxCrashes \in Nat
ASSUME FilesAssumption == None \notin Designs /\ Partial \notin Designs /\ None # Partial

Classes == {Class[d] : d \in Designs}
Content == Designs \cup {None, Partial}
Results == <<"bit", "csr">>   \* _build_results: bitstream.bin and csr.csv

VARIABLES
    pc,        \* per process: the next step
    design,    \* per process: the design it runs
    force,     \* per process: the argument forcebuild
    netlist,   \* per process: the sources that Vivado has read
    left,      \* per process: the results still to be copied
    held,      \* per process: the content that it is copying
    used,      \* per process: the files it runs the design with
    build,     \* per class: the build directory
    dir, result,  \* per design: whether its result directory exists; its files
    crashes,   \* processes killed so far
    complete   \* history: designs whose results have all been copied

local == <<pc, design, force, netlist, left, held, used>>
vars  == <<local, build, dir, result, crashes, complete>>

NoResult == [bit |-> None, csr |-> None]
NoBuild  == [src |-> None, bit |-> None, log |-> None, csr |-> None]

Goto(p, step) == pc' = [pc EXCEPT ![p] = step]
AtWork(p) == pc[p] \notin {"idle", "running", "raised"}

-----------------------------------------------------------------------------
(* The start of TopModule.run.                                             *)

Run(p) ==
    /\ pc[p] \in {"idle", "running", "raised"}
    /\ \E d \in Designs, f \in BOOLEAN :
          /\ Exclusive => \A q \in Procs \ {p} : AtWork(q) => Class[design[q]] # Class[d]
          /\ design' = [design EXCEPT ![p] = d]
          /\ force' = [force EXCEPT ![p] = f]
    /\ used' = [used EXCEPT ![p] = NoResult]
    /\ Goto(p, "check")
    /\ UNCHANGED <<netlist, left, held, build, dir, result, crashes, complete>>

\* (Mutant) The build directory is looked at.
ResultInBuild(d) == build[Class[d]].csr # None

ResultExists(d) == dir[d]

\* Without "autobuild" a design that has no result is refused.
Check(p) ==
    /\ pc[p] = "check"
    /\ IF force[p] \/ ~ResultExists(design[p])
       THEN Goto(p, "clean") \/ (~force[p] /\ Goto(p, "raised"))
       ELSE Goto(p, "load")
    /\ UNCHANGED <<design, force, netlist, left, held, used, build, dir, result, crashes, complete>>

-----------------------------------------------------------------------------
(* Builder.build.  B(p) is the build directory of p's design.              *)

B(p) == Class[design[p]]

Clean(p) ==
    /\ pc[p] = "clean"
    /\ build' = [build EXCEPT ![B(p)] = NoBuild]
    /\ Goto(p, "elaborate")
    /\ UNCHANGED <<design, force, netlist, left, held, used, dir, result, crashes, complete>>

\* soc.build writes the sources and starts Vivado, ...
Elaborate(p) ==
    /\ pc[p] = "elaborate"
    /\ build' = [build EXCEPT ![B(p)].src = design[p]]
    /\ Goto(p, "synthesise")
    /\ UNCHANGED <<design, force, netlist, left, held, used, dir, result, crashes, complete>>

\* ... which reads whatever sources the directory has ...
Synthesise(p) ==
    /\ pc[p] = "synthesise"
    /\ netlist' = [netlist EXCEPT ![p] = build[B(p)].src]
    /\ Goto(p, IF build[B(p)].src = None THEN "raised" ELSE "implement")
    /\ UNCHANGED <<design, force, left, held, used, build, dir, result, crashes, complete>>

\* ... and much later writes the bitstream and its log.
Implement(p) ==
    /\ pc[p] = "implement"
    /\ build' = [build EXCEPT ![B(p)].bit = netlist[p], ![B(p)].log = netlist[p]]
    /\ Goto(p, "timing")
    /\ UNCHANGED <<design, force, netlist, left, held, used, dir, result, crashes, complete>>

\* (Mutant) Only the existence of the log is checked.
TimingMetLogged(log) == log # None

TimingMet(log) == log # None /\ log \notin Slow

CheckTiming(p) ==
    /\ pc[p] = "timing"
    /\ Goto(p, IF TimingMet(build[B(p)].log) THEN "export" ELSE "raised")
    /\ UNCHANGED <<design, force, netlist, left, held, used, build, dir, result, crashes, complete>>

Export(p) ==
    /\ pc[p] = "export"
    /\ build' = [build EXCEPT ![B(p)].csr = design[p]]
    /\ Goto(p, "remove")
    /\ UNCHANGED <<design, force, netlist, left, held, used, dir, result, crashes, complete>>

\* copy_results: empty_path removes the result directory ...
Remove(p) ==
    /\ pc[p] = "remove"
    /\ dir' = [dir EXCEPT ![design[p]] = FALSE]
    /\ result' = [result EXCEPT ![design[p]] = NoResult]
    /\ complete' = complete \ {design[p]}
    /\ Goto(p, "mkdir")
    /\ UNCHANGED <<design, force, netlist, left, held, used, build, crashes>>

\* ... makes a new one ...
Make(p) ==
    /\ pc[p] = "mkdir"
    /\ dir' = [dir EXCEPT ![design[p]] = TRUE]
    /\ left' = [left EXCEPT ![p] = Results]
    /\ Goto(p, "copy")
    /\ UNCHANGED <<design, force, netlist, held, used, build, result, crashes, complete>>

\* ... and the results are copied one by one, each of them piece by piece.
CopyBegin(p) ==
    /\ pc[p] = "copy"
    /\ left[p] # <<>>
    /\ IF dir[design[p]] /\ build[B(p)][Head(left[p])] # None
       THEN /\ result' = [result EXCEPT ![design[p]][Head(left[p])] = Partial]
            /\ held' = [held EXCEPT ![p] = build[B(p)][Head(left[p])]]
            /\ Goto(p, "copying")
       ELSE Goto(p, "raised") /\ UNCHANGED <<result, held>>
    /\ UNCHANGED <<design, force, netlist, left, used, build, dir, crashes, complete>>

CopyEnd(p) ==
    /\ pc[p] = "copying"
    /\ result' = [result EXCEPT ![design[p]][Head(left[p])] =
                     IF dir[design[p]] THEN held[p] ELSE None]
    /\ held' = [held EXCEPT ![p] = None]
    /\ left' = [left EXCEPT ![p] = Tail(left[p])]
    /\ Goto(p, "copy")
    /\ UNCHANGED <<design, force, netlist, used, build, dir, crashes, complete>>

Copied(p) ==
    /\ pc[p] = "copy"
    /\ left[p] = <<>>
    /\ complete' = complete \cup {design[p]}
    /\ Goto(p, "load")
    /\ UNCHANGED <<design, force, netlist, left, held, used, build, dir, result, crashes>>

-----------------------------------------------------------------------------
(* The interface loads csr.csv and then sends bitstream.bin to the board.  *)

Use(p, file, next) ==
    LET content == result[design[p]][file] IN
    /\ used' = [used EXCEPT ![p][file] = content]
    /\ Goto(p, IF content = None THEN "raised" ELSE next)
    /\ UNCHANGED <<design, force, netlist, left, held, build, dir, result, crashes, complete>>

LoadCsrMap(p) == pc[p] = "load" /\ Use(p, "csr", "flash")
Flash(p)      == pc[p] = "flash" /\ Use(p, "bit", "running")

Crash(p) ==
    /\ AtWork(p)
    /\ crashes < MaxCrashes
    /\ crashes' = crashes + 1
    /\ Goto(p, "idle")
    /\ UNCHANGED <<design, force, netlist, left, held, used, build, dir, result, complete>>

-----------------------------------------------------------------------------

Init ==
    /\ pc = [p \in Procs |-> "idle"]
    /\ design \in [Procs -> Designs]
    /\ force = [p \in Procs |-> FALSE]
    /\ netlist = [p \in Procs |-> None]
    /\ left = [p \in Procs |-> <<>>]
    /\ held = [p \in Procs |-> None]
    /\ used = [p \in Procs |-> NoResult]
    /\ build = [c \in Classes |-> NoBuild]
    /\ dir = [d \in Designs |-> FALSE]
    /\ result = [d \in Designs |-> NoResult]
    /\ crashes = 0
    /\ complete = {}

Builder(p) == Clean(p) \/ Elaborate(p) \/ Synthesise(p) \/ Implement(p) \/ CheckTiming(p)
              \/ Export(p) \/ Remove(p) \/ Make(p) \/ CopyBegin(p) \/ CopyEnd(p) \/ Copied(p)

Next == \E p \in Procs : Run(p) \/ Check(p) \/ Builder(p) \/ LoadCsrMap(p) \/ Flash(p) \/ Crash(p)

Spec == Init /\ [][Next]_vars

-----------------------------------------------------------------------------
(* Properties.                                                             *)

(* Whatever was killed before, a design is never run with a file made from *)
(* another design, nor with one that misses the timing constraints.        *)
RunsOwnFiles ==
    \A p \in Procs : pc[p] = "running" =>
        /\ used[p].csr \in {design[p], Partial}
        /\ used[p].bit \in {design[p], Partial} \ Slow

(* A design whose results are there is run without being built again       *)
(* (README.rst:11-12), and its results are there when it is run.           *)
BuiltOnce ==
    [][\A p \in Procs :
          pc[p] = "check" /\ pc'[p] # "check" /\ design[p] \in complete /\ ~force[p] =>
              pc'[p] \in {"load", "idle"} /\ result[design[p]].bit = design[p]]_vars
=============================================================================
