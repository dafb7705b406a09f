------------------------- MODULE BuildCacheProofs -------------------------
(***************************************************************************)
(* Proofs about BuildCache, for any number of processes and designs: as    *)
(* long as processes at work run designs of different classes, a design is *)
(* run with files of its own and is not built twice.                       *)
(*                                                                         *)
(* The argument is that of ownership.  A process at work owns the build    *)
(* directory of its class and the result directory of its design (Apart);  *)
(* what it finds there is what its own steps have written (Stage), since   *)
(* nobody else writes there (Elsewhere).                                   *)
(***************************************************************************)
EXTENDS BuildCache, TLAPS

Steps == {"idle", "check", "clean", "elaborate", "synthesise", "implement", "timing",
          "export", "remove", "mkdir", "copy", "copying", "load", "flash", "running", "raised"}

Suffixes == {Results, <<"csr">>, <<>>}

BuildDir  == [src : Content, bit : Content, log : Content, csr : Content]
ResultDir == [bit : Content, csr : Content]

TypeOK ==
    /\ pc \in [Procs -> Steps]
    /\ design \in [Procs -> Designs]
    /\ force \in [Procs -> BOOLEAN]
    /\ netlist \in [Procs -> Content]
    /\ left \in [Procs -> Suffixes]
    /\ held \in [Procs -> Content]
    /\ used \in [Procs -> ResultDir]
    /\ build \in [Classes -> BuildDir]
    /\ dir \in [Designs -> BOOLEAN]
    /\ result \in [Designs -> ResultDir]
    /\ crashes \in Nat
    /\ complete \subseteq Designs

\* Processes at work do not meet: not in a build directory, nor in a result.
Apart == \A p, q \in Procs : p # q /\ AtWork(p) /\ AtWork(q) => B(p) # B(q)

Mine(p, content) == content = design[p]

\* What p finds in the directories of its class and its design.
Built(p) ==
    LET b == build[B(p)] IN
    /\ pc[p] = "synthesise" => Mine(p, b.src)
    /\ pc[p] = "implement" => Mine(p, netlist[p])
    /\ pc[p] \in {"timing", "export", "remove", "mkdir", "copy", "copying"} =>
          Mine(p, b.bit) /\ Mine(p, b.log)
    /\ pc[p] \in {"export", "remove", "mkdir", "copy", "copying"} => design[p] \notin Slow
    /\ pc[p] \in {"remove", "mkdir", "copy", "copying"} => Mine(p, b.csr)

Copying(p) ==
    LET r == result[design[p]] IN
    /\ pc[p] \in {"mkdir", "copy", "copying"} => design[p] \notin complete
    /\ pc[p] \in {"copy", "copying"} =>
          /\ dir[design[p]]
          /\ left[p] # Results => Mine(p, r.bit)
          /\ left[p] = <<>> => Mine(p, r.csr)
    /\ pc[p] = "copying" => left[p] # <<>> /\ Mine(p, held[p])

Running(p) ==
    /\ pc[p] \in {"flash", "running"} => used[p].csr \in {design[p], Partial}
    /\ pc[p] = "running" => used[p].bit \in {design[p], Partial} \ Slow

Stage(p) == Built(p) /\ Copying(p) /\ Running(p)

\* A result is of its own design, whole or not, and meets the constraints;
\* a complete one is whole.
Kept(d) ==
    /\ result[d].csr \in {d, None, Partial}
    /\ result[d].bit \in {d, None, Partial} \ Slow
    /\ d \in complete => dir[d] /\ result[d].bit = d /\ result[d].csr = d

IInv == TypeOK /\ Apart /\ (\A p \in Procs : Stage(p)) /\ (\A d \in Designs : Kept(d))

-----------------------------------------------------------------------------

(* A file that is written leaves a directory of the same files.            *)
LEMMA FileWritten ==
    ASSUME NEW D, NEW f, NEW c \in D, NEW x \in Content
    PROVE  /\ f \in [D -> BuildDir] => /\ [f EXCEPT ![c].src = x] \in [D -> BuildDir]
                                       /\ [f EXCEPT ![c].bit = x] \in [D -> BuildDir]
                                       /\ [f EXCEPT ![c].log = x] \in [D -> BuildDir]
                                       /\ [f EXCEPT ![c].csr = x] \in [D -> BuildDir]
           /\ f \in [D -> ResultDir] => /\ [f EXCEPT ![c].bit = x] \in [D -> ResultDir]
                                        /\ [f EXCEPT ![c].csr = x] \in [D -> ResultDir]
<1>1. \A r \in BuildDir : /\ [r EXCEPT !.src = x] \in BuildDir
                          /\ [r EXCEPT !.bit = x] \in BuildDir
                          /\ [r EXCEPT !.log = x] \in BuildDir
                          /\ [r EXCEPT !.csr = x] \in BuildDir
  BY DEF BuildDir
<1>2. \A r \in ResultDir : [r EXCEPT !.bit = x] \in ResultDir /\ [r EXCEPT !.csr = x] \in ResultDir
  BY DEF ResultDir
<1> QED
  BY <1>1, <1>2

(* The results are taken from the left, one at a time.                     *)
LEMMA NextResult ==
    ASSUME NEW l \in Suffixes, l # <<>>
    PROVE  /\ Tail(l) \in Suffixes \ {Results}
           /\ l = Results => Head(l) = "bit" /\ Tail(l) # <<>>
           /\ l # Results => Head(l) = "csr" /\ Tail(l) = <<>>
<1>1. l = <<"bit", "csr">> \/ l = <<"csr">>
  BY DEF Suffixes, Results
<1>2. CASE l = <<"bit", "csr">>
  BY <1>2 DEF Suffixes, Results
<1>3. CASE l = <<"csr">>
  <2>1. Head(l) = "csr" /\ Tail(l) = <<>>
    BY <1>3
  <2> QED
    BY <1>3, <2>1 DEF Suffixes, Results
<1> QED
  BY <1>1, <1>2, <1>3

-----------------------------------------------------------------------------

(* The initial state, in which nobody is at work and no file exists.       *)
LEMMA InitInvariant == Init => IInv
<1> SUFFICES ASSUME Init PROVE IInv
  OBVIOUS
<1> USE ClassAssumption, FilesAssumption
<1>1. TypeOK
  BY DEF Init, TypeOK, Steps, Suffixes, Content, Classes, NoResult, NoBuild, BuildDir, ResultDir
<1>2. Apart
  BY DEF Init, Apart, AtWork
<1>3. \A p \in Procs : Stage(p)
  BY DEF Init, Stage, Built, Copying, Running
<1>4. \A d \in Designs : Kept(d)
  BY DEF Init, Kept, NoResult
<1> QED
  BY <1>1, <1>2, <1>3, <1>4 DEF IInv

(* The builder keeps the types.                                            *)
LEMMA BuilderKeepsTypes ==
    ASSUME TypeOK, NEW p \in Procs, Stage(p), Builder(p)
    PROVE  TypeOK'
<1> USE DEF TypeOK, Goto
<1>0. design[p] \in Designs \cap Content /\ B(p) \in Classes
  BY DEF Classes, B, Content
<1>1. CASE Clean(p)
  BY <1>0, <1>1, FilesAssumption DEF Clean, Steps, NoBuild, BuildDir, Content
<1>2. CASE Elaborate(p)
  <2>1. build' \in [Classes -> BuildDir]
    BY <1>0, <1>2, FileWritten DEF Elaborate
  <2> QED
    BY <1>2, <2>1 DEF Elaborate, Steps
<1>3. CASE Synthesise(p)
  <2>1. build[B(p)].src \in Content
    BY <1>0 DEF BuildDir
  <2> QED
    BY <1>3, <2>1 DEF Synthesise, Steps
<1>4. CASE Implement(p)
  <2> DEFINE bits == [build EXCEPT ![B(p)].bit = netlist[p]]
  <2>1. bits \in [Classes -> BuildDir]
    BY <1>0, FileWritten
  <2>2. build' = [bits EXCEPT ![B(p)].log = netlist[p]]
    BY <1>0, <1>4 DEF Implement
  <2> HIDE DEF bits
  <2>3. build' \in [Classes -> BuildDir]
    BY <1>0, <2>1, <2>2, FileWritten
  <2> QED
    BY <1>4, <2>3 DEF Implement, Steps
<1>5. CASE CheckTiming(p)
  BY <1>5 DEF CheckTiming, Steps
<1>6. CASE Export(p)
  <2>1. build' \in [Classes -> BuildDir]
    BY <1>0, <1>6, FileWritten DEF Export
  <2> QED
    BY <1>6, <2>1 DEF Export, Steps
<1>7. CASE Remove(p)
  BY <1>0, <1>7, FilesAssumption DEF Remove, Steps, NoResult, ResultDir, Content
<1>8. CASE Make(p)
  BY <1>0, <1>8 DEF Make, Steps, Suffixes
<1>9. CASE CopyBegin(p)
  <2>1. left[p] # <<>> /\ Head(left[p]) \in {"bit", "csr"}
    BY <1>9, NextResult DEF CopyBegin
  <2>2. result' \in [Designs -> ResultDir]
    <3>1. result' = result \/ result' = [result EXCEPT ![design[p]][Head(left[p])] = Partial]
      BY <1>9 DEF CopyBegin
    <3>2. Partial \in Content
      BY DEF Content
    <3>3. /\ [result EXCEPT ![design[p]].bit = Partial] \in [Designs -> ResultDir]
          /\ [result EXCEPT ![design[p]].csr = Partial] \in [Designs -> ResultDir]
      BY <1>0, <3>2, FileWritten
    <3> QED
      BY <2>1, <3>1, <3>3
  <2>3. build[B(p)][Head(left[p])] \in Content
    BY <1>0, <2>1 DEF BuildDir
  <2>4. held' \in [Procs -> Content]
    BY <1>9, <2>3 DEF CopyBegin
  <2> QED
    BY <1>9, <2>2, <2>4 DEF CopyBegin, Steps
<1>10. CASE CopyEnd(p)
  <2>1. left[p] # <<>>
    BY <1>10 DEF CopyEnd, Stage, Copying
  <2>2. Head(left[p]) \in {"bit", "csr"} /\ Tail(left[p]) \in Suffixes
    BY <2>1, NextResult
  <2>3. result' \in [Designs -> ResultDir]
    BY <1>0, <1>10, <2>2, FileWritten DEF CopyEnd, Content
  <2> QED
    BY <1>10, <2>2, <2>3 DEF CopyEnd, Steps, Content
<1>11. CASE Copied(p)
  BY <1>0, <1>11 DEF Copied, Steps
<1> QED
  BY <1>1, <1>2, <1>3, <1>4, <1>5, <1>6, <1>7, <1>8, <1>9, <1>10, <1>11 DEF Builder
-----------------------------------------------------------------------------

(* A step of p changes what is p's: its own variables and the directories  *)
(* of the class and the design that it works on.                           *)
Elsewhere(p) ==
    /\ \A q \in Procs \ {p} :
          /\ pc'[q] = pc[q] /\ design'[q] = design[q] /\ netlist'[q] = netlist[q]
          /\ left'[q] = left[q] /\ held'[q] = held[q] /\ used'[q] = used[q]
    /\ \A c \in Classes \ {B(p)} : build'[c] = build[c]
    /\ \A d \in Designs \ {design[p]} :
          dir'[d] = dir[d] /\ result'[d] = result[d] /\ (d \in complete' <=> d \in complete)

LEMMA BuilderElsewhere ==
    ASSUME TypeOK, NEW p \in Procs, Builder(p)
    PROVE  Elsewhere(p) /\ design' = design /\ used' = used
<1> USE DEF TypeOK, Goto, Elsewhere
<1>0. design[p] \in Designs
  OBVIOUS
<1>1. CASE Clean(p)
  BY <1>0, <1>1 DEF Clean
<1>2. CASE Elaborate(p)
  BY <1>0, <1>2 DEF Elaborate
<1>3. CASE Synthesise(p)
  BY <1>0, <1>3 DEF Synthesise
<1>4. CASE Implement(p)
  BY <1>0, <1>4 DEF Implement
<1>5. CASE CheckTiming(p)
  BY <1>0, <1>5 DEF CheckTiming
<1>6. CASE Export(p)
  BY <1>0, <1>6 DEF Export
<1>7. CASE Remove(p)
  BY <1>0, <1>7 DEF Remove
<1>8. CASE Make(p)
  BY <1>0, <1>8 DEF Make
<1>9. CASE CopyBegin(p)
  BY <1>0, <1>9 DEF CopyBegin
<1>10. CASE CopyEnd(p)
  BY <1>0, <1>10 DEF CopyEnd
<1>11. CASE Copied(p)
  BY <1>0, <1>11 DEF Copied
<1> QED
  BY <1>1, <1>2, <1>3, <1>4, <1>5, <1>6, <1>7, <1>8, <1>9, <1>10, <1>11 DEF Builder

(* What p does at work leaves the stage of every other process at work.    *)
LEMMA OthersKeepStage ==
    ASSUME TypeOK, Apart, NEW p \in Procs, AtWork(p), Elsewhere(p),
           NEW q \in Procs \ {p}, Stage(q)
    PROVE  Stage(q)'
<1>1. /\ pc'[q] = pc[q] /\ design'[q] = design[q] /\ netlist'[q] = netlist[q]
      /\ left'[q] = left[q] /\ held'[q] = held[q] /\ used'[q] = used[q]
  BY DEF Elsewhere
<1>2. Running(q)'
  BY <1>1 DEF Stage, Running
<1>3. CASE ~AtWork(q)
  BY <1>1, <1>2, <1>3 DEF AtWork, Stage, Built, Copying
<1>4. CASE AtWork(q)
  <2>1. B(p) # B(q) /\ design[p] # design[q] /\ B(q) \in Classes /\ design[q] \in Designs
    BY <1>4 DEF Apart, B, TypeOK, Classes
  <2>2. B(q)' = B(q) /\ build'[B(q)] = build[B(q)]
    BY <1>1, <2>1 DEF Elsewhere, B
  <2>3. /\ dir'[design[q]] = dir[design[q]] /\ result'[design[q]] = result[design[q]]
        /\ design[q] \in complete' <=> design[q] \in complete
    BY <2>1 DEF Elsewhere
  <2>4. Built(q)'
    BY <1>1, <2>2 DEF Stage, Built, Mine
  <2>5. Copying(q)'
    BY <1>1, <2>3 DEF Stage, Copying, Mine
  <2> QED
    BY <1>2, <2>4, <2>5 DEF Stage
<1> QED
  BY <1>3, <1>4
(* Each step of the builder finds what the last one left, and leaves what  *)
(* the next one needs.                                                     *)
LEMMA BuilderKeepsStage ==
    ASSUME TypeOK, NEW p \in Procs, Stage(p), Builder(p)
    PROVE  Stage(p)'
<1> USE DEF TypeOK, Goto, Mine
<1>0. design[p] \in Designs /\ B(p) \in Classes /\ left[p] \in Suffixes /\ build[B(p)] \in BuildDir
  BY DEF Classes, B
<1>1. design'[p] = design[p] /\ B(p)' = B(p) /\ used' = used
  BY BuilderElsewhere DEF B
<1>2. Running(p)'
  <2>1. pc'[p] \notin {"flash", "running"}
    BY DEF Builder, Clean, Elaborate, Synthesise, Implement, CheckTiming, Export, Remove, Make,
           CopyBegin, CopyEnd, Copied
  <2> QED
    BY <2>1 DEF Running
<1>3. CASE Clean(p)
  BY <1>2, <1>3 DEF Clean, Stage, Built, Copying
<1>4. CASE Elaborate(p)
  <2>1. build'[B(p)].src = design[p]
    BY <1>0, <1>4 DEF Elaborate, BuildDir
  <2> QED
    BY <1>1, <1>2, <1>4, <2>1 DEF Elaborate, Stage, Built, Copying
<1>5. CASE Synthesise(p)
  BY <1>1, <1>2, <1>5 DEF Synthesise, Stage, Built, Copying
<1>6. CASE Implement(p)
  <2>1. netlist[p] = design[p]
    BY <1>6 DEF Implement, Stage, Built
  <2>2. build'[B(p)].bit = netlist[p] /\ build'[B(p)].log = netlist[p]
    BY <1>0, <1>6 DEF Implement, BuildDir
  <2> QED
    BY <1>1, <1>2, <1>6, <2>1, <2>2 DEF Implement, Stage, Built, Copying
<1>7. CASE CheckTiming(p)
  BY <1>1, <1>2, <1>7 DEF CheckTiming, TimingMet, Stage, Built, Copying
<1>8. CASE Export(p)
  <2>1. /\ build'[B(p)].csr = design[p]
        /\ build'[B(p)].bit = build[B(p)].bit /\ build'[B(p)].log = build[B(p)].log
    BY <1>0, <1>8 DEF Export, BuildDir
  <2> QED
    BY <1>1, <1>2, <1>8, <2>1 DEF Export, Stage, Built, Copying
<1>9. CASE Remove(p)
  <2>1. Built(p)'
    BY <1>0, <1>1, <1>9 DEF Remove, Stage, Built
  <2>2. Copying(p)'
    BY <1>0, <1>1, <1>9 DEF Remove, Stage, Copying
  <2> QED
    BY <1>2, <2>1, <2>2 DEF Stage
<1>10. CASE Make(p)
  <2>1. Built(p)'
    BY <1>0, <1>1, <1>10 DEF Make, Stage, Built
  <2>2. Copying(p)'
    BY <1>0, <1>1, <1>10 DEF Make, Stage, Copying, Results
  <2> QED
    BY <1>2, <2>1, <2>2 DEF Stage
<1>11. CASE CopyBegin(p)
  <2>1. Built(p)'
    BY <1>0, <1>1, <1>11 DEF CopyBegin, Stage, Built
  <2>2. CASE pc'[p] = "raised"
    BY <1>2, <2>1, <2>2 DEF Stage, Copying
  <2>3. CASE pc'[p] # "raised"
    <3>1. /\ pc'[p] = "copying" /\ held'[p] = build[B(p)][Head(left[p])]
          /\ result' = [result EXCEPT ![design[p]][Head(left[p])] = Partial]
          /\ left[p] # <<>> /\ left' = left /\ dir' = dir /\ complete' = complete
      BY <1>11, <2>3 DEF CopyBegin
    <3>2. design[p] \notin complete /\ dir[design[p]] /\ build[B(p)].bit = design[p] /\ build[B(p)].csr = design[p]
      BY <1>11 DEF CopyBegin, Stage, Built, Copying
    <3>3. held'[p] = design[p]
      BY <1>0, <3>1, <3>2, NextResult
    <3>4. left[p] # Results => result'[design[p]].bit = design[p]
      <4>1. CASE left[p] # Results
        <5>1. Head(left[p]) = "csr"
          BY <1>0, <3>1, <4>1, NextResult
        <5>2. result[design[p]].bit = design[p]
          BY <1>11, <4>1 DEF CopyBegin, Stage, Copying
        <5> QED
          BY <1>0, <3>1, <5>1, <5>2 DEF ResultDir
      <4> QED
        BY <4>1
    <3>5. Copying(p)'
      BY <1>1, <3>1, <3>2, <3>3, <3>4 DEF Copying
    <3> QED
      BY <1>2, <2>1, <3>5 DEF Stage
  <2> QED
    BY <2>2, <2>3
<1>12. CASE CopyEnd(p)
  <2>1. Built(p)'
    BY <1>0, <1>1, <1>12 DEF CopyEnd, Stage, Built
  <2>2. left[p] # <<>> /\ held[p] = design[p] /\ dir[design[p]] /\ design[p] \notin complete
    BY <1>12 DEF CopyEnd, Stage, Copying
  <2>3. /\ result' = [result EXCEPT ![design[p]][Head(left[p])] = design[p]]
        /\ pc'[p] = "copy" /\ left'[p] = Tail(left[p]) /\ dir' = dir /\ complete' = complete
    BY <1>12, <2>2 DEF CopyEnd
  <2>4. CASE left[p] = Results
    <3>1. result'[design[p]].bit = design[p] /\ left'[p] # <<>>
      BY <1>0, <2>2, <2>3, <2>4, NextResult DEF ResultDir
    <3> QED
      BY <1>1, <1>2, <2>1, <2>2, <2>3, <3>1 DEF Stage, Copying
  <2>5. CASE left[p] # Results
    <3>1. result[design[p]].bit = design[p]
      BY <1>12, <2>5 DEF CopyEnd, Stage, Copying
    <3>2. Head(left[p]) = "csr"
      BY <1>0, <2>2, <2>5, NextResult
    <3>3. result'[design[p]].bit = design[p] /\ result'[design[p]].csr = design[p]
      BY <1>0, <2>3, <3>1, <3>2 DEF ResultDir
    <3> QED
      BY <1>1, <1>2, <2>1, <2>2, <2>3, <3>3 DEF Stage, Copying
  <2> QED
    BY <2>4, <2>5
<1>13. CASE Copied(p)
  BY <1>2, <1>13 DEF Copied, Stage, Built, Copying
<1> QED
  BY <1>3, <1>4, <1>5, <1>6, <1>7, <1>8, <1>9, <1>10, <1>11, <1>12, <1>13 DEF Builder

(* The results stay of their own designs.                                  *)
LEMMA BuilderKeepsResults ==
    ASSUME TypeOK, NEW p \in Procs, Stage(p), Builder(p), NEW d \in Designs, Kept(d)
    PROVE  Kept(d)'
<1> USE DEF TypeOK
<1>1. CASE d # design[p]
  BY <1>1, BuilderElsewhere DEF Elsewhere, Kept
<1>2. CASE d = design[p]
  <2> USE <1>2
  <2>1. CASE UNCHANGED <<dir, result, complete>>
    BY <2>1 DEF Kept
  <2>2. CASE Remove(p)
    BY <2>2, FilesAssumption, ClassAssumption DEF Remove, Kept, NoResult
  <2>3. CASE Make(p)
    BY <2>3 DEF Make, Kept
  <2>4. CASE CopyBegin(p)
    <3>1. CASE UNCHANGED result
      BY <2>4, <3>1 DEF CopyBegin, Kept
    <3>2. CASE result' = [result EXCEPT ![d][Head(left[p])] = Partial]
      <4>1. d \notin complete'
        BY <2>4 DEF CopyBegin, Stage, Copying
      <4>2. Head(left[p]) \in {"bit", "csr"}
        BY <2>4, NextResult DEF CopyBegin
      <4>3. /\ result'[d].bit \in {result[d].bit, Partial}
            /\ result'[d].csr \in {result[d].csr, Partial}
        BY <3>2, <4>2 DEF ResultDir
      <4> QED
        BY <4>1, <4>3, FilesAssumption, ClassAssumption DEF Kept
    <3> QED
      BY <2>4, <3>1, <3>2 DEF CopyBegin
  <2>5. CASE CopyEnd(p)
    <3>1. /\ left[p] # <<>> /\ held[p] = d /\ dir[d] /\ d \notin complete /\ d \notin Slow
      BY <2>5 DEF CopyEnd, Stage, Copying, Built, Mine
    <3>2. Head(left[p]) \in {"bit", "csr"}
      BY <3>1, NextResult
    <3>3. result' = [result EXCEPT ![d][Head(left[p])] = d] /\ complete' = complete
      BY <2>5, <3>1 DEF CopyEnd
    <3>4. result'[d].bit \in {result[d].bit, d} /\ result'[d].csr \in {result[d].csr, d}
      BY <3>2, <3>3 DEF ResultDir
    <3> QED
      BY <3>1, <3>3, <3>4 DEF Kept
  <2>6. CASE Copied(p)
    <3>1. dir[d] /\ result[d].bit = d /\ result[d].csr = d
      <4>1. <<>> # Results
        BY DEF Results
      <4> QED
        BY <2>6, <4>1 DEF Copied, Stage, Copying, Mine
    <3> QED
      BY <2>6, <3>1 DEF Copied, Kept
  <2> QED
    BY <2>1, <2>2, <2>3, <2>4, <2>5, <2>6
       DEF Builder, Clean, Elaborate, Synthesise, Implement, CheckTiming, Export
<1> QED
  BY <1>1, <1>2
-----------------------------------------------------------------------------

(* The steps of the builder, and the others one by one.                    *)
LEMMA BuilderInvariant ==
    ASSUME IInv, NEW p \in Procs, Builder(p)
    PROVE  IInv'
<1> USE DEF IInv
<1>1. TypeOK'
  BY BuilderKeepsTypes
<1>2. AtWork(p) /\ Elsewhere(p) /\ design' = design
  BY BuilderElsewhere DEF Builder, AtWork, Clean, Elaborate, Synthesise, Implement, CheckTiming,
     Export, Remove, Make, CopyBegin, CopyEnd, Copied
<1>3. Apart'
  BY <1>2 DEF Apart, Elsewhere, AtWork, B
<1>4. \A q \in Procs : Stage(q)'
  BY <1>2, BuilderKeepsStage, OthersKeepStage
<1>5. \A d \in Designs : Kept(d)'
  BY BuilderKeepsResults
<1> QED
  BY <1>1, <1>3, <1>4, <1>5

\* The directories, which only the builder changes.
directories == <<build, dir, result, complete>>

LEMMA RunInvariant ==
    ASSUME IInv, Exclusive, NEW p \in Procs, Run(p)
    PROVE  IInv'
<1> USE DEF IInv
<1>1. PICK d \in Designs, f \in BOOLEAN :
         /\ \A q \in Procs \ {p} : AtWork(q) => Class[design[q]] # Class[d]
         /\ design' = [design EXCEPT ![p] = d]
         /\ force' = [force EXCEPT ![p] = f]
  BY DEF Run
<1>2. /\ pc' = [pc EXCEPT ![p] = "check"] /\ used' = [used EXCEPT ![p] = NoResult]
      /\ UNCHANGED <<netlist, left, held, crashes, directories>>
  BY DEF Run, Goto, directories
<1>3. TypeOK'
  BY <1>1, <1>2 DEF TypeOK, Steps, NoResult, ResultDir, Content, directories
<1>4. Apart'
  <2> SUFFICES ASSUME NEW q \in Procs, NEW r \in Procs, q # r, AtWork(q)', AtWork(r)'
               PROVE  B(q)' # B(r)'
    BY DEF Apart
  <2> QED
    BY <1>1, <1>2 DEF Apart, AtWork, B, TypeOK
<1>5. \A q \in Procs : Stage(q)'
  <2> SUFFICES ASSUME NEW q \in Procs PROVE Stage(q)'
    OBVIOUS
  <2>1. CASE q = p
    BY <1>2, <2>1 DEF Stage, Built, Copying, Running, TypeOK
  <2>2. CASE q # p
    BY <1>1, <1>2, <2>2 DEF Stage, Built, Copying, Running, Mine, B, TypeOK, directories
  <2> QED
    BY <2>1, <2>2
<1>6. \A d1 \in Designs : Kept(d1)'
  BY <1>2 DEF Kept, directories
<1> QED
  BY <1>3, <1>4, <1>5, <1>6

\* Steps of p that only move it and change the files that it runs with.
Moves(p) ==
    /\ \E step \in {"clean", "raised", "load", "flash", "running", "idle"} :
          pc' = [pc EXCEPT ![p] = step]
    /\ \A q \in Procs \ {p} : used'[q] = used[q]
    /\ UNCHANGED <<design, netlist, left, held, directories>>

LEMMA MovesInvariant ==
    ASSUME IInv, NEW p \in Procs, AtWork(p), Moves(p), TypeOK', Running(p)'
    PROVE  IInv'
<1> USE DEF IInv
<1>1. PICK step \in {"clean", "raised", "load", "flash", "running", "idle"} :
         pc' = [pc EXCEPT ![p] = step]
  BY DEF Moves
<1>2. UNCHANGED <<design, netlist, left, held, build, dir, result, complete>>
  BY DEF Moves, directories
<1>3. Apart'
  BY <1>1, <1>2 DEF Apart, AtWork, B, TypeOK
<1>4. Elsewhere(p)
  BY <1>1, <1>2 DEF Moves, Elsewhere, TypeOK
<1>5. Stage(p)'
  BY <1>1 DEF Stage, Built, Copying, TypeOK
<1>6. \A q \in Procs : Stage(q)'
  BY <1>4, <1>5, OthersKeepStage
<1>7. \A d \in Designs : Kept(d)'
  BY <1>2 DEF Kept
<1> QED
  BY <1>3, <1>6, <1>7

LEMMA CheckInvariant ==
    ASSUME IInv, NEW p \in Procs, Check(p)
    PROVE  IInv'
<1>1. \E step \in {"clean", "raised", "load"} : pc' = [pc EXCEPT ![p] = step]
  BY DEF Check, Goto
<1>2. TypeOK'
  BY <1>1 DEF Check, IInv, TypeOK, Steps
<1>3. Moves(p) /\ AtWork(p)
  BY <1>1 DEF Check, Moves, AtWork, directories
<1>4. Running(p)'
  BY <1>1 DEF Running, IInv, TypeOK
<1> QED
  BY <1>2, <1>3, <1>4, MovesInvariant

LEMMA CrashInvariant ==
    ASSUME IInv, NEW p \in Procs, Crash(p)
    PROVE  IInv'
<1>1. TypeOK'
  BY DEF Crash, Goto, IInv, TypeOK, Steps
<1>2. Moves(p) /\ AtWork(p)
  BY DEF Crash, Goto, Moves, directories
<1>3. Running(p)'
  BY DEF Crash, Goto, Running, IInv, TypeOK
<1> QED
  BY <1>1, <1>2, <1>3, MovesInvariant

(* The files that a design is run with are those of its own result.        *)
LEMMA UseInvariant ==
    ASSUME IInv, NEW p \in Procs, LoadCsrMap(p) \/ Flash(p)
    PROVE  IInv'
<1> USE DEF IInv
<1>0. design[p] \in Designs /\ Kept(design[p]) /\ used[p] \in ResultDir
      /\ result[design[p]] \in ResultDir
  BY DEF TypeOK
<1>1. CASE LoadCsrMap(p)
  <2> DEFINE content == result[design[p]].csr
  <2>1. /\ used' = [used EXCEPT ![p].csr = content]
        /\ pc' = [pc EXCEPT ![p] = IF content = None THEN "raised" ELSE "flash"]
        /\ UNCHANGED <<design, force, netlist, left, held, directories, crashes>>
    BY <1>1 DEF LoadCsrMap, Use, Goto, directories
  <2>2. content \in Content
    BY <1>0 DEF ResultDir
  <2>3. used' \in [Procs -> ResultDir]
    BY <2>1, <2>2, FileWritten DEF TypeOK
  <2>4. TypeOK'
    BY <2>1, <2>3 DEF TypeOK, Steps, directories
  <2>5. Moves(p) /\ AtWork(p)
    BY <1>1, <2>1 DEF Moves, TypeOK, AtWork, LoadCsrMap
  <2>6. used'[p].csr = content
    BY <1>0, <2>1 DEF TypeOK, ResultDir
  <2>7. Running(p)'
    BY <1>0, <2>1, <2>6 DEF Running, Kept, TypeOK
  <2> QED
    BY <2>4, <2>5, <2>7, MovesInvariant
<1>2. CASE Flash(p)
  <2> DEFINE content == result[design[p]].bit
  <2>1. /\ used' = [used EXCEPT ![p].bit = content]
        /\ pc' = [pc EXCEPT ![p] = IF content = None THEN "raised" ELSE "running"]
        /\ UNCHANGED <<design, force, netlist, left, held, directories, crashes>>
    BY <1>2 DEF Flash, Use, Goto, directories
  <2>2. content \in Content
    BY <1>0 DEF ResultDir
  <2>3. used' \in [Procs -> ResultDir]
    BY <2>1, <2>2, FileWritten DEF TypeOK
  <2>4. TypeOK'
    BY <2>1, <2>3 DEF TypeOK, Steps, directories
  <2>5. Moves(p) /\ AtWork(p)
    BY <1>2, <2>1 DEF Moves, TypeOK, AtWork, Flash
  <2>6. used'[p].bit = content /\ used'[p].csr = used[p].csr
    BY <1>0, <2>1 DEF TypeOK, ResultDir
  <2>7. used[p].csr \in {design[p], Partial}
    BY <1>2 DEF Flash, Stage, Running
  <2>8. Running(p)'
    BY <1>0, <2>1, <2>6, <2>7 DEF Running, Kept, TypeOK
  <2> QED
    BY <2>4, <2>5, <2>8, MovesInvariant
<1> QED
  BY <1>1, <1>2

-----------------------------------------------------------------------------

(* The invariant holds for any number of processes, designs and crashes.   *)
THEOREM Invariant ==
    ASSUME Exclusive
    PROVE  Spec => []IInv
<1>1. IInv /\ [Next]_vars => IInv'
  <2> SUFFICES ASSUME IInv, [Next]_vars PROVE IInv'
    OBVIOUS
  <2>1. ASSUME NEW p \in Procs,
               Run(p) \/ Check(p) \/ Builder(p) \/ LoadCsrMap(p) \/ Flash(p) \/ Crash(p)
        PROVE  IInv'
    BY <2>1, RunInvariant, CheckInvariant, BuilderInvariant, UseInvariant, CrashInvariant
  <2>2. CASE UNCHANGED vars
    <3>1. TypeOK'
      BY <2>2 DEF IInv, TypeOK, vars, local
    <3>2. Apart'
      BY <2>2 DEF IInv, Apart, AtWork, B, vars, local
    <3>3. \A p \in Procs : Stage(p)'
      BY <2>2 DEF IInv, Stage, Built, Copying, Running, Mine, B, vars, local
    <3>4. \A d \in Designs : Kept(d)'
      BY <2>2 DEF IInv, Kept, vars
    <3> QED
      BY <3>1, <3>2, <3>3, <3>4 DEF IInv
  <2> QED
    BY <2>1, <2>2 DEF Next
<1> QED
  BY <1>1, InitInvariant, PTL DEF Spec

(* TopModule.run and the builder never run a design with a file of another *)
(* design, nor with a bitstream that misses the timing constraints.        *)
THEOREM OwnFiles ==
    ASSUME Exclusive
    PROVE  Spec => []RunsOwnFiles
<1>1. IInv => RunsOwnFiles
  BY DEF IInv, Stage, Running, RunsOwnFiles
<1> QED
  BY <1>1, Invariant, PTL

(* A complete result is found and used instead of being built again.       *)
THEOREM NoSecondBuild ==
    ASSUME Exclusive
    PROVE  Spec => BuiltOnce
<1> DEFINE Once == \A p \in Procs :
          pc[p] = "check" /\ pc'[p] # "check" /\ design[p] \in complete /\ ~force[p] =>
              pc'[p] \in {"load", "idle"} /\ result[design[p]].bit = design[p]
<1>1. IInv /\ [Next]_vars => [Once]_vars
  <2> SUFFICES ASSUME IInv, [Next]_vars, NEW p \in Procs, pc[p] = "check", pc'[p] # "check",
                      design[p] \in complete, ~force[p]
               PROVE  pc'[p] \in {"load", "idle"} /\ result[design[p]].bit = design[p]
    OBVIOUS
  <2> USE DEF IInv
  <2>1. Kept(design[p])
    BY DEF TypeOK
  <2>2. dir[design[p]] /\ result[design[p]].bit = design[p]
    BY <2>1 DEF Kept
  <2>3. PICK q \in Procs : Run(q) \/ Check(q) \/ Builder(q) \/ LoadCsrMap(q) \/ Flash(q) \/ Crash(q)
    BY DEF Next, vars, local
  <2>4. pc' = [pc EXCEPT ![q] = pc'[q]]
    BY <2>3 DEF Run, Check, Builder, LoadCsrMap, Flash, Use, Crash, Goto, TypeOK, Clean, Elaborate,
       Synthesise, Implement, CheckTiming, Export, Remove, Make, CopyBegin, CopyEnd, Copied
  <2>5. q = p
    BY <2>4 DEF TypeOK
  <2>6. Check(p) \/ Crash(p)
    BY <2>3, <2>5 DEF Run, Builder, LoadCsrMap, Flash, Clean, Elaborate, Synthesise, Implement,
       CheckTiming, Export, Remove, Make, CopyBegin, CopyEnd, Copied
  <2>7. pc'[p] \in {"load", "idle"}
    BY <2>2, <2>6 DEF Check, Crash, ResultExists, Goto, TypeOK
  <2> QED
    BY <2>2, <2>7
<1>2. []IInv /\ [][Next]_vars => BuiltOnce
  BY <1>1, PTL DEF BuiltOnce
<1> QED
  BY <1>2, Invariant, PTL DEF Spec
=============================================================================
