----------------------------- MODULE ModuleTree -----------------------------
(***************************************************************************)
(* Module classes, the tree of objects that a program constructs from      *)
(* them, and the tree of gateware that is built from the same classes      *)
(* (core/module.py, core/migen.py).  A register is found by its name in    *)
(* the list of the gateware's registers, which only fits if the objects'   *)
(* names and parents are those of the gateware.                            *)
(*                                                                         *)
(* A constructor first makes the submodules, then runs the constructor     *)
(* that it replaces, which may be the one of a base class that has been    *)
(* replaced in the same way.  The calls that are under way are a stack.    *)
(***************************************************************************)
EXTENDS Integers, Sequences, FiniteSets, SequencesExt

CONSTANTS Names,       \* attribute names, each a sequence of words: "a_b" is <<"a", "b">>
          TriggerType, \* the register type that has no value
          ValueTypes,  \* the other register types
          NoName,      \* no name yet
          MaxClasses,  \* bound: classes that a program defines
          MaxMembers   \* bound: annotations in all of them

ASSUME NamesAssumption  == IsFiniteSet(Names) /\ \A n \in Names : n \in Seq(Range(n))
ASSUME NoNameAssumption == NoName \notin Names \cup {<<"top">>}
ASSUME BoundsAssumption == MaxClasses \in Nat /\ MaxMembers \in Nat

Types == ValueTypes \cup {TriggerType}

VARIABLES classes,  \* in the order of their definition
          objects,  \* in the order of their construction, the top module first
          stack     \* the constructors that are running, innermost last
treeVars == <<classes, objects, stack>>

-----------------------------------------------------------------------------
(* The definition of a class.  Annotations are register types or numbers   *)
(* of classes; base 0 is Module itself.                                    *)

Only(f, S) == [n \in {m \in DOMAIN f : f[m] \in S} |-> f[n]]

\* A dictionary updated by another one, which wins.
Updated(g, f) == [n \in DOMAIN f \cup DOMAIN g |-> IF n \in DOMAIN f THEN f[n] ELSE g[n]]

Hints(base)      == IF base = 0 THEN <<>> ELSE classes[base].hints
Attributes(base) == IF base = 0 THEN <<>> ELSE classes[base].attributes

\* (Mutant) Only the annotations are looked at.
ScannedHints(base, hints) == Only(hints, Types)
\* A register that a base class has instantiated is found after the
\* annotations, and replaces one of the same name.
Scanned(base, hints) == Updated(Only(hints, Types), Attributes(base))

\* An annotation does not replace a register that exists already.
Class(base, own) ==
    LET hints == Updated(Hints(base), own)
        registers == Scanned(base, hints)
    IN [base |-> base, hints |-> hints, registers |-> registers,
        submodules |-> Only(hints, 1..Len(classes)), members |-> Cardinality(DOMAIN own),
        attributes |-> Updated(registers, Attributes(base))]

\* To scan a class that inherits a trigger raises an error.
CanInherit(base) == TriggerType \notin {Attributes(base)[n] : n \in DOMAIN Attributes(base)}

\* How many annotations the classes have.
Members == FoldLeft(LAMBDA n, c : n + c.members, 0, classes)

DefineClass(base, own) ==
    /\ Len(classes) < MaxClasses
    /\ Members + Cardinality(DOMAIN own) <= MaxMembers
    /\ CanInherit(base)
    \* A submodule cannot be assigned to an attribute that is a register.
    /\ DOMAIN Only(own, 1..Len(classes)) \cap DOMAIN Attributes(base) = {}
    /\ classes' = Append(classes, Class(base, own))
    /\ UNCHANGED <<objects, stack>>

-----------------------------------------------------------------------------
(* The gateware: a row of the list of registers for each register of each  *)
(* module, with the names that lead to it.                                 *)

Rows[k \in 1..Len(classes)] ==
    {[path |-> <<n>>, type |-> classes[k].registers[n]] : n \in DOMAIN classes[k].registers}
    \cup UNION {{[path |-> <<n>> \o r.path, type |-> r.type] :
                     r \in Rows[classes[k].submodules[n]]} :
                n \in DOMAIN classes[k].submodules}

Top == <<"top">>
RowName(row) == Top \o FlattenSeq(row.path)

-----------------------------------------------------------------------------
(* The construction of a design.                                           *)

New(class, path) == [class |-> class, path |-> path, name |-> NoName, parent |-> 0, has |-> {}]

\* (Mutant) A submodule is given itself as its parent.
CallOfItself(obj, level, name, parent) ==
    [obj |-> obj, level |-> level, name |-> name, parent |-> obj,
     todo |-> {}, at |-> "start"]
\* A call of the constructor of class "level" for an object.
Call(obj, level, name, parent) ==
    [obj |-> obj, level |-> level, name |-> name, parent |-> parent,
     todo |-> {}, at |-> "start"]

Run(k) ==
    /\ stack = <<>>
    /\ objects' = <<New(k, <<>>)>>
    /\ stack' = <<Call(1, k, Top, 0)>>
    /\ UNCHANGED classes

frame == stack[Len(stack)]
ClassOf(o) == classes[objects[o].class]
At(x) == [stack EXCEPT ![Len(stack)].at = x]

\* (Mutant) The attributes are looked for where they always are.
AlwaysInitialised(o) == TRUE
Initialised(o) == objects[o].name # NoName

SkipInit ==
    /\ stack # <<>> /\ frame.at = "start"
    /\ Initialised(frame.obj)
    /\ stack' = At("submodules")
    /\ UNCHANGED <<classes, objects>>

InitModule ==
    /\ stack # <<>> /\ frame.at = "start"
    /\ ~Initialised(frame.obj)
    /\ objects' = [objects EXCEPT ![frame.obj].name = frame.name,
                                  ![frame.obj].parent = frame.parent]
    /\ stack' = [stack EXCEPT ![Len(stack)].at = "submodules",
                              ![Len(stack)].todo = DOMAIN ClassOf(frame.obj).submodules]
    /\ UNCHANGED classes

InitSubmodule == \E n \in (IF stack = <<>> THEN {} ELSE frame.todo) :
    LET class == ClassOf(frame.obj).submodules[n] IN
    /\ frame.at = "submodules"
    /\ objects' = Append(objects, New(class, Append(objects[frame.obj].path, n)))
    /\ stack' = Append([stack EXCEPT ![Len(stack)].todo = @ \ {n}],
                       Call(Len(objects) + 1, class, n, frame.obj))
    /\ UNCHANGED classes

InitDone == stack # <<>> /\ frame.at = "submodules" /\ frame.todo = {}

\* A class without a constructor of its own has that of its base; one with a
\* constructor may call it.  Neither passes on a name or a parent.
CallInherited ==
    /\ InitDone
    /\ classes[frame.level].base # 0
    /\ stack' = Append(At("body"),
                       Call(frame.obj, classes[frame.level].base, Top, 0))
    /\ UNCHANGED <<classes, objects>>

RunBody ==
    /\ InitDone
    /\ stack' = At("body")
    /\ UNCHANGED <<classes, objects>>

\* A submodule becomes an attribute when its constructor has returned.
Return ==
    /\ stack # <<>> /\ frame.at = "body"
    /\ stack' = Front(stack)
    /\ objects' = IF Len(stack) = 1 \/ stack[Len(stack) - 1].obj = frame.obj THEN objects
                  ELSE [objects EXCEPT ![stack[Len(stack) - 1].obj].has =
                            @ \cup {Last(objects[frame.obj].path)}]
    /\ UNCHANGED classes

TreeInit == classes = <<>> /\ objects = <<>> /\ stack = <<>>

\* All classes are defined before the first design runs.
TreeNext ==
    \/ objects = <<>> /\ \E base \in 0..Len(classes), dom \in SUBSET Names :
           \E own \in [dom -> Types \cup 1..Len(classes)] : DefineClass(base, own)
    \/ \E k \in 1..Len(classes) : Run(k)
    \/ SkipInit \/ InitModule \/ InitSubmodule
    \/ CallInherited \/ RunBody \/ Return

TreeSpec == TreeInit /\ [][TreeNext]_treeVars

-----------------------------------------------------------------------------
(* What a program reads and writes by.                                     *)

\* The names from the top module to an object.
Parents[o \in 0..Len(objects)] ==
    IF o = 0 THEN <<>> ELSE Append(Parents[objects[o].parent], objects[o].name)

FullName(o, n) == FlattenSeq(Append(Parents[o], n))

-----------------------------------------------------------------------------
(* Properties.                                                             *)

(* A class's members lead to classes defined before, and an object has the *)
(* submodules that its class says and a parent made before it              *)
(* (module.py:45-64, 93-98 and 108-125).                                   *)
TreeTypeOK ==
    /\ Len(classes) <= MaxClasses
    /\ \A k \in DOMAIN classes :
          /\ classes[k].base \in 0..(k - 1)
          /\ DOMAIN classes[k].registers \cup DOMAIN classes[k].submodules \subseteq Names
          /\ \A n \in DOMAIN classes[k].submodules : classes[k].submodules[n] < k
    /\ \A o \in DOMAIN objects :
          /\ objects[o].class \in DOMAIN classes
          /\ objects[o].name \in Names \cup {Top, NoName}
          /\ objects[o].parent \in 0..(o - 1)
          /\ objects[o].has \subseteq DOMAIN ClassOf(o).submodules
    /\ \A i \in DOMAIN stack : stack[i].obj \in DOMAIN objects

(* From the moment that an object can be used, also by constructors of its *)
(* own, of its base classes or of its submodules that are still running,   *)
(* each of its registers has the name of its own row in the list, and its  *)
(* attribute converts values by the type that the gateware has, whatever   *)
(* the annotations of base classes and subclasses say (module.py:45-53,    *)
(* 98, 108-138, register.py:112-114, migen.py:37-70).                      *)
AccessReachesOwn ==
    objects # <<>> =>
        LET rows == Rows[objects[1].class] IN
        \A o \in {p \in DOMAIN objects : objects[p].name # NoName} :
            \A n \in DOMAIN ClassOf(o).attributes :
                LET row == [path |-> Append(objects[o].path, n), type |-> ClassOf(o).attributes[n]]
                    name == FullName(o, n)
                IN /\ row \in rows
                   /\ name = RowName(row)

(* No two registers of a design have the same name.  They do where a name  *)
(* contains the separator (register.py:110 and 114, csrmap.py:14).         *)
NamesDiffer ==
    objects # <<>> => LET rows == Rows[objects[1].class] IN
                      \A r, s \in rows : RowName(r) = RowName(s) => r = s

(* When the body of a constructor runs, whether the class's own or a base  *)
(* class's, all submodules of the object have been constructed, each once, *)
(* and are its attributes (module.py:97-100, 108-125).                     *)
BodiesFindSubmodules ==
    \A i \in DOMAIN stack : stack[i].at = "body" =>
        LET o == stack[i].obj
            children == {p \in DOMAIN objects : objects[p].parent = o}
        IN /\ objects[o].has = DOMAIN ClassOf(o).submodules
           /\ Cardinality(children) = Cardinality(objects[o].has)
           /\ \A p \in children : \A j \in DOMAIN stack : stack[j].obj # p

(* What a class says of a register is what the register is.  Of one that a *)
(* base class has, it is not (module.py:45-53).                            *)
OwnTypeCounts ==
    \A k \in DOMAIN classes : \A n \in DOMAIN classes[k].hints :
        classes[k].hints[n] \in Types => classes[k].registers[n] = classes[k].hints[n]
=============================================================================
