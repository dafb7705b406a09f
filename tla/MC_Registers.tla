---------------------------- MODULE MC_Registers ----------------------------
(***************************************************************************)
(* Registers, in two parts that do not depend on each other: the values of *)
(* narrow registers of the shapes that the package's modules have, and the *)
(* places of registers in trees of small modules.                          *)
(***************************************************************************)
EXTENDS RegisterCodec, ModuleTree

Plain == [kind |-> "register", width |-> 3, offset |-> 0, signed |-> FALSE, depth |-> 1,
          reverse |-> FALSE, readonly |-> FALSE, ram |-> FALSE, min |-> None, max |-> None,
          decimals |-> 2, bit |-> 0, invert |-> FALSE]
Number == [Plain EXCEPT !.kind = "number", !.signed = TRUE]
Fixed  == [Number EXCEPT !.kind = "fixed"]
Array(r)    == [r EXCEPT !.depth = 2]
Readonly(r) == [r EXCEPT !.readonly = TRUE]

PackageRegisters == {
    Plain, Array(Plain), Array([Plain EXCEPT !.reverse = TRUE]), Readonly(Array(Plain)),
    [Plain EXCEPT !.kind = "trigger", !.width = 1], [Plain EXCEPT !.kind = "bool"], [Plain EXCEPT !.kind = "bool", !.bit = 1, !.invert = TRUE],
    Number, [Number EXCEPT !.signed = FALSE], Readonly(Number),
    [Number EXCEPT !.offset = -1], [Number EXCEPT !.offset = -2, !.min = 2 * Den],
    Readonly([Number EXCEPT !.offset = -1]),
    Fixed, [Fixed EXCEPT !.signed = FALSE, !.decimals = 1], [Fixed EXCEPT !.max = Den],
    [Fixed EXCEPT !.decimals = 0], Array([Fixed EXCEPT !.reverse = TRUE]),
    Readonly(Array(Fixed)), Array([Fixed EXCEPT !.ram = TRUE]) }

Some == {-60, -27, -21, -13, -6, -3, -1, 0, 1, 2, 3, 5, 6, 7, 9, 12, 15, 18, 19, 24, 41, 42, 43, 48, 60}

ASSUME ConstantsAssumption == RegistersFit

VARIABLE part   \* fixed

\* The third name is the first two joined.
SomeNames == {<<"a">>, <<"b">>, <<"a", "b">>}

\* The types of registers that have a value are alike.
Symmetry == Permutations(ValueTypes)

RegistersInit ==
    /\ part \in {"values", "places"}
    /\ Init
    /\ part = "places" => register = Plain
    /\ TreeInit

RegistersNext ==
    \/ part = "values" /\ Next /\ UNCHANGED <<part, treeVars>>
    \/ part = "places" /\ TreeNext /\ UNCHANGED <<part, vars>>

RegistersSpec == RegistersInit /\ [][RegistersNext]_<<part, vars, treeVars>>
=============================================================================
