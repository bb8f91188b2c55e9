----------------------------- MODULE Operation -----------------------------
(***************************************************************************)
(* One call of an operation that is a function of its input: Init chooses  *)
(* the operation and its argument, the one step computes what it returns.  *)
(* The modules Check... say which operations, over which arguments, and    *)
(* compare the results with reference definitions.                         *)
(***************************************************************************)
EXTENDS Integers, Sequences, FiniteSets
VARIABLES op,    \* the operation
          arg,   \* its argument
          out    \* <<>>, then <<what it returns>>
opVars == <<op, arg, out>>

Nil == 0   \* the value of a variable that the chosen part does not use

Called(name, args) == op = name /\ arg \in args /\ out = <<>>
Return(name) == op = name /\ out = <<>> /\ UNCHANGED <<op, arg>>
\* a behaviour about a component with variables of its own
OnlyOp(name) == op = name /\ arg = Nil /\ out = Nil
Returned(name) == op = name /\ out # <<>>
res == out[1]
=============================================================================
