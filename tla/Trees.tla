------------------------------- MODULE Trees --------------------------------
(* Expressions, as Emission has them (IRInstr, IRConst and BlockPlace of    *)
(* sonolus/backend).                                                        *)
EXTENDS Integers

One == 2
Default == -101   \* the case of a default edge
Infinity == 9999

Node(f, args) == [f |-> f, v |-> 0, args |-> args]
Const(n) == [f |-> "Const", v |-> n, args |-> <<>>]
Place(offset, args) == [f |-> "Place", v |-> offset, args |-> args]
=============================================================================
