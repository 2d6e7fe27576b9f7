---------------------------- MODULE MCConnection ----------------------------
(* Instances of Connection for TLC: documents with two properties. *)
EXTENDS Connection

CONSTANTS d1

OneDoc == {d1}
Properties == {"count", "name"}

\* The properties of a document are 0 or 1; an op list sets some of them.
Records == [Properties -> 0 .. 1]
OpLists == UNION {[S -> 0 .. 1] : S \in SUBSET Properties \ {{}}}
Set(data, op) == [p \in Properties |-> IF p \in DOMAIN op THEN op[p] ELSE data[p]]
PathsOf(op) == DOMAIN op
Changes(from, to) == [p \in {q \in Properties : from[q] # to[q]} |-> to[p]]

=============================================================================
