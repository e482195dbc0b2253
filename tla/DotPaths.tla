-------------------------------- MODULE DotPaths --------------------------------
(***************************************************************************)
(* shared/dot-path.ts: reading and writing JSON objects by path.  An       *)
(* object is the function from the paths of its leaves to their values; a  *)
(* path is the sequence of its keys.                                       *)
(***************************************************************************)
EXTENDS Integers, Sequences, SequencesExt

\* A value is a number, or one of the kinds "text", "digits" (a text that reads as the
\* number value), "blank", "boolean", "list" (an empty one), "null", and "object" for
\* what lies above leaves.
Numeral(n) == [kind |-> "number", value |-> n]
NaN == [kind |-> "NaN"]

\* getAtPath and setAtPath; what is written is never an object.
At(p, path) ==
  CASE path \in DOMAIN p -> p[path]
    [] \E q \in DOMAIN p : IsStrictPrefix(path, q) -> [kind |-> "object"]
    [] OTHER -> [kind |-> "absent"]
IsPresent(p, path) == At(p, path).kind \notin {"absent", "null"}

SetAt(p, path, value) ==
  LET kept == {q \in DOMAIN p : ~IsPrefix(path, q) /\ ~IsPrefix(q, path)}
  IN [q \in kept \cup {path} |-> IF q = path THEN value ELSE p[q]]

\* Number(value): 0 of null and of an empty text or list; of other texts and of
\* objects it is none.
ToNumber(value) ==
  CASE value.kind \in {"number", "digits"} -> Numeral(value.value)
    [] value.kind = "boolean" -> Numeral(1)
    [] value.kind \in {"blank", "list", "null"} -> Numeral(0)
    [] OTHER -> NaN
===============================================================================
