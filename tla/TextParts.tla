-------------------------------- MODULE TextParts --------------------------------
(***************************************************************************)
(* Texts put together from parts: the items of a sequence at given         *)
(* positions, and parts one after the other ("".join, and a comprehension  *)
(* with a condition).  Recursive functions, of which more can be proved    *)
(* than of SelectSeq and FlattenSeq.                                       *)
(***************************************************************************)
EXTENDS Integers, Sequences

Select(s, positions) ==
    LET upTo[i \in 0 .. Len(s)] ==
            IF i = 0 THEN <<>>
            ELSE IF i \in positions THEN Append(upTo[i - 1], s[i]) ELSE upTo[i - 1]
    IN  upTo[Len(s)]

Joined(parts) ==
    LET upTo[i \in 0 .. Len(parts)] == IF i = 0 THEN <<>> ELSE upTo[i - 1] \o parts[i]
    IN  upTo[Len(parts)]
=================================================================================
