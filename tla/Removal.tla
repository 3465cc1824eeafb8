------------------------------ MODULE Removal ------------------------------
(***************************************************************************)
(* What several caches of the program do with their queues and orders of   *)
(* use: OrderedDict.pop, and list comprehensions that leave entries out.   *)
(* SelectSeq says the same, but has no definition that can be used in a    *)
(* proof.                                                                  *)
(***************************************************************************)
EXTENDS Integers, Sequences

\* s without the elements of K.
Without(s, K) ==
    LET kept[i \in 0 .. Len(s)] ==
            IF i = 0 THEN <<>>
            ELSE IF s[i] \in K THEN kept[i - 1]
            ELSE Append(kept[i - 1], s[i])
    IN  kept[Len(s)]
=============================================================================
