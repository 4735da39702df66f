------------------------------- MODULE Vectors -------------------------------
(***************************************************************************)
(* The operations of std::vector and std::list that the standard modules   *)
(* have not.                                                               *)
(***************************************************************************)
EXTENDS Integers, Sequences, FiniteSetsExt

Back(s) == s[Len(s)]

PopBack(s) == SubSeq(s, 1, Len(s) - 1)

(* std::find of a value that is there.                                     *)
Find(s, x) == Min({i \in DOMAIN s : s[i] = x})

EraseAt(s, i) == [j \in 1..(Len(s) - 1) |-> IF j < i THEN s[j] ELSE s[j + 1]]

=============================================================================
