------------------------------ MODULE Selections ------------------------------
(***************************************************************************)
(* Parts of a sequence, given by their places.  SelectSeq does the same for a *)
(* test, but a proof cannot look into it.                                    *)
(***************************************************************************)
EXTENDS Naturals, SequencesExt

(* s is a sequence, of whatever it holds *)
IsSeq(s) == s \in Seq(ToSet(s))

(* the elements of s at the places in I, in order *)
Kept(s, I) ==
    LET upto[n \in 0 .. Len(s)] ==
            IF n = 0 THEN <<>>
            ELSE IF n \in I THEN Append(upto[n - 1], s[n]) ELSE upto[n - 1]
    IN  upto[Len(s)]

(* the first of them, if there is one *)
FirstKept(s, I) == IF Kept(s, I) = <<>> THEN <<>> ELSE <<Kept(s, I)[1]>>

(* one after the other with sep in between *)
Joined(ss, sep) == FlattenSeq([k \in DOMAIN ss |-> IF k = 1 THEN ss[k] ELSE sep \o ss[k]])
=============================================================================
