------------------------------ MODULE TextHelpers ------------------------------
(***************************************************************************)
(* strip, lstrip, rstrip and split (src/src/utils/utils.cc), by which the  *)
(* receive thread and the handlers take the arm's lines apart.  A text is  *)
(* a sequence of characters; the code counts them from 0, TLA+ from 1.     *)
(***************************************************************************)
EXTENDS Integers, Sequences, FiniteSetsExt, SequencesExt

(* The first character that is not to be stripped, from the left, where    *)
(* sides says which sides are.                                             *)
LeftEnd(s, sides, chars) ==
    IF "left" \in sides
    THEN Min({Len(s)} \cup {k \in 0 .. Len(s) - 1 : s[k + 1] \notin chars})
    ELSE 0

(* The end of what is left.  The loop counts j down from the last          *)
(* character and stops at 0, where it does not tell a character that stays *)
(* from one that goes; hence "if (j != 0) j++".  The slip counts up always.*)
PastAlways(j) == j + 1
Past(j) == IF j # 0 THEN j + 1 ELSE 0

RightEnd(s, i, sides, chars) ==
    IF "right" \in sides
    THEN Past(Max({0} \cup {j \in 0 .. Len(s) - 1 : j < i \/ s[j + 1] \notin chars}))
    ELSE Len(s)

(* substr(i, j - i), where a negative length is as good as no limit.       *)
do_strip(s, sides, chars) ==
    LET i == LeftEnd(s, sides, chars)
        j == RightEnd(s, i, sides, chars)
    IN SubSeq(s, i + 1, IF j < i THEN Len(s) ELSE j)

strip(s, chars)  == do_strip(s, {"left", "right"}, chars)
lstrip(s, chars) == do_strip(s, {"left"}, chars)
rstrip(s, chars) == do_strip(s, {"right"}, chars)

(* split(): the pieces between the separators, of the text with one more   *)
(* separator at its end; no piece of an empty text.  The slip goes on only *)
(* while there is text left.                                               *)
EndsOfText(s, sep)   == {k \in 1 .. Len(s) : s[k] = sep \/ k = Len(s)}
EndsOfPieces(s, sep) == {k \in 1 .. Len(s) + 1 : k = Len(s) + 1 \/ s[k] = sep}

(* Where the n-th piece ends: find() goes through the ends in their order.  *)
NthEnd(s, sep, n) ==
    LET ends == EndsOfPieces(s, sep)
    IN CHOOSE k \in ends : Cardinality({j \in ends : j <= k}) = n

split(s, sep) ==
    IF s = <<>> THEN <<>>
    ELSE LET start(n) == IF n = 1 THEN 1 ELSE NthEnd(s, sep, n - 1) + 1
         IN [n \in 1 .. Cardinality(EndsOfPieces(s, sep)) |->
               SubSeq(s, start(n), NthEnd(s, sep, n) - 1)]

-----------------------------------------------------------------------------
(* What they should return.                                                *)

Kept(s, chars) == {k \in DOMAIN s : s[k] \notin chars}
Trimmed(s, sides, chars) ==
    LET first == IF "left" \in sides THEN Min(Kept(s, chars)) ELSE 1
        last  == IF "right" \in sides THEN Max(Kept(s, chars)) ELSE Len(s)
    IN IF Kept(s, chars) = {} THEN <<>> ELSE SubSeq(s, first, last)

(* strip() takes exactly the characters at the ends, unless all there is   *)
(* to keep is one character at the very beginning, which it takes as well; *)
(* likewise rstrip().                                                      *)
StripOf(s, chars) ==
    LET lost == Kept(s, chars) = {1}
    IN s # <<>> =>
        /\ strip(s, chars) = IF lost THEN <<>> ELSE Trimmed(s, {"left", "right"}, chars)
        /\ lstrip(s, chars) = Trimmed(s, {"left"}, chars)
        /\ rstrip(s, chars) = IF lost THEN <<>> ELSE Trimmed(s, {"right"}, chars)

(* split() loses nothing: there is one piece more than separators, no      *)
(* piece holds one, and the pieces with the separators between them are    *)
(* the text again.                                                         *)
SplitOf(s, sep) ==
    LET pieces == split(s, sep)
        seps   == {k \in DOMAIN s : s[k] = sep}
    IN s # <<>> =>
        /\ Len(pieces) = Cardinality(seps) + 1
        /\ FlattenSeq([n \in DOMAIN pieces |-> Append(pieces[n], sep)])
             = Append(s, sep)
        /\ \A n \in DOMAIN pieces : \A k \in DOMAIN pieces[n] : pieces[n][k] # sep
===============================================================================
