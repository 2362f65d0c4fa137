---------------------------- MODULE NameEncoding ----------------------------
(***************************************************************************)
(* How a file name is spelled in a filter (standardLocalPath of            *)
(* src/src/payload.go): the names that inotify reports are physical names, *)
(* the filters of rclone see names in its Standard encoding.               *)
(*                                                                         *)
(* A rune is represented by what the two encodings tell apart:             *)
(*   quote    the quotation mark of the encodings                          *)
(*   null     the picture of NUL, or the wide slash (same rules for both)  *)
(*   picture  the picture of another control character, or of DEL          *)
(*   control  a control character, or DEL                                  *)
(*   dot      the wide full stop                                           *)
(*   other    everything else                                              *)
(* and, in a decoded name only, zero: NUL, or the slash.                   *)
(***************************************************************************)
EXTENDS Naturals, Sequences

CONSTANT MaxLen  \* bound: runes in a name

ASSUME NameAssumption == MaxLen \in Nat

Rune == {"quote", "null", "picture", "control", "dot", "other"}

\* The names of one component that are encodings of dots.
DotNames ==
    {<<"dot">>, <<"dot", "dot">>, <<"quote", "dot">>, <<"quote", "dot", "quote", "dot">>}

VARIABLES
    name,     \* a component of the path
    rest,     \* the runes that are still to be read
    quotes,   \* quotation marks read since the last other rune
    encoded,  \* the result so far
    done

vars == <<name, rest, quotes, encoded, done>>

Quotes(n) == [i \in 1..n |-> "quote"]

\* Mutant: a single quotation mark before NUL's picture is doubled as well.
EvenAlways(n, c) == n + (n % 2)

\* Standard doubles a quotation mark that quotes nothing in the local encoding.
Even(n, c) == IF c = "null" THEN n ELSE n + (n % 2)

Spell(c) ==
    CASE c = "control" -> <<"picture">>
      [] c = "picture" -> <<"quote", "picture">>
      [] OTHER -> <<c>>

Init ==
    /\ name \in UNION {[1..n -> Rune] : n \in 1..MaxLen}
    /\ rest = name
    /\ quotes = 0
    /\ encoded = <<>>
    /\ done = FALSE

\* A name that is an encoding of dots is left as it is.
Keep ==
    /\ ~done /\ rest = name
    /\ name \in DotNames
    /\ encoded' = name
    /\ done' = TRUE
    /\ UNCHANGED <<name, rest, quotes>>

Read ==
    /\ ~done /\ rest # <<>>
    /\ name \notin DotNames
    /\ rest' = Tail(rest)
    /\ IF Head(rest) = "quote"
         THEN quotes' = quotes + 1 /\ UNCHANGED encoded
         ELSE /\ encoded' = encoded \o Quotes(Even(quotes, Head(rest))) \o Spell(Head(rest))
              /\ quotes' = 0
    /\ UNCHANGED <<name, done>>

Finish ==
    /\ ~done /\ rest = <<>>
    /\ encoded' = encoded \o Quotes(quotes + (quotes % 2))
    /\ done' = TRUE
    /\ UNCHANGED <<name, rest, quotes>>

Next == Keep \/ Read \/ Finish

Spec == Init /\ [][Next]_vars

-----------------------------------------------------------------------------
(* The encodings of rclone *)

Decoded == Rune \cup {"zero"}

\* The local encoding gives meaning to NUL's picture and to a quotation mark in
\* front of it or of another one; a last or single quotation mark is literal.
DecodeLocal[n \in Seq(Rune)] ==
    IF n = <<>> THEN <<>>
    ELSE IF Head(n) = "null" THEN <<"zero">> \o DecodeLocal[Tail(n)]
    ELSE IF Head(n) = "quote" /\ Len(n) > 1 /\ n[2] \in {"quote", "null"}
         THEN <<n[2]>> \o DecodeLocal[Tail(Tail(n))]
    ELSE <<Head(n)>> \o DecodeLocal[Tail(n)]

\* Standard encodes zero and controls as pictures, and quotes what is literal.
Written(c) ==
    CASE c = "zero" -> <<"null">>
      [] c = "control" -> <<"picture">>
      [] c \in {"quote", "null", "picture"} -> <<"quote", c>>
      [] OTHER -> <<c>>

EncodeStandard[d \in Seq(Decoded)] ==
    IF d = <<>> THEN <<>> ELSE Written(Head(d)) \o EncodeStandard[Tail(d)]

\* What a rune of a Standard name stands for when nothing quotes it.
Plain(c) ==
    CASE c = "null" -> "zero"
      [] c = "picture" -> "control"
      [] OTHER -> c

\* Reading a Standard name back: a quotation mark makes the next rune literal.
DecodeStandard[n \in Seq(Rune)] ==
    IF n = <<>> THEN <<>>
    ELSE IF Head(n) = "quote" /\ Len(n) > 1
         THEN <<n[2]>> \o DecodeStandard[Tail(Tail(n))]
    ELSE <<Plain(Head(n))>> \o DecodeStandard[Tail(n)]

-----------------------------------------------------------------------------
(* Properties *)

\* The spelling in the filter is the name under which rclone lists the file:
\* the Standard encoding of what the local backend decodes.  Quotation marks
\* counted across several runes decide it (quotes of standardLocalPath).
SpelledAsListed ==
    done /\ name \notin DotNames => encoded = EncodeStandard[DecodeLocal[name]]

\* No other file is spelled alike: the filter gives the decoded name back, and
\* with it the physical name up to the spellings that rclone itself does not
\* tell apart.
SpellingIsFaithful ==
    done /\ name \notin DotNames => DecodeStandard[encoded] = DecodeLocal[name]
=============================================================================
