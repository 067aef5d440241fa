--------------------------- MODULE JsonMultiLoads ---------------------------
(***************************************************************************)
(* json_multi_loads of beagle/util/json.py: the quasi-parser that splits   *)
(* the output of "go list -json" (concatenated JSON objects) into its     *)
(* top-level values.  The decoder is a fold of its per-character step     *)
(* over the input; readlines() only cuts the input into lines and the     *)
(* state carries over, so the input is one sequence of characters.        *)
(*                                                                         *)
(* Characters are abstracted to the ones the decoder tells apart: the four *)
(* brackets, the quote, the backslash, whitespace W and any other         *)
(* character X (letters, digits, ':' and ',').                            *)
(*                                                                         *)
(* The reference is the input's construction: a sequence of values       *)
(* generated from a small JSON grammar, each optionally preceded by       *)
(* whitespace, and an optional incomplete value at the end.  Decoding is  *)
(* correct when it yields one buffer per value, holding that value's text *)
(* (json.loads ignores the leading whitespace).                           *)
(***************************************************************************)
EXTENDS Naturals, Integers, Sequences, SequencesExt

CONSTANTS
    StringUnits,  \* the pieces string contents are made of, e.g. <<X>> or <<BS, Q>>
    MaxUnits,     \* the most pieces in one string
    MaxDepth,     \* the deepest nesting of a value (0: no nested value)
    MaxValues     \* the most top-level values in one input

LB == "{"
RB == "}"
LS == "["
RS == "]"
Q == "quote"
BS == "backslash"
W == "space"
X == "other"

Opening == {LB, LS}
Closing == {RB, RS}

-----------------------------------------------------------------------------
(* The decoder.                                                            *)

\* The local variables of json_multi_loads, and the values it has yielded.
DecoderInit == [buffer |-> <<>>, in_string |-> FALSE, escaping |-> FALSE,
                depth |-> 0, yielded |-> <<>>]

\* Mutant of Step: the buffer is not truncated after a value is yielded.
StepKeepsBuffer(s, c) ==
    IF c = BS /\ s.in_string
    THEN [s EXCEPT !.escaping = TRUE]
    ELSE LET w == [s EXCEPT !.buffer = Append(@, c)] IN
         CASE s.escaping  -> [w EXCEPT !.escaping = FALSE]
           [] c = Q       -> [w EXCEPT !.in_string = ~@]
           [] c \in Opening -> [w EXCEPT !.depth = @ + 1]
           [] c \in Closing /\ s.depth - 1 = 0 ->
                 [w EXCEPT !.depth = 0, !.yielded = Append(@, w.buffer)]
           [] c \in Closing -> [w EXCEPT !.depth = @ - 1]
           [] OTHER       -> w

\* The body of the inner loop for one character c: a backslash inside a
\* string is not written and marks the next character as escaped; otherwise
\* the character is written, and then either ends the escape, toggles the
\* string state, or moves the depth (in or out of a string alike); a close
\* that brings the depth to 0 yields the buffer and empties it.
Step(s, c) ==
    IF c = BS /\ s.in_string
    THEN [s EXCEPT !.escaping = TRUE]
    ELSE LET w == [s EXCEPT !.buffer = Append(@, c)] IN
         CASE s.escaping  -> [w EXCEPT !.escaping = FALSE]
           [] c = Q       -> [w EXCEPT !.in_string = ~@]
           [] c \in Opening -> [w EXCEPT !.depth = @ + 1]
           [] c \in Closing /\ s.depth - 1 = 0 ->
                 [w EXCEPT !.depth = 0, !.buffer = <<>>,
                           !.yielded = Append(@, w.buffer)]
           [] c \in Closing -> [w EXCEPT !.depth = @ - 1]
           [] OTHER       -> w

\* The loops over the lines and their characters: Step applied to each
\* character of the input in turn.
RECURSIVE Decode(_, _)
Decode(s, input) ==
    IF input = <<>> THEN s ELSE Decode(Step(s, Head(input)), Tail(input))

\* The buffers json_multi_loads passes to json.loads, in order.
json_multi_loads(input) == Decode(DecoderInit, input).yielded

-----------------------------------------------------------------------------
(* The reference: inputs built from values of a small JSON grammar.        *)

\* String literals: a quote, at most MaxUnits pieces, a quote.
Strings ==
    {<<Q>> \o FlattenSeq(us) \o <<Q>> : us \in SeqOf(StringUnits, MaxUnits)}

\* Arrays of at most one element and objects of at most one member, whose
\* element is a scalar, a string or (above depth 0) a nested value.  The X
\* between key and value is the colon.
RECURSIVE Values(_)
Values(d) ==
    LET Items == {<<X>>} \cup Strings \cup (IF d = 0 THEN {} ELSE Values(d - 1))
    IN  {<<LS, RS>>, <<LB, RB>>}
        \cup {<<LS>> \o i \o <<RS>> : i \in Items}
        \cup {<<LB>> \o k \o <<X>> \o v \o <<RB>> : k \in Strings, v \in Items}

\* An incomplete value at the end of the input: a proper prefix of a value.
Fragments ==
    {<<>>} \cup UNION {{SubSeq(v, 1, n) : n \in 1..Len(v) - 1} : v \in Values(0)}

\* The buffer with its leading whitespace removed, as json.loads reads it.
RECURSIVE TrimLeading(_)
TrimLeading(b) == IF b # <<>> /\ Head(b) = W THEN TrimLeading(Tail(b)) ELSE b

VARIABLES
    values,   \* the complete top-level values of the input, in order
    spaces,   \* spaces[i]: the whitespace before value i
    fragment  \* the incomplete value at the end

vars == <<values, spaces, fragment>>

Input == FlattenSeq([i \in DOMAIN values |-> spaces[i] \o values[i]]) \o fragment

\* The values a run draws from, computed once.
AllValues == Values(MaxDepth)

Init ==
    /\ values \in SeqOf(AllValues, MaxValues)
    /\ spaces \in [DOMAIN values -> {<<>>, <<W>>}]
    /\ fragment \in Fragments

\* The input is fixed; the run checks the decoder on every initial state.
Next == UNCHANGED vars

Spec == Init /\ [][Next]_vars

-----------------------------------------------------------------------------
(* Properties.                                                             *)

\* The spec of json_multi_loads (section 4.2, section 8): K concatenated
\* values yield exactly K values, in order, each the text of its value, so
\* that it decodes equal to the value parsed alone; the incomplete tail
\* yields nothing.
YieldsEachValue ==
    LET out == json_multi_loads(Input) IN
    /\ Len(out) = Len(values)
    /\ \A i \in DOMAIN values : TrimLeading(out[i]) = values[i]
=============================================================================
