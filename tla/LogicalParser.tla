--------------------------- MODULE LogicalParser ---------------------------
(***************************************************************************)
(* src/ivl/parsing/make/logical_parser.hpp: a makefile is parsed as if its *)
(* continued lines were joined, and errors are reported at a place of the  *)
(* file.  Two cursors move together: logical in the joined text, physical  *)
(* in the file.  A backslash escapes a backslash, so a pair of them is not *)
(* the begin of a continuation.  Rows and columns are left out.            *)
(***************************************************************************)
EXTENDS Integers, Sequences, SequencesExt

CONSTANTS MaxLength  \* of a makefile

ASSUME MakefileAssumption == MaxLength \in Nat

VARIABLES text,       \* the file, over Char
          logical,    \* cursors: characters consumed
          physical,
          escaped,    \* between the two backslashes of a pair
          checkpoint  \* [logical, physical], the last one taken

parserVars == <<text, logical, physical, escaped, checkpoint>>

Char == {"backslash", "newline", "other"}

Continuation == <<"backslash", "newline">>

Pair == <<"backslash", "backslash">>

Rest(s, cursor) == SubSeq(s, cursor + 1, Len(s))

\* What the constructor makes of a text.
logical_contents[s \in Seq(Char)] ==
    IF s = <<>> THEN <<>>
    ELSE IF IsPrefix(Continuation, s) THEN logical_contents[Rest(s, 2)]
    ELSE IF IsPrefix(Pair, s) THEN Pair \o logical_contents[Rest(s, 2)]
    ELSE <<s[1]>> \o logical_contents[Rest(s, 1)]

current_sv == Rest(logical_contents[text], logical)

\* while (physical.consume_if("\\\n")), in front of s: the characters consumed.
consume_continuations[s \in Seq(Char)] ==
    IF IsPrefix(Continuation, s) THEN 2 + consume_continuations[Rest(s, 2)] ELSE 0

SkipContinuations(cursor) == cursor + consume_continuations[Rest(text, cursor)]

open(s) ==
    /\ text' = s
    /\ logical' = 0 /\ physical' = 0
    /\ escaped' = FALSE
    /\ checkpoint' = [logical |-> 0, physical |-> 0]

consume_c_nocheck ==
    /\ current_sv # <<>>
    /\ logical' = logical + 1
    /\ escaped' = (~escaped /\ IsPrefix(Pair, current_sv))
    /\ physical' = IF escaped' THEN physical + 1 ELSE SkipContinuations(physical + 1)
    /\ UNCHANGED <<text, checkpoint>>

\* The character consumed last, in the joined text.
AfterBackslash == logical > 0 /\ logical_contents[text][logical] = "backslash"

\* The parser over this one looks for a directive at the begin of a line, or for an
\* assignment there and after "override" and white space, ...
get_checkpoint ==
    /\ ~AfterBackslash
    /\ checkpoint' = [logical |-> logical, physical |-> physical]
    /\ UNCHANGED <<text, logical, physical, escaped>>

GoBack ==
    /\ logical' = checkpoint.logical
    /\ physical' = checkpoint.physical
    /\ UNCHANGED <<text, escaped, checkpoint>>

\* Faulty: gives up between the backslashes of a pair, too.
restore_from_checkpointAnywhere == GoBack

\* ... and gives up at the end, in front of a character that is no backslash, or
\* where a keyword or white space, or nothing, comes before.
restore_from_checkpoint ==
    /\ AfterBackslash /\ current_sv # <<>> => Head(current_sv) # "backslash"
    /\ GoBack

ParserInit ==
    /\ text = <<>> /\ logical = 0 /\ physical = 0 /\ escaped = FALSE
    /\ checkpoint = [logical |-> 0, physical |-> 0]

ParserNext ==
    \/ text = <<>> /\ \E n \in 1..MaxLength : \E s \in [1..n -> Char] : open(s)
    \/ consume_c_nocheck
    \/ get_checkpoint
    \/ restore_from_checkpoint

ParserSpec == ParserInit /\ [][ParserNext]_parserVars

-----------------------------------------------------------------------------
\* Outside of a pair, what is left of the file is what is left of the joined
\* text, and the physical cursor is on the line of the next character, after
\* the continuations before it; escaped says that both cursors are between the
\* backslashes of a pair.  So it is also after going back, though a checkpoint
\* does not hold escaped: going back while it is set would leave it set.  A file
\* that begins with a continuation is excepted: the constructor does not skip
\* it, and all its places are reported too early.
PhysicalFollowsLogical ==
    ~IsPrefix(Continuation, text) =>
        IF escaped
        THEN /\ AfterBackslash /\ Head(current_sv) = "backslash"
             /\ Head(Rest(text, physical)) = "backslash"
             /\ logical_contents[Rest(text, physical + 1)] = Rest(current_sv, 1)
        ELSE /\ logical_contents[Rest(text, physical)] = current_sv
             /\ ~IsPrefix(Continuation, Rest(text, physical))
=============================================================================
