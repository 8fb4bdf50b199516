------------------------------ MODULE MCBuilder ------------------------------
(* Instances of Builder.  A file is given by the targets that include it.    *)
EXTENDS Builder

CONSTANTS a, b

\* A source of one target, a header of both.
TwoFiles == {{a}, {a, b}}

\* A header that the target, the builder and the generator include.
OneHeader == {{a} \cup Own}

\* A source of one target, a header of both targets and the builder.
SourceAndHeader == {{a}, {a, b, Self}}
=============================================================================
