--------------------------- MODULE SequenceProofs ---------------------------
(***************************************************************************)
(* Proofs about the components that work on one sequence.  For makefiles   *)
(* of any length, the physical cursor of LogicalParser follows the logical *)
(* one.  For any keys, values and updates, the in-place update and join of *)
(* MonotonicUpdate keep a sorted vector that is the map it stands for, and *)
(* the recursive join puts two runs in the same order.                     *)
(***************************************************************************)
EXTENDS LogicalParser, MonotonicUpdate, RecursionTheorems, SequenceTheorems, FiniteSetTheorems

Text == Seq(Char)

-----------------------------------------------------------------------------
(* The parser: the inductive invariant                                     *)

\* Outside of a pair: what is left of the file joins to what is left of the
\* joined text, and does not begin with a continuation.
InStep(l, p) ==
    /\ l \in 0..Len(logical_contents[text])
    /\ p \in 0..Len(text)
    /\ logical_contents[Rest(text, p)] = Rest(logical_contents[text], l)
    /\ ~IsPrefix(Continuation, Rest(text, p))

\* Between the backslashes of a pair: both are in front of the second one, and
\* what follows is in step again; the first one was consumed, so that this is
\* no place for a checkpoint, nor to go back to one.
InPair(l, p) ==
    /\ l \in 1..(Len(logical_contents[text]) - 1)
    /\ p \in 0..(Len(text) - 1)
    /\ logical_contents[text][l] = "backslash"
    /\ logical_contents[text][l + 1] = "backslash"
    /\ text[p + 1] = "backslash"
    /\ logical_contents[Rest(text, p + 1)] = Rest(logical_contents[text], l + 1)

ParserTypes ==
    /\ text \in Text
    /\ escaped \in BOOLEAN
    /\ logical \in Nat /\ physical \in Nat
    /\ checkpoint \in [logical : Nat, physical : Nat]

CursorInv == ~IsPrefix(Continuation, text) =>
    /\ IF escaped THEN InPair(logical, physical) ELSE InStep(logical, physical)
    /\ InStep(checkpoint.logical, checkpoint.physical)

ParserInv == ParserTypes /\ CursorInv

-----------------------------------------------------------------------------
(* The parser: texts                                                       *)

\* What is left of a text behind a cursor.
LEMMA RestIs ==
  ASSUME NEW s \in Text, NEW c \in 0..Len(s)
  PROVE  /\ Rest(s, c) \in Text
         /\ Len(Rest(s, c)) = Len(s) - c
         /\ \A i \in 1..(Len(s) - c) : Rest(s, c)[i] = s[c + i]
<1>1. Len(s) \in Nat /\ \A i \in 1..Len(s) : s[i] \in Char
  BY LenProperties, ElementOfSeq DEF Text
<1>2. c + 1 \in Int /\ Len(s) \in Int /\ \A i \in (c + 1)..Len(s) : s[i] \in Char
  BY <1>1
<1>3. /\ SubSeq(s, c + 1, Len(s)) \in Seq(Char)
      /\ Len(SubSeq(s, c + 1, Len(s))) = IF c + 1 <= Len(s) THEN Len(s) - (c + 1) + 1 ELSE 0
      /\ \A i \in 1..(Len(s) - (c + 1) + 1) : SubSeq(s, c + 1, Len(s))[i] = s[(c + 1) + i - 1]
  BY ONLY <1>2, SubSeqProperties
<1>4. Len(s) - (c + 1) + 1 = Len(s) - c
  BY <1>1
<1>5. \A i \in 1..(Len(s) - c) : (c + 1) + i - 1 = c + i
  BY <1>1
<1>6. Len(SubSeq(s, c + 1, Len(s))) = Len(s) - c
  BY <1>1, <1>3
<1>7. \A i \in 1..(Len(s) - c) : SubSeq(s, c + 1, Len(s))[i] = s[c + i]
  BY ONLY <1>3, <1>4, <1>5
<1> QED
  BY <1>3, <1>6, <1>7 DEF Rest, Text

\* Two texts of one length with the same characters are one.
LEMMA SameText ==
  ASSUME NEW s \in Text, NEW t \in Text, Len(s) = Len(t), \A i \in 1..Len(s) : s[i] = t[i]
  PROVE  s = t
  BY SeqEqual DEF Text

\* Cursors add up.
LEMMA RestOfRest ==
  ASSUME NEW s \in Text, NEW a \in 0..Len(s), NEW b \in 0..(Len(s) - a)
  PROVE  Rest(Rest(s, a), b) = Rest(s, a + b)
<1>1. Len(s) \in Nat
  BY LenProperties DEF Text
<1>2. Rest(s, a) \in Text /\ Len(Rest(s, a)) = Len(s) - a /\ a + b \in 0..Len(s)
  BY <1>1, RestIs
<1>3. Rest(Rest(s, a), b) \in Text /\ Len(Rest(Rest(s, a), b)) = (Len(s) - a) - b
  BY <1>2, RestIs
<1>4. Rest(s, a + b) \in Text /\ Len(Rest(s, a + b)) = Len(s) - (a + b)
  BY <1>2, RestIs
<1>5. ASSUME NEW i \in 1..((Len(s) - a) - b) PROVE Rest(Rest(s, a), b)[i] = Rest(s, a + b)[i]
  <2>1. Rest(Rest(s, a), b)[i] = Rest(s, a)[b + i]
    BY <1>2, RestIs
  <2>2. b + i \in 1..(Len(s) - a)
    BY <1>1
  <2>3. Rest(s, a)[b + i] = s[a + (b + i)]
    BY <2>2, RestIs
  <2>4. i \in 1..(Len(s) - (a + b))
    BY <1>1
  <2>5. Rest(s, a + b)[i] = s[(a + b) + i]
    BY <2>4, <1>2, RestIs
  <2>6. a + (b + i) = (a + b) + i
    BY <1>1
  <2> QED  BY <2>1, <2>3, <2>5, <2>6
<1>6. Len(Rest(Rest(s, a), b)) = Len(Rest(s, a + b))
  BY <1>1, <1>3, <1>4
<1> QED
  BY <1>3, <1>4, <1>5, <1>6, SameText

\* Where a text begins with one of the two-character sequences.
LEMMA BeginsWith ==
  ASSUME NEW s \in Text, NEW second \in Char
  PROVE  IsPrefix(<<"backslash", second>>, s)
           <=> Len(s) >= 2 /\ s[1] = "backslash" /\ s[2] = second
<1>1. "backslash" \in Char /\ Len(s) \in Nat
  BY LenProperties DEF Char, Text
<1> DEFINE two == <<"backslash", second>>
<1>2. two \in Text /\ Len(two) = 2 /\ two[1] = "backslash" /\ two[2] = second
  BY <1>1 DEF Text
<1>3. SubSeq(two, 1, 2) = two
  <2> HIDE DEF two
  <2> QED  BY <1>2, SubSeqFull DEF Text
<1>4. ASSUME Len(s) >= 2
      PROVE  SubSeq(s, 1, 2) \in Text /\ Len(SubSeq(s, 1, 2)) = 2
             /\ SubSeq(s, 1, 2)[1] = s[1] /\ SubSeq(s, 1, 2)[2] = s[2]
  <2>1. \A i \in 1..2 : s[i] \in Char
    BY <1>4, ElementOfSeq DEF Text
  <2>2. /\ SubSeq(s, 1, 2) \in Seq(Char)
        /\ Len(SubSeq(s, 1, 2)) = IF 1 <= 2 THEN 2 - 1 + 1 ELSE 0
        /\ \A i \in 1..(2 - 1 + 1) : SubSeq(s, 1, 2)[i] = s[1 + i - 1]
    BY ONLY <2>1, SubSeqProperties
  <2>3. SubSeq(s, 1, 2)[1] = s[1 + 1 - 1] /\ SubSeq(s, 1, 2)[2] = s[1 + 2 - 1]
    BY ONLY <2>2
  <2> QED  BY <2>2, <2>3 DEF Text
<1>5. IsPrefix(two, s) <=> 2 <= Len(s) /\ two = SubSeq(s, 1, 2)
  BY <1>2, <1>3 DEF IsPrefix
<1>6. ASSUME Len(s) >= 2 PROVE two = SubSeq(s, 1, 2) <=> s[1] = "backslash" /\ s[2] = second
  <2>1. ASSUME s[1] = "backslash", s[2] = second PROVE two = SubSeq(s, 1, 2)
    <3>1. \A i \in 1..Len(two) : two[i] = SubSeq(s, 1, 2)[i]
      <4> HIDE DEF two
      <4> QED  BY <1>2, <1>4, <1>6, <2>1
    <3> HIDE DEF two
    <3> QED  BY <1>2, <1>4, <1>6, <3>1, SameText
  <2> HIDE DEF two
  <2> QED  BY <1>2, <1>4, <1>6, <2>1
<1> HIDE DEF two
<1>7. IsPrefix(two, s) <=> Len(s) >= 2 /\ s[1] = "backslash" /\ s[2] = second
  BY <1>1, <1>5, <1>6
<1> QED
  BY <1>7 DEF two

LEMMA BeginsWithContinuation ==
  ASSUME NEW s \in Text
  PROVE  IsPrefix(Continuation, s) <=> Len(s) >= 2 /\ s[1] = "backslash" /\ s[2] = "newline"
<1>1. "newline" \in Char
  BY DEF Char
<1> QED
  BY <1>1, BeginsWith DEF Continuation

LEMMA BeginsWithPair ==
  ASSUME NEW s \in Text
  PROVE  IsPrefix(Pair, s) <=> Len(s) >= 2 /\ s[1] = "backslash" /\ s[2] = "backslash"
<1>1. "backslash" \in Char
  BY DEF Char
<1> QED
  BY <1>1, BeginsWith DEF Pair

-----------------------------------------------------------------------------
(* The parser: the two recursive functions                                 *)

LEMMA LengthIsRank == [s \in Text |-> Len(s)] \in [Text -> Nat]
  BY LenProperties DEF Text

\* One step of the constructor's loop, on a text s whose rests are joined by f.
JoinStep(f, s) ==
    IF s = <<>> THEN <<>>
    ELSE IF IsPrefix(Continuation, s) THEN f[Rest(s, 2)]
    ELSE IF IsPrefix(Pair, s) THEN Pair \o f[Rest(s, 2)]
    ELSE <<s[1]>> \o f[Rest(s, 1)]

\* One step of the loop over continuations.
SkipStep(f, s) == IF IsPrefix(Continuation, s) THEN 2 + f[Rest(s, 2)] ELSE 0

\* What the steps ask for is shorter.
LEMMA RestsAreShorter ==
  ASSUME NEW s \in Text
  PROVE  /\ s # <<>> => Rest(s, 1) \in Text /\ Len(Rest(s, 1)) < Len(s)
         /\ IsPrefix(Continuation, s) => Rest(s, 2) \in Text /\ Len(Rest(s, 2)) < Len(s)
         /\ IsPrefix(Pair, s) => Rest(s, 2) \in Text /\ Len(Rest(s, 2)) < Len(s)
<1>1. Len(s) \in Nat /\ (s # <<>> => Len(s) >= 1)
  BY LenProperties, EmptySeq DEF Text
<1>2. ASSUME Len(s) >= 1 PROVE Rest(s, 1) \in Text /\ Len(Rest(s, 1)) < Len(s)
  <2>1. 1 \in 0..Len(s)
    BY <1>1, <1>2
  <2> QED  BY <1>1, <2>1, RestIs
<1>3. ASSUME Len(s) >= 2 PROVE Rest(s, 2) \in Text /\ Len(Rest(s, 2)) < Len(s)
  <2>1. 2 \in 0..Len(s)
    BY <1>1, <1>3
  <2> QED  BY <1>1, <2>1, RestIs
<1> QED
  BY <1>1, <1>2, <1>3, BeginsWithContinuation, BeginsWithPair

LEMMA JoinStepType ==
  ASSUME NEW f \in [Text -> Text], NEW s \in Text
  PROVE  JoinStep(f, s) \in Text
<1>1. <<>> \in Text /\ Pair \in Text
  BY EmptySeq DEF Text, Pair, Char
<1>2. s # <<>> => <<s[1]>> \in Text /\ Rest(s, 1) \in Text
  <2>1. ASSUME s # <<>> PROVE s[1] \in Char
    <3>1. 1 \in 1..Len(s)
      BY <2>1, LenProperties, EmptySeq DEF Text
    <3> QED  BY <3>1, ElementOfSeq DEF Text
  <2> QED  BY <2>1, RestsAreShorter DEF Text
<1>3. \A t \in Text : \A u \in Text : t \o u \in Text
  BY ConcatProperties DEF Text
<1>4. CASE s = <<>>
  BY <1>1, <1>4 DEF JoinStep
<1>5. CASE s # <<>> /\ IsPrefix(Continuation, s)
  BY <1>5, RestsAreShorter DEF JoinStep
<1>6. CASE s # <<>> /\ ~IsPrefix(Continuation, s) /\ IsPrefix(Pair, s)
  BY <1>1, <1>3, <1>6, RestsAreShorter DEF JoinStep
<1>7. CASE s # <<>> /\ ~IsPrefix(Continuation, s) /\ ~IsPrefix(Pair, s)
  BY <1>2, <1>3, <1>7 DEF JoinStep
<1> QED
  BY <1>4, <1>5, <1>6, <1>7

\* The constructor's loop ends: the joined text of every text is defined.
LEMMA JoinIs ==
  /\ logical_contents \in [Text -> Text]
  /\ \A s \in Text : logical_contents[s] = JoinStep(logical_contents, s)
<1> DEFINE D == [f \in Maps(Text, Text) |-> [s \in Text |-> JoinStep(f, s)]]
           rank == [s \in Text |-> Len(s)]
<1>1. D \in Maps(Maps(Text, Text), Maps(Text, Text))
  BY JoinStepType DEF Maps
<1>2. ASSUME NEW g \in Maps(Text, Text), NEW h \in Maps(Text, Text), NEW s \in Text,
             \A t \in Text : rank[t] < rank[s] => g[t] = h[t]
      PROVE  D[g][s] = D[h][s]
  <2>1. \A t \in Text : Len(t) < Len(s) => g[t] = h[t]
    BY <1>2
  <2>2. JoinStep(g, s) = JoinStep(h, s)
    BY <2>1, RestsAreShorter DEF JoinStep
  <2> QED  BY <2>2
<1>3. Maps(Text, Text) # {}
  <2>1. [s \in Text |-> s] \in [Text -> Text]
    OBVIOUS
  <2> QED  BY <2>1 DEF Maps
<1>4. rank \in Maps(Text, Nat)
  BY LengthIsRank DEF Maps
<1>5. \E f \in Maps(Text, Text) : D[f] = f
  <2> HIDE DEF D, rank
  <2> QED  BY <1>1, <1>2, <1>3, <1>4, RecursiveFunctionExists
<1>6. PICK f \in Maps(Text, Text) : D[f] = f
  BY <1>5
<1>7. f = [s \in Text |-> JoinStep(f, s)] /\ f \in [Text -> Text]
  BY <1>6 DEF Maps
<1>8. logical_contents = CHOOSE j : j = [s \in Text |-> JoinStep(j, s)]
  BY DEF logical_contents, JoinStep, Text
<1>9. logical_contents = [s \in Text |-> JoinStep(logical_contents, s)]
  BY <1>7, <1>8
<1>10. \A s \in Text : logical_contents[s] = JoinStep(logical_contents, s)
  BY <1>9
<1>11. logical_contents \in [Text -> Text]
  <2> DEFINE P == {n \in Nat : \A s \in Text : Len(s) = n => logical_contents[s] = f[s]}
  <2>1. ASSUME NEW n \in Nat, \A m \in 0..(n - 1) : m \in P PROVE n \in P
    <3>1. ASSUME NEW s \in Text, Len(s) = n PROVE logical_contents[s] = f[s]
      <4>1. \A t \in Text : Len(t) < Len(s) => logical_contents[t] = f[t]
        <5>1. ASSUME NEW t \in Text, Len(t) < Len(s) PROVE Len(t) \in 0..(n - 1)
          BY <3>1, <5>1, LenProperties DEF Text
        <5> QED  BY <5>1, <2>1
      <4>2. JoinStep(logical_contents, s) = JoinStep(f, s)
        BY <4>1, RestsAreShorter DEF JoinStep
      <4>3. f[s] = JoinStep(f, s)
        BY <1>7
      <4> QED  BY <1>10, <4>2, <4>3
    <3> QED  BY <3>1
  <2>2. \A n \in Nat : n \in P
    <3> HIDE DEF P
    <3>1. P \in SUBSET Nat
      BY DEF P
    <3> QED  BY <2>1, <3>1, StrongSetInduction
  <2>3. \A s \in Text : logical_contents[s] = f[s]
    <3>1. \A s \in Text : Len(s) \in Nat
      BY LenProperties DEF Text
    <3> QED  BY <2>2, <3>1
  <2>4. DOMAIN logical_contents = Text
    BY <1>9
  <2>5. logical_contents = [s \in Text |-> logical_contents[s]]
    BY <1>9, <2>4
  <2>6. f = [s \in Text |-> f[s]]
    BY <1>7
  <2>7. logical_contents = f
    BY <2>3, <2>5, <2>6
  <2> QED  BY <1>7, <2>7
<1> QED
  BY <1>10, <1>11

\* The loop over continuations ends as well.
LEMMA SkipIs ==
  /\ consume_continuations \in [Text -> Nat]
  /\ \A s \in Text : consume_continuations[s] = SkipStep(consume_continuations, s)
<1> DEFINE D == [f \in Maps(Text, Nat) |-> [s \in Text |-> SkipStep(f, s)]]
           rank == [s \in Text |-> Len(s)]
<1>1. D \in Maps(Maps(Text, Nat), Maps(Text, Nat))
  <2>1. ASSUME NEW f \in [Text -> Nat], NEW s \in Text PROVE SkipStep(f, s) \in Nat
    BY RestsAreShorter DEF SkipStep
  <2> QED  BY <2>1 DEF Maps
<1>2. ASSUME NEW g \in Maps(Text, Nat), NEW h \in Maps(Text, Nat), NEW s \in Text,
             \A t \in Text : rank[t] < rank[s] => g[t] = h[t]
      PROVE  D[g][s] = D[h][s]
  <2>1. \A t \in Text : Len(t) < Len(s) => g[t] = h[t]
    BY <1>2
  <2>2. SkipStep(g, s) = SkipStep(h, s)
    BY <2>1, RestsAreShorter DEF SkipStep
  <2> QED  BY <2>2
<1>3. Maps(Text, Nat) # {}
  <2>1. rank \in [Text -> Nat]
    BY LengthIsRank
  <2> QED  BY <2>1 DEF Maps
<1>4. rank \in Maps(Text, Nat)
  BY LengthIsRank DEF Maps
<1>5. \E f \in Maps(Text, Nat) : D[f] = f
  <2> HIDE DEF D, rank
  <2> QED  BY <1>1, <1>2, <1>3, <1>4, RecursiveFunctionExists
<1>6. PICK f \in Maps(Text, Nat) : D[f] = f
  BY <1>5
<1>7. f = [s \in Text |-> SkipStep(f, s)] /\ f \in [Text -> Nat]
  BY <1>6 DEF Maps
<1>8. consume_continuations = CHOOSE j : j = [s \in Text |-> SkipStep(j, s)]
  BY DEF consume_continuations, SkipStep, Text
<1>9. consume_continuations = [s \in Text |-> SkipStep(consume_continuations, s)]
  BY <1>7, <1>8
<1>10. \A s \in Text : consume_continuations[s] = SkipStep(consume_continuations, s)
  BY <1>9
<1>11. consume_continuations \in [Text -> Nat]
  <2> DEFINE P == {n \in Nat : \A s \in Text : Len(s) = n => consume_continuations[s] \in Nat}
  <2>1. ASSUME NEW n \in Nat, \A m \in 0..(n - 1) : m \in P PROVE n \in P
    <3>1. ASSUME NEW s \in Text, Len(s) = n PROVE consume_continuations[s] \in Nat
      <4>1. ASSUME NEW t \in Text, Len(t) < Len(s) PROVE consume_continuations[t] \in Nat
        <5>1. Len(t) \in 0..(n - 1)
          BY <3>1, <4>1, LenProperties DEF Text
        <5> QED  BY <5>1, <2>1
      <4>2. SkipStep(consume_continuations, s) \in Nat
        BY <4>1, RestsAreShorter DEF SkipStep
      <4> QED  BY <1>10, <4>2
    <3> QED  BY <3>1
  <2>2. \A n \in Nat : n \in P
    <3> HIDE DEF P
    <3>1. P \in SUBSET Nat
      BY DEF P
    <3> QED  BY <2>1, <3>1, StrongSetInduction
  <2>3. \A s \in Text : consume_continuations[s] \in Nat
    <3>1. \A s \in Text : Len(s) \in Nat
      BY LenProperties DEF Text
    <3> QED  BY <2>2, <3>1
  <2>4. DOMAIN consume_continuations = Text
    BY <1>9
  <2>5. consume_continuations = [s \in Text |-> consume_continuations[s]]
    BY <1>9, <2>4
  <2> QED  BY <2>3, <2>5
<1> QED
  BY <1>10, <1>11

\* Skipping the continuations in front of a text loses nothing of what it joins
\* to, and there are none behind it.
LEMMA SkippedIs ==
  ASSUME NEW s \in Text
  PROVE  /\ consume_continuations[s] \in 0..Len(s)
         /\ logical_contents[Rest(s, consume_continuations[s])] = logical_contents[s]
         /\ ~IsPrefix(Continuation, Rest(s, consume_continuations[s]))
<1> DEFINE Skipped(t) ==
             /\ consume_continuations[t] \in 0..Len(t)
             /\ logical_contents[Rest(t, consume_continuations[t])] = logical_contents[t]
             /\ ~IsPrefix(Continuation, Rest(t, consume_continuations[t]))
           P == {n \in Nat : \A t \in Text : Len(t) = n => Skipped(t)}
<1>1. ASSUME NEW n \in Nat, \A m \in 0..(n - 1) : m \in P PROVE n \in P
  <2> SUFFICES ASSUME NEW t \in Text, Len(t) = n PROVE Skipped(t)
    OBVIOUS
  <2>1. CASE IsPrefix(Continuation, t)
    <3> DEFINE u == Rest(t, 2)
    <3>1. u \in Text /\ Len(u) = Len(t) - 2 /\ Len(t) >= 2
      <4>1. Len(t) >= 2
        BY <2>1, BeginsWithContinuation
      <4>2. 2 \in 0..Len(t)
        BY <4>1
      <4> QED  BY <4>1, <4>2, RestIs
    <3>2. Len(u) \in 0..(n - 1)
      BY <3>1
    <3>3. Skipped(u)
      <4> HIDE DEF Skipped, u
      <4> QED  BY <1>1, <3>1, <3>2
    <3>4. consume_continuations[t] = 2 + consume_continuations[u]
      BY <2>1, SkipIs DEF SkipStep
    <3>5. Rest(t, consume_continuations[t]) = Rest(u, consume_continuations[u])
      <4>1. 2 \in 0..Len(t) /\ consume_continuations[u] \in 0..(Len(t) - 2)
        BY <3>1, <3>3
      <4>2. Rest(Rest(t, 2), consume_continuations[u]) = Rest(t, 2 + consume_continuations[u])
        BY <4>1, RestOfRest
      <4> QED  BY <3>4, <4>2
    <3>6. t # <<>>
      BY <3>1, EmptySeq
    <3>7. logical_contents[t] = logical_contents[u]
      BY <2>1, <3>6, JoinIs DEF JoinStep
    <3>8. consume_continuations[t] \in 0..Len(t)
      <4>1. consume_continuations[u] \in 0..Len(u)
        BY <3>3
      <4> HIDE DEF u
      <4> QED  BY <3>1, <3>4, <4>1
    <3>9. /\ logical_contents[Rest(u, consume_continuations[u])] = logical_contents[u]
          /\ ~IsPrefix(Continuation, Rest(u, consume_continuations[u]))
      BY <3>3
    <3> HIDE DEF u
    <3> QED  BY <3>5, <3>7, <3>8, <3>9
  <2>2. CASE ~IsPrefix(Continuation, t)
    <3>1. consume_continuations[t] = 0
      BY <2>2, SkipIs DEF SkipStep
    <3>2. Rest(t, 0) = t
      BY SubSeqFull DEF Rest, Text
    <3> QED  BY <2>2, <3>1, <3>2, LenProperties DEF Text
  <2> QED  BY <2>1, <2>2
<1>2. \A n \in Nat : n \in P
  <2> HIDE DEF P
  <2>1. P \in SUBSET Nat
    BY DEF P
  <2> QED  BY <1>1, <2>1, StrongSetInduction
<1>3. Len(s) \in P /\ Len(s) \in Nat
  BY <1>2, LenProperties DEF Text
<1>4. Skipped(s)
  <2> HIDE DEF Skipped
  <2> QED  BY <1>3
<1> QED
  BY <1>4

-----------------------------------------------------------------------------
(* The parser: what one step of the loop joins                             *)

LEMMA RestOfConcat ==
  ASSUME NEW s \in Text, NEW t \in Text
  PROVE  Rest(s \o t, Len(s)) = t
<1> DEFINE u == s \o t
<1>1. /\ Len(s) \in Nat /\ Len(t) \in Nat
      /\ u \in Text /\ Len(u) = Len(s) + Len(t)
      /\ \A i \in 1..(Len(s) + Len(t)) : u[i] = IF i <= Len(s) THEN s[i] ELSE t[i - Len(s)]
  BY ConcatProperties, LenProperties DEF Text
<1> HIDE DEF u
<1>2. Len(s) \in 0..Len(u)
  BY <1>1
<1>3. Rest(u, Len(s)) \in Text /\ Len(Rest(u, Len(s))) = Len(u) - Len(s)
  BY <1>1, <1>2, RestIs
<1>4. ASSUME NEW i \in 1..Len(t) PROVE Rest(u, Len(s))[i] = t[i]
  <2>1. i \in 1..(Len(u) - Len(s))
    BY <1>1
  <2>2. Rest(u, Len(s))[i] = u[Len(s) + i]
    BY <1>1, <1>2, <2>1, RestIs
  <2>3. Len(s) + i \in 1..(Len(s) + Len(t)) /\ ~(Len(s) + i <= Len(s)) /\ (Len(s) + i) - Len(s) = i
    BY <1>1
  <2>4. u[Len(s) + i] = t[(Len(s) + i) - Len(s)]
    BY <1>1, <2>3
  <2> QED  BY <2>2, <2>3, <2>4
<1>5. Len(Rest(u, Len(s))) = Len(t)
  BY <1>1, <1>3
<1>6. Rest(u, Len(s)) = t
  BY <1>3, <1>4, <1>5, SameText
<1> QED
  BY <1>6 DEF u

LEMMA JoinOfNothing == logical_contents[<<>>] = <<>>
<1>1. <<>> \in Text
  BY EmptySeq DEF Text
<1> QED
  BY <1>1, JoinIs DEF JoinStep

\* A pair stays a pair.
LEMMA JoinOfPair ==
  ASSUME NEW s \in Text, IsPrefix(Pair, s)
  PROVE  /\ Len(logical_contents[s]) >= 2
         /\ logical_contents[s][1] = "backslash" /\ logical_contents[s][2] = "backslash"
         /\ Rest(logical_contents[s], 2) = logical_contents[Rest(s, 2)]
<1>1. s # <<>> /\ ~IsPrefix(Continuation, s)
  BY BeginsWithPair, BeginsWithContinuation, EmptySeq DEF Text
<1>2. Rest(s, 2) \in Text /\ logical_contents[Rest(s, 2)] \in Text
  BY RestsAreShorter, JoinIs
<1>3. logical_contents[s] = Pair \o logical_contents[Rest(s, 2)]
  BY <1>1, JoinIs DEF JoinStep
<1> DEFINE t == logical_contents[Rest(s, 2)]
<1>4. Pair \in Text /\ Len(Pair) = 2 /\ Pair[1] = "backslash" /\ Pair[2] = "backslash"
  BY DEF Pair, Text, Char
<1>5. /\ Len(Pair \o t) = Len(Pair) + Len(t) /\ Len(t) \in Nat
      /\ \A i \in 1..(Len(Pair) + Len(t)) :
           (Pair \o t)[i] = IF i <= Len(Pair) THEN Pair[i] ELSE t[i - Len(Pair)]
  BY <1>2, <1>4, ConcatProperties, LenProperties DEF Text
<1>6. Rest(Pair \o t, 2) = t
  BY <1>2, <1>4, RestOfConcat
<1> HIDE DEF t
<1>7. Len(Pair \o t) >= 2 /\ (Pair \o t)[1] = "backslash" /\ (Pair \o t)[2] = "backslash"
  BY <1>4, <1>5
<1> QED
  BY <1>3, <1>6, <1>7 DEF t

\* Any other character that begins no continuation stays, too ...
LEMMA JoinOfOther ==
  ASSUME NEW s \in Text, s # <<>>, ~IsPrefix(Continuation, s), ~IsPrefix(Pair, s)
  PROVE  /\ Len(logical_contents[s]) >= 1
         /\ logical_contents[s][1] = s[1]
         /\ Rest(logical_contents[s], 1) = logical_contents[Rest(s, 1)]
<1>1. Rest(s, 1) \in Text /\ logical_contents[Rest(s, 1)] \in Text
  BY RestsAreShorter, JoinIs
<1>2. logical_contents[s] = <<s[1]>> \o logical_contents[Rest(s, 1)]
  BY JoinIs DEF JoinStep
<1> DEFINE t == logical_contents[Rest(s, 1)]
           c == <<s[1]>>
<1>3. c \in Text /\ Len(c) = 1 /\ c[1] = s[1]
  <2>1. 1 \in 1..Len(s)
    BY LenProperties, EmptySeq DEF Text
  <2>2. s[1] \in Char
    BY <2>1, ElementOfSeq DEF Text
  <2> QED  BY <2>2 DEF Text
<1>4. t \in Text
  BY <1>1
<1> HIDE DEF t, c
<1>5. /\ Len(c \o t) = Len(c) + Len(t) /\ Len(t) \in Nat
      /\ \A i \in 1..(Len(c) + Len(t)) :
           (c \o t)[i] = IF i <= Len(c) THEN c[i] ELSE t[i - Len(c)]
  BY <1>3, <1>4, ConcatProperties, LenProperties DEF Text
<1>6. Rest(c \o t, 1) = t
  BY <1>3, <1>4, RestOfConcat
<1>7. Len(c \o t) >= 1 /\ (c \o t)[1] = c[1]
  BY <1>3, <1>5
<1>8. logical_contents[s] = c \o t
  BY <1>2 DEF c, t
<1> QED
  BY <1>3, <1>6, <1>7, <1>8 DEF t

LEMMA JoinKeepsTheFirst ==
  ASSUME NEW s \in Text, s # <<>>, ~IsPrefix(Continuation, s)
  PROVE  Len(logical_contents[s]) >= 1 /\ logical_contents[s][1] = s[1]
<1>1. CASE IsPrefix(Pair, s)
  BY <1>1, JoinOfPair, BeginsWithPair
<1>2. CASE ~IsPrefix(Pair, s)
  BY <1>2, JoinOfOther
<1> QED
  BY <1>1, <1>2

\* ... and joining lines makes no pair out of two characters that were apart: the
\* character behind a backslash would have to begin a continuation, and then it
\* is a backslash itself.
LEMMA PairsWereThere ==
  ASSUME NEW s \in Text, ~IsPrefix(Continuation, s), IsPrefix(Pair, logical_contents[s])
  PROVE  IsPrefix(Pair, s)
<1> SUFFICES ASSUME ~IsPrefix(Pair, s) PROVE FALSE
  OBVIOUS
<1> DEFINE j == logical_contents[s]
           u == Rest(s, 1)
           t == logical_contents[u]
<1>1. j \in Text /\ Len(j) >= 2 /\ j[1] = "backslash" /\ j[2] = "backslash"
  BY JoinIs, BeginsWithPair
<1>2. s # <<>>
  <2>1. Len(<<>>) = 0
    BY EmptySeq
  <2> QED  BY <1>1, <2>1, JoinOfNothing
<1>3. /\ s[1] = "backslash"
      /\ Rest(j, 1) = t
  BY <1>1, <1>2, JoinOfOther
<1>4. u \in Text /\ Len(s) >= 1 /\ Len(u) = Len(s) - 1 /\ \A i \in 1..(Len(s) - 1) : u[i] = s[1 + i]
  <2>1. Len(s) >= 1 /\ 1 \in 0..Len(s)
    BY <1>2, LenProperties, EmptySeq DEF Text
  <2> QED  BY <2>1, RestIs
<1>5. Len(t) >= 1 /\ t[1] = "backslash"
  <2>1. 1 \in 0..Len(j) /\ 1 \in 1..(Len(j) - 1)
    BY <1>1, LenProperties DEF Text
  <2>2. Len(Rest(j, 1)) = Len(j) - 1 /\ Rest(j, 1)[1] = j[1 + 1]
    BY <1>1, <2>1, RestIs
  <2> HIDE DEF j, t
  <2> QED  BY <1>1, <1>3, <2>1, <2>2
<1>6. u # <<>> /\ Len(u) >= 1
  <2>1. Len(<<>>) = 0
    BY EmptySeq
  <2>2. u # <<>>
    BY <1>5, <2>1, JoinOfNothing
  <2> HIDE DEF u
  <2> QED  BY <1>4, <2>2, LenProperties, EmptySeq DEF Text
<1>7. u[1] = "backslash"
  <2>1. CASE IsPrefix(Continuation, u)
    <3> HIDE DEF u
    <3> QED  BY <1>4, <2>1, BeginsWithContinuation
  <2>2. CASE ~IsPrefix(Continuation, u)
    <3>1. t[1] = u[1]
      <4> HIDE DEF u
      <4> QED  BY <1>4, <1>6, <2>2, JoinKeepsTheFirst
    <3> QED  BY <1>5, <3>1
  <2> QED  BY <2>1, <2>2
<1>8. Len(s) >= 2 /\ s[2] = "backslash"
  <2>1. u[1] = s[1 + 1] /\ Len(s) >= 2
    <3> HIDE DEF u
    <3> QED  BY <1>4, <1>6, LenProperties DEF Text
  <2> QED  BY <1>7, <2>1
<1> QED
  BY <1>3, <1>8, BeginsWithPair

-----------------------------------------------------------------------------
(* The parser: the cursors                                                 *)

\* After the last character of a word of the joined text, skipping continuations
\* brings the cursors back in step.
LEMMA LandsInStep ==
  ASSUME text \in Text, NEW l \in 0..Len(logical_contents[text]), NEW p \in 0..Len(text),
         logical_contents[Rest(text, p)] = Rest(logical_contents[text], l)
  PROVE  InStep(l, SkipContinuations(p)) /\ SkipContinuations(p) \in Nat
<1> DEFINE s == Rest(text, p)
           c == consume_continuations[s]
<1>1. s \in Text /\ Len(s) = Len(text) - p /\ Len(text) \in Nat
  BY RestIs, LenProperties DEF Text
<1>2. /\ c \in 0..Len(s)
      /\ logical_contents[Rest(s, c)] = logical_contents[s]
      /\ ~IsPrefix(Continuation, Rest(s, c))
  <2> HIDE DEF s
  <2> QED  BY <1>1, SkippedIs
<1>3. Rest(s, c) = Rest(text, p + c)
  <2>1. c \in 0..(Len(text) - p)
    BY <1>1, <1>2
  <2> HIDE DEF c
  <2> QED  BY <2>1, RestOfRest
<1>4. p + c \in 0..Len(text) /\ p + c \in Nat
  <2> HIDE DEF s, c
  <2> QED  BY <1>1, <1>2
<1>5. SkipContinuations(p) = p + c
  BY DEF SkipContinuations
<1> HIDE DEF c
<1> QED
  BY <1>2, <1>3, <1>4, <1>5 DEF InStep

\* Consuming a character outside of a pair.
LEMMA StepKeeps ==
  ASSUME text \in Text, NEW l, NEW p, InStep(l, p),
         Rest(logical_contents[text], l) # <<>>,
         ~IsPrefix(Pair, Rest(logical_contents[text], l))
  PROVE  InStep(l + 1, SkipContinuations(p + 1)) /\ SkipContinuations(p + 1) \in Nat
<1> DEFINE L == logical_contents[text]
           s == Rest(text, p)
<1>1. /\ l \in 0..Len(L) /\ p \in 0..Len(text)
      /\ logical_contents[s] = Rest(L, l) /\ ~IsPrefix(Continuation, s)
  BY DEF InStep
<1>2. L \in Text /\ Len(L) \in Nat /\ Len(text) \in Nat
  BY JoinIs, LenProperties DEF Text
<1>3. /\ s \in Text /\ Len(s) = Len(text) - p
      /\ Rest(L, l) \in Text /\ Len(Rest(L, l)) = Len(L) - l
  <2> HIDE DEF L
  <2> QED  BY <1>1, <1>2, RestIs
<1>4. s # <<>>
  BY <1>1, JoinOfNothing
<1>5. ~IsPrefix(Pair, s)
  <2>1. ASSUME IsPrefix(Pair, s) PROVE IsPrefix(Pair, logical_contents[s])
    <3> HIDE DEF s
    <3>1. logical_contents[s] \in Text
      BY <1>3, JoinIs
    <3> QED  BY <1>3, <2>1, <3>1, JoinOfPair, BeginsWithPair
  <2> QED  BY <1>1, <2>1
<1>6. Len(Rest(L, l)) >= 1 /\ Rest(Rest(L, l), 1) = logical_contents[Rest(s, 1)]
  <2> HIDE DEF s, L
  <2> QED  BY <1>1, <1>3, <1>4, <1>5, JoinOfOther
<1>7. Len(s) >= 1
  <2> HIDE DEF s
  <2> QED  BY <1>3, <1>4, LenProperties, EmptySeq DEF Text
<1>8. l + 1 \in 0..Len(L) /\ p + 1 \in 0..Len(text)
  <2> HIDE DEF s, L
  <2> QED  BY <1>1, <1>2, <1>3, <1>6, <1>7
<1>9. Rest(s, 1) = Rest(text, p + 1) /\ Rest(Rest(L, l), 1) = Rest(L, l + 1)
  <2>1. 1 \in 0..(Len(text) - p) /\ 1 \in 0..(Len(L) - l)
    <3> HIDE DEF s, L
    <3> QED  BY <1>1, <1>2, <1>3, <1>6, <1>7
  <2> HIDE DEF L
  <2> QED  BY <1>1, <1>2, <2>1, RestOfRest
<1>10. logical_contents[Rest(text, p + 1)] = Rest(L, l + 1)
  BY <1>6, <1>9
<1> QED
  BY <1>8, <1>10, LandsInStep

\* Consuming the first backslash of a pair.
LEMMA StepIntoPair ==
  ASSUME text \in Text, NEW l, NEW p, InStep(l, p),
         IsPrefix(Pair, Rest(logical_contents[text], l))
  PROVE  InPair(l + 1, p + 1) /\ p + 1 \in Nat
<1> DEFINE L == logical_contents[text]
           s == Rest(text, p)
<1>1. /\ l \in 0..Len(L) /\ p \in 0..Len(text)
      /\ logical_contents[s] = Rest(L, l) /\ ~IsPrefix(Continuation, s)
  BY DEF InStep
<1>2. L \in Text /\ Len(L) \in Nat /\ Len(text) \in Nat
  BY JoinIs, LenProperties DEF Text
<1>3. s \in Text /\ Len(s) = Len(text) - p
  BY <1>1, RestIs
<1>4. /\ Rest(L, l) \in Text /\ Len(Rest(L, l)) = Len(L) - l
      /\ \A i \in 1..(Len(L) - l) : Rest(L, l)[i] = L[l + i]
  <2> HIDE DEF L
  <2> QED  BY <1>1, <1>2, RestIs
<1>5. IsPrefix(Pair, s)
  <2>1. IsPrefix(Pair, logical_contents[s])
    BY <1>1
  <2> HIDE DEF s
  <2> QED  BY <1>1, <1>3, <2>1, PairsWereThere
<1>6. /\ Len(Rest(L, l)) >= 2
      /\ Rest(L, l)[1] = "backslash" /\ Rest(L, l)[2] = "backslash"
      /\ Rest(Rest(L, l), 2) = logical_contents[Rest(s, 2)]
  <2> HIDE DEF s, L
  <2> QED  BY <1>1, <1>3, <1>5, JoinOfPair
<1>7. Len(s) >= 2 /\ s[2] = "backslash"
  <2> HIDE DEF s
  <2> QED  BY <1>3, <1>5, BeginsWithPair
<1>8. l + 1 \in 1..(Len(L) - 1) /\ p + 1 \in 0..(Len(text) - 1) /\ p + 1 \in Nat
  <2> HIDE DEF s, L
  <2> QED  BY <1>1, <1>2, <1>3, <1>4, <1>6, <1>7
<1>9. L[l + 1] = "backslash" /\ L[l + 2] = "backslash"
  <2>1. 1 \in 1..(Len(L) - l) /\ 2 \in 1..(Len(L) - l)
    <3> HIDE DEF L
    <3> QED  BY <1>1, <1>2, <1>4, <1>6
  <2> HIDE DEF L
  <2> QED  BY <1>4, <1>6, <2>1
<1>10. Rest(s, 2) = Rest(text, p + 2) /\ Rest(Rest(L, l), 2) = Rest(L, l + 2)
  <2>1. 2 \in 0..(Len(text) - p) /\ 2 \in 0..(Len(L) - l)
    <3> HIDE DEF s, L
    <3> QED  BY <1>1, <1>2, <1>3, <1>4, <1>6, <1>7
  <2> HIDE DEF L
  <2> QED  BY <1>1, <1>2, <2>1, RestOfRest
<1>11. (l + 1) + 1 = l + 2 /\ (p + 1) + 1 = p + 2
  BY <1>1
<1>12. logical_contents[Rest(text, p + 2)] = Rest(L, l + 2)
  BY <1>6, <1>10
<1>13. text[p + 2] = "backslash"
  <2>1. 2 \in 1..(Len(text) - p)
    <3> HIDE DEF s
    <3> QED  BY <1>1, <1>2, <1>3, <1>7
  <2>2. s[2] = text[p + 2]
    BY <1>1, <2>1, RestIs
  <2> QED  BY <1>7, <2>2
<1> QED
  BY <1>8, <1>9, <1>11, <1>12, <1>13 DEF InPair

\* Consuming the second one.
LEMMA StepOutOfPair ==
  ASSUME text \in Text, NEW l, NEW p, InPair(l, p)
  PROVE  InStep(l + 1, SkipContinuations(p + 1)) /\ SkipContinuations(p + 1) \in Nat
<1>1. /\ l \in 1..(Len(logical_contents[text]) - 1) /\ p \in 0..(Len(text) - 1)
      /\ logical_contents[Rest(text, p + 1)] = Rest(logical_contents[text], l + 1)
  BY DEF InPair
<1>2. Len(logical_contents[text]) \in Nat /\ Len(text) \in Nat
  BY JoinIs, LenProperties DEF Text
<1>3. l + 1 \in 0..Len(logical_contents[text]) /\ p + 1 \in 0..Len(text)
  BY <1>1, <1>2
<1> QED
  BY <1>1, <1>3, LandsInStep

\* Between the backslashes of a pair one was consumed and one comes next: nobody
\* takes a checkpoint there or goes back to one.
LEMMA NothingInPair ==
  ASSUME text \in Text, InPair(logical, physical)
  PROVE  AfterBackslash /\ current_sv # <<>> /\ Head(current_sv) = "backslash"
<1> DEFINE L == logical_contents[text]
<1>1. /\ logical \in 1..(Len(L) - 1)
      /\ L[logical] = "backslash" /\ L[logical + 1] = "backslash"
  BY DEF InPair
<1>2. L \in Text /\ Len(L) \in Nat
  BY JoinIs, LenProperties DEF Text
<1>3. current_sv = Rest(L, logical)
  BY DEF current_sv
<1> HIDE DEF L
<1>4. 1 \in 1..(Len(L) - logical) /\ logical \in 0..Len(L)
  BY <1>1, <1>2
<1>5. Len(Rest(L, logical)) >= 1 /\ Rest(L, logical)[1] = L[logical + 1] /\ Rest(L, logical) \in Text
  BY <1>2, <1>4, RestIs
<1>6. Rest(L, logical) # <<>> /\ Head(Rest(L, logical)) = "backslash"
  BY <1>1, <1>5, EmptySeq DEF Text
<1>7. L[logical] = "backslash" /\ logical > 0
  BY <1>1
<1> QED
  BY <1>3, <1>6, <1>7 DEF L, AfterBackslash

-----------------------------------------------------------------------------
(* The parser: the theorem                                                 *)

LEMMA ParserInitHolds == ParserInit => ParserInv
<1> SUFFICES ASSUME ParserInit PROVE ParserInv
  OBVIOUS
<1>1. text \in Text /\ text = <<>> /\ Len(text) = 0
  BY EmptySeq DEF ParserInit, Text
<1>2. ParserTypes
  BY <1>1 DEF ParserTypes, ParserInit
<1>3. Rest(text, 0) = <<>>
  BY <1>1, SubSeqFull DEF Rest, Text
<1>4. logical_contents[text] = <<>> /\ Rest(logical_contents[text], 0) = <<>>
  BY <1>1, <1>3, JoinOfNothing
<1>5. ~IsPrefix(Continuation, Rest(text, 0))
  BY <1>1, <1>3, BeginsWithContinuation
<1>6. InStep(0, 0)
  BY <1>1, <1>3, <1>4, <1>5 DEF InStep
<1> QED
  BY <1>2, <1>6 DEF ParserInv, CursorInv, ParserInit

LEMMA ParserStepHolds == ParserInv /\ [ParserNext]_parserVars => ParserInv'
<1> SUFFICES ASSUME ParserInv, [ParserNext]_parserVars PROVE ParserInv'
  OBVIOUS
<1> USE DEF ParserInv
<1>t. text \in Text /\ ParserTypes
  BY DEF ParserTypes
<1>1. ASSUME NEW n \in 1..MaxLength, NEW s \in [1..n -> Char], open(s)
      PROVE  ParserInv'
  <2>1. s \in Text /\ text' = s
    <3>1. n \in Nat
      BY MakefileAssumption
    <3> QED  BY <1>1, <3>1 DEF open, Text
  <2>2. ParserTypes'
    BY <1>1, <2>1 DEF open, ParserTypes
  <2>3. Rest(s, 0) = s /\ Len(s) \in Nat
    BY <2>1, SubSeqFull, LenProperties DEF Rest, Text
  <2>4. logical_contents[s] \in Text
    BY <2>1, JoinIs
  <2>5. Rest(logical_contents[s], 0) = logical_contents[s] /\ Len(logical_contents[s]) \in Nat
    BY <2>4, SubSeqFull, LenProperties DEF Rest, Text
  <2>6. ~IsPrefix(Continuation, s) => InStep(0, 0)'
    BY <2>1, <2>3, <2>5 DEF InStep
  <2> QED  BY <1>1, <2>1, <2>2, <2>6 DEF CursorInv, open
<1>2. CASE consume_c_nocheck
  <2> DEFINE into == ~escaped /\ IsPrefix(Pair, current_sv)
  <2>1. /\ text' = text /\ checkpoint' = checkpoint
        /\ logical' = logical + 1 /\ escaped' = into
        /\ physical' = IF into THEN physical + 1 ELSE SkipContinuations(physical + 1)
        /\ Rest(logical_contents[text], logical) # <<>>
        /\ current_sv = Rest(logical_contents[text], logical)
    BY <1>2 DEF consume_c_nocheck, current_sv
  <2>2. logical' \in Nat /\ physical' \in Nat
    <3>1. physical + 1 \in Nat /\ logical + 1 \in Nat
      BY <1>t DEF ParserTypes
    <3>2. SkipContinuations(physical + 1) \in Nat
      <4>1. Rest(text, physical + 1) \in Text
        <5>1. CASE physical + 1 <= Len(text)
          <6>1. physical + 1 \in 0..Len(text)
            BY <3>1, <5>1, <1>t, LenProperties DEF Text
          <6> QED  BY <6>1, <1>t, RestIs
        <5>2. CASE ~(physical + 1 <= Len(text))
          <6>1. Rest(text, physical + 1) = <<>>
            <7>1. (physical + 1) + 1 \in Int /\ Len(text) \in Int /\ Len(text) < (physical + 1) + 1
              BY <3>1, <5>2, <1>t, LenProperties DEF Text
            <7> QED  BY <7>1, SubSeqEmpty DEF Rest
          <6> QED  BY <6>1, EmptySeq DEF Text
        <5> QED  BY <5>1, <5>2
      <4>2. consume_continuations[Rest(text, physical + 1)] \in Nat
        BY <4>1, SkipIs
      <4> QED  BY <3>1, <4>2 DEF SkipContinuations
    <3> QED  BY <2>1, <3>1, <3>2
  <2>3. ParserTypes'
    BY <1>t, <2>1, <2>2 DEF ParserTypes
  <2> SUFFICES ASSUME ~IsPrefix(Continuation, text)
               PROVE  /\ (IF escaped THEN InPair(logical, physical) ELSE InStep(logical, physical))'
                      /\ InStep(checkpoint.logical, checkpoint.physical)'
    BY <2>1, <2>3 DEF CursorInv
  <2>4. InStep(checkpoint.logical, checkpoint.physical)'
    BY <2>1 DEF CursorInv, InStep
  <2>5. CASE escaped
    <3>1. InPair(logical, physical)
      BY <2>5 DEF CursorInv
    <3>2. InStep(logical + 1, SkipContinuations(physical + 1))
      BY <3>1, <1>t, StepOutOfPair
    <3>3. ~escaped' /\ physical' = SkipContinuations(physical + 1)
      BY <2>1, <2>5
    <3>4. InStep(logical, physical)'
      BY <2>1, <3>2, <3>3 DEF InStep
    <3> QED  BY <2>4, <3>3, <3>4
  <2>6. CASE ~escaped /\ IsPrefix(Pair, current_sv)
    <3>1. InStep(logical, physical)
      BY <2>6 DEF CursorInv
    <3>2. InPair(logical + 1, physical + 1)
      BY <3>1, <2>1, <2>6, <1>t, StepIntoPair
    <3>3. escaped' /\ physical' = physical + 1
      BY <2>1, <2>6
    <3>4. InPair(logical, physical)'
      BY <2>1, <3>2, <3>3 DEF InPair
    <3> QED  BY <2>4, <3>3, <3>4
  <2>7. CASE ~escaped /\ ~IsPrefix(Pair, current_sv)
    <3>1. InStep(logical, physical)
      BY <2>7 DEF CursorInv
    <3>2. InStep(logical + 1, SkipContinuations(physical + 1))
      BY <3>1, <2>1, <2>7, <1>t, StepKeeps
    <3>3. ~escaped' /\ physical' = SkipContinuations(physical + 1)
      BY <2>1, <2>7
    <3>4. InStep(logical, physical)'
      BY <2>1, <3>2, <3>3 DEF InStep
    <3> QED  BY <2>4, <3>3, <3>4
  <2> QED  BY <2>5, <2>6, <2>7
<1>3. CASE get_checkpoint
  <2>1. /\ text' = text /\ logical' = logical /\ physical' = physical /\ escaped' = escaped
        /\ checkpoint' = [logical |-> logical, physical |-> physical]
        /\ ~AfterBackslash
    BY <1>3 DEF get_checkpoint
  <2>2. ParserTypes'
    BY <1>t, <2>1 DEF ParserTypes
  <2> SUFFICES ASSUME ~IsPrefix(Continuation, text)
               PROVE  /\ (IF escaped THEN InPair(logical, physical) ELSE InStep(logical, physical))'
                      /\ InStep(checkpoint.logical, checkpoint.physical)'
    BY <2>1, <2>2 DEF CursorInv
  <2>3. ~escaped /\ InStep(logical, physical)
    BY <2>1, <1>t, NothingInPair DEF CursorInv
  <2>4. InStep(logical, physical)' /\ InStep(checkpoint.logical, checkpoint.physical)'
    BY <2>1, <2>3 DEF InStep
  <2> QED  BY <2>1, <2>3, <2>4
<1>4. CASE restore_from_checkpoint
  <2>1. /\ text' = text /\ escaped' = escaped /\ checkpoint' = checkpoint
        /\ logical' = checkpoint.logical /\ physical' = checkpoint.physical
        /\ AfterBackslash /\ current_sv # <<>> => Head(current_sv) # "backslash"
    BY <1>4 DEF restore_from_checkpoint, GoBack
  <2>2. ParserTypes'
    BY <1>t, <2>1 DEF ParserTypes
  <2> SUFFICES ASSUME ~IsPrefix(Continuation, text)
               PROVE  /\ (IF escaped THEN InPair(logical, physical) ELSE InStep(logical, physical))'
                      /\ InStep(checkpoint.logical, checkpoint.physical)'
    BY <2>1, <2>2 DEF CursorInv
  <2>3. ~escaped /\ InStep(checkpoint.logical, checkpoint.physical)
    BY <2>1, <1>t, NothingInPair DEF CursorInv
  <2>4. InStep(logical, physical)' /\ InStep(checkpoint.logical, checkpoint.physical)'
    BY <2>1, <2>3 DEF InStep
  <2> QED  BY <2>1, <2>3, <2>4
<1>5. CASE UNCHANGED parserVars
  BY <1>5 DEF parserVars, ParserTypes, CursorInv, InStep, InPair
<1> QED
  BY <1>1, <1>2, <1>3, <1>4, <1>5 DEF ParserNext

LEMMA ParserInvImplies == ParserInv => PhysicalFollowsLogical
<1> SUFFICES ASSUME ParserInv, ~IsPrefix(Continuation, text)
             PROVE  IF escaped
                    THEN /\ AfterBackslash /\ Head(current_sv) = "backslash"
                         /\ Head(Rest(text, physical)) = "backslash"
                         /\ logical_contents[Rest(text, physical + 1)] = Rest(current_sv, 1)
                    ELSE /\ logical_contents[Rest(text, physical)] = current_sv
                         /\ ~IsPrefix(Continuation, Rest(text, physical))
  BY DEF PhysicalFollowsLogical
<1>1. CASE ~escaped
  <2>1. InStep(logical, physical)
    BY <1>1 DEF ParserInv, CursorInv
  <2> QED  BY <1>1, <2>1 DEF InStep, current_sv
<1>2. CASE escaped
  <2>1. InPair(logical, physical) /\ text \in Text
    BY <1>2 DEF ParserInv, CursorInv, ParserTypes
  <2>2. AfterBackslash /\ Head(current_sv) = "backslash"
    BY <2>1, NothingInPair
  <2>3. /\ logical \in 1..(Len(logical_contents[text]) - 1) /\ physical \in 0..(Len(text) - 1)
        /\ text[physical + 1] = "backslash"
        /\ logical_contents[Rest(text, physical + 1)] = Rest(logical_contents[text], logical + 1)
    BY <2>1 DEF InPair
  <2>4. logical_contents[text] \in Text /\ Len(logical_contents[text]) \in Nat /\ Len(text) \in Nat
    BY <2>1, JoinIs, LenProperties DEF Text
  <2>5. Head(Rest(text, physical)) = "backslash"
    <3>1. physical \in 0..Len(text) /\ 1 \in 1..(Len(text) - physical)
      BY <2>3, <2>4
    <3>2. /\ Rest(text, physical) \in Text /\ Len(Rest(text, physical)) >= 1
          /\ Rest(text, physical)[1] = text[physical + 1]
      BY <2>1, <2>4, <3>1, RestIs
    <3> QED  BY <2>3, <3>2, EmptySeq DEF Text
  <2>6. Rest(current_sv, 1) = Rest(logical_contents[text], logical + 1)
    <3>1. logical \in 0..Len(logical_contents[text]) /\ 1 \in 0..(Len(logical_contents[text]) - logical)
      BY <2>3, <2>4
    <3> QED  BY <2>4, <3>1, RestOfRest DEF current_sv
  <2> QED  BY <1>2, <2>2, <2>3, <2>5, <2>6
<1> QED
  BY <1>1, <1>2

\* The place that errors are reported at is that of the next character, for
\* makefiles of any length that do not begin with a continuation: whatever was
\* consumed, and wherever outside of a pair of backslashes the parser took
\* checkpoints and went back to them, the rest of the file is the rest of the
\* joined text, and continued lines before it were passed; between the
\* backslashes of a pair both cursors are in front of the second one.
THEOREM ParserFollows == ParserSpec => []PhysicalFollowsLogical
<1>1. ParserSpec => []ParserInv
  BY ParserInitHolds, ParserStepHolds, PTL DEF ParserSpec
<1> QED
  BY <1>1, ParserInvImplies, PTL

-----------------------------------------------------------------------------
(* The update: the order in which two runs are merged                      *)

\* What is taken of the left run in the next round.
TakenNext(s, a, b, c, i, already) ==
    IF a + already # b /\ ( \/ b + (i - 1) - already = c
                            \/ s[a + already][1] <= s[b + (i - 1) - already][1])
    THEN already + 1 ELSE already

TakenLoop(f, s, a, b, c) ==
    f = [i \in 0..(c - a) |-> IF i = 0 THEN 0 ELSE TakenNext(s, a, b, c, i, f[i - 1])]

LEMMA TakenIs ==
  ASSUME NEW s, NEW a \in Nat, NEW b \in Nat, NEW c \in Nat, a <= b, b <= c
  PROVE  /\ Taken(s, a, b, c)[0] = 0
         /\ \A i \in 0..(c - a) :
              /\ Taken(s, a, b, c)[i] \in Nat /\ Taken(s, a, b, c)[i] <= b - a
              /\ Taken(s, a, b, c)[i] <= i /\ i - Taken(s, a, b, c)[i] <= c - b
         /\ \A i \in 1..(c - a) :
              Taken(s, a, b, c)[i] = TakenNext(s, a, b, c, i, Taken(s, a, b, c)[i - 1])
<1> DEFINE N == c - a
           E(i) == {x \in Nat : x <= b - a /\ x <= i /\ i - x <= c - b}
           Ends == [i \in 0..N |-> E(i)]
           round == [y \in (1..N) \X Nat |-> TakenNext(s, a, b, c, y[1], y[2])]
<1>1. N \in Nat /\ 0 \in 0..N
  OBVIOUS
<1>2. Ends \in Maps(0..N, SUBSET Nat) /\ 0 \in Ends[0]
  BY DEF Maps
<1>3. ASSUME NEW i \in 1..N, NEW x \in E(i - 1) PROVE TakenNext(s, a, b, c, i, x) \in E(i)
  <2>1. x \in Nat /\ x <= b - a /\ x <= i - 1 /\ (i - 1) - x <= c - b /\ i <= c - a /\ i >= 1
    OBVIOUS
  <2> HIDE DEF E
  <2>2. CASE TakenNext(s, a, b, c, i, x) = x + 1 /\ a + x # b
    BY <2>1, <2>2 DEF E
  <2>3. CASE TakenNext(s, a, b, c, i, x) = x /\ (a + x = b \/ b + (i - 1) - x # c)
    BY <2>1, <2>3 DEF E
  <2> QED  BY <2>2, <2>3 DEF TakenNext
<1>4. Leads(N, Ends, round)
  <2> SUFFICES ASSUME NEW i \in 1..N, NEW x \in Ends[i - 1] PROVE round[<<i, x>>] \in Ends[i]
    BY DEF Leads
  <2>1. Ends[i - 1] = E(i - 1) /\ Ends[i] = E(i)
    <3> HIDE DEF E
    <3>1. i \in 0..N /\ i - 1 \in 0..N
      OBVIOUS
    <3> QED  BY <3>1
  <2>2. x \in Nat
    BY <2>1
  <2>3. round[<<i, x>>] = TakenNext(s, a, b, c, i, x)
    BY <2>2
  <2> HIDE DEF E, Ends, round
  <2> QED  BY <1>3, <2>1, <2>3
<1>5. \E f : IsLoop(f, N, Ends, round, 0)
  <2> DEFINE e == 0
             V == Nat
             L == N
  <2>1. /\ L \in Nat /\ Ends \in Maps(0..L, SUBSET V) /\ e \in Ends[0]
        /\ Leads(L, Ends, round)
    BY <1>1, <1>2, <1>4
  <2> HIDE DEF L, Ends, round, e, V
  <2>2. \E f : IsLoop(f, L, Ends, round, e)
    BY ONLY <2>1, LoopExists, SMTT(60)
  <2> QED  BY <2>2 DEF L, e
<1>6. PICK f : /\ \A i \in 0..N : f[i] \in Ends[i]
               /\ f = [i \in 0..N |-> IF i = 0 THEN 0 ELSE round[<<i, f[i - 1]>>]]
  BY <1>5 DEF IsLoop
<1>7. TakenLoop(f, s, a, b, c)
  <2>1. ASSUME NEW i \in 0..N, i # 0 PROVE round[<<i, f[i - 1]>>] = TakenNext(s, a, b, c, i, f[i - 1])
    <3>1. i \in 1..N /\ i - 1 \in 0..N
      BY <2>1
    <3>2. f[i - 1] \in Nat
      BY <1>2, <1>6, <3>1 DEF Maps
    <3> QED  BY <3>1, <3>2
  <2>2. [i \in 0..N |-> IF i = 0 THEN 0 ELSE round[<<i, f[i - 1]>>]]
          = [i \in 0..N |-> IF i = 0 THEN 0 ELSE TakenNext(s, a, b, c, i, f[i - 1])]
    <3> HIDE DEF round, N
    <3> QED  BY <2>1
  <2> HIDE DEF round
  <2> QED  BY <1>6, <2>2 DEF TakenLoop
<1> DEFINE t == Taken(s, a, b, c)
<1>8. TakenLoop(t, s, a, b, c)
  <2>1. t = CHOOSE g : TakenLoop(g, s, a, b, c)
    BY DEF Taken, TakenLoop, TakenNext
  <2> HIDE DEF t
  <2> QED  BY <1>7, <2>1
<1> HIDE DEF t
<1>9. \A i \in 0..N : t[i] = IF i = 0 THEN 0 ELSE TakenNext(s, a, b, c, i, t[i - 1])
  BY <1>8, Zenon DEF TakenLoop
<1>10. \A i \in 0..N : t[i] \in E(i)
  <2> DEFINE P == {i \in Nat : i <= N => t[i] \in E(i)}
  <2>1. P \in SUBSET Nat /\ 0 \in P
    BY <1>1, <1>9
  <2>2. ASSUME NEW i \in P PROVE i + 1 \in P
    <3>1. ASSUME i + 1 <= N PROVE t[i + 1] \in E(i + 1)
      <4>1. i + 1 \in 1..N /\ i + 1 \in 0..N /\ i + 1 # 0 /\ (i + 1) - 1 = i /\ t[i] \in E(i)
        BY <3>1
      <4> HIDE DEF E, P, N
      <4>2. t[i + 1] = TakenNext(s, a, b, c, i + 1, t[i])
        BY <1>9, <4>1
      <4>3. TakenNext(s, a, b, c, i + 1, t[i]) \in E(i + 1)
        BY <1>3, <4>1
      <4> QED  BY <4>2, <4>3
    <3> QED  BY <3>1
  <2> HIDE DEF P
  <2>3. \A i \in Nat : i \in P
    BY <2>1, <2>2, SetInduction
  <2> QED  BY <2>3 DEF P
<1>11. \A i \in 1..N : t[i] = TakenNext(s, a, b, c, i, t[i - 1])
  <2>1. \A i \in 1..N : i \in 0..N /\ i # 0
    OBVIOUS
  <2> QED  BY <1>9, <2>1
<1>12. t[0] = 0
  BY <1>1, <1>9
<1> QED
  BY <1>10, <1>11, <1>12 DEF t

\* Taken in a join of n elements, of which b - 1 are in the left run.
Went(t, s, b, n) ==
    /\ t[0] = 0 /\ t[n] = b - 1
    /\ \A i \in 0..n : t[i] \in Nat /\ t[i] <= b - 1 /\ t[i] <= i /\ i - t[i] <= n + 1 - b
    /\ \A i \in 1..n : t[i] = TakenNext(s, 1, b, n + 1, i, t[i - 1])
    /\ \A i \in 1..n : t[i] = t[i - 1] \/ t[i] = t[i - 1] + 1
    /\ \A i, j \in 0..n : i <= j => t[i] <= t[j] /\ i - t[i] <= j - t[j]

\* Neither run goes back.
LEMMA TakenGoesOn ==
  ASSUME NEW s, NEW n \in Nat, NEW b \in 1..(n + 1)
  PROVE  Went(Taken(s, 1, b, n + 1), s, b, n)
<1> DEFINE t == Taken(s, 1, b, n + 1)
<1>1. /\ t[0] = 0
      /\ \A i \in 0..n : t[i] \in Nat /\ t[i] <= b - 1 /\ t[i] <= i /\ i - t[i] <= n + 1 - b
      /\ \A i \in 1..n : t[i] = TakenNext(s, 1, b, n + 1, i, t[i - 1])
  <2> DEFINE one == 1
             c == n + 1
  <2>1. one \in Nat /\ b \in Nat /\ c \in Nat /\ one <= b /\ b <= c
    OBVIOUS
  <2>2. c - one = n /\ b - one = b - 1
    OBVIOUS
  <2> HIDE DEF one, c
  <2>3. /\ Taken(s, one, b, c)[0] = 0
        /\ \A i \in 0..(c - one) :
              /\ Taken(s, one, b, c)[i] \in Nat /\ Taken(s, one, b, c)[i] <= b - one
              /\ Taken(s, one, b, c)[i] <= i /\ i - Taken(s, one, b, c)[i] <= c - b
        /\ \A i \in 1..(c - one) :
              Taken(s, one, b, c)[i] = TakenNext(s, one, b, c, i, Taken(s, one, b, c)[i - 1])
    BY ONLY <2>1, TakenIs, SMTT(60)
  <2> QED  BY <2>2, <2>3 DEF one, c
<1> HIDE DEF t
<1>2. \A i \in 1..n : t[i] = t[i - 1] \/ t[i] = t[i - 1] + 1
  BY <1>1 DEF TakenNext
<1>3. t[n] = b - 1
  BY <1>1
<1>4. ASSUME NEW i \in 0..n, NEW j \in 0..n, i <= j
      PROVE  t[i] <= t[j] /\ i - t[i] <= j - t[j]
  <2> DEFINE P == {k \in Nat : i + k <= n => t[i] <= t[i + k] /\ i - t[i] <= (i + k) - t[i + k]}
  <2>1. P \in SUBSET Nat /\ 0 \in P
    BY <1>1
  <2>2. ASSUME NEW k \in P PROVE k + 1 \in P
    <3> SUFFICES ASSUME i + (k + 1) <= n
                 PROVE  t[i] <= t[i + (k + 1)] /\ i - t[i] <= (i + (k + 1)) - t[i + (k + 1)]
      OBVIOUS
    <3> DEFINE m == i + k
               o == i + (k + 1)
    <3>1. k \in Nat /\ m \in 0..n /\ o \in 1..n /\ o \in 0..n /\ o - 1 = m
      OBVIOUS
    <3>2. t[i] <= t[m] /\ i - t[i] <= m - t[m]
      BY <3>1
    <3> HIDE DEF m, o, P
    <3>3. t[o] = t[m] \/ t[o] = t[m] + 1
      BY <1>2, <3>1
    <3>4. t[i] \in Nat /\ t[m] \in Nat /\ t[o] \in Nat
      BY <1>1, <3>1
    <3> HIDE DEF P
    <3>5. t[i] <= t[o] /\ i - t[i] <= o - t[o]
      BY <3>1, <3>2, <3>3, <3>4
    <3> QED  BY <3>5 DEF o
  <2>3. \A k \in Nat : k \in P
    <3> HIDE DEF P
    <3> QED  BY <2>1, <2>2, SetInduction
  <2>4. j - i \in P /\ i + (j - i) = j
    BY <1>4, <2>3
  <2> QED  BY <2>4
<1> QED
  BY <1>1, <1>2, <1>3, <1>4 DEF t, Went

\* A permutation of the first n positions.
Permutes(p, n) ==
    /\ p \in Maps(1..n, 1..n)
    /\ \A i \in 1..n : p[i] \in 1..n
    /\ \A i, j \in 1..n : p[i] = p[j] => i = j
    /\ \A k \in 1..n : \E i \in 1..n : p[i] = k

\* A position of the left run is its turn's, or one of the right run.
Turns(o, t, b, n) == \A i \in 1..n :
    /\ o[i] \in 1..n
    /\ \/ t[i] = t[i - 1] + 1 /\ o[i] = t[i] /\ o[i] <= b - 1
       \/ t[i] = t[i - 1] /\ o[i] = b + (i - 1) - t[i] /\ o[i] >= b

LEMMA OrderTurns ==
  ASSUME NEW s, NEW n \in Nat, NEW b \in 1..(n + 1)
  PROVE  /\ Turns(MergeOrder(s, 1, b, n + 1), Taken(s, 1, b, n + 1), b, n)
         /\ MergeOrder(s, 1, b, n + 1) \in Maps(1..n, 1..n)
<1> DEFINE t == Taken(s, 1, b, n + 1)
           o == MergeOrder(s, 1, b, n + 1)
<1>1. Went(t, s, b, n)
  BY TakenGoesOn
<1>2. o = [i \in 1..((n + 1) - 1) |-> IF t[i] # t[i - 1] THEN 1 + t[i - 1] ELSE b + (i - 1) - t[i - 1]]
  BY DEF MergeOrder
<1> HIDE DEF t, o
<1>3. (n + 1) - 1 = n
  OBVIOUS
<1>4. o = [i \in 1..n |-> IF t[i] # t[i - 1] THEN 1 + t[i - 1] ELSE b + (i - 1) - t[i - 1]]
  BY <1>2, <1>3
<1>5. ASSUME NEW i \in 1..n
      PROVE  /\ o[i] = IF t[i] # t[i - 1] THEN 1 + t[i - 1] ELSE b + (i - 1) - t[i - 1]
             /\ o[i] \in 1..n
             /\ \/ t[i] = t[i - 1] + 1 /\ o[i] = t[i] /\ o[i] <= b - 1
                \/ t[i] = t[i - 1] /\ o[i] = b + (i - 1) - t[i] /\ o[i] >= b
  <2>1. o[i] = IF t[i] # t[i - 1] THEN 1 + t[i - 1] ELSE b + (i - 1) - t[i - 1]
    BY <1>4, Zenon
  <2>2. i \in 0..n /\ i - 1 \in 0..n
    OBVIOUS
  <2>3. /\ t[i] = t[i - 1] \/ t[i] = t[i - 1] + 1
        /\ t[i] \in Nat /\ t[i] <= b - 1 /\ t[i] <= i /\ i - t[i] <= n + 1 - b
        /\ t[i - 1] \in Nat /\ t[i - 1] <= i - 1
    BY <1>1, <2>2 DEF Went
  <2> QED  BY <2>1, <2>3
<1>6. o \in Maps(1..n, 1..n)
  BY <1>4, <1>5 DEF Maps
<1> QED
  BY <1>5, <1>6 DEF Turns, t, o

\* Each position has its turn, and only one.
LEMMA OrderPermutes ==
  ASSUME NEW s, NEW n \in Nat, NEW b \in 1..(n + 1)
  PROVE  Permutes(MergeOrder(s, 1, b, n + 1), n)
<1> DEFINE t == Taken(s, 1, b, n + 1)
           o == MergeOrder(s, 1, b, n + 1)
<1>1. Went(t, s, b, n) /\ Turns(o, t, b, n) /\ o \in Maps(1..n, 1..n)
  BY TakenGoesOn, OrderTurns
<1> HIDE DEF t, o
<1>2. ASSUME NEW i \in 1..n, NEW j \in 1..n, i < j PROVE o[i] # o[j]
  <2>1. i \in 0..n /\ j \in 0..n /\ i - 1 \in 0..n /\ j - 1 \in 0..n /\ i <= j - 1
    BY <1>2
  <2>2. /\ t[i] \in Nat /\ t[j] \in Nat /\ t[i - 1] \in Nat /\ t[j - 1] \in Nat
        /\ t[i] <= t[j - 1] /\ i - t[i] <= (j - 1) - t[j - 1]
    BY <1>1, <2>1 DEF Went
  <2>3. /\ \/ t[i] = t[i - 1] + 1 /\ o[i] = t[i] /\ o[i] <= b - 1
           \/ t[i] = t[i - 1] /\ o[i] = b + (i - 1) - t[i] /\ o[i] >= b
        /\ \/ t[j] = t[j - 1] + 1 /\ o[j] = t[j] /\ o[j] <= b - 1
           \/ t[j] = t[j - 1] /\ o[j] = b + (j - 1) - t[j] /\ o[j] >= b
    BY <1>1 DEF Turns
  <2> QED  BY <2>2, <2>3
<1>3. \A i, j \in 1..n : o[i] = o[j] => i = j
  <2> SUFFICES ASSUME NEW i \in 1..n, NEW j \in 1..n, i # j PROVE o[i] # o[j]
    OBVIOUS
  <2>1. i < j \/ j < i
    OBVIOUS
  <2> QED  BY <1>2, <2>1
<1>4. ASSUME NEW k \in 1..n PROVE \E i \in 1..n : o[i] = k
  <2>1. CASE k <= b - 1
    <3> DEFINE P == {i \in Nat : i <= n => t[i] < k}
    <3>1. ASSUME \A i \in 1..n : o[i] # k PROVE FALSE
      <4>0. t[0] = 0
        BY <1>1 DEF Went
      <4>1. P \in SUBSET Nat /\ 0 \in P
        BY <4>0
      <4>2. ASSUME NEW i \in P PROVE i + 1 \in P
        <5> SUFFICES ASSUME i + 1 <= n PROVE t[i + 1] < k
          OBVIOUS
        <5>1. i + 1 \in 1..n /\ (i + 1) - 1 = i /\ i \in 0..n /\ i + 1 \in 0..n /\ t[i] < k
          OBVIOUS
        <5> HIDE DEF P
        <5>2. \/ t[i + 1] = t[i] + 1 /\ o[i + 1] = t[i + 1]
              \/ t[i + 1] = t[i]
          BY <1>1, <5>1 DEF Turns
        <5>3. t[i] \in Nat /\ o[i + 1] # k
          BY <1>1, <3>1, <5>1 DEF Went
        <5> QED  BY <5>1, <5>2, <5>3
      <4>3. \A i \in Nat : i \in P
        <5> HIDE DEF P
        <5> QED  BY <4>1, <4>2, SetInduction
      <4>4. n \in P
        BY <4>3
      <4> QED  BY <1>1, <2>1, <4>4 DEF Went
    <3> QED  BY <3>1
  <2>2. CASE k >= b
    <3> DEFINE P == {i \in Nat : i <= n => i - t[i] <= k - b}
    <3>1. ASSUME \A i \in 1..n : o[i] # k PROVE FALSE
      <4>0. t[0] = 0
        BY <1>1 DEF Went
      <4>1. P \in SUBSET Nat /\ 0 \in P
        BY <2>2, <4>0
      <4>2. ASSUME NEW i \in P PROVE i + 1 \in P
        <5> SUFFICES ASSUME i + 1 <= n PROVE (i + 1) - t[i + 1] <= k - b
          OBVIOUS
        <5>1. /\ i + 1 \in 1..n /\ (i + 1) - 1 = i /\ i \in 0..n /\ i + 1 \in 0..n
              /\ i - t[i] <= k - b
          OBVIOUS
        <5> HIDE DEF P
        <5>2. \/ t[i + 1] = t[i] + 1
              \/ t[i + 1] = t[i] /\ o[i + 1] = b + i - t[i + 1]
          BY <1>1, <5>1 DEF Turns
        <5>3. t[i] \in Nat /\ o[i + 1] # k
          BY <1>1, <3>1, <5>1 DEF Went
        <5> QED  BY <5>1, <5>2, <5>3
      <4>3. \A i \in Nat : i \in P
        <5> HIDE DEF P
        <5> QED  BY <4>1, <4>2, SetInduction
      <4>4. n \in P /\ k <= n
        BY <4>3
      <4>5. t[n] = b - 1 /\ n - t[n] <= k - b
        BY <1>1, <4>4 DEF Went
      <4> QED  BY <2>2, <4>4, <4>5
    <3> QED  BY <3>1
  <2> QED  BY <2>1, <2>2
<1>5. \A i \in 1..n : o[i] \in 1..n
  BY <1>1 DEF Turns
<1> QED
  BY <1>1, <1>3, <1>4, <1>5 DEF Permutes, o

\* Of two turns the later one takes an element further on in its run, or one that
\* comes after an element of its run which the earlier turn was compared with.
Later(s, b, u, v) ==
    \/ u < b /\ v < b /\ u < v
    \/ u >= b /\ v >= b /\ u < v
    \/ u < b /\ v >= b /\ \E q \in b..v : s[u][1] <= s[q][1]
    \/ u >= b /\ v < b /\ \E p \in 1..v : ~(s[p][1] <= s[u][1])

LEMMA TurnsFollow ==
  ASSUME NEW s, NEW n \in Nat, NEW b \in 1..(n + 1), NEW t, NEW o,
         Went(t, s, b, n), Turns(o, t, b, n), NEW i \in 1..n, NEW j \in 1..n, i < j
  PROVE  Later(s, b, o[i], o[j])
<1>1. i \in 0..n /\ j \in 0..n /\ i - 1 \in 0..n /\ j - 1 \in 0..n /\ i <= j - 1
  OBVIOUS
<1>2. /\ t[i] \in Nat /\ t[j] \in Nat /\ t[i - 1] \in Nat /\ t[j - 1] \in Nat
      /\ t[i] <= t[j - 1] /\ i - t[i] <= (j - 1) - t[j - 1]
      /\ t[j] <= b - 1 /\ t[i - 1] <= i - 1
  BY <1>1 DEF Went
<1>3. /\ \/ t[i] = t[i - 1] + 1 /\ o[i] = t[i] /\ o[i] <= b - 1
         \/ t[i] = t[i - 1] /\ o[i] = b + (i - 1) - t[i] /\ o[i] >= b
      /\ \/ t[j] = t[j - 1] + 1 /\ o[j] = t[j] /\ o[j] <= b - 1
         \/ t[j] = t[j - 1] /\ o[j] = b + (j - 1) - t[j] /\ o[j] >= b
  BY DEF Turns
<1>4. t[i] = TakenNext(s, 1, b, n + 1, i, t[i - 1])
  BY DEF Went
<1>5. PICK p \in Int, q \in Int : p = 1 + t[i - 1] /\ q = b + (i - 1) - t[i - 1]
  BY <1>2
<1>6. /\ t[i] = t[i - 1] + 1 => p # b /\ (q = n + 1 \/ s[p][1] <= s[q][1])
      /\ t[i] = t[i - 1] => p = b \/ (q # n + 1 /\ ~(s[p][1] <= s[q][1]))
  BY <1>2, <1>4, <1>5 DEF TakenNext
<1>7. PICK u \in 1..n, v \in 1..n : u = o[i] /\ v = o[j]
  BY DEF Turns
<1>8. /\ \/ t[i] = t[i - 1] + 1 /\ u = p /\ u < b
         \/ t[i] = t[i - 1] /\ u = q /\ u >= b
      /\ p >= 1 /\ q >= b
  BY <1>1, <1>2, <1>3, <1>5, <1>7
<1>9. /\ v < b => p <= v /\ (t[i] = t[i - 1] + 1 => p < v)
      /\ v >= b => q <= v /\ (t[i] = t[i - 1] => q < v)
  BY <1>1, <1>2, <1>3, <1>5, <1>7
<1>10. CASE u < b
  <2>1. u = p /\ (q = n + 1 \/ s[u][1] <= s[q][1]) /\ (v < b => u < v)
    BY <1>2, <1>6, <1>8, <1>9, <1>10
  <2>2. v >= b => q \in b..v /\ q # n + 1
    BY <1>8, <1>9
  <2>3. Later(s, b, u, v)
    BY <1>10, <2>1, <2>2 DEF Later
  <2> QED  BY <1>7, <2>3
<1>11. CASE u >= b
  <2>1. u = q /\ (p = b \/ ~(s[p][1] <= s[u][1])) /\ (v >= b => u < v)
    BY <1>2, <1>6, <1>8, <1>9, <1>11
  <2>2. v < b => p \in 1..v /\ p # b
    BY <1>8, <1>9
  <2>3. Later(s, b, u, v)
    BY <1>11, <2>1, <2>2 DEF Later
  <2> QED  BY <1>7, <2>3
<1> QED
  BY <1>7, <1>10, <1>11

\* Two ascending runs without a common key.
Run(s, from, to) == \A i, j \in from..to : i < j => s[i][1] < s[j][1]

TwoRuns(s, b, n) ==
    /\ \A i \in 1..n : s[i][1] \in Int
    /\ Run(s, 1, b - 1) /\ Run(s, b, n)
    /\ \A i \in 1..(b - 1), j \in b..n : s[i][1] # s[j][1]

\* They are brought in ascending order.
LEMMA OrderAscends ==
  ASSUME NEW s, NEW n \in Nat, NEW b \in 1..(n + 1), TwoRuns(s, b, n)
  PROVE  \A i, j \in 1..n : i < j => s[MergeOrder(s, 1, b, n + 1)[i]][1]
                                       < s[MergeOrder(s, 1, b, n + 1)[j]][1]
<1> DEFINE t == Taken(s, 1, b, n + 1)
           o == MergeOrder(s, 1, b, n + 1)
<1>1. Went(t, s, b, n) /\ Turns(o, t, b, n) /\ o \in Maps(1..n, 1..n)
  BY TakenGoesOn, OrderTurns
<1> HIDE DEF t, o
<1>2. ASSUME NEW i \in 1..n, NEW j \in 1..n, i < j PROVE s[o[i]][1] < s[o[j]][1]
  <2>1. PICK u \in 1..n, v \in 1..n : u = o[i] /\ v = o[j]
    BY <1>1 DEF Turns
  <2>2. Later(s, b, u, v)
    <3>1. Later(s, b, o[i], o[j])
      BY ONLY <1>1, <1>2, TurnsFollow, i \in 1..n, j \in 1..n, n \in Nat, b \in 1..(n + 1), SMTT(60)
    <3> QED  BY <2>1, <3>1
  <2>3. CASE u < b /\ v < b /\ u < v
    <3>1. u \in 1..(b - 1) /\ v \in 1..(b - 1)
      BY <2>3
    <3>2. s[u][1] < s[v][1]
      BY <2>3, <3>1 DEF TwoRuns, Run
    <3> QED  BY <2>1, <3>2
  <2>4. CASE u >= b /\ v >= b /\ u < v
    <3>1. u \in b..n /\ v \in b..n
      BY <2>4
    <3>2. s[u][1] < s[v][1]
      BY <2>4, <3>1 DEF TwoRuns, Run
    <3> QED  BY <2>1, <3>2
  <2>5. CASE u < b /\ v >= b /\ \E q \in b..v : s[u][1] <= s[q][1]
    <3>1. PICK q \in b..v : s[u][1] <= s[q][1]
      BY <2>5
    <3>2. q \in b..n /\ v \in b..n /\ u \in 1..(b - 1) /\ q \in 1..n
      BY <2>5
    <3>3. q = v \/ s[q][1] < s[v][1]
      BY <3>2 DEF TwoRuns, Run
    <3>4. /\ s[u][1] \in Int /\ s[q][1] \in Int /\ s[v][1] \in Int
          /\ s[u][1] # s[v][1]
      BY <3>2 DEF TwoRuns
    <3>5. s[u][1] < s[v][1]
      BY <3>1, <3>3, <3>4
    <3> QED  BY <2>1, <3>5
  <2>6. CASE u >= b /\ v < b /\ \E p \in 1..v : ~(s[p][1] <= s[u][1])
    <3>1. PICK p \in 1..v : ~(s[p][1] <= s[u][1])
      BY <2>6
    <3>2. p \in 1..(b - 1) /\ v \in 1..(b - 1) /\ u \in b..n /\ p \in 1..n
      BY <2>6
    <3>3. p = v \/ s[p][1] < s[v][1]
      BY <3>2 DEF TwoRuns, Run
    <3>4. s[u][1] \in Int /\ s[p][1] \in Int /\ s[v][1] \in Int
      BY <3>2 DEF TwoRuns
    <3>5. s[u][1] < s[v][1]
      BY <3>1, <3>3, <3>4
    <3> QED  BY <2>1, <3>5
  <2>7. s[u][1] < s[v][1]
    BY <2>1, <2>2, <2>3, <2>4, <2>5, <2>6 DEF Later
  <2> QED  BY <2>1, <2>7
<1> QED
  BY <1>2 DEF o

-----------------------------------------------------------------------------
(* The update: the cycles of the permutation                               *)

LEMMA SwappedIs ==
  ASSUME NEW S, NEW E, NEW s \in Maps(S, E), NEW i \in S, NEW j \in S
  PROVE  /\ Swapped(s, i, j) \in Maps(S, E)
         /\ \A k \in S : Swapped(s, i, j)[k] = IF k = j THEN s[i] ELSE IF k = i THEN s[j] ELSE s[k]
<1>1. s \in [S -> E]
  BY DEF Maps
<1>2. Swapped(s, i, j) = [[s EXCEPT ![i] = s[j]] EXCEPT ![j] = s[i]]
  BY DEF Swapped
<1>3. [s EXCEPT ![i] = s[j]] \in [S -> E]
  BY <1>1
<1>4. \A k \in S : [s EXCEPT ![i] = s[j]][k] = IF k = i THEN s[j] ELSE s[k]
  BY <1>1
<1> DEFINE z == [s EXCEPT ![i] = s[j]]
<1> HIDE DEF z
<1>5. [z EXCEPT ![j] = s[i]] \in [S -> E]
  BY <1>1, <1>3 DEF z
<1>6. \A k \in S : [z EXCEPT ![j] = s[i]][k] = IF k = j THEN s[i] ELSE z[k]
  BY <1>3 DEF z
<1> QED
  BY <1>2, <1>4, <1>5, <1>6 DEF z, Maps

\* On the positions in D the elements x are where the permutation p puts them, and
\* what is left of it, q, leads nowhere further on.
Placed(y, q, x, p, D, n) ==
    /\ D \subseteq 1..n
    /\ \A k \in 1..n : k \in D <=> p[k] \in D
    /\ \A k \in D : y[k] = x[p[k]] /\ (q[k] = n + 1 \/ q[k] <= k)
    /\ \A k \in (1..n) \ D : y[k] = x[k] /\ q[k] = p[k]

\* A cycle has been followed from i to j, over the positions W: z and r are the
\* elements and the permutation now, y and q those at i.
Followed(z, r, j, W, y, q, x, p, D, i, n) ==
    /\ W \subseteq 1..n /\ i \in W /\ j \in W /\ \A w \in W : w \notin D
    /\ \A w \in W : w # j => p[w] \in W /\ p[w] # i /\ z[w] = x[p[w]] /\ r[w] = n + 1
    /\ z[j] = x[i] /\ r[j] = p[j]
    /\ \A w \in W : w # i => \E v \in W : v # j /\ p[v] = w
    /\ \A w \in (1..n) \ W : z[w] = y[w] /\ r[w] = q[w]

LEMMA CycleGoesOn ==
  ASSUME NEW n \in Nat, NEW p, Permutes(p, n), NEW x, NEW y, NEW q, NEW D, Placed(y, q, x, p, D, n),
         NEW i \in 1..n, NEW E, NEW z \in Maps(1..n, E), NEW r \in Maps(1..n, 1..(n + 1)),
         NEW j, NEW W, Followed(z, r, j, W, y, q, x, p, D, i, n), p[j] # i
  PROVE  /\ p[j] \in 1..n /\ p[j] \notin W /\ r[j] = p[j]
         /\ Followed(Swapped(z, j, p[j]), [r EXCEPT ![j] = n + 1], p[j], W \cup {p[j]},
                     y, q, x, p, D, i, n)
<1> DEFINE Y == Swapped(z, j, p[j])
           R == [r EXCEPT ![j] = n + 1]
           m == p[j]
           X == W \cup {p[j]}
<1>1. W \subseteq 1..n /\ i \in W /\ j \in W /\ j \in 1..n /\ j \notin D
  BY DEF Followed
<1>2. m \in 1..n /\ m \notin D
  BY <1>1 DEF Permutes, Placed
<1>3. m \notin W
  <2> SUFFICES ASSUME m \in W PROVE FALSE
    OBVIOUS
  <2>1. PICK v \in W : v # j /\ p[v] = m
    BY DEF Followed
  <2> QED  BY <1>1, <2>1 DEF Permutes
<1>4. m # j /\ r[j] = m
  BY <1>1, <1>3 DEF Followed
<1>5. \A k \in 1..n : Y[k] = IF k = m THEN z[j] ELSE IF k = j THEN z[m] ELSE z[k]
  <2> DEFINE S == 1..n
  <2>1. z \in Maps(S, E) /\ j \in S /\ m \in S
    BY <1>1, <1>2
  <2> HIDE DEF S, m
  <2>2. \A k \in S : Swapped(z, j, m)[k] = IF k = m THEN z[j] ELSE IF k = j THEN z[m] ELSE z[k]
    BY ONLY <2>1, SwappedIs, SMTT(60)
  <2> QED  BY <2>2 DEF S, m
<1>6. \A k \in 1..n : R[k] = IF k = j THEN n + 1 ELSE r[k]
  <2>1. r \in [1..n -> 1..(n + 1)]
    BY DEF Maps
  <2> QED  BY <2>1
<1>7. z[m] = x[m] /\ r[m] = p[m]
  <2>1. z[m] = y[m] /\ r[m] = q[m]
    BY <1>2, <1>3 DEF Followed
  <2> QED  BY <1>2, <2>1 DEF Placed
<1> HIDE DEF Y, R, m
<1>8. m = p[j]
  BY DEF m
<1>9. X \subseteq 1..n /\ i \in X /\ m \in X /\ \A w \in X : w \notin D
  BY <1>1, <1>2, <1>8 DEF Followed
<1>10. ASSUME NEW w \in X, w # m
       PROVE  p[w] \in X /\ p[w] # i /\ Y[w] = x[p[w]] /\ R[w] = n + 1
  <2>1. w \in W /\ w \in 1..n
    BY <1>1, <1>8, <1>10
  <2>2. CASE w = j
    BY <1>2, <1>4, <1>5, <1>6, <1>7, <1>8, <2>1, <2>2
  <2>3. CASE w # j
    <3>1. p[w] \in W /\ p[w] # i /\ z[w] = x[p[w]] /\ r[w] = n + 1
      BY <2>1, <2>3 DEF Followed
    <3> QED  BY <1>5, <1>6, <1>10, <2>1, <2>3, <3>1
  <2> QED  BY <2>2, <2>3
<1>11. Y[m] = x[i] /\ R[m] = p[m]
  <2>1. z[j] = x[i]
    BY DEF Followed
  <2> QED  BY <1>2, <1>4, <1>5, <1>6, <1>7, <2>1
<1>12. ASSUME NEW w \in X, w # i
       PROVE  \E v \in X : v # m /\ p[v] = w
  <2>1. CASE w = m
    BY <1>1, <1>4, <1>8, <2>1
  <2>2. CASE w # m
    <3>1. w \in W
      BY <1>8, <2>2
    <3>2. PICK v \in W : v # j /\ p[v] = w
      BY <1>12, <3>1 DEF Followed
    <3>3. v # m
      BY <1>3
    <3> QED  BY <3>2, <3>3
  <2> QED  BY <2>1, <2>2
<1>13. ASSUME NEW w \in (1..n) \ X PROVE Y[w] = y[w] /\ R[w] = q[w]
  <2>1. w \in (1..n) \ W /\ w # m /\ w # j
    BY <1>1, <1>8
  <2>2. z[w] = y[w] /\ r[w] = q[w]
    BY <2>1 DEF Followed
  <2> QED  BY <1>5, <1>6, <2>1, <2>2
<1>14. Followed(Y, R, m, X, y, q, x, p, D, i, n)
  <2> HIDE DEF X
  <2> QED  BY <1>9, <1>10, <1>11, <1>12, <1>13 DEF Followed
<1> QED
  BY <1>2, <1>3, <1>4, <1>14 DEF Y, R, m

\* Back at i the positions of the cycle are done.
LEMMA CycleEnds ==
  ASSUME NEW n \in Nat, NEW p, Permutes(p, n), NEW x, NEW y, NEW q, NEW D, Placed(y, q, x, p, D, n),
         NEW i \in 1..n, 1..(i - 1) \subseteq D,
         NEW z, NEW r, NEW j, NEW W, Followed(z, r, j, W, y, q, x, p, D, i, n), p[j] = i
  PROVE  Placed(z, r, x, p, D \cup W, n)
<1> DEFINE X == D \cup W
<1>1. W \subseteq 1..n /\ i \in W /\ j \in W /\ j \in 1..n /\ j \notin D /\ D \subseteq 1..n
  BY DEF Followed, Placed
<1>2. i <= j
  <2>1. ~(j < i)
    <3>1. j < i => j \in 1..(i - 1)
      BY <1>1
    <3> QED  BY <1>1, <3>1
  <2> QED  BY <1>1, <2>1
<1>3. ASSUME NEW k \in 1..n PROVE k \in X <=> p[k] \in X
  <2>1. k \in D <=> p[k] \in D
    BY DEF Placed
  <2>2. ASSUME k \in W PROVE p[k] \in W
    BY <1>1, <2>2 DEF Followed
  <2>3. ASSUME p[k] \in W PROVE k \in W
    <3>1. CASE p[k] = i
      BY <1>1, <3>1 DEF Permutes
    <3>2. CASE p[k] # i
      <4>1. PICK v \in W : v # j /\ p[v] = p[k]
        BY <2>3, <3>2 DEF Followed
      <4>2. v \in 1..n
        BY <1>1
      <4> QED  BY <4>1, <4>2 DEF Permutes
    <3> QED  BY <3>1, <3>2
  <2> QED  BY <2>1, <2>2, <2>3
<1>4. ASSUME NEW k \in X PROVE z[k] = x[p[k]] /\ (r[k] = n + 1 \/ r[k] <= k)
  <2>1. CASE k \in W
    <3>1. CASE k = j
      <4>1. z[j] = x[i] /\ r[j] = p[j]
        BY DEF Followed
      <4> QED  BY <1>2, <3>1, <4>1
    <3>2. CASE k # j
      BY <2>1, <3>2 DEF Followed
    <3> QED  BY <3>1, <3>2
  <2>2. CASE k \notin W
    <3>1. k \in D /\ k \in (1..n) \ W
      BY <1>1, <2>2
    <3>2. z[k] = y[k] /\ r[k] = q[k]
      BY <3>1 DEF Followed
    <3> QED  BY <3>1, <3>2 DEF Placed
  <2> QED  BY <2>1, <2>2
<1>5. ASSUME NEW k \in (1..n) \ X PROVE z[k] = x[k] /\ r[k] = p[k]
  <2>1. k \in (1..n) \ W /\ k \in (1..n) \ D
    OBVIOUS
  <2>2. z[k] = y[k] /\ r[k] = q[k]
    BY <2>1 DEF Followed
  <2> QED  BY <2>1, <2>2 DEF Placed
<1> QED
  BY <1>1, <1>3, <1>4, <1>5 DEF Placed

LEMMA MapsAreSequences ==
  ASSUME NEW n \in Nat, NEW E
  PROVE  /\ \A s \in Maps(1..n, E) : s \in Seq(E) /\ Len(s) = n
         /\ \A s \in Seq(E) : Len(s) = n => s \in Maps(1..n, E)
BY DEF Maps

ChaseNext(u, i, dead) ==
    IF u.perm[u.j] = i THEN u
    ELSE [s |-> Swapped(u.s, u.j, u.perm[u.j]), perm |-> [u.perm EXCEPT ![u.j] = dead],
          j |-> u.perm[u.j]]

Chase(f, st, i, dead) ==
    f = [k \in 0..Len(st.s) |-> IF k = 0 THEN [s |-> st.s, perm |-> st.perm, j |-> i]
                                ELSE ChaseNext(f[k - 1], i, dead)]

\* The elements, what is left of the permutation and a position.
Chases(n, E) == [s : Maps(1..n, E), perm : Maps(1..n, 1..(n + 1)), j : 1..n]

\* After k rounds the cycle is closed, or k + 1 positions have been seen.
Chased(u, k, st, x, p, D, i, n) == \E W \in SUBSET (1..n) :
    /\ Followed(u.s, u.perm, u.j, W, st.s, st.perm, x, p, D, i, n)
    /\ p[u.j] = i \/ Cardinality(W) = k + 1

LEMMA ChaseGoesOn ==
  ASSUME NEW n \in Nat, NEW p, Permutes(p, n), NEW x, NEW E, NEW st, NEW D,
         Placed(st.s, st.perm, x, p, D, n), NEW i \in 1..n,
         NEW k \in Nat, NEW u \in Chases(n, E), Chased(u, k, st, x, p, D, i, n)
  PROVE  /\ ChaseNext(u, i, n + 1) \in Chases(n, E)
         /\ Chased(ChaseNext(u, i, n + 1), k + 1, st, x, p, D, i, n)
<1>1. u.s \in Maps(1..n, E) /\ u.perm \in Maps(1..n, 1..(n + 1)) /\ u.j \in 1..n
  BY DEF Chases
<1>2. PICK W \in SUBSET (1..n) : /\ Followed(u.s, u.perm, u.j, W, st.s, st.perm, x, p, D, i, n)
                                 /\ p[u.j] = i \/ Cardinality(W) = k + 1
  BY DEF Chased
<1>3. u.perm[u.j] = p[u.j]
  BY <1>2 DEF Followed
<1>4. CASE p[u.j] = i
  <2>1. ChaseNext(u, i, n + 1) = u
    BY <1>3, <1>4 DEF ChaseNext
  <2>2. Chased(u, k + 1, st, x, p, D, i, n)
    BY <1>2, <1>4 DEF Chased
  <2> QED  BY <2>1, <2>2
<1>5. CASE p[u.j] # i
  <2> DEFINE m == p[u.j]
             Y == Swapped(u.s, u.j, m)
             R == [u.perm EXCEPT ![u.j] = n + 1]
             X == W \cup {m}
             v == [s |-> Y, perm |-> R, j |-> m]
  <2>1. ChaseNext(u, i, n + 1) = v
    BY <1>3, <1>5 DEF ChaseNext
  <2>2. /\ m \in 1..n /\ m \notin W
        /\ Followed(Y, R, m, X, st.s, st.perm, x, p, D, i, n)
    <3> DEFINE z == u.s
               r == u.perm
               j == u.j
               y == st.s
               q == st.perm
    <3>1. /\ Permutes(p, n) /\ Placed(y, q, x, p, D, n)
          /\ z \in Maps(1..n, E) /\ r \in Maps(1..n, 1..(n + 1))
          /\ Followed(z, r, j, W, y, q, x, p, D, i, n) /\ p[j] # i
      BY <1>1, <1>2, <1>5
    <3> HIDE DEF z, r, j, y, q
    <3>2. /\ p[j] \in 1..n /\ p[j] \notin W /\ r[j] = p[j]
          /\ Followed(Swapped(z, j, p[j]), [r EXCEPT ![j] = n + 1], p[j], W \cup {p[j]},
                      y, q, x, p, D, i, n)
      BY <3>1, CycleGoesOn
    <3> QED  BY <3>2 DEF z, r, j, y, q
  <2>3. Cardinality(X) = (k + 1) + 1
    <3>1. IsFiniteSet(1..n)
      BY FS_Interval
    <3>2. IsFiniteSet(W)
      BY <3>1, FS_Subset
    <3> HIDE DEF m
    <3> QED  BY <1>2, <1>5, <2>2, <3>2, FS_AddElement DEF m
  <2>4. v \in Chases(n, E)
    <3>1. Y \in Maps(1..n, E)
      <4> DEFINE S == 1..n
                 z == u.s
                 j == u.j
      <4>1. z \in Maps(S, E) /\ j \in S /\ m \in S
        BY <1>1, <2>2
      <4> HIDE DEF S, z, j, m
      <4>2. Swapped(z, j, m) \in Maps(S, E)
        BY ONLY <4>1, SwappedIs, SMTT(60)
      <4> QED  BY <4>2 DEF S, z, j
    <3>2. R \in Maps(1..n, 1..(n + 1))
      BY <1>1 DEF Maps
    <3> HIDE DEF Y, R, m
    <3> QED  BY <2>2, <3>1, <3>2 DEF Chases
  <2>5. Chased(v, k + 1, st, x, p, D, i, n)
    <3>1. v.s = Y /\ v.perm = R /\ v.j = m
      OBVIOUS
    <3>2. X \in SUBSET (1..n)
      BY <1>2, <2>2
    <3> HIDE DEF Y, R, m, X, v
    <3> QED  BY <2>2, <2>3, <3>1, <3>2 DEF Chased
  <2> QED  BY <2>1, <2>4, <2>5
<1> QED
  BY <1>4, <1>5
Joins(n, E) == [s : Maps(1..n, E), perm : Maps(1..n, 1..(n + 1))]

\* Following a cycle puts its positions in place.
LEMMA FollowIs ==
  ASSUME NEW n \in Nat, NEW p, Permutes(p, n), NEW x, NEW E, NEW st,
         st \in Joins(n, E),
         NEW D, Placed(st.s, st.perm, x, p, D, n), NEW i \in 1..n, i \notin D, 1..(i - 1) \subseteq D
  PROVE  /\ Follow(st, i, n + 1) \in Joins(n, E)
         /\ \E W : i \in W /\ Placed(Follow(st, i, n + 1).s, Follow(st, i, n + 1).perm, x, p,
                                     D \cup W, n)
<1> DEFINE dead == n + 1
           e == [s |-> st.s, perm |-> st.perm, j |-> i]
           V == Chases(n, E)
           H(k) == {u \in V : Chased(u, k, st, x, p, D, i, n)}
           Ends == [k \in 0..n |-> H(k)]
           round == [y \in (1..n) \X V |-> ChaseNext(y[2], i, dead)]
           t == CHOOSE f : Chase(f, st, i, dead)
<1>0. st.s \in Maps(1..n, E) /\ st.perm \in Maps(1..n, 1..(n + 1))
  BY DEF Joins
<1>1. Len(st.s) = n
  BY <1>0, MapsAreSequences
<1>2. Ends \in Maps(0..n, SUBSET V)
  <2> HIDE DEF V
  <2> QED  BY DEF Maps
<1>3. e \in Ends[0]
  <2>1. e \in V
    BY <1>0 DEF Chases
  <2>2. Followed(st.s, st.perm, i, {i}, st.s, st.perm, x, p, D, i, n)
    <3> DEFINE y == st.s
               q == st.perm
    <3>1. Placed(y, q, x, p, D, n)
      OBVIOUS
    <3> HIDE DEF y, q
    <3>2. Followed(y, q, i, {i}, y, q, x, p, D, i, n)
      BY <3>1 DEF Followed, Placed
    <3> QED  BY <3>2 DEF y, q
  <2>3. Cardinality({i}) = 0 + 1
    <3>1. Cardinality({i}) = 1
      BY FS_Singleton, Zenon
    <3> QED  BY <3>1
  <2>4. {i} \in SUBSET (1..n) /\ e.s = st.s /\ e.perm = st.perm /\ e.j = i
    OBVIOUS
  <2> HIDE DEF e, V
  <2>5. Chased(e, 0, st, x, p, D, i, n)
    BY <2>2, <2>3, <2>4 DEF Chased
  <2> QED  BY <2>1, <2>5
<1>4. ASSUME NEW k \in 1..n, NEW u \in H(k - 1) PROVE ChaseNext(u, i, dead) \in H(k)
  <2> DEFINE l == k - 1
  <2>1. l \in Nat /\ l + 1 = k
    OBVIOUS
  <2>2. u \in Chases(n, E) /\ Chased(u, l, st, x, p, D, i, n)
    OBVIOUS
  <2> HIDE DEF l
  <2>3. /\ ChaseNext(u, i, n + 1) \in Chases(n, E)
        /\ Chased(ChaseNext(u, i, n + 1), l + 1, st, x, p, D, i, n)
    BY <2>1, <2>2, ChaseGoesOn
  <2> QED  BY <2>1, <2>3
<1>5. Leads(n, Ends, round)
  <2> SUFFICES ASSUME NEW k \in 1..n, NEW u \in Ends[k - 1] PROVE round[<<k, u>>] \in Ends[k]
    BY DEF Leads
  <2>1. Ends[k - 1] = H(k - 1) /\ Ends[k] = H(k)
    <3> HIDE DEF H
    <3>1. k \in 0..n /\ k - 1 \in 0..n
      OBVIOUS
    <3> QED  BY <3>1
  <2>2. u \in V
    BY <2>1
  <2>3. round[<<k, u>>] = ChaseNext(u, i, dead)
    BY <2>2
  <2> HIDE DEF H, Ends, round
  <2> QED  BY <1>4, <2>1, <2>3
<1>6. \E f : IsLoop(f, n, Ends, round, e)
  <2> HIDE DEF Ends, round, e, V
  <2> QED  BY ONLY n \in Nat, <1>2, <1>3, <1>5, LoopExists, SMTT(60)
<1>7. PICK f : /\ \A k \in 0..n : f[k] \in Ends[k]
               /\ f = [k \in 0..n |-> IF k = 0 THEN e ELSE round[<<k, f[k - 1]>>]]
  BY <1>6 DEF IsLoop
<1>8. Chase(f, st, i, dead)
  <2>1. ASSUME NEW k \in 0..n, k # 0 PROVE round[<<k, f[k - 1]>>] = ChaseNext(f[k - 1], i, dead)
    <3>1. k \in 1..n /\ k - 1 \in 0..n
      BY <2>1
    <3>2. f[k - 1] \in V
      BY <1>7, <3>1
    <3> QED  BY <3>1, <3>2
  <2>2. [k \in 0..n |-> IF k = 0 THEN e ELSE round[<<k, f[k - 1]>>]]
          = [k \in 0..n |-> IF k = 0 THEN e ELSE ChaseNext(f[k - 1], i, dead)]
    <3> HIDE DEF round, e
    <3> QED  BY <2>1
  <2>3. f = [k \in 0..n |-> IF k = 0 THEN e ELSE ChaseNext(f[k - 1], i, dead)]
    <3> HIDE DEF round, e, dead
    <3> QED  BY <1>7, <2>2
  <2> HIDE DEF dead
  <2> QED  BY <1>1, <2>3 DEF Chase
<1>9. t = [k \in 0..n |-> IF k = 0 THEN e ELSE ChaseNext(t[k - 1], i, dead)]
  <2>1. Chase(t, st, i, dead)
    <3> HIDE DEF dead
    <3> QED  BY <1>8
  <2> HIDE DEF t, dead
  <2> QED  BY <1>1, <2>1 DEF Chase
<1> HIDE DEF t
<1>10. \A k \in 0..n : t[k] = IF k = 0 THEN e ELSE ChaseNext(t[k - 1], i, dead)
  <2> HIDE DEF e, dead
  <2> QED  BY <1>9, Zenon
<1>11. \A k \in 0..n : t[k] \in Ends[k]
  <2>1. t[0] \in Ends[0]
    <3> HIDE DEF e, Ends
    <3> QED  BY <1>3, <1>10
  <2>2. Keeps(t, n, Ends)
    <3> SUFFICES ASSUME NEW k \in 1..n, t[k - 1] \in Ends[k - 1] PROVE t[k] \in Ends[k]
      BY DEF Keeps
    <3>1. k \in 0..n /\ k - 1 \in 0..n /\ k # 0
      OBVIOUS
    <3>2. t[k] = ChaseNext(t[k - 1], i, dead)
      BY <1>10, <3>1
    <3> HIDE DEF H, dead
    <3>3. Ends[k - 1] = H(k - 1) /\ Ends[k] = H(k)
      BY <3>1
    <3> HIDE DEF Ends
    <3> QED  BY <1>4, <3>2, <3>3
  <2> HIDE DEF Ends
  <2> QED  BY <2>1, <2>2, LoopKeeps
<1> DEFINE u == t[n]
<1>12. u \in V /\ Chased(u, n, st, x, p, D, i, n)
  BY <1>11
<1>13. Follow(st, i, n + 1) = [s |-> u.s, perm |-> u.perm]
  <2>1. Follow(st, i, n + 1) = [s |-> t[Len(st.s)].s, perm |-> t[Len(st.s)].perm]
    BY DEF Follow, Chase, ChaseNext, t
  <2> QED  BY <1>1, <2>1
<1> HIDE DEF u
<1>14. PICK W \in SUBSET (1..n) : /\ Followed(u.s, u.perm, u.j, W, st.s, st.perm, x, p, D, i, n)
                                  /\ p[u.j] = i \/ Cardinality(W) = n + 1
  BY <1>12 DEF Chased
<1>15. p[u.j] = i
  <2>1. IsFiniteSet(1..n) /\ Cardinality(1..n) = n
    BY FS_Interval
  <2>2. Cardinality(W) <= n /\ Cardinality(W) \in Nat
    BY <2>1, FS_Subset, FS_CardinalityType
  <2> QED  BY <1>14, <2>2
<1>16. Placed(u.s, u.perm, x, p, D \cup W, n) /\ i \in W
  <2> DEFINE z == u.s
             r == u.perm
             j == u.j
             y == st.s
             q == st.perm
  <2>1. Placed(y, q, x, p, D, n) /\ Followed(z, r, j, W, y, q, x, p, D, i, n) /\ p[j] = i
    BY <1>14, <1>15
  <2> HIDE DEF z, r, j, y, q
  <2>2. Placed(z, r, x, p, D \cup W, n)
    BY <2>1, CycleEnds
  <2>3. i \in W
    BY <2>1 DEF Followed
  <2> QED  BY <2>2, <2>3 DEF z, r
<1>17. u.s \in Maps(1..n, E) /\ u.perm \in Maps(1..n, 1..(n + 1))
  BY <1>12 DEF Chases
<1>18. /\ Follow(st, i, n + 1).s = u.s /\ Follow(st, i, n + 1).perm = u.perm
       /\ Follow(st, i, n + 1) \in Joins(n, E)
  BY <1>13, <1>17 DEF Joins
<1> QED
  BY <1>16, <1>17, <1>18
JoinNext(st, i, dead) == IF st.perm[i] <= i \/ st.perm[i] = dead THEN st ELSE Follow(st, i, dead)

Joining(f, s, perm, dead) ==
    f = [i \in 0..Len(s) |-> IF i = 0 THEN [s |-> s, perm |-> perm] ELSE JoinNext(f[i - 1], i, dead)]

\* After i rounds the first i positions are done.
Joined(u, i, x, p, n) == \E D \in SUBSET (1..n) : 1..i \subseteq D /\ Placed(u.s, u.perm, x, p, D, n)

LEMMA JoinGoesOn ==
  ASSUME NEW n \in Nat, NEW p, Permutes(p, n), NEW x, NEW E, NEW i \in 1..n,
         NEW u \in Joins(n, E), Joined(u, i - 1, x, p, n)
  PROVE  JoinNext(u, i, n + 1) \in Joins(n, E) /\ Joined(JoinNext(u, i, n + 1), i, x, p, n)
<1>1. PICK D \in SUBSET (1..n) : 1..(i - 1) \subseteq D /\ Placed(u.s, u.perm, x, p, D, n)
  BY DEF Joined
<1>2. CASE i \in D
  <2>1. u.perm[i] <= i \/ u.perm[i] = n + 1
    BY <1>1, <1>2 DEF Placed
  <2>2. JoinNext(u, i, n + 1) = u
    BY <2>1 DEF JoinNext
  <2>3. 1..i \subseteq D
    <3>1. \A k \in 1..i : k = i \/ k \in 1..(i - 1)
      OBVIOUS
    <3> QED  BY <1>1, <1>2, <3>1
  <2>4. Joined(u, i, x, p, n)
    BY <1>1, <2>3 DEF Joined
  <2> QED  BY <2>2, <2>4
<1>3. CASE i \notin D
  <2>1. u.perm[i] = p[i] /\ p[i] \in 1..n /\ p[i] \notin D /\ u.s[i] = x[i]
    BY <1>1, <1>3 DEF Placed, Permutes
  <2>2. ~(p[i] < i)
    <3>1. p[i] < i => p[i] \in 1..(i - 1)
      BY <2>1
    <3> QED  BY <1>1, <2>1, <3>1
  <2>3. CASE p[i] = i
    <3>1. JoinNext(u, i, n + 1) = u
      BY <2>1, <2>3 DEF JoinNext
    <3> DEFINE X == D \cup {i}
    <3>2. X \in SUBSET (1..n) /\ 1..i \subseteq X
      <4>1. \A k \in 1..i : k = i \/ k \in 1..(i - 1)
        OBVIOUS
      <4> QED  BY <1>1, <4>1
    <3>3. Placed(u.s, u.perm, x, p, X, n)
      <4>1. ASSUME NEW k \in 1..n PROVE k \in X <=> p[k] \in X
        <5>1. CASE k = i
          BY <2>3, <5>1
        <5>2. CASE k # i
          <6>1. p[k] # i
            BY <2>3, <5>2 DEF Permutes
          <6>2. k \in D <=> p[k] \in D
            BY <1>1 DEF Placed
          <6> QED  BY <5>2, <6>1, <6>2
        <5> QED  BY <5>1, <5>2
      <4>2. ASSUME NEW k \in X PROVE u.s[k] = x[p[k]] /\ (u.perm[k] = n + 1 \/ u.perm[k] <= k)
        <5>1. CASE k = i
          BY <2>1, <2>3, <5>1
        <5>2. CASE k # i
          BY <1>1, <5>2 DEF Placed
        <5> QED  BY <5>1, <5>2
      <4>3. ASSUME NEW k \in (1..n) \ X PROVE u.s[k] = x[k] /\ u.perm[k] = p[k]
        BY <1>1 DEF Placed
      <4> QED  BY <3>2, <4>1, <4>2, <4>3 DEF Placed
    <3>4. Joined(u, i, x, p, n)
      <4> HIDE DEF X
      <4> QED  BY <3>2, <3>3 DEF Joined
    <3> QED  BY <3>1, <3>4
  <2>4. CASE p[i] # i
    <3> DEFINE v == Follow(u, i, n + 1)
    <3>1. JoinNext(u, i, n + 1) = v
      BY <2>1, <2>2, <2>4 DEF JoinNext
    <3>2. v \in Joins(n, E) /\ \E W : i \in W /\ Placed(v.s, v.perm, x, p, D \cup W, n)
      BY <1>1, <1>3, FollowIs
    <3> HIDE DEF v
    <3>3. PICK W : i \in W /\ Placed(v.s, v.perm, x, p, D \cup W, n)
      BY <3>2
    <3> DEFINE X == D \cup W
    <3>4. X \in SUBSET (1..n)
      BY <3>3 DEF Placed
    <3>5. 1..i \subseteq X
      <4>1. \A k \in 1..i : k = i \/ k \in 1..(i - 1)
        OBVIOUS
      <4> QED  BY <1>1, <3>3, <4>1
    <3>6. Joined(v, i, x, p, n)
      <4> HIDE DEF X
      <4>1. Placed(v.s, v.perm, x, p, X, n)
        BY <3>3 DEF X
      <4> QED  BY <3>4, <3>5, <4>1 DEF Joined
    <3> QED  BY <3>1, <3>2, <3>6
  <2> QED  BY <2>3, <2>4
<1> QED
  BY <1>2, <1>3

\* The join puts the elements where the order of the merge has them.
LEMMA JoinFollowsOrder ==
  ASSUME NEW E, NEW x, NEW n \in Nat, x \in Maps(1..n, E), NEW b \in 2..n
  PROVE  /\ monotonic_join_v2(x, b) \in Maps(1..n, E)
         /\ \A k \in 1..n : monotonic_join_v2(x, b)[k] = x[MergeOrder(x, 1, b, n + 1)[k]]
<1> DEFINE dead == n + 1
           p == MergeOrder(x, 1, b, dead)
           e == [s |-> x, perm |-> p]
           V == Joins(n, E)
           H(i) == {u \in V : Joined(u, i, x, p, n)}
           Ends == [i \in 0..n |-> H(i)]
           round == [y \in (1..n) \X V |-> JoinNext(y[2], y[1], dead)]
           t == CHOOSE f : Joining(f, x, p, dead)
<1>1. Len(x) = n
  BY MapsAreSequences
<1>2. Permutes(p, n)
  <2>1. b \in 1..(n + 1)
    OBVIOUS
  <2> QED  BY <2>1, OrderPermutes
<1> HIDE DEF p
<1>3. p \in Maps(1..n, 1..(n + 1))
  BY <1>2 DEF Permutes, Maps
<1>4. Ends \in Maps(0..n, SUBSET V)
  <2> HIDE DEF V
  <2> QED  BY DEF Maps
<1>5. e \in Ends[0]
  <2>1. e \in V /\ e.s = x /\ e.perm = p
    BY <1>3 DEF Joins
  <2>2. Placed(x, p, x, p, {}, n)
    BY DEF Placed
  <2> HIDE DEF e, V
  <2>3. Joined(e, 0, x, p, n)
    <3>1. {} \in SUBSET (1..n) /\ 1..0 \subseteq {}
      OBVIOUS
    <3> QED  BY <2>1, <2>2, <3>1 DEF Joined
  <2> QED  BY <2>1, <2>3
<1>6. ASSUME NEW i \in 1..n, NEW u \in H(i - 1) PROVE JoinNext(u, i, dead) \in H(i)
  <2>1. u \in Joins(n, E) /\ Joined(u, i - 1, x, p, n)
    OBVIOUS
  <2>2. JoinNext(u, i, n + 1) \in Joins(n, E) /\ Joined(JoinNext(u, i, n + 1), i, x, p, n)
    BY <1>2, <2>1, JoinGoesOn
  <2> QED  BY <2>2
<1>7. Leads(n, Ends, round)
  <2> SUFFICES ASSUME NEW i \in 1..n, NEW u \in Ends[i - 1] PROVE round[<<i, u>>] \in Ends[i]
    BY DEF Leads
  <2>1. Ends[i - 1] = H(i - 1) /\ Ends[i] = H(i)
    <3> HIDE DEF H
    <3>1. i \in 0..n /\ i - 1 \in 0..n
      OBVIOUS
    <3> QED  BY <3>1
  <2>2. u \in V
    BY <2>1
  <2>3. round[<<i, u>>] = JoinNext(u, i, dead)
    BY <2>2
  <2> HIDE DEF H, Ends, round
  <2> QED  BY <1>6, <2>1, <2>3
<1>8. \E f : IsLoop(f, n, Ends, round, e)
  <2> HIDE DEF Ends, round, e, V
  <2> QED  BY ONLY n \in Nat, <1>4, <1>5, <1>7, LoopExists, SMTT(60)
<1>9. PICK f : /\ \A i \in 0..n : f[i] \in Ends[i]
               /\ f = [i \in 0..n |-> IF i = 0 THEN e ELSE round[<<i, f[i - 1]>>]]
  BY <1>8 DEF IsLoop
<1>10. Joining(f, x, p, dead)
  <2>1. ASSUME NEW i \in 0..n, i # 0 PROVE round[<<i, f[i - 1]>>] = JoinNext(f[i - 1], i, dead)
    <3>1. i \in 1..n /\ i - 1 \in 0..n
      BY <2>1
    <3>2. f[i - 1] \in V
      BY <1>9, <3>1
    <3> QED  BY <3>1, <3>2
  <2>2. [i \in 0..n |-> IF i = 0 THEN e ELSE round[<<i, f[i - 1]>>]]
          = [i \in 0..n |-> IF i = 0 THEN e ELSE JoinNext(f[i - 1], i, dead)]
    <3> HIDE DEF round, e
    <3> QED  BY <2>1
  <2>3. f = [i \in 0..n |-> IF i = 0 THEN e ELSE JoinNext(f[i - 1], i, dead)]
    <3> HIDE DEF round, e, dead
    <3> QED  BY <1>9, <2>2
  <2> HIDE DEF dead
  <2> QED  BY <1>1, <2>3 DEF Joining
<1>11. t = [i \in 0..n |-> IF i = 0 THEN e ELSE JoinNext(t[i - 1], i, dead)]
  <2>1. Joining(t, x, p, dead)
    <3> HIDE DEF dead
    <3> QED  BY <1>10
  <2> HIDE DEF t, dead
  <2> QED  BY <1>1, <2>1 DEF Joining
<1>12. monotonic_join_v2(x, b) = t[n].s
  <2>1. Len(x) + 1 = dead /\ b # 1 /\ b # dead
    BY <1>1
  <2>2. monotonic_join_v2(x, b)
          = IF b = 1 \/ b = Len(x) + 1 THEN x
            ELSE (CHOOSE g : Joining(g, x, MergeOrder(x, 1, b, Len(x) + 1), Len(x) + 1))[Len(x)].s
    BY DEF monotonic_join_v2, Joining, JoinNext
  <2> HIDE DEF dead
  <2> QED  BY <1>1, <2>1, <2>2 DEF p
<1> HIDE DEF t
<1>13. \A i \in 0..n : t[i] = IF i = 0 THEN e ELSE JoinNext(t[i - 1], i, dead)
  <2> HIDE DEF e, dead
  <2> QED  BY <1>11, Zenon
<1>14. \A i \in 0..n : t[i] \in Ends[i]
  <2>1. t[0] \in Ends[0]
    <3> HIDE DEF e, Ends
    <3> QED  BY <1>5, <1>13
  <2>2. Keeps(t, n, Ends)
    <3> SUFFICES ASSUME NEW i \in 1..n, t[i - 1] \in Ends[i - 1] PROVE t[i] \in Ends[i]
      BY DEF Keeps
    <3>1. i \in 0..n /\ i - 1 \in 0..n /\ i # 0
      OBVIOUS
    <3>2. t[i] = JoinNext(t[i - 1], i, dead)
      BY <1>13, <3>1
    <3> HIDE DEF H, dead
    <3>3. Ends[i - 1] = H(i - 1) /\ Ends[i] = H(i)
      BY <3>1
    <3> HIDE DEF Ends
    <3> QED  BY <1>6, <3>2, <3>3
  <2> HIDE DEF Ends
  <2> QED  BY <2>1, <2>2, LoopKeeps
<1> DEFINE u == t[n]
<1>15. u \in V /\ Joined(u, n, x, p, n)
  BY <1>14
<1> HIDE DEF u
<1>16. PICK D \in SUBSET (1..n) : 1..n \subseteq D /\ Placed(u.s, u.perm, x, p, D, n)
  BY <1>15 DEF Joined
<1>17. \A k \in 1..n : u.s[k] = x[p[k]]
  BY <1>16 DEF Placed
<1>18. u.s \in Maps(1..n, E)
  BY <1>15 DEF Joins
<1> QED
  BY <1>12, <1>17, <1>18 DEF u, p
\* monotonic_join (src/ivl/algorithm/monotonic_join/v2.hpp:13) puts what two runs of any
\* length leave in the order of the merge, wherever the second one begins.
THEOREM JoinIsInOrder ==
  ASSUME NEW E, NEW x \in Seq(E), NEW n, n = Len(x), NEW b \in 1..(n + 1)
  PROVE  monotonic_join_v2(x, b) = [k \in 1..n |-> x[MergeOrder(x, 1, b, n + 1)[k]]]
<1> DEFINE y == monotonic_join_v2(x, b)
           o == MergeOrder(x, 1, b, n + 1)
<1>1. n \in Nat /\ x \in Maps(1..n, E)
  <2>1. n \in Nat
    OBVIOUS
  <2> QED  BY <2>1, MapsAreSequences
<1>2. y \in Maps(1..n, E) /\ \A k \in 1..n : y[k] = x[o[k]]
  <2>1. CASE b \in 2..n
    <3>1. n \in Nat /\ x \in Maps(1..n, E) /\ b \in 2..n
      BY <1>1, <2>1
    <3>2. /\ monotonic_join_v2(x, b) \in Maps(1..n, E)
          /\ \A k \in 1..n : monotonic_join_v2(x, b)[k] = x[MergeOrder(x, 1, b, n + 1)[k]]
      BY ONLY <3>1, JoinFollowsOrder
    <3> HIDE DEF y, o
    <3> QED  BY <3>2 DEF y, o
  <2>2. CASE ~(b \in 2..n)
    <3>1. b = 1 \/ b = n + 1
      BY <1>1, <2>2
    <3>2. y = x
      BY <3>1 DEF monotonic_join_v2
    <3> DEFINE t == Taken(x, 1, b, n + 1)
    <3>3. Went(t, x, b, n) /\ Turns(o, t, b, n)
      BY <1>1, TakenGoesOn, OrderTurns
    <3> HIDE DEF t, o, y
    <3>4. ASSUME NEW k \in 1..n PROVE o[k] = k
      <4>1. /\ t[k] \in Nat /\ t[k] <= b - 1 /\ t[k] <= k /\ k - t[k] <= n + 1 - b
            /\ o[k] \in 1..n
            /\ \/ o[k] = t[k] /\ o[k] <= b - 1
               \/ o[k] = b + (k - 1) - t[k] /\ o[k] >= b
        <5>1. k \in 0..n
          OBVIOUS
        <5> QED  BY <3>3, <5>1 DEF Went, Turns
      <4> QED  BY <1>1, <3>1, <4>1
    <3> QED  BY <1>1, <3>2, <3>4
  <2> QED  BY <2>1, <2>2
<1> HIDE DEF y, o
<1>3. y = [k \in 1..n |-> x[o[k]]]
  BY <1>2 DEF Maps
<1> QED
  BY <1>3 DEF y, o

\* A join of two runs without a common key: the same elements in ascending order.
LEMMA JoinSorts ==
  ASSUME NEW E, NEW x, NEW n \in Nat, x \in Maps(1..n, E), NEW b \in 1..(n + 1), TwoRuns(x, b, n)
  PROVE  /\ monotonic_join_v2(x, b) \in Maps(1..n, E)
         /\ Run(monotonic_join_v2(x, b), 1, n)
         /\ \A k \in 1..n : \E i \in 1..n : monotonic_join_v2(x, b)[k] = x[i]
         /\ \A i \in 1..n : \E k \in 1..n : monotonic_join_v2(x, b)[k] = x[i]
<1> DEFINE y == monotonic_join_v2(x, b)
           o == MergeOrder(x, 1, b, n + 1)
<1>1. CASE b \in 2..n
  <2>1. y \in Maps(1..n, E) /\ \A k \in 1..n : y[k] = x[o[k]]
    BY <1>1, JoinFollowsOrder
  <2>2. Permutes(o, n)
    BY OrderPermutes
  <2>3. \A i, j \in 1..n : i < j => x[o[i]][1] < x[o[j]][1]
    BY OrderAscends
  <2> HIDE DEF y, o
  <2>4. Run(y, 1, n)
    BY <2>1, <2>3 DEF Run
  <2>5. \A k \in 1..n : \E i \in 1..n : y[k] = x[i]
    BY <2>1, <2>2 DEF Permutes
  <2>6. \A i \in 1..n : \E k \in 1..n : y[k] = x[i]
    <3> SUFFICES ASSUME NEW i \in 1..n PROVE \E k \in 1..n : y[k] = x[i]
      OBVIOUS
    <3>1. PICK k \in 1..n : o[k] = i
      BY <2>2 DEF Permutes
    <3> QED  BY <2>1, <3>1
  <2> QED  BY <2>1, <2>4, <2>5, <2>6 DEF y
<1>2. CASE ~(b \in 2..n)
  <2>1. b = 1 \/ b = n + 1
    BY <1>2
  <2>2. Len(x) = n
    BY MapsAreSequences
  <2>3. y = x
    BY <2>1, <2>2 DEF monotonic_join_v2
  <2>4. Run(x, 1, n)
    <3>1. CASE b = 1
      BY <3>1 DEF TwoRuns
    <3>2. CASE b = n + 1
      <4>1. b - 1 = n
        BY <3>2
      <4> QED  BY <4>1 DEF TwoRuns
    <3> QED  BY <2>1, <3>1, <3>2
  <2> HIDE DEF y
  <2> QED  BY <2>3, <2>4 DEF y
<1> QED
  BY <1>1, <1>2

-----------------------------------------------------------------------------
(* The update: the merge of the changes                                    *)

Sum(a, b, k) == ValueAt(a, k) + ValueAt(b, k)

\* k is a key of the first elements.
Has(s, k, to) == \E q \in 1..to : s[q][1] = k

Sorted(s, n) ==
    /\ n \in Nat
    /\ \A q \in 1..n : s[q][1] \in Int /\ s[q][2] \in Int
    /\ Run(s, 1, n)

\* ap - 1 elements of a and bp - 1 of b are merged: those that stay are the first
\* last - 1 of z, those that are new follow from lo on.
Merged(z, N, ap, bp, last, lo, a, n, b, m) ==
    /\ N \in Nat /\ ap \in 1..(n + 1) /\ bp \in 1..(m + 1) /\ last \in 1..ap /\ lo \in last..(N + 1)
    /\ \A p \in ap..n : z[p] = a[p]
    /\ Run(z, 1, last - 1) /\ Run(z, lo, N)
    /\ \A p \in 1..(last - 1) : Has(a, z[p][1], ap - 1)
    /\ \A p \in lo..N : Has(b, z[p][1], bp - 1) /\ ~Has(a, z[p][1], n)
    /\ \A p \in 1..N : p < last \/ p >= lo => z[p][2] # 0 /\ z[p][2] = Sum(a, b, z[p][1])
    /\ \A k : Sum(a, b, k) # 0 /\ (Has(a, k, ap - 1) \/ Has(b, k, bp - 1))
                => \E p \in 1..N : (p < last \/ p >= lo) /\ z[p][1] = k
    /\ \A q \in 1..(ap - 1) : bp <= m => a[q][1] < b[bp][1]
    /\ \A q \in 1..(bp - 1) : ap <= n => b[q][1] < a[ap][1]

\* The next key is that of a[ap], and b goes on to bp2.
LeftIsNext(ap, bp, bp2, a, b, m) ==
    \/ bp2 = bp /\ ~Has(b, a[ap][1], m) /\ (bp <= m => a[ap][1] < b[bp][1])
    \/ bp2 = bp + 1 /\ bp <= m /\ b[bp][1] = a[ap][1]

\* It is moved to the last slot, or it is gone.
LeftLeaves(y, last2, z, N, ap, last, a, b) ==
    \/ Sum(a, b, a[ap][1]) = 0 /\ last2 = last /\ \A p \in 1..N : y[p] = z[p]
    \/ Sum(a, b, a[ap][1]) # 0 /\ last2 = last + 1
       /\ \A p \in 1..N : y[p] = IF p = last THEN <<a[ap][1], Sum(a, b, a[ap][1])>> ELSE z[p]

LEMMA LeftMerges ==
  ASSUME NEW a, NEW n, Sorted(a, n), NEW b, NEW m, Sorted(b, m), NEW z, NEW N, NEW ap, NEW bp, NEW last,
         Merged(z, N, ap, bp, last, n + 1, a, n, b, m), ap # n + 1,
         NEW bp2, LeftIsNext(ap, bp, bp2, a, b, m), NEW y, NEW last2,
         LeftLeaves(y, last2, z, N, ap, last, a, b)
  PROVE  Merged(y, N, ap + 1, bp2, last2, n + 1, a, n, b, m)
<1>1. PICK key, v : key = a[ap][1] /\ v = Sum(a, b, key)
  OBVIOUS
<1>2. /\ n \in Nat /\ m \in Nat /\ N \in Nat /\ ap \in 1..n /\ bp \in 1..(m + 1)
      /\ last \in 1..ap /\ n <= N /\ key \in Int
  BY <1>1 DEF Sorted, Merged
<1>3. bp2 \in bp..(bp + 1) /\ bp2 \in 1..(m + 1)
  BY <1>2 DEF LeftIsNext
<1>4. /\ \A p \in 1..N : p # last => y[p] = z[p]
      /\ \/ v = 0 /\ last2 = last
         \/ v # 0 /\ last2 = last + 1 /\ y[last][1] = key /\ y[last][2] = v
  BY <1>1, <1>2 DEF LeftLeaves
<1>5. last2 \in 1..(ap + 1) /\ n + 1 \in last2..(N + 1) /\ last2 \in last..(last + 1)
  BY <1>2, <1>4
<1>6. \A p \in (ap + 1)..n : y[p] = a[p]
  <2> SUFFICES ASSUME NEW p \in (ap + 1)..n PROVE y[p] = a[p]
    OBVIOUS
  <2>1. p \in 1..N /\ p # last /\ p \in ap..n
    BY <1>2
  <2> QED  BY <1>4, <2>1 DEF Merged
<1>7. \A i, j \in 1..n : i < j => a[i][1] < a[j][1]
  BY DEF Sorted, Run
<1>8. \A k : Has(a, k, ap) <=> (Has(a, k, ap - 1) \/ k = key)
  BY <1>1, <1>2 DEF Has
<1>9. ASSUME NEW p \in 1..(last - 1)
      PROVE  y[p] = z[p] /\ Has(a, y[p][1], ap - 1) /\ y[p][1] < key
  <2>1. p \in 1..N /\ p # last
    BY <1>2
  <2>2. y[p] = z[p] /\ Has(a, y[p][1], ap - 1)
    BY <1>4, <2>1 DEF Merged
  <2>3. PICK q \in 1..(ap - 1) : a[q][1] = y[p][1]
    BY <2>2 DEF Has
  <2>4. q \in 1..n /\ q < ap
    BY <1>2
  <2> QED  BY <1>1, <1>2, <1>7, <2>2, <2>3, <2>4
<1>10. Run(y, 1, last2 - 1)
  <2> SUFFICES ASSUME NEW i \in 1..(last2 - 1), NEW j \in 1..(last2 - 1), i < j
               PROVE  y[i][1] < y[j][1]
    BY DEF Run
  <2>1. i \in 1..(last - 1)
    BY <1>2, <1>5
  <2>2. CASE j = last
    BY <1>2, <1>4, <1>9, <2>1, <2>2
  <2>3. CASE j # last
    <3>1. j \in 1..(last - 1)
      BY <1>2, <1>5, <2>3
    <3>2. z[i][1] < z[j][1]
      BY <2>1, <3>1 DEF Merged, Run
    <3> QED  BY <1>9, <2>1, <3>1, <3>2
  <2> QED  BY <2>2, <2>3
<1>11. ASSUME NEW p \in (n + 1)..N PROVE p \in 1..N /\ y[p] = z[p]
  BY <1>2, <1>4
<1>12. Run(y, n + 1, N)
  <2> SUFFICES ASSUME NEW i \in (n + 1)..N, NEW j \in (n + 1)..N, i < j PROVE y[i][1] < y[j][1]
    BY DEF Run
  <2>1. z[i][1] < z[j][1]
    BY DEF Merged, Run
  <2> QED  BY <1>11, <2>1
<1>13. ASSUME NEW p \in 1..(last2 - 1) PROVE Has(a, y[p][1], ap)
  <2>1. p = last \/ p \in 1..(last - 1)
    BY <1>2, <1>5
  <2> QED  BY <1>2, <1>4, <1>8, <1>9, <2>1
<1>14. \A k : Has(b, k, bp - 1) => Has(b, k, bp2 - 1)
  BY <1>2, <1>3 DEF Has
<1>15. ASSUME NEW p \in (n + 1)..N PROVE Has(b, y[p][1], bp2 - 1) /\ ~Has(a, y[p][1], n)
  BY <1>11, <1>14 DEF Merged
<1>16. ASSUME NEW p \in 1..N, p < last2 \/ p >= n + 1
       PROVE  y[p][2] # 0 /\ y[p][2] = Sum(a, b, y[p][1])
  <2>1. CASE p = last
    BY <1>1, <1>2, <1>4, <1>16, <2>1
  <2>2. CASE p # last
    <3>1. p < last \/ p >= n + 1
      BY <1>2, <1>5, <1>16, <2>2
    <3> QED  BY <1>4, <2>2, <3>1 DEF Merged
  <2> QED  BY <2>1, <2>2
<1>17. ASSUME NEW k, Sum(a, b, k) # 0, Has(a, k, ap) \/ Has(b, k, bp2 - 1)
       PROVE  \E p \in 1..N : (p < last2 \/ p >= n + 1) /\ y[p][1] = k
  <2>1. CASE k = key
    <3>1. last \in 1..N /\ last < last2 /\ y[last][1] = k
      BY <1>1, <1>2, <1>4, <1>17, <2>1
    <3> QED  BY <3>1
  <2>2. CASE k # key
    <3>1. Has(a, k, ap - 1) \/ Has(b, k, bp - 1)
      <4>1. CASE Has(b, k, bp2 - 1)
        <5>1. PICK q \in 1..(bp2 - 1) : b[q][1] = k
          BY <4>1 DEF Has
        <5>2. q \in 1..(bp - 1)
          BY <1>1, <1>2, <1>3, <2>2, <5>1 DEF LeftIsNext
        <5> QED  BY <5>1, <5>2 DEF Has
      <4> QED  BY <1>8, <1>17, <2>2, <4>1
    <3>2. PICK p \in 1..N : (p < last \/ p >= n + 1) /\ z[p][1] = k
      BY <1>17, <3>1 DEF Merged
    <3>3. p # last /\ (p < last2 \/ p >= n + 1)
      BY <1>2, <1>5, <3>2
    <3> QED  BY <1>4, <3>2, <3>3
  <2> QED  BY <2>1, <2>2
<1>18. ASSUME NEW q \in 1..ap, bp2 <= m PROVE a[q][1] < b[bp2][1]
  <2>1. q \in 1..n /\ a[q][1] \in Int /\ (q = ap \/ (q \in 1..(ap - 1) /\ a[q][1] < key))
    BY <1>1, <1>2, <1>7 DEF Sorted
  <2>2. CASE bp2 = bp /\ (bp <= m => key < b[bp][1])
    BY <1>1, <1>18, <2>1, <2>2 DEF Merged
  <2>3. CASE bp2 = bp + 1 /\ bp <= m /\ b[bp][1] = key
    <3>1. bp \in 1..m /\ bp2 \in 1..m /\ bp < bp2
      BY <1>2, <1>3, <1>18, <2>3
    <3>2. b[bp][1] < b[bp2][1] /\ b[bp2][1] \in Int
      BY <3>1 DEF Sorted, Run
    <3> QED  BY <1>1, <1>2, <2>1, <2>3, <3>2
  <2> QED  BY <1>1, <2>2, <2>3 DEF LeftIsNext
<1>19. ASSUME NEW q \in 1..(bp2 - 1), ap + 1 <= n PROVE b[q][1] < a[ap + 1][1]
  <2>1. key < a[ap + 1][1] /\ a[ap + 1][1] \in Int
    <3>1. ap + 1 \in 1..n /\ ap < ap + 1
      BY <1>2, <1>19
    <3> QED  BY <1>1, <1>2, <1>7, <3>1 DEF Sorted
  <2>2. q \in 1..m /\ b[q][1] \in Int
    BY <1>2, <1>3 DEF Sorted
  <2>3. CASE q \in 1..(bp - 1)
    <3>1. b[q][1] < key
      BY <1>1, <1>2, <2>3 DEF Merged
    <3> QED  BY <1>2, <2>1, <2>2, <3>1
  <2>4. CASE ~(q \in 1..(bp - 1))
    <3>1. q = bp /\ bp2 = bp + 1
      BY <1>2, <1>3, <2>4
    <3>2. b[q][1] = key
      BY <1>1, <1>2, <3>1 DEF LeftIsNext
    <3> QED  BY <2>1, <3>2
  <2> QED  BY <2>3, <2>4
<1>20. (ap + 1) - 1 = ap /\ ap + 1 \in 1..(n + 1)
  BY <1>2
<1> QED
  BY <1>2, <1>3, <1>5, <1>6, <1>10, <1>12, <1>13, <1>15, <1>16, <1>17, <1>18, <1>19, <1>20 DEF Merged
RightIsNext(ap, bp, a, n, b) == ~Has(a, b[bp][1], n) /\ (ap <= n => b[bp][1] < a[ap][1])

\* b[bp] is appended, or it is nothing.
RightLeaves(y, M, z, N, bp, a, b) ==
    /\ \A p \in 1..N : y[p] = z[p]
    /\ \/ Sum(a, b, b[bp][1]) = 0 /\ M = N
       \/ Sum(a, b, b[bp][1]) # 0 /\ M = N + 1 /\ y[N + 1] = <<b[bp][1], Sum(a, b, b[bp][1])>>

LEMMA RightMerges ==
  ASSUME NEW a, NEW n, Sorted(a, n), NEW b, NEW m, Sorted(b, m), NEW z, NEW N, NEW ap, NEW bp, NEW last,
         NEW lo, Merged(z, N, ap, bp, last, lo, a, n, b, m), ap <= n => lo = n + 1, bp # m + 1,
         RightIsNext(ap, bp, a, n, b), NEW y, NEW M, RightLeaves(y, M, z, N, bp, a, b)
  PROVE  Merged(y, M, ap, bp + 1, last, lo, a, n, b, m)
<1>1. PICK key, v : key = b[bp][1] /\ v = Sum(a, b, key)
  OBVIOUS
<1>2. /\ n \in Nat /\ m \in Nat /\ N \in Nat /\ ap \in 1..(n + 1) /\ bp \in 1..m
      /\ last \in 1..ap /\ lo \in last..(N + 1) /\ key \in Int
  BY <1>1 DEF Sorted, Merged
<1>3. /\ \A p \in 1..N : y[p] = z[p]
      /\ \/ v = 0 /\ M = N
         \/ v # 0 /\ M = N + 1 /\ y[M][1] = key /\ y[M][2] = v
  BY <1>1 DEF RightLeaves
<1>4. M \in N..(N + 1) /\ last - 1 <= N
  BY <1>2, <1>3
<1>5. \A p \in ap..n : y[p] = a[p]
  <2> SUFFICES ASSUME NEW p \in ap..n PROVE y[p] = a[p]
    OBVIOUS
  <2>1. p \in 1..N
    BY <1>2
  <2> QED  BY <1>3, <2>1 DEF Merged
<1>6. \A k : Has(b, k, bp) <=> (Has(b, k, bp - 1) \/ k = key)
  BY <1>1, <1>2 DEF Has
<1>7. \A i, j \in 1..m : i < j => b[i][1] < b[j][1]
  BY DEF Sorted, Run
<1>8. Run(y, 1, last - 1)
  <2> SUFFICES ASSUME NEW i \in 1..(last - 1), NEW j \in 1..(last - 1), i < j
               PROVE  y[i][1] < y[j][1]
    BY DEF Run
  <2>1. i \in 1..N /\ j \in 1..N
    BY <1>2
  <2>2. z[i][1] < z[j][1]
    BY DEF Merged, Run
  <2> QED  BY <1>3, <2>1, <2>2
<1>9. ASSUME NEW p \in lo..N
      PROVE  y[p] = z[p] /\ Has(b, y[p][1], bp - 1) /\ ~Has(a, y[p][1], n) /\ y[p][1] < key
  <2>1. p \in 1..N
    BY <1>2
  <2>2. y[p] = z[p] /\ Has(b, y[p][1], bp - 1) /\ ~Has(a, y[p][1], n)
    BY <1>3, <2>1 DEF Merged
  <2>3. PICK q \in 1..(bp - 1) : b[q][1] = y[p][1]
    BY <2>2 DEF Has
  <2>4. q \in 1..m /\ q < bp
    BY <1>2
  <2> QED  BY <1>1, <1>2, <1>7, <2>2, <2>3, <2>4
<1>10. Run(y, lo, M)
  <2> SUFFICES ASSUME NEW i \in lo..M, NEW j \in lo..M, i < j PROVE y[i][1] < y[j][1]
    BY DEF Run
  <2>1. i \in lo..N
    BY <1>2, <1>4
  <2>2. CASE j = N + 1
    BY <1>2, <1>3, <1>4, <1>9, <2>1, <2>2
  <2>3. CASE j # N + 1
    <3>1. j \in lo..N
      BY <1>2, <1>4, <2>3
    <3>2. z[i][1] < z[j][1]
      BY <2>1, <3>1 DEF Merged, Run
    <3> QED  BY <1>9, <2>1, <3>1, <3>2
  <2> QED  BY <2>2, <2>3
<1>11. ASSUME NEW p \in 1..(last - 1) PROVE Has(a, y[p][1], ap - 1)
  <2>1. p \in 1..N
    BY <1>2
  <2> QED  BY <1>3, <2>1 DEF Merged
<1>12. ASSUME NEW p \in lo..M PROVE Has(b, y[p][1], bp) /\ ~Has(a, y[p][1], n)
  <2>1. CASE p \in lo..N
    BY <1>6, <1>9, <2>1
  <2>2. CASE ~(p \in lo..N)
    <3>1. p = N + 1 /\ M = N + 1
      BY <1>2, <1>4, <2>2
    <3>2. y[p][1] = key
      BY <1>2, <1>3, <3>1
    <3> QED  BY <1>1, <1>6, <3>2 DEF RightIsNext
  <2> QED  BY <2>1, <2>2
<1>13. ASSUME NEW p \in 1..M, p < last \/ p >= lo
       PROVE  y[p][2] # 0 /\ y[p][2] = Sum(a, b, y[p][1])
  <2>1. CASE p \in 1..N
    BY <1>3, <1>13, <2>1 DEF Merged
  <2>2. CASE ~(p \in 1..N)
    <3>1. p = N + 1 /\ M = N + 1
      BY <1>2, <1>4, <2>2
    <3> QED  BY <1>1, <1>2, <1>3, <3>1
  <2> QED  BY <2>1, <2>2
<1>14. ASSUME NEW k, Sum(a, b, k) # 0, Has(a, k, ap - 1) \/ Has(b, k, bp)
       PROVE  \E p \in 1..M : (p < last \/ p >= lo) /\ y[p][1] = k
  <2>1. CASE k = key
    <3>1. M \in 1..M /\ M >= lo /\ y[M][1] = k
      BY <1>1, <1>2, <1>3, <1>14, <2>1
    <3> QED  BY <3>1
  <2>2. CASE k # key
    <3>1. PICK p \in 1..N : (p < last \/ p >= lo) /\ z[p][1] = k
      BY <1>6, <1>14, <2>2 DEF Merged
    <3>2. p \in 1..M
      BY <1>2, <1>4
    <3> QED  BY <1>3, <3>1, <3>2
  <2> QED  BY <2>1, <2>2
<1>15. ASSUME NEW q \in 1..(ap - 1), bp + 1 <= m PROVE a[q][1] < b[bp + 1][1]
  <2>1. a[q][1] < key /\ a[q][1] \in Int
    <3>1. q \in 1..n
      BY <1>2
    <3> QED  BY <1>1, <1>2, <3>1 DEF Merged, Sorted
  <2>2. key < b[bp + 1][1] /\ b[bp + 1][1] \in Int
    <3>1. bp + 1 \in 1..m /\ bp < bp + 1
      BY <1>2, <1>15
    <3> QED  BY <1>1, <1>2, <1>7, <3>1 DEF Sorted
  <2> QED  BY <1>2, <2>1, <2>2
<1>16. ASSUME NEW q \in 1..bp, ap <= n PROVE b[q][1] < a[ap][1]
  <2>1. CASE q = bp
    BY <1>16, <2>1 DEF RightIsNext
  <2>2. CASE q # bp
    <3>1. q \in 1..(bp - 1)
      BY <1>2, <2>2
    <3> QED  BY <1>16, <3>1 DEF Merged
  <2> QED  BY <2>1, <2>2
<1>17. (bp + 1) - 1 = bp /\ bp + 1 \in 1..(m + 1) /\ M \in Nat /\ lo \in last..(M + 1)
  BY <1>2, <1>4
<1> QED
  BY <1>2, <1>5, <1>8, <1>10, <1>11, <1>12, <1>13, <1>14, <1>15, <1>16, <1>17 DEF Merged

\* The appended elements are moved down to the last slot.
MovedDown(y, M, z, N, last, n) ==
    /\ M = N - (n + 1 - last)
    /\ \A p \in 1..(last - 1) : y[p] = z[p]
    /\ \A p \in last..M : y[p] = z[p + (n + 1 - last)]

LEMMA CompactMerges ==
  ASSUME NEW a, NEW n, Sorted(a, n), NEW b, NEW m, Sorted(b, m), NEW z, NEW N, NEW bp, NEW last,
         Merged(z, N, n + 1, bp, last, n + 1, a, n, b, m), NEW y, NEW M, MovedDown(y, M, z, N, last, n)
  PROVE  Merged(y, M, n + 1, bp, last, last, a, n, b, m)
<1>1. PICK d \in Nat : d = n + 1 - last
  BY DEF Merged, Sorted
<1>2. /\ n \in Nat /\ N \in Nat /\ bp \in 1..(m + 1) /\ last \in 1..(n + 1) /\ n + 1 <= N + 1
      /\ M = N - d /\ d = n + 1 - last /\ M \in Nat /\ last <= M + 1
  BY <1>1 DEF Sorted, Merged, MovedDown
<1>3. ASSUME NEW p \in 1..(last - 1) PROVE p \in 1..M /\ p \in 1..N /\ y[p] = z[p]
  BY <1>2 DEF MovedDown
<1>4. ASSUME NEW p \in last..M PROVE p + d \in (n + 1)..N /\ p + d \in 1..N /\ y[p] = z[p + d]
  BY <1>2 DEF MovedDown
<1>5. Run(y, 1, last - 1)
  <2> SUFFICES ASSUME NEW i \in 1..(last - 1), NEW j \in 1..(last - 1), i < j
               PROVE  y[i][1] < y[j][1]
    BY DEF Run
  <2>1. z[i][1] < z[j][1]
    BY DEF Merged, Run
  <2> QED  BY <1>3, <2>1
<1>6. Run(y, last, M)
  <2> SUFFICES ASSUME NEW i \in last..M, NEW j \in last..M, i < j PROVE y[i][1] < y[j][1]
    BY DEF Run
  <2>1. i + d \in (n + 1)..N /\ j + d \in (n + 1)..N /\ i + d < j + d
    BY <1>2, <1>4
  <2>2. z[i + d][1] < z[j + d][1]
    BY <2>1 DEF Merged, Run
  <2> QED  BY <1>4, <2>2
<1>7. ASSUME NEW p \in 1..(last - 1) PROVE Has(a, y[p][1], (n + 1) - 1)
  BY <1>3 DEF Merged
<1>8. ASSUME NEW p \in last..M PROVE Has(b, y[p][1], bp - 1) /\ ~Has(a, y[p][1], n)
  BY <1>4 DEF Merged
<1>9. ASSUME NEW p \in 1..M PROVE y[p][2] # 0 /\ y[p][2] = Sum(a, b, y[p][1])
  <2>1. CASE p < last
    <3>1. p \in 1..(last - 1)
      BY <1>2, <2>1
    <3> QED  BY <1>3, <2>1, <3>1 DEF Merged
  <2>2. CASE p >= last
    <3>1. p \in last..M
      BY <1>2, <2>2
    <3>2. p + d \in 1..N /\ p + d >= n + 1 /\ y[p] = z[p + d]
      BY <1>2, <1>4, <3>1
    <3> QED  BY <3>2 DEF Merged
  <2> QED  BY <1>2, <2>1, <2>2
<1>10. ASSUME NEW k, Sum(a, b, k) # 0, Has(a, k, (n + 1) - 1) \/ Has(b, k, bp - 1)
       PROVE  \E p \in 1..M : (p < last \/ p >= last) /\ y[p][1] = k
  <2>1. PICK p \in 1..N : (p < last \/ p >= n + 1) /\ z[p][1] = k
    BY <1>10 DEF Merged
  <2>2. CASE p < last
    <3>1. p \in 1..(last - 1)
      BY <1>2, <2>2
    <3> QED  BY <1>3, <2>1, <2>2, <3>1
  <2>3. CASE p >= n + 1
    <3>1. p - d \in last..M /\ p - d \in 1..M /\ (p - d) + d = p /\ p - d >= last
      BY <1>2, <2>3
    <3>2. y[p - d][1] = k
      BY <1>4, <2>1, <3>1
    <3> QED  BY <3>1, <3>2
  <2> QED  BY <2>1, <2>2, <2>3
<1>11. /\ \A q \in 1..((n + 1) - 1) : bp <= m => a[q][1] < b[bp][1]
       /\ \A p \in (n + 1)..n : y[p] = a[p]
       /\ ~(n + 1 <= n)
  BY <1>2 DEF Merged
<1>12. n + 1 \in 1..(n + 1) /\ last \in last..(M + 1)
  BY <1>2
<1> QED
  BY <1>2, <1>5, <1>6, <1>7, <1>8, <1>9, <1>10, <1>11, <1>12 DEF Merged
Elements == Int \X Int

LEMMA ValueAtIs ==
  ASSUME NEW s \in Seq(Elements), NEW n, n = Len(s), Sorted(s, n)
  PROVE  /\ \A i \in 1..n : ValueAt(s, s[i][1]) = s[i][2]
         /\ \A k : ~Has(s, k, n) => ValueAt(s, k) = 0
         /\ \A k : ValueAt(s, k) \in Int
<1>1. n \in Nat /\ DOMAIN s = 1..n
  BY DEF Sorted
<1>2. ASSUME NEW i \in 1..n PROVE ValueAt(s, s[i][1]) = s[i][2]
  <2> DEFINE k == s[i][1]
             j == CHOOSE j \in 1..n : s[j][1] = k
  <2>1. \E h \in 1..n : s[h][1] = k
    OBVIOUS
  <2>2. j \in 1..n /\ s[j][1] = k
    <3> HIDE DEF k
    <3> QED  BY <2>1, Zenon
  <2>3. ValueAt(s, k) = s[j][2]
    <3> HIDE DEF k
    <3>1. ValueAt(s, k) = s[CHOOSE h \in DOMAIN s : s[h][1] = k][2]
      BY <1>1, <2>1 DEF ValueAt
    <3> QED  BY <1>1, <3>1
  <2> HIDE DEF j
  <2>4. j = i
    BY <1>1, <2>2 DEF Sorted, Run
  <2> QED  BY <2>3, <2>4
<1>3. ASSUME NEW k, ~Has(s, k, n) PROVE ValueAt(s, k) = 0
  BY <1>1, <1>3 DEF ValueAt, Has
<1>4. ASSUME NEW k PROVE ValueAt(s, k) \in Int
  <2>1. CASE Has(s, k, n)
    <3>1. PICK i \in 1..n : s[i][1] = k
      BY <2>1 DEF Has
    <3> QED  BY <1>2, <3>1 DEF Sorted
  <2>2. CASE ~Has(s, k, n)
    BY <1>3, <2>2
  <2> QED  BY <2>1, <2>2
<1> QED
  BY <1>2, <1>3, <1>4

Updates == [a : Seq(Elements), ap : Nat, bp : Nat, last_slot : Nat]

LEMMA HookIs ==
  ASSUME NEW x \in Elements, NEW y \in Elements
  PROVE  /\ hook(<<x>>, <<>>) = IF x[2] = 0 THEN <<>> ELSE << <<x[1], x[2]>> >>
         /\ hook(<<x>>, <<y>>) = IF x[2] + y[2] = 0 THEN <<>> ELSE << <<x[1], x[2] + y[2]>> >>
         /\ hook(<<>>, <<y>>) = IF y[2] = 0 THEN <<>> ELSE << <<y[1], y[2]>> >>
<1>1. <<x>> # <<>> /\ <<y>> # <<>> /\ <<x>>[1] = x /\ <<y>>[1] = y
  OBVIOUS
<1>2. x[2] \in Int /\ y[2] \in Int
  BY DEF Elements
<1>3. x[2] + 0 = x[2] /\ 0 + y[2] = y[2]
  BY <1>2
<1> QED
  BY <1>1, <1>3 DEF hook

\* What left does with what the hook keeps.
LEMMA LeftIs ==
  ASSUME NEW st \in Updates, NEW N, N = Len(st.a), st.ap \in 1..N, st.last_slot \in 1..N,
         NEW r, NEW key \in Int, NEW v \in Int,
         hook(<<st.a[st.ap]>>, r) = IF v = 0 THEN <<>> ELSE << <<key, v>> >>
  PROVE  /\ left(st, r) \in Updates /\ Len(left(st, r).a) = N
         /\ left(st, r).ap = st.ap + 1 /\ left(st, r).bp = st.bp
         /\ v = 0 => left(st, r).last_slot = st.last_slot /\ left(st, r).a = st.a
         /\ v # 0 => /\ left(st, r).last_slot = st.last_slot + 1
                     /\ \A p \in 1..N : left(st, r).a[p] = IF p = st.last_slot THEN <<key, v>>
                                                           ELSE st.a[p]
<1> DEFINE kept == hook(<<st.a[st.ap]>>, r)
<1>1. /\ st.a \in Seq(Elements) /\ st.ap \in Nat /\ st.bp \in Nat /\ st.last_slot \in Nat
      /\ st = [a |-> st.a, ap |-> st.ap, bp |-> st.bp, last_slot |-> st.last_slot]
  BY DEF Updates
<1>2. CASE v = 0
  <2>1. left(st, r) = [st EXCEPT !.ap = @ + 1]
    BY <1>2 DEF left
  <2> DEFINE u == [a |-> st.a, ap |-> st.ap + 1, bp |-> st.bp, last_slot |-> st.last_slot]
  <2>2. left(st, r) = u
    BY <1>1, <2>1
  <2>3. u \in Updates
    BY <1>1 DEF Updates
  <2> QED  BY <1>2, <2>2, <2>3
<1>3. CASE v # 0
  <2> DEFINE e == <<key, v>>
             y == [st.a EXCEPT ![st.last_slot] = e]
             u == [a |-> y, ap |-> st.ap + 1, bp |-> st.bp, last_slot |-> st.last_slot + 1]
  <2>1. kept # <<>> /\ kept[1] = e
    BY <1>3
  <2>2. left(st, r) = [st EXCEPT !.a[st.last_slot] = e, !.last_slot = @ + 1, !.ap = @ + 1]
    <3> HIDE DEF e
    <3> QED  BY <2>1 DEF left
  <2>3. left(st, r) = u
    <3> HIDE DEF e
    <3> QED  BY <1>1, <2>2
  <2>4. e \in Elements
    BY DEF Elements
  <2>5. /\ y \in Seq(Elements) /\ Len(y) = N
        /\ \A p \in 1..N : y[p] = IF p = st.last_slot THEN e ELSE st.a[p]
    <3> HIDE DEF e
    <3> QED  BY <1>1, <2>4
  <2> HIDE DEF y, e
  <2>6. u \in Updates
    BY <1>1, <2>5 DEF Updates
  <2>7. u.a = y /\ u.ap = st.ap + 1 /\ u.bp = st.bp /\ u.last_slot = st.last_slot + 1
    OBVIOUS
  <2> HIDE DEF u
  <2>8. \A p \in 1..N : u.a[p] = IF p = st.last_slot THEN <<key, v>> ELSE st.a[p]
    BY <2>5, <2>7 DEF e
  <2> QED  BY <1>3, <2>3, <2>5, <2>6, <2>7, <2>8
<1> QED
  BY <1>2, <1>3

LEMMA RightIs ==
  ASSUME NEW st \in Updates, NEW N, N = Len(st.a), NEW b, b[st.bp] \in Elements
  PROVE  LET v == b[st.bp][2]
         IN  /\ right(st, b) \in Updates
             /\ right(st, b).ap = st.ap /\ right(st, b).bp = st.bp + 1
             /\ right(st, b).last_slot = st.last_slot
             /\ \A p \in 1..N : right(st, b).a[p] = st.a[p]
             /\ v = 0 => Len(right(st, b).a) = N
             /\ v # 0 => Len(right(st, b).a) = N + 1 /\ right(st, b).a[N + 1] = b[st.bp]
<1>1. /\ st.a \in Seq(Elements) /\ st.ap \in Nat /\ st.bp \in Nat /\ st.last_slot \in Nat
      /\ st = [a |-> st.a, ap |-> st.ap, bp |-> st.bp, last_slot |-> st.last_slot]
  BY DEF Updates
<1> DEFINE x == b[st.bp]
           kept == hook(<<>>, <<x>>)
           y == st.a \o kept
           u == [a |-> y, ap |-> st.ap, bp |-> st.bp + 1, last_slot |-> st.last_slot]
<1>2. right(st, b) = u
  <2>1. right(st, b) = [st EXCEPT !.a = @ \o kept, !.bp = @ + 1]
    BY DEF right
  <2> HIDE DEF kept
  <2> QED  BY <1>1, <2>1
<1>3. x \in Elements
  OBVIOUS
<1> HIDE DEF x
<1>4. kept = IF x[2] = 0 THEN <<>> ELSE << <<x[1], x[2]>> >>
  BY <1>3, HookIs
<1>5. x = <<x[1], x[2]>>
  BY <1>3 DEF Elements
<1>6. kept = IF x[2] = 0 THEN <<>> ELSE <<x>>
  BY <1>4, <1>5
<1> HIDE DEF kept
<1>7. /\ y \in Seq(Elements) /\ \A p \in 1..N : y[p] = st.a[p]
      /\ x[2] = 0 => Len(y) = N
      /\ x[2] # 0 => Len(y) = N + 1 /\ y[N + 1] = x
  <2>1. CASE x[2] = 0
    BY <1>1, <1>6, <2>1
  <2>2. CASE x[2] # 0
    BY <1>1, <1>3, <1>6, <2>2
  <2> QED  BY <2>1, <2>2
<1> HIDE DEF y
<1>8. u \in Updates
  BY <1>1, <1>7 DEF Updates
<1> QED
  BY <1>2, <1>7, <1>8 DEF x
Inputs(a, n, b, m) ==
    /\ a \in Seq(Elements) /\ n = Len(a) /\ Sorted(a, n)
    /\ b \in Seq(Elements) /\ m = Len(b) /\ Sorted(b, m)

Merging(st, lo, a, n, b, m) ==
    st \in Updates /\ Merged(st.a, Len(st.a), st.ap, st.bp, st.last_slot, lo, a, n, b, m)

LEMMA MergingIs ==
  ASSUME NEW a, NEW n, NEW b, NEW m, Inputs(a, n, b, m), NEW st, NEW lo, Merging(st, lo, a, n, b, m)
  PROVE  /\ n \in Nat /\ m \in Nat /\ st \in Updates /\ Len(st.a) \in Nat
         /\ st.ap \in 1..(n + 1) /\ st.bp \in 1..(m + 1) /\ st.last_slot \in 1..st.ap
         /\ lo \in st.last_slot..(Len(st.a) + 1)
         /\ \A p \in st.ap..n : st.a[p] = a[p]
         /\ \A q \in 1..n : a[q] \in Elements /\ a[q][1] \in Int /\ a[q][2] \in Int
         /\ \A q \in 1..m : b[q] \in Elements /\ b[q][1] \in Int /\ b[q][2] \in Int
BY DEF Inputs, Merging, Sorted, Merged

LEMMA SumIs ==
  ASSUME NEW a, NEW n, NEW b, NEW m, Inputs(a, n, b, m)
  PROVE  /\ \A k : Sum(a, b, k) \in Int
         /\ \A k : ~Has(a, k, n) /\ ~Has(b, k, m) => Sum(a, b, k) = 0
         /\ \A i \in 1..n : ~Has(b, a[i][1], m) => Sum(a, b, a[i][1]) = a[i][2]
         /\ \A j \in 1..m : ~Has(a, b[j][1], n) => Sum(a, b, b[j][1]) = b[j][2]
         /\ \A i \in 1..n, j \in 1..m : a[i][1] = b[j][1] => Sum(a, b, a[i][1]) = a[i][2] + b[j][2]
<1>1. /\ \A i \in 1..n : ValueAt(a, a[i][1]) = a[i][2] /\ a[i][2] \in Int
      /\ \A k : ~Has(a, k, n) => ValueAt(a, k) = 0
      /\ \A k : ValueAt(a, k) \in Int
  <2>1. a \in Seq(Elements) /\ n = Len(a) /\ Sorted(a, n)
    BY DEF Inputs
  <2>2. \A i \in 1..n : a[i][2] \in Int
    BY <2>1 DEF Sorted
  <2> QED  BY <2>1, <2>2, ValueAtIs
<1>2. /\ \A i \in 1..m : ValueAt(b, b[i][1]) = b[i][2] /\ b[i][2] \in Int
      /\ \A k : ~Has(b, k, m) => ValueAt(b, k) = 0
      /\ \A k : ValueAt(b, k) \in Int
  <2>1. b \in Seq(Elements) /\ m = Len(b) /\ Sorted(b, m)
    BY DEF Inputs
  <2>2. \A i \in 1..m : b[i][2] \in Int
    BY <2>1 DEF Sorted
  <2> QED  BY <2>1, <2>2, ValueAtIs
<1>3. ASSUME NEW j \in 1..m, ~Has(a, b[j][1], n) PROVE Sum(a, b, b[j][1]) = b[j][2]
  BY <1>1, <1>2, <1>3 DEF Sum
<1>4. ASSUME NEW i \in 1..n, ~Has(b, a[i][1], m) PROVE Sum(a, b, a[i][1]) = a[i][2]
  BY <1>1, <1>2, <1>4 DEF Sum
<1>5. ASSUME NEW i \in 1..n, NEW j \in 1..m, a[i][1] = b[j][1]
      PROVE  Sum(a, b, a[i][1]) = a[i][2] + b[j][2]
  BY <1>1, <1>2, <1>5 DEF Sum
<1>6. \A k : Sum(a, b, k) \in Int
  BY <1>1, <1>2 DEF Sum
<1>7. \A k : ~Has(a, k, n) /\ ~Has(b, k, m) => Sum(a, b, k) = 0
  BY <1>1, <1>2 DEF Sum
<1> QED
  BY <1>3, <1>4, <1>5, <1>6, <1>7

\* The element of a alone: its key is not in b, or both are at the key.
LEMMA LeftKeepsMerging ==
  ASSUME NEW a, NEW n, NEW b, NEW m, Inputs(a, n, b, m), NEW st, Merging(st, n + 1, a, n, b, m),
         st.ap # n + 1, ~Has(b, a[st.ap][1], m), st.bp <= m => a[st.ap][1] < b[st.bp][1]
  PROVE  /\ Merging(left(st, <<>>), n + 1, a, n, b, m)
         /\ left(st, <<>>).ap = st.ap + 1 /\ left(st, <<>>).bp = st.bp
<1> DEFINE u == left(st, <<>>)
           N == Len(st.a)
           key == a[st.ap][1]
           v == Sum(a, b, key)
<1>0. /\ n \in Nat /\ m \in Nat /\ st \in Updates /\ N \in Nat
      /\ st.ap \in 1..(n + 1) /\ st.bp \in 1..(m + 1) /\ st.last_slot \in 1..st.ap
      /\ n + 1 \in st.last_slot..(N + 1)
      /\ \A p \in st.ap..n : st.a[p] = a[p]
      /\ \A q \in 1..n : a[q] \in Elements /\ a[q][1] \in Int /\ a[q][2] \in Int
      /\ \A q \in 1..m : b[q] \in Elements /\ b[q][1] \in Int /\ b[q][2] \in Int
  BY MergingIs
<1>1. /\ n \in Nat /\ m \in Nat /\ st \in Updates /\ N \in Nat /\ st.ap \in 1..n /\ n <= N
      /\ st.ap \in 1..N /\ st.last_slot \in 1..N /\ st.a[st.ap] = a[st.ap]
      /\ a[st.ap] \in Elements /\ key \in Int /\ a[st.ap][2] \in Int
  <2> HIDE DEF N
  <2>1. st.ap \in 1..n
    BY <1>0
  <2>2. n <= N /\ st.last_slot \in 1..N /\ st.ap \in 1..N
    BY <1>0, <2>1
  <2>3. st.a[st.ap] = a[st.ap] /\ a[st.ap] \in Elements /\ key \in Int /\ a[st.ap][2] \in Int
    BY <1>0, <2>1
  <2> QED  BY <1>0, <2>1, <2>2, <2>3
<1>2. v = a[st.ap][2]
  BY <1>1, SumIs
<1>3. hook(<<st.a[st.ap]>>, <<>>) = IF v = 0 THEN <<>> ELSE << <<key, v>> >>
  <2> DEFINE x == a[st.ap]
  <2>1. x \in Elements
    BY <1>1
  <2>2. v = x[2] /\ key = x[1] /\ st.a[st.ap] = x
    BY <1>1, <1>2
  <2> HIDE DEF x, v, key
  <2>3. hook(<<x>>, <<>>) = IF x[2] = 0 THEN <<>> ELSE << <<x[1], x[2]>> >>
    BY <2>1, HookIs
  <2> QED  BY <2>2, <2>3
<1>4. v \in Int
  BY <1>1, <1>2
<1> HIDE DEF v, key
<1>5. /\ u \in Updates /\ Len(u.a) = N
      /\ u.ap = st.ap + 1 /\ u.bp = st.bp
      /\ v = 0 => u.last_slot = st.last_slot /\ u.a = st.a
      /\ v # 0 => /\ u.last_slot = st.last_slot + 1
                  /\ \A p \in 1..N : u.a[p] = IF p = st.last_slot THEN <<key, v>> ELSE st.a[p]
  BY <1>1, <1>3, <1>4, LeftIs
<1> HIDE DEF u
<1>6. LeftLeaves(u.a, u.last_slot, st.a, N, st.ap, st.last_slot, a, b)
  BY <1>5 DEF LeftLeaves, v, key
<1>7. LeftIsNext(st.ap, st.bp, st.bp, a, b, m)
  BY DEF LeftIsNext
<1>8. Merged(u.a, N, st.ap + 1, st.bp, u.last_slot, n + 1, a, n, b, m)
  <2> DEFINE z == st.a
             ap == st.ap
             bp == st.bp
             last == st.last_slot
             y == u.a
             last2 == u.last_slot
  <2>1. /\ Sorted(a, n) /\ Sorted(b, m) /\ Merged(z, N, ap, bp, last, n + 1, a, n, b, m) /\ ap # n + 1
        /\ LeftIsNext(ap, bp, bp, a, b, m) /\ LeftLeaves(y, last2, z, N, ap, last, a, b)
    BY <1>6, <1>7 DEF Inputs, Merging
  <2> HIDE DEF z, N, ap, bp, last, y, last2
  <2>2. Merged(y, N, ap + 1, bp, last2, n + 1, a, n, b, m)
    BY <2>1, LeftMerges
  <2> QED  BY <2>2 DEF ap, bp, y, last2
<1>9. Merging(u, n + 1, a, n, b, m)
  BY <1>5, <1>8 DEF Merging
<1> QED
  BY <1>5, <1>9 DEF u

LEMMA BothKeepMerging ==
  ASSUME NEW a, NEW n, NEW b, NEW m, Inputs(a, n, b, m), NEW st, Merging(st, n + 1, a, n, b, m),
         st.ap # n + 1, st.bp # m + 1, a[st.ap][1] = b[st.bp][1]
  PROVE  LET u == [left(st, <<b[st.bp]>>) EXCEPT !.bp = @ + 1]
         IN  Merging(u, n + 1, a, n, b, m) /\ u.ap = st.ap + 1 /\ u.bp = st.bp + 1
<1> DEFINE r == <<b[st.bp]>>
           l == left(st, r)
           N == Len(st.a)
           key == a[st.ap][1]
           v == Sum(a, b, key)
<1>0. /\ n \in Nat /\ m \in Nat /\ st \in Updates /\ N \in Nat
      /\ st.ap \in 1..(n + 1) /\ st.bp \in 1..(m + 1) /\ st.last_slot \in 1..st.ap
      /\ n + 1 \in st.last_slot..(N + 1)
      /\ \A p \in st.ap..n : st.a[p] = a[p]
      /\ \A q \in 1..n : a[q] \in Elements /\ a[q][1] \in Int /\ a[q][2] \in Int
      /\ \A q \in 1..m : b[q] \in Elements /\ b[q][1] \in Int /\ b[q][2] \in Int
  BY MergingIs
<1>1. /\ n \in Nat /\ m \in Nat /\ st \in Updates /\ N \in Nat /\ st.ap \in 1..n /\ n <= N
      /\ st.ap \in 1..N /\ st.last_slot \in 1..N /\ st.a[st.ap] = a[st.ap] /\ st.bp \in 1..m
      /\ a[st.ap] \in Elements /\ key \in Int /\ a[st.ap][2] \in Int
      /\ b[st.bp] \in Elements /\ b[st.bp][2] \in Int
  <2> HIDE DEF N
  <2>1. st.ap \in 1..n
    BY <1>0
  <2>2. n <= N /\ st.last_slot \in 1..N /\ st.ap \in 1..N
    BY <1>0, <2>1
  <2>3. st.a[st.ap] = a[st.ap] /\ a[st.ap] \in Elements /\ key \in Int /\ a[st.ap][2] \in Int
    BY <1>0, <2>1
  <2>4. st.bp \in 1..m
    BY <1>0
  <2> QED  BY <1>0, <2>1, <2>2, <2>3, <2>4
<1>2. v = a[st.ap][2] + b[st.bp][2]
  <2>1. \A i \in 1..n, j \in 1..m : a[i][1] = b[j][1] => Sum(a, b, a[i][1]) = a[i][2] + b[j][2]
    BY SumIs
  <2> QED  BY <1>1, <2>1
<1>3. hook(<<st.a[st.ap]>>, r) = IF v = 0 THEN <<>> ELSE << <<key, v>> >>
  <2> DEFINE x == a[st.ap]
             y == b[st.bp]
  <2>1. x \in Elements /\ y \in Elements
    BY <1>1
  <2>2. v = x[2] + y[2] /\ key = x[1] /\ st.a[st.ap] = x /\ r = <<y>>
    BY <1>1, <1>2
  <2> HIDE DEF x, y, v, key, r
  <2>3. hook(<<x>>, <<y>>) = IF x[2] + y[2] = 0 THEN <<>> ELSE << <<x[1], x[2] + y[2]>> >>
    BY <2>1, HookIs
  <2> QED  BY <2>2, <2>3
<1>4. v \in Int
  BY <1>1, <1>2
<1> HIDE DEF v, key, r
<1>5. /\ l \in Updates /\ Len(l.a) = N
      /\ l.ap = st.ap + 1 /\ l.bp = st.bp
      /\ v = 0 => l.last_slot = st.last_slot /\ l.a = st.a
      /\ v # 0 => /\ l.last_slot = st.last_slot + 1
                  /\ \A p \in 1..N : l.a[p] = IF p = st.last_slot THEN <<key, v>> ELSE st.a[p]
  <2>1. /\ st \in Updates /\ N = Len(st.a) /\ st.ap \in 1..N /\ st.last_slot \in 1..N
        /\ key \in Int /\ v \in Int
        /\ hook(<<st.a[st.ap]>>, r) = IF v = 0 THEN <<>> ELSE << <<key, v>> >>
    BY <1>1, <1>3, <1>4 DEF key
  <2> HIDE DEF N
  <2> QED  BY ONLY <2>1, LeftIs, SMTT(60)
<1> HIDE DEF l
<1> DEFINE u == [l EXCEPT !.bp = @ + 1]
<1>6. u \in Updates /\ u.a = l.a /\ u.ap = l.ap /\ u.bp = l.bp + 1 /\ u.last_slot = l.last_slot
  BY <1>5 DEF Updates
<1> HIDE DEF u
<1>7. LeftLeaves(u.a, u.last_slot, st.a, N, st.ap, st.last_slot, a, b)
  BY <1>5, <1>6 DEF LeftLeaves, v, key
<1>8. LeftIsNext(st.ap, st.bp, u.bp, a, b, m)
  BY <1>1, <1>5, <1>6 DEF LeftIsNext
<1>9. Merged(u.a, N, st.ap + 1, u.bp, u.last_slot, n + 1, a, n, b, m)
  <2> DEFINE z == st.a
             ap == st.ap
             bp == st.bp
             last == st.last_slot
             y == u.a
             bp2 == u.bp
             last2 == u.last_slot
  <2>1. /\ Sorted(a, n) /\ Sorted(b, m) /\ Merged(z, N, ap, bp, last, n + 1, a, n, b, m) /\ ap # n + 1
        /\ LeftIsNext(ap, bp, bp2, a, b, m) /\ LeftLeaves(y, last2, z, N, ap, last, a, b)
    BY <1>7, <1>8 DEF Inputs, Merging
  <2> HIDE DEF z, N, ap, bp, last, y, last2, bp2
  <2>2. Merged(y, N, ap + 1, bp2, last2, n + 1, a, n, b, m)
    BY <2>1, LeftMerges
  <2> QED  BY <2>2 DEF ap, bp2, y, last2
<1>10. Merging(u, n + 1, a, n, b, m)
  BY <1>5, <1>6, <1>9 DEF Merging
<1>11. u.ap = st.ap + 1 /\ u.bp = st.bp + 1
  BY <1>5, <1>6
<1> QED
  BY <1>10, <1>11 DEF u, l, r

LEMMA RightKeepsMerging ==
  ASSUME NEW a, NEW n, NEW b, NEW m, Inputs(a, n, b, m), NEW st, NEW lo, Merging(st, lo, a, n, b, m),
         st.ap <= n => lo = n + 1, st.bp # m + 1, RightIsNext(st.ap, st.bp, a, n, b)
  PROVE  /\ Merging(right(st, b), lo, a, n, b, m)
         /\ right(st, b).ap = st.ap /\ right(st, b).bp = st.bp + 1
         /\ right(st, b).last_slot = st.last_slot
<1> DEFINE u == right(st, b)
           N == Len(st.a)
           M == Len(u.a)
           x == b[st.bp]
           v == x[2]
<1>1. /\ n \in Nat /\ m \in Nat /\ st \in Updates /\ N \in Nat /\ st.bp \in 1..m
      /\ x \in Elements
  BY MergingIs
<1>2. Sum(a, b, x[1]) = v
  BY <1>1, SumIs DEF RightIsNext
<1>3. /\ u \in Updates /\ u.ap = st.ap /\ u.bp = st.bp + 1 /\ u.last_slot = st.last_slot
      /\ \A p \in 1..N : u.a[p] = st.a[p]
      /\ v = 0 => M = N
      /\ v # 0 => M = N + 1 /\ u.a[N + 1] = x
  BY <1>1, RightIs
<1> HIDE DEF u
<1>4. x = <<x[1], v>>
  BY <1>1 DEF Elements
<1>5. RightLeaves(u.a, M, st.a, N, st.bp, a, b)
  BY <1>2, <1>3, <1>4 DEF RightLeaves
<1>6. Merged(u.a, M, st.ap, st.bp + 1, st.last_slot, lo, a, n, b, m)
  <2> DEFINE z == st.a
             ap == st.ap
             bp == st.bp
             last == st.last_slot
             y == u.a
  <2>1. /\ Sorted(a, n) /\ Sorted(b, m) /\ Merged(z, N, ap, bp, last, lo, a, n, b, m) /\ (ap <= n => lo = n + 1)
        /\ bp # m + 1 /\ RightIsNext(ap, bp, a, n, b) /\ RightLeaves(y, M, z, N, bp, a, b)
    BY <1>5 DEF Inputs, Merging
  <2> HIDE DEF z, N, M, ap, bp, last, y
  <2>2. Merged(y, M, ap, bp + 1, last, lo, a, n, b, m)
    BY <2>1, RightMerges
  <2> QED  BY <2>2 DEF ap, bp, y, last
<1>7. Merging(u, lo, a, n, b, m)
  BY <1>3, <1>6 DEF Merging
<1> QED
  BY <1>3, <1>7 DEF u
MergeNext(st, a, b) ==
    IF st.ap = Len(a) + 1 \/ st.bp = Len(b) + 1 THEN st
    ELSE IF st.a[st.ap][1] < b[st.bp][1] THEN left(st, <<>>)
    ELSE IF st.a[st.ap][1] > b[st.bp][1] THEN right(st, b)
    ELSE [left(st, <<b[st.bp]>>) EXCEPT !.bp = @ + 1]

\* After k rounds k elements are merged, or one of the two is at its end.
MergedFor(st, k, a, n, b, m) ==
    /\ Merging(st, n + 1, a, n, b, m)
    /\ st.ap = n + 1 \/ st.bp = m + 1 \/ st.ap + st.bp >= k + 2

LEMMA KeysApart ==
  ASSUME NEW a, NEW n, NEW b, NEW m, Inputs(a, n, b, m), NEW st, NEW lo, Merging(st, lo, a, n, b, m)
  PROVE  /\ st.ap # n + 1 /\ st.bp # m + 1 /\ a[st.ap][1] < b[st.bp][1] => ~Has(b, a[st.ap][1], m)
         /\ st.ap # n + 1 /\ st.bp # m + 1 /\ b[st.bp][1] < a[st.ap][1] => ~Has(a, b[st.bp][1], n)
         /\ st.ap # n + 1 /\ st.bp = m + 1 => ~Has(b, a[st.ap][1], m)
         /\ st.ap = n + 1 /\ st.bp # m + 1 => ~Has(a, b[st.bp][1], n)
<1>1. /\ n \in Nat /\ m \in Nat /\ st.ap \in 1..(n + 1) /\ st.bp \in 1..(m + 1)
      /\ \A q \in 1..n : a[q][1] \in Int
      /\ \A q \in 1..m : b[q][1] \in Int
  BY MergingIs
<1>2. /\ \A i, j \in 1..n : i < j => a[i][1] < a[j][1]
      /\ \A i, j \in 1..m : i < j => b[i][1] < b[j][1]
  BY DEF Inputs, Sorted, Run
<1>3. /\ \A q \in 1..(st.ap - 1) : st.bp <= m => a[q][1] < b[st.bp][1]
      /\ \A q \in 1..(st.bp - 1) : st.ap <= n => b[q][1] < a[st.ap][1]
  BY DEF Merging, Merged
<1>4. PICK ap \in 1..(n + 1), bp \in 1..(m + 1) : ap = st.ap /\ bp = st.bp
  BY <1>1
<1>5. ASSUME ap # n + 1, bp # m + 1 => a[ap][1] < b[bp][1], NEW q \in 1..m PROVE b[q][1] # a[ap][1]
  <2>1. ap \in 1..n
    BY <1>1, <1>5
  <2>2. CASE q < bp
    <3>1. b[q][1] < a[ap][1]
      BY <1>1, <1>3, <1>4, <2>1, <2>2
    <3> QED  BY <1>1, <2>1, <3>1
  <2>3. CASE q >= bp
    <3>1. bp \in 1..m /\ a[ap][1] < b[bp][1]
      BY <1>1, <1>5, <2>3
    <3>2. q = bp \/ b[bp][1] < b[q][1]
      BY <1>1, <1>2, <2>3, <3>1
    <3> QED  BY <1>1, <2>1, <3>1, <3>2
  <2> QED  BY <1>1, <2>2, <2>3
<1>6. ASSUME bp # m + 1, ap # n + 1 => b[bp][1] < a[ap][1], NEW q \in 1..n PROVE a[q][1] # b[bp][1]
  <2>1. bp \in 1..m
    BY <1>1, <1>6
  <2>2. CASE q < ap
    <3>1. a[q][1] < b[bp][1]
      BY <1>1, <1>3, <1>4, <2>1, <2>2
    <3> QED  BY <1>1, <2>1, <3>1
  <2>3. CASE q >= ap
    <3>1. ap \in 1..n /\ b[bp][1] < a[ap][1]
      BY <1>1, <1>6, <2>3
    <3>2. q = ap \/ a[ap][1] < a[q][1]
      BY <1>1, <1>2, <2>3, <3>1
    <3> QED  BY <1>1, <2>1, <3>1, <3>2
  <2> QED  BY <1>1, <2>2, <2>3
<1>7. ASSUME ap # n + 1, bp # m + 1 => a[ap][1] < b[bp][1] PROVE ~Has(b, a[ap][1], m)
  BY <1>5, <1>7 DEF Has
<1>8. ASSUME bp # m + 1, ap # n + 1 => b[bp][1] < a[ap][1] PROVE ~Has(a, b[bp][1], n)
  BY <1>6, <1>8 DEF Has
<1> QED
  BY <1>4, <1>7, <1>8

LEMMA MergeGoesOn ==
  ASSUME NEW a, NEW n, NEW b, NEW m, Inputs(a, n, b, m), NEW k \in Nat, NEW st,
         MergedFor(st, k, a, n, b, m)
  PROVE  MergedFor(MergeNext(st, a, b), k + 1, a, n, b, m)
<1>1. /\ n = Len(a) /\ m = Len(b) /\ Merging(st, n + 1, a, n, b, m)
      /\ st.ap = n + 1 \/ st.bp = m + 1 \/ st.ap + st.bp >= k + 2
  BY DEF Inputs, MergedFor
<1>2. /\ n \in Nat /\ m \in Nat /\ st.ap \in 1..(n + 1) /\ st.bp \in 1..(m + 1)
      /\ \A p \in st.ap..n : st.a[p] = a[p]
      /\ \A q \in 1..n : a[q][1] \in Int
      /\ \A q \in 1..m : b[q][1] \in Int
  BY <1>1, MergingIs
<1>3. CASE st.ap = n + 1 \/ st.bp = m + 1
  <2>1. MergeNext(st, a, b) = st
    BY <1>1, <1>3 DEF MergeNext
  <2> QED  BY <1>1, <1>3, <2>1 DEF MergedFor
<1>4. CASE st.ap # n + 1 /\ st.bp # m + 1
  <2>1. st.a[st.ap] = a[st.ap] /\ a[st.ap][1] \in Int /\ b[st.bp][1] \in Int
    BY <1>2, <1>4
  <2>2. CASE a[st.ap][1] < b[st.bp][1]
    <3> DEFINE u == left(st, <<>>)
    <3>1. MergeNext(st, a, b) = u
      BY <1>1, <1>4, <2>1, <2>2 DEF MergeNext
    <3>2. ~Has(b, a[st.ap][1], m)
      BY <1>1, <1>4, <2>2, KeysApart
    <3>3. Merging(u, n + 1, a, n, b, m) /\ u.ap = st.ap + 1 /\ u.bp = st.bp
      BY <1>1, <1>4, <2>2, <3>2, LeftKeepsMerging
    <3> HIDE DEF u
    <3>4. u.ap + u.bp >= (k + 1) + 2
      BY <1>1, <1>2, <1>4, <3>3
    <3> QED  BY <3>1, <3>3, <3>4 DEF MergedFor
  <2>3. CASE a[st.ap][1] > b[st.bp][1]
    <3> DEFINE u == right(st, b)
    <3>1. MergeNext(st, a, b) = u
      BY <1>1, <1>4, <2>1, <2>3 DEF MergeNext
    <3>2. RightIsNext(st.ap, st.bp, a, n, b)
      <4>1. b[st.bp][1] < a[st.ap][1]
        BY <2>1, <2>3
      <4> QED  BY <1>1, <1>4, <4>1, KeysApart DEF RightIsNext
    <3>3. Merging(u, n + 1, a, n, b, m) /\ u.ap = st.ap /\ u.bp = st.bp + 1
      <4> DEFINE lo == n + 1
      <4>1. Merging(st, lo, a, n, b, m) /\ (st.ap <= n => lo = n + 1)
        BY <1>1
      <4> HIDE DEF lo, u
      <4>2. Merging(right(st, b), lo, a, n, b, m) /\ right(st, b).ap = st.ap
            /\ right(st, b).bp = st.bp + 1
        BY <1>4, <3>2, <4>1, RightKeepsMerging
      <4> QED  BY <4>2 DEF lo, u
    <3> HIDE DEF u
    <3>4. u.ap + u.bp >= (k + 1) + 2
      BY <1>1, <1>2, <1>4, <3>3
    <3> QED  BY <3>1, <3>3, <3>4 DEF MergedFor
  <2>4. CASE a[st.ap][1] = b[st.bp][1]
    <3> DEFINE u == [left(st, <<b[st.bp]>>) EXCEPT !.bp = @ + 1]
    <3>1. MergeNext(st, a, b) = u
      BY <1>1, <1>4, <2>1, <2>4 DEF MergeNext
    <3>2. Merging(u, n + 1, a, n, b, m) /\ u.ap = st.ap + 1 /\ u.bp = st.bp + 1
      BY <1>1, <1>4, <2>4, BothKeepMerging
    <3> HIDE DEF u
    <3>3. u.ap + u.bp >= (k + 1) + 2
      BY <1>1, <1>2, <1>4, <3>2
    <3> QED  BY <3>1, <3>2, <3>3 DEF MergedFor
  <2> QED  BY <2>1, <2>2, <2>3, <2>4
<1> QED
  BY <1>3, <1>4

MergeRounds(f, a, b) ==
    f = [k \in 0..(Len(a) + Len(b)) |->
           IF k = 0 THEN [a |-> a, ap |-> 1, bp |-> 1, last_slot |-> 1] ELSE MergeNext(f[k - 1], a, b)]

LEMMA MergeStarts ==
  ASSUME NEW a, NEW n, NEW b, NEW m, Inputs(a, n, b, m)
  PROVE  MergedFor([a |-> a, ap |-> 1, bp |-> 1, last_slot |-> 1], 0, a, n, b, m)
<1> DEFINE e == [a |-> a, ap |-> 1, bp |-> 1, last_slot |-> 1]
<1>1. n \in Nat /\ m \in Nat /\ a \in Seq(Elements) /\ Len(a) = n
  BY DEF Inputs, Sorted
<1>2. e \in Updates /\ e.a = a /\ e.ap = 1 /\ e.bp = 1 /\ e.last_slot = 1
  BY <1>1 DEF Updates
<1>3. Merged(a, n, 1, 1, 1, n + 1, a, n, b, m)
  BY <1>1 DEF Merged, Run, Has
<1> HIDE DEF e
<1>4. Merging(e, n + 1, a, n, b, m)
  BY <1>1, <1>2, <1>3 DEF Merging
<1>5. e.ap + e.bp >= 0 + 2
  BY <1>2
<1> QED
  BY <1>4, <1>5 DEF MergedFor, e

\* The merge ends where one of the two does.
LEMMA MergeIs ==
  ASSUME NEW a, NEW n, NEW b, NEW m, Inputs(a, n, b, m)
  PROVE  /\ Merging(Merge(a, b), n + 1, a, n, b, m)
         /\ Merge(a, b).ap = n + 1 \/ Merge(a, b).bp = m + 1
<1> DEFINE N == n + m
           e == [a |-> a, ap |-> 1, bp |-> 1, last_slot |-> 1]
           V == Updates
           H(k) == {u \in V : MergedFor(u, k, a, n, b, m)}
           Ends == [k \in 0..N |-> H(k)]
           round == [y \in (1..N) \X V |-> MergeNext(y[2], a, b)]
           t == CHOOSE f : MergeRounds(f, a, b)
<1>1. n \in Nat /\ m \in Nat /\ n = Len(a) /\ m = Len(b) /\ N \in Nat
  BY DEF Inputs, Sorted
<1>2. Ends \in Maps(0..N, SUBSET V)
  <2> HIDE DEF V
  <2> QED  BY DEF Maps
<1>3. e \in Ends[0]
  <2>1. MergedFor(e, 0, a, n, b, m)
    BY MergeStarts
  <2> HIDE DEF e
  <2>2. e \in V
    BY <2>1 DEF MergedFor, Merging
  <2>3. 0 \in 0..N
    BY <1>1
  <2> HIDE DEF V
  <2> QED  BY <2>1, <2>2, <2>3
<1>4. ASSUME NEW k \in 1..N, NEW u \in H(k - 1) PROVE MergeNext(u, a, b) \in H(k)
  <2> DEFINE l == k - 1
  <2>1. l \in Nat /\ l + 1 = k
    BY <1>1
  <2>2. MergedFor(u, l, a, n, b, m)
    OBVIOUS
  <2> HIDE DEF l
  <2>3. MergedFor(MergeNext(u, a, b), l + 1, a, n, b, m)
    BY <2>1, <2>2, MergeGoesOn
  <2>4. MergeNext(u, a, b) \in V
    BY <2>3 DEF MergedFor, Merging
  <2> QED  BY <2>1, <2>3, <2>4
<1>5. Leads(N, Ends, round)
  <2> SUFFICES ASSUME NEW k \in 1..N, NEW u \in Ends[k - 1] PROVE round[<<k, u>>] \in Ends[k]
    BY DEF Leads
  <2>1. Ends[k - 1] = H(k - 1) /\ Ends[k] = H(k)
    <3> HIDE DEF H
    <3>1. k \in 0..N /\ k - 1 \in 0..N
      BY <1>1
    <3> QED  BY <3>1
  <2>2. u \in V
    BY <2>1
  <2>3. round[<<k, u>>] = MergeNext(u, a, b)
    <3> HIDE DEF V, N
    <3> QED  BY <2>2
  <2> HIDE DEF H, Ends, round
  <2> QED  BY <1>4, <2>1, <2>3
<1>6. \E f : IsLoop(f, N, Ends, round, e)
  <2> HIDE DEF Ends, round, e, V, N
  <2> QED  BY ONLY <1>1, <1>2, <1>3, <1>5, LoopExists, SMTT(60)
<1>7. PICK f : /\ \A k \in 0..N : f[k] \in Ends[k]
               /\ f = [k \in 0..N |-> IF k = 0 THEN e ELSE round[<<k, f[k - 1]>>]]
  BY <1>6 DEF IsLoop
<1>8. MergeRounds(f, a, b)
  <2>1. ASSUME NEW k \in 0..N, k # 0 PROVE round[<<k, f[k - 1]>>] = MergeNext(f[k - 1], a, b)
    <3>1. k \in 1..N /\ k - 1 \in 0..N
      BY <1>1, <2>1
    <3> HIDE DEF V, N
    <3>2. f[k - 1] \in V
      BY <1>7, <3>1
    <3> QED  BY <3>1, <3>2
  <2>2. [k \in 0..N |-> IF k = 0 THEN e ELSE round[<<k, f[k - 1]>>]]
          = [k \in 0..N |-> IF k = 0 THEN e ELSE MergeNext(f[k - 1], a, b)]
    <3> HIDE DEF round, e, N
    <3> QED  BY <2>1
  <2>3. f = [k \in 0..N |-> IF k = 0 THEN e ELSE MergeNext(f[k - 1], a, b)]
    <3> HIDE DEF round, e, N
    <3> QED  BY <1>7, <2>2
  <2> QED  BY <1>1, <2>3 DEF MergeRounds
<1>9. t = [k \in 0..N |-> IF k = 0 THEN e ELSE MergeNext(t[k - 1], a, b)]
  <2>1. MergeRounds(t, a, b)
    BY <1>8
  <2> HIDE DEF t
  <2> QED  BY <1>1, <2>1 DEF MergeRounds
<1>10. Merge(a, b) = t[N]
  <2>1. Merge(a, b) = t[Len(a) + Len(b)]
    BY DEF Merge, MergeRounds, MergeNext
  <2> HIDE DEF t
  <2> QED  BY <1>1, <2>1
<1> HIDE DEF t
<1>11. \A k \in 0..N : t[k] = IF k = 0 THEN e ELSE MergeNext(t[k - 1], a, b)
  <2> HIDE DEF e, N
  <2> QED  BY <1>9, Zenon
<1>12. \A k \in 0..N : t[k] \in Ends[k]
  <2>1. t[0] \in Ends[0]
    <3>1. 0 \in 0..N
      BY <1>1
    <3> HIDE DEF e, Ends, N
    <3> QED  BY <1>3, <1>11, <3>1
  <2>2. Keeps(t, N, Ends)
    <3> SUFFICES ASSUME NEW k \in 1..N, t[k - 1] \in Ends[k - 1] PROVE t[k] \in Ends[k]
      BY DEF Keeps
    <3>1. k \in 0..N /\ k - 1 \in 0..N /\ k # 0
      BY <1>1
    <3> HIDE DEF N
    <3>2. t[k] = MergeNext(t[k - 1], a, b)
      BY <1>11, <3>1
    <3> HIDE DEF H
    <3>3. Ends[k - 1] = H(k - 1) /\ Ends[k] = H(k)
      BY <3>1
    <3> HIDE DEF Ends
    <3> QED  BY <1>4, <3>2, <3>3
  <2> HIDE DEF Ends, N
  <2> QED  BY <1>1, <2>1, <2>2, LoopKeeps
<1> DEFINE u == t[N]
<1>13. u \in Updates /\ MergedFor(u, N, a, n, b, m)
  <2>1. N \in 0..N
    BY <1>1
  <2> HIDE DEF N
  <2> QED  BY <1>12, <2>1
<1> HIDE DEF u
<1>14. Merging(u, n + 1, a, n, b, m)
  BY <1>13 DEF MergedFor
<1>15. u.ap = n + 1 \/ u.bp = m + 1
  <2>1. u.ap \in 1..(n + 1) /\ u.bp \in 1..(m + 1)
    BY <1>14, MergingIs
  <2>2. u.ap = n + 1 \/ u.bp = m + 1 \/ u.ap + u.bp >= N + 2
    BY <1>13 DEF MergedFor
  <2> QED  BY <1>1, <2>1, <2>2
<1> QED
  BY <1>10, <1>14, <1>15 DEF u
RestOfLeft(u, k, st, a, n, b, m) ==
    Merging(u, n + 1, a, n, b, m) /\ u.ap = st.ap + k /\ u.bp = st.bp

LEMMA RestLeftGoesOn ==
  ASSUME NEW a, NEW n, NEW b, NEW m, Inputs(a, n, b, m), NEW st, Merging(st, n + 1, a, n, b, m),
         st.bp = m + 1, NEW k \in 1..(n + 1 - st.ap), NEW u, RestOfLeft(u, k - 1, st, a, n, b, m)
  PROVE  RestOfLeft(left(u, <<>>), k, st, a, n, b, m)
<1>1. n \in Nat /\ m \in Nat /\ st.ap \in 1..(n + 1)
  BY MergingIs
<1>2. Merging(u, n + 1, a, n, b, m) /\ u.ap = st.ap + (k - 1) /\ u.bp = m + 1
  BY DEF RestOfLeft
<1>3. u.ap # n + 1 /\ ~(u.bp <= m)
  BY <1>1, <1>2
<1>4. ~Has(b, a[u.ap][1], m)
  BY <1>2, <1>3, KeysApart
<1> DEFINE v == left(u, <<>>)
<1>5. Merging(v, n + 1, a, n, b, m) /\ v.ap = u.ap + 1 /\ v.bp = u.bp
  <2>1. u.bp <= m => a[u.ap][1] < b[u.bp][1]
    BY <1>3
  <2> QED  BY <1>2, <1>3, <1>4, <2>1, LeftKeepsMerging
<1> HIDE DEF v
<1>6. v.ap = st.ap + k /\ v.bp = st.bp
  BY <1>1, <1>2, <1>5
<1> QED
  BY <1>5, <1>6 DEF RestOfLeft, v

LeftRounds(f, st, end) ==
    f = [k \in 0..(end - st.ap) |-> IF k = 0 THEN st ELSE left(f[k - 1], <<>>)]

\* What is left of the vector is kept.
LEMMA RestLeftIs ==
  ASSUME NEW a, NEW n, NEW b, NEW m, Inputs(a, n, b, m), NEW st, Merging(st, n + 1, a, n, b, m),
         st.ap = n + 1 \/ st.bp = m + 1
  PROVE  /\ Merging(RestLeft(st, n + 1), n + 1, a, n, b, m)
         /\ RestLeft(st, n + 1).ap = n + 1
<1> DEFINE end == n + 1
           N == end - st.ap
           V == Updates
           H(k) == {u \in V : RestOfLeft(u, k, st, a, n, b, m)}
           Ends == [k \in 0..N |-> H(k)]
           round == [y \in (1..N) \X V |-> left(y[2], <<>>)]
           t == CHOOSE f : LeftRounds(f, st, end)
<1>1. n \in Nat /\ m \in Nat /\ st.ap \in 1..(n + 1) /\ N \in Nat /\ st \in V
  BY MergingIs
<1>2. Ends \in Maps(0..N, SUBSET V)
  <2> HIDE DEF V
  <2> QED  BY DEF Maps
<1>3. st \in Ends[0]
  <2>1. RestOfLeft(st, 0, st, a, n, b, m)
    BY <1>1 DEF RestOfLeft
  <2>2. 0 \in 0..N
    BY <1>1
  <2> HIDE DEF V
  <2> QED  BY <1>1, <2>1, <2>2
<1>4. ASSUME NEW k \in 1..N, NEW u \in H(k - 1) PROVE left(u, <<>>) \in H(k)
  <2>1. RestOfLeft(u, k - 1, st, a, n, b, m)
    OBVIOUS
  <2>2. st.bp = m + 1
    BY <1>1
  <2>3. RestOfLeft(left(u, <<>>), k, st, a, n, b, m)
    <3>1. Inputs(a, n, b, m) /\ Merging(st, n + 1, a, n, b, m)
      OBVIOUS
    <3>2. k \in 1..(n + 1 - st.ap)
      BY <1>1
    <3> QED  BY ONLY <2>1, <2>2, <3>1, <3>2, RestLeftGoesOn, SMTT(60)
  <2>4. left(u, <<>>) \in V
    BY <2>3 DEF RestOfLeft, Merging
  <2> QED  BY <2>3, <2>4
<1>5. Leads(N, Ends, round)
  <2> SUFFICES ASSUME NEW k \in 1..N, NEW u \in Ends[k - 1] PROVE round[<<k, u>>] \in Ends[k]
    BY DEF Leads
  <2>1. Ends[k - 1] = H(k - 1) /\ Ends[k] = H(k)
    <3>1. k \in 0..N /\ k - 1 \in 0..N
      BY <1>1
    <3> HIDE DEF H, N
    <3> QED  BY <3>1
  <2>2. u \in V
    BY <2>1
  <2>3. round[<<k, u>>] = left(u, <<>>)
    <3> HIDE DEF V, N
    <3> QED  BY <2>2
  <2> HIDE DEF H, Ends, round
  <2> QED  BY <1>4, <2>1, <2>3
<1>6. \E f : IsLoop(f, N, Ends, round, st)
  <2> HIDE DEF Ends, round, V, N
  <2> QED  BY ONLY <1>1, <1>2, <1>3, <1>5, LoopExists, SMTT(60)
<1>7. PICK f : /\ \A k \in 0..N : f[k] \in Ends[k]
               /\ f = [k \in 0..N |-> IF k = 0 THEN st ELSE round[<<k, f[k - 1]>>]]
  BY <1>6 DEF IsLoop
<1>8. LeftRounds(f, st, end)
  <2>1. ASSUME NEW k \in 0..N, k # 0 PROVE round[<<k, f[k - 1]>>] = left(f[k - 1], <<>>)
    <3>1. k \in 1..N /\ k - 1 \in 0..N
      BY <1>1, <2>1
    <3> HIDE DEF V, N
    <3>2. f[k - 1] \in V
      BY <1>7, <3>1
    <3> QED  BY <3>1, <3>2
  <2>2. [k \in 0..N |-> IF k = 0 THEN st ELSE round[<<k, f[k - 1]>>]]
          = [k \in 0..N |-> IF k = 0 THEN st ELSE left(f[k - 1], <<>>)]
    <3> HIDE DEF round, N
    <3> QED  BY <2>1
  <2>3. f = [k \in 0..N |-> IF k = 0 THEN st ELSE left(f[k - 1], <<>>)]
    <3> HIDE DEF round, N
    <3> QED  BY <1>7, <2>2
  <2> HIDE DEF end
  <2> QED  BY <2>3, Zenon DEF LeftRounds
<1>9. t = [k \in 0..N |-> IF k = 0 THEN st ELSE left(t[k - 1], <<>>)]
  <2>1. LeftRounds(t, st, end)
    <3> HIDE DEF end
    <3> QED  BY <1>8
  <2> HIDE DEF t, end
  <2> QED  BY <2>1, Zenon DEF LeftRounds
<1>10. RestLeft(st, n + 1) = t[N]
  <2> HIDE DEF end
  <2>1. RestLeft(st, end) = t[N]
    BY Zenon DEF RestLeft, LeftRounds
  <2> QED  BY <2>1 DEF end
<1> HIDE DEF t
<1>11. \A k \in 0..N : t[k] = IF k = 0 THEN st ELSE left(t[k - 1], <<>>)
  <2> HIDE DEF N
  <2> QED  BY <1>9, Zenon
<1>12. \A k \in 0..N : t[k] \in Ends[k]
  <2>1. t[0] \in Ends[0]
    <3>1. 0 \in 0..N
      BY <1>1
    <3> HIDE DEF Ends, N
    <3> QED  BY <1>3, <1>11, <3>1
  <2>2. Keeps(t, N, Ends)
    <3> SUFFICES ASSUME NEW k \in 1..N, t[k - 1] \in Ends[k - 1] PROVE t[k] \in Ends[k]
      BY DEF Keeps
    <3>1. k \in 0..N /\ k - 1 \in 0..N /\ k # 0
      BY <1>1
    <3> HIDE DEF N
    <3>2. t[k] = left(t[k - 1], <<>>)
      BY <1>11, <3>1
    <3> HIDE DEF H
    <3>3. Ends[k - 1] = H(k - 1) /\ Ends[k] = H(k)
      BY <3>1
    <3> HIDE DEF Ends
    <3> QED  BY <1>4, <3>2, <3>3
  <2> HIDE DEF Ends, N
  <2> QED  BY <1>1, <2>1, <2>2, LoopKeeps
<1>13. RestOfLeft(t[N], N, st, a, n, b, m)
  <2>1. N \in 0..N
    BY <1>1
  <2> HIDE DEF N
  <2> QED  BY <1>12, <2>1
<1>14. st.ap + N = n + 1
  BY <1>1
<1> HIDE DEF N
<1> QED
  BY <1>10, <1>13, <1>14 DEF RestOfLeft

\* The gap is closed.
LEMMA CompactIs ==
  ASSUME NEW a, NEW n, NEW b, NEW m, Inputs(a, n, b, m), NEW st, Merging(st, n + 1, a, n, b, m),
         st.ap = n + 1
  PROVE  /\ Merging(Compact(st), st.last_slot, a, n, b, m)
         /\ Compact(st).ap = n + 1 /\ Compact(st).last_slot = st.last_slot
<1> DEFINE u == Compact(st)
           z == st.a
           N == Len(st.a)
           last == st.last_slot
           y == SubSeq(z, 1, last - 1) \o SubSeq(z, n + 1, N)
           M == N - (n + 1 - last)
<1>1. /\ n \in Nat /\ m \in Nat /\ N \in Nat /\ last \in 1..(n + 1) /\ n + 1 \in last..(N + 1)
      /\ z \in Seq(Elements) /\ st \in Updates
  <2>1. n \in Nat /\ m \in Nat /\ N \in Nat /\ last \in 1..st.ap /\ n + 1 \in last..(N + 1) /\ st \in Updates
    BY MergingIs
  <2> QED  BY <2>1 DEF Updates
<1>2. u = [a |-> y, ap |-> n + 1, bp |-> st.bp, last_slot |-> last]
  <2>1. st = [a |-> z, ap |-> n + 1, bp |-> st.bp, last_slot |-> last]
    BY <1>1 DEF Updates
  <2>2. u = [st EXCEPT !.a = y]
    BY DEF Compact
  <2> HIDE DEF u, y
  <2> QED  BY <2>1, <2>2
<1>3. /\ y \in Seq(Elements) /\ Len(y) = M
      /\ \A p \in 1..(last - 1) : y[p] = z[p]
      /\ \A p \in last..M : y[p] = z[p + (n + 1 - last)]
  <2> DEFINE g == SubSeq(z, 1, last - 1)
             h == SubSeq(z, n + 1, N)
  <2> HIDE DEF z, N, last
  <2>0. N = Len(z)
    BY DEF N, z
  <2>1. g \in Seq(Elements) /\ Len(g) = last - 1 /\ \A p \in 1..(last - 1) : g[p] = z[p]
    BY <1>1, <2>0
  <2>2. h \in Seq(Elements) /\ Len(h) = N - n /\ \A p \in 1..(N - n) : h[p] = z[p + n]
    BY <1>1, <2>0
  <2> HIDE DEF g, h
  <2>3. g \o h \in Seq(Elements) /\ Len(g \o h) = (last - 1) + (N - n)
    BY <2>1, <2>2
  <2>4. \A p \in 1..((last - 1) + (N - n)) :
          (g \o h)[p] = IF p <= last - 1 THEN g[p] ELSE h[p - (last - 1)]
    <3>1. \A p \in 1..(Len(g) + Len(h)) : (g \o h)[p] = IF p <= Len(g) THEN g[p] ELSE h[p - Len(g)]
      BY <2>1, <2>2, ConcatProperties
    <3> QED  BY <2>1, <2>2, <3>1
  <2>5. ASSUME NEW p \in 1..(last - 1) PROVE (g \o h)[p] = z[p]
    BY <1>1, <2>1, <2>4
  <2>6. ASSUME NEW p \in last..M PROVE (g \o h)[p] = z[p + (n + 1 - last)]
    <3>1. /\ p \in 1..((last - 1) + (N - n)) /\ ~(p <= last - 1)
          /\ p - (last - 1) \in 1..(N - n) /\ (p - (last - 1)) + n = p + (n + 1 - last)
      BY <1>1
    <3> QED  BY <2>2, <2>4, <3>1
  <2>7. (last - 1) + (N - n) = M
    BY <1>1
  <2> QED  BY <2>3, <2>5, <2>6, <2>7 DEF g, h
<1> HIDE DEF u, y
<1>4. u.a = y /\ u.ap = n + 1 /\ u.bp = st.bp /\ u.last_slot = last /\ u \in Updates
  <2>1. n + 1 \in Nat /\ st.bp \in Nat /\ last \in Nat
    BY <1>1 DEF Updates
  <2> QED  BY <1>2, <1>3, <2>1 DEF Updates
<1>5. MovedDown(y, M, z, N, last, n)
  BY <1>3 DEF MovedDown
<1>6. Merged(y, M, n + 1, st.bp, last, last, a, n, b, m)
  <2> DEFINE bp == st.bp
  <2>1. Sorted(a, n) /\ Sorted(b, m) /\ Merged(z, N, n + 1, bp, last, n + 1, a, n, b, m)
    BY DEF Inputs, Merging
  <2> HIDE DEF z, N, M, last, bp
  <2>2. Merged(y, M, n + 1, bp, last, last, a, n, b, m)
    BY <1>5, <2>1, CompactMerges
  <2> QED  BY <2>2 DEF bp
<1>7. Merging(u, last, a, n, b, m)
  BY <1>3, <1>4, <1>6 DEF Merging
<1> QED
  BY <1>4, <1>7 DEF u
RestOfRight(u, k, st, a, n, b, m) ==
    /\ Merging(u, st.last_slot, a, n, b, m)
    /\ u.ap = n + 1 /\ u.bp = st.bp + k /\ u.last_slot = st.last_slot

LEMMA RestRightGoesOn ==
  ASSUME NEW a, NEW n, NEW b, NEW m, Inputs(a, n, b, m), NEW st, Merging(st, st.last_slot, a, n, b, m),
         NEW k \in 1..((m + 1) - st.bp), NEW u, RestOfRight(u, k - 1, st, a, n, b, m)
  PROVE  RestOfRight(right(u, b), k, st, a, n, b, m)
<1>1. n \in Nat /\ m \in Nat /\ st.bp \in 1..(m + 1)
  BY MergingIs
<1> DEFINE lo == st.last_slot
           v == right(u, b)
<1>2. /\ Merging(u, lo, a, n, b, m) /\ u.ap = n + 1 /\ u.bp = st.bp + (k - 1)
      /\ u.last_slot = lo
  BY DEF RestOfRight
<1>3. u.bp # m + 1 /\ ~(u.ap <= n)
  BY <1>1, <1>2
<1> HIDE DEF lo, v
<1>4. ~Has(a, b[u.bp][1], n)
  BY <1>2, <1>3, KeysApart
<1>5. RightIsNext(u.ap, u.bp, a, n, b) /\ (u.ap <= n => lo = n + 1)
  BY <1>3, <1>4 DEF RightIsNext
<1>6. Merging(v, lo, a, n, b, m) /\ v.ap = u.ap /\ v.bp = u.bp + 1 /\ v.last_slot = u.last_slot
  BY <1>2, <1>3, <1>5, RightKeepsMerging DEF v
<1>7. v.bp = st.bp + k
  BY <1>1, <1>2, <1>6
<1> QED
  BY <1>2, <1>6, <1>7 DEF RestOfRight, v, lo

RightRounds(f, st, b, end) ==
    f = [k \in 0..(end - st.bp) |-> IF k = 0 THEN st ELSE right(f[k - 1], b)]

\* What is left of the changes is appended.
LEMMA RestRightIs ==
  ASSUME NEW a, NEW n, NEW b, NEW m, Inputs(a, n, b, m), NEW st, Merging(st, st.last_slot, a, n, b, m),
         st.ap = n + 1
  PROVE  /\ Merging(RestRight(st, b), st.last_slot, a, n, b, m)
         /\ RestRight(st, b).ap = n + 1 /\ RestRight(st, b).bp = m + 1
         /\ RestRight(st, b).last_slot = st.last_slot
<1> DEFINE end == m + 1
           N == end - st.bp
           V == Updates
           H(k) == {u \in V : RestOfRight(u, k, st, a, n, b, m)}
           Ends == [k \in 0..N |-> H(k)]
           round == [y \in (1..N) \X V |-> right(y[2], b)]
           t == CHOOSE f : RightRounds(f, st, b, end)
<1>1. n \in Nat /\ m \in Nat /\ st.bp \in 1..(m + 1) /\ N \in Nat /\ st \in V /\ Len(b) + 1 = end
  <2>1. n \in Nat /\ m \in Nat /\ st.bp \in 1..(m + 1) /\ st \in V
    BY MergingIs
  <2>2. Len(b) = m
    BY DEF Inputs
  <2> QED  BY <2>1, <2>2
<1>2. Ends \in Maps(0..N, SUBSET V)
  <2> HIDE DEF V
  <2> QED  BY DEF Maps
<1>3. st \in Ends[0]
  <2>1. RestOfRight(st, 0, st, a, n, b, m)
    BY <1>1 DEF RestOfRight
  <2>2. 0 \in 0..N
    BY <1>1
  <2> HIDE DEF V
  <2> QED  BY <1>1, <2>1, <2>2
<1>4. ASSUME NEW k \in 1..N, NEW u \in H(k - 1) PROVE right(u, b) \in H(k)
  <2>1. RestOfRight(u, k - 1, st, a, n, b, m)
    OBVIOUS
  <2>2. RestOfRight(right(u, b), k, st, a, n, b, m)
    <3>1. Inputs(a, n, b, m) /\ Merging(st, st.last_slot, a, n, b, m)
      OBVIOUS
    <3>2. k \in 1..((m + 1) - st.bp)
      BY <1>1
    <3> QED  BY ONLY <2>1, <3>1, <3>2, RestRightGoesOn, SMTT(60)
  <2>3. right(u, b) \in V
    BY <2>2 DEF RestOfRight, Merging
  <2> QED  BY <2>2, <2>3
<1>5. Leads(N, Ends, round)
  <2> SUFFICES ASSUME NEW k \in 1..N, NEW u \in Ends[k - 1] PROVE round[<<k, u>>] \in Ends[k]
    BY DEF Leads
  <2>1. Ends[k - 1] = H(k - 1) /\ Ends[k] = H(k)
    <3>1. k \in 0..N /\ k - 1 \in 0..N
      BY <1>1
    <3> HIDE DEF H, N
    <3> QED  BY <3>1
  <2>2. u \in V
    BY <2>1
  <2>3. round[<<k, u>>] = right(u, b)
    <3> HIDE DEF V, N
    <3> QED  BY <2>2
  <2> HIDE DEF H, Ends, round
  <2> QED  BY <1>4, <2>1, <2>3
<1>6. \E f : IsLoop(f, N, Ends, round, st)
  <2> HIDE DEF Ends, round, V, N
  <2> QED  BY ONLY <1>1, <1>2, <1>3, <1>5, LoopExists, SMTT(60)
<1>7. PICK f : /\ \A k \in 0..N : f[k] \in Ends[k]
               /\ f = [k \in 0..N |-> IF k = 0 THEN st ELSE round[<<k, f[k - 1]>>]]
  BY <1>6 DEF IsLoop
<1>8. RightRounds(f, st, b, end)
  <2>1. ASSUME NEW k \in 0..N, k # 0 PROVE round[<<k, f[k - 1]>>] = right(f[k - 1], b)
    <3>1. k \in 1..N /\ k - 1 \in 0..N
      BY <1>1, <2>1
    <3> HIDE DEF V, N
    <3>2. f[k - 1] \in V
      BY <1>7, <3>1
    <3> QED  BY <3>1, <3>2
  <2>2. [k \in 0..N |-> IF k = 0 THEN st ELSE round[<<k, f[k - 1]>>]]
          = [k \in 0..N |-> IF k = 0 THEN st ELSE right(f[k - 1], b)]
    <3> HIDE DEF round, N
    <3> QED  BY <2>1
  <2>3. f = [k \in 0..N |-> IF k = 0 THEN st ELSE right(f[k - 1], b)]
    <3> HIDE DEF round, N
    <3> QED  BY <1>7, <2>2
  <2> HIDE DEF end
  <2> QED  BY <2>3, Zenon DEF RightRounds
<1>9. t = [k \in 0..N |-> IF k = 0 THEN st ELSE right(t[k - 1], b)]
  <2>1. RightRounds(t, st, b, end)
    <3> HIDE DEF end
    <3> QED  BY <1>8
  <2> HIDE DEF t, end
  <2> QED  BY <2>1, Zenon DEF RightRounds
<1>10. RestRight(st, b) = t[N]
  <2> HIDE DEF end
  <2>1. RestRight(st, b) = (CHOOSE g : RightRounds(g, st, b, Len(b) + 1))[(Len(b) + 1) - st.bp]
    BY Zenon DEF RestRight, RightRounds
  <2> QED  BY <1>1, <2>1
<1> HIDE DEF t
<1>11. \A k \in 0..N : t[k] = IF k = 0 THEN st ELSE right(t[k - 1], b)
  <2> HIDE DEF N
  <2> QED  BY <1>9, Zenon
<1>12. \A k \in 0..N : t[k] \in Ends[k]
  <2>1. t[0] \in Ends[0]
    <3>1. 0 \in 0..N
      BY <1>1
    <3> HIDE DEF Ends, N
    <3> QED  BY <1>3, <1>11, <3>1
  <2>2. Keeps(t, N, Ends)
    <3> SUFFICES ASSUME NEW k \in 1..N, t[k - 1] \in Ends[k - 1] PROVE t[k] \in Ends[k]
      BY DEF Keeps
    <3>1. k \in 0..N /\ k - 1 \in 0..N /\ k # 0
      BY <1>1
    <3> HIDE DEF N
    <3>2. t[k] = right(t[k - 1], b)
      BY <1>11, <3>1
    <3> HIDE DEF H
    <3>3. Ends[k - 1] = H(k - 1) /\ Ends[k] = H(k)
      BY <3>1
    <3> HIDE DEF Ends
    <3> QED  BY <1>4, <3>2, <3>3
  <2> HIDE DEF Ends, N
  <2> QED  BY <1>1, <2>1, <2>2, LoopKeeps
<1>13. RestOfRight(t[N], N, st, a, n, b, m)
  <2>1. N \in 0..N
    BY <1>1
  <2> HIDE DEF N
  <2> QED  BY <1>12, <2>1
<1>14. st.bp + N = m + 1
  BY <1>1
<1> HIDE DEF N
<1> QED
  BY <1>10, <1>13, <1>14 DEF RestOfRight
\* A vector updated is sorted, and it stands for the sum of the two maps.
Updated(r, a, b) ==
    /\ r \in Seq(Elements) /\ Sorted(r, Len(r))
    /\ \A i \in 1..Len(r) : r[i][2] # 0
    /\ \A k : ValueAt(r, k) = Sum(a, b, k)

LEMMA MergedIsTwoRuns ==
  ASSUME NEW a, NEW n, NEW b, NEW m, Inputs(a, n, b, m), NEW st, NEW last, last = st.last_slot,
         Merging(st, last, a, n, b, m), st.ap = n + 1
  PROVE  TwoRuns(st.a, last, Len(st.a)) /\ last \in 1..(Len(st.a) + 1)
<1> DEFINE z == st.a
           N == Len(st.a)
<1>1. n \in Nat /\ N \in Nat /\ last \in 1..(n + 1) /\ last \in last..(N + 1) /\ z \in Seq(Elements)
  <2>1. n \in Nat /\ N \in Nat /\ last \in 1..st.ap /\ last \in last..(N + 1) /\ st \in Updates
    BY MergingIs
  <2> QED  BY <2>1 DEF Updates
<1>2. /\ Run(z, 1, last - 1) /\ Run(z, last, N)
      /\ \A p \in 1..(last - 1) : Has(a, z[p][1], n)
      /\ \A p \in last..N : ~Has(a, z[p][1], n)
  <2>1. (n + 1) - 1 = n
    BY <1>1
  <2> QED  BY <2>1 DEF Merging, Merged
<1>3. \A i \in 1..(last - 1), j \in last..N : z[i][1] # z[j][1]
  BY <1>2
<1>4. \A i \in 1..N : z[i][1] \in Int
  BY <1>1 DEF Elements
<1> QED
  BY <1>1, <1>2, <1>3, <1>4 DEF TwoRuns

LEMMA UpdateIs ==
  ASSUME NEW a, NEW n, NEW b, NEW m, Inputs(a, n, b, m)
  PROVE  Updated(monotonic_vector_update(a, b), a, b)
<1> DEFINE met == Merge(a, b)
           kept == RestLeft(met, n + 1)
           all == RestRight(Compact(kept), b)
           last == kept.last_slot
           z == all.a
           N == Len(z)
           r == monotonic_join_v2(z, last)
<1>1. n \in Nat /\ m \in Nat /\ n = Len(a) /\ m = Len(b)
  BY DEF Inputs, Sorted
<1>2. monotonic_vector_update(a, b) = r
  BY <1>1 DEF monotonic_vector_update
<1>3. Merging(met, n + 1, a, n, b, m) /\ (met.ap = n + 1 \/ met.bp = m + 1)
  BY MergeIs
<1> HIDE DEF met
<1>4. Merging(kept, n + 1, a, n, b, m) /\ kept.ap = n + 1
  BY <1>3, RestLeftIs
<1> HIDE DEF kept
<1>5. /\ Merging(Compact(kept), Compact(kept).last_slot, a, n, b, m)
      /\ Compact(kept).ap = n + 1 /\ Compact(kept).last_slot = last
  BY <1>4, CompactIs
<1>6. /\ Merging(all, last, a, n, b, m) /\ all.ap = n + 1 /\ all.bp = m + 1
      /\ all.last_slot = last
  <2> DEFINE c == Compact(kept)
  <2>1. Merging(c, c.last_slot, a, n, b, m) /\ c.ap = n + 1 /\ c.last_slot = last
    BY <1>5
  <2> HIDE DEF c, last
  <2>2. /\ Merging(RestRight(c, b), c.last_slot, a, n, b, m)
        /\ RestRight(c, b).ap = n + 1 /\ RestRight(c, b).bp = m + 1
        /\ RestRight(c, b).last_slot = c.last_slot
    BY <2>1, RestRightIs
  <2> QED  BY <2>1, <2>2 DEF c
<1> HIDE DEF all, last
<1>7. TwoRuns(z, last, N) /\ last \in 1..(N + 1)
  BY <1>6, MergedIsTwoRuns
<1>8. z \in Seq(Elements) /\ N \in Nat /\ z \in Maps(1..N, Elements)
  <2>1. z \in Seq(Elements)
    BY <1>6 DEF Merging, Updates
  <2> HIDE DEF z
  <2>2. N \in Nat /\ Len(z) = N
    BY <2>1
  <2> HIDE DEF N
  <2> QED  BY <2>1, <2>2, MapsAreSequences
<1>9. /\ \A p \in 1..N : z[p][2] # 0 /\ z[p][2] = Sum(a, b, z[p][1])
      /\ \A k : Sum(a, b, k) # 0 /\ (Has(a, k, n) \/ Has(b, k, m)) => \E p \in 1..N : z[p][1] = k
  <2>1. \A p \in 1..N : p < last \/ p >= last
    BY <1>7
  <2>2. (n + 1) - 1 = n /\ (m + 1) - 1 = m
    BY <1>1
  <2>3. Merged(z, N, n + 1, m + 1, last, last, a, n, b, m)
    BY <1>6 DEF Merging
  <2> HIDE DEF z, N
  <2> QED  BY <2>1, <2>2, <2>3 DEF Merged
<1> HIDE DEF z, N
<1>10. /\ r \in Maps(1..N, Elements) /\ Run(r, 1, N)
       /\ \A k \in 1..N : \E i \in 1..N : r[k] = z[i]
       /\ \A i \in 1..N : \E k \in 1..N : r[k] = z[i]
  BY <1>7, <1>8, JoinSorts
<1> HIDE DEF r
<1>11. r \in Seq(Elements) /\ Len(r) = N
  BY <1>8, <1>10, MapsAreSequences
<1>12. Sorted(r, N)
  <2>1. \A q \in 1..N : r[q][1] \in Int /\ r[q][2] \in Int
    BY <1>11 DEF Elements
  <2> QED  BY <1>8, <1>10, <2>1 DEF Sorted
<1>13. \A i \in 1..N : r[i][2] # 0 /\ r[i][2] = Sum(a, b, r[i][1])
  <2> SUFFICES ASSUME NEW i \in 1..N PROVE r[i][2] # 0 /\ r[i][2] = Sum(a, b, r[i][1])
    OBVIOUS
  <2>1. PICK p \in 1..N : r[i] = z[p]
    BY <1>10
  <2>2. z[p][2] # 0 /\ z[p][2] = Sum(a, b, z[p][1])
    BY <1>9
  <2> QED  BY <2>1, <2>2
<1>14. /\ \A i \in 1..N : ValueAt(r, r[i][1]) = r[i][2]
       /\ \A k : ~Has(r, k, N) => ValueAt(r, k) = 0
  BY <1>11, <1>12, ValueAtIs
<1>15. ASSUME NEW k PROVE ValueAt(r, k) = Sum(a, b, k)
  <2>1. CASE Has(r, k, N)
    <3>1. PICK i \in 1..N : r[i][1] = k
      BY <2>1 DEF Has
    <3>2. ValueAt(r, r[i][1]) = r[i][2] /\ r[i][2] = Sum(a, b, r[i][1])
      BY <1>13, <1>14
    <3> QED  BY <3>1, <3>2
  <2>2. CASE ~Has(r, k, N)
    <3>1. ValueAt(r, k) = 0
      BY <1>14, <2>2
    <3>2. ASSUME Sum(a, b, k) # 0 PROVE FALSE
      <4>1. Has(a, k, n) \/ Has(b, k, m)
        BY <3>2, SumIs
      <4>2. PICK p \in 1..N : z[p][1] = k
        BY <1>9, <3>2, <4>1
      <4>3. PICK i \in 1..N : r[i] = z[p]
        BY <1>10
      <4>4. r[i][1] = k
        BY <4>2, <4>3
      <4> QED  BY <2>2, <4>4 DEF Has
    <3> QED  BY <3>1, <3>2
  <2> QED  BY <2>1, <2>2
<1> QED
  BY <1>2, <1>11, <1>12, <1>13, <1>15 DEF Updated

LEMMA AscendingIsSorted ==
  ASSUME NEW s \in Seq(Elements)
  PROVE  Ascending(s) <=> Sorted(s, Len(s))
<1>1. DOMAIN s = 1..Len(s) /\ Len(s) \in Nat
  OBVIOUS
<1>2. \A q \in 1..Len(s) : s[q][1] \in Int /\ s[q][2] \in Int
  BY DEF Elements
<1> QED
  BY <1>1, <1>2 DEF Ascending, Sorted, Run

-----------------------------------------------------------------------------
(* The join that divides: where a merge cuts its runs                      *)

\* The keys of two sorted runs.
Keyed(s, a, b, c) ==
    /\ a \in Nat /\ b \in Nat /\ c \in Nat /\ 1 <= a /\ a <= b /\ b <= c
    /\ \A p \in a..(c - 1) : s[p][1] \in Int
    /\ AreRuns(s, a, b, c)

\* Of the first i, t are of the left run: no later one is before them.
Cut(s, a, b, c, i, t) ==
    /\ t \in Nat /\ t <= b - a /\ t <= i /\ i - t <= c - b
    /\ t = 0 \/ i - t = c - b \/ s[a + t - 1][1] <= s[b + i - t][1]
    /\ i - t = 0 \/ t = b - a \/ s[b + i - t - 1][1] < s[a + t][1]

\* Each run is sorted, and its keys are numbers.
LEMMA RunsAre ==
  ASSUME NEW s, NEW a, NEW b, NEW c, Keyed(s, a, b, c)
  PROVE  /\ \A i, j \in a..(b - 1) : i <= j => s[i][1] <= s[j][1]
         /\ \A i, j \in b..(c - 1) : i <= j => s[i][1] <= s[j][1]
         /\ \A i \in a..(c - 1) : s[i][1] \in Int
BY DEF Keyed, AreRuns

\* What the next round takes makes the next cut.
LEMMA CutGoesOn ==
  ASSUME NEW s, NEW a, NEW b, NEW c, Keyed(s, a, b, c), NEW i \in 1..(c - a), NEW t,
         Cut(s, a, b, c, i - 1, t)
  PROVE  Cut(s, a, b, c, i, TakenNext(s, a, b, c, i, t))
<1> DEFINE p == a + t
           q == b + (i - 1) - t
<1>1. /\ a \in Nat /\ b \in Nat /\ c \in Nat /\ 1 <= a /\ a <= b /\ b <= c
      /\ t \in Nat /\ t <= b - a /\ t <= i - 1 /\ (i - 1) - t <= c - b /\ i \in Nat /\ i <= c - a
      /\ t = 0 \/ (i - 1) - t = c - b \/ s[a + t - 1][1] <= s[b + (i - 1) - t][1]
      /\ (i - 1) - t = 0 \/ t = b - a \/ s[b + (i - 1) - t - 1][1] < s[a + t][1]
  BY DEF Keyed, Cut
<1>0. a \in Int /\ b \in Int /\ c \in Int /\ t \in Int /\ i \in Int
  BY <1>1
<1>2. p \in a..b /\ q \in b..c
  BY <1>1
<1>3. CASE p # b /\ (q = c \/ s[p][1] <= s[q][1])
  <2>1. TakenNext(s, a, b, c, i, t) = t + 1
    BY <1>3 DEF TakenNext
  <2>2. t + 1 \in Nat /\ t + 1 <= b - a /\ t + 1 <= i /\ i - (t + 1) <= c - b
    BY <1>1, <1>3
  <2>3. i - (t + 1) = c - b \/ s[a + (t + 1) - 1][1] <= s[b + i - (t + 1)][1]
    <3>1. a + (t + 1) - 1 = p /\ b + i - (t + 1) = q
      BY ONLY <1>0
    <3> QED  BY <1>1, <1>3, <3>1
  <2>4. i - (t + 1) = 0 \/ t + 1 = b - a \/ s[b + i - (t + 1) - 1][1] < s[a + (t + 1)][1]
    <3>1. SUFFICES ASSUME i - (t + 1) # 0, t + 1 # b - a
                   PROVE  s[b + i - (t + 1) - 1][1] < s[a + (t + 1)][1]
      OBVIOUS
    <3>2. /\ b + i - (t + 1) - 1 = q - 1 /\ b + (i - 1) - t - 1 = q - 1 /\ a + (t + 1) = p + 1
          /\ q - 1 \in b..(c - 1) /\ p \in a..(b - 1) /\ p + 1 \in a..(b - 1)
          /\ q - 1 \in a..(c - 1) /\ p \in a..(c - 1) /\ p + 1 \in a..(c - 1) /\ p <= p + 1
      BY <1>1, <1>2, <1>3, <3>1
    <3>3. s[q - 1][1] < s[p][1]
      BY <1>1, <1>3, <3>1, <3>2
    <3>4. s[p][1] <= s[p + 1][1]
      BY <3>2, RunsAre
    <3>5. s[q - 1][1] \in Int /\ s[p][1] \in Int /\ s[p + 1][1] \in Int
      BY <3>2, RunsAre
    <3> HIDE DEF p, q
    <3>6. s[q - 1][1] < s[p + 1][1]
      BY ONLY <3>3, <3>4, <3>5
    <3> QED  BY <3>2, <3>6
  <2> QED  BY <2>1, <2>2, <2>3, <2>4 DEF Cut
<1>4. CASE p = b \/ (q # c /\ ~(s[p][1] <= s[q][1]))
  <2>1. TakenNext(s, a, b, c, i, t) = t
    BY <1>4 DEF TakenNext
  <2>2. t <= i /\ i - t <= c - b
    BY <1>1, <1>2, <1>4
  <2>3. t = 0 \/ i - t = c - b \/ s[a + t - 1][1] <= s[b + i - t][1]
    <3>1. SUFFICES ASSUME t # 0, i - t # c - b PROVE s[a + t - 1][1] <= s[b + i - t][1]
      OBVIOUS
    <3>2. /\ a + t - 1 = p - 1 /\ b + i - t = q + 1
          /\ q \in b..(c - 1) /\ q + 1 \in b..(c - 1) /\ p - 1 \in a..(b - 1)
          /\ q \in a..(c - 1) /\ q + 1 \in a..(c - 1) /\ p - 1 \in a..(c - 1) /\ q <= q + 1
          /\ (i - 1) - t # c - b
      BY <1>1, <1>2, <1>4, <2>2, <3>1
    <3>3. s[p - 1][1] <= s[q][1]
      BY <1>1, <3>1, <3>2
    <3>4. s[q][1] <= s[q + 1][1]
      BY <3>2, RunsAre
    <3>5. s[q][1] \in Int /\ s[q + 1][1] \in Int /\ s[p - 1][1] \in Int
      BY <3>2, RunsAre
    <3> HIDE DEF p, q
    <3>6. s[p - 1][1] <= s[q + 1][1]
      BY ONLY <3>3, <3>4, <3>5
    <3> QED  BY <3>2, <3>6
  <2>4. i - t = 0 \/ t = b - a \/ s[b + i - t - 1][1] < s[a + t][1]
    <3>1. SUFFICES ASSUME t # b - a PROVE s[b + i - t - 1][1] < s[a + t][1]
      OBVIOUS
    <3>2. b + i - t - 1 = q /\ p # b
      <4>1. b + i - t - 1 = q
        BY ONLY <1>0
      <4> QED  BY <1>0, <3>1, <4>1
    <3>4. q \in a..(c - 1) /\ p \in a..(c - 1)
      <4>1. a <= b /\ q # c
        BY <1>1, <1>4, <3>2
      <4> HIDE DEF p, q
      <4> QED  BY <1>0, <1>2, <3>2, <4>1
    <3>3. s[q][1] \in Int /\ s[p][1] \in Int /\ ~(s[p][1] <= s[q][1])
      BY <1>4, <3>2, <3>4, RunsAre
    <3> HIDE DEF q
    <3> QED  BY <3>2, <3>3
  <2> QED  BY <1>1, <2>1, <2>2, <2>3, <2>4 DEF Cut
<1> QED
  BY <1>3, <1>4

\* Of two cuts, neither has more of one run and less of the other.
LEMMA CutsAreNested ==
  ASSUME NEW s, NEW a, NEW b, NEW c, Keyed(s, a, b, c), NEW i \in Nat, NEW j \in Nat, NEW v, NEW w,
         Cut(s, a, b, c, i, v), Cut(s, a, b, c, j, w)
  PROVE  ~(v < w /\ j - w < i - v)
<1> SUFFICES ASSUME v < w, j - w < i - v PROVE FALSE
  OBVIOUS
<1>1. a \in Nat /\ b \in Nat /\ c \in Nat /\ 1 <= a /\ a <= b /\ b <= c
  BY DEF Keyed
<1>2. /\ v \in Nat /\ v <= b - a /\ v <= i /\ i - v <= c - b
      /\ w \in Nat /\ w <= b - a /\ w <= j /\ j - w <= c - b
      /\ w = 0 \/ j - w = c - b \/ s[a + w - 1][1] <= s[b + j - w][1]
      /\ i - v = 0 \/ v = b - a \/ s[b + i - v - 1][1] < s[a + v][1]
  BY DEF Cut
<1>3. /\ w # 0 /\ j - w # c - b /\ i - v # 0 /\ v # b - a
      /\ a + v \in a..(b - 1) /\ a + w - 1 \in a..(b - 1) /\ a + v <= a + w - 1
      /\ b + j - w \in b..(c - 1) /\ b + i - v - 1 \in b..(c - 1) /\ b + j - w <= b + i - v - 1
  BY <1>1, <1>2
<1> DEFINE p == a + v
           q == a + w - 1
           k == b + j - w
           l == b + i - v - 1
<1>4. s[p][1] <= s[q][1] /\ s[k][1] <= s[l][1]
  BY <1>3, RunsAre
<1>5. s[q][1] <= s[k][1] /\ s[l][1] < s[p][1]
  BY <1>2, <1>3
<1>6. p \in a..(c - 1) /\ q \in a..(c - 1) /\ k \in a..(c - 1) /\ l \in a..(c - 1)
  BY <1>1, <1>3
<1> HIDE DEF p, q, k, l
<1>7. s[p][1] \in Int /\ s[q][1] \in Int /\ s[k][1] \in Int /\ s[l][1] \in Int
  BY <1>6, RunsAre
<1> QED
  BY ONLY <1>4, <1>5, <1>7

\* There is one cut, and what is taken is it.
LEMMA CutIsUnique ==
  ASSUME NEW s, NEW a, NEW b, NEW c, Keyed(s, a, b, c), NEW i \in Nat, NEW t, NEW u,
         Cut(s, a, b, c, i, t), Cut(s, a, b, c, i, u)
  PROVE  t = u
<1>1. t \in Nat /\ u \in Nat
  BY DEF Cut
<1>2. ~(t < u /\ i - u < i - t) /\ ~(u < t /\ i - t < i - u)
  BY CutsAreNested
<1> QED
  BY <1>1, <1>2

\* What the loop has taken after i rounds is the cut at i.
LEMMA TakenCuts ==
  ASSUME NEW s, NEW a, NEW b, NEW c, Keyed(s, a, b, c)
  PROVE  \A i \in 0..(c - a) : Cut(s, a, b, c, i, Taken(s, a, b, c)[i])
<1> DEFINE t == Taken(s, a, b, c)
           P == {i \in Nat : i <= c - a => Cut(s, a, b, c, i, t[i])}
<1>1. a \in Nat /\ b \in Nat /\ c \in Nat /\ 1 <= a /\ a <= b /\ b <= c
  BY DEF Keyed
<1>2. t[0] = 0 /\ \A i \in 1..(c - a) : t[i] = TakenNext(s, a, b, c, i, t[i - 1])
  BY <1>1, TakenIs
<1> HIDE DEF t
<1>3. Cut(s, a, b, c, 0, t[0])
  BY <1>1, <1>2 DEF Cut
<1>4. ASSUME NEW i \in P PROVE i + 1 \in P
  <2>1. ASSUME i + 1 <= c - a PROVE Cut(s, a, b, c, i + 1, t[i + 1])
    <3>1. i + 1 \in 1..(c - a) /\ (i + 1) - 1 = i /\ i <= c - a
      BY <1>1, <2>1
    <3>2. Cut(s, a, b, c, (i + 1) - 1, t[i])
      BY <3>1
    <3>3. t[i + 1] = TakenNext(s, a, b, c, i + 1, t[i])
      BY <1>2, <3>1
    <3> HIDE DEF P
    <3> QED  BY <3>1, <3>2, <3>3, CutGoesOn
  <2> QED  BY <2>1
<1>5. P \in SUBSET Nat /\ 0 \in P
  BY <1>3
<1> HIDE DEF P
<1>6. \A i \in Nat : i \in P
  BY <1>4, <1>5, SetInduction
<1>7. \A i \in 0..(c - a) : i \in Nat /\ i <= c - a
  BY <1>1
<1> QED
  BY <1>6, <1>7 DEF P, t

-----------------------------------------------------------------------------
(* The join that divides: what the merge of two runs is                    *)

\* What a join is called with, as Windows has it.
Window(s, a, b, c) ==
    /\ s \in Seq(Elements) /\ a \in Nat /\ b \in Nat /\ c \in Nat
    /\ 1 <= a /\ a <= b /\ b <= c /\ c <= Len(s) + 1
    /\ AreRuns(s, a, b, c)

\* The two runs are merged, and the rest is as it was.
InOrder(s, a, b, c) == [k \in 1..Len(s) |->
    IF a <= k /\ k < c THEN s[MergeOrder(s, a, b, c)[k - a + 1]] ELSE s[k]]

\* Between two cuts, one element is taken.
Takes(y, s, a, b, c, k, u, v) ==
    /\ u \in Nat
    /\ \/ v = u + 1 /\ a + u < b /\ y[k] = s[a + u]
       \/ v = u /\ b + (k - a) - u \in b..(c - 1) /\ y[k] = s[b + (k - a) - u]

Merges(y, s, a, b, c) ==
    /\ y \in Seq(Elements) /\ Len(y) = Len(s)
    /\ \A k \in 1..Len(s) : k < a \/ c <= k => y[k] = s[k]
    /\ \A k \in a..(c - 1) : \A u, v :
         Cut(s, a, b, c, k - a, u) /\ Cut(s, a, b, c, k - a + 1, v) => Takes(y, s, a, b, c, k, u, v)

\* The elements of a window have keys.
LEMMA WindowIsKeyed ==
  ASSUME NEW s, NEW a, NEW b, NEW c, Window(s, a, b, c)
  PROVE  /\ Keyed(s, a, b, c) /\ Len(s) \in Nat /\ DOMAIN s = 1..Len(s)
         /\ \A p \in 1..Len(s) : s[p] \in Elements
<1>1. /\ s \in Seq(Elements) /\ a \in Nat /\ b \in Nat /\ c \in Nat /\ Len(s) \in Nat
      /\ 1 <= a /\ a <= b /\ b <= c /\ c <= Len(s) + 1 /\ AreRuns(s, a, b, c) /\ DOMAIN s = 1..Len(s)
  BY DEF Window
<1>2. \A p \in 1..Len(s) : s[p] \in Elements /\ s[p][1] \in Int
  BY <1>1 DEF Elements
<1>3. \A p \in a..(c - 1) : p \in 1..Len(s)
  BY <1>1
<1> QED
  BY <1>1, <1>2, <1>3 DEF Keyed

\* The order of the merge is that of its cuts.
LEMMA InOrderMerges ==
  ASSUME NEW s, NEW a, NEW b, NEW c, Window(s, a, b, c)
  PROVE  Merges(InOrder(s, a, b, c), s, a, b, c)
<1> DEFINE N == Len(s)
           t == Taken(s, a, b, c)
           o == MergeOrder(s, a, b, c)
           y == InOrder(s, a, b, c)
<1>1. /\ Keyed(s, a, b, c) /\ N \in Nat /\ \A p \in 1..N : s[p] \in Elements
  BY WindowIsKeyed
<1>2. /\ a \in Nat /\ b \in Nat /\ c \in Nat /\ 1 <= a /\ a <= b /\ b <= c /\ c <= N + 1
  BY DEF Window
<1>3. /\ \A i \in 0..(c - a) : t[i] \in Nat /\ t[i] <= b - a /\ t[i] <= i /\ i - t[i] <= c - b
      /\ \A i \in 1..(c - a) : t[i] = TakenNext(s, a, b, c, i, t[i - 1])
  BY <1>2, TakenIs
<1>4. \A i \in 0..(c - a) : Cut(s, a, b, c, i, t[i])
  BY <1>1, TakenCuts
<1>5. o = [i \in 1..(c - a) |-> IF t[i] # t[i - 1] THEN a + t[i - 1] ELSE b + (i - 1) - t[i - 1]]
  BY DEF MergeOrder
<1>6. y = [k \in 1..N |-> IF a <= k /\ k < c THEN s[o[k - a + 1]] ELSE s[k]]
  BY DEF InOrder
<1> HIDE DEF y, o, t, N
<1>7. ASSUME NEW k \in a..(c - 1)
      PROVE  k \in 1..N /\ Takes(y, s, a, b, c, k, t[k - a], t[k - a + 1])
  <2>1. /\ k \in 1..N /\ k - a \in 0..(c - a) /\ k - a + 1 \in 0..(c - a) /\ k - a + 1 \in 1..(c - a)
        /\ (k - a + 1) - 1 = k - a /\ a <= k /\ k < c
    BY <1>1, <1>2
  <2>2. PICK u : u = t[k - a]
    OBVIOUS
  <2>3. PICK v : v = t[k - a + 1]
    OBVIOUS
  <2>4. o[k - a + 1] = IF v # u THEN a + u ELSE b + (k - a) - u
    BY <1>5, <2>1, <2>2, <2>3
  <2>5. y[k] = s[o[k - a + 1]]
    BY <1>6, <2>1
  <2>6. /\ u \in Nat /\ u <= b - a /\ u <= k - a /\ (k - a) - u <= c - b
        /\ v \in Nat /\ v <= b - a /\ v <= k - a + 1 /\ (k - a + 1) - v <= c - b
    BY <1>3, <2>1, <2>2, <2>3
  <2>7. v = u + 1 \/ v = u
    <3>1. v = TakenNext(s, a, b, c, k - a + 1, u)
      BY <1>3, <2>1, <2>2, <2>3
    <3> QED  BY <3>1 DEF TakenNext
  <2>8. CASE v = u + 1
    <3>1. v # u /\ a + u < b
      BY <1>2, <2>6, <2>8
    <3> QED  BY <2>1, <2>2, <2>3, <2>4, <2>5, <2>6, <2>8, <3>1 DEF Takes
  <2>9. CASE v = u
    <3>1. b + (k - a) - u \in b..(c - 1)
      BY <1>2, <2>1, <2>6, <2>9
    <3> QED  BY <2>1, <2>2, <2>3, <2>4, <2>5, <2>6, <2>9, <3>1 DEF Takes
  <2> QED  BY <2>7, <2>8, <2>9
<1>8. ASSUME NEW k \in 1..N, k < a \/ c <= k PROVE y[k] = s[k]
  BY <1>2, <1>6, <1>8
<1>9. y \in Seq(Elements) /\ Len(y) = N
  <2>1. ASSUME NEW k \in 1..N PROVE y[k] \in Elements
    <3>1. CASE k \in a..(c - 1)
      <4>1. Takes(y, s, a, b, c, k, t[k - a], t[k - a + 1])
        BY <1>7, <3>1
      <4>2. PICK u : u = t[k - a] /\ u \in Nat
        BY <4>1 DEF Takes
      <4>3. \/ a + u < b /\ y[k] = s[a + u]
            \/ b + (k - a) - u \in b..(c - 1) /\ y[k] = s[b + (k - a) - u]
        BY <4>1, <4>2 DEF Takes
      <4>4. CASE a + u < b /\ y[k] = s[a + u]
        <5>1. a + u \in 1..N
          BY <1>1, <1>2, <4>2, <4>4
        <5> QED  BY <1>1, <4>4, <5>1
      <4>5. CASE b + (k - a) - u \in b..(c - 1) /\ y[k] = s[b + (k - a) - u]
        <5>1. b + (k - a) - u \in 1..N
          BY <1>1, <1>2, <4>5
        <5> QED  BY <1>1, <4>5, <5>1
      <4> QED  BY <4>3, <4>4, <4>5
    <3>2. CASE ~(k \in a..(c - 1))
      <4>1. k < a \/ c <= k
        BY <1>1, <1>2, <3>2
      <4> QED  BY <1>1, <1>8, <4>1
    <3> QED  BY <3>1, <3>2
  <2>2. y \in Maps(1..N, Elements)
    BY <1>6, <2>1 DEF Maps
  <2> QED  BY <1>1, <2>2, MapsAreSequences
<1>10. ASSUME NEW k \in a..(c - 1), NEW u, NEW v,
              Cut(s, a, b, c, k - a, u), Cut(s, a, b, c, k - a + 1, v)
       PROVE  Takes(y, s, a, b, c, k, u, v)
  <2>1. /\ k - a \in 0..(c - a) /\ k - a + 1 \in 0..(c - a)
        /\ k - a \in Nat /\ k - a + 1 \in Nat
    BY <1>2
  <2>2. u = t[k - a] /\ v = t[k - a + 1]
    BY <1>1, <1>4, <1>10, <2>1, CutIsUnique
  <2> QED  BY <1>7, <2>2
<1> QED
  BY <1>8, <1>9, <1>10 DEF Merges, y, N

\* Sequences that agree everywhere.
LEMMA SameElements ==
  ASSUME NEW E, NEW y \in Seq(E), NEW z \in Seq(E), Len(y) = Len(z),
         \A k \in 1..Len(y) : y[k] = z[k]
  PROVE  y = z
OBVIOUS

\* A join returns early when the runs are in order, or one of them is empty.
LEMMA NothingToDo ==
  ASSUME NEW s, NEW a, NEW b, NEW c, Window(s, a, b, c),
         a = b \/ b = c \/ s[b - 1][1] <= s[b][1]
  PROVE  InOrder(s, a, b, c) = s
<1> DEFINE y == InOrder(s, a, b, c)
           N == Len(s)
           least(i) == IF i <= b - a THEN i ELSE b - a
<1>1. /\ Keyed(s, a, b, c) /\ N \in Nat /\ s \in Seq(Elements)
      /\ a \in Nat /\ b \in Nat /\ c \in Nat /\ 1 <= a /\ a <= b /\ b <= c /\ c <= N + 1
  BY WindowIsKeyed DEF Window
<1>2. Merges(y, s, a, b, c)
  BY InOrderMerges
<1> HIDE DEF y, N
<1>3. ASSUME NEW i \in 0..(c - a) PROVE Cut(s, a, b, c, i, least(i))
  <2>1. PICK t : t = least(i)
    OBVIOUS
  <2>2. t \in Nat /\ t <= b - a /\ t <= i /\ i - t <= c - b /\ (t = i \/ t = b - a)
    BY <1>1, <2>1
  <2>3. t = 0 \/ i - t = c - b \/ s[a + t - 1][1] <= s[b + i - t][1]
    <3>1. SUFFICES ASSUME t # 0, i - t # c - b PROVE s[a + t - 1][1] <= s[b + i - t][1]
      OBVIOUS
    <3> DEFINE p == a + t - 1
               q == b + i - t
    <3>2. /\ p \in a..(b - 1) /\ q \in b..(c - 1) /\ b - 1 \in a..(b - 1) /\ b \in b..(c - 1)
          /\ p <= b - 1 /\ b <= q /\ a # b /\ b # c
      BY <1>1, <2>2, <3>1
    <3>3. p \in a..(c - 1) /\ q \in a..(c - 1) /\ b - 1 \in a..(c - 1) /\ b \in a..(c - 1)
      BY <1>1, <3>2
    <3> HIDE DEF p, q
    <3>4. s[p][1] <= s[b - 1][1] /\ s[b][1] <= s[q][1] /\ s[b - 1][1] <= s[b][1]
      BY <1>1, <3>2, RunsAre
    <3>5. s[p][1] \in Int /\ s[q][1] \in Int /\ s[b - 1][1] \in Int /\ s[b][1] \in Int
      BY <1>1, <3>3, RunsAre
    <3>6. s[p][1] <= s[q][1]
      BY ONLY <3>4, <3>5
    <3> QED  BY <3>6 DEF p, q
  <2>4. i - t = 0 \/ t = b - a
    BY <2>2
  <2> HIDE DEF least
  <2> QED  BY <2>1, <2>2, <2>3, <2>4 DEF Cut
<1>4. ASSUME NEW k \in a..(c - 1) PROVE y[k] = s[k]
  <2>1. k - a \in 0..(c - a) /\ k - a + 1 \in 0..(c - a)
    BY <1>1
  <2>2. PICK u, v : u = least(k - a) /\ v = least(k - a + 1)
    OBVIOUS
  <2>3. /\ v = u + 1 => a + u = k
        /\ v = u => b + (k - a) - u = k
    BY <1>1, <2>1, <2>2
  <2> HIDE DEF least
  <2>4. Takes(y, s, a, b, c, k, u, v)
    BY <1>2, <1>3, <2>1, <2>2 DEF Merges
  <2> QED  BY <2>3, <2>4 DEF Takes
<1>5. \A k \in 1..N : k < a \/ c <= k => y[k] = s[k]
  BY <1>2 DEF Merges, N
<1>6. y \in Seq(Elements) /\ Len(y) = N
  BY <1>2 DEF Merges, N
<1>7. ASSUME NEW k \in 1..N PROVE y[k] = s[k]
  <2>1. k \in a..(c - 1) \/ k < a \/ c <= k
    BY <1>1
  <2> QED  BY <1>4, <1>5, <2>1
<1> QED
  BY <1>1, <1>6, <1>7, SameElements DEF y, N

\* What is in its place already need not be merged: p is the first of the left run that is
\* greater than the head of the right one, and from r on none is less than its end.
InPlace(s, a, b, c, p, r) ==
    /\ p \in a..(b - 1) /\ r \in (b + 1)..c
    /\ \A j \in a..(p - 1) : s[j][1] <= s[b][1]
    /\ \A j \in r..(c - 1) : s[j][1] >= s[b - 1][1]

\* The cuts of what is left are those of the whole, shifted by what is in its place.
LEMMA CutsInPlace ==
  ASSUME NEW s, NEW a, NEW b, NEW c, Keyed(s, a, b, c), NEW p, NEW r, InPlace(s, a, b, c, p, r)
  PROVE  /\ \A i \in 0..(p - a) : Cut(s, a, b, c, i, i)
         /\ \A i \in (r - a)..(c - a) : Cut(s, a, b, c, i, b - a)
         /\ \A i \in 0..(r - p) : \A t :
              Cut(s, p, b, r, i, t) => Cut(s, a, b, c, (p - a) + i, (p - a) + t)
<1>1. /\ a \in Nat /\ b \in Nat /\ c \in Nat /\ 1 <= a /\ a <= b /\ b <= c
      /\ p \in a..(b - 1) /\ r \in (b + 1)..c
  BY DEF Keyed, InPlace
<1>2. /\ \A j \in a..(p - 1) : s[j][1] <= s[b][1]
      /\ \A j \in r..(c - 1) : s[j][1] >= s[b - 1][1]
  BY DEF InPlace
<1>3. \A j \in a..(c - 1) : s[j][1] \in Int
  BY RunsAre
<1>4. ASSUME NEW i \in 0..(p - a) PROVE Cut(s, a, b, c, i, i)
  <2>1. i \in Nat /\ i <= b - a /\ i - i <= c - b /\ i - i = 0
    BY <1>1
  <2>2. ASSUME i # 0 PROVE s[a + i - 1][1] <= s[b + i - i][1]
    <3>1. a + i - 1 \in a..(p - 1) /\ b + i - i = b
      BY <1>1, <2>2
    <3> QED  BY <1>2, <3>1
  <2> QED  BY <2>1, <2>2 DEF Cut
<1>5. ASSUME NEW i \in (r - a)..(c - a) PROVE Cut(s, a, b, c, i, b - a)
  <2>1. b - a \in Nat /\ b - a <= i /\ i - (b - a) <= c - b /\ i \in Int
    BY <1>1
  <2>2. ASSUME i - (b - a) # c - b PROVE s[a + (b - a) - 1][1] <= s[b + i - (b - a)][1]
    <3>1. /\ b + i - (b - a) \in r..(c - 1) /\ a + (b - a) - 1 = b - 1
          /\ b + i - (b - a) \in a..(c - 1) /\ b - 1 \in a..(c - 1)
      BY <1>1, <2>1, <2>2
    <3> QED  BY <1>2, <1>3, <3>1
  <2> QED  BY <2>1, <2>2 DEF Cut
<1>6. ASSUME NEW i \in 0..(r - p), NEW t, Cut(s, p, b, r, i, t)
      PROVE  Cut(s, a, b, c, (p - a) + i, (p - a) + t)
  <2> DEFINE j == (p - a) + i
             u == (p - a) + t
  <2>1. /\ t \in Nat /\ t <= b - p /\ t <= i /\ i - t <= r - b
        /\ t = 0 \/ i - t = r - b \/ s[p + t - 1][1] <= s[b + i - t][1]
        /\ i - t = 0 \/ t = b - p \/ s[b + i - t - 1][1] < s[p + t][1]
    BY <1>6 DEF Cut
  <2>2. u \in Nat /\ u <= b - a /\ u <= j /\ j - u <= c - b /\ j - u = i - t
    BY <1>1, <2>1
  <2>3. u = 0 \/ j - u = c - b \/ s[a + u - 1][1] <= s[b + j - u][1]
    <3>1. SUFFICES ASSUME u # 0, j - u # c - b PROVE s[a + u - 1][1] <= s[b + j - u][1]
      OBVIOUS
    <3> DEFINE q == p + t - 1
               k == b + (i - t)
    <3>2. /\ a + u - 1 = q /\ b + j - u = k /\ b + i - t = k
          /\ q \in a..(b - 1) /\ k \in b..(c - 1) /\ q <= b - 1 /\ b <= k
          /\ b - 1 \in a..(b - 1) /\ b \in b..(c - 1)
      BY <1>1, <2>1, <2>2, <3>1
    <3>3. /\ q \in a..(c - 1) /\ k \in a..(c - 1) /\ b \in a..(c - 1) /\ b - 1 \in a..(c - 1)
          /\ t = 0 => q \in a..(p - 1)
          /\ i - t = r - b => k \in r..(c - 1)
      BY <1>1, <2>1, <3>2
    <3> HIDE DEF q, k, j, u
    <3>4. s[q][1] \in Int /\ s[k][1] \in Int /\ s[b][1] \in Int /\ s[b - 1][1] \in Int
      BY <1>3, <3>3
    <3>5. s[q][1] <= s[b - 1][1] /\ s[b][1] <= s[k][1]
      BY <3>2, RunsAre
    <3>6. CASE t = 0
      <4>1. s[q][1] <= s[b][1]
        BY <1>2, <3>3, <3>6
      <4> QED  BY <3>2, <3>4, <3>5, <4>1
    <3>7. CASE i - t = r - b
      <4>1. s[b - 1][1] <= s[k][1]
        BY <1>2, <3>3, <3>4, <3>7
      <4> QED  BY <3>2, <3>4, <3>5, <4>1
    <3>8. CASE s[p + t - 1][1] <= s[b + i - t][1]
      BY <3>2, <3>8 DEF q
    <3> QED  BY <2>1, <3>6, <3>7, <3>8
  <2>4. j - u = 0 \/ u = b - a \/ s[b + j - u - 1][1] < s[a + u][1]
    <3>1. b + j - u - 1 = b + i - t - 1 /\ a + u = p + t /\ (t = b - p => u = b - a)
      BY <1>1, <2>1
    <3> QED  BY <2>1, <2>2, <3>1
  <2> QED  BY <2>2, <2>3, <2>4 DEF Cut
<1> QED
  BY <1>4, <1>5, <1>6

\* The merge of what is left is the merge of all.
LEMMA RestInOrder ==
  ASSUME NEW s, NEW a, NEW b, NEW c, Window(s, a, b, c), NEW p, NEW r, InPlace(s, a, b, c, p, r)
  PROVE  Window(s, p, b, r) /\ InOrder(s, p, b, r) = InOrder(s, a, b, c)
<1> DEFINE y == InOrder(s, p, b, r)
           z == InOrder(s, a, b, c)
           N == Len(s)
<1>1. /\ Keyed(s, a, b, c) /\ N \in Nat /\ s \in Seq(Elements) /\ AreRuns(s, a, b, c)
      /\ a \in Nat /\ b \in Nat /\ c \in Nat /\ 1 <= a /\ a <= b /\ b <= c /\ c <= N + 1
      /\ p \in a..(b - 1) /\ r \in (b + 1)..c
  BY WindowIsKeyed DEF Window, InPlace
<1>2. Window(s, p, b, r)
  <2>1. p \in Nat /\ r \in Nat /\ 1 <= p /\ p <= b /\ b <= r /\ r <= N + 1
    BY <1>1
  <2>2. \A i \in p..(r - 1) : i \in a..(c - 1)
    BY <1>1
  <2>3. AreRuns(s, p, b, r)
    BY <1>1, <2>2 DEF AreRuns
  <2> QED  BY <1>1, <2>1, <2>3 DEF Window
<1>3. Keyed(s, p, b, r) /\ Merges(y, s, p, b, r) /\ Merges(z, s, a, b, c)
  BY <1>2, WindowIsKeyed, InOrderMerges
<1> HIDE DEF y, z, N
<1>4. /\ \A i \in 0..(p - a) : Cut(s, a, b, c, i, i)
      /\ \A i \in (r - a)..(c - a) : Cut(s, a, b, c, i, b - a)
      /\ \A i \in 0..(r - p) : \A t :
           Cut(s, p, b, r, i, t) => Cut(s, a, b, c, (p - a) + i, (p - a) + t)
  BY <1>1, CutsInPlace
<1>5. /\ y \in Seq(Elements) /\ Len(y) = N /\ z \in Seq(Elements) /\ Len(z) = N
      /\ \A k \in 1..N : k < p \/ r <= k => y[k] = s[k]
      /\ \A k \in 1..N : k < a \/ c <= k => z[k] = s[k]
  BY <1>3 DEF Merges, N
<1>6. ASSUME NEW k \in a..(c - 1), NEW u, NEW v,
             Cut(s, a, b, c, k - a, u), Cut(s, a, b, c, k - a + 1, v)
      PROVE  Takes(z, s, a, b, c, k, u, v)
  BY <1>3, <1>6 DEF Merges
<1>7. ASSUME NEW k \in 1..N PROVE y[k] = z[k]
  <2>1. CASE k < a \/ c <= k
    <3>1. k < p \/ r <= k
      BY <1>1, <2>1
    <3> QED  BY <1>5, <2>1, <3>1
  <2>2. CASE a <= k /\ k < p
    <3>1. k \in a..(c - 1) /\ k - a \in 0..(p - a) /\ k - a + 1 \in 0..(p - a) /\ a + (k - a) = k
      BY <1>1, <2>2
    <3>2. Takes(z, s, a, b, c, k, k - a, k - a + 1)
      BY <1>4, <1>6, <3>1
    <3>3. z[k] = s[k]
      <4>1. k - a + 1 # k - a
        BY <3>1
      <4> QED  BY <3>1, <3>2, <4>1 DEF Takes
    <3> QED  BY <1>5, <2>2, <3>3
  <2>3. CASE r <= k /\ k < c
    <3>1. /\ k \in a..(c - 1) /\ k - a \in (r - a)..(c - a) /\ k - a + 1 \in (r - a)..(c - a)
          /\ b + (k - a) - (b - a) = k /\ b - a # b - a + 1
      BY <1>1, <2>3
    <3>2. Takes(z, s, a, b, c, k, b - a, b - a)
      BY <1>4, <1>6, <3>1
    <3>3. z[k] = s[k]
      BY <3>1, <3>2 DEF Takes
    <3> QED  BY <1>5, <2>3, <3>3
  <2>4. CASE p <= k /\ k < r
    <3>1. /\ k \in p..(r - 1) /\ k \in a..(c - 1) /\ k - p \in 0..(r - p) /\ k - p + 1 \in 0..(r - p)
          /\ (p - a) + (k - p) = k - a /\ (p - a) + (k - p + 1) = k - a + 1
      BY <1>1, <2>4
    <3>2. PICK u, v : Cut(s, p, b, r, k - p, u) /\ Cut(s, p, b, r, k - p + 1, v)
      BY <1>3, <3>1, TakenCuts
    <3>3. Takes(y, s, p, b, r, k, u, v)
      BY <1>3, <3>1, <3>2 DEF Merges
    <3>4. Cut(s, a, b, c, k - a, (p - a) + u) /\ Cut(s, a, b, c, k - a + 1, (p - a) + v)
      BY <1>4, <3>1, <3>2
    <3>5. Takes(z, s, a, b, c, k, (p - a) + u, (p - a) + v)
      BY <1>6, <3>1, <3>4
    <3>6. u \in Nat /\ v \in Nat
      BY <3>2 DEF Cut
    <3>7. /\ (p - a) + v = (p - a) + u + 1 <=> v = u + 1
          /\ (p - a) + v = (p - a) + u <=> v = u
          /\ v = u + 1 => v # u
          /\ a + ((p - a) + u) = p + u /\ b + (k - a) - ((p - a) + u) = b + (k - p) - u
      BY <1>1, <3>1, <3>6
    <3> QED  BY <3>3, <3>5, <3>7 DEF Takes
  <2> QED  BY <1>1, <2>1, <2>2, <2>3, <2>4
<1>8. y = z
  BY <1>5, <1>7, SameElements
<1> QED
  BY <1>2, <1>8 DEF y, z

-----------------------------------------------------------------------------
(* The join that divides: the halves                                       *)

\* [d, b) and [b, e) have changed places.
IsRotated(r, s, d, b, e) ==
    /\ r \in Seq(Elements) /\ Len(r) = Len(s)
    /\ \A k \in 1..Len(s) : k < d \/ e <= k => r[k] = s[k]
    /\ \A k \in 0..(e - b - 1) : r[d + k] = s[b + k]
    /\ \A k \in 0..(b - d - 1) : r[d + (e - b) + k] = s[d + k]

\* Where a rotation takes each element.
LEMMA RotatedIs ==
  ASSUME NEW s \in Seq(Elements), NEW d \in Nat, NEW b \in Nat, NEW e \in Nat,
         1 <= d, d <= b, b <= e, e <= Len(s) + 1
  PROVE  IsRotated(Rotated(s, d, b, e), s, d, b, e)
<1> DEFINE N == Len(s)
           f == SubSeq(s, 1, d - 1)
           g == SubSeq(s, b, e - 1)
           h == SubSeq(s, d, b - 1)
           l == SubSeq(s, e, N)
           r == ((f \o g) \o h) \o l
<1>1. N \in Nat /\ \A p \in 1..N : s[p] \in Elements
  OBVIOUS
<1>2. ASSUME NEW p \in Nat, NEW q \in Nat, 1 <= p, p <= q, q <= N + 1
      PROVE  /\ SubSeq(s, p, q - 1) \in Seq(Elements) /\ Len(SubSeq(s, p, q - 1)) = q - p
             /\ \A k \in 1..(q - p) : SubSeq(s, p, q - 1)[k] = s[p + k - 1]
  <2>1. p \in Int /\ q - 1 \in Int /\ \A k \in p..(q - 1) : s[k] \in Elements
    BY <1>1, <1>2
  <2>2. /\ SubSeq(s, p, q - 1) \in Seq(Elements)
        /\ Len(SubSeq(s, p, q - 1)) = IF p <= q - 1 THEN (q - 1) - p + 1 ELSE 0
        /\ \A k \in 1..((q - 1) - p + 1) : SubSeq(s, p, q - 1)[k] = s[p + k - 1]
    BY <2>1, SubSeqProperties
  <2>3. (q - 1) - p + 1 = q - p /\ (IF p <= q - 1 THEN (q - 1) - p + 1 ELSE 0) = q - p
    BY <1>2
  <2> QED  BY <2>2, <2>3
<1>3. /\ f \in Seq(Elements) /\ Len(f) = d - 1 /\ \A p \in 1..(d - 1) : f[p] = s[p]
      /\ g \in Seq(Elements) /\ Len(g) = e - b /\ \A p \in 1..(e - b) : g[p] = s[b + p - 1]
  <2>1. \A p \in 1..(d - 1) : 1 + p - 1 = p
    OBVIOUS
  <2>2. d <= N + 1
    BY <1>1
  <2> QED  BY <1>1, <1>2, <2>1, <2>2
<1>4. /\ h \in Seq(Elements) /\ Len(h) = b - d /\ \A p \in 1..(b - d) : h[p] = s[d + p - 1]
  <2>1. b <= N + 1
    BY <1>1
  <2> QED  BY <1>1, <1>2, <2>1
<1>5. l \in Seq(Elements) /\ Len(l) = N + 1 - e /\ \A p \in 1..(N + 1 - e) : l[p] = s[e + p - 1]
  <2>1. 1 <= e /\ N + 1 \in Nat /\ (N + 1) - 1 = N
    BY <1>1
  <2> QED  BY <1>1, <1>2, <2>1
<1>6. r = Rotated(s, d, b, e)
  BY DEF Rotated
<1> DEFINE fg == f \o g
           fgh == fg \o h
<1>0. r = fgh \o l
  OBVIOUS
<1> HIDE DEF f, g, h, l, r
<1>7. /\ fg \in Seq(Elements) /\ Len(fg) = (d - 1) + (e - b)
      /\ \A p \in 1..((d - 1) + (e - b)) : fg[p] = IF p <= d - 1 THEN f[p] ELSE g[p - (d - 1)]
  <2>1. /\ f \o g \in Seq(Elements) /\ Len(f \o g) = Len(f) + Len(g)
        /\ \A p \in 1..(Len(f) + Len(g)) : (f \o g)[p] = IF p <= Len(f) THEN f[p] ELSE g[p - Len(f)]
    BY <1>3, ConcatProperties
  <2>2. Len(f) + Len(g) = (d - 1) + (e - b) /\ Len(f) = d - 1
    BY <1>3
  <2> QED  BY <2>1, <2>2
<1> HIDE DEF fg
<1>8. /\ fgh \in Seq(Elements) /\ Len(fgh) = (d - 1) + (e - b) + (b - d)
      /\ \A p \in 1..((d - 1) + (e - b) + (b - d)) :
           fgh[p] = IF p <= (d - 1) + (e - b) THEN fg[p] ELSE h[p - ((d - 1) + (e - b))]
  <2>1. /\ fg \o h \in Seq(Elements) /\ Len(fg \o h) = Len(fg) + Len(h)
        /\ \A p \in 1..(Len(fg) + Len(h)) : (fg \o h)[p] = IF p <= Len(fg) THEN fg[p] ELSE h[p - Len(fg)]
    BY <1>4, <1>7, ConcatProperties
  <2>2. Len(fg) + Len(h) = (d - 1) + (e - b) + (b - d) /\ Len(fg) = (d - 1) + (e - b)
    BY <1>4, <1>7
  <2> QED  BY <2>1, <2>2
<1> HIDE DEF fgh
<1>9. (d - 1) + (e - b) + (b - d) = e - 1 /\ (e - 1) + (N + 1 - e) = N
  BY <1>1
<1>10. /\ r \in Seq(Elements) /\ Len(r) = N
       /\ \A p \in 1..N : r[p] = IF p <= e - 1 THEN fgh[p] ELSE l[p - (e - 1)]
  <2>1. /\ fgh \o l \in Seq(Elements) /\ Len(fgh \o l) = Len(fgh) + Len(l)
        /\ \A p \in 1..(Len(fgh) + Len(l)) :
             (fgh \o l)[p] = IF p <= Len(fgh) THEN fgh[p] ELSE l[p - Len(fgh)]
    BY <1>5, <1>8, ConcatProperties
  <2>2. Len(fgh) = e - 1 /\ Len(fgh) + Len(l) = N
    BY <1>5, <1>8, <1>9
  <2> QED  BY <1>0, <2>1, <2>2
<1>11. ASSUME NEW k \in 1..N, k < d PROVE r[k] = s[k]
  <2>1. k <= e - 1 /\ k \in 1..(e - 1) /\ k <= (d - 1) + (e - b) /\ k \in 1..((d - 1) + (e - b)) /\ k <= d - 1 /\ k \in 1..(d - 1)
    BY <1>1, <1>11
  <2> QED  BY <1>3, <1>7, <1>8, <1>9, <1>10, <2>1
<1>12. ASSUME NEW k \in 1..N, e <= k PROVE r[k] = s[k]
  <2>1. ~(k <= e - 1) /\ k - (e - 1) \in 1..(N + 1 - e) /\ e + (k - (e - 1)) - 1 = k
    BY <1>1, <1>12
  <2> QED  BY <1>5, <1>10, <2>1
<1>13. ASSUME NEW k \in 0..(e - b - 1) PROVE r[d + k] = s[b + k]
  <2>1. /\ d + k \in 1..N /\ d + k <= e - 1 /\ d + k \in 1..(e - 1) /\ d + k <= (d - 1) + (e - b)
        /\ d + k \in 1..((d - 1) + (e - b)) /\ ~(d + k <= d - 1)
        /\ (d + k) - (d - 1) = k + 1 /\ k + 1 \in 1..(e - b) /\ b + (k + 1) - 1 = b + k
    BY <1>1
  <2> QED  BY <1>3, <1>7, <1>8, <1>9, <1>10, <2>1
<1>14. ASSUME NEW k \in 0..(b - d - 1) PROVE r[d + (e - b) + k] = s[d + k]
  <2> DEFINE p == d + (e - b) + k
  <2>1. /\ p \in 1..N /\ p <= e - 1 /\ p \in 1..(e - 1) /\ ~(p <= (d - 1) + (e - b))
        /\ p - ((d - 1) + (e - b)) = k + 1 /\ k + 1 \in 1..(b - d) /\ d + (k + 1) - 1 = d + k
    BY <1>1
  <2> HIDE DEF p
  <2>2. r[p] = s[d + k]
    BY <1>4, <1>8, <1>9, <1>10, <2>1
  <2> QED  BY <2>2 DEF p
<1> QED
  BY <1>6, <1>10, <1>11, <1>12, <1>13, <1>14 DEF IsRotated, N

\* Where a cut divides a window.
Divides(s, a, b, c, h, t, d, e) ==
    /\ h \in 0..(c - a) /\ Cut(s, a, b, c, h, t) /\ d = a + t /\ e = b + h - t

\* Where the parts of a divided window begin and end.
LEMMA DivisionIs ==
  ASSUME NEW s, NEW a, NEW b, NEW c, Keyed(s, a, b, c), NEW h, NEW t, NEW d, NEW e,
         Divides(s, a, b, c, h, t, d, e)
  PROVE  /\ a \in Nat /\ b \in Nat /\ c \in Nat /\ h \in Nat /\ t \in Nat /\ d \in Nat /\ e \in Nat
         /\ 1 <= a /\ a <= d /\ d <= b /\ b <= e /\ e <= c /\ t <= h /\ a + h <= c
         /\ d = a + t /\ e = b + h - t /\ d + (e - b) = a + h /\ e - (b - d) = a + h
         /\ t <= b - a /\ h - t <= c - b
<1>1. /\ a \in Nat /\ b \in Nat /\ c \in Nat /\ 1 <= a /\ a <= b /\ b <= c /\ h \in 0..(c - a)
      /\ t \in Nat /\ t <= b - a /\ t <= h /\ h - t <= c - b /\ d = a + t /\ e = b + h - t
  BY DEF Keyed, Divides, Cut
<1> QED
  BY <1>1

\* The first half of both runs is at the front, and it is two runs.
LEMMA FrontIsWindow ==
  ASSUME NEW s, NEW a, NEW b, NEW c, Window(s, a, b, c), NEW h, NEW t, NEW d, NEW e,
         Divides(s, a, b, c, h, t, d, e), NEW r, IsRotated(r, s, d, b, e)
  PROVE  Window(r, a, d, a + h)
<1>1. /\ Keyed(s, a, b, c) /\ Len(s) \in Nat /\ c <= Len(s) + 1
      /\ r \in Seq(Elements) /\ Len(r) = Len(s)
      /\ \A k \in 1..Len(s) : k < d \/ e <= k => r[k] = s[k]
      /\ \A k \in 0..(e - b - 1) : r[d + k] = s[b + k]
  BY WindowIsKeyed DEF IsRotated, Window
<1>2. /\ a \in Nat /\ b \in Nat /\ c \in Nat /\ h \in Nat /\ t \in Nat /\ d \in Nat /\ e \in Nat
      /\ 1 <= a /\ a <= d /\ d <= b /\ b <= e /\ e <= c /\ t <= h /\ a + h <= c
      /\ d = a + t /\ e = b + h - t
  BY <1>1, DivisionIs
<1>3. a + h \in Nat /\ d <= a + h /\ a + h <= Len(r) + 1
  BY <1>1, <1>2
<1>4. ASSUME NEW i \in a..(a + h - 1), NEW j \in a..(a + h - 1), i <= j, j < d \/ d <= i
      PROVE  r[i][1] <= r[j][1]
  <2>1. CASE j < d
    <3>1. /\ i \in 1..Len(s) /\ i < d /\ j \in 1..Len(s)
          /\ i \in a..(b - 1) /\ j \in a..(b - 1)
      BY <1>1, <1>2, <1>4, <2>1
    <3>2. s[i][1] <= s[j][1]
      BY <1>1, <1>4, <3>1, RunsAre
    <3> QED  BY <1>1, <2>1, <3>1, <3>2
  <2>2. CASE d <= i
    <3> DEFINE k == i - d
               l == j - d
    <3>1. /\ k \in 0..(e - b - 1) /\ l \in 0..(e - b - 1) /\ d + k = i /\ d + l = j
          /\ b + k \in b..(c - 1) /\ b + l \in b..(c - 1) /\ b + k <= b + l
      BY <1>2, <1>4, <2>2
    <3> HIDE DEF k, l
    <3>2. s[b + k][1] <= s[b + l][1]
      BY <1>1, <3>1, RunsAre
    <3>3. r[d + k] = s[b + k] /\ r[d + l] = s[b + l]
      BY <1>1, <3>1
    <3> QED  BY <3>1, <3>2, <3>3
  <2> QED  BY <1>4, <2>1, <2>2
<1>5. AreRuns(r, a, d, a + h)
  BY <1>2, <1>4 DEF AreRuns
<1> QED
  BY <1>1, <1>2, <1>3, <1>5 DEF Window

\* Up to the half, the cuts of the whole are those of the first half.
LEMMA FrontCuts ==
  ASSUME NEW s, NEW a, NEW b, NEW c, Window(s, a, b, c), NEW h, NEW t, NEW d, NEW e,
         Divides(s, a, b, c, h, t, d, e), NEW r, IsRotated(r, s, d, b, e),
         NEW i \in 0..h, NEW u, Cut(s, a, b, c, i, u)
  PROVE  Cut(r, a, d, a + h, i, u)
<1>1. /\ Keyed(s, a, b, c) /\ Len(s) \in Nat /\ c <= Len(s) + 1
      /\ \A k \in 1..Len(s) : k < d \/ e <= k => r[k] = s[k]
      /\ \A k \in 0..(e - b - 1) : r[d + k] = s[b + k]
  BY WindowIsKeyed DEF IsRotated, Window
<1>2. /\ a \in Nat /\ b \in Nat /\ c \in Nat /\ h \in Nat /\ t \in Nat /\ d \in Nat /\ e \in Nat
      /\ 1 <= a /\ a <= d /\ d <= b /\ b <= e /\ e <= c /\ t <= h /\ a + h <= c
      /\ d = a + t /\ e = b + h - t /\ t <= b - a /\ h - t <= c - b
  BY <1>1, DivisionIs
<1>3. /\ u \in Nat /\ u <= b - a /\ u <= i /\ i - u <= c - b
      /\ u = 0 \/ i - u = c - b \/ s[a + u - 1][1] <= s[b + i - u][1]
      /\ i - u = 0 \/ u = b - a \/ s[b + i - u - 1][1] < s[a + u][1]
  BY DEF Cut
<1>4. i \in Nat /\ i <= h
  BY <1>2
<1>5. u <= t /\ i - u <= h - t
  <2>1. ~(t < u /\ i - u < h - t) /\ ~(u < t /\ h - t < i - u)
    BY <1>1, <1>2, <1>4, CutsAreNested DEF Divides
  <2> QED  BY <1>2, <1>3, <1>4, <2>1
<1>6. u <= d - a /\ i - u <= (a + h) - d
  BY <1>2, <1>5
<1>7. u = 0 \/ i - u = (a + h) - d \/ r[a + u - 1][1] <= r[d + i - u][1]
  <2>1. SUFFICES ASSUME u # 0, i - u # (a + h) - d PROVE r[a + u - 1][1] <= r[d + i - u][1]
    OBVIOUS
  <2>2. /\ a + u - 1 \in 1..Len(s) /\ a + u - 1 < d /\ i - u \in 0..(e - b - 1)
        /\ d + i - u = d + (i - u) /\ b + i - u = b + (i - u) /\ i - u # c - b
    BY <1>1, <1>2, <1>3, <1>4, <1>5, <2>1
  <2>3. r[a + u - 1] = s[a + u - 1] /\ r[d + (i - u)] = s[b + (i - u)]
    BY <1>1, <2>2
  <2> QED  BY <1>3, <2>1, <2>2, <2>3
<1>8. i - u = 0 \/ u = d - a \/ r[d + i - u - 1][1] < r[a + u][1]
  <2>1. SUFFICES ASSUME i - u # 0, u # d - a PROVE r[d + i - u - 1][1] < r[a + u][1]
    OBVIOUS
  <2>2. /\ a + u \in 1..Len(s) /\ a + u < d /\ i - u - 1 \in 0..(e - b - 1) /\ u # b - a
        /\ d + i - u - 1 = d + (i - u - 1) /\ b + i - u - 1 = b + (i - u - 1)
    BY <1>1, <1>2, <1>3, <1>4, <1>5, <2>1
  <2>3. r[a + u] = s[a + u] /\ r[d + (i - u - 1)] = s[b + (i - u - 1)]
    BY <1>1, <2>2
  <2> QED  BY <1>3, <2>1, <2>2, <2>3
<1> QED
  BY <1>3, <1>6, <1>7, <1>8 DEF Cut

\* m is the rotated sequence from the second half on.
Behind(m, s, a, b, c, h, d, e) ==
    /\ m \in Seq(Elements) /\ Len(m) = Len(s)
    /\ \A k \in 0..(b - d - 1) : m[a + h + k] = s[d + k]
    /\ \A k \in e..Len(s) : m[k] = s[k]

\* The second half of both runs is two runs.
LEMMA BackIsWindow ==
  ASSUME NEW s, NEW a, NEW b, NEW c, Window(s, a, b, c), NEW h, NEW t, NEW d, NEW e,
         Divides(s, a, b, c, h, t, d, e), NEW m, Behind(m, s, a, b, c, h, d, e)
  PROVE  Window(m, a + h, e, c)
<1>1. /\ Keyed(s, a, b, c) /\ Len(s) \in Nat /\ c <= Len(s) + 1
      /\ m \in Seq(Elements) /\ Len(m) = Len(s)
      /\ \A k \in 0..(b - d - 1) : m[a + h + k] = s[d + k]
      /\ \A k \in e..Len(s) : m[k] = s[k]
  BY WindowIsKeyed DEF Behind, Window
<1>2. /\ a \in Nat /\ b \in Nat /\ c \in Nat /\ h \in Nat /\ t \in Nat /\ d \in Nat /\ e \in Nat
      /\ 1 <= a /\ a <= d /\ d <= b /\ b <= e /\ e <= c /\ t <= h /\ a + h <= c
      /\ d = a + t /\ e = b + h - t
  BY <1>1, DivisionIs
<1>3. a + h \in Nat /\ 1 <= a + h /\ a + h <= e /\ c <= Len(m) + 1
  BY <1>1, <1>2
<1>4. ASSUME NEW i \in (a + h)..(c - 1), NEW j \in (a + h)..(c - 1), i <= j, j < e \/ e <= i
      PROVE  m[i][1] <= m[j][1]
  <2>1. CASE e <= i
    <3>1. /\ i \in e..Len(s) /\ j \in e..Len(s) /\ i \in b..(c - 1) /\ j \in b..(c - 1)
      BY <1>1, <1>2, <1>4, <2>1
    <3>2. s[i][1] <= s[j][1]
      BY <1>1, <1>4, <3>1, RunsAre
    <3> QED  BY <1>1, <3>1, <3>2
  <2>2. CASE j < e
    <3> DEFINE k == i - (a + h)
               l == j - (a + h)
    <3>1. /\ k \in 0..(b - d - 1) /\ l \in 0..(b - d - 1) /\ a + h + k = i /\ a + h + l = j
          /\ d + k \in a..(b - 1) /\ d + l \in a..(b - 1) /\ d + k <= d + l
      BY <1>2, <1>4, <2>2
    <3> HIDE DEF k, l
    <3>2. s[d + k][1] <= s[d + l][1]
      BY <1>1, <3>1, RunsAre
    <3>3. m[a + h + k] = s[d + k] /\ m[a + h + l] = s[d + l]
      BY <1>1, <3>1
    <3> QED  BY <3>1, <3>2, <3>3
  <2> QED  BY <1>4, <2>1, <2>2
<1>5. AreRuns(m, a + h, e, c)
  BY <1>4 DEF AreRuns
<1> QED
  BY <1>1, <1>2, <1>3, <1>5 DEF Window

\* From the half on, the cuts of the whole are those of the second half.
LEMMA BackCuts ==
  ASSUME NEW s, NEW a, NEW b, NEW c, Window(s, a, b, c), NEW h, NEW t, NEW d, NEW e,
         Divides(s, a, b, c, h, t, d, e), NEW m, Behind(m, s, a, b, c, h, d, e),
         NEW i \in h..(c - a), NEW u, Cut(s, a, b, c, i, u)
  PROVE  Cut(m, a + h, e, c, i - h, u - t)
<1>1. /\ Keyed(s, a, b, c) /\ Len(s) \in Nat /\ c <= Len(s) + 1
      /\ \A k \in 0..(b - d - 1) : m[a + h + k] = s[d + k]
      /\ \A k \in e..Len(s) : m[k] = s[k]
  BY WindowIsKeyed DEF Behind, Window
<1>2. /\ a \in Nat /\ b \in Nat /\ c \in Nat /\ h \in Nat /\ t \in Nat /\ d \in Nat /\ e \in Nat
      /\ 1 <= a /\ a <= d /\ d <= b /\ b <= e /\ e <= c /\ t <= h /\ a + h <= c
      /\ d = a + t /\ e = b + h - t /\ t <= b - a /\ h - t <= c - b
  BY <1>1, DivisionIs
<1>3. /\ u \in Nat /\ u <= b - a /\ u <= i /\ i - u <= c - b
      /\ u = 0 \/ i - u = c - b \/ s[a + u - 1][1] <= s[b + i - u][1]
      /\ i - u = 0 \/ u = b - a \/ s[b + i - u - 1][1] < s[a + u][1]
  BY DEF Cut
<1>4. i \in Nat /\ h <= i /\ i <= c - a
  BY <1>2
<1>5. t <= u /\ h - t <= i - u
  <2>1. ~(t < u /\ i - u < h - t) /\ ~(u < t /\ h - t < i - u)
    BY <1>1, <1>2, <1>4, CutsAreNested DEF Divides
  <2> QED  BY <1>2, <1>3, <1>4, <2>1
<1> DEFINE v == u - t
           j == i - h
<1>6. /\ v \in Nat /\ v <= e - (a + h) /\ v <= j /\ j - v <= c - e
      /\ v = 0 <=> u = t
      /\ v = e - (a + h) <=> u = b - a
      /\ j - v = c - e <=> i - u = c - b
  BY <1>2, <1>3, <1>4, <1>5
<1>7. v = 0 \/ j - v = c - e \/ m[a + h + v - 1][1] <= m[e + j - v][1]
  <2>1. SUFFICES ASSUME v # 0, j - v # c - e PROVE m[a + h + v - 1][1] <= m[e + j - v][1]
    OBVIOUS
  <2>2. /\ v - 1 \in 0..(b - d - 1) /\ a + h + v - 1 = a + h + (v - 1) /\ d + (v - 1) = a + u - 1
        /\ e + j - v = b + i - u /\ b + i - u \in e..Len(s) /\ u # 0 /\ i - u # c - b
    BY <1>1, <1>2, <1>3, <1>4, <1>5, <2>1
  <2> HIDE DEF v, j
  <2>3. m[a + h + (v - 1)] = s[d + (v - 1)] /\ m[b + i - u] = s[b + i - u]
    BY <1>1, <2>2
  <2> QED  BY <1>3, <2>2, <2>3
<1>8. j - v = 0 \/ v = e - (a + h) \/ m[e + j - v - 1][1] < m[a + h + v][1]
  <2>1. SUFFICES ASSUME j - v # 0, v # e - (a + h) PROVE m[e + j - v - 1][1] < m[a + h + v][1]
    OBVIOUS
  <2>2. /\ v \in 0..(b - d - 1) /\ d + v = a + u /\ u # b - a /\ i - u # 0
        /\ e + j - v - 1 = b + i - u - 1 /\ b + i - u - 1 \in e..Len(s)
    BY <1>1, <1>2, <1>3, <1>4, <1>5, <2>1
  <2> HIDE DEF v, j
  <2>3. m[a + h + v] = s[d + v] /\ m[b + i - u - 1] = s[b + i - u - 1]
    BY <1>1, <2>2
  <2> QED  BY <1>3, <2>2, <2>3
<1> QED
  BY <1>6, <1>7, <1>8 DEF Cut

\* Once the first half is in order, the merge of the second is the merge of all.
LEMMA HalvesInOrder ==
  ASSUME NEW s, NEW a, NEW b, NEW c, Window(s, a, b, c), NEW h, NEW t, NEW d, NEW e,
         Divides(s, a, b, c, h, t, d, e), NEW r, IsRotated(r, s, d, b, e)
  PROVE  /\ Window(r, a, d, a + h) /\ Window(InOrder(r, a, d, a + h), a + h, e, c)
         /\ InOrder(InOrder(r, a, d, a + h), a + h, e, c) = InOrder(s, a, b, c)
<1> DEFINE m == InOrder(r, a, d, a + h)
           y == InOrder(m, a + h, e, c)
           z == InOrder(s, a, b, c)
           N == Len(s)
<1>1. Window(r, a, d, a + h)
  BY FrontIsWindow
<1>2. Merges(m, r, a, d, a + h) /\ Merges(z, s, a, b, c)
  BY <1>1, InOrderMerges
<1> HIDE DEF m, z, N
<1>3. /\ a \in Nat /\ b \in Nat /\ c \in Nat /\ h \in Nat /\ t \in Nat /\ d \in Nat /\ e \in Nat
      /\ 1 <= a /\ a <= d /\ d <= b /\ b <= e /\ e <= c /\ t <= h /\ a + h <= c
      /\ d = a + t /\ e = b + h - t
  BY WindowIsKeyed, DivisionIs
<1>4. Keyed(s, a, b, c) /\ N \in Nat /\ c <= N + 1
  BY WindowIsKeyed DEF Window, N
<1>5. /\ r \in Seq(Elements) /\ Len(r) = N
      /\ \A k \in 1..N : k < d \/ e <= k => r[k] = s[k]
      /\ \A k \in 0..(e - b - 1) : r[d + k] = s[b + k]
      /\ \A k \in 0..(b - d - 1) : r[d + (e - b) + k] = s[d + k]
  BY DEF IsRotated, N
<1>6. /\ m \in Seq(Elements) /\ Len(m) = N
      /\ \A k \in 1..N : k < a \/ a + h <= k => m[k] = r[k]
  BY <1>2, <1>5 DEF Merges
<1>7. Behind(m, s, a, b, c, h, d, e)
  <2>1. ASSUME NEW k \in 0..(b - d - 1) PROVE m[a + h + k] = s[d + k]
    <3>1. a + h + k \in 1..N /\ a + h <= a + h + k /\ d + (e - b) + k = a + h + k
      BY <1>3, <1>4
    <3>2. m[a + h + k] = r[a + h + k] /\ r[d + (e - b) + k] = s[d + k]
      BY <1>5, <1>6, <3>1
    <3> QED  BY <3>1, <3>2
  <2>2. ASSUME NEW k \in e..N PROVE m[k] = s[k]
    <3>1. k \in 1..N /\ a + h <= k /\ e <= k
      BY <1>3, <1>4
    <3> QED  BY <1>5, <1>6, <3>1
  <2> QED  BY <1>6, <2>1, <2>2 DEF Behind, N
<1>8. Window(m, a + h, e, c)
  BY <1>7, BackIsWindow
<1>9. Merges(y, m, a + h, e, c)
  BY <1>8, InOrderMerges
<1> HIDE DEF y
<1>10. /\ y \in Seq(Elements) /\ Len(y) = N /\ z \in Seq(Elements) /\ Len(z) = N
       /\ \A k \in 1..N : k < a + h \/ c <= k => y[k] = m[k]
       /\ \A k \in 1..N : k < a \/ c <= k => z[k] = s[k]
  BY <1>2, <1>6, <1>9 DEF Merges, N
<1>11. /\ \A k \in 0..(b - d - 1) : m[a + h + k] = s[d + k]
       /\ \A k \in e..N : m[k] = s[k]
  BY <1>7 DEF Behind, N
<1>12. ASSUME NEW k \in 1..N PROVE y[k] = z[k]
  <2>1. CASE k < a \/ c <= k
    <3>1. (k < a + h \/ c <= k) /\ (k < a \/ a + h <= k) /\ (k < d \/ e <= k)
      BY <1>3, <2>1
    <3> QED  BY <1>5, <1>6, <1>10, <2>1, <3>1
  <2>2. CASE a <= k /\ k < c
    <3>1. /\ k \in a..(c - 1) /\ k - a \in 0..(c - a) /\ k - a + 1 \in 0..(c - a)
      BY <1>3, <2>2
    <3>2. PICK u, v : Cut(s, a, b, c, k - a, u) /\ Cut(s, a, b, c, k - a + 1, v)
      BY <1>4, <3>1, TakenCuts
    <3>3. Takes(z, s, a, b, c, k, u, v)
      BY <1>2, <3>1, <3>2 DEF Merges
    <3>4. u \in Nat /\ v \in Nat
      BY <3>2 DEF Cut
    <3>5. CASE k < a + h
      <4>1. k - a \in 0..h /\ k - a + 1 \in 0..h /\ k \in a..(a + h - 1)
        BY <1>3, <3>1, <3>5
      <4>2. Cut(r, a, d, a + h, k - a, u) /\ Cut(r, a, d, a + h, k - a + 1, v)
        BY <3>2, <4>1, FrontCuts
      <4>3. Takes(m, r, a, d, a + h, k, u, v)
        BY <1>2, <1>3, <4>1, <4>2 DEF Merges
      <4>4. y[k] = m[k]
        BY <1>10, <3>5
      <4>5. CASE v = u + 1
        <5>1. v # u
          BY <3>4, <4>5
        <5>2. a + u < d /\ m[k] = r[a + u] /\ z[k] = s[a + u]
          BY <3>3, <4>3, <5>1 DEF Takes
        <5>3. a + u \in 1..N
          BY <1>3, <1>4, <3>4, <5>2
        <5> QED  BY <1>5, <4>4, <5>2, <5>3
      <4>6. CASE v = u
        <5>1. v # u + 1
          BY <3>4, <4>6
        <5>2. /\ d + (k - a) - u \in d..(a + h - 1) /\ m[k] = r[d + (k - a) - u]
              /\ z[k] = s[b + (k - a) - u]
          BY <1>3, <3>1, <3>3, <3>4, <4>3, <5>1 DEF Takes
        <5> DEFINE q == (k - a) - u
        <5>3. /\ q \in 0..(e - b - 1) /\ d + (k - a) - u = d + q /\ b + (k - a) - u = b + q
          BY <1>3, <3>4, <5>2
        <5> HIDE DEF q
        <5> QED  BY <1>5, <4>4, <5>2, <5>3
      <4> QED  BY <3>3, <4>5, <4>6 DEF Takes
    <3>6. CASE a + h <= k
      <4>1. /\ k - a \in h..(c - a) /\ k - a + 1 \in h..(c - a) /\ k \in (a + h)..(c - 1)
            /\ (k - a) - h = k - (a + h) /\ (k - a + 1) - h = k - (a + h) + 1
        BY <1>3, <3>1, <3>6
      <4>2. Cut(m, a + h, e, c, (k - a) - h, u - t) /\ Cut(m, a + h, e, c, (k - a + 1) - h, v - t)
        BY <1>7, <3>2, <4>1, BackCuts
      <4>3. Takes(y, m, a + h, e, c, k, u - t, v - t)
        BY <1>9, <4>1, <4>2 DEF Merges
      <4>4. u - t \in Nat /\ (v = u + 1 <=> v - t = (u - t) + 1) /\ (v = u <=> v - t = u - t)
        BY <1>3, <3>4, <4>3 DEF Takes
      <4>5. CASE v = u + 1
        <5>1. v # u
          BY <3>4, <4>5
        <5>2. (a + h) + (u - t) < e /\ y[k] = m[(a + h) + (u - t)] /\ z[k] = s[a + u]
          BY <3>3, <4>3, <4>4, <5>1 DEF Takes
        <5> DEFINE q == u - t
        <5>3. /\ q \in 0..(b - d - 1) /\ (a + h) + q = a + h + q /\ d + q = a + u
          BY <1>3, <3>4, <4>4, <5>2
        <5> HIDE DEF q
        <5>4. y[k] = m[a + h + q]
          BY <5>2, <5>3 DEF q
        <5> QED  BY <1>11, <5>2, <5>3, <5>4
      <4>6. CASE v = u
        <5>1. v # u + 1
          BY <3>4, <4>6
        <5>2. /\ e + (k - (a + h)) - (u - t) \in e..(c - 1) /\ y[k] = m[e + (k - (a + h)) - (u - t)]
              /\ z[k] = s[b + (k - a) - u]
          BY <3>3, <4>3, <4>4, <5>1 DEF Takes
        <5> DEFINE q == e + (k - (a + h)) - (u - t)
        <5>3. q \in e..N /\ q = b + (k - a) - u
          BY <1>3, <1>4, <3>4, <5>2
        <5>4. y[k] = m[q] /\ z[k] = s[q]
          BY <5>2, <5>3
        <5> HIDE DEF q
        <5> QED  BY <1>11, <5>3, <5>4
      <4> QED  BY <3>3, <4>5, <4>6 DEF Takes
    <3> QED  BY <1>3, <3>5, <3>6
  <2> QED  BY <1>3, <2>1, <2>2
<1>13. y = z
  BY <1>10, <1>12, SameElements
<1> QED
  BY <1>1, <1>8, <1>13 DEF m, y, z

-----------------------------------------------------------------------------
(* The join that divides: its recursion                                    *)

\* Windows holds what a window is.
LEMMA WindowsAre ==
  /\ \A x \in Windows : Window(x.s, x.a, x.b, x.c)
  /\ \A s, a, b, c : Window(s, a, b, c) => [s |-> s, a |-> a, b |-> b, c |-> c] \in Windows
<1>1. ASSUME NEW x \in Windows PROVE Window(x.s, x.a, x.b, x.c)
  BY DEF Windows, Window, Elements
<1>2. ASSUME NEW s, NEW a, NEW b, NEW c, Window(s, a, b, c)
      PROVE  [s |-> s, a |-> a, b |-> b, c |-> c] \in Windows
  <2> DEFINE x == [s |-> s, a |-> a, b |-> b, c |-> c]
  <2>1. x \in [s : Seq(Int \X Int), a : Nat, b : Nat, c : Nat]
    BY <1>2 DEF Window, Elements
  <2>2. x.s = s /\ x.a = a /\ x.b = b /\ x.c = c
    OBVIOUS
  <2> HIDE DEF x
  <2>3. /\ 1 <= x.a /\ x.a <= x.b /\ x.b <= x.c /\ x.c <= Len(x.s) + 1
        /\ AreRuns(x.s, x.a, x.b, x.c)
    BY <1>2, <2>2 DEF Window
  <2>4. x \in Windows
    BY <2>1, <2>3 DEF Windows
  <2> QED  BY <2>4 DEF x
<1> QED
  BY <1>1, <1>2

\* Of a set of numbers, one is the least.
LEMMA LeastExists ==
  ASSUME NEW S \in SUBSET Nat, S # {}
  PROVE  \E k \in S : \A i \in S : k <= i
<1> SUFFICES ASSUME \A k \in S : \E i \in S : i < k PROVE FALSE
  OBVIOUS
<1> DEFINE P == {n \in Nat : n \notin S}
<1>1. ASSUME NEW n \in Nat, \A m \in 0..(n - 1) : m \in P PROVE n \in P
  <2>1. ASSUME n \in S PROVE FALSE
    <3>1. PICK i \in S : i < n
      BY <2>1
    <3>2. i \in 0..(n - 1)
      BY <3>1
    <3> QED  BY <1>1, <3>2
  <2> QED  BY <2>1
<1>2. \A n \in Nat : n \in P
  <2>1. P \in SUBSET Nat
    OBVIOUS
  <2> HIDE DEF P
  <2> QED  BY <1>1, <2>1, StrongSetInduction
<1> QED
  BY <1>2

\* The loops that skip what is in its place end where they may.
LEMMA SkippedIsInPlace ==
  ASSUME NEW s, NEW a, NEW b, NEW c, Window(s, a, b, c), a # b, b # c,
         ~(s[b - 1][1] <= s[b][1])
  PROVE  InPlace(s, a, b, c, FirstGreater(s, a, b), EndOfLess(s, b, c))
<1>1. /\ Keyed(s, a, b, c) /\ a \in Nat /\ b \in Nat /\ c \in Nat /\ 1 <= a /\ a <= b /\ b <= c
  BY WindowIsKeyed DEF Window
<1>2. b - 1 \in a..(b - 1) /\ b \in a..(c - 1) /\ b - 1 \in a..(c - 1) /\ c \in (b + 1)..c
  BY <1>1
<1>3. \A i \in a..(c - 1) : s[i][1] \in Int
  BY <1>1, RunsAre
<1>4. s[b][1] < s[b - 1][1]
  BY <1>2, <1>3
<1>5. \E i \in a..(b - 1) : s[i][1] > s[b][1] /\ \A j \in a..(i - 1) : s[j][1] <= s[b][1]
  <2> DEFINE S == {i \in a..(b - 1) : s[i][1] > s[b][1]}
  <2>1. S \in SUBSET Nat /\ b - 1 \in S
    BY <1>1, <1>2, <1>3, <1>4
  <2>2. PICK k \in S : \A i \in S : k <= i
    <3> HIDE DEF S
    <3> QED  BY <2>1, LeastExists
  <2>3. k \in a..(b - 1) /\ s[k][1] > s[b][1]
    OBVIOUS
  <2>4. ASSUME NEW j \in a..(k - 1) PROVE s[j][1] <= s[b][1]
    <3>1. j \in a..(b - 1) /\ j \in a..(c - 1) /\ ~(k <= j)
      BY <1>1, <2>3
    <3>2. ~(s[j][1] > s[b][1])
      BY <2>2, <3>1
    <3> QED  BY <1>2, <1>3, <3>1, <3>2
  <2> HIDE DEF S
  <2> QED  BY <2>3, <2>4
<1>6. \E i \in (b + 1)..c : s[i - 1][1] < s[b - 1][1] /\ \A j \in i..(c - 1) : s[j][1] >= s[b - 1][1]
  <2> DEFINE S == {i \in (b + 1)..c : \A j \in i..(c - 1) : s[j][1] >= s[b - 1][1]}
  <2>1. S \in SUBSET Nat /\ c \in S
    BY <1>1, <1>2
  <2>2. PICK k \in S : \A i \in S : k <= i
    <3> HIDE DEF S
    <3> QED  BY <2>1, LeastExists
  <2>3. k \in (b + 1)..c /\ \A j \in k..(c - 1) : s[j][1] >= s[b - 1][1]
    OBVIOUS
  <2>4. s[k - 1][1] < s[b - 1][1]
    <3>1. SUFFICES ASSUME ~(s[k - 1][1] < s[b - 1][1]) PROVE FALSE
      OBVIOUS
    <3>2. k - 1 \in b..(c - 1) /\ k - 1 \in a..(c - 1) /\ ~(k <= k - 1)
      BY <1>1, <2>3
    <3>3. s[k - 1][1] >= s[b - 1][1]
      BY <1>2, <1>3, <3>1, <3>2
    <3>4. k - 1 # b
      BY <1>2, <1>3, <1>4, <3>1
    <3>5. k - 1 \in (b + 1)..c
      BY <1>1, <2>3, <3>4
    <3>6. ASSUME NEW j \in (k - 1)..(c - 1) PROVE s[j][1] >= s[b - 1][1]
      <4>1. j = k - 1 \/ j \in k..(c - 1)
        BY <1>1, <2>3
      <4> QED  BY <2>3, <3>3, <4>1
    <3>7. k - 1 \in S
      BY <3>5, <3>6
    <3> HIDE DEF S
    <3> QED  BY <2>2, <3>2, <3>7
  <2> HIDE DEF S
  <2> QED  BY <2>3, <2>4
<1>7. /\ FirstGreater(s, a, b) \in a..(b - 1)
      /\ \A j \in a..(FirstGreater(s, a, b) - 1) : s[j][1] <= s[b][1]
  BY <1>5, Zenon DEF FirstGreater
<1>8. /\ EndOfLess(s, b, c) \in (b + 1)..c
      /\ \A j \in EndOfLess(s, b, c)..(c - 1) : s[j][1] >= s[b - 1][1]
  BY <1>6, Zenon DEF EndOfLess
<1> QED
  BY <1>7, <1>8 DEF InPlace

\* One call of the join, of which f has the inner ones.
V5Call(f, x) ==
    LET s == x.s
        b == x.b
        a == FirstGreater(s, x.a, b)
        c == EndOfLess(s, b, x.c)
        half == (c - a) \div 2
        d == a + Taken(s, a, b, c)[half]
        e == b + half - Taken(s, a, b, c)[half]
    IN  IF x.a = b \/ b = x.c \/ s[b - 1][1] <= s[b][1] THEN s
        ELSE f[[s |-> f[[s |-> Rotated(s, d, b, e), a |-> a, b |-> d, c |-> d + (e - b)]],
                a |-> e - (b - d), b |-> e, c |-> c]]

InOrderAt(x) == InOrder(x.s, x.a, x.b, x.c)

\* If the inner calls merge, so does the call.
LEMMA CallIsInOrder ==
  ASSUME NEW x \in Windows, NEW f,
         \A w \in Windows : w.c - w.a < x.c - x.a => f[w] = InOrderAt(w)
  PROVE  V5Call(f, x) = InOrderAt(x)
<1> DEFINE s == x.s
           b == x.b
           a == FirstGreater(s, x.a, b)
           c == EndOfLess(s, b, x.c)
           half == (c - a) \div 2
           t == Taken(s, a, b, c)[half]
           d == a + t
           e == b + half - t
           r == Rotated(s, d, b, e)
           Early == x.a = b \/ b = x.c \/ s[b - 1][1] <= s[b][1]
           first == [s |-> r, a |-> a, b |-> d, c |-> d + (e - b)]
           second == [s |-> f[first], a |-> e - (b - d), b |-> e, c |-> c]
<1>1. V5Call(f, x) = IF Early THEN s ELSE f[second]
  BY DEF V5Call
<1>2. Window(s, x.a, b, x.c)
  BY WindowsAre
<1> HIDE DEF Early, first, second, r, e, d, t, half, c, a, b, s
<1>3. CASE Early
  <2>1. InOrder(s, x.a, b, x.c) = s
    BY <1>2, <1>3, NothingToDo DEF Early
  <2> QED  BY <1>1, <1>3, <2>1 DEF InOrderAt, s, b
<1>4. CASE ~Early
  <2>1. InPlace(s, x.a, b, x.c, a, c)
    BY <1>2, <1>4, SkippedIsInPlace DEF Early, a, c
  <2>2. Window(s, a, b, c) /\ InOrder(s, a, b, c) = InOrder(s, x.a, b, x.c)
    BY <1>2, <2>1, RestInOrder
  <2>3. /\ Keyed(s, a, b, c) /\ s \in Seq(Elements) /\ c <= Len(s) + 1 /\ Len(s) \in Nat
        /\ x.a \in Nat /\ x.c \in Nat /\ a \in Nat /\ b \in Nat /\ c \in Nat
        /\ x.a <= a /\ a <= b - 1 /\ b + 1 <= c /\ c <= x.c
    BY <1>2, <2>1, <2>2, WindowIsKeyed DEF Window, InPlace
  <2>4. half \in Nat /\ 1 <= half /\ half < c - a /\ half \in 0..(c - a)
    <3>1. c - a \in Nat /\ 2 <= c - a
      BY <2>3
    <3>2. PICK n \in Nat : n = c - a /\ 2 <= n
      BY <3>1
    <3>3. n \div 2 \in Nat /\ 1 <= n \div 2 /\ n \div 2 < n
      BY <3>2
    <3>4. half = n \div 2
      BY <3>2 DEF half
    <3> QED  BY <3>2, <3>3, <3>4
  <2>5. Divides(s, a, b, c, half, t, d, e)
    <3>1. Cut(s, a, b, c, half, t)
      BY <2>3, <2>4, TakenCuts DEF t
    <3> QED  BY <2>4, <3>1 DEF Divides, d, e
  <2>6. /\ t \in Nat /\ d \in Nat /\ e \in Nat /\ 1 <= d /\ d <= b /\ b <= e /\ e <= c
        /\ d + (e - b) = a + half /\ e - (b - d) = a + half
    <3>1. /\ t \in Nat /\ d \in Nat /\ e \in Nat /\ a <= d /\ 1 <= a /\ d <= b /\ b <= e /\ e <= c
          /\ d + (e - b) = a + half /\ e - (b - d) = a + half
      BY <2>3, <2>5, DivisionIs
    <3> QED  BY <2>3, <3>1
  <2>7. IsRotated(r, s, d, b, e)
    <3>1. e <= Len(s) + 1
      BY <2>3, <2>6
    <3> QED  BY <2>3, <2>6, <3>1, RotatedIs DEF r
  <2>8. /\ Window(r, a, d, a + half) /\ Window(InOrder(r, a, d, a + half), a + half, e, c)
        /\ InOrder(InOrder(r, a, d, a + half), a + half, e, c) = InOrder(s, a, b, c)
    BY <2>2, <2>5, <2>7, HalvesInOrder
  <2>9. f[first] = InOrder(r, a, d, a + half)
    <3>1. first = [s |-> r, a |-> a, b |-> d, c |-> a + half]
      BY <2>6 DEF first
    <3>2. first.s = r /\ first.a = a /\ first.b = d /\ first.c = a + half
      BY <3>1
    <3>3. first \in Windows
      BY <2>8, <3>1, WindowsAre
    <3>4. first.c - first.a < x.c - x.a
      BY <2>3, <2>4, <3>2
    <3> QED  BY <3>2, <3>3, <3>4 DEF InOrderAt
  <2>10. f[second] = InOrder(s, a, b, c)
    <3> DEFINE m == InOrder(r, a, d, a + half)
    <3>1. second = [s |-> m, a |-> a + half, b |-> e, c |-> c]
      BY <2>6, <2>9 DEF second
    <3> HIDE DEF m
    <3>2. second.s = m /\ second.a = a + half /\ second.b = e /\ second.c = c
      BY <3>1
    <3>3. second \in Windows
      BY <2>8, <3>1, WindowsAre DEF m
    <3>4. second.c - second.a < x.c - x.a
      BY <2>3, <2>4, <3>2
    <3>5. InOrderAt(second) = InOrder(m, a + half, e, c)
      BY <3>2 DEF InOrderAt
    <3> QED  BY <2>8, <3>3, <3>4, <3>5 DEF m
  <2> QED  BY <1>1, <1>4, <2>2, <2>10 DEF InOrderAt, s, b
<1> QED
  BY <1>3, <1>4

\* monotonic_join_v5 (src/ivl/algorithm/monotonic_join/v5.hpp:13) puts any two sorted
\* runs, of any length and with any keys in common, in the order of the merge.
THEOREM DividingJoinIsInOrder ==
  ASSUME NEW s, NEW a, NEW b, NEW c, Window(s, a, b, c)
  PROVE  monotonic_join_v5(s, a, b, c) = InOrder(s, a, b, c)
<1> DEFINE Solves(g) == g = [x \in Windows |-> V5Call(g, x)]
           solution == [x \in Windows |-> InOrderAt(x)]
           join == CHOOSE g : Solves(g)
           x0 == [s |-> s, a |-> a, b |-> b, c |-> c]
<1>1. monotonic_join_v5(s, a, b, c) = join[x0]
  BY DEF monotonic_join_v5, V5Call
<1>2. Solves(solution)
  <2>1. ASSUME NEW x \in Windows PROVE V5Call(solution, x) = InOrderAt(x)
    <3>1. \A w \in Windows : solution[w] = InOrderAt(w)
      OBVIOUS
    <3> HIDE DEF solution
    <3> QED  BY <3>1, CallIsInOrder
  <2>2. [x \in Windows |-> V5Call(solution, x)] = [x \in Windows |-> InOrderAt(x)]
    <3> HIDE DEF solution
    <3> QED  BY <2>1
  <2> QED  BY <2>2
<1>3. Solves(join)
  <2> HIDE DEF Solves, solution
  <2> QED  BY <1>2
<1> HIDE DEF join
<1>4. \A x \in Windows : join[x] = V5Call(join, x)
  BY <1>3, Zenon
<1> DEFINE P == {n \in Nat : \A x \in Windows : x.c - x.a = n => join[x] = InOrderAt(x)}
<1>5. ASSUME NEW n \in Nat, \A k \in 0..(n - 1) : k \in P PROVE n \in P
  <2>1. ASSUME NEW x \in Windows, x.c - x.a = n PROVE join[x] = InOrderAt(x)
    <3>1. ASSUME NEW w \in Windows, w.c - w.a < x.c - x.a PROVE join[w] = InOrderAt(w)
      <4>1. w.a \in Nat /\ w.c \in Nat /\ w.a <= w.c
        BY WindowsAre, WindowIsKeyed DEF Window
      <4>2. w.c - w.a \in 0..(n - 1)
        BY <2>1, <3>1, <4>1
      <4> QED  BY <1>5, <4>2
    <3> HIDE DEF Solves, P
    <3>2. V5Call(join, x) = InOrderAt(x)
      BY <3>1, CallIsInOrder
    <3> QED  BY <1>4, <3>2
  <2> HIDE DEF Solves
  <2> QED  BY <2>1
<1>6. \A n \in Nat : n \in P
  <2>1. P \in SUBSET Nat
    OBVIOUS
  <2> HIDE DEF P
  <2> QED  BY <1>5, <2>1, StrongSetInduction
<1>7. x0 \in Windows /\ x0.s = s /\ x0.a = a /\ x0.b = b /\ x0.c = c
  BY WindowsAre
<1>8. c - a \in Nat
  BY DEF Window
<1> HIDE DEF x0
<1>9. join[x0] = InOrderAt(x0)
  BY <1>6, <1>7, <1>8
<1> QED
  BY <1>1, <1>7, <1>9 DEF InOrderAt

-----------------------------------------------------------------------------
(* The update: any sequence of them                                        *)

\* Vector and changes are sorted, and the vector is the map it stands for.
VectorIsSorted ==
    /\ vector \in Seq(Elements) /\ changes \in Seq(Elements) /\ Ascending(changes)
    /\ UpdateIsMapMerge

\* An empty vector is sorted.
LEMMA VectorStarts == UpdateInit => VectorIsSorted
<1> SUFFICES ASSUME UpdateInit PROVE VectorIsSorted
  OBVIOUS
<1>1. vector = <<>> /\ before = <<>> /\ changes = <<>>
  BY DEF UpdateInit
<1>2. \A k \in Keys : ValueAt(<<>>, k) = 0
  BY DEF ValueAt
<1>3. Ascending(vector) /\ \A i \in DOMAIN vector : vector[i][2] # 0
  BY <1>1 DEF Ascending
<1>4. vector \in Seq(Elements)
  BY <1>1
<1>5. \A k \in Keys : ValueAt(vector, k) = ValueAt(before, k) + ValueAt(changes, k)
  BY <1>1, <1>2
<1>6. changes \in Seq(Elements) /\ Ascending(changes)
  BY <1>1 DEF Ascending
<1> QED
  BY <1>3, <1>4, <1>5, <1>6 DEF VectorIsSorted, UpdateIsMapMerge

\* An update keeps the vector sorted.
LEMMA VectorStays == VectorIsSorted /\ [UpdateNext]_updateVars => VectorIsSorted'
<1> SUFFICES ASSUME VectorIsSorted, [UpdateNext]_updateVars PROVE VectorIsSorted'
  OBVIOUS
<1>1. CASE UNCHANGED updateVars
  <2>1. vector' = vector /\ before' = before /\ changes' = changes
    BY <1>1 DEF updateVars
  <2>2. /\ vector' \in Seq(Elements) /\ Ascending(vector')
        /\ \A i \in DOMAIN vector' : vector'[i][2] # 0
        /\ \A k \in Keys : ValueAt(vector', k) = ValueAt(before', k) + ValueAt(changes', k)
    BY <2>1 DEF VectorIsSorted, UpdateIsMapMerge
  <2>3. changes' \in Seq(Elements) /\ Ascending(changes')
    BY <2>1 DEF VectorIsSorted
  <2> QED  BY <2>2, <2>3 DEF VectorIsSorted, UpdateIsMapMerge, Ascending, ValueAt
<1>2. CASE UpdateNext
  <2>1. PICK b \in SortedVectors(ChangeValues) : Update(b)
    BY <1>2 DEF UpdateNext
  <2>2. b \in Seq(Elements) /\ Ascending(b)
    <3>1. b \in BoundedSeq(Keys \X ChangeValues, Cardinality(Keys)) /\ Ascending(b)
      BY DEF SortedVectors
    <3>2. PICK k \in 0..Cardinality(Keys) : b \in [1..k -> Keys \X ChangeValues]
      BY <3>1 DEF BoundedSeq, SeqOf
    <3>3. Keys \X ChangeValues \subseteq Elements
      BY UpdateAssumption DEF Elements
    <3>4. k \in Nat
      OBVIOUS
    <3>5. b \in Maps(1..k, Elements)
      BY <3>2, <3>3 DEF Maps
    <3> QED  BY <3>1, <3>4, <3>5, MapsAreSequences
  <2>3. vector \in Seq(Elements) /\ Ascending(vector)
    BY DEF VectorIsSorted, UpdateIsMapMerge
  <2>4. Inputs(vector, Len(vector), b, Len(b))
    BY <2>2, <2>3, AscendingIsSorted DEF Inputs
  <2>5. Updated(vector', vector, b)
    <3>1. Updated(monotonic_vector_update(vector, b), vector, b)
      BY <2>4, UpdateIs
    <3> QED  BY <2>1, <3>1 DEF Update
  <2>6. before' = vector /\ changes' = b
    BY <2>1 DEF Update
  <2>7. /\ vector' \in Seq(Elements) /\ Sorted(vector', Len(vector'))
        /\ \A i \in DOMAIN vector' : vector'[i][2] # 0
        /\ \A k : ValueAt(vector', k) = Sum(vector, b, k)
    BY <2>5 DEF Updated
  <2>8. Ascending(vector')
    BY <2>7, AscendingIsSorted
  <2>9. \A k \in Keys : ValueAt(vector', k) = ValueAt(before', k) + ValueAt(changes', k)
    BY <2>6, <2>7 DEF Sum
  <2>10. changes' \in Seq(Elements) /\ Ascending(changes')
    BY <2>2, <2>6
  <2> QED  BY <2>7, <2>8, <2>9, <2>10 DEF VectorIsSorted, UpdateIsMapMerge, Ascending, ValueAt
<1> QED
  BY <1>1, <1>2

\* Any sequence of updates, of any size, leaves the vector sorted by key, each key with
\* the sum of what was there and what was added, and no zeros.
THEOREM UpdateStaysMapMerge == UpdateSpec => []UpdateIsMapMerge
<1>1. VectorIsSorted => UpdateIsMapMerge
  BY DEF VectorIsSorted
<1> QED
  BY <1>1, VectorStarts, VectorStays, PTL DEF UpdateSpec

\* Two sorted vectors one behind the other are what both joins are for.
LEMMA SortedJoinsAgree == VectorIsSorted => JoinsAgree
<1> SUFFICES ASSUME VectorIsSorted PROVE JoinsAgree
  OBVIOUS
<1> DEFINE x == vector \o changes
           n == Len(x)
           b == Len(vector) + 1
           v2 == monotonic_join_v2(x, b)
           v5 == monotonic_join_v5(x, 1, b, n + 1)
           o == MergeOrder(x, 1, b, n + 1)
<1>1. /\ vector \in Seq(Elements) /\ changes \in Seq(Elements)
      /\ Sorted(vector, Len(vector)) /\ Sorted(changes, Len(changes))
  BY AscendingIsSorted DEF VectorIsSorted, UpdateIsMapMerge
<1>2. /\ x \in Seq(Elements) /\ n = Len(vector) + Len(changes)
      /\ \A i \in 1..n : x[i] = IF i <= Len(vector) THEN vector[i] ELSE changes[i - Len(vector)]
  BY <1>1, ConcatProperties
<1> HIDE DEF x
<1>3. n \in Nat /\ b \in 1..(n + 1) /\ DOMAIN x = 1..n /\ Len(vector) \in Nat /\ Len(changes) \in Nat
  BY <1>1, <1>2
<1>4. ASSUME NEW i \in 1..n, NEW j \in 1..n, i <= j, j < b \/ b <= i
      PROVE  x[i][1] <= x[j][1]
  <2>1. x[i][1] \in Int /\ x[j][1] \in Int
    <3>1. x[i] \in Elements /\ x[j] \in Elements
      BY <1>2
    <3> QED  BY <3>1 DEF Elements
  <2>2. CASE i = j
    BY <2>1, <2>2
  <2>3. CASE i < j /\ j < b
    <3>1. i \in 1..Len(vector) /\ j \in 1..Len(vector) /\ i <= Len(vector) /\ j <= Len(vector)
      BY <1>3, <2>3
    <3>2. vector[i][1] < vector[j][1]
      BY <1>1, <2>3, <3>1 DEF Sorted, Run
    <3>3. x[i] = vector[i] /\ x[j] = vector[j]
      BY <1>2, <3>1
    <3> QED  BY <2>1, <3>2, <3>3
  <2>4. CASE i < j /\ b <= i
    <3> DEFINE k == i - Len(vector)
               l == j - Len(vector)
    <3>1. /\ k \in 1..Len(changes) /\ l \in 1..Len(changes) /\ k < l
          /\ ~(i <= Len(vector)) /\ ~(j <= Len(vector))
      BY <1>2, <1>3, <2>4
    <3>2. x[i] = changes[k] /\ x[j] = changes[l]
      BY <1>2, <3>1
    <3> HIDE DEF k, l
    <3>3. changes[k][1] < changes[l][1]
      BY <1>1, <3>1 DEF Sorted, Run
    <3> QED  BY <2>1, <3>2, <3>3
  <2> QED  BY <1>3, <1>4, <2>2, <2>3, <2>4
<1>5. AreRuns(x, 1, b, n + 1)
  <2>1. (n + 1) - 1 = n
    BY <1>3
  <2> HIDE DEF n, b
  <2>2. \A i, j \in 1..n : i <= j /\ (j < b \/ b <= i) => x[i][1] <= x[j][1]
    BY <1>3, <1>4
  <2> QED  BY <1>3, <2>1, <2>2 DEF AreRuns
<1>6. Window(x, 1, b, n + 1)
  BY <1>2, <1>3, <1>5 DEF Window
<1>7. v5 = [k \in 1..n |-> IF 1 <= k /\ k < n + 1 THEN x[o[k - 1 + 1]] ELSE x[k]]
  <2>1. v5 = InOrder(x, 1, b, n + 1)
    BY <1>6, DividingJoinIsInOrder
  <2> HIDE DEF v5
  <2> QED  BY <2>1 DEF InOrder
<1>8. v2 = [k \in 1..n |-> x[o[k]]]
  <2>1. n = Len(x)
    OBVIOUS
  <2> HIDE DEF n, b
  <2>2. monotonic_join_v2(x, b) = [k \in 1..n |-> x[MergeOrder(x, 1, b, n + 1)[k]]]
    BY ONLY <1>2, <1>3, <2>1, JoinIsInOrder
  <2> QED  BY <2>2
<1>9. v5 = [k \in 1..n |-> x[o[k]]]
  <2> HIDE DEF v5, o
  <2>1. \A k \in 1..n : k - 1 + 1 = k /\ 1 <= k /\ k < n + 1
    BY <1>3
  <2> HIDE DEF n
  <2> QED  BY <1>7, <2>1
<1>10. v2 = [i \in DOMAIN x |-> x[o[i]]] /\ v5 = v2
  BY <1>3, <1>8, <1>9
<1> QED
  BY <1>10 DEF JoinsAgree, x

\* After any sequence of updates, both joins bring the vector and the last changes in the
\* same order, that of the merge (v2.hpp:13, v5.hpp:13).
THEOREM JoinsAgreeAlways == UpdateSpec => []JoinsAgree
BY SortedJoinsAgree, VectorStarts, VectorStays, PTL DEF UpdateSpec
=============================================================================
