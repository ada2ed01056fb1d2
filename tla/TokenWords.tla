------------------------------ MODULE TokenWords ------------------------------
(***************************************************************************)
(* Words with times from the tokens of one segment or sentence             *)
(* (transcriptions/service.py): whispercpp_segment_words and               *)
(* parakeet_sentence_words read the tokens one after the other, clamp      *)
(* their times and give up on the whole segment at the first malformed     *)
(* one.  Here both read the same tokens.                                   *)
(***************************************************************************)
EXTENDS Integers, Sequences, Functions

CONSTANTS
  Start, End,     \* the segment
  Times,          \* what a back end may write as a time
  MaxTokens       \* bound on the tokens of a segment

(* What an instance may give the constants. *)
TokenAssumption ==
  /\ Start \in Nat /\ End \in Nat /\ Start < End /\ Times \subseteq Int /\ MaxTokens \in Nat

(* A token begins a word (it has a leading space), goes on with one, is white space,  *)
(* is special ([_BEG_]), or is malformed.                                              *)
Token == [kind : {"begin", "piece", "blank"}, from : Times, to : Times]
           \cup [kind : {"special", "malformed"}, from : {0}, to : {0}]

VARIABLES
  read,       \* the tokens so far
  cppWords,   \* words of whispercpp_segment_words: [start, end, parts], parts numbers tokens
  boundary,   \* its boundary_pending
  parWords,   \* words of parakeet_sentence_words, with empty ones
  dropped     \* the segment has lost its words

vars == <<read, cppWords, boundary, parWords, dropped>>

Word == [start : Int, end : Int, parts : Seq(1 .. MaxTokens)]

TypeOK ==
  /\ read \in Seq(Token) /\ Len(read) <= MaxTokens
  /\ cppWords \in Seq(Word) /\ parWords \in Seq(Word)
  /\ \A i \in 1 .. Len(cppWords) : cppWords[i].parts # <<>>
  /\ dropped => cppWords = <<>> /\ parWords = <<>>

Init ==
  /\ read = <<>>
  /\ cppWords = <<>> /\ boundary = TRUE /\ parWords = <<>>
  /\ dropped = FALSE

-----------------------------------------------------------------------------
Least(a, b) == IF a < b THEN a ELSE b
Greatest(a, b) == IF a > b THEN a ELSE b

(* Clamped into the segment and kept non-decreasing. *)
Clamped(words, token) ==
  LET floor == IF words = <<>> THEN Start ELSE words[Len(words)].start
      start == Least(Greatest(token.from, floor), End)
  IN  [start |-> start, end |-> Least(Greatest(token.to, start), End)]

Extended(words, time, part) ==
  [words EXCEPT ![Len(words)].end = Greatest(@, time.end), ![Len(words)].parts = @ \o part]

Begun(words, time, part) == Append(words, [start |-> time.start, end |-> time.end, parts |-> part])

(* whispercpp_segment_words: special tokens are skipped, white space separates. *)
CppStep(words, pending, token, i) ==
  LET time == Clamped(words, token) IN
  CASE token.kind = "special" -> [words |-> words, pending |-> pending]
    [] token.kind = "blank" -> [words |-> words, pending |-> TRUE]
    [] words # <<>> /\ ~pending /\ token.kind # "begin" ->
         [words |-> Extended(words, time, <<i>>), pending |-> FALSE]
    [] OTHER -> [words |-> Begun(words, time, <<i>>), pending |-> FALSE]

(* parakeet_sentence_words: white space begins a word that is empty so far.  It gets no *)
(* special tokens; they are whisper.cpp's.                                             *)
ParakeetStep(words, token, i) ==
  LET time == Clamped(words, token)
      part == IF token.kind = "blank" THEN <<>> ELSE <<i>> IN
  IF token.kind = "special" THEN words
  ELSE IF words # <<>> /\ token.kind = "piece" THEN Extended(words, time, part)
  ELSE Begun(words, time, part)

Read(token) ==
  LET i == Len(read) + 1
      cpp == CppStep(cppWords, boundary, token, i) IN
  /\ ~dropped /\ Len(read) < MaxTokens
  /\ read' = Append(read, token)
  /\ IF token.kind = "malformed"
     THEN /\ cppWords' = <<>> /\ parWords' = <<>>
          /\ dropped' = TRUE
          /\ UNCHANGED boundary
     ELSE /\ cppWords' = cpp.words /\ boundary' = cpp.pending
          /\ parWords' = ParakeetStep(parWords, token, i)
          /\ UNCHANGED dropped

Next == \E token \in Token : Read(token)

Spec == Init /\ [][Next]_vars

-----------------------------------------------------------------------------
(* Properties *)

(* The words parakeet_sentence_words returns. *)
Spoken == SelectSeq(parWords, LAMBDA w : w.parts # <<>>)

(* Every word lies in the segment, ends no earlier than it starts, and starts no    *)
(* earlier than the word before it, however the back end's times are out of order.  *)
WordsInOrder ==
  \A words \in {cppWords, Spoken} :
    /\ \A i \in 1 .. Len(words) : Start <= words[i].start /\ words[i].start <= words[i].end
                                  /\ words[i].end <= End
    /\ \A i \in 1 .. Len(words) - 1 : words[i].start <= words[i + 1].start

(* The words say all that the tokens say, in order, or there are none: "a partial    *)
(* word list would misplace the rest".                                                *)
NothingLost ==
  LET text == SelectSeq([i \in 1 .. Len(read) |-> i], LAMBDA i : read[i].kind \in {"begin", "piece"})
      said(words) == FoldFunction(LAMBDA w, rest : w.parts \o rest, <<>>, words)
      garbled == \E i \in 1 .. Len(read) : read[i].kind = "malformed" IN
  \A words \in {cppWords, Spoken} : said(words) = IF garbled THEN <<>> ELSE text

(* The two back ends' tokens are cut into the same words. *)
SameCut ==
  /\ Len(cppWords) = Len(Spoken)
  /\ \A i \in 1 .. Len(cppWords) : cppWords[i].parts = Spoken[i].parts

(* A word lasts as long as its longest piece: its end never moves back. *)
EndsOnlyGrow ==
  \A i \in 1 .. Len(cppWords) : i <= Len(cppWords') => cppWords[i].end <= cppWords'[i].end

=============================================================================
