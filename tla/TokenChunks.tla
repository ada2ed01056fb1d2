----------------------------- MODULE TokenChunks -----------------------------
(***************************************************************************)
(* Packing the tokens of sentences into inference calls of at most Budget  *)
(* tokens (synthesis/kokoro.py build_token_chunks), a sentence a step.     *)
(***************************************************************************)
EXTENDS Integers, Sequences, FiniteSets, Functions

CONSTANTS
  Budget,        \* KOKORO_MAX_TOKENS
  Lengths,       \* how many tokens a sentence may have
  MaxSentences

(* What an instance may give the constants. *)
ChunkAssumption ==
  /\ Budget \in Nat \ {0} /\ Lengths \subseteq Nat /\ MaxSentences \in Nat

Space == <<0, 0>>    \* _SPACE_TOKEN; every other token is <<sentence, place>>
Tokens(s, n) == [i \in 1 .. n |-> <<s, i>>]

(* How many tokens each sentence of a text has. *)
Texts == UNION {[1 .. n -> Lengths] : n \in 0 .. MaxSentences}

VARIABLES
  lengths,   \* tokens of every sentence
  next,      \* the sentence that is packed next
  chunks, current

vars == <<lengths, next, chunks, current>>

TypeOK ==
  /\ lengths \in Texts /\ next \in 1 .. Len(lengths) + 2
  /\ \A i \in DOMAIN chunks : chunks[i] # <<>> /\ Len(chunks[i]) <= Budget
  /\ Len(current) <= Budget

Init ==
  /\ lengths \in Texts
  /\ next = 1 /\ chunks = <<>> /\ current = <<>>

-----------------------------------------------------------------------------
Flushed == IF current = <<>> THEN chunks ELSE Append(chunks, current)

(* A sentence longer than the budget is cut into pieces of the budget. *)
Pieces(tokens) ==
  [k \in 1 .. (Len(tokens) + Budget - 1) \div Budget |->
     SubSeq(tokens, (k - 1) * Budget + 1, IF k * Budget < Len(tokens) THEN k * Budget ELSE Len(tokens))]

PackLong(tokens) ==
  /\ Len(tokens) > Budget
  /\ chunks' = Flushed \o Pieces(tokens) /\ current' = <<>>

Fits(tokens) == current # <<>> /\ Len(current) + 1 + Len(tokens) <= Budget

PackShort(tokens) ==
  /\ Len(tokens) \in 1 .. Budget
  /\ IF Fits(tokens)
     THEN current' = current \o <<Space>> \o tokens /\ UNCHANGED chunks
     ELSE chunks' = Flushed /\ current' = tokens

(* One turn of the loop; a sentence without tokens is passed over. *)
Pack ==
  LET tokens == Tokens(next, lengths[next]) IN
  /\ next <= Len(lengths)
  /\ next' = next + 1 /\ UNCHANGED lengths
  /\ (tokens = <<>> /\ UNCHANGED <<chunks, current>>) \/ PackLong(tokens) \/ PackShort(tokens)

Finish ==
  /\ next = Len(lengths) + 1 /\ next' = next + 1
  /\ chunks' = Flushed /\ current' = <<>> /\ UNCHANGED lengths

Next == Pack \/ Finish

Spec == Init /\ [][Next]_vars

Done == next = Len(lengths) + 2

-----------------------------------------------------------------------------
Spoken(seq) == SelectSeq(seq, LAMBDA token : token # Space)
Joined(seqs) == FoldFunction(LAMBDA seq, rest : seq \o rest, <<>>, seqs)
AllTokens == Joined([s \in DOMAIN lengths |-> Tokens(s, lengths[s])])

(* At the end every token of the text is spoken, once and in order. *)
NothingLost == Done => Spoken(Joined(chunks)) = AllTokens

(* Within a call two sentences are parted by one space, and spaces stand nowhere else. *)
SentencesSpaced ==
  Done => \A c \in Range(chunks) :
    /\ Space \notin {c[1], c[Len(c)]}
    /\ \A i \in 1 .. Len(c) - 1 :
         IF Space \in {c[i], c[i + 1]} THEN c[i] # c[i + 1] ELSE c[i][1] = c[i + 1][1]

(* A sentence that fits into one call is not cut in two. *)
ShortSentencesWhole ==
  Done => \A s \in DOMAIN lengths : lengths[s] \in 1 .. Budget =>
    Cardinality({k \in DOMAIN chunks : \E i \in DOMAIN chunks[k] : chunks[k][i][1] = s}) = 1

(* Two neighbouring chunks of short sentences would not have fitted into one call: the text *)
(* takes no more calls than it must.                                                         *)
NoNeedlessCall ==
  Done => \A k \in 1 .. Len(chunks) - 1 :
    LET short(c) == lengths[c[1][1]] <= Budget
        first(c) == lengths[c[1][1]] IN
    short(chunks[k]) /\ short(chunks[k + 1]) => Len(chunks[k]) + 1 + first(chunks[k + 1]) > Budget

=============================================================================
