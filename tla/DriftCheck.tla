------------------------------ MODULE DriftCheck ------------------------------
(***************************************************************************)
(* The words of a profile job: from Parakeet's tokens                      *)
(* (parakeet_payload_words in transcriptions/profiles.py), through the     *)
(* grid of the drift check and the retries of its flagged windows          *)
(* (window_words in windows.py), to the spliced list (drift.py).           *)
(***************************************************************************)
EXTENDS Integers, Sequences, FiniteSets, Functions

CONSTANTS
  W,                   \* window_seconds
  Starts,              \* times of Parakeet's tokens
  RetryStarts,         \* times of whisper.cpp's tokens: its clip is longer than the window
  MinEnglish, MinShare,\* the rule: min_english, and min_english_share as a percentage
  MaxTokens, MaxRetry  \* bounds on the tokens of Parakeet and of a retry

(* What an instance may give the constants. *)
DriftAssumption ==
  /\ W \in Nat \ {0} /\ Starts \subseteq Nat /\ RetryStarts \subseteq Nat
  /\ MinEnglish \in Nat /\ MinShare \in Nat /\ MaxTokens \in Nat /\ MaxRetry \in Nat

(* A token of Parakeet begins a word or goes on with one; its text is or is not a function *)
(* word of one of the two languages.                                                        *)
Token == [begins : BOOLEAN, start : Starts, lang : {"en", "de", "none"}]

(* A token of whisper.cpp begins a word, goes on with one, is punctuation (with or without *)
(* a space before it), or is white space or special.                                        *)
RetryToken == [kind : {"begin", "piece", "punctuation"}, start : RetryStarts]
                \cup [kind : {"skipped"}, start : {0}]

VARIABLES
  tokens,    \* Parakeet's tokens read so far
  words,     \* parakeet_payload_words of them
  stage,     \* "reading", "checking", "retrying" or "spliced"
  waiting,   \* grid windows not looked at yet
  heard,     \* tokens of the retry under way
  records,   \* the windows' records
  replaced,  \* replacements
  result     \* the profile's words

vars == <<tokens, words, stage, waiting, heard, records, replaced, result>>

Word == [start : Nat, lang : {"en", "de", "none"}, from : {"parakeet", "retry"}, said : Seq(Nat)]

TypeOK ==
  /\ tokens \in Seq(Token) /\ Len(tokens) <= MaxTokens
  /\ words \in Seq(Word) /\ result \in Seq(Word)
  /\ stage \in {"reading", "checking", "retrying", "spliced"}
  /\ waiting \subseteq Nat /\ DOMAIN records \subseteq Nat /\ DOMAIN replaced \subseteq DOMAIN records
  /\ waiting \cap DOMAIN records = {}
  /\ heard \in Seq(RetryToken) /\ Len(heard) <= MaxRetry

Init ==
  /\ tokens = <<>> /\ words = <<>> /\ stage = "reading"
  /\ waiting = {} /\ heard = <<>>
  /\ records = <<>> /\ replaced = <<>> /\ result = <<>>

-----------------------------------------------------------------------------
WindowIndex(start) == start \div W

InWindow(seq, i) == SelectSeq(seq, LAMBDA word : WindowIndex(word.start) = i)

(* One token of parakeet_payload_words: a word that goes on is no function word any more. *)
ReadToken(token) ==
  LET i == Len(tokens) + 1 IN
  /\ stage = "reading" /\ i <= MaxTokens
  /\ tokens' = Append(tokens, token)
  /\ words' = IF words = <<>> \/ token.begins
              THEN Append(words, [start |-> token.start, lang |-> token.lang, from |-> "parakeet", said |-> <<i>>])
              ELSE [words EXCEPT ![Len(words)].lang = "none", ![Len(words)].said = Append(@, i)]
  /\ UNCHANGED <<stage, waiting, heard, records, replaced, result>>

(* run_drift_check for a language it checks: grid_windows has only windows with words. *)
StartCheck ==
  /\ stage = "reading"
  /\ stage' = "checking" /\ waiting' = {WindowIndex(words[i].start) : i \in DOMAIN words}
  /\ UNCHANGED <<tokens, words, heard, records, replaced, result>>

(* Other languages: the words as they are. *)
SkipCheck ==
  /\ stage = "reading"
  /\ stage' = "spliced" /\ result' = words
  /\ UNCHANGED <<tokens, words, waiting, heard, records, replaced>>

English(i) == Len(SelectSeq(InWindow(words, i), LAMBDA word : word.lang = "en"))
German(i) == Len(SelectSeq(InWindow(words, i), LAMBDA word : word.lang = "de"))

(* DriftRule.flags *)
Flags(english, german) == english >= MinEnglish /\ 100 * english >= MinShare * (english + german)

NextWindow == CHOOSE i \in waiting : \A j \in waiting : i <= j

Record(i, after, accepted) ==
  records' = [j \in DOMAIN records \cup {i} |->
                IF j = i THEN [flagged |-> Flags(English(i), German(i)), accepted |-> accepted,
                               before |-> Len(InWindow(words, i)), after |-> after]
                ELSE records[j]]

(* The next window of the loop: kept, or a retry begins. *)
CheckWindow ==
  /\ stage = "checking" /\ waiting # {}
  /\ LET i == NextWindow IN
     IF Flags(English(i), German(i))
     THEN stage' = "retrying" /\ UNCHANGED <<waiting, records>>
     ELSE /\ Record(i, Len(InWindow(words, i)), FALSE)
          /\ waiting' = waiting \ {i} /\ UNCHANGED stage
  /\ UNCHANGED <<tokens, words, heard, replaced, result>>

HearToken(token) ==
  /\ stage = "retrying" /\ Len(heard) < MaxRetry
  /\ heard' = Append(heard, token)
  /\ UNCHANGED <<tokens, words, stage, waiting, records, replaced, result>>

(* window_words before its filter: punctuation goes to the word before it, or nowhere. *)
RetryWords(toks) ==
  LET upTo[n \in 0 .. Len(toks)] ==
        IF n = 0 THEN <<>>
        ELSE LET acc == upTo[n - 1] IN
             CASE toks[n].kind = "begin" \/ (toks[n].kind = "piece" /\ acc = <<>>) ->
                    Append(acc, [start |-> toks[n].start, lang |-> "none", from |-> "retry", said |-> <<n>>])
               [] toks[n].kind \in {"piece", "punctuation"} /\ acc # <<>> ->
                    [acc EXCEPT ![Len(acc)].said = Append(@, n)]
               [] OTHER -> acc
  IN  upTo[Len(toks)]

(* Variant with a fault, for comparison only: the words of the whole clip. *)
ClipWords(toks, i) == RetryWords(toks)

(* Kept are the words that start in [t, t + 30). *)
WindowWords(toks, i) == SelectSeq(RetryWords(toks), LAMBDA w : i * W <= w.start /\ w.start < i * W + W)

(* The retry's answer: accepted when the language and its probability agree with the rule. *)
JudgeRetry(accepted) ==
  /\ stage = "retrying"
  /\ LET i == NextWindow
         retry == WindowWords(heard, i) IN
     /\ Record(i, IF accepted THEN Len(retry) ELSE Len(InWindow(words, i)), accepted)
     /\ replaced' = IF accepted
                    THEN [j \in DOMAIN replaced \cup {i} |-> IF j = i THEN retry ELSE replaced[j]]
                    ELSE replaced
     /\ waiting' = waiting \ {i}
  /\ heard' = <<>> /\ stage' = "checking"
  /\ UNCHANGED <<tokens, words, result>>

(* A stable sort by start. *)
ByStart(seq) ==
  LET place(i) == Cardinality({j \in DOMAIN seq : seq[j].start < seq[i].start
                                                  \/ (seq[j].start = seq[i].start /\ j <= i)})
  IN  [n \in DOMAIN seq |-> seq[CHOOSE i \in DOMAIN seq : place(i) = n]]

(* splice_words; replacements never share a start, so that their order is of no matter. *)
SpliceWords(list, with) ==
  ByStart(SelectSeq(list, LAMBDA word : WindowIndex(word.start) \notin DOMAIN with)
            \o FoldFunction(LAMBDA replacement, rest : replacement \o rest, <<>>, with))

Splice ==
  /\ stage = "checking" /\ waiting = {}
  /\ stage' = "spliced" /\ result' = SpliceWords(words, replaced)
  /\ UNCHANGED <<tokens, words, waiting, heard, records, replaced>>

Next ==
  \/ \E token \in Token : ReadToken(token)
  \/ StartCheck \/ SkipCheck \/ CheckWindow
  \/ \E token \in RetryToken : HearToken(token)
  \/ \E accepted \in BOOLEAN : JudgeRetry(accepted)
  \/ Splice

Spec == Init /\ [][Next]_vars

-----------------------------------------------------------------------------
(* Properties *)

(* No token of Parakeet's is lost or said twice on the way to its words. *)
EveryTokenInOneWord ==
  FoldFunction(LAMBDA word, rest : word.said \o rest, <<>>, words) = [i \in 1 .. Len(tokens) |-> i]

(* The records count the words the result really has: in each grid window as many as    *)
(* words_after says, and there are no words outside the recorded windows.  A retry's     *)
(* words must start in the window they were asked for, or another window's count is off. *)
RecordsCountWords ==
  (stage = "spliced" /\ DOMAIN records # {}) =>
    /\ \A i \in DOMAIN records : Len(InWindow(result, i)) = records[i].after
    /\ \A n \in DOMAIN result : WindowIndex(result[n].start) \in DOMAIN records

(* Whisper's words replace Parakeet's in whole windows: no window of the result has words *)
(* of both, and Parakeet's give way only in windows full enough of English.                *)
NoMixedWindow ==
  stage = "spliced" =>
    /\ \A m, n \in DOMAIN result :
         WindowIndex(result[m].start) = WindowIndex(result[n].start) => result[m].from = result[n].from
    /\ \A n \in DOMAIN words : words[n] \notin {result[m] : m \in DOMAIN result} =>
         LET i == WindowIndex(words[n].start) IN
         /\ i \in DOMAIN records /\ records[i].accepted
         /\ Cardinality({m \in DOMAIN words : WindowIndex(words[m].start) = i /\ words[m].lang = "en"}) >= MinEnglish

(* The words that stay keep their order among equal starts, and a checked result is      *)
(* sorted by start.                                                                        *)
ResultInOrder ==
  (stage = "spliced" /\ DOMAIN records # {}) =>
    \A m, n \in DOMAIN result : m < n =>
      /\ result[m].start <= result[n].start
      /\ (result[m].start = result[n].start /\ result[m].from = result[n].from)
           => result[m].said[1] < result[n].said[1]

=============================================================================
