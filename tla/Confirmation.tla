---------------------------- MODULE Confirmation ----------------------------
(***************************************************************************)
(* How a spoken reply to a confirmation is read                              *)
(* (gateway/app/audio/confirmation.py).  A reply is a sequence of lower-case  *)
(* words, each with the punctuation the recogniser put behind it.            *)
(***************************************************************************)
EXTENDS Naturals, Sequences

Affirmative ==
    {<<"yes">>, <<"yeah">>, <<"yep">>, <<"yup">>, <<"sure">>, <<"correct">>, <<"confirm">>,
     <<"confirmed">>, <<"right">>, <<"ok">>, <<"okay">>, <<"affirmative">>, <<"go", "ahead">>,
     <<"please", "do">>, <<"do", "it">>, <<"sounds", "good">>, <<"that", "works">>,
     <<"that's", "right">>, <<"thats", "right">>}

Negative ==
    {<<"no">>, <<"nope">>, <<"nah">>, <<"negative">>, <<"don't">>, <<"dont">>, <<"cancel">>,
     <<"wrong">>, <<"not", "right">>, <<"no", "thanks">>, <<"no", "thank", "you">>,
     <<"that's", "wrong">>, <<"thats", "wrong">>, <<"don't", "do", "that">>,
     <<"dont", "do", "that">>}

(* "stop" stands for the marks rstrip(".!?") takes off, "comma" for those it  *)
(* leaves.                                                                  *)
Marks == {"none", "comma", "stop"}
Word(w) == [word |-> w, mark |-> "none"]
Marked(w, m) == [word |-> w, mark |-> m]

Words(reply) == [i \in DOMAIN reply |-> reply[i].word]

(* Only the end of the reply loses its marks: a word that keeps one is a      *)
(* string that is in neither set.                                           *)
Clean(reply, i) ==
    reply[i].mark = "none" \/ (i = Len(reply) /\ reply[i].mark = "stop")

IsPhraseOf(reply, set) == Words(reply) \in set /\ \A i \in DOMAIN reply : Clean(reply, i)
HasWordOf(reply, set) == \E i \in DOMAIN reply : Clean(reply, i) /\ <<reply[i].word>> \in set

(* Mutant: the affirmative words before the negative ones. *)
InterpretationYesFirst(reply) ==
    IF IsPhraseOf(reply, Affirmative) THEN "yes"
    ELSE IF IsPhraseOf(reply, Negative) THEN "no"
    ELSE IF HasWordOf(reply, Affirmative) THEN "yes"
    ELSE IF HasWordOf(reply, Negative) THEN "no" ELSE "unclear"

(* True, False or None: the whole reply first, then its words, the negative   *)
(* ones before the affirmative ones.                                        *)
Interpretation(reply) ==
    CASE IsPhraseOf(reply, Affirmative) -> "yes"
      [] ~IsPhraseOf(reply, Affirmative)
         /\ (IsPhraseOf(reply, Negative) \/ HasWordOf(reply, Negative)) -> "no"
      [] ~IsPhraseOf(reply, Affirmative)
         /\ ~IsPhraseOf(reply, Negative) /\ ~HasWordOf(reply, Negative)
         /\ HasWordOf(reply, Affirmative) -> "yes"
      [] OTHER -> "unclear"

(* A reply that holds a negative word, with or without a mark behind it. *)
Refuses(reply) == \E i \in DOMAIN reply : <<reply[i].word>> \in Negative
=============================================================================
