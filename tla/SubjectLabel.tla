---------------------------- MODULE SubjectLabel -----------------------------
(***************************************************************************)
(* The sender label in the subject (SubjectConfig, crates/core/src/        *)
(* config.rs).  Texts are sequences of tokens; "%" is a token of its own,  *)
(* so that the placeholders %name% and %original% can overlap as they do   *)
(* in the strings.                                                         *)
(***************************************************************************)
EXTENDS Integers, Sequences, SequencesExt

NamePlaceholder     == <<"%", "name", "%">>
OriginalPlaceholder == <<"%", "original", "%">>

contains(text, pattern) == pattern \in SubSeqs(text)

(* str::replace: every occurrence from the left, without overlap. *)
replace(text, pattern, by) ==
  LET n == Len(pattern)
      from[k \in 1..(Len(text) + 1)] ==
        CASE k > Len(text) -> <<>>
          [] k + n - 1 <= Len(text) /\ SubSeq(text, k, k + n - 1) = pattern
               -> by \o from[k + n]
          [] OTHER -> <<text[k]>> \o from[k + 1]
  IN  from[1]

(* The format of the sender, if it has one of its own. *)
format_for(subject, sender) ==
  IF sender \in DOMAIN subject.senders THEN subject.senders[sender] ELSE subject.format

render_original_first(subject, sender, original) ==    \* mutant: swapped order
  replace(replace(format_for(subject, sender), OriginalPlaceholder, original),
          NamePlaceholder, sender)

render(subject, sender, original) ==
  replace(replace(format_for(subject, sender), NamePlaceholder, sender),
          OriginalPlaceholder, original)

(* What Config::validate asks of the formats. *)
formats_valid(subject) ==
  /\ contains(subject.format, OriginalPlaceholder)
  /\ \A sender \in DOMAIN subject.senders :
       contains(subject.senders[sender], OriginalPlaceholder)
-----------------------------------------------------------------------------
FormatsOf(subject) == {subject.format} \cup {subject.senders[n] : n \in DOMAIN subject.senders}

(* The pattern stands in the text, after its first i tokens. *)
OccursAt(text, pattern, i) ==
  /\ i \in Nat /\ i + Len(pattern) <= Len(text)
  /\ \A k \in 1..Len(pattern) : text[i + k] = pattern[k]

(* So does q, and it shares no token with an occurrence of the pattern. *)
ApartAt(text, q, pattern, i) ==
  /\ OccursAt(text, q, i)
  /\ \A j \in 0..Len(text) :
       OccursAt(text, pattern, j) => j + Len(pattern) <= i \/ i + Len(q) <= j

(* In every format some %original% shares no "%" with a %name%: more than   *)
(* Config::validate asks for, and what the label needs.                     *)
LabelsApart(subject) ==
  \A format \in FormatsOf(subject) :
    \E i \in 0..Len(format) : ApartAt(format, OriginalPlaceholder, NamePlaceholder, i)
=============================================================================
