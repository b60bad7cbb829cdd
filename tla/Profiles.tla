------------------------------ MODULE Profiles ------------------------------
(***************************************************************************)
(* The profile of a recommendation: what is kept of the answers and the    *)
(* notes, and when the stored profile of an earlier request is used again. *)
(* A text is a word and whether it is written plainly, or with capitals or *)
(* blanks around it.                                                       *)
(***************************************************************************)
EXTENDS Integers, Sequences, FiniteSets

CONSTANTS
  Word,
  Empty,         \* the word of a text without letters
  NoPreference,
  Omitted        \* notes that were not given

Text == [word: Word \cup {Empty, NoPreference}, plain: BOOLEAN]

Lists == {"genres", "emotional_outcomes", "visual_tonal_vibes"}

\* QuestionnaireRequest, with the notes
Questionnaire ==
  [genres: Seq(Text), emotional_outcomes: Seq(Text), visual_tonal_vibes: Seq(Text),
   runtime: STRING, viewing_context: STRING, thinking_effort: STRING, pacing: STRING,
   era: STRING, subtitle_preference: STRING, obscurity_preference: STRING,
   notes: Text \cup {Omitted}]

\* build_structured_profile: the answers without the notes
Structured(q) == [a \in DOMAIN q \ {"notes"} |-> q[a]]

\* The sorted words of a list, blanks left out: how often each is there.
Words(texts) ==
  [w \in Word \cup {NoPreference} |->
     Cardinality({i \in DOMAIN texts : texts[i].word = w})]

\* notes are dropped when they are empty, and trimmed afterwards
Noted(notes) ==
  IF notes = Omitted \/ notes = [word |-> Empty, plain |-> TRUE] THEN Omitted
  ELSE notes.word

\* mistake: an answer that is scored is left out of the hash
Canonical_NoEra(q) ==
  [a \in DOMAIN q \ {"era"} |->
     IF a = "notes" THEN Noted(q.notes)
     ELSE IF a \in Lists THEN Words(q[a]) ELSE q[a]]

\* canonicalize: profiles that agree on this have one profile_hash
Canonical(q) ==
  [a \in DOMAIN q |->
     IF a = "notes" THEN Noted(q.notes)
     ELSE IF a \in Lists THEN Words(q[a]) ELSE q[a]]

\* resolve_profile of a request that follows another: the stored profile, with
\* the texts of the request that stored it, or one of its own
Resolved(stored, q) ==
  IF Canonical(stored) = Canonical(q)
  THEN [hit |-> TRUE, structured |-> Structured(stored), notes |-> stored.notes]
  ELSE [hit |-> FALSE, structured |-> Structured(q), notes |-> q.notes]

\* What stage 3 reads of a list: _normalize_list, and _overlap_score's set.
Preferences(texts) ==
  {texts[i].word : i \in DOMAIN texts} \ {Empty, NoPreference}

\* what stage 3 reads of a profile
Asked(profile) ==
  [genres |-> Preferences(profile.genres),
   emotions |-> Preferences(profile.emotional_outcomes), pacing |-> profile.pacing,
   effort |-> profile.thinking_effort, era |-> profile.era,
   obscurity |-> profile.obscurity_preference, context |-> profile.viewing_context]
=============================================================================
