------------------------------- MODULE Consensus -------------------------------
(***************************************************************************)
(* What the consensus engine does with the answers of several brains       *)
(* (saturnix_harness/core/consensus_engine.py).                            *)
(*                                                                         *)
(* An answer is abstracted to what the heuristics tell apart: the marks of *)
(* its text, its key claims, each a subject with a polarity, and what its  *)
(* text is about, which counts when no line of it makes a claim.  A        *)
(* subject stands for the words of a claim: claims on one subject overlap, *)
(* claims on two do not.  Scores are in hundredths, confidence in          *)
(* hundredths of hundredths; its rounding is left out.                     *)
(***************************************************************************)
EXTENDS BrainRouter, Sequences, FiniteSetsExt, SequencesExt

TargetBrains == <<"openai", "claude", "gemini", "ollama_gemma", "ollama_coding">>

\* Mutant: the number of brains asked is not limited.
SelectProvidersAll(enabled, includeLocal, most) ==
    LET able(p) == p \in enabled /\ (includeLocal \/ p \notin LocalProvider)
        asked[i \in 0..Len(TargetBrains)] ==
            IF i = 0 THEN <<>>
            ELSE IF able(TargetBrains[i]) THEN Append(asked[i - 1], TargetBrains[i])
            ELSE asked[i - 1]
        providers == asked[Len(TargetBrains)]
    IN  IF providers # <<>> THEN providers
        ELSE IF "mock" \in enabled THEN <<"mock">> ELSE <<>>

\* _select_providers: the first of the enabled targets, or the mock provider.
SelectProviders(enabled, includeLocal, most) ==
    LET able(p) == p \in enabled /\ (includeLocal \/ p \notin LocalProvider)
        asked[i \in 0..Len(TargetBrains)] ==
            IF i = 0 THEN <<>>
            ELSE IF able(TargetBrains[i]) /\ Len(asked[i - 1]) < most
                 THEN Append(asked[i - 1], TargetBrains[i])
            ELSE asked[i - 1]
        providers == asked[Len(TargetBrains)]
    IN  IF providers # <<>> THEN providers
        ELSE IF "mock" \in enabled THEN <<"mock">> ELSE <<>>

Failed == [ok |-> FALSE, marks |-> {}, claims |-> {}, about |-> {}]

\* The answers brains may give about some subjects.
AnswersAbout(subjects) ==
    [ok : {TRUE}, marks : SUBSET {"long", "reasons", "hedged", "absolute"},
     claims : SUBSET [subject : subjects, polarity : {-1, 0, 1}], about : SUBSET subjects]

Successful(answers) == {i \in DOMAIN answers : answers[i].ok}

Subjects(a) == {c.subject : c \in a.claims}

\* _response_confidence.
ResponseConfidence(a) ==
    45 + (IF "long" \in a.marks THEN 15 ELSE 0)
       + (IF Cardinality(a.claims) >= 2 THEN 10 ELSE 0)
       + (IF "reasons" \in a.marks THEN 10 ELSE 0)
       - (IF "hedged" \in a.marks THEN 5 ELSE 0)
       - (IF "absolute" \in a.marks THEN 20 ELSE 0)

ScoreOf(a) == IF a.ok THEN ResponseConfidence(a) ELSE 0

Pairs(S) == {p \in S \X S : p[1] < p[2]}

\* _detect_conflicts, without its remark on lone answers.
Contradictions(answers) ==
    {x \in UNION {{<<p[1], c, p[2], d>> : c \in answers[p[1]].claims,
                                         d \in answers[p[2]].claims} :
                   p \in Pairs(Successful(answers))} :
        x[2].subject = x[4].subject /\ x[2].polarity * x[4].polarity < 0}

\* Mutant: a lone answer is not remarked on.
ConflictCountBare(answers) == Cardinality(Contradictions(answers))

ConflictCount(answers) ==
    Cardinality(Contradictions(answers)) + (IF Cardinality(Successful(answers)) < 2 THEN 1 ELSE 0)

\* What two answers are compared by: their claims, or else their whole text.
Topics(a) == IF a.claims = {} THEN a.about ELSE Subjects(a)

Overlap(a, b) ==
    IF Topics(a) = {} \/ Topics(b) = {} THEN 0
    ELSE (100 * Cardinality(Topics(a) \cap Topics(b)))
            \div Cardinality(Topics(a) \cup Topics(b))

\* _agreement_score.
AgreementScore(answers) ==
    LET pairs == Pairs(Successful(answers))
        overlap == [p \in pairs |-> Overlap(answers[p[1]], answers[p[2]])]
    IN  IF pairs = {} THEN 35 ELSE SumFunctionOnSet(overlap, pairs) \div Cardinality(pairs)

Clamp(x) == Max({0, Min({10000, x})})

\* _overall_confidence.
OverallConfidence(answers, minBrains) ==
    LET succ     == Successful(answers)
        score == [i \in succ |-> ResponseConfidence(answers[i])]
    IN  IF succ = {} THEN 0
        ELSE Clamp((65 * SumFunctionOnSet(score, succ)) \div Cardinality(succ)
                   + 35 * AgreementScore(answers)
                   - Min({3500, 800 * ConflictCount(answers)})
                   - (IF Cardinality(succ) < minBrains THEN 2500 ELSE 0))

\* The synthesis quotes the first answer of the highest score, 0 for none
\* (_merge_strongest_reasoning).
Strongest(answers) ==
    LET succ == Successful(answers)
    IN  IF succ = {} THEN 0
        ELSE CHOOSE i \in succ : \A j \in succ :
                \/ ScoreOf(answers[j]) < ScoreOf(answers[i])
                \/ ScoreOf(answers[j]) = ScoreOf(answers[i]) /\ i <= j

\* _shared_claims: the polarity does not count.
SharedClaims(answers) ==
    {c \in UNION {answers[i].claims : i \in DOMAIN answers} :
        \E i, j \in DOMAIN answers : /\ i # j
                                     /\ c \in answers[i].claims
                                     /\ c.subject \in Subjects(answers[j])}

\* run_consensus, once every brain asked has answered or failed.
ConsensusOf(answers, minBrains) ==
    [quoted |-> Strongest(answers),
     confidence |-> OverallConfidence(answers, minBrains),
     conflicts |-> Contradictions(answers),
     agreed |-> SharedClaims(answers)]
================================================================================
