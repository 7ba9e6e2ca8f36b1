----------------------------- MODULE TextMatching -----------------------------
(***************************************************************************)
(* Texts and how the correlator compares and redacts them.  A text is      *)
(* [words, spelling]: its words, each standing for a run of tokens, and    *)
(* one of the ways to write them (case, quoting, fences, white space) that *)
(* normalization makes equal.  "ok" and "hi" are words of two bytes, the   *)
(* others are long.  "inject" bears an injection keyword, "form" is text   *)
(* of low entropy, "key" a secret token, "glued" one inside a longer token *)
(* that is not recognized, "begin" and "end" are the markers of a PEM block and "body" what *)
(* stands between them.                                                    *)
(***************************************************************************)
EXTENDS Naturals, FiniteSets, Sequences, SequencesExt

Words == {"ok", "hi", "inject", "chat", "news", "form", "key", "glued", "begin", "body", "end"}

\* Whether the word at i is within a PEM block depends on the last marker before it.
InBlock(words, i) ==
    \E j \in 1 .. i - 1 : words[j] = "begin" /\ \A k \in j + 1 .. i - 1 : words[k] # "end"

IsText(text) ==
    /\ text \in [words : Seq(Words), spelling : Nat]
    /\ \A i \in DOMAIN text.words : text.words[i] = "body" => InBlock(text.words, i)

\* normalize_text
Norm(text) == text.words

BytesOf(words) ==
    LET short == {i \in DOMAIN words : words[i] \in {"ok", "hi"}}
    IN  2 * Cardinality(short) + 32 * Cardinality(DOMAIN words \ short)

\* hits_keyword
HitsKeyword(words) == "inject" \in Range(words)

\* normalized_entropy, is_suppressible_template_shape
TemplateShape(words) == BytesOf(words) >= 32 /\ Range(words) \subseteq {"form"}

\* minhash_signature, minhash_jaccard, in hundredths: estimated as the Jaccard
\* index of the words.  A text of less than five bytes has no gram, and all
\* such texts have the same signature.
Jaccard(a, b) ==
    IF BytesOf(a) < 5 \/ BytesOf(b) < 5
    THEN IF BytesOf(a) < 5 /\ BytesOf(b) < 5 THEN 100 ELSE 0
    ELSE (100 * Cardinality(Range(a) \cap Range(b))) \div Cardinality(Range(a) \cup Range(b))

\* match_score: the first tier that holds, and its score in hundredths.
Tier(name, score) == [tier |-> name, score |-> score]

MatchScore(artifact, prompt) ==
    LET a == Norm(artifact)
        p == Norm(prompt)
    IN  IF artifact = prompt THEN Tier("exact", 40)
        ELSE IF a = p THEN Tier("normalized_exact", 30)
        ELSE IF Jaccard(a, p) >= 60 THEN Tier("near_exact", Jaccard(a, p) \div 5)
        ELSE IF BytesOf(a) >= 64 /\ (\E i, j \in DOMAIN p : SubSeq(p, i, j) = a)
        THEN Tier("substring", 15)
        ELSE Tier("none", 0)

\* A slip: the words of a PEM block are left as they are.
MaskMarkersOnly(word, in_pem) ==
    IF word \in {"begin", "end"} THEN "[PEM]" ELSE IF word = "key" THEN "[SECRET]" ELSE word

\* redact_excerpt_string, of a token.
Mask(word, in_pem) ==
    IF word \in {"begin", "end"} \/ in_pem THEN "[PEM]"
    ELSE IF word = "key" THEN "[SECRET]" ELSE word

\* redact_excerpt_string: equal masks are written once.
Redacted(words) ==
    LET masked == [i \in DOMAIN words |-> Mask(words[i], InBlock(words, i))]
        again(i) == i > 1 /\ masked[i] = masked[i - 1] /\ masked[i] \in {"[PEM]", "[SECRET]"}
        written[i \in 0 .. Len(words)] ==
            IF i = 0 THEN <<>>
            ELSE IF again(i) THEN written[i - 1] ELSE Append(written[i - 1], masked[i])
    IN  written[Len(words)]
=============================================================================
