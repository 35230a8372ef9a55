-------------------------- MODULE MCSharedDocument --------------------------
EXTENDS SharedDocument, TLC

CONSTANTS s1, s2, s3, o1, o2, k1, k2, original, pulled

\* s2 retries s1.
RetryKeys == s1 :> k1 @@ s2 :> k1 @@ s3 :> k2

\* A save and its retry are interchangeable, and so are two opens.
TwinsAndOpens == Permutations({s1, s2}) \cup Permutations({o1, o2})
=============================================================================
