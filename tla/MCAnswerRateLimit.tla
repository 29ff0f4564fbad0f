------------------------ MODULE MCAnswerRateLimit ------------------------
(* Three client hosts for two buckets: evictions and purges happen.        *)
EXTENDS AnswerRateLimit, TLC

CONSTANTS c1, c2, c3

Hosts == Permutations({c1, c2, c3})
=============================================================================
