------------------------------ MODULE MCKeywordJob ------------------------------
\* The instance that TLC checks: two keywords of different rank, and a chain that reads an
\* inquiry and posts it.
EXTENDS KeywordJob

CONSTANTS k1, k2

TwoRanks   == k1 :> 2 @@ k2 :> 1
ThreeRules == <<"open_inquiry", "webhook", "other">>
=============================================================================
