---------------------------- MODULE MCLeadPipeline ----------------------------
(* Instances of LeadPipeline for TLC.                                      *)
EXTENDS LeadPipelineImplements, TLC

CONSTANTS b1, b2, k1, k2

\* Two rows, by name, the second the better match, ...
TwoKeys == (b1 :> k1) @@ (b2 :> k2)
TwoRank == (b1 :> 1) @@ (b2 :> 2)

\* ... which may be opened when the first is looked for.
LookAlike == {<<b2, b1>>}

\* Few leads are counted, to see all orders of what happens to them.
CountedLeads == MapThenSumSet(LAMBDA f : counted[f], Prints)
FewCounted   == CountedLeads <= 2
===============================================================================
