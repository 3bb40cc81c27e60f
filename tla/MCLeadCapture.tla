----------------------------- MODULE MCLeadCapture -----------------------------
(* Two rows for one product, from two cities: their panels match each other but *)
(* for the address, when they show it.                                          *)
EXTENDS LeadCapture

CONSTANTS l1, l2

MCPairs == {l1, l2} \X {l1, l2}
MCCity  == [l \in {l1, l2} |-> IF l = l1 THEN "pune" ELSE "surat"]

LooksLike(k, S) == [kind |-> k, shows |-> S]
\* The page with a card left open, a panel, and two response cards; that of a row may change
\* from one to the other, as it does when its clock ticks.
MCLooks == {LooksLike("feed", {"contact"}), LooksLike("titled", {"address", "name", "contact"}),
            LooksLike("popup", {"contact"}), LooksLike("popup", {"name", "contact"})}
=============================================================================
