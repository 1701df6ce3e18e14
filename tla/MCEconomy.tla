------------------------------ MODULE MCEconomy ------------------------------
EXTENDS Economy

CONSTANTS r0, r1, r2, u1, gold, gems, silver, other

\* Two events of one user in two currencies.  With silver in the only slot both
\* count as other; with the slot free they race for it.
MCUserOf == r1 :> u1 @@ r2 :> u1
MCCurrencyOf == r1 :> gold @@ r2 :> gems
SameFlowOf == r1 :> "source" @@ r2 :> "source"
MCAmountOf == r1 :> 20 @@ r2 :> 4
MCAsOf == r1 :> 3 @@ r2 :> 2
MCArrived == r1 :> 5 @@ r2 :> 6
MCIdOf == r1 :> 1 @@ r2 :> 2
MCRegistries == {{silver}}
MCStored == <<u1, other>> :> [asOf |-> 2, from |-> r0]
=============================================================================
