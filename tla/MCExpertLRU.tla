---- MODULE MCExpertLRU ----
EXTENDS ExpertLRU
CONSTANTS k1, k2, k3, k4
MCSize == k1 :> 1 @@ k2 :> 1 @@ k3 :> 2 @@ k4 :> 3
====
