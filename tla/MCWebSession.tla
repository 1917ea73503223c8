----------------------------- MODULE MCWebSession -----------------------------
(* Small instances of WebSession for TLC.                                  *)
EXTENDS WebSession, TLC

CONSTANTS t1, t2, u1, u2, k1, k2, k3

OneTab  == {t1}
TwoTabs == {t1, t2}
TwoUsers == {u1, u2}
TwoTokens == {k1, k2}
ThreeTokens == {k1, k2, k3}

FirstTokenIsU1 == [k \in Token |-> IF k = k1 THEN u1 ELSE u2]

(* Tabs are alike, and so are two accounts with a token each.              *)
AccountsSwapped == k1 :> k2 @@ k2 :> k1 @@ u1 :> u2 @@ u2 :> u1
AllAlike == Permutations(Tab) \cup {AccountsSwapped}

=============================================================================
