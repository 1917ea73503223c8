------------------------------ MODULE MCAccounts ------------------------------
(* A small instance of Accounts for TLC: two runs or requests at a time,   *)
(* two ids, two names, not typed in canonical form.                      *)
EXTENDS Accounts, TLC

CONSTANTS p1, p2, i1, i2, ali, sara, AliTyped, SaraTyped, good, short

TwoProcs == {p1, p2}
TwoIds   == {i1, i2}
TwoNames == {ali, sara}
TwoTyped == {AliTyped, SaraTyped}
CanonicalOf == [t \in Typed |->
                  IF t = AliTyped THEN ali ELSE sara]
Passwords == {good, short}
Shorts == {short}
AskedFew == {"people:create", NoPermission}
OfferedFew == {"operator", "admin", "typo"}

NamesSwapped == ali :> sara @@ sara :> ali
                @@ AliTyped :> SaraTyped @@ SaraTyped :> AliTyped

Alike == Permutations(Proc) \cup Permutations(Id) \cup {NamesSwapped}

=============================================================================
