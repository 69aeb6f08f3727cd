----------------------------- MODULE MCKeyStore -----------------------------
(***************************************************************************)
(* Instances of KeyStore for TLC: two default names, as DefaultSSHKeyFile- *)
(* Names gives each key type.                                              *)
(***************************************************************************)
EXTENDS KeyStore, TLC

CONSTANTS a, b, x, y, u1, u2

TwoLogins == {a, b}
TwoLogouts == {x, y}
OneLogout == {x}
OneUserKey == {u1}
TwoUserKeys == {u1, u2}

Alike == Permutations(Logins) \cup Permutations(Logouts) \cup Permutations(UserKeys)
=============================================================================
