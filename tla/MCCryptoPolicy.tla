-------------------------- MODULE MCCryptoPolicy --------------------------
(* TLC instances of CryptoPolicy.                                          *)
EXTENDS CryptoPolicy

\* The file may set password_encryption besides the policy.
MCFileValues == [[x \in Params |-> {}] EXCEPT !.password_encryption = {"md5"}]
=============================================================================
