---------------------------- MODULE MCSecretCache ----------------------------
(***************************************************************************)
(* Two names, two values, three session keys.                              *)
(***************************************************************************)
EXTENDS SecretCache

CONSTANTS n1, n2, v1, v2, k1, k2, k3

MCNames == {n1, n2}
MCValues == {v1, v2}
MCKeys == {k1, k2, k3}
=============================================================================
