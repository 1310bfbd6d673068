---------------------------- MODULE MCRecDatastore ----------------------------
(* Instances of RecDatastore for TLC: the names "a" and "a/b".           *)
EXTENDS RecDatastore

MCNames == {"a", "a/b"}
MCExtends == {<<n, n>> : n \in MCNames} \cup {<<"a/b", "a">>}
=============================================================================
