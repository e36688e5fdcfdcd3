------------------------------ MODULE Identity ------------------------------
(***************************************************************************)
(* The identity of a node (crates/host/src/network/identity.rs and          *)
(* crypto_key.rs): three key pairs, made once, kept in identity.json in     *)
(* clear or sealed with a passphrase, and taken from there at every start.  *)
(* Keys are symbolic: the number of the start that made them.               *)
(***************************************************************************)
EXTENDS Integers

Passphrase == "passphrase"
NoPassphrase == "none"
KeyPairs == {"ed25519", "x25519", "ml_kem"}

\* generate(): all three at once.
Generate(number) == [k \in KeyPairs |-> number]

\* The file: there or not, opened and still empty, or whole: its keys, and what they
\* are sealed with.
IdentityFile(kind, keys, seal) == [kind |-> kind, keys |-> keys, seal |-> seal]
NoKeys == [k \in {} |-> 0]
NoIdentity == IdentityFile("absent", NoKeys, NoPassphrase)
OpenedIdentity == IdentityFile("empty", NoKeys, NoPassphrase)

\* save(): every secret sealed, or none.
SavedIdentity(node, pass) == IdentityFile("whole", node, pass)
\* As it was saved before there were ML-KEM keys.
OlderIdentity == IdentityFile("whole", [k \in KeyPairs \ {"ml_kem"} |-> 0], NoPassphrase)

\* decrypt_with_passphrase(): with what it was sealed with, or not at all.
Unseals(file, pass) == file.seal \in {NoPassphrase, pass}

\* load_or_create() of a file that is there: the node it holds, or an error.  An empty
\* X25519 key would be made anew; an empty ML-KEM key is refused, although the format
\* allows it.  Mutant: what cannot be read counts as no identity.
LoadOrRenew(file, pass, number) ==
  IF file.kind = "whole" /\ Unseals(file, pass) THEN {file.keys} ELSE {Generate(number)}
Load(file, pass, number) ==
  IF /\ file.kind = "whole" /\ Unseals(file, pass)
     /\ {"ed25519", "ml_kem"} \subseteq DOMAIN file.keys
  THEN {[k \in KeyPairs |-> IF k \in DOMAIN file.keys THEN file.keys[k] ELSE number]}
  ELSE {}
=============================================================================
