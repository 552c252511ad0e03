--------------------------- MODULE MCInstallations ---------------------------
(* Small instances of Installations.                                       *)
EXTENDS Installations, TLC

Symmetry == Permutations(Users) \union Permutations(Repos) \union Permutations(Jobs)

=============================================================================
