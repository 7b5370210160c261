--------------------------- MODULE MCVaultQueries ---------------------------
(***************************************************************************)
(* A small vault: a file at the root and a file in each of two folders.    *)
(***************************************************************************)
EXTENDS VaultQueries, TLC

CONSTANTS o1, o2, i1, i2

MCPaths   == {<<"a">>, <<"d", "a">>, <<"e", "a">>}
MCFolders == {<<"d">>, <<"e">>}
Symmetry  == Permutations({o1, o2}) \union Permutations({i1, i2})
=============================================================================
