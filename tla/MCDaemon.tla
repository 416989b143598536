------------------------------ MODULE MCDaemon ------------------------------
(* Daemon.tla for TLC: a tree with a directory whose path just fits in cwd,  *)
(* one that does not and one that is cut; paths to them and bad ones.        *)
EXTENDS Daemon

a == <<"a">>
aa == <<"a", "a">>

Characters == {"a", "b", "/", ".", " ", "0", "1"}

Tree == {<<a>>, <<a, a>>, <<a, aa>>, <<a, a, a>>, <<aa>>, <<aa, aa>>}
FilesOnCard == {<<a, <<"b">>>>}

slash == <<"/">>
CardPaths ==
  {<<>>, slash, a, aa, a \o slash, a \o slash \o slash, slash \o a, slash \o aa,
   aa \o slash \o aa, slash \o slash \o a,
   <<".">>, <<".", ".">>, <<"b">>, a \o slash \o a \o slash \o aa}

zero == <<"0", " ">>
one == <<"1", " ">>
blank == <<" ">>
Lines ==
  {one \o aa, zero \o a \o blank \o a, one \o a \o blank \o aa \o blank \o a,
   zero, zero \o blank \o a, a, a \o blank \o a,
   zero \o aa \o aa \o aa \o blank \o aa \o aa \o aa}

Listing == {<<>>, a}
=============================================================================
