---------------------------- MODULE MCAbrPlayer ----------------------------
(***************************************************************************)
(* Small instances of the player for TLC.                                  *)
(***************************************************************************)
EXTENDS AbrPlayer, TLC

CONSTANTS p1, p2

OnePage == {p1}
TwoPages == {p1, p2}

SelfHome == [p \in Pages |-> p]

At(p, l) == [page |-> p, level |-> l]

Top == At(p1, 4)

Low == {150, 400, 1600}
Two == {150, 1600}

NoUrl == {None}
NoUrls == {}
OldUrl == {OldName}
AudioUrl == {At(p1, 0)}
Choices == {None, At(p1, 2), At(p1, 0)}

Symmetric == Permutations(Calls)
=============================================================================
