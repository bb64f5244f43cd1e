------------------------ MODULE MCFolderChangeReader ------------------------
(* The owner's thread, two threads of the pool, and three changes.           *)
EXTENDS FolderChangeReader

CONSTANTS p1, p2

MCPool == {p1, p2}
=============================================================================
