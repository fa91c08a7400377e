------------------------------ MODULE MCAccess ------------------------------
(***************************************************************************)
(* One reader, one library with a series of each category and a second     *)
(* library, one token and two administrators at work.                      *)
(***************************************************************************)
EXTENDS Access, TLC

CONSTANTS u1, l1, l2, comics, manga, s1, s2, s3, t1, a1, a2, g1

MCLibraryOf == (s1 :> l1) @@ (s2 :> l1) @@ (s3 :> l2)
MCCategoryOf == (s1 :> manga) @@ (s2 :> comics) @@ (s3 :> manga)

G(l, c, s) == [lib |-> l, cat |-> c, series |-> s]

\* A series whose content type is left out, and one of another library, are possible requests.
MCSelections ==
    {{}, {G(l1, None, None)}, {G(l1, manga, None), G(l1, manga, s1)}, {G(l1, manga, s1), G(l2, None, None)},
     {G(l1, None, s1)}, {G(l1, comics, None), G(l1, None, None)}, {G(l2, manga, s1)}}

\* One that reads, one that proposes, one that places.
MCCapabilities ==
    {{"catalog:read", "metadata:read"}, {"catalog:read", "ingest:stage"}, {"metadata:read", "ingest:commit"}}

Symmetry == Permutations({a1, a2})
=============================================================================
