----------------------------- MODULE MCCatalog -----------------------------
(***************************************************************************)
(* A library of one series with two volumes, on a mount that comes and     *)
(* goes beside the original one, and an empty library on that one.         *)
(***************************************************************************)
EXTENDS Catalog, TLC

CONSTANTS m1, m2, home, apart, inside, l1, l2, s1, f1, f2, e1, e2

MCOverlaps == {{apart, inside}}
MCMountOf == (l1 :> m2) @@ (l2 :> m1)
MCLibraryOf == s1 :> l1
MCSeriesOf == (f1 :> s1) @@ (f2 :> s1)

NoFiles == \A f \in Files : disk[f] = None

\* The starts that differ only in the names of the files, of the two versions that can
\* be indexed, or of the two directories that overlap, stand for each other.  The database
\* has adopted if it has any library; the original mount's one was never added.  Bound: at
\* most one archive cannot be indexed to begin with.
MCInit ==
    /\ Init
    /\ disk[f1] = None \/ (disk[f2] # None /\ disk[f1] <= disk[f2])
    /\ ~({disk[f1], disk[f2]} \subseteq Unsafe \cup Breaking)
    /\ 2 \in {disk[f1], disk[f2]} => disk[f1] = 1
    /\ mount[m2] # None => mount[m2].path = apart
    /\ lib[l2] = "none" /\ adopted = (lib[l1] # "none")

MCSpec == MCInit /\ [][Next]_vars /\ Fairness

\* Bounds: two requests overlap only while there is no file, and the library of the original
\* mount is adopted, never added, removed or scanned by itself.
FewRequests ==
    /\ edit'[e2].pc # "idle" => NoFiles'
    /\ \A e \in Editors : edit'[e].lib # l2
    /\ scan'.scope # l2
=============================================================================
