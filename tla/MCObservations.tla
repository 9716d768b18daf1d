-------------------------- MODULE MCObservations --------------------------
(* A site for TLC: two documents, and a link to a third URL.               *)
EXTENDS Observations

MCDocs == {1, 2}
MCAddress == <<1, 2>>
MCShows == <<{1, 2}, {3}>>
MCLinksTo == <<{2}, {3}>>
MCLabelOf == <<1, 1, 1>>
=============================================================================
