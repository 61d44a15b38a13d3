----------------------------- MODULE MCCatalog -----------------------------
(***************************************************************************)
(* A small instance of Catalog: three videos on two pages, one of which    *)
(* admins and operators edit.                                              *)
(***************************************************************************)
EXTENDS Catalog

CONSTANTS v1, v2, v3

ThreeVideos == {v1, v2, v3}
OneEdited == {v1}
\* The edited video is on the second page, behind a full page or behind one
\* that a blank item shortens.
SomeLibraries == {<<v2, v3, v1>>, <<v2, Blank, v1>>}
TwoPrices == {25, 40}
=============================================================================
