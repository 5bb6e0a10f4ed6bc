----------------------------- MODULE MCCatalog -----------------------------
EXTENDS Catalog

\* Two reports of one profile, of which the second may replace the first.
MCProfileOf == <<"broad", "broad">>
=============================================================================
