--------------------------- MODULE MCPageContent ---------------------------
\* Constant values for the runs of PageContent: a chunk of two pages and one of a page,
\* the second page with up to three items.
EXTENDS PageContent
MCChunkEnds == {2, 3}
MCItems == <<1, 3, 1>>
=============================================================================
