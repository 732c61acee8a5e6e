------------------------- MODULE MCTeacherIndexBuild -------------------------
\* A dataset with a duplicate row; the last prompt's answers may be fragile.
EXTENDS TeacherIndexBuild

CONSTANTS a, b, c

MCDataset == <<a, b, a, c>>
=============================================================================
