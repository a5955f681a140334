--------------------------- MODULE MCSkyTeardown ---------------------------
(* Small instances of SkyTeardown for TLC.                                  *)
EXTENDS SkyTeardown

CONSTANTS c1, c2, c3

\* cluster_name_patterns_for_run: the tag itself, and the tag with a suffix.
MCPatterns == <<{c1}, {c2, c3}>>
=============================================================================
