----------------------------- MODULE MCInitOrder -----------------------------
\* Every dependency graph over N functions; a function has no initializer, one,
\* or two for the same arguments.
EXTENDS InitOrder

Lists == {<<>>, <<1>>, <<1, 1>>}

=============================================================================
