---------------------------- MODULE MCWebEngine ----------------------------
\* Paths for the run of WebEngine.
EXTENDS WebEngine

\* Like "/" and "/v1" with "0" after it.
SomePaths == {<<"a">>, <<"a", "b">>}
=============================================================================
