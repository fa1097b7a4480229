------------------------------ MODULE MCBrowserTab ------------------------------
\* Contents of a section are interchangeable: nothing orders or chooses them.
EXTENDS BrowserTab, TLC

Symmetric == Permutations(Contents)
=============================================================================
