------------------------------- MODULE MCBrowser -------------------------------
\* Instance of Browser for TLC.
EXTENDS Browser
=============================================================================
