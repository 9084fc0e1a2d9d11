----------------------------- MODULE MCRoundTrip -----------------------------
EXTENDS RoundTrip
=============================================================================
