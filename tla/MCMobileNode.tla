--------------------------- MODULE MCMobileNode ---------------------------
\* One request of any kind; a table that holds one id, so that another agent's
\* request fills it.
EXTENDS MobileNode

AllKinds == {"status", "location", "media"}
=============================================================================
