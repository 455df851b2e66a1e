--------------------------- MODULE MCGroupRooms ---------------------------
\* A message to all, which releases whoever is held, and one that stops a
\* member.
EXTENDS GroupRooms

toAll == [names |-> {}, everyone |-> TRUE, stop |-> "none"]
holdOne == [names |-> {1}, everyone |-> FALSE, stop |-> "adjacent"]
Said == {toAll, holdOne}
=============================================================================
