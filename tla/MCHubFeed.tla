------------------------------ MODULE MCHubFeed ------------------------------
EXTENDS HubFeed

TwoRooms == {"technocore", "ops"}

\* The other room stays as it is, so that its numbers differ from those of the first.
OneBusy == [r \in TwoRooms |-> IF r = Home THEN 3 ELSE 0]
=============================================================================
