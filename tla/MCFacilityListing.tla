------------------------- MODULE MCFacilityListing -------------------------
EXTENDS FacilityListing, TLC

CONSTANTS sports, park

Everything == NoFilter
Parks == [NoFilter EXCEPT !.facilityType = park]
Searched == [NoFilter EXCEPT !.search = TRUE]
Nearby == [NoFilter EXCEPT !.radiusMeters = 1]

AllQueries == {Everything, Parks, Searched, Nearby}

\* Facilities 1 and 3 share a name and a distance with others in some initial states.
FacilitySet == {1, 2, 3}
=============================================================================
