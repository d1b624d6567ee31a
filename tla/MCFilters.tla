------------------------------ MODULE MCFilters ------------------------------
EXTENDS Filters
CONSTANTS rock, jazz, ann, bob
MCTracks == {<<rock, ann>>, <<jazz, bob>>}
MCDelayed == {1}
=============================================================================
