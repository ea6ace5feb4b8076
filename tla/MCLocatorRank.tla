--------------------------- MODULE MCLocatorRank ---------------------------
EXTENDS LocatorRank
MCTargets == {{"aria", "xpath"}, {"text", "id"}, {}}
MCContents == {<<>>, <<"shown">>, <<"hidden">>, <<"hidden", "shown">>, <<"shown", "shown">>,
    <<"shown", "hidden", "shown", "hidden">>}
=============================================================================
