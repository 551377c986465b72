---------------------------- MODULE MCPollHandler -----------------------------
EXTENDS PollHandler

CONSTANTS s1, s2, s3

Both == {"socket", "timer"}
Timer == {"timer"}
TwoSources == {s1, s2}
ThreeSources == {s1, s2, s3}
=============================================================================
