------------------------- MODULE MCSegmentRotation --------------------------
EXTENDS SegmentRotation
=============================================================================
