------------------------ MODULE MCSuperblockControl -------------------------
EXTENDS SuperblockControl
MCAllOps == Operations \cup {"Write"}
=============================================================================
