----------------------- MODULE MCAttachCommandStream -----------------------
EXTENDS AttachCommandStream
=============================================================================
