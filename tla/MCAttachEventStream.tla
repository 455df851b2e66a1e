------------------------ MODULE MCAttachEventStream ------------------------
EXTENDS AttachEventStream
=============================================================================
