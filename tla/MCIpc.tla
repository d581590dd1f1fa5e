-------------------------------- MODULE MCIpc -------------------------------
EXTENDS IpcServer
=============================================================================
