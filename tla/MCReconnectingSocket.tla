----------------------- MODULE MCReconnectingSocket -----------------------
EXTENDS ReconnectingSocket, TLC

\* Platform sockets are only names.
Symmetric == Permutations(Socket)
============================================================================
