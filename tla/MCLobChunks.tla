----------------------------- MODULE MCLobChunks -----------------------------
EXTENDS LobChunks

mcLobCols == <<"clob", "dbclob">>
=============================================================================
