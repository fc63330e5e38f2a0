------------------------ MODULE MCKjRedisClientConn ------------------------
EXTENDS KjRedisClientConn
=============================================================================
