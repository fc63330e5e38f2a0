---------------------------- MODULE MCRedisClient ----------------------------
EXTENDS RedisClient
=============================================================================
