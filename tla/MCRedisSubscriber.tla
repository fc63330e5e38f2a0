-------------------------- MODULE MCRedisSubscriber --------------------------
EXTENDS RedisSubscriber
=============================================================================
