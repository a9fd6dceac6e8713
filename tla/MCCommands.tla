----------------------------- MODULE MCCommands -----------------------------
EXTENDS Commands

\* The last 5.x release line and the first version with HELLO.
MCVersions == {<<5, 0, 7>>, <<6, 0, 0>>}

MCOpCmds == <<"c1", "c2">>

\* Every builder of the model.
MCKinds ==
    {"bitcount", "bitpos", "copy", "getex", "restore", "set",
     "xadd", "xautoclaim", "xclaim", "xpending_range", "xrange", "xrevrange",
     "xread", "xreadgroup", "xtrim",
     "zadd", "zmpop", "bzmpop", "_zrange",
     "geoadd", "geodist", "_georadiusgeneric", "_geosearchgeneric",
     "lpos", "sort",
     "client_kill_filter", "client_list", "client_tracking", "client_pause",
     "stralgo", "zrangebylex", "zrevrangebylex", "zrangebyscore", "zrevrangebyscore",
     "zmscore", "_zaggregate", "client_reply", "migrate", "script_flush",
     "acl_genpass", "acl_log", "acl_setuser", "hset", "hmset", "shutdown",
     "hrandfield", "zrandmember", "lcs", "scan", "sscan", "hscan", "zscan"}
=============================================================================
