---------------------------- MODULE MCDoubleBuffer ----------------------------
EXTENDS DoubleBuffer

\* The goroutines of a connection that write replies.
CONSTANTS handler, subscriber

JustHandler == {handler}
HandlerAndSubscriber == {handler, subscriber}
Nobody == {}
=============================================================================
