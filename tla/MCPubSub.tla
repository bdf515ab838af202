------------------------------- MODULE MCPubSub -------------------------------
EXTENDS PubSub

CONSTANTS c1, c2, news, chat

TwoConns == {c1, c2}
TwoChannels == {news, chat}
=============================================================================
