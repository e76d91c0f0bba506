--------------------------- MODULE MCWsConnection ---------------------------
(* Constant values for model-checking WsConnection.                        *)
EXTENDS WsConnection, TLC

CONSTANTS a, b, n1, k1, k2

Subscription == [ops |-> {"subscription"}, sel |-> "subscription"]
Query == [ops |-> {"query"}, sel |-> "query"]
Mutation == [ops |-> {"mutation"}, sel |-> "mutation"]

PlainPayloads == {Subscription, Mutation}
LivePayloads == {Subscription, Query}
OnlySubscriptions == {Subscription}

\* Tokens: short-lived, long-lived, without exp, signed with an unknown key.
ShortToken == [key |-> k1, exp |-> 1]
LongToken == [key |-> k1, exp |-> 2]
EternalToken == [key |-> k1, exp |-> -1]
ForeignToken == [key |-> k2, exp |-> 2]
AllTokens == {ShortToken, LongToken, EternalToken, ForeignToken}
OneToken == {ShortToken}
=============================================================================
