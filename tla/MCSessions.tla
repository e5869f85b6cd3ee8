----------------------------- MODULE MCSessions -----------------------------
EXTENDS Sessions

\* Some(2), for ws_max_messages and sse_max_events.
SomeTwo == <<2>>
=============================================================================
