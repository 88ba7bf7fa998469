----------------------------- MODULE MCFraming -----------------------------
(* A browser's upgrade request and the page's API request for TLC. *)
EXTENDS Framing

Browser == <<"request", "Connection", "Upgrade", "Cookie", "Sec-WebSocket-Key",
             "Other", "blank">>
Page == <<"request", "Other", "Cookie", "blank", "body">>
=============================================================================
