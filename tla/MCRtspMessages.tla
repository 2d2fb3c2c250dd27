---------------------------- MODULE MCRtspMessages ----------------------------
(***************************************************************************)
(* RtspMessages for TLC: two paths of which one is below the other in      *)
(* name, two tracks, bodies and payloads that look like requests and       *)
(* frames, and something of each kind that cannot be read.                 *)
(***************************************************************************)
EXTENDS RtspMessages, TLC

MCNumerals == "0" :> 0 @@ "1" :> 1

Host == <<"rtsp", "://", "host", "/">>
Live == <<"live">>
Cam == <<"live", "/", "cam">>
MCUris == {Host \o Live, Host \o Cam \o <<"/">>}
UrisWithQuery == {Host \o Cam \o <<"?", "token">>}
MCTracks == Live :> {0} @@ Cam :> {0, 1}

Form(protocol, params) == [protocol |-> protocol, params |-> params]
Tcp(a, b) == Form("RTP/AVP/TCP", <<<<"interleaved", <<a, b>>>>>>)
Multicast == Form("RTP/AVP", <<<<"multicast", << >>>>, <<"client_port", <<2, 3>>>>>>)
ToPorts == Form("RTP/AVP", <<<<"client_port", <<2, 3>>>>>>)
MCHeaders == {<<Multicast, ToPorts, Tcp(2, 3)>>, <<Tcp(0, 4)>>}

Blanks == <<CRLF, CRLF>>
LooksLikeARequest == <<Line([method |-> "OPTIONS", uri |-> <<"*">>, version |-> "RTSP/1.0"])>> \o Blanks
LooksLikeAFrame == <<DOLLAR, Byte(0), Byte(1)>>

MCSdp == <<CRLF, CRLF>>
MCPacket == <<DOLLAR>>

With(what, headers, body) == [what EXCEPT !.headers = headers, !.body = body]
Counted(n) == <<[name |-> "Content-Length", value |-> n]>>
Options == Request("OPTIONS", <<"*">>, << >>)

MCOthers == {
  \* a client that knows its way without a DESCRIBE
  Request("SETUP", Host \o Cam \o <<"/">> \o Control("0"),
          <<[name |-> "Transport", value |-> <<Tcp(2, 3)>>]>>),
  Request("PLAY", Host \o Cam, << >>),
  Request("PAUSE", Host \o Cam, << >>),
  Request("TEARDOWN", Host \o Cam, << >>),
  With(Options, Counted(3), LooksLikeARequest),
  With(Options, Counted(3), LooksLikeAFrame),
  Frame(1, Blanks),
  \* a head that is too long unless it arrives whole
  With(Options, [i \in 1..3 |-> [name |-> "X", value |-> i]], << >>),
  \* what cannot be read
  [is |-> "noise"],
  With(Options, Counted(MAX_BODY + 1), << >>),
  With(Options, <<[name |-> None, value |-> 0]>>, << >>),
  [Options EXCEPT !.line.version = "HTTP/1.1"]}

\* Two theorems of RtspMessagesProofs are about such clients.
ASSUME EveryOfferIsWell /\ (Uris = MCUris => EveryUriIsPlain)
=============================================================================
