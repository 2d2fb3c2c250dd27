---------------------------- MODULE RtspAddressing ----------------------------
(***************************************************************************)
(* What an RTSP request says of where: the path and the track its URI      *)
(* names, path_of() and split_track() of src/src/rtsp/session.rs, and the  *)
(* ways of sending a track its Transport header offers, the Transport of   *)
(* src/src/rtsp/message.rs.                                                *)
(*                                                                         *)
(* A URI is a sequence of words and of the separators "://", "/", "?" and  *)
(* "="; a Transport header a sequence of forms, each with a protocol and a *)
(* sequence of parameters <<name, value>>, whose value is <<a, b>> if it   *)
(* was written as two numbers and << >> if it was written otherwise.       *)
(***************************************************************************)
EXTENDS Integers, Sequences, SequencesExt

CONSTANTS
  Numerals,       \* the words that are numbers, as a function to these
  U8, U16,        \* how many values a channel and a port have, 2^8 and 2^16
  None            \* no track, no transport

ASSUMPTION AddressingAssumption ==
  /\ U8 \in Nat /\ U16 \in Nat /\ U8 <= U16
  /\ DOMAIN Numerals \intersect {"://", "/", "?", "="} = {}
  /\ \A word \in DOMAIN Numerals : Numerals[word] # None
  /\ None \notin [is : {"interleaved", "udp"}, rtp : Int, rtcp : Int]

(***************************************************************************)
(* URIs                                                                    *)
(***************************************************************************)

Places(text, sep) == {i \in DOMAIN text : text[i] = sep}

\* Up to a separator and after it: the first one there is, or the last.
Before(text, i) == SubSeq(text, 1, i - 1)
After(text, i) == SubSeq(text, i + 1, Len(text))
FirstAt(text, sep) == Min(Places(text, sep))
LastAt(text, sep) == Max(Places(text, sep))

\* trim_matches('/') and trim_end_matches('/')
TrimEnd(text) ==
  LET kept == {i \in DOMAIN text : text[i] # "/"}
  IN IF kept = {} THEN << >> ELSE SubSeq(text, 1, Max(kept))

Trim(text) ==
  LET kept == {i \in DOMAIN text : text[i] # "/"}
  IN IF kept = {} THEN << >> ELSE SubSeq(text, Min(kept), Max(kept))

\* Past the scheme and the authority if it has any, and without its query.
path_of(uri) ==
  LET rest == IF Places(uri, "://") = {} THEN uri ELSE After(uri, FirstAt(uri, "://"))
      path == IF Places(uri, "://") = {} THEN rest
              ELSE IF Places(rest, "/") = {} THEN << >> ELSE After(rest, FirstAt(rest, "/"))
  IN Trim(IF Places(path, "?") = {} THEN path ELSE Before(path, FirstAt(path, "?")))

\* Mutant: a stream is named by its first segment.
split_track_first(path) ==
  LET i == FirstAt(path, "/")
      last == After(path, i)
      j == FirstAt(last, "=")
      named == /\ Places(path, "/") # {}
               /\ Places(last, "=") # {}
               /\ Before(last, j) \in {<<"trackid">>, <<"streamid">>, <<"track">>}
               /\ Len(After(last, j)) = 1 /\ After(last, j)[1] \in DOMAIN Numerals
  IN IF named THEN [stream |-> Before(path, i), track |-> Numerals[After(last, j)[1]]]
     ELSE [stream |-> path, track |-> None]

\* The last segment, if it is the control of a track.
split_track(path) ==
  LET i == LastAt(path, "/")
      last == After(path, i)
      j == FirstAt(last, "=")
      named == /\ Places(path, "/") # {}
               /\ Places(last, "=") # {}
               /\ Before(last, j) \in {<<"trackid">>, <<"streamid">>, <<"track">>}
               /\ Len(After(last, j)) = 1 /\ After(last, j)[1] \in DOMAIN Numerals
  IN IF named THEN [stream |-> Before(path, i), track |-> Numerals[After(last, j)[1]]]
     ELSE [stream |-> path, track |-> None]

\* describe(): what the controls of the SDP are to be resolved against.
ContentBase(uri) == TrimEnd(uri) \o <<"/">>

\* The control that the SDP gives a track.
Control(numeral) == <<"trackid", "=", numeral>>

(***************************************************************************)
(* Transports                                                              *)
(***************************************************************************)

Interleaved(pair) == [is |-> "interleaved", rtp |-> pair[1], rtcp |-> pair[2]]
Udp(pair) == [is |-> "udp", rtp |-> pair[1], rtcp |-> pair[2]]

\* Two numbers of 16 bits.
Pair(value) == IF Len(value) = 2 /\ value[1] < U16 /\ value[2] < U16 THEN value ELSE << >>

\* The last parameter of a name, or << >>.
Stated(params, name) ==
  LET at == {i \in DOMAIN params : params[i][1] = name}
  IN IF at = {} THEN << >> ELSE Pair(params[Max(at)][2])

\* A form that this can express; a channel has 8 bits.
parse_one(form) ==
  LET over_tcp == form.protocol = "RTP/AVP/TCP"
      pair == Stated(form.params, IF over_tcp THEN "interleaved" ELSE "client_port")
  IN IF \/ form.protocol \notin {"RTP/AVP", "RTP/AVP/UDP", "RTP/AVP/TCP"}
        \/ \E i \in DOMAIN form.params : form.params[i][1] = "multicast"
        \/ pair = << >>
        \/ over_tcp /\ (pair[1] >= U8 \/ pair[2] >= U8)
     THEN None
     ELSE IF over_tcp THEN Interleaved(pair) ELSE Udp(pair)

\* Where a form stands that can be expressed, as the client would prefer them.
offered(header) == {i \in DOMAIN header : parse_one(header[i]) # None}

\* Mutant: the first form that can be expressed is agreed to.
ChosenFirst(header) ==
  IF offered(header) = {} THEN None ELSE parse_one(header[Min(offered(header))])

\* setup(): the first that the server can send on, which UDP is not.
Chosen(header) ==
  LET sendable == {i \in offered(header) : parse_one(header[i]).is = "interleaved"}
  IN IF sendable = {} THEN None ELSE parse_one(header[Min(sendable)])

\* The header a SETUP is answered with.
to_header(t) ==
  IF t.is = "interleaved"
  THEN [protocol |-> "RTP/AVP/TCP", params |-> <<<<"unicast", << >>>>, <<"interleaved", <<t.rtp, t.rtcp>>>>>>]
  ELSE [protocol |-> "RTP/AVP", params |-> <<<<"unicast", << >>>>, <<"client_port", <<t.rtp, t.rtcp>>>>>>]
=============================================================================
